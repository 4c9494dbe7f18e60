--------------------------- MODULE MCDtlsSessions ---------------------------
(* Instance of DtlsSessions for TLC. *)
EXTENDS DtlsSessions

CONSTANTS restless, patient

\* Tasks that may be around at once: two for the client that is restless.
MCTask == {<<restless, 1>>, <<restless, 2>>, <<patient, 1>>}
=============================================================================
