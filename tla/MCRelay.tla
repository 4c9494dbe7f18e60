------------------------------ MODULE MCRelay -------------------------------
EXTENDS Relay, TLC
CONSTANTS ann, bob, cid, conf, other, radio
MCSends == (ann :> {"audio", "video"}) @@ (bob :> {"audio"}) @@ (cid :> {"audio"})
MCStyle ==
    (ann :> {"many", "stopped"}) @@ (bob :> {"plain", "many"}) @@ (cid :> {"plain"})
Home(x, y, z) == (ann :> x) @@ (bob :> y) @@ (cid :> z)
Scene(where, n, whose) == [home |-> where, joins |-> n, heard |-> whose]
MCScenario ==
    {Scene(Home(conf, conf, conf), 3, {}),
     Scene(Home(conf, conf, other), 4, {<<ann, "video">>}),
     Scene(Home(conf, radio, radio), 3, {<<bob, "audio">>, <<cid, "audio">>})}
ClaimScenario == {Scene(Home(conf, conf, radio), 3, {<<bob, "audio">>})}
=============================================================================
