----------------------------- MODULE MCEventStore -----------------------------
EXTENDS EventStore

MCPaths == {"cancel.event", "cancel.marker", "trial1", "trial2", "reservation",
            "failed1", "resolution", "draining"}
MCContents == {[body |-> b, at |-> t] : b \in {1, 2}, t \in {1, 2}}
MCAbsent == [body |-> 0, at |-> 0]

\* The durable events of the reconciler are the same whatever their time.
MCSame(p, old, new) == old = new \/ (p = "draining" /\ old.body = new.body)

Op(kind, P, body, at, unless) ==
    [kind |-> kind, new |-> [p \in P |-> [body |-> body, at |-> at]], unless |-> unless]

MCOps ==
    {Op("ensure", {"cancel.event", "cancel.marker"}, 1, 1, {}),
     Op("ensure", {"trial1", "trial2"}, 1, 1, {"cancel.marker"}),
     Op("ensure", {"reservation"}, 1, 1, {}),
     Op("ensure", {"draining"}, 1, 1, {}), Op("ensure", {"draining"}, 1, 2, {}),
     Op("ensure", {"draining"}, 2, 1, {}),
     Op("append", {"reservation"}, 1, 2, {}),
     Op("observe", {"failed1", "draining"}, 1, 1, {}),
     Op("ensure", {"resolution"}, 1, 1, {"failed1"})}
=============================================================================
