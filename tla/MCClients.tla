----------------------------- MODULE MCClients -----------------------------
(***************************************************************************)
(* What a client program does with its proxies and an owner with its       *)
(* objects, one part at a time: a property and its copy, signal proxies,    *)
(* the tree of objects, the opening of a connection, the tree of proxies. *)
(* The parts share no state, so a run takes one part and leaves the others *)
(* as they start.                                                          *)
(***************************************************************************)
EXTENDS PropertyCache, SignalRegistry, ObjectTree, Startup, ProxyTree

CONSTANTS p1, q, r1, i1, i2, n1, oa, ob, ix, iy, mx, my
VARIABLE part

MCKinds == {[access |-> "ReadWrite", update |-> "Updates"],
            [access |-> "ReadOnly", update |-> "Updates"],
            [access |-> "WriteOnly", update |-> "Const"]}
MCRuleOf == [p \in {p1, q} |-> r1]
MCAddresses ==
    LET MCPairs == {[key |-> k, value |-> v] : k \in {"path", "abstract", "guid"}, v \in {"a", "b"}}
        Both == <<[key |-> "path", value |-> "a"], [key |-> "abstract", value |-> "b"]>>
        Short == [name : {"unix", "tcp"}, pairs : {<<[key |-> "path", value |-> "b"]>>, Both}]
    IN {<<[name |-> "unix", pairs |-> <<x, y>>]>> : x, y \in MCPairs}
       \cup {<<t, u>> : t, u \in Short}
       \cup {<<t, [name |-> "autolaunch", pairs |-> <<>>]>> : t \in Short}
MCNameOf == [i \in {i1, i2} |-> n1]
MCInterfaceName == [i \in {ix, iy} |-> "iface"]
MCMethodName == [i \in {mx, my} |-> "method"]
MCFirstPath == [o \in {oa, ob} |-> IF o = oa THEN 1 ELSE 2]

Parts == {"cache", "signals", "tree", "start", "proxies"}
(* What the other parts choose is fixed before they choose it. *)
Init ==
    /\ part \in Parts
    /\ IF part = "start" THEN TRUE
       ELSE address = <<[name |-> "tcp", pairs |-> <<[key |-> "path", value |-> "b"]>>],
                        [name |-> "tcp", pairs |-> <<[key |-> "path", value |-> "b"]>>]>>
    /\ IF part = "proxies" THEN TRUE ELSE connectedTo = {}
    /\ IF part = "cache" THEN TRUE ELSE access = "ReadOnly"
    /\ CacheInit /\ SignalInit /\ TreeInit /\ StartInit /\ ProxyInit
Next ==
    \/ part = "cache" /\ CacheNext /\ UNCHANGED <<signalVars, treeVars, startVars, proxyVars, part>>
    \/ part = "signals" /\ SignalNext /\ UNCHANGED <<cacheVars, treeVars, startVars, proxyVars, part>>
    \/ part = "tree" /\ TreeNext /\ UNCHANGED <<cacheVars, signalVars, startVars, proxyVars, part>>
    \/ part = "start" /\ StartNext /\ UNCHANGED <<cacheVars, signalVars, treeVars, proxyVars, part>>
    \/ part = "proxies" /\ ProxyNext
        /\ UNCHANGED <<cacheVars, signalVars, treeVars, startVars, part>>
Spec == Init /\ [][Next]_<<cacheVars, signalVars, treeVars, startVars, proxyVars, part>>
             /\ SignalFairness
=============================================================================
