---------------------------- MODULE ClientProofs ----------------------------
(***************************************************************************)
(* Proofs for two of the modules that the run clients puts side by side, *)
(* for any number of objects, proxies, names, messages and operations.     *)
(*                                                                         *)
(* ObjectTree.  The copies that SignalsFollowTheObject speaks of are made  *)
(* in two steps, from the object to its interfaces and from an interface   *)
(* to its signals; the invariant has a conjunct for each.                  *)
(*                                                                         *)
(* ProxyTree.  An interface is listed by no object but the one it points   *)
(* to, a method that was never disowned by no interface but the one it     *)
(* points to, and the handler of an interface that was given an object     *)
(* once belongs to the connection of that object.                          *)
(***************************************************************************)
EXTENDS ObjectTree, ProxyTree, TLAPS

-----------------------------------------------------------------------------
(* ObjectTree                                                              *)

TreeTypes ==
    /\ connected \subseteq Objects
    /\ children \in [Objects -> SUBSET Objects]
    /\ ifaces \in [Objects -> [Names -> Interfaces \cup {Null}]]
    /\ home \in [Interfaces -> Objects \cup {Null}]
    /\ attached \subseteq Interfaces
    /\ signals \in [Interfaces -> SUBSET Signals]
    /\ signalHome \in [Signals -> Objects \cup {Null}]
    /\ signalIface \in [Signals -> Interfaces \cup {Null}]
    /\ signalBound \subseteq Signals

(* The object that lists an interface is the one whose path it has, and a   *)
(* connection that the object has is also the interface's.                  *)
InterfacesFollow ==
    \A o \in Objects, n \in Names : ifaces[o][n] # Null =>
        /\ home[ifaces[o][n]] = o
        /\ o \in connected => ifaces[o][n] \in attached
(* A signal is in one interface, whose path and connection it has. *)
SignalsFollow ==
    \A i \in Interfaces : \A s \in signals[i] :
        /\ signalIface[s] = i /\ signalHome[s] = home[i]
        /\ i \in attached => s \in signalBound
TreeInv == TreeTypes /\ InterfacesFollow /\ SignalsFollow

LEMMA TreeStarts == TreeInit => TreeInv
  BY DEF TreeInit, TreeInv, TreeTypes, InterfacesFollow, SignalsFollow

(* Giving objects a connection keeps the copies together. *)
LEMMA ConnectKeeps ==
    ASSUME TreeInv, NEW os \in SUBSET Objects, Connect(os),
           UNCHANGED <<ifaces, signals, signalIface>>,
           children' \in [Objects -> SUBSET Objects]
    PROVE  TreeInv'
<1> USE TreeAssumption DEF TreeInv, TreeTypes
<1>1. PICK is : is = UNION {InterfacesOf(o) : o \in os}
  OBVIOUS
<1>2. /\ is \subseteq Interfaces
      /\ \A o \in os, n \in Names : ifaces[o][n] # Null => ifaces[o][n] \in is
  BY <1>1 DEF InterfacesOf
<1>3. PICK bs : bs = UNION {signals[i] : i \in is}
  OBVIOUS
<1>4. bs \subseteq Signals /\ \A i \in is : signals[i] \subseteq bs
  BY <1>2, <1>3
<1>5. /\ connected' = connected \cup os /\ attached' = attached \cup is
      /\ signalBound' = signalBound \cup bs
      /\ UNCHANGED <<home, signalHome, ifaces, signals, signalIface>>
  BY <1>1, <1>3 DEF Connect
<1>6. TreeTypes'
  BY <1>2, <1>4, <1>5
<1>7. InterfacesFollow'
  BY <1>2, <1>5 DEF InterfacesFollow
<1>8. SignalsFollow'
  <2> SUFFICES ASSUME NEW i \in Interfaces, NEW s \in signals[i]
               PROVE  /\ signalIface[s] = i /\ signalHome[s] = home[i]
                      /\ i \in attached' => s \in signalBound'
    BY <1>5 DEF SignalsFollow
  <2>1. signalIface[s] = i /\ signalHome[s] = home[i] /\ (i \in attached => s \in signalBound)
    BY DEF SignalsFollow
  <2> QED
    BY <1>4, <1>5, <2>1
<1> QED
  BY <1>6, <1>7, <1>8

LEMMA AddInterfaceKeeps ==
    ASSUME TreeInv, NEW o \in Objects, NEW i \in Interfaces, AddInterface(o, i)
    PROVE  TreeInv'
<1> USE TreeAssumption DEF TreeInv, TreeTypes
<1>1. PICK n \in Names : n = NameOf[i]
  BY DEF Names
<1>2. /\ ifaces' = [ifaces EXCEPT ![o][n] = IF @ = Null THEN i ELSE @]
      /\ home' = [home EXCEPT ![i] = o] /\ home[i] \in {Null, o}
      /\ signalHome' = [s \in Signals |-> IF s \in signals[i] THEN o ELSE signalHome[s]]
      /\ attached' = IF o \in connected THEN attached \cup {i} ELSE attached \ {i}
      /\ signalBound' = IF o \in connected THEN signalBound \cup signals[i]
                        ELSE signalBound \ signals[i]
      /\ UNCHANGED <<connected, children, signals, signalIface>>
  BY <1>1 DEF AddInterface, content
<1>3. TreeTypes'
  BY <1>2
<1>4. InterfacesFollow'
  <2> SUFFICES ASSUME NEW p \in Objects, NEW m \in Names, ifaces'[p][m] # Null
               PROVE  /\ home'[ifaces'[p][m]] = p
                      /\ p \in connected => ifaces'[p][m] \in attached'
    BY <1>2 DEF InterfacesFollow
  <2>1. CASE ifaces'[p][m] = ifaces[p][m]
    <3>1. PICK j \in Interfaces : j = ifaces[p][m] /\ j = ifaces'[p][m]
      BY <2>1
    <3>2. home[j] = p /\ (p \in connected => j \in attached)
      BY <3>1 DEF InterfacesFollow
    <3>3. CASE j = i
      <4>1. p = o
        BY <1>2, <3>2, <3>3
      <4> QED
        BY <1>2, <3>1, <3>2, <3>3, <4>1
    <3>4. CASE j # i
      BY <1>2, <3>1, <3>2, <3>4
    <3> QED
      BY <3>3, <3>4
  <2>2. CASE ifaces'[p][m] # ifaces[p][m]
    <3>1. p = o /\ m = n /\ ifaces'[p][m] = i
      BY <1>2, <2>2
    <3> QED
      BY <1>2, <3>1
  <2> QED
    BY <2>1, <2>2
<1>5. SignalsFollow'
  <2> SUFFICES ASSUME NEW j \in Interfaces, NEW s \in signals[j]
               PROVE  /\ signalIface[s] = j /\ signalHome'[s] = home'[j]
                      /\ j \in attached' => s \in signalBound'
    BY <1>2 DEF SignalsFollow
  <2>1. /\ signalIface[s] = j /\ signalHome[s] = home[j] /\ (j \in attached => s \in signalBound)
        /\ s \in Signals
    BY DEF SignalsFollow
  <2>2. CASE j = i
    BY <1>2, <2>1, <2>2
  <2>3. CASE j # i
    <3>1. s \notin signals[i]
      BY <2>1, <2>3 DEF SignalsFollow
    <3> QED
      BY <1>2, <2>1, <2>3, <3>1
  <2> QED
    BY <2>2, <2>3
<1> QED
  BY <1>3, <1>4, <1>5

LEMMA AddSignalKeeps ==
    ASSUME TreeInv, NEW i \in Interfaces, NEW s \in Signals, AddSignalTo(i, s)
    PROVE  TreeInv'
<1> USE TreeAssumption DEF TreeInv, TreeTypes
<1>1. /\ s \notin signals[i] /\ signalIface[s] \in {Null, i}
      /\ signals' = [signals EXCEPT ![i] = @ \cup {s}]
      /\ signalIface' = [signalIface EXCEPT ![s] = i]
      /\ signalHome' = [signalHome EXCEPT ![s] = home[i]]
      /\ signalBound' = IF i \in attached THEN signalBound \cup {s} ELSE signalBound \ {s}
      /\ UNCHANGED <<connected, children, ifaces, home, attached>>
  BY DEF AddSignalTo, tree
<1>2. TreeTypes'
  BY <1>1
<1>3. InterfacesFollow'
  BY <1>1 DEF InterfacesFollow
<1>4. SignalsFollow'
  <2> SUFFICES ASSUME NEW j \in Interfaces, NEW t \in signals'[j]
               PROVE  /\ signalIface'[t] = j /\ signalHome'[t] = home[j]
                      /\ j \in attached => t \in signalBound'
    BY <1>1 DEF SignalsFollow
  <2>1. \A k \in Interfaces : s \notin signals[k]
    BY <1>1 DEF SignalsFollow
  <2>2. CASE t = s
    <3>1. j = i
      BY <1>1, <2>1, <2>2
    <3> QED
      BY <1>1, <2>2, <3>1
  <2>3. CASE t # s
    <3>1. t \in signals[j] /\ t \in Signals
      BY <1>1, <2>3
    <3>2. signalIface[t] = j /\ signalHome[t] = home[j] /\ (j \in attached => t \in signalBound)
      BY <3>1 DEF SignalsFollow
    <3> QED
      BY <1>1, <2>3, <3>1, <3>2
  <2> QED
    BY <2>2, <2>3
<1> QED
  BY <1>2, <1>3, <1>4

LEMMA TreeStep == TreeInv /\ [TreeNext]_treeVars => TreeInv'
<1> SUFFICES ASSUME TreeInv, [TreeNext]_treeVars PROVE TreeInv'
  OBVIOUS
<1> DEFINE Kept == UNCHANGED <<connected, children, home, attached, signalHome, signalIface, signalBound>>
<1>1. ASSUME NEW o \in Objects, Register(o) PROVE TreeInv'
  <2>1. Below({o}) \in SUBSET Objects
    BY DEF Below, TreeInv, TreeTypes
  <2>2. Connect(Below({o})) /\ UNCHANGED <<ifaces, signals, signalIface, children>>
    BY <1>1 DEF Register, tree, content
  <2> QED
    BY <2>1, <2>2, ConnectKeeps DEF TreeInv, TreeTypes
<1>2. ASSUME NEW o \in Objects, NEW c \in Objects, AddChild(o, c) PROVE TreeInv'
  <2>1. Below({c}) \in SUBSET Objects
    BY DEF Below, TreeInv, TreeTypes
  <2>2. Connect(Below({c})) /\ UNCHANGED <<ifaces, signals, signalIface>>
        /\ children' = [children EXCEPT ![o] = @ \cup {c}]
    BY <1>2 DEF AddChild, content
  <2>3. children' \in [Objects -> SUBSET Objects]
    BY <2>2 DEF TreeInv, TreeTypes
  <2> QED
    BY <2>1, <2>2, <2>3, ConnectKeeps
<1>3. ASSUME Kept, UNCHANGED <<ifaces, signals>> PROVE TreeInv'
  BY <1>3 DEF TreeInv, TreeTypes, InterfacesFollow, SignalsFollow
<1>4. ASSUME NEW o \in Objects, NEW c \in Objects, RemoveChild(o, c) PROVE TreeInv'
  <2>1. UNCHANGED <<connected, ifaces, home, attached, signalHome, signalIface, signalBound, signals>>
        /\ children' = [children EXCEPT ![o] = @ \ {c}]
    BY <1>4 DEF RemoveChild, copies, content
  <2> QED
    BY <2>1 DEF TreeInv, TreeTypes, InterfacesFollow, SignalsFollow
<1>5. ASSUME NEW o \in Objects, NEW n \in Names, RemoveInterface(o, n) PROVE TreeInv'
  <2>1. Kept /\ UNCHANGED signals /\ ifaces' = [ifaces EXCEPT ![o][n] = Null]
    BY <1>5 DEF RemoveInterface, copies, content
  <2>2. TreeTypes' /\ SignalsFollow'
    BY <2>1 DEF TreeInv, TreeTypes, SignalsFollow
  <2>3. \A p \in Objects, m \in Names : ifaces'[p][m] # Null => ifaces'[p][m] = ifaces[p][m]
    BY <2>1 DEF TreeInv, TreeTypes
  <2>4. InterfacesFollow'
    BY <2>1, <2>3 DEF TreeInv, InterfacesFollow
  <2> QED
    BY <2>2, <2>4 DEF TreeInv
<1>6. ASSUME NEW i \in Interfaces, NEW s \in Signals, RemoveSignalFrom(i, s) PROVE TreeInv'
  <2>1. Kept /\ UNCHANGED ifaces /\ signals' = [signals EXCEPT ![i] = @ \ {s}]
    BY <1>6 DEF RemoveSignalFrom, tree, copies
  <2> QED
    BY <2>1 DEF TreeInv, TreeTypes, InterfacesFollow, SignalsFollow
<1>7. ASSUME NEW o \in Objects, NEW n \in Names, SetDefault(o, n) PROVE TreeInv'
  BY <1>3, <1>7 DEF SetDefault, tree, copies, content
<1>8. ASSUME NEW i \in Interfaces, NEW m \in Methods, AddMethod(i, m) \/ RemoveMethod(i, m)
      PROVE  TreeInv'
  BY <1>3, <1>8 DEF AddMethod, RemoveMethod, tree, copies
<1>9. CASE Calling \/ UNCHANGED treeVars
  BY <1>3, <1>9 DEF Calling, Call, FindInterface, UseDefault, MethodEnds, treeButRunning, treeVars,
                    tree, copies, content
<1>10. ASSUME NEW o \in Objects, Unregister(o) \/ RemoveDefault(o) PROVE TreeInv'
  BY <1>3, <1>10 DEF Unregister, RemoveDefault, tree, copies, content
<1>11. CASE Editing
  BY <1>1, <1>2, <1>4, <1>5, <1>6, <1>7, <1>8, <1>10, <1>11, AddInterfaceKeeps, AddSignalKeeps DEF Editing
<1> QED
  BY <1>9, <1>11 DEF TreeNext

(* A signal of an object that has a connection is emitted on it, from the   *)
(* path of that object, for any tree of objects and any order of the edits. *)
THEOREM SignalsFollowObjects == TreeSpec => []SignalsFollowTheObject
<1>1. TreeInv => SignalsFollowTheObject
  BY TreeAssumption DEF TreeInv, TreeTypes, InterfacesFollow, SignalsFollow, SignalsFollowTheObject, InterfacesOf
<1> QED
  BY <1>1, TreeStarts, TreeStep, PTL DEF TreeSpec

-----------------------------------------------------------------------------
(* ProxyTree                                                               *)

ListsPointBack ==
    \A o \in ObjectProxies : \A i \in ifacesOf[o] : o \in living /\ ownerOf[i] = o
MethodsPointBack ==
    \A i \in InterfaceProxies : \A m \in methodsOf[i] \ disowned : interfaceOf[m] = i
CallIsCurrent ==
    \A m \in MethodProxies : lastCall.by = m =>
        /\ interfaceOf[m] \in InterfaceProxies
        /\ lastCall.object = ownerOf[interfaceOf[m]]
        /\ lastCall.object \in living /\ lastCall.path = placeOf[lastCall.object]
HandlersAreKept ==
    \A l \in listeners :
        /\ 1 <= l.nth /\ l.nth <= attachments[l.iface]
        /\ attachments[l.iface] = 1 =>
              ownerOf[l.iface] \in connectedTo \/ ownerOf[l.iface] \notin living \cup {Nobody}

ProxyInv ==
    /\ ProxyTypeOK
    /\ ListsPointBack
    /\ MethodsPointBack
    /\ CallIsCurrent
    /\ SignalsAreAskedFor
    /\ HandlersAreKept
    /\ NoHandlerIsLeft

-----------------------------------------------------------------------------
(* The state a program starts in (ObjectProxy::create, no interfaces yet).  *)
LEMMA ProxyInitInv == ProxyInit => ProxyInv
  BY NobodyAssumption, PathAssumption
  DEF ProxyInit, ProxyInv, ProxyTypeOK, ListsPointBack, MethodsPointBack, CallIsCurrent,
      SignalsAreAskedFor, HandlersAreKept, NoHandlerIsLeft, NotSent, Steady

(* Every state of the proof is a typed one.  add_interface, with its two    *)
(* lists and its counters, is the only operation that needs a close look.   *)
LEMMA ProxyTypeStep == ProxyTypeOK /\ [ProxyNext]_proxyVars => ProxyTypeOK'
<1> SUFFICES ASSUME ProxyTypeOK, [ProxyNext]_proxyVars PROVE ProxyTypeOK'
  OBVIOUS
<1> USE DEF ProxyTypeOK, objectVars, ifaceVars, methodVars, watchVars
<1>1. ASSUME NEW i \in InterfaceProxies, MakeInterface(i) PROVE ProxyTypeOK'
  BY <1>1 DEF MakeInterface
<1>2. ASSUME NEW i \in InterfaceProxies, DropInterface(i) PROVE ProxyTypeOK'
  BY <1>2 DEF DropInterface, Left
<1>3. ASSUME NEW o \in ObjectProxies, NEW i \in InterfaceProxies, AddInterfaceProxy(o, i)
      PROVE ProxyTypeOK'
  <2>1. CASE ownerOf[i] \notin living \cup {Nobody}
    BY <1>3, <2>1 DEF AddInterfaceProxy
  <2>2. CASE ownerOf[i] \in living \cup {Nobody}
    <3>1. ifacesOf' \in [ObjectProxies -> SUBSET InterfaceProxies]
      BY <1>3, <2>2 DEF AddInterfaceProxy, Moved, Inserted, Erased
    <3>2. ownerOf' \in [InterfaceProxies -> ObjectProxies \cup {Nobody}]
          /\ attachments' \in [InterfaceProxies -> Nat]
      BY <1>3, <2>2 DEF AddInterfaceProxy, SetObject
    <3>3. askedFor' \subseteq WatchedSignals
      BY <1>3, <2>2 DEF AddInterfaceProxy, SetObject
    <3>4. listeners' \subseteq [iface : InterfaceProxies, nth : Nat, path : ProxyPaths]
      BY <1>3, <2>2, <3>2 DEF AddInterfaceProxy, SetObject
    <3> QED BY <1>3, <2>2, <3>1, <3>2, <3>3, <3>4 DEF AddInterfaceProxy
  <2> QED BY <2>1, <2>2
<1>4. ASSUME NEW o \in ObjectProxies, NEW i \in InterfaceProxies, RemoveInterfaceProxy(o, i)
      PROVE ProxyTypeOK'
  BY <1>4 DEF RemoveInterfaceProxy, Erased
<1>5. ASSUME NEW o \in ObjectProxies, SetConnection(o) PROVE ProxyTypeOK'
  BY <1>5 DEF SetConnection
<1>6. ASSUME NEW o \in ObjectProxies, NEW path \in ProxyPaths, SetPath(o, path) PROVE ProxyTypeOK'
  BY <1>6 DEF SetPath
<1>7. ASSUME NEW o \in ObjectProxies, NEW kept \in SUBSET InterfaceProxies, Release(o, kept)
      PROVE ProxyTypeOK'
  BY <1>7 DEF Release, Left
<1>8. ASSUME NEW i \in InterfaceProxies, NEW m \in MethodProxies, AddMethodProxy(i, m)
      PROVE ProxyTypeOK'
  <2>1. CASE interfaceOf[m] \notin existing \cup {Nobody}
    BY <1>8, <2>1 DEF AddMethodProxy
  <2>2. CASE interfaceOf[m] \in existing \cup {Nobody}
    <3> DEFINE without == IF interfaceOf[m] = Nobody THEN methodsOf
                          ELSE [methodsOf EXCEPT ![interfaceOf[m]] = @ \ SameMethod(m)]
    <3>1. without \in [InterfaceProxies -> SUBSET MethodProxies]
      BY <2>2
    <3>2. /\ methodsOf' = Inserted(without, i, m, SameMethod(m))
          /\ interfaceOf' = [interfaceOf EXCEPT ![m] = i]
          /\ UNCHANGED <<objectVars, ifaceVars, watchVars, disowned>>
      BY <1>8, <2>2 DEF AddMethodProxy
    <3> HIDE DEF without
    <3>3. methodsOf' \in [InterfaceProxies -> SUBSET MethodProxies]
      BY <3>1, <3>2 DEF Inserted
    <3> QED BY <3>2, <3>3
  <2> QED BY <2>1, <2>2
<1>9. ASSUME NEW i \in InterfaceProxies, NEW m \in MethodProxies, RemoveMethodProxy(i, m)
      PROVE ProxyTypeOK'
  BY <1>9 DEF RemoveMethodProxy, SameMethod
<1>10. ASSUME NEW i \in InterfaceProxies, NEW m \in MethodProxies, RemoveMethodNamed(i, m)
       PROVE ProxyTypeOK'
  BY <1>10 DEF RemoveMethodNamed, SameMethod
<1>11. ASSUME NEW m \in MethodProxies, CallThrough(m) PROVE ProxyTypeOK'
  BY <1>11 DEF CallThrough
<1>12. ASSUME NEW i \in InterfaceProxies, NEW s \in WatchedSignals, CreateSignal(i, s)
       PROVE ProxyTypeOK'
  BY <1>12 DEF CreateSignal
<1>13. ASSUME NEW i \in InterfaceProxies, NEW s \in WatchedSignals, AddWatched(i, s)
       PROVE ProxyTypeOK'
  BY <1>13 DEF AddWatched
<1>14. ASSUME NEW i \in InterfaceProxies, NEW s \in WatchedSignals, RemoveWatched(i, s)
       PROVE ProxyTypeOK'
  BY <1>14 DEF RemoveWatched
<1>15. CASE UNCHANGED proxyVars
  BY <1>15 DEF proxyVars
<1> QED BY <1>1, <1>2, <1>3, <1>4, <1>5, <1>6, <1>7, <1>8, <1>9, <1>10, <1>11, <1>12, <1>13,
           <1>14, <1>15 DEF ProxyNext

(* An interface is listed by one object at most: add_interface takes it out  *)
(* of the object it points to, and nothing else makes it point elsewhere.   *)
LEMMA ListsStep ==
    ProxyTypeOK /\ ListsPointBack /\ [ProxyNext]_proxyVars => ListsPointBack'
<1> SUFFICES ASSUME ProxyTypeOK, ListsPointBack, [ProxyNext]_proxyVars PROVE ListsPointBack'
  OBVIOUS
<1> USE DEF ListsPointBack
<1>1. ASSUME NEW o \in ObjectProxies, NEW i \in InterfaceProxies, AddInterfaceProxy(o, i)
      PROVE ListsPointBack'
  <2>1. CASE ownerOf[i] \notin living \cup {Nobody}
    BY <1>1, <2>1 DEF AddInterfaceProxy, objectVars, ifaceVars
  <2>2. CASE ownerOf[i] \in living \cup {Nobody}
    <3>1. /\ ifacesOf' = Moved(ifacesOf, o, i) /\ ownerOf' = [ownerOf EXCEPT ![i] = o]
          /\ living' = living /\ o \in living
      BY <1>1, <2>2 DEF AddInterfaceProxy, SetObject, objectVars
    <3>2. ASSUME NEW u \in ObjectProxies, NEW j \in ifacesOf'[u]
          PROVE u \in living' /\ ownerOf'[j] = u
      <4>1. i \in SameName(i)
        BY DEF SameName
      <4>2. j \in InterfaceProxies
        BY <3>1, <3>2, ProxyTypeStep DEF ProxyTypeOK
      <4>3. CASE j = i
        <5>1. i \in ifacesOf'[u] => u = o
          <6>1. CASE ownerOf[i] = Nobody
            BY <3>1, <6>1, NobodyAssumption DEF ProxyTypeOK, Moved, Inserted
          <6>2. CASE ownerOf[i] # Nobody
            BY <3>1, <4>1, <6>2 DEF ProxyTypeOK, Moved, Inserted, Erased
          <6> QED BY <6>1, <6>2
        <5> QED BY <3>1, <3>2, <4>3, <5>1 DEF ProxyTypeOK
      <4>4. CASE j # i
        <5>1. j \in ifacesOf[u]
          BY <3>1, <3>2, <4>4 DEF ProxyTypeOK, Moved, Inserted, Erased
        <5> QED BY <3>1, <4>2, <4>4, <5>1 DEF ProxyTypeOK
      <4> QED BY <4>3, <4>4
    <3> QED BY <3>2
  <2> QED BY <2>1, <2>2
<1>2. ASSUME NEW o \in ObjectProxies, NEW i \in InterfaceProxies, RemoveInterfaceProxy(o, i)
      PROVE ListsPointBack'
  BY <1>2 DEF RemoveInterfaceProxy, Erased, ProxyTypeOK, objectVars
<1>3. ASSUME NEW o \in ObjectProxies, NEW kept \in SUBSET InterfaceProxies, Release(o, kept)
      PROVE ListsPointBack'
  BY <1>3 DEF Release, ProxyTypeOK
<1>4. CASE UNCHANGED <<living, ifacesOf, ownerOf>>
  BY <1>4
<1>5. ASSUME NEW i \in InterfaceProxies, MakeInterface(i) \/ DropInterface(i)
      PROVE UNCHANGED <<living, ifacesOf, ownerOf>>
  BY <1>5 DEF MakeInterface, DropInterface, objectVars
<1>6. ASSUME NEW o \in ObjectProxies,
             SetConnection(o) \/ \E path \in ProxyPaths : SetPath(o, path)
      PROVE UNCHANGED <<living, ifacesOf, ownerOf>>
  BY <1>6 DEF SetConnection, SetPath, ifaceVars
<1>7. ASSUME NEW i \in InterfaceProxies, NEW m \in MethodProxies,
             AddMethodProxy(i, m) \/ RemoveMethodProxy(i, m) \/ RemoveMethodNamed(i, m)
      PROVE UNCHANGED <<living, ifacesOf, ownerOf>>
  BY <1>7 DEF AddMethodProxy, RemoveMethodProxy, RemoveMethodNamed, objectVars, ifaceVars
<1>8. ASSUME NEW m \in MethodProxies, CallThrough(m)
      PROVE UNCHANGED <<living, ifacesOf, ownerOf>>
  BY <1>8 DEF CallThrough, objectVars, ifaceVars
<1>9. ASSUME NEW i \in InterfaceProxies, NEW s \in WatchedSignals,
             CreateSignal(i, s) \/ AddWatched(i, s) \/ RemoveWatched(i, s)
      PROVE UNCHANGED <<living, ifacesOf, ownerOf>>
  BY <1>9 DEF CreateSignal, AddWatched, RemoveWatched, objectVars, ifaceVars
<1>10. CASE UNCHANGED proxyVars
  BY <1>10 DEF proxyVars, objectVars, ifaceVars
<1> QED BY <1>1, <1>2, <1>3, <1>4, <1>5, <1>6, <1>7, <1>8, <1>9, <1>10 DEF ProxyNext

(* A method that is listed and not disowned points to the one interface that *)
(* lists it: add_method has the old interface remove it, and remove_method   *)
(* on another interface disowns it.                                         *)
LEMMA MethodsStep ==
    ProxyTypeOK /\ MethodsPointBack /\ [ProxyNext]_proxyVars => MethodsPointBack'
<1> SUFFICES ASSUME ProxyTypeOK, MethodsPointBack, [ProxyNext]_proxyVars PROVE MethodsPointBack'
  OBVIOUS
<1>a. ASSUME NEW m \in MethodProxies PROVE m \in SameMethod(m)
  BY DEF SameMethod
<1>b. ASSUME NEW m \in MethodProxies \ disowned, NEW i \in InterfaceProxies, m \in methodsOf[i],
             NEW j \in InterfaceProxies, m \in methodsOf[j]
      PROVE i = j
  BY <1>b DEF MethodsPointBack
<1>1. ASSUME NEW i \in InterfaceProxies, NEW m \in MethodProxies, AddMethodProxy(i, m)
      PROVE MethodsPointBack'
  <2>1. CASE interfaceOf[m] \notin existing \cup {Nobody}
    BY <1>1, <2>1 DEF AddMethodProxy, methodVars, MethodsPointBack
  <2>2. CASE interfaceOf[m] \in existing \cup {Nobody}
    <3> DEFINE without == IF interfaceOf[m] = Nobody THEN methodsOf
                          ELSE [methodsOf EXCEPT ![interfaceOf[m]] = @ \ SameMethod(m)]
    <3>1. without \in [InterfaceProxies -> SUBSET MethodProxies]
      BY <2>2 DEF ProxyTypeOK
    <3>2. /\ methodsOf' = Inserted(without, i, m, SameMethod(m))
          /\ interfaceOf' = [interfaceOf EXCEPT ![m] = i]
          /\ disowned' = disowned
      BY <1>1, <2>2 DEF AddMethodProxy
    <3>3. ASSUME NEW j \in InterfaceProxies PROVE without[j] \subseteq methodsOf[j]
      BY <2>2 DEF ProxyTypeOK
    <3>4. ASSUME NEW j \in InterfaceProxies, m \in without[j] PROVE m \in disowned
      <4>1. CASE interfaceOf[m] = Nobody
        BY <3>4, <4>1, NobodyAssumption DEF MethodsPointBack
      <4>2. CASE interfaceOf[m] # Nobody
        BY <2>2, <3>4, <4>2, <1>a DEF ProxyTypeOK, MethodsPointBack
      <4> QED BY <4>1, <4>2
    <3> HIDE DEF without
    <3>5. ASSUME NEW j \in InterfaceProxies, NEW k \in methodsOf'[j], k \notin disowned
          PROVE interfaceOf'[k] = j
      <4>1. CASE k = m
        <5>1. j = i
          BY <3>1, <3>2, <3>4, <3>5, <4>1 DEF Inserted
        <5> QED BY <3>2, <4>1, <5>1 DEF ProxyTypeOK
      <4>2. CASE k # m
        <5>1. k \in methodsOf[j]
          BY <3>1, <3>2, <3>3, <3>5, <4>2 DEF Inserted
        <5> QED BY <3>2, <3>5, <4>2, <5>1 DEF ProxyTypeOK, MethodsPointBack
      <4> QED BY <4>1, <4>2
    <3> QED BY <3>2, <3>5 DEF MethodsPointBack
  <2> QED BY <2>1, <2>2
<1>2. ASSUME NEW i \in InterfaceProxies, NEW m \in MethodProxies, RemoveMethodProxy(i, m)
      PROVE MethodsPointBack'
  <2>1. ASSUME NEW j \in InterfaceProxies, NEW k \in methodsOf'[j], k \notin disowned'
        PROVE k \in methodsOf[j] /\ k \notin disowned /\ k # m
    <3>1. k \in methodsOf[j] /\ k \notin disowned
      BY <1>2, <2>1 DEF RemoveMethodProxy, ProxyTypeOK
    <3>2. CASE k = m
      <4>1. m \in methodsOf[i]
        BY <1>2, <2>1, <3>2 DEF RemoveMethodProxy
      <4>2. i = j
        BY <1>b, <3>1, <3>2, <4>1
      <4> QED BY <1>2, <1>a, <2>1, <3>2, <4>2 DEF RemoveMethodProxy, ProxyTypeOK
    <3> QED BY <3>1, <3>2
  <2> QED BY <1>2, <2>1 DEF RemoveMethodProxy, ProxyTypeOK, MethodsPointBack
<1>3. ASSUME NEW i \in InterfaceProxies, NEW m \in MethodProxies, RemoveMethodNamed(i, m)
      PROVE MethodsPointBack'
  <2> DEFINE found == methodsOf[i] \cap SameMethod(m)
  <2>1. CASE found = {}
    BY <1>3, <2>1 DEF RemoveMethodNamed, methodVars, MethodsPointBack
  <2>2. CASE found # {}
    <3>1. /\ methodsOf' = [methodsOf EXCEPT ![i] = @ \ found]
          /\ interfaceOf' = [k \in MethodProxies |-> IF k \in found THEN Nobody ELSE interfaceOf[k]]
          /\ disowned' = disowned
      BY <1>3, <2>2 DEF RemoveMethodNamed
    <3>2. ASSUME NEW j \in InterfaceProxies, NEW k \in methodsOf'[j], k \notin disowned
          PROVE k \in methodsOf[j] /\ k \notin found
      <4>1. k \in methodsOf[j]
        BY <3>1, <3>2 DEF ProxyTypeOK
      <4>2. CASE k \in found
        <5>1. i = j
          BY <1>b, <3>2, <4>1, <4>2 DEF ProxyTypeOK
        <5> QED BY <3>1, <3>2, <4>2, <5>1 DEF ProxyTypeOK
      <4> QED BY <4>1, <4>2
    <3> QED BY <3>1, <3>2 DEF ProxyTypeOK, MethodsPointBack
  <2> QED BY <2>1, <2>2
<1>4. CASE UNCHANGED methodVars
  BY <1>4 DEF methodVars, MethodsPointBack
<1>5. ASSUME NEW i \in InterfaceProxies, MakeInterface(i) \/ DropInterface(i)
      PROVE UNCHANGED methodVars
  BY <1>5 DEF MakeInterface, DropInterface
<1>6. ASSUME NEW o \in ObjectProxies, NEW i \in InterfaceProxies,
             AddInterfaceProxy(o, i) \/ RemoveInterfaceProxy(o, i)
      PROVE UNCHANGED methodVars
  BY <1>6 DEF AddInterfaceProxy, RemoveInterfaceProxy
<1>7. ASSUME NEW o \in ObjectProxies,
             \/ SetConnection(o)
             \/ \E path \in ProxyPaths : SetPath(o, path)
             \/ \E kept \in SUBSET InterfaceProxies : Release(o, kept)
      PROVE UNCHANGED methodVars
  BY <1>7 DEF SetConnection, SetPath, Release
<1>8. ASSUME NEW m \in MethodProxies, CallThrough(m) PROVE UNCHANGED methodVars
  BY <1>8 DEF CallThrough
<1>9. ASSUME NEW i \in InterfaceProxies, NEW s \in WatchedSignals,
             CreateSignal(i, s) \/ AddWatched(i, s) \/ RemoveWatched(i, s)
      PROVE UNCHANGED methodVars
  BY <1>9 DEF CreateSignal, AddWatched, RemoveWatched
<1>10. CASE UNCHANGED proxyVars
  BY <1>10 DEF proxyVars, methodVars, MethodsPointBack
<1> QED BY <1>1, <1>2, <1>3, <1>4, <1>5, <1>6, <1>7, <1>8, <1>9, <1>10 DEF ProxyNext

(* create_call_message goes up along the pointers of the moment, and every   *)
(* other operation forgets the call.                                        *)
LEMMA CallStep ==
    ProxyTypeOK /\ CallIsCurrent /\ [ProxyNext]_proxyVars => CallIsCurrent'
<1> SUFFICES ASSUME ProxyTypeOK, CallIsCurrent, [ProxyNext]_proxyVars PROVE CallIsCurrent'
  OBVIOUS
<1>1. ASSUME NEW m \in MethodProxies, CallThrough(m) PROVE CallIsCurrent'
  <2>1. UNCHANGED <<interfaceOf, ownerOf, living, placeOf>>
    BY <1>1 DEF CallThrough, methodVars, ifaceVars, objectVars
  <2>2. CASE interfaceOf[m] \notin existing \/ ownerOf[interfaceOf[m]] \notin living
    <3>1. lastCall'.by = Nobody
      BY <1>1, <2>2 DEF CallThrough, Stops, NotSent
    <3> QED BY <3>1, NobodyAssumption DEF CallIsCurrent
  <2>3. CASE interfaceOf[m] \in existing /\ ownerOf[interfaceOf[m]] \in living
    <3>1. /\ lastCall'.by = m /\ lastCall'.object = ownerOf[interfaceOf[m]]
          /\ lastCall'.path = placeOf[ownerOf[interfaceOf[m]]]
      BY <1>1, <2>3, NobodyAssumption DEF CallThrough, PathOf, ProxyTypeOK
    <3> QED BY <2>1, <2>3, <3>1 DEF ProxyTypeOK, CallIsCurrent
  <2> QED BY <2>2, <2>3
<1>2. CASE lastCall'.by = Nobody
  BY <1>2, NobodyAssumption DEF CallIsCurrent
<1>3. ASSUME NEW i \in InterfaceProxies, MakeInterface(i) \/ DropInterface(i)
      PROVE lastCall'.by = Nobody
  BY <1>3 DEF MakeInterface, DropInterface, Edited, Stops, NotSent
<1>4. ASSUME NEW o \in ObjectProxies, NEW i \in InterfaceProxies,
             AddInterfaceProxy(o, i) \/ RemoveInterfaceProxy(o, i)
      PROVE lastCall'.by = Nobody
  BY <1>4 DEF AddInterfaceProxy, RemoveInterfaceProxy, Edited, Stops, NotSent
<1>5. ASSUME NEW o \in ObjectProxies, SetConnection(o) PROVE lastCall'.by = Nobody
  BY <1>5 DEF SetConnection, Edited, NotSent
<1>9. ASSUME NEW o \in ObjectProxies, NEW path \in ProxyPaths, SetPath(o, path)
      PROVE lastCall'.by = Nobody
  BY <1>9 DEF SetPath, Edited, NotSent
<1>10. ASSUME NEW o \in ObjectProxies, NEW kept \in SUBSET InterfaceProxies, Release(o, kept)
       PROVE lastCall'.by = Nobody
  BY <1>10 DEF Release, Edited, NotSent
<1>6. ASSUME NEW i \in InterfaceProxies, NEW m \in MethodProxies,
             AddMethodProxy(i, m) \/ RemoveMethodProxy(i, m) \/ RemoveMethodNamed(i, m)
      PROVE lastCall'.by = Nobody
  BY <1>6 DEF AddMethodProxy, RemoveMethodProxy, RemoveMethodNamed, Edited, Stops, NotSent
<1>7. ASSUME NEW i \in InterfaceProxies, NEW s \in WatchedSignals,
             CreateSignal(i, s) \/ AddWatched(i, s) \/ RemoveWatched(i, s)
      PROVE lastCall'.by = Nobody
  BY <1>7 DEF CreateSignal, AddWatched, RemoveWatched, Edited, NotSent
<1>8. CASE UNCHANGED proxyVars
  <2>1. UNCHANGED <<lastCall, interfaceOf, ownerOf, living, placeOf>>
    BY <1>8 DEF proxyVars, methodVars, ifaceVars, objectVars
  <2> QED BY <2>1 DEF CallIsCurrent
<1> QED BY <1>1, <1>2, <1>3, <1>4, <1>5, <1>6, <1>7, <1>8, <1>9, <1>10 DEF ProxyNext

(* The bus is given a rule when the signal or the object comes, whichever is *)
(* later: a listed interface has the connection of the object that lists it. *)
LEMMA AskedStep ==
    /\ ProxyTypeOK /\ ListsPointBack /\ SignalsAreAskedFor
    /\ [ProxyNext]_proxyVars
    => SignalsAreAskedFor'
<1> SUFFICES ASSUME ProxyTypeOK, ListsPointBack, SignalsAreAskedFor, [ProxyNext]_proxyVars
             PROVE SignalsAreAskedFor'
  OBVIOUS
<1>1. ASSUME NEW o \in ObjectProxies, NEW i \in InterfaceProxies, AddInterfaceProxy(o, i)
      PROVE SignalsAreAskedFor'
  <2>1. CASE ownerOf[i] \notin living \cup {Nobody}
    BY <1>1, <2>1
    DEF AddInterfaceProxy, objectVars, ifaceVars, watchVars, SignalsAreAskedFor, Steady
  <2>2. CASE ownerOf[i] \in living \cup {Nobody}
    <3>1. /\ ifacesOf' = Moved(ifacesOf, o, i) /\ SetObject(o, i)
          /\ UNCHANGED <<objectVars, signalsOf>>
      BY <1>1, <2>2 DEF AddInterfaceProxy
    <3>2. Steady' = Steady
      BY <3>1 DEF Steady, objectVars
    <3>3. askedFor \subseteq askedFor' /\ listeners \subseteq listeners' /\ placeOf' = placeOf
      BY <3>1 DEF SetObject, objectVars
    <3>4. ASSUME NEW u \in Steady, NEW j \in ifacesOf'[u]
          PROVE /\ signalsOf[j] \subseteq askedFor'
                /\ \E l \in listeners' : l.iface = j /\ l.path = placeOf[u]
      <4>1. CASE j \in ifacesOf[u]
        BY <3>3, <4>1 DEF SignalsAreAskedFor
      <4>2. CASE j \notin ifacesOf[u]
        <5>1. j = i /\ u = o
          <6>1. CASE ownerOf[i] = Nobody
            BY <3>1, <3>4, <4>2, <6>1 DEF Moved, Inserted, ProxyTypeOK, Steady
          <6>2. CASE ownerOf[i] # Nobody
            BY <3>1, <3>4, <4>2, <6>2 DEF Moved, Inserted, Erased, ProxyTypeOK, Steady
          <6> QED BY <6>1, <6>2
        <5>3. o \in connectedTo
          BY <5>1 DEF Steady
        <5>2. /\ signalsOf[i] \subseteq askedFor'
              /\ [iface |-> i, nth |-> attachments'[i], path |-> placeOf[o]] \in listeners'
          BY <3>1, <5>3 DEF SetObject
        <5> QED BY <5>1, <5>2
      <4> QED BY <4>1, <4>2
    <3> QED BY <3>1, <3>2, <3>3, <3>4 DEF SignalsAreAskedFor
  <2> QED BY <2>1, <2>2
<1>2. ASSUME NEW o \in ObjectProxies, NEW kept \in SUBSET InterfaceProxies, Release(o, kept)
      PROVE SignalsAreAskedFor'
  <2>1. /\ Steady' = Steady \ {o} /\ UNCHANGED <<signalsOf, askedFor, placeOf>>
        /\ listeners' = Left(ifacesOf[o] \ kept)
        /\ \A u \in ObjectProxies \ {o} : ifacesOf'[u] = ifacesOf[u]
    BY <1>2 DEF Release, Steady, watchVars, ProxyTypeOK
  <2>2. ASSUME NEW u \in Steady \ {o}, NEW j \in ifacesOf[u] PROVE j \notin ifacesOf[o]
    BY <2>2 DEF ListsPointBack, Steady, ProxyTypeOK
  <2>3. ASSUME NEW u \in Steady \ {o}, NEW j \in ifacesOf[u]
        PROVE \E l \in listeners' : l.iface = j /\ l.path = placeOf[u]
    BY <2>1, <2>2, <2>3 DEF Left, SignalsAreAskedFor
  <2>4. ASSUME NEW u \in Steady', NEW j \in ifacesOf'[u]
        PROVE /\ signalsOf'[j] \subseteq askedFor'
              /\ \E l \in listeners' : l.iface = j /\ l.path = placeOf'[u]
    <3>1. u \in Steady \ {o} /\ j \in ifacesOf[u]
      BY <2>1, <2>4 DEF Steady, ProxyTypeOK
    <3> QED BY <2>1, <2>3, <3>1 DEF SignalsAreAskedFor
  <2> QED BY <2>4 DEF SignalsAreAskedFor
<1>3. ASSUME NEW i \in InterfaceProxies, DropInterface(i) PROVE SignalsAreAskedFor'
  BY <1>3 DEF DropInterface, Left, objectVars, watchVars, SignalsAreAskedFor, Steady, ProxyTypeOK
<1>4. ASSUME NEW o \in ObjectProxies, NEW i \in InterfaceProxies, RemoveInterfaceProxy(o, i)
      PROVE SignalsAreAskedFor'
  BY <1>4 DEF RemoveInterfaceProxy, Erased, objectVars, watchVars, SignalsAreAskedFor, Steady,
              ProxyTypeOK
<1>5. ASSUME NEW o \in ObjectProxies, SetConnection(o) PROVE SignalsAreAskedFor'
  BY <1>5 DEF SetConnection, ifaceVars, watchVars, SignalsAreAskedFor, Steady
<1>6. ASSUME NEW o \in ObjectProxies, NEW path \in ProxyPaths, SetPath(o, path)
      PROVE SignalsAreAskedFor'
  BY <1>6 DEF SetPath, ifaceVars, SignalsAreAskedFor, Steady, ProxyTypeOK
<1>7. ASSUME NEW i \in InterfaceProxies, NEW s \in WatchedSignals,
             CreateSignal(i, s) \/ AddWatched(i, s)
      PROVE SignalsAreAskedFor'
  <2>1. /\ UNCHANGED <<objectVars, ifaceVars>>
        /\ signalsOf' = [signalsOf EXCEPT ![i] = @ \cup {s}]
        /\ askedFor' = IF HasConnection(i) THEN askedFor \cup {s} ELSE askedFor
    BY <1>7 DEF CreateSignal, AddWatched
  <2>2. ASSUME NEW u \in Steady, NEW j \in ifacesOf[u] PROVE signalsOf'[j] \subseteq askedFor'
    <3>1. HasConnection(j)
      BY DEF ListsPointBack, Steady, ProxyTypeOK, HasConnection
    <3> QED BY <2>1, <3>1 DEF SignalsAreAskedFor, ProxyTypeOK, Steady
  <2> QED BY <2>1, <2>2 DEF SignalsAreAskedFor, Steady, objectVars, ifaceVars
<1>8. ASSUME NEW i \in InterfaceProxies, NEW s \in WatchedSignals, RemoveWatched(i, s)
      PROVE SignalsAreAskedFor'
  BY <1>8 DEF RemoveWatched, objectVars, ifaceVars, SignalsAreAskedFor, Steady, ProxyTypeOK
<1>9. CASE UNCHANGED <<objectVars, ifacesOf, signalsOf, askedFor, listeners>>
  BY <1>9 DEF objectVars, SignalsAreAskedFor, Steady
<1>10. ASSUME NEW i \in InterfaceProxies, MakeInterface(i)
       PROVE UNCHANGED <<objectVars, ifacesOf, signalsOf, askedFor, listeners>>
  BY <1>10 DEF MakeInterface, watchVars
<1>11. ASSUME NEW i \in InterfaceProxies, NEW m \in MethodProxies,
             AddMethodProxy(i, m) \/ RemoveMethodProxy(i, m) \/ RemoveMethodNamed(i, m)
      PROVE UNCHANGED <<objectVars, ifacesOf, signalsOf, askedFor, listeners>>
  BY <1>11 DEF AddMethodProxy, RemoveMethodProxy, RemoveMethodNamed, ifaceVars, watchVars
<1>12. ASSUME NEW m \in MethodProxies, CallThrough(m)
      PROVE UNCHANGED <<objectVars, ifacesOf, signalsOf, askedFor, listeners>>
  BY <1>12 DEF CallThrough, ifaceVars, watchVars
<1>13. CASE UNCHANGED proxyVars
  BY <1>9, <1>13 DEF proxyVars, ifaceVars, watchVars
<1> QED BY <1>1, <1>2, <1>3, <1>4, <1>5, <1>6, <1>7, <1>8, <1>9, <1>10, <1>11, <1>12, <1>13
        DEF ProxyNext

(* set_object counts: a handler of an interface that was given an object     *)
(* once is the one the interface holds and takes away, and the object's      *)
(* connection is there as long as the object is.                            *)
LEMMA HandlersStep ==
    /\ ProxyTypeOK /\ ListsPointBack /\ HandlersAreKept /\ NoHandlerIsLeft
    /\ [ProxyNext]_proxyVars
    => HandlersAreKept' /\ NoHandlerIsLeft'
<1> SUFFICES ASSUME ProxyTypeOK, ListsPointBack, HandlersAreKept, NoHandlerIsLeft,
                    [ProxyNext]_proxyVars
             PROVE HandlersAreKept' /\ NoHandlerIsLeft'
  OBVIOUS
<1>1. ASSUME NEW o \in ObjectProxies, NEW i \in InterfaceProxies, AddInterfaceProxy(o, i)
      PROVE HandlersAreKept' /\ NoHandlerIsLeft'
  <2>1. CASE ownerOf[i] \notin living \cup {Nobody}
    BY <1>1, <2>1 DEF AddInterfaceProxy, objectVars, ifaceVars, HandlersAreKept, NoHandlerIsLeft
  <2>2. CASE ownerOf[i] \in living \cup {Nobody}
    <3>1. /\ SetObject(o, i) /\ i \in existing
          /\ UNCHANGED <<objectVars, existing>>
      BY <1>1, <2>2 DEF AddInterfaceProxy
    <3>2. /\ attachments' = [attachments EXCEPT ![i] = @ + 1]
          /\ ownerOf' = [ownerOf EXCEPT ![i] = o]
          /\ UNCHANGED <<living, connectedTo, existing>>
      BY <3>1 DEF SetObject, objectVars
    <3>3. ASSUME NEW l \in listeners'
          PROVE \/ l \in listeners
                \/ l.iface = i /\ l.nth = attachments'[i] /\ o \in connectedTo
      BY <3>1 DEF SetObject
    <3>4. ASSUME NEW l \in listeners' PROVE l.iface \in InterfaceProxies
      BY <3>3 DEF ProxyTypeOK
    <3>5. ASSUME NEW l \in listeners'
          PROVE /\ 1 <= l.nth /\ l.nth <= attachments'[l.iface]
                /\ attachments'[l.iface] = 1 =>
                      ownerOf'[l.iface] \in connectedTo \/ ownerOf'[l.iface] \notin living \cup {Nobody}
                /\ l.iface \notin existing => attachments'[l.iface] > 1
      <4>1. CASE l \in listeners /\ l.iface # i
        BY <3>2, <4>1 DEF ProxyTypeOK, HandlersAreKept, NoHandlerIsLeft
      <4>2. CASE l \in listeners /\ l.iface = i
        <5>1. 1 <= l.nth /\ l.nth <= attachments[i] /\ l.nth \in Nat /\ attachments[i] \in Nat
          BY <4>2 DEF ProxyTypeOK, HandlersAreKept
        <5>2. attachments'[i] = attachments[i] + 1
          BY <3>2 DEF ProxyTypeOK
        <5> QED BY <3>1, <4>2, <5>1, <5>2
      <4>3. CASE l.iface = i /\ l.nth = attachments'[i] /\ o \in connectedTo
        <5>1. attachments'[i] = attachments[i] + 1 /\ attachments[i] \in Nat /\ ownerOf'[i] = o
          BY <3>2 DEF ProxyTypeOK
        <5> QED BY <3>1, <4>3, <5>1
      <4> QED BY <3>3, <4>1, <4>2, <4>3
    <3> QED BY <3>2, <3>5 DEF HandlersAreKept, NoHandlerIsLeft
  <2> QED BY <2>1, <2>2
<1>2. ASSUME NEW o \in ObjectProxies, NEW kept \in SUBSET InterfaceProxies, Release(o, kept)
      PROVE HandlersAreKept' /\ NoHandlerIsLeft'
  <2>1. /\ living' = living \ {o} /\ connectedTo' = connectedTo \ {o}
        /\ existing' = existing \ (ifacesOf[o] \ kept)
        /\ listeners' = Left(ifacesOf[o] \ kept)
        /\ UNCHANGED <<ownerOf, attachments>>
    BY <1>2 DEF Release
  <2>2. HandlersAreKept'
    BY <2>1, NobodyAssumption DEF Left, HandlersAreKept, ProxyTypeOK
  <2>3. ASSUME NEW l \in listeners', l.iface \notin existing' PROVE attachments[l.iface] > 1
    <3>1. l \in listeners /\ l.iface \in InterfaceProxies /\ l.nth \in Nat /\ attachments[l.iface] \in Nat
          /\ 1 <= l.nth /\ l.nth <= attachments[l.iface]
      BY <2>1 DEF Left, ProxyTypeOK, HandlersAreKept
    <3>2. CASE l.iface \in ifacesOf[o] \ kept
      <4>1. l.nth # attachments[l.iface] \/ ownerOf[l.iface] \notin connectedTo
        BY <2>1, <2>3, <3>2 DEF Left
      <4>2. ownerOf[l.iface] = o /\ o \in living /\ o # Nobody
        BY <3>2, NobodyAssumption DEF ListsPointBack
      <4> QED BY <3>1, <4>1, <4>2 DEF HandlersAreKept
    <3>3. CASE l.iface \notin ifacesOf[o] \ kept
      BY <2>1, <2>3, <3>1, <3>3 DEF NoHandlerIsLeft
    <3> QED BY <3>2, <3>3
  <2> QED BY <2>1, <2>2, <2>3 DEF NoHandlerIsLeft
<1>3. ASSUME NEW i \in InterfaceProxies, DropInterface(i)
      PROVE HandlersAreKept' /\ NoHandlerIsLeft'
  <2>1. UNCHANGED <<living, connectedTo, ownerOf, attachments>>
    BY <1>3 DEF DropInterface, objectVars
  <2>2. CASE UNCHANGED <<existing, listeners>>
    BY <2>1, <2>2 DEF HandlersAreKept, NoHandlerIsLeft
  <2>3. CASE /\ ownerOf[i] \in living \cup {Nobody}
             /\ existing' = existing \ {i} /\ listeners' = Left({i})
    <3>1. HandlersAreKept'
      BY <2>1, <2>3 DEF Left, HandlersAreKept
    <3>2. ASSUME NEW l \in listeners', l.iface \notin existing' PROVE attachments[l.iface] > 1
      <4>1. l \in listeners /\ l.iface \in InterfaceProxies /\ l.nth \in Nat
            /\ attachments[l.iface] \in Nat /\ 1 <= l.nth /\ l.nth <= attachments[l.iface]
        BY <2>3 DEF Left, ProxyTypeOK, HandlersAreKept
      <4>2. CASE l.iface = i
        <5>1. l.nth # attachments[i] \/ ownerOf[i] \notin connectedTo
          BY <2>3, <3>2, <4>2 DEF Left
        <5> QED BY <2>3, <4>1, <4>2, <5>1 DEF HandlersAreKept
      <4>3. CASE l.iface # i
        BY <2>3, <3>2, <4>1, <4>3 DEF NoHandlerIsLeft
      <4> QED BY <4>2, <4>3
    <3> QED BY <2>1, <3>1, <3>2 DEF NoHandlerIsLeft
  <2> QED BY <1>3, <2>2, <2>3 DEF DropInterface
<1>4. ASSUME NEW i \in InterfaceProxies, MakeInterface(i)
      PROVE HandlersAreKept' /\ NoHandlerIsLeft'
  BY <1>4 DEF MakeInterface, objectVars, HandlersAreKept, NoHandlerIsLeft
<1>5. ASSUME NEW o \in ObjectProxies, SetConnection(o) PROVE HandlersAreKept' /\ NoHandlerIsLeft'
  BY <1>5 DEF SetConnection, ifaceVars, HandlersAreKept, NoHandlerIsLeft
<1>6. CASE UNCHANGED <<living, connectedTo, existing, ownerOf, listeners, attachments>>
  BY <1>6 DEF HandlersAreKept, NoHandlerIsLeft
<1>7. ASSUME NEW o \in ObjectProxies, NEW path \in ProxyPaths, SetPath(o, path)
      PROVE UNCHANGED <<living, connectedTo, existing, ownerOf, listeners, attachments>>
  BY <1>7 DEF SetPath, ifaceVars
<1>8. ASSUME NEW o \in ObjectProxies, NEW i \in InterfaceProxies, RemoveInterfaceProxy(o, i)
      PROVE UNCHANGED <<living, connectedTo, existing, ownerOf, listeners, attachments>>
  BY <1>8 DEF RemoveInterfaceProxy, objectVars
<1>9. ASSUME NEW i \in InterfaceProxies, NEW m \in MethodProxies,
             AddMethodProxy(i, m) \/ RemoveMethodProxy(i, m) \/ RemoveMethodNamed(i, m)
      PROVE UNCHANGED <<living, connectedTo, existing, ownerOf, listeners, attachments>>
  BY <1>9 DEF AddMethodProxy, RemoveMethodProxy, RemoveMethodNamed, ifaceVars, objectVars
<1>10. ASSUME NEW m \in MethodProxies, CallThrough(m)
       PROVE UNCHANGED <<living, connectedTo, existing, ownerOf, listeners, attachments>>
  BY <1>10 DEF CallThrough, ifaceVars, objectVars
<1>11. ASSUME NEW i \in InterfaceProxies, NEW s \in WatchedSignals,
              CreateSignal(i, s) \/ AddWatched(i, s) \/ RemoveWatched(i, s)
       PROVE UNCHANGED <<living, connectedTo, existing, ownerOf, listeners, attachments>>
  BY <1>11 DEF CreateSignal, AddWatched, RemoveWatched, ifaceVars, objectVars
<1>12. CASE UNCHANGED proxyVars
  BY <1>6, <1>12 DEF proxyVars, ifaceVars, objectVars
<1> QED BY <1>1, <1>2, <1>3, <1>4, <1>5, <1>6, <1>7, <1>8, <1>9, <1>10, <1>11, <1>12
        DEF ProxyNext

-----------------------------------------------------------------------------
LEMMA ProxyInvFollows == ProxyInv => ProxiesFollowTheirObject
  BY DEF ProxyInv, ProxyTypeOK, ListsPointBack, MethodsPointBack, CallIsCurrent,
         CallsReachTheirObject, ProxiesFollowTheirObject

(* Whatever the application does with its proxies, one operation at a time,  *)
(* a listed proxy follows the object that lists it: its calls reach that    *)
(* object, its signals are asked for, and no handler outlives it unless its *)
(* interface was given an object twice.                                     *)
THEOREM ProxiesFollow == ProxySpec => []ProxiesFollowTheirObject
<1>1. ProxyInv /\ [ProxyNext]_proxyVars => ProxyInv'
  BY ProxyTypeStep, ListsStep, MethodsStep, CallStep, AskedStep, HandlersStep DEF ProxyInv
<1> QED BY ProxyInitInv, ProxyInvFollows, <1>1, PTL DEF ProxySpec

(* The maps of proxies keep their types.                                     *)
THEOREM ProxyTypes == ProxySpec => []ProxyTypeOK
<1>1. ProxyInit => ProxyTypeOK
  BY ProxyInitInv DEF ProxyInv
<1> QED BY <1>1, ProxyTypeStep, PTL DEF ProxySpec
=============================================================================
