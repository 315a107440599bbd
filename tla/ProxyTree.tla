----------------------------- MODULE ProxyTree -----------------------------
(***************************************************************************)
(* Object proxies, the interface proxies in them, and the method and       *)
(* signal proxies in those.  Each level lists the next one by name, and    *)
(* each proxy points back to the one it was last added to: a call goes     *)
(* upwards along these pointers, which are raw, and takes the destination, *)
(* the path and the connection that the object proxy has by then.  What    *)
(* selects signals, a rule at the bus, is made when a proxy is made or     *)
(* attached and never again.                                               *)
(*                                                                         *)
(* The Peer interface, which the constructor of an object proxy adds, is   *)
(* left out: it is an interface like any other.  Property proxies are      *)
(* kept like method proxies, and modelled in PropertyCache.                *)
(***************************************************************************)
EXTENDS Naturals, FiniteSets

CONSTANTS ObjectProxies, InterfaceProxies, MethodProxies, WatchedSignals,
          InterfaceName, MethodName,    \* the name of each
          ProxyPaths, FirstPath,        \* paths, and the one each object starts with
          Nobody,                       \* the null pointer
          Anywhere,                     \* the empty path: a rule with it selects every path
          MaxChanges                    \* operations of the application

(* The null pointer is no proxy. *)
ASSUME NobodyAssumption == Nobody \notin ObjectProxies \cup InterfaceProxies \cup MethodProxies
ASSUME PathAssumption == FirstPath \in [ObjectProxies -> ProxyPaths]

VARIABLES
    living,        \* object proxies that have not been destroyed
    connectedTo,   \* those that have a connection
    joined,        \* those that were given it after they were made
    placeOf,       \* m_path of each object proxy
    repathed,      \* object proxies whose path was changed
    existing,      \* interface proxies that were made and not destroyed
    ifacesOf,      \* m_interfaces of each object proxy
    ownerOf,       \* m_object of each interface proxy
    methodsOf,     \* m_methods of each interface proxy
    interfaceOf,   \* m_interface of each method proxy
    disowned,      \* methods removed from an interface that did not list them
    signalsOf,     \* m_signals of each interface proxy
    ruleAt,        \* the path in the rule of each signal proxy, Nobody until it is made
    filterAt,      \* the path its matches() compares with
    askedFor,      \* signal proxies whose rule was given to the bus
    listeners,     \* the free signal proxies for PropertiesChanged: nth of an interface, at a path
    attachments,     \* how often each interface proxy was given an object
    lastCall,      \* the call just made
    changes

objectVars == <<living, connectedTo, joined, placeOf, repathed>>
ifaceVars == <<existing, ifacesOf, ownerOf, listeners, attachments>>
methodVars == <<methodsOf, interfaceOf, disowned>>
watchVars == <<signalsOf, ruleAt, filterAt, askedFor>>
proxyVars == <<objectVars, ifaceVars, methodVars, watchVars, lastCall, changes>>

NotSent == [outcome |-> "none", by |-> Nobody, object |-> Nobody, path |-> Nobody]

ProxyInit ==
    /\ living = ObjectProxies /\ connectedTo \in SUBSET ObjectProxies /\ joined = {}
    /\ placeOf = FirstPath /\ repathed = {}
    /\ existing = {} /\ ifacesOf = [o \in ObjectProxies |-> {}]
    /\ ownerOf = [i \in InterfaceProxies |-> Nobody]
    /\ listeners = {} /\ attachments = [i \in InterfaceProxies |-> 0]
    /\ methodsOf = [i \in InterfaceProxies |-> {}]
    /\ interfaceOf = [m \in MethodProxies |-> Nobody] /\ disowned = {}
    /\ signalsOf = [i \in InterfaceProxies |-> {}]
    /\ ruleAt = [s \in WatchedSignals |-> Nobody] /\ filterAt = ruleAt /\ askedFor = {}
    /\ lastCall = NotSent /\ changes = 0

-----------------------------------------------------------------------------
(* A null or dangling pointer was used: the program has stopped.            *)
Stops == lastCall' = [NotSent EXCEPT !.outcome = "crash"]
Change ==
    /\ lastCall.outcome # "crash"
    /\ changes < MaxChanges /\ changes' = changes + 1
Edited == Change /\ lastCall' = NotSent

(* Interface proxies and method proxies of the same name. *)
SameName(i) == {j \in InterfaceProxies : InterfaceName[j] = InterfaceName[i]}
SameMethod(m) == {k \in MethodProxies : MethodName[k] = MethodName[m]}

(* ObjectProxy::remove_interface erases whichever interface has the name;   *)
(* the interface keeps its pointer to the object.                           *)
Erased(lists, o, i) == [lists EXCEPT ![o] = @ \ SameName(i)]
(* m_interfaces.insert and m_methods.insert leave what has the name already. *)
Inserted(lists, o, x, namesakes) ==
    [lists EXCEPT ![o] = IF @ \cap namesakes = {} THEN @ \cup {x} ELSE @]

(* Mutant: the interface stays in the object it was in. *)
ListedAgain(lists, o, i) == Inserted(lists, o, i, SameName(i))
(* ObjectProxy::add_interface, up to set_object. *)
Moved(lists, o, i) ==
    Inserted(IF ownerOf[i] = Nobody THEN lists ELSE Erased(lists, ownerOf[i], i),
             o, i, SameName(i))

HasConnection(i) == ownerOf[i] \in connectedTo
(* The path of an interface proxy. *)
PathOf(i) == IF ownerOf[i] = Nobody THEN Anywhere ELSE placeOf[ownerOf[i]]

(* InterfaceProxy::set_object: with a connection, a new free signal proxy    *)
(* replaces the one the interface held, which stays registered, and the     *)
(* bus is given the rules of the signals.                                   *)
SetObject(o, i) ==
    /\ ownerOf' = [ownerOf EXCEPT ![i] = o]
    /\ attachments' = [attachments EXCEPT ![i] = @ + 1]
    /\ IF o \in connectedTo
       THEN /\ listeners' = listeners \cup {[iface |-> i, nth |-> attachments'[i], path |-> placeOf[o]]}
            /\ askedFor' = askedFor \cup signalsOf[i]
       ELSE UNCHANGED <<listeners, askedFor>>

MakeInterface(i) ==
    /\ i \notin existing /\ attachments[i] = 0 /\ Edited
    /\ existing' = existing \cup {i}
    /\ UNCHANGED <<objectVars, ifacesOf, ownerOf, listeners, attachments, methodVars, watchVars>>

(* ObjectProxy::add_interface.  The object that the interface points to may *)
(* be gone.                                                                 *)
AddInterfaceProxy(o, i) ==
    /\ o \in living /\ i \in existing
    /\ IF ownerOf[i] \notin living \cup {Nobody}
       THEN Change /\ Stops /\ UNCHANGED <<objectVars, ifaceVars, methodVars, watchVars>>
       ELSE /\ Edited
            /\ ifacesOf' = Moved(ifacesOf, o, i)
            /\ SetObject(o, i)
            /\ UNCHANGED <<objectVars, existing, methodVars, signalsOf, ruleAt, filterAt>>

RemoveInterfaceProxy(o, i) ==
    /\ o \in living /\ ifacesOf[o] \cap SameName(i) # {} /\ Edited
    /\ ifacesOf' = Erased(ifacesOf, o, i)
    /\ UNCHANGED <<objectVars, existing, ownerOf, listeners, attachments, methodVars, watchVars>>

(* ObjectProxy::set_connection tells the interfaces nothing. *)
SetConnection(o) ==
    /\ o \in living \ connectedTo /\ Edited
    /\ connectedTo' = connectedTo \cup {o} /\ joined' = joined \cup {o}
    /\ UNCHANGED <<living, placeOf, repathed, ifaceVars, methodVars, watchVars>>

(* ObjectProxy::set_path: the signals of the interfaces compare with the    *)
(* new path; no rule changes.                                               *)
SetPath(o, path) ==
    /\ o \in living /\ path # placeOf[o] /\ Edited
    /\ placeOf' = [placeOf EXCEPT ![o] = path] /\ repathed' = repathed \cup {o}
    /\ filterAt' = [s \in WatchedSignals |->
                       IF \E i \in ifacesOf[o] : s \in signalsOf[i] THEN path ELSE filterAt[s]]
    /\ UNCHANGED <<living, connectedTo, joined, ifaceVars, methodVars, signalsOf, ruleAt, askedFor>>

(* Mutant: an interface proxy does not remove its free signal proxy. *)
LeftBehind(is) == listeners
(* ~InterfaceProxy takes the free signal proxy it holds, the last one it    *)
(* made, out of the connection of its object, which must still be there.    *)
Left(is) ==
    {l \in listeners : ~(/\ l.iface \in is
                         /\ l.nth = attachments[l.iface]
                         /\ ownerOf[l.iface] \in connectedTo)}

(* The last reference to an object proxy goes, and with it the interfaces   *)
(* that only it held.                                                       *)
Release(o, kept) ==
    /\ o \in living /\ kept \subseteq ifacesOf[o] /\ Edited
    /\ living' = living \ {o}
    /\ existing' = existing \ (ifacesOf[o] \ kept)
    /\ listeners' = Left(ifacesOf[o] \ kept)
    /\ connectedTo' = connectedTo \ {o}
    /\ ifacesOf' = [ifacesOf EXCEPT ![o] = {}]
    /\ UNCHANGED <<joined, placeOf, repathed, ownerOf, attachments, methodVars, watchVars>>

(* The application lets go of an interface that no object lists. *)
DropInterface(i) ==
    /\ i \in existing /\ \A o \in ObjectProxies : i \notin ifacesOf[o]
    /\ UNCHANGED <<objectVars, ifacesOf, ownerOf, attachments, methodVars, watchVars>>
    /\ IF ownerOf[i] \notin living \cup {Nobody}
       THEN Change /\ Stops /\ UNCHANGED <<existing, listeners>>
       ELSE Edited /\ existing' = existing \ {i} /\ listeners' = Left({i})

-----------------------------------------------------------------------------
(* InterfaceProxy::remove_method with a method proxy: whichever method has  *)
(* its name goes, and the method given loses its interface.                 *)
RemoveMethodProxy(i, m) ==
    /\ i \in existing /\ Edited
    /\ methodsOf' = [methodsOf EXCEPT ![i] = @ \ SameMethod(m)]
    /\ interfaceOf' = [interfaceOf EXCEPT ![m] = Nobody]
    /\ disowned' = IF m \in methodsOf[i] THEN disowned ELSE disowned \cup {m}
    /\ UNCHANGED <<objectVars, ifaceVars, watchVars>>

(* InterfaceProxy::remove_method with a name, found or not. *)
RemoveMethodNamed(i, m) ==
    /\ i \in existing
    /\ UNCHANGED <<objectVars, ifaceVars, watchVars, disowned>>
    /\ LET found == methodsOf[i] \cap SameMethod(m) IN
       IF found = {} THEN Change /\ Stops /\ UNCHANGED methodVars
       ELSE /\ Edited
            /\ methodsOf' = [methodsOf EXCEPT ![i] = @ \ found]
            /\ interfaceOf' = [k \in MethodProxies |-> IF k \in found THEN Nobody ELSE interfaceOf[k]]

(* InterfaceProxy::add_method: the interface that the method points to      *)
(* removes it first.                                                        *)
AddMethodProxy(i, m) ==
    /\ i \in existing /\ m \notin methodsOf[i]
    /\ UNCHANGED <<objectVars, ifaceVars, watchVars, disowned>>
    /\ IF interfaceOf[m] \notin existing \cup {Nobody}
       THEN Change /\ Stops /\ UNCHANGED methodVars
       ELSE LET old == interfaceOf[m]
                without == IF old = Nobody THEN methodsOf
                           ELSE [methodsOf EXCEPT ![old] = @ \ SameMethod(m)]
            IN /\ Edited
               /\ methodsOf' = Inserted(without, i, m, SameMethod(m))
               /\ interfaceOf' = [interfaceOf EXCEPT ![m] = i]

(* MethodProxyBase::create_call_message and call, each up to the object     *)
(* proxy: a proxy without an interface, or an interface without an object,  *)
(* has no message to give arguments to.                                     *)
CallThrough(m) ==
    /\ Change
    /\ UNCHANGED <<objectVars, ifaceVars, methodVars, watchVars>>
    /\ LET i == interfaceOf[m] IN
       IF i \notin existing THEN Stops
       ELSE IF ownerOf[i] \notin living THEN Stops
       ELSE lastCall' = [outcome |-> IF HasConnection(i) THEN "sent" ELSE "null",
                     by |-> m, object |-> ownerOf[i], path |-> PathOf(i)]

-----------------------------------------------------------------------------
(* InterfaceProxy::create_signal: the rule has the path of the interface.   *)
CreateSignal(i, s) ==
    /\ i \in existing /\ ownerOf[i] \in living \cup {Nobody} /\ ruleAt[s] = Nobody /\ Edited
    /\ ruleAt' = [ruleAt EXCEPT ![s] = PathOf(i)]
    /\ filterAt' = [filterAt EXCEPT ![s] = PathOf(i)]
    /\ signalsOf' = [signalsOf EXCEPT ![i] = @ \cup {s}]
    /\ askedFor' = IF HasConnection(i) THEN askedFor \cup {s} ELSE askedFor
    /\ UNCHANGED <<objectVars, ifaceVars, methodVars>>

(* InterfaceProxy::add_signal with a signal proxy of another interface,     *)
(* which keeps it too.                                                      *)
AddWatched(i, s) ==
    /\ i \in existing /\ ownerOf[i] \in living \cup {Nobody}
    /\ ruleAt[s] # Nobody /\ s \notin signalsOf[i] /\ Edited
    /\ filterAt' = [filterAt EXCEPT ![s] = PathOf(i)]
    /\ signalsOf' = [signalsOf EXCEPT ![i] = @ \cup {s}]
    /\ askedFor' = IF HasConnection(i) THEN askedFor \cup {s} ELSE askedFor
    /\ UNCHANGED <<objectVars, ifaceVars, methodVars, ruleAt>>

RemoveWatched(i, s) ==
    /\ i \in existing /\ s \in signalsOf[i] /\ Edited
    /\ signalsOf' = [signalsOf EXCEPT ![i] = @ \ {s}]
    /\ UNCHANGED <<objectVars, ifaceVars, methodVars, ruleAt, filterAt, askedFor>>

ProxyNext ==
    \/ \E i \in InterfaceProxies : MakeInterface(i) \/ DropInterface(i)
    \/ \E o \in ObjectProxies, i \in InterfaceProxies :
          AddInterfaceProxy(o, i) \/ RemoveInterfaceProxy(o, i)
    \/ \E o \in ObjectProxies : SetConnection(o)
    \/ \E o \in ObjectProxies, path \in ProxyPaths : SetPath(o, path)
    \/ \E o \in ObjectProxies, kept \in SUBSET InterfaceProxies : Release(o, kept)
    \/ \E i \in InterfaceProxies, m \in MethodProxies :
          AddMethodProxy(i, m) \/ RemoveMethodProxy(i, m) \/ RemoveMethodNamed(i, m)
    \/ \E m \in MethodProxies : CallThrough(m)
    \/ \E i \in InterfaceProxies, s \in WatchedSignals :
          CreateSignal(i, s) \/ AddWatched(i, s) \/ RemoveWatched(i, s)
ProxySpec == ProxyInit /\ [][ProxyNext]_proxyVars

-----------------------------------------------------------------------------
ProxyTypeOK ==
    /\ living \subseteq ObjectProxies /\ connectedTo \subseteq ObjectProxies
    /\ joined \subseteq ObjectProxies /\ repathed \subseteq ObjectProxies
    /\ placeOf \in [ObjectProxies -> ProxyPaths]
    /\ existing \subseteq InterfaceProxies
    /\ ifacesOf \in [ObjectProxies -> SUBSET InterfaceProxies]
    /\ ownerOf \in [InterfaceProxies -> ObjectProxies \cup {Nobody}]
    /\ listeners \subseteq [iface : InterfaceProxies, nth : Nat, path : ProxyPaths]
    /\ attachments \in [InterfaceProxies -> Nat]
    /\ methodsOf \in [InterfaceProxies -> SUBSET MethodProxies]
    /\ interfaceOf \in [MethodProxies -> InterfaceProxies \cup {Nobody}]
    /\ disowned \subseteq MethodProxies
    /\ signalsOf \in [InterfaceProxies -> SUBSET WatchedSignals]
    /\ askedFor \subseteq WatchedSignals

(* A call through a method proxy that an interface of an object lists is    *)
(* made to that object, at the path it has now, and never stops the         *)
(* program; unless remove_method was called on an interface that did not    *)
(* list the method.                                                         *)
CallsReachTheirObject ==
    \A o \in living : \A i \in ifacesOf[o] : \A m \in methodsOf[i] \ disowned :
       /\ interfaceOf[m] = i /\ ownerOf[i] = o
       /\ lastCall.by = m => lastCall.object = o /\ lastCall.path = placeOf[o]

(* The object proxies that had their connection and path from the start. *)
Steady == (living \cap connectedTo) \ (joined \cup repathed)
(* Whichever came first, the signal or the interface's object, the bus was  *)
(* given the rule of each signal, and the interface hears of changed        *)
(* properties at the path of its object.                                    *)
SignalsAreAskedFor ==
    \A o \in Steady : \A i \in ifacesOf[o] :
       /\ signalsOf[i] \subseteq askedFor
       /\ \E l \in listeners : l.iface = i /\ l.path = placeOf[o]

(* The connection holds no handler of an interface proxy that is gone,      *)
(* unless the interface had been given an object more than once.            *)
NoHandlerIsLeft ==
    \A l \in listeners : l.iface \notin existing => attachments[l.iface] > 1

(* A proxy that is listed follows the object that lists it: calls go to it,  *)
(* signals come from it, and its handlers go with it (add_interface,        *)
(* add_method, add_signal and set_object keep the two directions together).  *)
ProxiesFollowTheirObject ==
    CallsReachTheirObject /\ SignalsAreAskedFor /\ NoHandlerIsLeft
=============================================================================
