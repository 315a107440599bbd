---------------------------- MODULE ObjectTree ----------------------------
(***************************************************************************)
(* Exported objects: their interfaces, default interfaces and children,    *)
(* the methods and signals of an interface, and the dispatching thread     *)
(* that looks a method up in them and runs it while a thread of the        *)
(* application edits them.                                                 *)
(*                                                                         *)
(* The path and the connection are copied downwards, from the object to    *)
(* its interfaces and from an interface to its signals, by whichever       *)
(* operation comes later: a signal is emitted with the copies it has.      *)
(***************************************************************************)
EXTENDS Integers, FiniteSets, Functions

CONSTANTS Objects,      \* each at a path of its own
          Interfaces,
          NameOf,       \* the name of each interface
          Signals,
          Methods,      \* method names
          Null,
          MaxSteps      \* operations of the application

Names == {NameOf[i] : i \in Interfaces}

ASSUME TreeAssumption == Null \notin Objects \cup Interfaces

VARIABLES
    connected,     \* objects that have a connection
    paths,         \* objects in m_path_handler
    children,      \* m_children
    ifaces,        \* m_interfaces: the interface under each name, or Null
    default,       \* m_default_interface
    home,          \* the object whose path the interface has, or Null
    attached,      \* interfaces that have a connection
    methods,       \* m_methods of each interface
    signals,       \* m_signals of each interface
    signalHome,    \* the object whose path the signal has, or Null
    signalIface,   \* the interface that the signal was last added to
    signalBound,   \* signals that have a connection
    running,       \* the dispatching thread's call
    steps

treeVars == <<connected, paths, children, ifaces, default, home, attached, methods, signals,
              signalHome, signalIface, signalBound, running, steps>>
tree == <<children, ifaces, default>>
copies == <<home, attached, signalHome, signalBound>>
content == <<methods, signals, signalIface>>

NoneRunning == [pc |-> "idle", object |-> Null, name |-> Null, member |-> Null,
                iface |-> Null, found |-> FALSE]

TreeInit ==
    /\ connected = {} /\ paths = {}
    /\ children = [o \in Objects |-> {}]
    /\ ifaces = [o \in Objects |-> [n \in Names |-> Null]]
    /\ default = [o \in Objects |-> Null]
    /\ home = [i \in Interfaces |-> Null] /\ attached = {}
    /\ methods = [i \in Interfaces |-> {}] /\ signals = [i \in Interfaces |-> {}]
    /\ signalHome = [s \in Signals |-> Null] /\ signalIface = [s \in Signals |-> Null]
    /\ signalBound = {}
    /\ running = NoneRunning /\ steps = 0

-----------------------------------------------------------------------------
(* The application's operations.                                           *)

Edit == steps < MaxSteps /\ steps' = steps + 1
(* m_interfaces_rwlock: a call holds it shared while its method runs. *)
CallHolds(o) == running.pc \in {"find", "default", "run"} /\ running.object = o
InterfacesOf(o) == {ifaces[o][n] : n \in Names} \ {Null}
(* The tree has two levels. *)
Below(os) == os \cup UNION {children[o] : o \in os}

(* Mutant: the interfaces that the object already has are left as they are. *)
ConnectOnly(os) ==
    /\ connected' = connected \cup os
    /\ UNCHANGED copies

(* Object::set_connection, for the object and its children: each is taken   *)
(* out of m_path_handler if it had the connection already, and its          *)
(* interfaces and their signals get the connection.                         *)
Connect(os) ==
    LET is == UNION {InterfacesOf(o) : o \in os} IN
    /\ connected' = connected \cup os
    /\ attached' = attached \cup is
    /\ signalBound' = signalBound \cup UNION {signals[i] : i \in is}
    /\ UNCHANGED <<home, signalHome>>

(* Connection::register_object.  (An object that already has a connection   *)
(* waits for itself here: ObjectRouting.)                                   *)
Register(o) ==
    /\ Edit /\ o \notin connected /\ o \notin paths
    /\ Connect(Below({o}))
    /\ paths' = (paths \cup {o}) \ (children[o] \cap connected)
    /\ UNCHANGED <<tree, content, running>>
Unregister(o) ==
    /\ Edit /\ o \in paths
    /\ paths' = paths \ {o}
    /\ UNCHANGED <<connected, tree, copies, content, running>>

AddChild(o, c) ==
    /\ Edit /\ o # c /\ o \in connected /\ c \notin children[o]
    /\ children[c] = {} /\ \A p \in Objects : o \notin children[p]
    /\ children' = [children EXCEPT ![o] = @ \cup {c}]
    /\ Connect(Below({c}))
    /\ paths' = paths \ (Below({c}) \cap connected)
    /\ UNCHANGED <<ifaces, default, content, running>>
RemoveChild(o, c) ==
    /\ Edit /\ c \in children[o]
    /\ children' = [children EXCEPT ![o] = @ \ {c}]
    /\ UNCHANGED <<connected, paths, ifaces, default, copies, content, running>>

(* Object::add_interface.  An interface whose name is taken is not added,   *)
(* and gets the path and the connection all the same.  The application      *)
(* gives an interface to one object.                                        *)
AddInterface(o, i) ==
    LET n == NameOf[i] IN
    /\ Edit /\ ~CallHolds(o) /\ home[i] \in {Null, o}
    /\ ifaces' = [ifaces EXCEPT ![o][n] = IF @ = Null THEN i ELSE @]
    /\ home' = [home EXCEPT ![i] = o]
    /\ signalHome' = [s \in Signals |-> IF s \in signals[i] THEN o ELSE signalHome[s]]
    /\ attached' = IF o \in connected THEN attached \cup {i} ELSE attached \ {i}
    /\ signalBound' = IF o \in connected THEN signalBound \cup signals[i]
                      ELSE signalBound \ signals[i]
    /\ UNCHANGED <<connected, paths, children, default, content, running>>
RemoveInterface(o, n) ==
    /\ Edit /\ ~CallHolds(o) /\ ifaces[o][n] # Null
    /\ ifaces' = [ifaces EXCEPT ![o][n] = Null]
    /\ UNCHANGED <<connected, paths, children, default, copies, content, running>>

(* set_default_interface writes with the lock shared, remove_default_       *)
(* interface without it.                                                    *)
SetDefault(o, n) ==
    /\ Edit /\ ifaces[o][n] \notin {Null, default[o]}
    /\ default' = [default EXCEPT ![o] = ifaces[o][n]]
    /\ UNCHANGED <<connected, paths, children, ifaces, copies, content, running>>
RemoveDefault(o) ==
    /\ Edit /\ default[o] # Null
    /\ default' = [default EXCEPT ![o] = Null]
    /\ UNCHANGED <<connected, paths, children, ifaces, copies, content, running>>

(* Interface::add_signal and remove_signal: a signal of several interfaces  *)
(* has the path of the last one.                                            *)
AddSignalTo(i, s) ==
    /\ Edit /\ s \notin signals[i] /\ signalIface[s] \in {Null, i}
    /\ signals' = [signals EXCEPT ![i] = @ \cup {s}]
    /\ signalIface' = [signalIface EXCEPT ![s] = i]
    /\ signalHome' = [signalHome EXCEPT ![s] = home[i]]
    /\ signalBound' = IF i \in attached THEN signalBound \cup {s} ELSE signalBound \ {s}
    /\ UNCHANGED <<connected, paths, tree, home, attached, methods, running>>
RemoveSignalFrom(i, s) ==
    /\ Edit /\ s \in signals[i]
    /\ signals' = [signals EXCEPT ![i] = @ \ {s}]
    /\ UNCHANGED <<connected, paths, tree, copies, methods, signalIface, running>>

AddMethod(i, m) ==
    /\ Edit /\ m \notin methods[i]
    /\ methods' = [methods EXCEPT ![i] = @ \cup {m}]
    /\ UNCHANGED <<connected, paths, tree, copies, signals, signalIface, running>>
(* A method that runs is destroyed by this; the application does not do it. *)
RemoveMethod(i, m) ==
    /\ Edit /\ m \in methods[i]
    /\ running.pc = "run" => (running.iface # i \/ running.member # m)
    /\ methods' = [methods EXCEPT ![i] = @ \ {m}]
    /\ UNCHANGED <<connected, paths, tree, copies, signals, signalIface, running>>

-----------------------------------------------------------------------------
(* A call: Object::handle_message and Interface::handle_call_message.      *)

treeButRunning == <<connected, paths, tree, copies, content, steps>>

Call(o, n, m) ==
    /\ running.pc = "idle" /\ o \in paths
    /\ running' = [NoneRunning EXCEPT !.pc = "find", !.object = o, !.name = n, !.member = m]
    /\ UNCHANGED treeButRunning
(* The interface of that name, or else the default one, which is tested ... *)
FindInterface ==
    LET i == ifaces[running.object][running.name] IN
    /\ running.pc = "find"
    /\ running' = IF i # Null
                    THEN IF running.member \in methods[i]
                         THEN [running EXCEPT !.pc = "run", !.iface = i, !.found = TRUE]
                         ELSE NoneRunning
                  ELSE IF default[running.object] # Null
                    THEN [running EXCEPT !.pc = "default"] ELSE NoneRunning
    /\ UNCHANGED treeButRunning
(* ... and then read again: a null pointer when it was removed in between.  *)
UseDefault ==
    LET i == default[running.object] IN
    /\ running.pc = "default"
    /\ running' = IF i = Null THEN [running EXCEPT !.pc = "crashed"]
                  ELSE IF running.member \in methods[i]
                  THEN [running EXCEPT !.pc = "run", !.iface = i] ELSE NoneRunning
    /\ UNCHANGED treeButRunning
MethodEnds ==
    /\ running.pc = "run"
    /\ running' = NoneRunning
    /\ UNCHANGED treeButRunning

-----------------------------------------------------------------------------
Editing ==
    \/ \E o \in Objects : Register(o) \/ Unregister(o) \/ RemoveDefault(o)
    \/ \E o, c \in Objects : AddChild(o, c) \/ RemoveChild(o, c)
    \/ \E o \in Objects, i \in Interfaces : AddInterface(o, i)
    \/ \E o \in Objects, n \in Names : RemoveInterface(o, n) \/ SetDefault(o, n)
    \/ \E i \in Interfaces, s \in Signals : AddSignalTo(i, s) \/ RemoveSignalFrom(i, s)
    \/ \E i \in Interfaces, m \in Methods : AddMethod(i, m) \/ RemoveMethod(i, m)
Calling ==
    \/ \E o \in Objects, n \in Names, m \in Methods : Call(o, n, m)
    \/ FindInterface \/ UseDefault \/ MethodEnds
TreeNext == Editing \/ Calling
TreeSpec == TreeInit /\ [][TreeNext]_treeVars

-----------------------------------------------------------------------------
(* Whatever the order in which signals are added to interfaces, interfaces  *)
(* to objects, objects to parents, and all of them connected: a signal of   *)
(* an object that has a connection is emitted on it, from the path of that  *)
(* object.                                                                  *)
SignalsFollowTheObject ==
    \A o \in connected : \A i \in InterfacesOf(o) : \A s \in signals[i] :
        signalHome[s] = o /\ s \in signalBound
=============================================================================
