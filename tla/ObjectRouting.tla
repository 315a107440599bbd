--------------------------- MODULE ObjectRouting ---------------------------
(***************************************************************************)
(* Exported objects and the thread each is called on.  A Connection keeps, *)
(* per path, the object and its handling thread (m_path_handler), and per  *)
(* thread a weak pointer to a ThreadDispatcher (m_threadDispatchers).  The *)
(* dispatching thread routes each incoming call: it calls the object       *)
(* itself, hands the call to the thread's dispatcher, or answers with an   *)
(* error.  The thread dispatcher is QtThreadDispatcher, whose sendMessages *)
(* holds its queue's mutex while it calls the objects.                     *)
(*                                                                         *)
(* Each path has one object; each object is registered with this           *)
(* connection only.  Critical sections of m_pathHandlerLock that make no   *)
(* call are single steps.  Threads add their dispatcher before they        *)
(* register objects, as the status Failed_No_Thread_Dispatcher             *)
(* (enums.h:135) supposes, and the id of a thread that has ended is not    *)
(* given to another.                                                       *)
(***************************************************************************)
EXTENDS Integers, Sequences, FiniteSets

CONSTANTS
    Threads,      \* application threads
    Dispatcher,   \* the dispatching thread
    Paths,        \* object paths
    None,         \* no thread: path without object, lock without holder
    MaxCalls      \* bound: calls from the bus

ASSUME RoutingAssumption ==
    /\ Dispatcher \notin Threads /\ None \notin Threads \cup {Dispatcher}
    /\ MaxCalls \in Nat

VARIABLES
    handler,   \* m_path_handler: the handling thread of each path, or None
    bound,     \* the object's m_connection is set (nothing ever clears it)
    pathLock,  \* holder of m_pathHandlerLock across a call, or None
    disp,      \* m_threadDispatchers per thread: "absent", "live", "expired"
    queue,     \* m_objMessageQueue of each thread's dispatcher
    busy,      \* m_objMessageMutex is held by its own thread
    tpc,       \* what each application thread is doing
    dpc,       \* where the dispatching thread is in process_call_message
    call,      \* the call it routes
    target,    \* entry.handlingThread, copied under the lock
    orphan,    \* the dispatcher it has locked belongs to a thread that ended
    invalid,   \* invalidThreadIds of the sweep
    fate,      \* what became of each call
    calls      \* counter for the bound

vars == <<handler, bound, pathLock, disp, queue, busy, tpc, dpc, call, target, orphan,
          invalid, fate, calls>>
threadVars == <<queue, busy, tpc>>
routeVars  == <<dpc, call, target, orphan, invalid>>

Ids == 1..MaxCalls
NoCall == [id |-> 0, path |-> None]
Calls == [id : Ids, path : Paths]
ThreadStates == [at : {"run", "drain", "relock", "ended"}, call : {NoCall}]
                  \cup [at : {"handling", "blocked"}, call : Calls]

TypeOK ==
    /\ handler \in [Paths -> Threads \cup {Dispatcher, None}]
    /\ bound \in [Paths -> BOOLEAN]
    /\ pathLock \in Threads \cup {None}
    /\ disp \in [Threads -> {"absent", "live", "expired"}]
    /\ queue \in [Threads -> Seq(Calls)]
    /\ busy \in [Threads -> BOOLEAN]
    /\ tpc \in [Threads -> ThreadStates]
    /\ dpc \in {"idle", "lookup", "handling", "find", "push", "sweep", "sweepPaths"}
    /\ call \in Calls \cup {NoCall}
    /\ target \in Threads \cup {Dispatcher, None}
    /\ orphan \in BOOLEAN /\ invalid \subseteq Threads
    /\ fate \in [Ids -> {"none", "routing", "queued", "answered", "ignored", "lost"}]
    /\ calls \in 0..MaxCalls

At(a) == [at |-> a, call |-> NoCall]

Init ==
    /\ handler = [p \in Paths |-> None] /\ bound = [p \in Paths |-> FALSE]
    /\ pathLock = None
    /\ disp = [t \in Threads |-> "absent"]
    /\ queue = [t \in Threads |-> <<>>] /\ busy = [t \in Threads |-> FALSE]
    /\ tpc = [t \in Threads |-> At("run")]
    /\ dpc = "idle" /\ call = NoCall /\ target = None /\ orphan = FALSE
    /\ invalid = {}
    /\ fate = [i \in Ids |-> "none"]
    /\ calls = 0

Goto(t, a) == tpc' = [tpc EXCEPT ![t] = At(a)]
Running(t) == tpc[t].at = "run"

-----------------------------------------------------------------------------
(* Application threads *)

(* Connection::add_thread_dispatcher, with a dispatcher local to thread t. *)
AddThreadDispatcher(t) ==
    /\ Running(t) /\ disp[t] # "live"
    /\ disp' = [disp EXCEPT ![t] = "live"]
    /\ UNCHANGED <<handler, bound, pathLock, threadVars, routeVars, fate, calls>>

(* thread_id_from_calling: the two values of ThreadForCalling. *)
CallingThreads(t) == {Dispatcher, t}

(* Connection::register_object (nothing happens when the path is in use).   *)
(* The entry is made and the object's connection set under the lock;        *)
(* Object::set_connection first unregisters, and if the object still        *)
(* remembers this connection that needs the same lock.                      *)
RegisterObject(t, p, u) ==
    /\ Running(t) /\ pathLock = None /\ handler[p] = None
    /\ disp[t] = "live"
    /\ handler' = [handler EXCEPT ![p] = u]
    /\ bound' = [bound EXCEPT ![p] = TRUE]
    /\ \/ ~bound[p] /\ UNCHANGED <<pathLock, tpc>>
       \/ bound[p] /\ pathLock' = t /\ Goto(t, "relock")
    /\ UNCHANGED <<disp, queue, busy, routeVars, fate, calls>>

(* Connection::unregister_object: the object keeps its connection. *)
UnregisterObject(t, p) ==
    /\ Running(t) /\ pathLock = None /\ handler[p] # None
    /\ handler' = [handler EXCEPT ![p] = None]
    /\ UNCHANGED <<bound, pathLock, disp, threadVars, routeVars, fate, calls>>

(* Connection::change_object_calling_thread. *)
ChangeObjectCallingThread(t, p, u) ==
    /\ Running(t) /\ pathLock = None /\ handler[p] # None
    /\ disp[t] = "live"
    /\ handler' = [handler EXCEPT ![p] = u]
    /\ UNCHANGED <<bound, pathLock, disp, threadVars, routeVars, fate, calls>>

(* The thread ends: its dispatcher and the calls queued there are gone. *)
EndThread(t) ==
    /\ Running(t)
    /\ Goto(t, "ended")
    /\ disp' = [disp EXCEPT ![t] = IF @ = "live" THEN "expired" ELSE @]
    /\ queue' = [queue EXCEPT ![t] = <<>>]
    /\ fate' = [i \in Ids |-> IF \E j \in DOMAIN queue[t] : queue[t][j].id = i
                              THEN "lost" ELSE fate[i]]
    /\ orphan' = (orphan \/ (dpc = "push" /\ target = t))
    /\ UNCHANGED <<handler, bound, pathLock, busy, dpc, call, target, invalid, calls>>

-----------------------------------------------------------------------------
(* QtThreadDispatcher::sendMessages on thread t *)

SendMessages(t) ==
    /\ Running(t) /\ disp[t] = "live" /\ queue[t] # <<>> /\ ~busy[t]
    /\ busy' = [busy EXCEPT ![t] = TRUE]
    /\ Goto(t, "drain")
    /\ UNCHANGED <<handler, bound, pathLock, disp, queue, routeVars, fate, calls>>

(* A call is popped and its object's handle_message entered ... *)
HandleMessage(t) ==
    /\ tpc[t].at = "drain" /\ queue[t] # <<>>
    /\ tpc' = [tpc EXCEPT ![t] = [at |-> "handling", call |-> Head(queue[t])]]
    /\ queue' = [queue EXCEPT ![t] = Tail(@)]
    /\ UNCHANGED <<handler, bound, pathLock, disp, busy, routeVars, fate, calls>>

(* ... which makes a blocking call of its own and so waits for the          *)
(* dispatching thread ...                                                   *)
MethodCallsBus(t) ==
    /\ tpc[t].at = "handling"
    /\ tpc' = [tpc EXCEPT ![t] = [at |-> "blocked", call |-> tpc[t].call]]
    /\ UNCHANGED <<handler, bound, pathLock, disp, queue, busy, routeVars, fate, calls>>

(* ... which delivers the reply when it is not stuck, or the time is up.    *)
MethodResumes(t) ==
    /\ tpc[t].at = "blocked"
    /\ tpc' = [tpc EXCEPT ![t] = [at |-> "handling", call |-> tpc[t].call]]
    /\ UNCHANGED <<handler, bound, pathLock, disp, queue, busy, routeVars, fate, calls>>

(* The method answers; the result of a call that no interface or method     *)
(* handles is dropped by sendMessages.                                      *)
MethodDone(t) ==
    /\ tpc[t].at = "handling"
    /\ \E f \in {"answered", "ignored"} : fate' = [fate EXCEPT ![tpc[t].call.id] = f]
    /\ Goto(t, "drain")
    /\ UNCHANGED <<handler, bound, pathLock, disp, queue, busy, routeVars, calls>>

(* Mutant: the mutex stays locked when the queue is empty. *)
DrainKeepsMutex(t) ==
    /\ tpc[t].at = "drain" /\ queue[t] = <<>>
    /\ Goto(t, "run")
    /\ UNCHANGED <<handler, bound, pathLock, disp, queue, busy, routeVars, fate, calls>>

DrainDone(t) ==
    /\ tpc[t].at = "drain" /\ queue[t] = <<>>
    /\ busy' = [busy EXCEPT ![t] = FALSE]
    /\ Goto(t, "run")
    /\ UNCHANGED <<handler, bound, pathLock, disp, queue, routeVars, fate, calls>>
-----------------------------------------------------------------------------
(* The dispatching thread: process_call_message *)

Route(l) == dpc' = l
Settle(f) == fate' = [fate EXCEPT ![call.id] = f]
EndRoute == /\ Route("idle") /\ call' = NoCall /\ target' = None
            /\ orphan' = FALSE /\ invalid' = {}

(* A call comes in (external: the bus). *)
CallArrives(p) ==
    /\ dpc = "idle" /\ calls < MaxCalls
    /\ calls' = calls + 1
    /\ call' = [id |-> calls + 1, path |-> p]
    /\ fate' = [fate EXCEPT ![calls + 1] = "routing"]
    /\ Route("lookup")
    /\ UNCHANGED <<handler, bound, pathLock, disp, threadVars, target, orphan, invalid>>

(* The entry is copied under the lock.  No entry: an error is sent. *)
Lookup ==
    /\ dpc = "lookup" /\ pathLock = None
    /\ LET u == handler[call.path] IN
         \/ u = None /\ Settle("answered") /\ EndRoute
         \/ /\ u # None
            /\ target' = u
            /\ Route(IF u = Dispatcher THEN "handling" ELSE "find")
            /\ UNCHANGED <<fate, call, orphan, invalid>>
    /\ UNCHANGED <<handler, bound, pathLock, disp, threadVars, calls>>

(* The object's method has run here, or send_error_on_handler_result has. *)
HandledHere ==
    /\ dpc = "handling"
    /\ Settle("answered") /\ EndRoute
    /\ UNCHANGED <<handler, bound, pathLock, disp, threadVars, calls>>

(* Mutant: a call for a thread without dispatcher is dropped. *)
FindGivesUp ==
    /\ dpc = "find"
    /\ \/ disp[target] = "live" /\ Route("push") /\ UNCHANGED <<call, target, orphan, invalid>>
       \/ disp[target] # "live" /\ EndRoute
    /\ UNCHANGED <<handler, bound, pathLock, disp, threadVars, fate, calls>>

(* m_threadDispatchers[ ... ].lock(): operator[] leaves an empty pointer    *)
(* for a thread that has added no dispatcher.                               *)
FindDispatcher ==
    /\ dpc = "find"
    /\ disp' = [disp EXCEPT ![target] = IF @ = "absent" THEN "expired" ELSE @]
    /\ Route(IF disp[target] = "live" THEN "push" ELSE "sweep")
    /\ UNCHANGED <<handler, bound, pathLock, threadVars, call, target, orphan, invalid,
                   fate, calls>>

(* add_message waits for the mutex that sendMessages holds.  lock() keeps   *)
(* the dispatcher of a thread that has ended alive just long enough to take *)
(* the call down with it.                                                   *)
AddMessage ==
    /\ dpc = "push" /\ (orphan \/ ~busy[target])
    /\ \/ /\ ~orphan
          /\ queue' = [queue EXCEPT ![target] = Append(@, call)]
          /\ Settle("queued")
       \/ /\ orphan
          /\ Settle("lost")
          /\ UNCHANGED queue
    /\ EndRoute
    /\ UNCHANGED <<handler, bound, pathLock, disp, busy, tpc, calls>>

(* remove_invalid_threaddispatchers_and_associated_objects: expired         *)
(* dispatchers leave their map ...                                          *)
SweepDispatchers ==
    /\ dpc = "sweep"
    /\ invalid' = {t \in Threads : disp[t] = "expired"}
    /\ disp' = [t \in Threads |-> IF disp[t] = "expired" THEN "absent" ELSE disp[t]]
    /\ Route("sweepPaths")
    /\ UNCHANGED <<handler, bound, pathLock, threadVars, call, target, orphan, fate,
                   calls>>

(* Mutant: every object of a thread without dispatcher goes. *)
SweepAllWithout ==
    /\ dpc = "sweepPaths" /\ pathLock = None
    /\ handler' = [p \in Paths |-> IF handler[p] # Dispatcher THEN None ELSE handler[p]]
    /\ Settle("answered") /\ EndRoute
    /\ UNCHANGED <<bound, pathLock, disp, threadVars, calls>>

(* ... then, under the other lock, their objects theirs; an error is sent.  *)
SweepPaths ==
    /\ dpc = "sweepPaths" /\ pathLock = None
    /\ handler' = [p \in Paths |-> IF handler[p] \in invalid THEN None ELSE handler[p]]
    /\ Settle("answered") /\ EndRoute
    /\ UNCHANGED <<bound, pathLock, disp, threadVars, calls>>

-----------------------------------------------------------------------------
ThreadStep(t) ==
    \/ AddThreadDispatcher(t) \/ EndThread(t)
    \/ \E p \in Paths :
          \/ UnregisterObject(t, p)
          \/ \E u \in CallingThreads(t) :
                RegisterObject(t, p, u) \/ ChangeObjectCallingThread(t, p, u)

DrainStep(t) ==
    \/ SendMessages(t) \/ HandleMessage(t) \/ MethodResumes(t) \/ MethodDone(t)
    \/ DrainDone(t)

RouteStep ==
    \/ Lookup \/ HandledHere \/ FindDispatcher \/ AddMessage \/ SweepDispatchers
    \/ SweepPaths

Next ==
    \/ \E t \in Threads : ThreadStep(t) \/ DrainStep(t) \/ MethodCallsBus(t)
    \/ RouteStep
    \/ \E p \in Paths : CallArrives(p)

Spec == Init /\ [][Next]_vars

(* The dispatching thread and threads inside sendMessages keep running (a   *)
(* blocking call in a method ends by its time-out, and methods make         *)
(* finitely many).  Threads need not add dispatchers, end or register.      *)
Fairness ==
    /\ WF_vars(RouteStep)
    /\ \A t \in Threads : WF_vars(DrainStep(t)) /\ SF_vars(MethodDone(t))

FairSpec == Spec /\ Fairness

-----------------------------------------------------------------------------
(* Properties *)

(* An object whose thread is running with its dispatcher in place is        *)
(* unexported only by unregister_object, never by the sweep that follows a  *)
(* call to some other, ended thread.                                        *)
LiveObjectsStay ==
    [][SweepPaths => \A p \in Paths :
         handler'[p] # handler[p] => disp[handler[p]] # "live"]_vars

(* The dispatching thread comes back from every call it routes, though it   *)
(* may wait for a mutex held across a method that waits for it.             *)
DispatcherReturns == (dpc # "idle") ~> (dpc = "idle" \/ pathLock # None)

(* Every call that comes in is answered, dropped as unhandled by a thread   *)
(* dispatcher, or lost with a thread that ended: none waits for ever.       *)
EveryCallSettled ==
    \A i \in Ids : (fate[i] \in {"routing", "queued"})
        ~> (fate[i] \in {"answered", "ignored", "lost"} \/ pathLock # None)

(* register_object comes back with "the status of registering an object"    *)
(* (connection.h:273): no thread waits for the lock it holds itself.        *)
RegistrationReturns == \A t \in Threads : tpc[t].at # "relock"
=============================================================================
