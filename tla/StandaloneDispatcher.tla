------------------------ MODULE StandaloneDispatcher ------------------------
(***************************************************************************)
(* A StandaloneDispatcher and its connections: one thread of the           *)
(* application, the owner, starts, stops and destroys it, another one adds *)
(* connections and exports objects, and a method may stop the dispatcher   *)
(* from the thread that runs it.                                           *)
(*                                                                         *)
(* A std::thread::id is a number: the nth thread that start() makes is n,  *)
(* NoThread is what get_id() returns without a thread, and Application the *)
(* thread that made the connections.  A connection and an exported object  *)
(* each remember such an id, copied at a time of its own.  Each connection *)
(* has one object; Dispatch and ObjectRouting have the rest of them.       *)
(***************************************************************************)
EXTENDS Integers, Sequences

CONSTANTS Conns,        \* the connections of the application
          Greeted,      \* those whose bus_register was called when they were created
          MaxStarts,    \* calls of start()
          MaxCalls      \* calls that the bus sends

NoThread == 0
Application == -1
Nowhere == -2
ThreadIds == 1 .. MaxStarts

ASSUME LoopAssumption == Greeted \subseteq Conns /\ MaxStarts \in Nat /\ MaxCalls \in Nat

VARIABLES
    isRunning,     \* m_running
    thread,        \* the id of m_dispatch_thread
    starts,        \* threads made so far
    owner,         \* where start(), stop() or the destructor is
    conns,         \* m_connections
    adder,         \* add_connection in progress
    wakes,         \* bytes in the socketpair
    loop,          \* dispatch_thread_main of the newest thread
    knows,         \* m_dispatchingThread of each connection
    registered,    \* connections that have a unique name
    handler,       \* the handling thread of each connection's object
    inbox,         \* calls on the socket of each connection
    calls,         \* calls that the bus has sent
    refused,       \* connections on which a call was given to no thread
    outdated,      \* connections whose object was exported before the thread had begun
    raced,         \* add_connection and start() or the loop were in each other's way
    selfStopped,   \* a method has called stop()
    terminated     \* std::terminate was called, or memory freed by the vector was used

ownerVars == <<isRunning, thread, starts, owner>>
connVars == <<conns, adder>>
exportVars == <<handler, refused, outdated>>
socketVars == <<inbox, calls>>
loopVars == <<ownerVars, connVars, wakes, loop, knows, registered, exportVars, socketVars,
              raced, selfStopped, terminated>>

NoLoop == [pc |-> "none", id |-> NoThread, at |-> 1, watched |-> {}]
(* The loop goes through m_connections. *)
Iterating == loop.pc \in {"begin", "scan", "dispatch"}
Conn == conns[loop.at]
AtEnd == loop.at > Len(conns)
Added == {conns[k] : k \in DOMAIN conns}

LoopInit ==
    /\ isRunning = FALSE /\ thread = NoThread /\ starts = 0 /\ owner = "idle"
    /\ conns = <<>> /\ adder = [pc |-> "idle", conn |-> {}]
    /\ wakes = 0 /\ loop = NoLoop
    /\ knows = [c \in Conns |-> Application] /\ registered = Greeted
    /\ handler = [c \in Conns |-> Nowhere] /\ refused = {} /\ outdated = {}
    /\ inbox = [c \in Conns |-> 0] /\ calls = 0
    /\ raced = FALSE /\ selfStopped = FALSE /\ terminated = FALSE

Exported == {c \in Conns : handler[c] # Nowhere}

-----------------------------------------------------------------------------
(* The owner.                                                              *)

(* start(), until the thread is made.  A std::thread that was not joined    *)
(* must not be assigned to.                                                 *)
Start ==
    /\ owner = "idle" /\ ~isRunning /\ starts < MaxStarts
    /\ isRunning' = TRUE /\ starts' = starts + 1
    /\ IF thread # NoThread
       THEN terminated' = TRUE /\ UNCHANGED <<owner, loop>>
       ELSE /\ owner' = "started" /\ UNCHANGED terminated
            /\ loop' = [pc |-> "begin", id |-> starts', at |-> 1, watched |-> {}]
    /\ outdated' = outdated \cup Exported
    /\ raced' = (raced \/ adder.pc = "push")
    /\ UNCHANGED <<thread, connVars, wakes, knows, registered, handler, refused, socketVars,
                   selfStopped>>
(* The new thread is stored in m_dispatch_thread. *)
Started ==
    /\ owner = "started" /\ owner' = "idle" /\ thread' = starts
    /\ UNCHANGED <<isRunning, starts, connVars, wakes, loop, knows, registered, exportVars,
                   socketVars, raced, selfStopped, terminated>>

(* stop(): m_running is cleared before the thread is woken. *)
Stop ==
    /\ owner = "idle" /\ isRunning
    /\ isRunning' = FALSE /\ owner' = "wake"
    /\ UNCHANGED <<thread, starts, connVars, wakes, loop, knows, registered, exportVars,
                   socketVars, raced, selfStopped, terminated>>
WakeToStop ==
    /\ owner = "wake" /\ owner' = "join" /\ wakes' = wakes + 1
    /\ UNCHANGED <<isRunning, thread, starts, connVars, loop, knows, registered, exportVars,
                   socketVars, raced, selfStopped, terminated>>
(* Mutant: the thread is not waited for. *)
Detach ==
    /\ owner = "join"
    /\ owner' = "idle" /\ thread' = NoThread
    /\ UNCHANGED <<isRunning, starts, connVars, wakes, loop, knows, registered, exportVars,
                   socketVars, raced, selfStopped, terminated>>
Join ==
    /\ owner = "join" /\ loop.pc = "ended"
    /\ owner' = "idle" /\ thread' = NoThread
    /\ UNCHANGED <<isRunning, starts, connVars, wakes, loop, knows, registered, exportVars,
                   socketVars, raced, selfStopped, terminated>>
(* The destructor, when stop() in it has returned. *)
Destroy ==
    /\ owner = "idle" /\ ~isRunning /\ adder.pc = "idle"
    /\ owner' = "gone" /\ terminated' = (thread # NoThread)
    /\ UNCHANGED <<isRunning, thread, starts, connVars, wakes, loop, knows, registered,
                   exportVars, socketVars, raced, selfStopped>>

-----------------------------------------------------------------------------
(* The thread that adds connections and exports objects.                   *)

(* add_connection, up to push_back. *)
AddConnection(c) ==
    /\ owner # "gone" /\ adder.pc = "idle" /\ c \notin Added
    /\ knows' = [knows EXCEPT ![c] = thread]
    /\ adder' = [pc |-> "push", conn |-> {c}]
    /\ raced' = (raced \/ owner = "started")
    /\ outdated' = IF c \in Exported /\ handler[c] # thread THEN outdated \cup {c} ELSE outdated
    /\ UNCHANGED <<ownerVars, conns, wakes, loop, registered, handler, refused, socketVars,
                   selfStopped, terminated>>
(* push_back: what the loop's iterator points to may be freed. *)
Push ==
    /\ adder.pc = "push" /\ adder' = [adder EXCEPT !.pc = "wake"]
    /\ \E c \in adder.conn : conns' = Append(conns, c)
    /\ raced' = (raced \/ Iterating)
    /\ terminated' \in {FALSE, Iterating}
    /\ UNCHANGED <<ownerVars, wakes, loop, knows, registered, exportVars, socketVars, selfStopped>>
(* Mutant: the thread is woken for a connection that it knows already. *)
NoWake ==
    /\ adder.pc = "wake" /\ adder' = [pc |-> "idle", conn |-> {}] /\ UNCHANGED wakes
    /\ UNCHANGED <<ownerVars, conns, loop, knows, registered, exportVars, socketVars,
                   raced, selfStopped, terminated>>
WakeForConnection ==
    /\ adder.pc = "wake" /\ adder' = [pc |-> "idle", conn |-> {}] /\ wakes' = wakes + 1
    /\ UNCHANGED <<ownerVars, conns, loop, knows, registered, exportVars, socketVars,
                   raced, selfStopped, terminated>>

(* register_object for the dispatching thread.  A thread that start() has   *)
(* made may not yet have told the connection of itself.                     *)
Starting == owner = "started" \/ loop.pc = "begin"
Export(c) ==
    /\ c \notin Exported /\ handler' = [handler EXCEPT ![c] = knows[c]]
    /\ outdated' = IF Starting THEN outdated \cup {c} ELSE outdated
    /\ UNCHANGED <<ownerVars, connVars, wakes, loop, knows, registered, refused,
                   socketVars, raced, selfStopped, terminated>>
(* The bus sends a call to an object. *)
Arrive(c) ==
    /\ c \in Exported \cap registered /\ calls < MaxCalls
    /\ inbox' = [inbox EXCEPT ![c] = @ + 1]
    /\ calls' = calls + 1
    /\ UNCHANGED <<ownerVars, connVars, wakes, loop, knows, registered, exportVars, raced,
                   selfStopped, terminated>>

-----------------------------------------------------------------------------
(* The dispatch thread.                                                    *)

(* Mutant: the connections keep the thread they were added for. *)
KeepThread ==
    /\ loop.pc = "begin"
    /\ loop' = [loop EXCEPT !.pc = "check"]
    /\ UNCHANGED <<ownerVars, connVars, wakes, knows, registered, exportVars, socketVars,
                   raced, selfStopped, terminated>>
(* The connections that were added before are told of the new thread. *)
TakeConnection ==
    /\ loop.pc = "begin"
    /\ IF AtEnd THEN loop' = [loop EXCEPT !.pc = "check", !.at = 1] /\ UNCHANGED knows
       ELSE /\ loop' = [loop EXCEPT !.at = @ + 1]
            /\ knows' = [knows EXCEPT ![Conn] = loop.id]
    /\ UNCHANGED <<ownerVars, connVars, wakes, registered, exportVars, socketVars, raced,
                   selfStopped, terminated>>

CheckRunning ==
    /\ loop.pc = "check"
    /\ loop' = [loop EXCEPT !.pc = IF isRunning THEN "scan" ELSE "ended"]
    /\ UNCHANGED <<ownerVars, connVars, wakes, knows, registered, exportVars, socketVars,
                   raced, selfStopped, terminated>>

(* bus_register blocks: if the connection takes another thread for its      *)
(* dispatching thread nobody reads the answer, and the time-out throws.     *)
Watch ==
    /\ loop.pc = "scan"
    /\ IF AtEnd THEN loop' = [loop EXCEPT !.pc = "poll", !.at = 1] /\ UNCHANGED <<registered, terminated>>
       ELSE /\ loop' = [loop EXCEPT !.at = @ + 1, !.watched = @ \cup {Conn}]
            /\ registered' = registered \cup {Conn}
            /\ terminated' = (Conn \notin registered /\ knows[Conn] # loop.id)
    /\ UNCHANGED <<ownerVars, connVars, wakes, knows, exportVars, socketVars, raced, selfStopped>>

(* wait_for_fd_activity, and one byte is read. *)
Poll ==
    /\ loop.pc = "poll"
    /\ wakes > 0 \/ \E c \in loop.watched : inbox[c] > 0
    /\ wakes' = IF wakes > 0 THEN wakes - 1 ELSE 0
    /\ loop' = [loop EXCEPT !.pc = "dispatch", !.watched = {}]
    /\ UNCHANGED <<ownerVars, connVars, knows, registered, exportVars, socketVars, raced,
                   selfStopped, terminated>>

(* dispatch() and process_call_message: a call to an object of the          *)
(* dispatching thread is run, another is answered with an error, as the     *)
(* thread it is for has no dispatcher.                                      *)
DispatchCall ==
    /\ loop.pc = "dispatch" /\ ~AtEnd /\ inbox[Conn] > 0
    /\ inbox' = [inbox EXCEPT ![Conn] = @ - 1]
    /\ refused' = IF handler[Conn] = knows[Conn] THEN refused ELSE refused \cup {Conn}
    /\ UNCHANGED <<ownerVars, connVars, wakes, loop, knows, registered, handler, outdated,
                   calls, raced, selfStopped, terminated>>
(* The method calls stop(): a thread cannot join itself, so stop() throws   *)
(* and the call is answered with an error; or start() has not stored the    *)
(* thread yet, and there is nothing to join.                                *)
StopFromMethod ==
    /\ loop.pc = "dispatch" /\ ~AtEnd /\ inbox[Conn] > 0
    /\ handler[Conn] = knows[Conn] /\ isRunning
    /\ inbox' = [inbox EXCEPT ![Conn] = @ - 1]
    /\ isRunning' = FALSE /\ wakes' = wakes + 1 /\ selfStopped' = TRUE
    /\ UNCHANGED <<thread, starts, owner, connVars, loop, knows, registered, exportVars,
                   calls, raced, terminated>>
NextConnection ==
    /\ loop.pc = "dispatch"
    /\ IF AtEnd THEN loop' = [loop EXCEPT !.pc = "check", !.at = 1]
       ELSE inbox[Conn] = 0 /\ loop' = [loop EXCEPT !.at = @ + 1]
    /\ UNCHANGED <<ownerVars, connVars, wakes, knows, registered, exportVars, socketVars,
                   raced, selfStopped, terminated>>

OwnerStep == Start \/ Started \/ Stop \/ WakeToStop \/ Join \/ Destroy
AdderStep == Push \/ WakeForConnection \/ \E c \in Conns : AddConnection(c) \/ Export(c)
LoopStep ==
    \/ TakeConnection \/ CheckRunning \/ Watch \/ Poll
    \/ DispatchCall \/ StopFromMethod \/ NextConnection
(* A race of push_back with the loop, or of get_id() with start(), may leave *)
(* anything: it is not followed any further.                                *)
LoopNext == ~raced /\ ~terminated /\ (OwnerStep \/ AdderStep \/ LoopStep \/ \E c \in Conns : Arrive(c))

(* The threads keep running; nobody has to start or stop anything. *)
Follows(step) == ~raced /\ ~terminated /\ step
LoopFairness ==
    /\ WF_loopVars(Follows(LoopStep))
    /\ WF_loopVars(Follows(Started \/ WakeToStop \/ Join))
    /\ WF_loopVars(Follows(Push \/ WakeForConnection))
LoopSpec == LoopInit /\ [][LoopNext]_loopVars /\ LoopFairness

-----------------------------------------------------------------------------
LoopTypeOK ==
    /\ isRunning \in BOOLEAN /\ thread \in {NoThread} \cup ThreadIds /\ starts \in 0 .. MaxStarts
    /\ owner \in {"idle", "started", "wake", "join", "gone"}
    /\ conns \in Seq(Conns)
    /\ adder \in [pc : {"idle", "push", "wake"}, conn : SUBSET Conns]
    /\ wakes \in Nat
    /\ loop \in [pc : {"none", "begin", "check", "scan", "poll", "dispatch", "ended"},
                 id : {NoThread} \cup ThreadIds, at : Nat \ {0}, watched : SUBSET Conns]
    /\ knows \in [Conns -> {Application, NoThread} \cup ThreadIds]
    /\ registered \subseteq Conns
    /\ handler \in [Conns -> {Nowhere, Application, NoThread} \cup ThreadIds]
    /\ refused \subseteq Conns /\ outdated \subseteq Conns
    /\ inbox \in [Conns -> Nat] /\ calls \in 0 .. MaxCalls
    /\ raced \in BOOLEAN /\ selfStopped \in BOOLEAN /\ terminated \in BOOLEAN

(* Once the loop polls, each connection takes the thread that dispatches it *)
(* for its dispatching thread, whenever it was added and however often the  *)
(* dispatcher was stopped and started: else its blocking calls would wait   *)
(* for themselves.                                                          *)
ThreadsAreKnown ==
    loop.pc \in {"check", "scan", "poll", "dispatch"} =>
        \A c \in Added : knows[c] = loop.id
(* When stop() has returned, no method is run any more.                     *)
StoppedIsQuiet == (owner \in {"idle", "gone"} /\ thread = NoThread) => loop.pc \in {"none", "ended"}
(* The program is not ended, except when the owner goes on after a method   *)
(* has stopped the dispatcher.                                              *)
NotTerminated == terminated => selfStopped
(* Calls to objects for the dispatching thread are run by it, unless the     *)
(* object was exported before the thread had begun, though start() may have *)
(* returned, or before its connection was added: register_object copies the *)
(* id that the connection has at that time.                                 *)
CallsAreRun == refused \subseteq outdated
LoopFollowsItsOwner ==
    ~raced => ThreadsAreKnown /\ StoppedIsQuiet /\ NotTerminated /\ CallsAreRun

(* While the dispatcher runs, the calls on each connection that was added   *)
(* are taken off its socket, also if it was added while the loop polled,    *)
(* and stop() returns: the wake-ups are written after what they announce.   *)
Blocked == terminated \/ raced
CallsAreTaken == \A c \in Conns : (c \in Added /\ inbox[c] > 0) ~> (inbox[c] = 0 \/ ~isRunning \/ Blocked)
StopReturns == owner = "wake" ~> (owner = "idle" \/ Blocked)
LoopServesAll == CallsAreTaken /\ StopReturns
=============================================================================
