---------------------------- MODULE BlockingCall ----------------------------
(***************************************************************************)
(* Blocking method calls made by application threads while another thread *)
(* dispatches the connection: the second branch of                         *)
(* Connection::send_with_reply_blocking, Connection::send, and the dispatch *)
(* thread of a StandaloneDispatcher (dispatch_thread_main,                 *)
(* dispatch_connections, Connection::dispatch, flush and                   *)
(* process_single_message).                                                *)
(*                                                                         *)
(* A call puts its message on the outgoing queue and an ExpectingResponse  *)
(* in a table, both under locks, rings the dispatcher and sleeps on the    *)
(* entry's condition variable.  The dispatch thread, on a reply, looks the *)
(* serial up in the table, stores the reply and notifies; it takes no lock *)
(* to do so.  The steps below are as fine as those missing locks make      *)
(* visible: a mutation of the table is a begin step and an end step, and a *)
(* lookup in between is a data race.                                       *)
(***************************************************************************)
EXTENDS Integers, Sequences, FiniteSets

CONSTANTS
    Callers,     \* application threads, none of them the dispatching thread
    Free,        \* the value of a mutex that nobody holds
    MaxSerial,   \* bound: serials handed out before the run ends (no wrap)
    MaxSignals   \* bound: signals the bus sends on its own account

ASSUME BlockingCallAssumption ==
    /\ IsFiniteSet(Callers) /\ Free \notin Callers
    /\ MaxSerial \in Nat \ {0}
    /\ MaxSignals \in Nat

VARIABLES
    valid,       \* the transport's m_ok
    nextSerial,  \* m_currentSerial
    outgoing,    \* m_outgoingMessages
    incoming,    \* m_incomingMessages
    expecting,   \* m_expectingResponses: serial -> "absent" or "entry"
    exLock,      \* holder of m_expectingResponsesLock while it mutates the table
    reply,       \* the reply field of the ExpectingResponse made for a serial
    status,      \* m_dispatchStatus
    wake,        \* bytes in the dispatcher's socketpair
    pc,          \* where each caller is in its call
    serial,      \* each caller's serial (its local variable)
    gotReply,    \* each caller's local "status": did the wait see a reply
    outcome,     \* what each caller's last call returned or threw
    dpc,         \* where the dispatch thread is
    current,     \* its local msgToProcess
    toBus,       \* serials of the calls the bus has received, unanswered
    fromBus,     \* bytes on the socket, as whole messages
    closed,      \* the bus has closed the socket
    signals      \* signals sent by the bus so far

threadVars == <<pc, serial, gotReply, outcome>>
tableVars  == <<expecting, exLock, reply>>
busVars    == <<toBus, fromBus, closed, signals>>
queueVars  == <<nextSerial, outgoing>>
vars == <<valid, nextSerial, outgoing, incoming, expecting, exLock, reply,
          status, wake, pc, serial, gotReply, outcome, dpc, current,
          toBus, fromBus, closed, signals>>

Serials == 1..MaxSerial
NoMessage == [type |-> "NONE", to |-> 0]
(* RETURN and ERROR messages take the same path: both are a REPLY here. *)
Replies  == [type : {"REPLY"}, to : Serials]
Messages == Replies \cup {[type |-> "SIGNAL", to |-> 0]}
Outgoing == [type : {"CALL", "SIGNAL"}, serial : Serials]

CallerPCs == {"idle", "ring_send", "enqueue", "inserting", "ring", "check",
              "park", "wait", "expired", "erase", "erasing"}
DispatcherPCs == {"poll", "dispatch", "read", "process", "find", "store", "notify",
                  "finish", "complete", "remains", "return",
                  "recheck", "crashed"}

(* What a call returns: the reply, or the exception it throws. *)
Exceptions == {[type |-> x, to |-> 0] : x \in {"ErrorDisconnected", "ErrorNoReply"}}
Outcomes == Replies \cup Exceptions \cup {NoMessage}

TypeOK ==
    /\ valid \in BOOLEAN
    /\ nextSerial \in 1..(MaxSerial + 1)
    /\ outgoing \in Seq(Outgoing)
    /\ incoming \in Seq(Messages)
    /\ expecting \in [Serials -> {"absent", "entry"}]
    /\ exLock \in Callers \cup {Free}
    /\ reply \in [Serials -> Replies \cup {NoMessage}]
    /\ status \in {"COMPLETE", "DATA_REMAINS"}
    /\ wake \in Nat
    /\ pc \in [Callers -> CallerPCs]
    /\ serial \in [Callers -> 0..MaxSerial]
    /\ gotReply \in [Callers -> BOOLEAN]
    /\ outcome \in [Callers -> Outcomes]
    /\ dpc \in DispatcherPCs
    /\ current \in Messages \cup {NoMessage}
    /\ toBus \in SUBSET Serials
    /\ fromBus \in Seq(Messages)
    /\ closed \in BOOLEAN
    /\ signals \in 0..MaxSignals

Init ==
    /\ valid = TRUE
    /\ nextSerial = 1
    /\ outgoing = <<>> /\ incoming = <<>>
    /\ expecting = [s \in Serials |-> "absent"]
    /\ exLock = Free
    /\ reply = [s \in Serials |-> NoMessage]
    /\ status = "COMPLETE"
    /\ wake = 0
    /\ pc = [t \in Callers |-> "idle"]
    /\ serial = [t \in Callers |-> 0]
    /\ gotReply = [t \in Callers |-> FALSE]
    /\ outcome = [t \in Callers |-> NoMessage]
    /\ dpc = "poll"
    /\ current = NoMessage
    /\ toBus = {} /\ fromBus = <<>> /\ closed = FALSE
    /\ signals = 0

-----------------------------------------------------------------------------
(* The calling thread *)

Running == dpc # "crashed"

Goto(t, l) == pc' = [pc EXCEPT ![t] = l]

(* Bound: a serial is left for t beside those other threads are about to take. *)
SerialLeft ==
    nextSerial + Cardinality({u \in Callers : pc[u] \in {"enqueue", "inserting"}})
        <= MaxSerial

(* m_outgoingLock is free.  A call holds it together with the table's lock; *)
(* the other critical sections on it are single steps of this model.        *)
OutgoingLockFree == \A t \in Callers : pc[t] # "inserting"

(* Entry of send_with_reply_blocking: a call on a dead transport throws. *)
CallBegin(t) ==
    /\ Running /\ pc[t] = "idle" /\ SerialLeft
    /\ \/ /\ valid
          /\ Goto(t, "enqueue")
          /\ outcome' = [outcome EXCEPT ![t] = NoMessage]
       \/ /\ ~valid
          /\ outcome' = [outcome EXCEPT ![t] = [type |-> "ErrorDisconnected", to |-> 0]]
          /\ UNCHANGED pc
    /\ UNCHANGED <<valid, queueVars, incoming, tableVars, status, wake, serial,
                   gotReply, dpc, current, busVars>>

(* The scoped_lock on the outgoing queue and on the table. *)
EnqueueLock(t) ==
    /\ Running /\ pc[t] = "enqueue" /\ exLock = Free
    /\ exLock' = t
    /\ Goto(t, "inserting")
    /\ UNCHANGED <<valid, queueVars, incoming, expecting, reply, status, wake,
                   serial, gotReply, outcome, dpc, current, busVars>>

(* Mutant: the serial is read and not counted on. *)
EnqueueSameSerial(t) ==
    /\ Running /\ pc[t] = "inserting" /\ nextSerial <= MaxSerial
    /\ outgoing' = Append(outgoing, [type |-> "CALL", serial |-> nextSerial])
    /\ serial' = [serial EXCEPT ![t] = nextSerial]
    /\ expecting' = [expecting EXCEPT ![nextSerial] = "entry"]
    /\ exLock' = Free
    /\ Goto(t, "ring")
    /\ UNCHANGED <<valid, nextSerial, incoming, reply, status, wake, gotReply, outcome,
                   dpc, current, busVars>>

(* Serial taken, message queued, entry inserted, locks released. *)
Enqueue(t) ==
    /\ Running /\ pc[t] = "inserting" /\ nextSerial <= MaxSerial
    /\ nextSerial' = nextSerial + 1
    /\ outgoing' = Append(outgoing, [type |-> "CALL", serial |-> nextSerial])
    /\ serial' = [serial EXCEPT ![t] = nextSerial]
    /\ expecting' = [expecting EXCEPT ![nextSerial] = "entry"]
    /\ exLock' = Free
    /\ Goto(t, "ring")
    /\ UNCHANGED <<valid, incoming, reply, status, wake, gotReply, outcome,
                   dpc, current, busVars>>

(* Connection::send from an application thread: no answer is awaited. *)
Send(t) ==
    /\ Running /\ pc[t] = "idle" /\ valid /\ SerialLeft /\ OutgoingLockFree
    /\ nextSerial' = nextSerial + 1
    /\ outgoing' = Append(outgoing, [type |-> "SIGNAL", serial |-> nextSerial])
    /\ Goto(t, "ring_send")
    /\ UNCHANGED <<valid, incoming, tableVars, status, wake, serial, gotReply,
                   outcome, dpc, current, busVars>>

(* Mutant: no byte is written when the status already says DATA_REMAINS. *)
RingOnce(t) ==
    /\ Running /\ pc[t] \in {"ring", "ring_send"}
    /\ status' = "DATA_REMAINS"
    /\ wake' = IF status = "DATA_REMAINS" THEN wake ELSE wake + 1
    /\ Goto(t, IF pc[t] = "ring" THEN "check" ELSE "idle")
    /\ UNCHANGED <<valid, queueVars, incoming, tableVars, serial, gotReply,
                   outcome, dpc, current, busVars>>

(* notify_dispatcher_or_dispatch off the dispatching thread. *)
Ring(t) ==
    /\ Running /\ pc[t] \in {"ring", "ring_send"}
    /\ status' = "DATA_REMAINS"
    /\ wake' = wake + 1
    /\ Goto(t, IF pc[t] = "ring" THEN "check" ELSE "idle")
    /\ UNCHANGED <<valid, queueVars, incoming, tableVars, serial, gotReply,
                   outcome, dpc, current, busVars>>

(* The predicate of wait_for, evaluated under the table's lock.  "park" is  *)
(* the point between a false predicate and the thread being asleep: the     *)
(* waiter holds only cv_lock there, which the dispatch thread never takes.  *)
Check(t) ==
    /\ Running /\ pc[t] = "check" /\ exLock = Free
    /\ \/ /\ reply[serial[t]] # NoMessage
          /\ gotReply' = [gotReply EXCEPT ![t] = TRUE]
          /\ Goto(t, "erase")
       \/ /\ reply[serial[t]] = NoMessage
          /\ Goto(t, "park")
          /\ UNCHANGED gotReply
    /\ UNCHANGED <<valid, queueVars, incoming, tableVars, status, wake, serial,
                   outcome, dpc, current, busVars>>

Park(t) ==
    /\ Running /\ pc[t] = "park"
    /\ Goto(t, "wait")
    /\ UNCHANGED <<valid, queueVars, incoming, tableVars, status, wake, serial,
                   gotReply, outcome, dpc, current, busVars>>

SpuriousWakeup(t) ==
    /\ Running /\ pc[t] = "wait"
    /\ Goto(t, "check")
    /\ UNCHANGED <<valid, queueVars, incoming, tableVars, status, wake, serial,
                   gotReply, outcome, dpc, current, busVars>>

(* Mutant: wait() in place of wait_for(). *)
NoTimeout(t) == FALSE /\ UNCHANGED vars

Timeout(t) ==
    /\ Running /\ pc[t] = "wait"
    /\ Goto(t, "expired")
    /\ UNCHANGED <<valid, queueVars, incoming, tableVars, status, wake, serial,
                   gotReply, outcome, dpc, current, busVars>>

(* Mutant: the time-out is believed without a last look. *)
NoLastCheck(t) ==
    /\ Running /\ pc[t] = "expired" /\ exLock = Free
    /\ Goto(t, "erase")
    /\ UNCHANGED <<valid, queueVars, incoming, tableVars, status, wake, serial,
                   gotReply, outcome, dpc, current, busVars>>

(* wait_for evaluates the predicate once more when the time is up. *)
LastCheck(t) ==
    /\ Running /\ pc[t] = "expired" /\ exLock = Free
    /\ gotReply' = [gotReply EXCEPT ![t] = reply[serial[t]] # NoMessage]
    /\ Goto(t, "erase")
    /\ UNCHANGED <<valid, queueVars, incoming, tableVars, status, wake, serial,
                   outcome, dpc, current, busVars>>

EraseLock(t) ==
    /\ Running /\ pc[t] = "erase" /\ exLock = Free
    /\ exLock' = t
    /\ Goto(t, "erasing")
    /\ UNCHANGED <<valid, queueVars, incoming, expecting, reply, status, wake,
                   serial, gotReply, outcome, dpc, current, busVars>>

Result(t) == IF gotReply[t] THEN reply[serial[t]]
             ELSE [type |-> "ErrorNoReply", to |-> 0]

(* Mutant: only a call that got its reply removes its entry. *)
EraseOnReplyOnly(t) ==
    /\ Running /\ pc[t] = "erasing"
    /\ expecting' = IF gotReply[t] THEN [expecting EXCEPT ![serial[t]] = "absent"]
                    ELSE expecting
    /\ reply' = [reply EXCEPT ![serial[t]] = NoMessage]
    /\ exLock' = Free
    /\ outcome' = [outcome EXCEPT ![t] = Result(t)]
    /\ gotReply' = [gotReply EXCEPT ![t] = FALSE]
    /\ Goto(t, "idle")
    /\ UNCHANGED <<valid, queueVars, incoming, status, wake, serial, dpc, current,
                   busVars>>

(* The entry leaves the table and the call returns its reply or throws; the *)
(* caller's reference was the last one to the entry.                        *)
EraseAndReturn(t) ==
    /\ Running /\ pc[t] = "erasing"
    /\ expecting' = [expecting EXCEPT ![serial[t]] = "absent"]
    /\ reply' = [reply EXCEPT ![serial[t]] = NoMessage]
    /\ exLock' = Free
    /\ outcome' = [outcome EXCEPT ![t] = Result(t)]
    /\ gotReply' = [gotReply EXCEPT ![t] = FALSE]
    /\ Goto(t, "idle")
    /\ UNCHANGED <<valid, queueVars, incoming, status, wake, serial, dpc, current,
                   busVars>>

-----------------------------------------------------------------------------
(* The dispatch thread *)

(* poll() in dispatch_thread_main: the socketpair, or the bus socket when   *)
(* the transport is valid (unix_fd() is -1, ignored, when it is not).  One  *)
(* byte of the socketpair is read per turn.                                 *)
Poll ==
    /\ dpc = "poll"
    /\ wake > 0 \/ (valid /\ (fromBus # <<>> \/ closed))
    /\ wake' = IF wake > 0 THEN wake - 1 ELSE wake
    /\ dpc' = "dispatch"
    /\ UNCHANGED <<valid, queueVars, incoming, tableVars, status, threadVars,
                   current, busVars>>

(* dispatch() on a dead transport does nothing. *)
DispatchInvalid ==
    /\ dpc = "dispatch" /\ ~valid
    /\ status' = "COMPLETE"
    /\ dpc' = "poll"
    /\ UNCHANGED <<valid, queueVars, incoming, tableVars, wake, threadVars,
                   current, busVars>>

(* flush() empties the queue; a failed write marks the transport invalid    *)
(* and the messages popped are gone.                                        *)
Flush ==
    /\ dpc = "dispatch" /\ valid /\ OutgoingLockFree
    /\ outgoing' = <<>>
    /\ \/ /\ ~closed \/ outgoing = <<>>
          /\ toBus' = toBus \cup {outgoing[i].serial :
                          i \in {j \in DOMAIN outgoing : outgoing[j].type = "CALL"}}
          /\ UNCHANGED valid
       \/ /\ closed /\ outgoing # <<>>
          /\ valid' = FALSE
          /\ UNCHANGED toBus
    /\ dpc' = "read"
    /\ UNCHANGED <<nextSerial, incoming, tableVars, status, wake, threadVars,
                   current, fromBus, closed, signals>>

(* readMessage(): one message, nothing, or the end of the stream. *)
Read ==
    /\ dpc = "read"
    /\ \/ /\ fromBus # <<>>
          /\ incoming' = Append(incoming, Head(fromBus))
          /\ fromBus' = Tail(fromBus)
          /\ UNCHANGED valid
       \/ /\ fromBus = <<>>
          /\ valid' = (valid /\ ~closed)
          /\ UNCHANGED <<incoming, fromBus>>
    /\ dpc' = "process"
    /\ UNCHANGED <<queueVars, tableVars, status, wake, threadVars, current,
                   toBus, closed, signals>>

(* process_single_message up to the lookup.  Signals have no handler here:  *)
(* handing one on changes none of this module's state.                      *)
Process ==
    /\ dpc = "process"
    /\ \/ /\ incoming = <<>>
          /\ dpc' = "finish"
          /\ UNCHANGED <<incoming, current>>
       \/ /\ incoming # <<>>
          /\ current' = Head(incoming)
          /\ incoming' = Tail(incoming)
          /\ dpc' = IF Head(incoming) \in Replies THEN "find" ELSE "finish"
    /\ UNCHANGED <<valid, queueVars, tableVars, status, wake, threadVars, busVars>>

(* A caller is changing the table at this moment. *)
TableInFlux == exLock # Free

(* find() without the lock: during a change of the table it may miss an     *)
(* entry that is there, or fault.  A reply nobody waits for is dropped.     *)
Find ==
    /\ dpc = "find"
    /\ \/ expecting[current.to] = "entry" /\ dpc' = "store"
       \/ expecting[current.to] = "absent" /\ dpc' = "finish"
       \/ TableInFlux /\ dpc' \in {"finish", "crashed"}
    /\ UNCHANGED <<valid, queueVars, incoming, tableVars, status, wake,
                   threadVars, current, busVars>>

(* operator[] without the lock: a serial that has left the table gets a     *)
(* null entry, which is dereferenced.                                       *)
NullEntry == expecting[current.to] = "absent" \/ TableInFlux

Crash ==
    /\ dpc \in {"store", "notify"} /\ NullEntry
    /\ dpc' = "crashed"
    /\ UNCHANGED <<valid, queueVars, incoming, tableVars, status, wake,
                   threadVars, current, busVars>>

(* Mutant: the reply goes to every thread that waits. *)
StoreEverywhere ==
    /\ dpc = "store" /\ expecting[current.to] = "entry"
    /\ reply' = [s \in Serials |-> IF expecting[s] = "entry" THEN current ELSE reply[s]]
    /\ dpc' = "notify"
    /\ UNCHANGED <<valid, queueVars, incoming, expecting, exLock, status, wake,
                   threadVars, current, busVars>>

StoreReply ==
    /\ dpc = "store" /\ expecting[current.to] = "entry"
    /\ reply' = [reply EXCEPT ![current.to] = current]
    /\ dpc' = "notify"
    /\ UNCHANGED <<valid, queueVars, incoming, expecting, exLock, status, wake,
                   threadVars, current, busVars>>

(* cv.notify_one() wakes the one waiter of the entry, if it is asleep. *)
NotifyOne ==
    /\ dpc = "notify" /\ expecting[current.to] = "entry"
    /\ pc' = [t \in Callers |->
                IF pc[t] = "wait" /\ serial[t] = current.to THEN "check" ELSE pc[t]]
    /\ dpc' = "finish"
    /\ UNCHANGED <<valid, queueVars, incoming, tableVars, status, wake, serial,
                   gotReply, outcome, current, busVars>>

(* dispatch() looks at both queues, without their lock ... *)
Finish ==
    /\ dpc = "finish"
    /\ dpc' = IF outgoing = <<>> /\ incoming = <<>> THEN "complete" ELSE "remains"
    /\ current' = NoMessage
    /\ UNCHANGED <<valid, queueVars, incoming, tableVars, status, wake, threadVars,
                   busVars>>

(* ... and then assigns the status: a Ring in between is overwritten.       *)
Settle ==
    /\ dpc \in {"complete", "remains"}
    /\ status' = IF dpc = "complete" THEN "COMPLETE" ELSE "DATA_REMAINS"
    /\ dpc' = "return"
    /\ UNCHANGED <<valid, queueVars, incoming, tableVars, wake, threadVars,
                   current, busVars>>

(* The status is read again to be returned; dispatch_connections calls      *)
(* dispatch() until it is COMPLETE or the loop limit (any limit) is reached. *)
Return ==
    /\ dpc = "return"
    /\ \/ dpc' = "recheck"
       \/ status = "DATA_REMAINS" /\ dpc' = "dispatch"
    /\ UNCHANGED <<valid, queueVars, incoming, tableVars, status, wake, threadVars,
                   current, busVars>>

(* After the loop dispatch_connections looks at the status again, which     *)
(* another thread may have changed, and rings itself.                       *)
Recheck ==
    /\ dpc = "recheck"
    /\ wake' = IF valid /\ status # "COMPLETE" THEN wake + 1 ELSE wake
    /\ dpc' = "poll"
    /\ UNCHANGED <<valid, queueVars, incoming, tableVars, status, threadVars,
                   current, busVars>>

-----------------------------------------------------------------------------
(* The bus (external) *)

BusReply(s) ==
    /\ Running /\ ~closed /\ s \in toBus
    /\ toBus' = toBus \ {s}
    /\ fromBus' = Append(fromBus, [type |-> "REPLY", to |-> s])
    /\ UNCHANGED <<valid, queueVars, incoming, tableVars, status, wake,
                   threadVars, dpc, current, closed, signals>>

BusSignal ==
    /\ Running /\ ~closed /\ signals < MaxSignals
    /\ signals' = signals + 1
    /\ fromBus' = Append(fromBus, [type |-> "SIGNAL", to |-> 0])
    /\ UNCHANGED <<valid, queueVars, incoming, tableVars, status, wake,
                   threadVars, dpc, current, toBus, closed>>

BusClose ==
    /\ Running /\ ~closed
    /\ closed' = TRUE
    /\ UNCHANGED <<valid, queueVars, incoming, tableVars, status, wake,
                   threadVars, dpc, current, toBus, fromBus, signals>>

-----------------------------------------------------------------------------
CallerStep(t) ==
    \/ CallBegin(t) \/ EnqueueLock(t) \/ Enqueue(t) \/ Send(t) \/ Ring(t)
    \/ Check(t) \/ Park(t) \/ SpuriousWakeup(t) \/ Timeout(t) \/ LastCheck(t)
    \/ EraseLock(t) \/ EraseAndReturn(t)

DispatcherStep ==
    \/ Poll \/ DispatchInvalid \/ Flush \/ Read \/ Process \/ Find
    \/ Crash \/ StoreReply \/ NotifyOne \/ Finish \/ Settle
    \/ Return \/ Recheck

BusStep ==
    \/ \E s \in Serials : BusReply(s)
    \/ BusSignal \/ BusClose

Next == (\E t \in Callers : CallerStep(t)) \/ DispatcherStep \/ BusStep

Spec == Init /\ [][Next]_vars

(* Fairness: the dispatch thread and a thread inside a call keep running    *)
(* (std::thread under a preemptive scheduler), and wait_for measures its    *)
(* time-out from the start of the call, so spurious wake-ups cannot put it  *)
(* off for ever.  Nothing is assumed of the bus, of new calls or of         *)
(* spurious wake-ups.                                                       *)
CallContinues(t) ==
    \/ EnqueueLock(t) \/ Enqueue(t) \/ Ring(t) \/ Check(t) \/ Park(t)
    \/ LastCheck(t) \/ EraseLock(t) \/ EraseAndReturn(t)

Fairness ==
    /\ WF_vars(DispatcherStep)
    /\ \A t \in Callers : WF_vars(CallContinues(t)) /\ SF_vars(Timeout(t))

FairSpec == Spec /\ Fairness

-----------------------------------------------------------------------------
(* Properties *)

(* Where a thread is between the insertion of its entry and its removal. *)
Registered == {"ring", "check", "park", "wait", "expired", "erase", "erasing"}

(* send_with_reply_blocking returns, or throws, only an answer to its own   *)
(* call: not one that arrived late for an earlier call of the thread that   *)
(* had timed out, nor one for the call of another thread.                   *)
OwnReply ==
    \A t \in Callers :
        /\ outcome[t] \in Replies => outcome[t].to = serial[t]
        /\ (pc[t] \in Registered /\ reply[serial[t]] # NoMessage)
              => reply[serial[t]].to = serial[t]

(* m_expectingResponses has an entry for exactly the calls in progress, and *)
(* no two of them share one: an abandoned call leaves nothing behind, and   *)
(* the find() of the wait predicate and of the removal never miss.          *)
TableTracksCalls ==
    /\ \A s \in Serials : expecting[s] = "entry" <=>
          \E t \in Callers : pc[t] \in Registered /\ serial[t] = s
    /\ \A t, u \in Callers :
          (t # u /\ pc[t] \in Registered /\ pc[u] \in Registered) => serial[t] # serial[u]

(* The dispatch thread never sleeps on work: while it polls a live          *)
(* connection nothing is left to process, and a message on the outgoing     *)
(* queue has a wake-up byte in the socketpair or a thread about to write    *)
(* one, whatever became of the status flag the two threads overwrite.       *)
NeverSleepsOnWork ==
    (dpc = "poll" /\ valid) =>
        /\ incoming = <<>>
        /\ outgoing # <<>> =>
             wake > 0 \/ \E t \in Callers : pc[t] \in {"ring", "ring_send"}

(* Every blocking call ends, with a reply or by its time-out, though the    *)
(* bus never answers or closes the socket (unless the process crashed).     *)
CallsReturn ==
    \A t \in Callers : (pc[t] \notin {"idle", "ring_send"}) ~> (pc[t] = "idle" \/ ~Running)

(* A reply stored while its caller still waits is what the call returns,    *)
(* even when the notification is lost and the time-out wakes the caller     *)
(* (outcome is NoMessage during a call, and OwnReply says whose reply it is). *)
StoredReplyIsReturned ==
    \A t \in Callers :
        (/\ pc[t] \in {"ring", "check", "park", "wait", "expired"}
         /\ reply[serial[t]] # NoMessage)
            ~> (outcome[t] \in Replies \/ ~Running)

(* What is put on the outgoing queue is written, or the connection is dead. *)
QueueDrains == (outgoing # <<>>) ~> (outgoing = <<>> \/ ~valid \/ ~Running)

(* When process_single_message stores a reply or notifies, the entry it     *)
(* found a moment before is still in the table (connection.cpp:620-624).    *)
StoreTargetsEntry ==
    dpc \in {"store", "notify"} => expecting[current.to] = "entry"
=============================================================================
