------------------------- MODULE BlockingCallProofs -------------------------
(***************************************************************************)
(* Invariance proofs for BlockingCall, for any set of calling threads and  *)
(* any bounds.  The strengthenings are:                                    *)
(*   CallInv - serials of calls in progress are below nextSerial, a call   *)
(*     in progress has no outcome yet, and a stored reply answers the      *)
(*     serial it is stored under: gives OwnReply and TableTracksCalls;     *)
(*   WorkInv - the dispatch thread carries at most one message between     *)
(*     Read and Process, and outside "dispatch" a queued message has a     *)
(*     wake-up on its way: gives NeverSleepsOnWork;                        *)
(*   RefInv - a call that has seen its reply still finds it when it        *)
(*     returns, the dispatch thread's hands are empty when it takes a      *)
(*     message, and a serial that the bus has is not on the outgoing       *)
(*     queue: with the others, BlockingCall implements RemoteCall.         *)
(***************************************************************************)
EXTENDS BlockingCallRefinement, FiniteSetTheorems, TLAPS

(* The bound of Send and CallBegin leaves a serial to take. *)
LEMMA SerialLeftBound ==
    ASSUME TypeOK, SerialLeft PROVE nextSerial \in Serials
<1> DEFINE C == {u \in Callers : pc[u] \in {"enqueue", "inserting"}}
<1>1. IsFiniteSet(C)
  BY BlockingCallAssumption, FS_Subset
<1>2. Cardinality(C) \in Nat
  BY <1>1, FS_CardinalityType
<1>3. nextSerial + Cardinality(C) <= MaxSerial
  BY DEF SerialLeft
<1> QED
  BY <1>2, <1>3, BlockingCallAssumption DEF TypeOK, Serials

-----------------------------------------------------------------------------
(* A call in progress has taken its serial. *)
SerialInv ==
    \A t \in Callers : pc[t] \in Registered => serial[t] \in 1..(nextSerial - 1)

(* Only replies reach the table. *)
CurrentInv == dpc \in {"find", "store", "notify"} => current \in Replies

TypeInv == TypeOK /\ SerialInv /\ CurrentInv

(* A reply is stored under the serial it answers. *)
ReplyInv == \A s \in Serials : reply[s] # NoMessage => reply[s].to = s

(* A call in progress has no outcome; the outcome of an ended one is its    *)
(* own.  (The thread's serial changes only while it has no outcome.)        *)
OutcomeInv ==
    \A t \in Callers :
        /\ pc[t] \in Registered \cup {"enqueue", "inserting"} => outcome[t] = NoMessage
        /\ outcome[t] \in Replies => outcome[t].to = serial[t]

CallInv == ReplyInv /\ OutcomeInv /\ TableTracksCalls

(* At most one message is between Read and Process, and a message on the    *)
(* outgoing queue has a wake-up pending unless a Flush is about to happen.  *)
WorkInv ==
    /\ dpc # "process" => incoming = <<>>
    /\ Len(incoming) <= 1
    /\ (valid /\ dpc # "dispatch" /\ outgoing # <<>>) =>
          wake > 0 \/ \E t \in Callers : pc[t] \in {"ring", "ring_send"}

(* Every step of a caller, of the dispatch thread or of the bus keeps the   *)
(* types of the connection's state.                                         *)
LEMMA TypeStep == TypeInv /\ [Next]_vars => TypeOK'
<1> SUFFICES ASSUME TypeOK, SerialInv, CurrentInv, [Next]_vars PROVE TypeOK'
  BY DEF TypeInv
<1> USE BlockingCallAssumption
<1>1. ASSUME NEW t \in Callers, CallBegin(t) PROVE TypeOK'
  BY <1>1 DEF CallBegin, TypeOK, Goto, Serials, queueVars, tableVars, threadVars,
     busVars, CallerPCs, DispatcherPCs, Outcomes, Exceptions
<1>2. ASSUME NEW t \in Callers, EnqueueLock(t) PROVE TypeOK'
  BY <1>2 DEF EnqueueLock, TypeOK, Goto, Serials, queueVars, tableVars, threadVars,
     busVars, CallerPCs, DispatcherPCs
<1>3. ASSUME NEW t \in Callers, Enqueue(t) PROVE TypeOK'
  BY <1>3 DEF Enqueue, TypeOK, Goto, Serials, queueVars, tableVars, threadVars, busVars,
     CallerPCs, DispatcherPCs, Outgoing
<1>4. ASSUME NEW t \in Callers, Send(t) PROVE TypeOK'
  BY <1>4, SerialLeftBound DEF Send, TypeOK, Goto, Serials, queueVars, tableVars,
     threadVars, busVars, CallerPCs, DispatcherPCs, Outgoing
<1>5. ASSUME NEW t \in Callers, Ring(t) PROVE TypeOK'
  BY <1>5 DEF Ring, TypeOK, Goto, Serials, queueVars, tableVars, threadVars, busVars,
     CallerPCs, DispatcherPCs
<1>6. ASSUME NEW t \in Callers, Check(t) PROVE TypeOK'
  BY <1>6 DEF Check, TypeOK, Goto, Serials, queueVars, tableVars, threadVars, busVars,
     CallerPCs, DispatcherPCs
<1>7. ASSUME NEW t \in Callers, Park(t) PROVE TypeOK'
  BY <1>7 DEF Park, TypeOK, Goto, Serials, queueVars, tableVars, threadVars, busVars,
     CallerPCs, DispatcherPCs
<1>8. ASSUME NEW t \in Callers, SpuriousWakeup(t) PROVE TypeOK'
  BY <1>8 DEF SpuriousWakeup, TypeOK, Goto, Serials, queueVars, tableVars, threadVars,
     busVars, CallerPCs, DispatcherPCs
<1>9. ASSUME NEW t \in Callers, Timeout(t) PROVE TypeOK'
  BY <1>9 DEF Timeout, TypeOK, Goto, Serials, queueVars, tableVars, threadVars, busVars,
     CallerPCs, DispatcherPCs
<1>10. ASSUME NEW t \in Callers, LastCheck(t) PROVE TypeOK'
  BY <1>10 DEF LastCheck, TypeOK, Goto, Serials, queueVars, tableVars, threadVars,
     busVars, CallerPCs, DispatcherPCs
<1>11. ASSUME NEW t \in Callers, EraseLock(t) PROVE TypeOK'
  BY <1>11 DEF EraseLock, TypeOK, Goto, Serials, queueVars, tableVars, threadVars,
     busVars, CallerPCs, DispatcherPCs
<1>12. ASSUME NEW t \in Callers, EraseAndReturn(t) PROVE TypeOK'
  <2>1. serial[t] \in Serials
    BY <1>12 DEF EraseAndReturn, SerialInv, TypeOK, Serials, Registered
  <2>2. Result(t) \in Outcomes
    BY <2>1 DEF TypeOK, Result, Outcomes, Exceptions
  <2> QED
    BY <1>12, <2>1, <2>2 DEF EraseAndReturn, TypeOK, Goto, Serials, queueVars,
       tableVars, threadVars, busVars, CallerPCs, DispatcherPCs
<1>13. CASE Poll
  BY <1>13 DEF Poll, TypeOK, Goto, Serials, queueVars, tableVars, threadVars, busVars,
     CallerPCs, DispatcherPCs
<1>14. CASE DispatchInvalid
  BY <1>14 DEF DispatchInvalid, TypeOK, Goto, Serials, queueVars, tableVars, threadVars,
     busVars, CallerPCs, DispatcherPCs
<1>15. CASE Flush
  <2>1. {outgoing[i].serial : i \in {j \in DOMAIN outgoing : outgoing[j].type = "CALL"}}
          \in SUBSET Serials
    <3>1. ASSUME NEW j \in DOMAIN outgoing PROVE outgoing[j].serial \in Serials
      <4>1. outgoing[j] \in Outgoing
        BY DEF TypeOK
      <4> QED
        BY <4>1 DEF Outgoing
    <3> QED
      BY <3>1
  <2>2. <<>> \in Seq(Outgoing)
    OBVIOUS
  <2> QED
    BY <1>15, <2>1, <2>2 DEF Flush, TypeOK, Goto, Serials, queueVars, tableVars,
       threadVars, busVars, CallerPCs, DispatcherPCs
<1>16. CASE Read
  <2>1. CASE fromBus # <<>>
    <3>1. /\ Head(fromBus) \in Messages
          /\ Tail(fromBus) \in Seq(Messages)
          /\ Append(incoming, Head(fromBus)) \in Seq(Messages)
      BY <2>1 DEF TypeOK
    <3> QED
      BY <1>16, <2>1, <3>1 DEF Read, TypeOK, Goto, Serials, queueVars, tableVars,
         threadVars, busVars, CallerPCs, DispatcherPCs
  <2>2. CASE fromBus = <<>>
    BY <1>16, <2>2 DEF Read, TypeOK, Goto, Serials, queueVars, tableVars, threadVars,
       busVars, CallerPCs, DispatcherPCs
  <2> QED
    BY <2>1, <2>2
<1>17. CASE Process
  <2>1. CASE incoming # <<>>
    <3>1. /\ Head(incoming) \in Messages
          /\ Tail(incoming) \in Seq(Messages)
      BY <2>1 DEF TypeOK
    <3> QED
      BY <1>17, <2>1, <3>1 DEF Process, TypeOK, Goto, Serials, queueVars, tableVars,
         threadVars, busVars, CallerPCs, DispatcherPCs
  <2>2. CASE incoming = <<>>
    BY <1>17, <2>2 DEF Process, TypeOK, Goto, Serials, queueVars, tableVars, threadVars,
       busVars, CallerPCs, DispatcherPCs
  <2> QED
    BY <2>1, <2>2
<1>18. CASE Find
  BY <1>18 DEF Find, TypeOK, Goto, Serials, queueVars, tableVars, threadVars, busVars,
     CallerPCs, DispatcherPCs
<1>19. CASE Crash
  BY <1>19 DEF Crash, TypeOK, Goto, Serials, queueVars, tableVars, threadVars, busVars,
     CallerPCs, DispatcherPCs
<1>20. CASE StoreReply
  <2>1. current \in Replies
    BY <1>20 DEF StoreReply, CurrentInv
  <2> QED
    BY <1>20, <2>1 DEF StoreReply, TypeOK, Goto, Serials, queueVars, tableVars,
       threadVars, busVars, CallerPCs, DispatcherPCs
<1>21. CASE NotifyOne
  BY <1>21 DEF NotifyOne, TypeOK, Goto, Serials, queueVars, tableVars, threadVars,
     busVars, CallerPCs, DispatcherPCs
<1>22. CASE Finish
  BY <1>22 DEF Finish, TypeOK, Goto, Serials, queueVars, tableVars, threadVars, busVars,
     CallerPCs, DispatcherPCs, Messages, Replies, NoMessage
<1>23. CASE Settle
  BY <1>23 DEF Settle, TypeOK, Goto, Serials, queueVars, tableVars, threadVars, busVars,
     CallerPCs, DispatcherPCs
<1>24. CASE Return
  BY <1>24 DEF Return, TypeOK, Goto, Serials, queueVars, tableVars, threadVars, busVars,
     CallerPCs, DispatcherPCs
<1>25. CASE Recheck
  BY <1>25 DEF Recheck, TypeOK, Goto, Serials, queueVars, tableVars, threadVars,
     busVars, CallerPCs, DispatcherPCs
<1>26. CASE BusSignal
  BY <1>26 DEF BusSignal, TypeOK, Goto, Serials, queueVars, tableVars, threadVars,
     busVars, CallerPCs, DispatcherPCs, Messages, Replies, NoMessage
<1>27. CASE BusClose
  BY <1>27 DEF BusClose, TypeOK, Goto, Serials, queueVars, tableVars, threadVars,
     busVars, CallerPCs, DispatcherPCs
<1>28. ASSUME NEW s \in Serials, BusReply(s) PROVE TypeOK'
  BY <1>28 DEF BusReply, TypeOK, Goto, Serials, queueVars, tableVars, threadVars,
     busVars, CallerPCs, DispatcherPCs, Messages, Replies, NoMessage
<1>29. CASE UNCHANGED vars
  BY <1>29 DEF vars, TypeOK, Goto, Serials, queueVars, tableVars, threadVars, busVars,
     CallerPCs, DispatcherPCs
<1>30. QED
  BY <1>1, <1>2, <1>3, <1>4, <1>5, <1>6, <1>7, <1>8, <1>9, <1>10, <1>11, <1>12, <1>13,
     <1>14, <1>15, <1>16, <1>17, <1>18, <1>19, <1>20, <1>21, <1>22, <1>23, <1>24, <1>25,
     <1>26, <1>27, <1>28, <1>29 DEF Next, CallerStep, DispatcherStep, BusStep

(* The serials of calls in progress stay below nextSerial. *)
LEMMA SerialStep == TypeInv /\ [Next]_vars => SerialInv'
<1> SUFFICES ASSUME TypeOK, SerialInv, [Next]_vars PROVE SerialInv'
  BY DEF TypeInv
<1> USE BlockingCallAssumption
<1>1. ASSUME NEW t \in Callers, CallBegin(t) PROVE SerialInv'
  BY <1>1 DEF CallBegin, SerialInv, TypeOK, Serials, Goto, Registered, queueVars,
     threadVars
<1>2. ASSUME NEW t \in Callers, EnqueueLock(t) PROVE SerialInv'
  BY <1>2 DEF EnqueueLock, SerialInv, TypeOK, Serials, Goto, Registered, queueVars,
     threadVars
<1>3. ASSUME NEW t \in Callers, Enqueue(t) PROVE SerialInv'
  BY <1>3 DEF Enqueue, SerialInv, TypeOK, Serials, Goto, Registered, queueVars,
     threadVars
<1>4. ASSUME NEW t \in Callers, Send(t) PROVE SerialInv'
  BY <1>4 DEF Send, SerialInv, TypeOK, Serials, Goto, Registered, queueVars, threadVars
<1>5. ASSUME NEW t \in Callers, Ring(t) PROVE SerialInv'
  BY <1>5 DEF Ring, SerialInv, TypeOK, Serials, Goto, Registered, queueVars, threadVars
<1>6. ASSUME NEW t \in Callers, Check(t) PROVE SerialInv'
  BY <1>6 DEF Check, SerialInv, TypeOK, Serials, Goto, Registered, queueVars, threadVars
<1>7. ASSUME NEW t \in Callers, Park(t) PROVE SerialInv'
  BY <1>7 DEF Park, SerialInv, TypeOK, Serials, Goto, Registered, queueVars, threadVars
<1>8. ASSUME NEW t \in Callers, SpuriousWakeup(t) PROVE SerialInv'
  BY <1>8 DEF SpuriousWakeup, SerialInv, TypeOK, Serials, Goto, Registered, queueVars,
     threadVars
<1>9. ASSUME NEW t \in Callers, Timeout(t) PROVE SerialInv'
  BY <1>9 DEF Timeout, SerialInv, TypeOK, Serials, Goto, Registered, queueVars,
     threadVars
<1>10. ASSUME NEW t \in Callers, LastCheck(t) PROVE SerialInv'
  BY <1>10 DEF LastCheck, SerialInv, TypeOK, Serials, Goto, Registered, queueVars,
     threadVars
<1>11. ASSUME NEW t \in Callers, EraseLock(t) PROVE SerialInv'
  BY <1>11 DEF EraseLock, SerialInv, TypeOK, Serials, Goto, Registered, queueVars,
     threadVars
<1>12. ASSUME NEW t \in Callers, EraseAndReturn(t) PROVE SerialInv'
  BY <1>12 DEF EraseAndReturn, SerialInv, TypeOK, Serials, Goto, Registered, queueVars,
     threadVars
<1>13. CASE Poll
  BY <1>13 DEF Poll, SerialInv, TypeOK, Serials, Goto, Registered, queueVars, threadVars
<1>14. CASE DispatchInvalid
  BY <1>14 DEF DispatchInvalid, SerialInv, TypeOK, Serials, Goto, Registered, queueVars,
     threadVars
<1>15. CASE Flush
  BY <1>15 DEF Flush, SerialInv, TypeOK, Serials, Goto, Registered, queueVars,
     threadVars
<1>16. CASE Read
  BY <1>16 DEF Read, SerialInv, TypeOK, Serials, Goto, Registered, queueVars, threadVars
<1>17. CASE Process
  BY <1>17 DEF Process, SerialInv, TypeOK, Serials, Goto, Registered, queueVars,
     threadVars
<1>18. CASE Find
  BY <1>18 DEF Find, SerialInv, TypeOK, Serials, Goto, Registered, queueVars, threadVars
<1>19. CASE Crash
  BY <1>19 DEF Crash, SerialInv, TypeOK, Serials, Goto, Registered, queueVars,
     threadVars
<1>20. CASE StoreReply
  BY <1>20 DEF StoreReply, SerialInv, TypeOK, Serials, Goto, Registered, queueVars,
     threadVars
<1>21. CASE NotifyOne
  BY <1>21 DEF NotifyOne, SerialInv, TypeOK, Serials, Goto, Registered, queueVars,
     threadVars
<1>22. CASE Finish
  BY <1>22 DEF Finish, SerialInv, TypeOK, Serials, Goto, Registered, queueVars,
     threadVars
<1>23. CASE Settle
  BY <1>23 DEF Settle, SerialInv, TypeOK, Serials, Goto, Registered, queueVars,
     threadVars
<1>24. CASE Return
  BY <1>24 DEF Return, SerialInv, TypeOK, Serials, Goto, Registered, queueVars,
     threadVars
<1>25. CASE Recheck
  BY <1>25 DEF Recheck, SerialInv, TypeOK, Serials, Goto, Registered, queueVars,
     threadVars
<1>26. CASE BusSignal
  BY <1>26 DEF BusSignal, SerialInv, TypeOK, Serials, Goto, Registered, queueVars,
     threadVars
<1>27. CASE BusClose
  BY <1>27 DEF BusClose, SerialInv, TypeOK, Serials, Goto, Registered, queueVars,
     threadVars
<1>28. ASSUME NEW s \in Serials, BusReply(s) PROVE SerialInv'
  BY <1>28 DEF BusReply, SerialInv, TypeOK, Serials, Goto, Registered, queueVars,
     threadVars
<1>29. CASE UNCHANGED vars
  BY <1>29 DEF vars, SerialInv, TypeOK, Serials, Goto, Registered, queueVars, threadVars
<1>30. QED
  BY <1>1, <1>2, <1>3, <1>4, <1>5, <1>6, <1>7, <1>8, <1>9, <1>10, <1>11, <1>12, <1>13,
     <1>14, <1>15, <1>16, <1>17, <1>18, <1>19, <1>20, <1>21, <1>22, <1>23, <1>24, <1>25,
     <1>26, <1>27, <1>28, <1>29 DEF Next, CallerStep, DispatcherStep, BusStep

(* process_single_message looks up nothing but replies. *)
LEMMA CurrentStep == TypeInv /\ [Next]_vars => CurrentInv'
<1> SUFFICES ASSUME TypeOK, CurrentInv, [Next]_vars PROVE CurrentInv'
  BY DEF TypeInv
<1>1. ASSUME NEW t \in Callers, CallBegin(t) PROVE CurrentInv'
  BY <1>1 DEF CallBegin, CurrentInv
<1>2. ASSUME NEW t \in Callers, EnqueueLock(t) PROVE CurrentInv'
  BY <1>2 DEF EnqueueLock, CurrentInv
<1>3. ASSUME NEW t \in Callers, Enqueue(t) PROVE CurrentInv'
  BY <1>3 DEF Enqueue, CurrentInv
<1>4. ASSUME NEW t \in Callers, Send(t) PROVE CurrentInv'
  BY <1>4 DEF Send, CurrentInv
<1>5. ASSUME NEW t \in Callers, Ring(t) PROVE CurrentInv'
  BY <1>5 DEF Ring, CurrentInv
<1>6. ASSUME NEW t \in Callers, Check(t) PROVE CurrentInv'
  BY <1>6 DEF Check, CurrentInv
<1>7. ASSUME NEW t \in Callers, Park(t) PROVE CurrentInv'
  BY <1>7 DEF Park, CurrentInv
<1>8. ASSUME NEW t \in Callers, SpuriousWakeup(t) PROVE CurrentInv'
  BY <1>8 DEF SpuriousWakeup, CurrentInv
<1>9. ASSUME NEW t \in Callers, Timeout(t) PROVE CurrentInv'
  BY <1>9 DEF Timeout, CurrentInv
<1>10. ASSUME NEW t \in Callers, LastCheck(t) PROVE CurrentInv'
  BY <1>10 DEF LastCheck, CurrentInv
<1>11. ASSUME NEW t \in Callers, EraseLock(t) PROVE CurrentInv'
  BY <1>11 DEF EraseLock, CurrentInv
<1>12. ASSUME NEW t \in Callers, EraseAndReturn(t) PROVE CurrentInv'
  BY <1>12 DEF EraseAndReturn, CurrentInv
<1>13. CASE Poll
  BY <1>13 DEF Poll, CurrentInv
<1>14. CASE DispatchInvalid
  BY <1>14 DEF DispatchInvalid, CurrentInv
<1>15. CASE Flush
  BY <1>15 DEF Flush, CurrentInv
<1>16. CASE Read
  BY <1>16 DEF Read, CurrentInv
<1>17. CASE Process
  BY <1>17 DEF Process, CurrentInv
<1>18. CASE Find
  BY <1>18 DEF Find, CurrentInv
<1>19. CASE Crash
  BY <1>19 DEF Crash, CurrentInv
<1>20. CASE StoreReply
  BY <1>20 DEF StoreReply, CurrentInv
<1>21. CASE NotifyOne
  BY <1>21 DEF NotifyOne, CurrentInv
<1>22. CASE Finish
  BY <1>22 DEF Finish, CurrentInv
<1>23. CASE Settle
  BY <1>23 DEF Settle, CurrentInv
<1>24. CASE Return
  BY <1>24 DEF Return, CurrentInv
<1>25. CASE Recheck
  BY <1>25 DEF Recheck, CurrentInv
<1>26. CASE BusSignal
  BY <1>26 DEF BusSignal, CurrentInv
<1>27. CASE BusClose
  BY <1>27 DEF BusClose, CurrentInv
<1>28. ASSUME NEW s \in Serials, BusReply(s) PROVE CurrentInv'
  BY <1>28 DEF BusReply, CurrentInv
<1>29. CASE UNCHANGED vars
  BY <1>29 DEF vars, CurrentInv
<1>30. QED
  BY <1>1, <1>2, <1>3, <1>4, <1>5, <1>6, <1>7, <1>8, <1>9, <1>10, <1>11, <1>12, <1>13,
     <1>14, <1>15, <1>16, <1>17, <1>18, <1>19, <1>20, <1>21, <1>22, <1>23, <1>24, <1>25,
     <1>26, <1>27, <1>28, <1>29 DEF Next, CallerStep, DispatcherStep, BusStep

LEMMA TypeInvariance == Spec => []TypeInv
<1>1. Init => TypeInv
  <2> SUFFICES ASSUME Init PROVE TypeInv
    OBVIOUS
  <2>1. /\ outgoing \in Seq(Outgoing) /\ incoming \in Seq(Messages)
        /\ fromBus \in Seq(Messages)
    BY DEF Init
  <2>2. /\ nextSerial \in 1..(MaxSerial + 1) /\ signals \in 0..MaxSignals
        /\ serial \in [Callers -> 0..MaxSerial] /\ wake \in Nat
    BY BlockingCallAssumption DEF Init
  <2>3. /\ pc \in [Callers -> CallerPCs] /\ gotReply \in [Callers -> BOOLEAN]
        /\ outcome \in [Callers -> Outcomes] /\ dpc \in DispatcherPCs
    BY DEF Init, CallerPCs, DispatcherPCs, Outcomes
  <2>4. /\ expecting \in [Serials -> {"absent", "entry"}]
        /\ reply \in [Serials -> Replies \cup {NoMessage}]
        /\ exLock \in Callers \cup {Free}
        /\ current \in Messages \cup {NoMessage}
        /\ toBus \in SUBSET Serials
        /\ status \in {"COMPLETE", "DATA_REMAINS"}
        /\ valid \in BOOLEAN /\ closed \in BOOLEAN
    BY DEF Init
  <2>5. TypeOK
    BY <2>1, <2>2, <2>3, <2>4 DEF TypeOK
  <2> QED
    BY <2>5 DEF Init, TypeInv, SerialInv, CurrentInv, Registered
<1>2. TypeInv /\ [Next]_vars => TypeInv'
  BY TypeStep, SerialStep, CurrentStep DEF TypeInv
<1> QED
  BY <1>1, <1>2, PTL DEF Spec

(* The state of the connection, of the calls in progress and of the         *)
(* dispatch thread always has its type; in particular no call is given a    *)
(* serial outside those the model hands out.                                *)
THEOREM TypeCorrect == Spec => []TypeOK
<1>1. TypeInv => TypeOK
  BY DEF TypeInv
<1> QED
  BY <1>1, TypeInvariance, PTL

-----------------------------------------------------------------------------
(* StoreReply keeps every reply under its own serial. *)
LEMMA ReplyStep == TypeInv /\ ReplyInv /\ [Next]_vars => ReplyInv'
<1> SUFFICES ASSUME TypeOK, SerialInv, CurrentInv, ReplyInv, [Next]_vars PROVE ReplyInv'
  BY DEF TypeInv
<1>1. ASSUME NEW t \in Callers, CallBegin(t) PROVE ReplyInv'
  BY <1>1 DEF CallBegin, ReplyInv, tableVars
<1>2. ASSUME NEW t \in Callers, EnqueueLock(t) PROVE ReplyInv'
  BY <1>2 DEF EnqueueLock, ReplyInv, tableVars
<1>3. ASSUME NEW t \in Callers, Enqueue(t) PROVE ReplyInv'
  BY <1>3 DEF Enqueue, ReplyInv, tableVars
<1>4. ASSUME NEW t \in Callers, Send(t) PROVE ReplyInv'
  BY <1>4 DEF Send, ReplyInv, tableVars
<1>5. ASSUME NEW t \in Callers, Ring(t) PROVE ReplyInv'
  BY <1>5 DEF Ring, ReplyInv, tableVars
<1>6. ASSUME NEW t \in Callers, Check(t) PROVE ReplyInv'
  BY <1>6 DEF Check, ReplyInv, tableVars
<1>7. ASSUME NEW t \in Callers, Park(t) PROVE ReplyInv'
  BY <1>7 DEF Park, ReplyInv, tableVars
<1>8. ASSUME NEW t \in Callers, SpuriousWakeup(t) PROVE ReplyInv'
  BY <1>8 DEF SpuriousWakeup, ReplyInv, tableVars
<1>9. ASSUME NEW t \in Callers, Timeout(t) PROVE ReplyInv'
  BY <1>9 DEF Timeout, ReplyInv, tableVars
<1>10. ASSUME NEW t \in Callers, LastCheck(t) PROVE ReplyInv'
  BY <1>10 DEF LastCheck, ReplyInv, tableVars
<1>11. ASSUME NEW t \in Callers, EraseLock(t) PROVE ReplyInv'
  BY <1>11 DEF EraseLock, ReplyInv, tableVars
<1>12. ASSUME NEW t \in Callers, EraseAndReturn(t) PROVE ReplyInv'
  BY <1>12 DEF EraseAndReturn, ReplyInv, TypeOK
<1>13. CASE Poll
  BY <1>13 DEF Poll, ReplyInv, tableVars
<1>14. CASE DispatchInvalid
  BY <1>14 DEF DispatchInvalid, ReplyInv, tableVars
<1>15. CASE Flush
  BY <1>15 DEF Flush, ReplyInv, tableVars
<1>16. CASE Read
  BY <1>16 DEF Read, ReplyInv, tableVars
<1>17. CASE Process
  BY <1>17 DEF Process, ReplyInv, tableVars
<1>18. CASE Find
  BY <1>18 DEF Find, ReplyInv, tableVars
<1>19. CASE Crash
  BY <1>19 DEF Crash, ReplyInv, tableVars
<1>20. CASE StoreReply
  BY <1>20 DEF StoreReply, ReplyInv, TypeOK, CurrentInv, Replies
<1>21. CASE NotifyOne
  BY <1>21 DEF NotifyOne, ReplyInv, tableVars
<1>22. CASE Finish
  BY <1>22 DEF Finish, ReplyInv, tableVars
<1>23. CASE Settle
  BY <1>23 DEF Settle, ReplyInv, tableVars
<1>24. CASE Return
  BY <1>24 DEF Return, ReplyInv, tableVars
<1>25. CASE Recheck
  BY <1>25 DEF Recheck, ReplyInv, tableVars
<1>26. CASE BusSignal
  BY <1>26 DEF BusSignal, ReplyInv, tableVars
<1>27. CASE BusClose
  BY <1>27 DEF BusClose, ReplyInv, tableVars
<1>28. ASSUME NEW s \in Serials, BusReply(s) PROVE ReplyInv'
  BY <1>28 DEF BusReply, ReplyInv, tableVars
<1>29. CASE UNCHANGED vars
  BY <1>29 DEF vars, ReplyInv, tableVars
<1>30. QED
  BY <1>1, <1>2, <1>3, <1>4, <1>5, <1>6, <1>7, <1>8, <1>9, <1>10, <1>11, <1>12, <1>13,
     <1>14, <1>15, <1>16, <1>17, <1>18, <1>19, <1>20, <1>21, <1>22, <1>23, <1>24, <1>25,
     <1>26, <1>27, <1>28, <1>29 DEF Next, CallerStep, DispatcherStep, BusStep

(* A thread's serial changes only while it has no outcome. *)
LEMMA OutcomeStep == TypeInv /\ ReplyInv /\ OutcomeInv /\ [Next]_vars => OutcomeInv'
<1> SUFFICES ASSUME TypeOK, SerialInv, ReplyInv, OutcomeInv, [Next]_vars PROVE OutcomeInv'
  BY DEF TypeInv
<1>0. /\ NoMessage \notin Replies
      /\ \A x : [type |-> "ErrorDisconnected", to |-> x] \notin Replies
      /\ \A x : [type |-> "ErrorNoReply", to |-> x] \notin Replies
  BY DEF NoMessage, Replies
<1>1. ASSUME NEW t \in Callers, CallBegin(t) PROVE OutcomeInv'
  BY <1>1, <1>0 DEF CallBegin, OutcomeInv, TypeOK, Goto, Registered, threadVars
<1>2. ASSUME NEW t \in Callers, EnqueueLock(t) PROVE OutcomeInv'
  BY <1>2, <1>0 DEF EnqueueLock, OutcomeInv, TypeOK, Goto, Registered, threadVars
<1>3. ASSUME NEW t \in Callers, Enqueue(t) PROVE OutcomeInv'
  BY <1>3, <1>0 DEF Enqueue, OutcomeInv, TypeOK, Goto, Registered, threadVars
<1>4. ASSUME NEW t \in Callers, Send(t) PROVE OutcomeInv'
  BY <1>4, <1>0 DEF Send, OutcomeInv, TypeOK, Goto, Registered, threadVars
<1>5. ASSUME NEW t \in Callers, Ring(t) PROVE OutcomeInv'
  BY <1>5, <1>0 DEF Ring, OutcomeInv, TypeOK, Goto, Registered, threadVars
<1>6. ASSUME NEW t \in Callers, Check(t) PROVE OutcomeInv'
  BY <1>6, <1>0 DEF Check, OutcomeInv, TypeOK, Goto, Registered, threadVars
<1>7. ASSUME NEW t \in Callers, Park(t) PROVE OutcomeInv'
  BY <1>7, <1>0 DEF Park, OutcomeInv, TypeOK, Goto, Registered, threadVars
<1>8. ASSUME NEW t \in Callers, SpuriousWakeup(t) PROVE OutcomeInv'
  BY <1>8, <1>0 DEF SpuriousWakeup, OutcomeInv, TypeOK, Goto, Registered, threadVars
<1>9. ASSUME NEW t \in Callers, Timeout(t) PROVE OutcomeInv'
  BY <1>9, <1>0 DEF Timeout, OutcomeInv, TypeOK, Goto, Registered, threadVars
<1>10. ASSUME NEW t \in Callers, LastCheck(t) PROVE OutcomeInv'
  BY <1>10, <1>0 DEF LastCheck, OutcomeInv, TypeOK, Goto, Registered, threadVars
<1>11. ASSUME NEW t \in Callers, EraseLock(t) PROVE OutcomeInv'
  BY <1>11, <1>0 DEF EraseLock, OutcomeInv, TypeOK, Goto, Registered, threadVars
<1>12. ASSUME NEW t \in Callers, EraseAndReturn(t) PROVE OutcomeInv'
  <2>1. serial[t] \in Serials
    BY <1>12, BlockingCallAssumption DEF EraseAndReturn, SerialInv, TypeOK, Serials,
       Registered
  <2>2. Result(t) \in Replies => Result(t).to = serial[t]
    BY <1>0, <2>1 DEF Result, ReplyInv
  <2> QED
    BY <1>12, <2>2 DEF EraseAndReturn, OutcomeInv, TypeOK, Goto, Registered
<1>13. CASE Poll
  BY <1>13, <1>0 DEF Poll, OutcomeInv, TypeOK, Goto, Registered, threadVars
<1>14. CASE DispatchInvalid
  BY <1>14, <1>0 DEF DispatchInvalid, OutcomeInv, TypeOK, Goto, Registered, threadVars
<1>15. CASE Flush
  BY <1>15, <1>0 DEF Flush, OutcomeInv, TypeOK, Goto, Registered, threadVars
<1>16. CASE Read
  BY <1>16, <1>0 DEF Read, OutcomeInv, TypeOK, Goto, Registered, threadVars
<1>17. CASE Process
  BY <1>17, <1>0 DEF Process, OutcomeInv, TypeOK, Goto, Registered, threadVars
<1>18. CASE Find
  BY <1>18, <1>0 DEF Find, OutcomeInv, TypeOK, Goto, Registered, threadVars
<1>19. CASE Crash
  BY <1>19, <1>0 DEF Crash, OutcomeInv, TypeOK, Goto, Registered, threadVars
<1>20. CASE StoreReply
  BY <1>20, <1>0 DEF StoreReply, OutcomeInv, TypeOK, Goto, Registered, threadVars
<1>21. CASE NotifyOne
  BY <1>21, <1>0 DEF NotifyOne, OutcomeInv, TypeOK, Goto, Registered, threadVars
<1>22. CASE Finish
  BY <1>22, <1>0 DEF Finish, OutcomeInv, TypeOK, Goto, Registered, threadVars
<1>23. CASE Settle
  BY <1>23, <1>0 DEF Settle, OutcomeInv, TypeOK, Goto, Registered, threadVars
<1>24. CASE Return
  BY <1>24, <1>0 DEF Return, OutcomeInv, TypeOK, Goto, Registered, threadVars
<1>25. CASE Recheck
  BY <1>25, <1>0 DEF Recheck, OutcomeInv, TypeOK, Goto, Registered, threadVars
<1>26. CASE BusSignal
  BY <1>26, <1>0 DEF BusSignal, OutcomeInv, TypeOK, Goto, Registered, threadVars
<1>27. CASE BusClose
  BY <1>27, <1>0 DEF BusClose, OutcomeInv, TypeOK, Goto, Registered, threadVars
<1>28. ASSUME NEW s \in Serials, BusReply(s) PROVE OutcomeInv'
  BY <1>28, <1>0 DEF BusReply, OutcomeInv, TypeOK, Goto, Registered, threadVars
<1>29. CASE UNCHANGED vars
  BY <1>29, <1>0 DEF vars, OutcomeInv, TypeOK, Goto, Registered, threadVars
<1>30. QED
  BY <1>1, <1>2, <1>3, <1>4, <1>5, <1>6, <1>7, <1>8, <1>9, <1>10, <1>11, <1>12, <1>13,
     <1>14, <1>15, <1>16, <1>17, <1>18, <1>19, <1>20, <1>21, <1>22, <1>23, <1>24, <1>25,
     <1>26, <1>27, <1>28, <1>29 DEF Next, CallerStep, DispatcherStep, BusStep

(* The table and the calls in progress change together. *)
LEMMA TableStep == TypeInv /\ TableTracksCalls /\ [Next]_vars => TableTracksCalls'
<1> SUFFICES ASSUME TypeOK, SerialInv, TableTracksCalls, [Next]_vars PROVE TableTracksCalls'
  BY DEF TypeInv
<1> USE BlockingCallAssumption
<1>0. ASSUME UNCHANGED <<expecting, serial>>,
             \A u \in Callers : pc'[u] \in Registered <=> pc[u] \in Registered
      PROVE  TableTracksCalls'
  BY <1>0 DEF TableTracksCalls
<1>1. ASSUME NEW t \in Callers, CallBegin(t) PROVE TableTracksCalls'
  BY <1>1, <1>0 DEF CallBegin, TypeOK, Goto, Registered, threadVars, tableVars
<1>2. ASSUME NEW t \in Callers, EnqueueLock(t) PROVE TableTracksCalls'
  BY <1>2, <1>0 DEF EnqueueLock, TypeOK, Goto, Registered, threadVars, tableVars
<1>3. ASSUME NEW t \in Callers, Enqueue(t) PROVE TableTracksCalls'
  BY <1>3, <1>0 DEF Enqueue, TableTracksCalls, TypeOK, Goto, Registered, SerialInv,
     Serials
<1>4. ASSUME NEW t \in Callers, Send(t) PROVE TableTracksCalls'
  BY <1>4, <1>0 DEF Send, TypeOK, Goto, Registered, threadVars, tableVars
<1>5. ASSUME NEW t \in Callers, Ring(t) PROVE TableTracksCalls'
  BY <1>5, <1>0 DEF Ring, TypeOK, Goto, Registered, threadVars, tableVars
<1>6. ASSUME NEW t \in Callers, Check(t) PROVE TableTracksCalls'
  BY <1>6, <1>0 DEF Check, TypeOK, Goto, Registered, threadVars, tableVars
<1>7. ASSUME NEW t \in Callers, Park(t) PROVE TableTracksCalls'
  BY <1>7, <1>0 DEF Park, TypeOK, Goto, Registered, threadVars, tableVars
<1>8. ASSUME NEW t \in Callers, SpuriousWakeup(t) PROVE TableTracksCalls'
  BY <1>8, <1>0 DEF SpuriousWakeup, TypeOK, Goto, Registered, threadVars, tableVars
<1>9. ASSUME NEW t \in Callers, Timeout(t) PROVE TableTracksCalls'
  BY <1>9, <1>0 DEF Timeout, TypeOK, Goto, Registered, threadVars, tableVars
<1>10. ASSUME NEW t \in Callers, LastCheck(t) PROVE TableTracksCalls'
  BY <1>10, <1>0 DEF LastCheck, TypeOK, Goto, Registered, threadVars, tableVars
<1>11. ASSUME NEW t \in Callers, EraseLock(t) PROVE TableTracksCalls'
  BY <1>11, <1>0 DEF EraseLock, TypeOK, Goto, Registered, threadVars, tableVars
<1>12. ASSUME NEW t \in Callers, EraseAndReturn(t) PROVE TableTracksCalls'
  BY <1>12, <1>0 DEF EraseAndReturn, TableTracksCalls, TypeOK, Goto, Registered,
     SerialInv, Serials
<1>13. CASE Poll
  BY <1>13, <1>0 DEF Poll, TypeOK, Goto, Registered, threadVars, tableVars
<1>14. CASE DispatchInvalid
  BY <1>14, <1>0 DEF DispatchInvalid, TypeOK, Goto, Registered, threadVars, tableVars
<1>15. CASE Flush
  BY <1>15, <1>0 DEF Flush, TypeOK, Goto, Registered, threadVars, tableVars
<1>16. CASE Read
  BY <1>16, <1>0 DEF Read, TypeOK, Goto, Registered, threadVars, tableVars
<1>17. CASE Process
  BY <1>17, <1>0 DEF Process, TypeOK, Goto, Registered, threadVars, tableVars
<1>18. CASE Find
  BY <1>18, <1>0 DEF Find, TypeOK, Goto, Registered, threadVars, tableVars
<1>19. CASE Crash
  BY <1>19, <1>0 DEF Crash, TypeOK, Goto, Registered, threadVars, tableVars
<1>20. CASE StoreReply
  BY <1>20, <1>0 DEF StoreReply, TypeOK, Goto, Registered, threadVars, tableVars
<1>21. CASE NotifyOne
  BY <1>21, <1>0 DEF NotifyOne, TypeOK, Goto, Registered, threadVars, tableVars
<1>22. CASE Finish
  BY <1>22, <1>0 DEF Finish, TypeOK, Goto, Registered, threadVars, tableVars
<1>23. CASE Settle
  BY <1>23, <1>0 DEF Settle, TypeOK, Goto, Registered, threadVars, tableVars
<1>24. CASE Return
  BY <1>24, <1>0 DEF Return, TypeOK, Goto, Registered, threadVars, tableVars
<1>25. CASE Recheck
  BY <1>25, <1>0 DEF Recheck, TypeOK, Goto, Registered, threadVars, tableVars
<1>26. CASE BusSignal
  BY <1>26, <1>0 DEF BusSignal, TypeOK, Goto, Registered, threadVars, tableVars
<1>27. CASE BusClose
  BY <1>27, <1>0 DEF BusClose, TypeOK, Goto, Registered, threadVars, tableVars
<1>28. ASSUME NEW s \in Serials, BusReply(s) PROVE TableTracksCalls'
  BY <1>28, <1>0 DEF BusReply, TypeOK, Goto, Registered, threadVars, tableVars
<1>29. CASE UNCHANGED vars
  BY <1>29, <1>0 DEF vars, TypeOK, Goto, Registered, threadVars, tableVars
<1>30. QED
  BY <1>1, <1>2, <1>3, <1>4, <1>5, <1>6, <1>7, <1>8, <1>9, <1>10, <1>11, <1>12, <1>13,
     <1>14, <1>15, <1>16, <1>17, <1>18, <1>19, <1>20, <1>21, <1>22, <1>23, <1>24, <1>25,
     <1>26, <1>27, <1>28, <1>29 DEF Next, CallerStep, DispatcherStep, BusStep

LEMMA CallInvariance == Spec => []CallInv
<1>1. Init => CallInv
  BY DEF Init, CallInv, ReplyInv, OutcomeInv, TableTracksCalls, Registered, NoMessage,
     Replies
<1>2. TypeInv /\ CallInv /\ [Next]_vars => CallInv'
  BY ReplyStep, OutcomeStep, TableStep DEF CallInv
<1> QED
  BY <1>1, <1>2, TypeInvariance, PTL DEF Spec

(* A blocking call returns only the answer to its own message, for any      *)
(* number of threads and calls, however late replies come in.               *)
THEOREM RepliesGoHome == Spec => []OwnReply
<1>1. TypeInv /\ CallInv => OwnReply
  BY BlockingCallAssumption DEF TypeInv, TypeOK, SerialInv, CallInv, ReplyInv,
     OutcomeInv,
     OwnReply, Serials
<1> QED
  BY <1>1, TypeInvariance, CallInvariance, PTL

(* m_expectingResponses holds an entry for exactly the calls in progress.   *)
THEOREM TableExact == Spec => []TableTracksCalls
<1>1. CallInv => TableTracksCalls
  BY DEF CallInv
<1> QED
  BY <1>1, CallInvariance, PTL

-----------------------------------------------------------------------------
(* No step leaves work behind without a wake-up. *)
LEMMA WorkStep == TypeInv /\ WorkInv /\ [Next]_vars => WorkInv'
<1> SUFFICES ASSUME TypeOK, WorkInv, [Next]_vars PROVE WorkInv'
  BY DEF TypeInv
<1>1. ASSUME NEW t \in Callers, CallBegin(t) PROVE WorkInv'
  BY <1>1 DEF CallBegin, WorkInv, TypeOK, Goto, queueVars, threadVars
<1>2. ASSUME NEW t \in Callers, EnqueueLock(t) PROVE WorkInv'
  BY <1>2 DEF EnqueueLock, WorkInv, TypeOK, Goto, queueVars, threadVars
<1>3. ASSUME NEW t \in Callers, Enqueue(t) PROVE WorkInv'
  BY <1>3 DEF Enqueue, WorkInv, TypeOK, Goto, queueVars, threadVars
<1>4. ASSUME NEW t \in Callers, Send(t) PROVE WorkInv'
  BY <1>4 DEF Send, WorkInv, TypeOK, Goto, queueVars, threadVars
<1>5. ASSUME NEW t \in Callers, Ring(t) PROVE WorkInv'
  BY <1>5 DEF Ring, WorkInv, TypeOK, Goto, queueVars, threadVars
<1>6. ASSUME NEW t \in Callers, Check(t) PROVE WorkInv'
  BY <1>6 DEF Check, WorkInv, TypeOK, Goto, queueVars, threadVars
<1>7. ASSUME NEW t \in Callers, Park(t) PROVE WorkInv'
  BY <1>7 DEF Park, WorkInv, TypeOK, Goto, queueVars, threadVars
<1>8. ASSUME NEW t \in Callers, SpuriousWakeup(t) PROVE WorkInv'
  BY <1>8 DEF SpuriousWakeup, WorkInv, TypeOK, Goto, queueVars, threadVars
<1>9. ASSUME NEW t \in Callers, Timeout(t) PROVE WorkInv'
  BY <1>9 DEF Timeout, WorkInv, TypeOK, Goto, queueVars, threadVars
<1>10. ASSUME NEW t \in Callers, LastCheck(t) PROVE WorkInv'
  BY <1>10 DEF LastCheck, WorkInv, TypeOK, Goto, queueVars, threadVars
<1>11. ASSUME NEW t \in Callers, EraseLock(t) PROVE WorkInv'
  BY <1>11 DEF EraseLock, WorkInv, TypeOK, Goto, queueVars, threadVars
<1>12. ASSUME NEW t \in Callers, EraseAndReturn(t) PROVE WorkInv'
  BY <1>12 DEF EraseAndReturn, WorkInv, TypeOK, Goto, queueVars, threadVars
<1>13. CASE Poll
  BY <1>13 DEF Poll, WorkInv, TypeOK, Goto, queueVars, threadVars
<1>14. CASE DispatchInvalid
  BY <1>14 DEF DispatchInvalid, WorkInv, TypeOK, Goto, queueVars, threadVars
<1>15. CASE Flush
  BY <1>15 DEF Flush, WorkInv, TypeOK, Goto, queueVars, threadVars
<1>16. CASE Read
  <2>1. incoming = <<>>
    BY <1>16 DEF Read, WorkInv
  <2>2. dpc' = "process" /\ dpc' # "dispatch" /\ (valid' => valid)
        /\ UNCHANGED <<outgoing, wake, pc>>
    BY <1>16 DEF Read, TypeOK, queueVars, threadVars
  <2>3. Len(incoming') <= 1
    <3>1. CASE fromBus # <<>>
      <4>1. Head(fromBus) \in Messages
        BY <3>1 DEF TypeOK
      <4>2. Len(Append(incoming, Head(fromBus))) = 1
        BY <2>1, <4>1
      <4>3. incoming' = Append(incoming, Head(fromBus))
        BY <1>16, <3>1 DEF Read
      <4> QED
        BY <4>2, <4>3
    <3>2. CASE fromBus = <<>>
      BY <1>16, <2>1, <3>2 DEF Read
    <3> QED
      BY <3>1, <3>2
  <2> QED
    BY <1>16, <2>2, <2>3 DEF Read, WorkInv
<1>17. CASE Process
  <2>1. incoming # <<>> => Tail(incoming) = <<>>
    BY DEF WorkInv, TypeOK
  <2> QED
    BY <1>17, <2>1 DEF Process, WorkInv, TypeOK, queueVars, threadVars
<1>18. CASE Find
  BY <1>18 DEF Find, WorkInv, TypeOK, Goto, queueVars, threadVars
<1>19. CASE Crash
  BY <1>19 DEF Crash, WorkInv, TypeOK, Goto, queueVars, threadVars
<1>20. CASE StoreReply
  BY <1>20 DEF StoreReply, WorkInv, TypeOK, Goto, queueVars, threadVars
<1>21. CASE NotifyOne
  BY <1>21 DEF NotifyOne, WorkInv, TypeOK, Goto, queueVars, threadVars
<1>22. CASE Finish
  BY <1>22 DEF Finish, WorkInv, TypeOK, Goto, queueVars, threadVars
<1>23. CASE Settle
  BY <1>23 DEF Settle, WorkInv, TypeOK, Goto, queueVars, threadVars
<1>24. CASE Return
  BY <1>24 DEF Return, WorkInv, TypeOK, Goto, queueVars, threadVars
<1>25. CASE Recheck
  BY <1>25 DEF Recheck, WorkInv, TypeOK, Goto, queueVars, threadVars
<1>26. CASE BusSignal
  BY <1>26 DEF BusSignal, WorkInv, TypeOK, Goto, queueVars, threadVars
<1>27. CASE BusClose
  BY <1>27 DEF BusClose, WorkInv, TypeOK, Goto, queueVars, threadVars
<1>28. ASSUME NEW s \in Serials, BusReply(s) PROVE WorkInv'
  BY <1>28 DEF BusReply, WorkInv, TypeOK, Goto, queueVars, threadVars
<1>29. CASE UNCHANGED vars
  BY <1>29 DEF vars, WorkInv, TypeOK, Goto, queueVars, threadVars
<1>30. QED
  BY <1>1, <1>2, <1>3, <1>4, <1>5, <1>6, <1>7, <1>8, <1>9, <1>10, <1>11, <1>12, <1>13,
     <1>14, <1>15, <1>16, <1>17, <1>18, <1>19, <1>20, <1>21, <1>22, <1>23, <1>24, <1>25,
     <1>26, <1>27, <1>28, <1>29 DEF Next, CallerStep, DispatcherStep, BusStep

(* The dispatch thread never goes to sleep on a message it could write or   *)
(* process, whichever way threads and dispatcher overwrite the status flag. *)
THEOREM DispatcherAwake == Spec => []NeverSleepsOnWork
<1>1. Init => WorkInv
  BY DEF Init, WorkInv
<1>2. WorkInv => NeverSleepsOnWork
  BY DEF WorkInv, NeverSleepsOnWork
<1> QED
  BY <1>1, <1>2, WorkStep, TypeInvariance, PTL DEF Spec

-----------------------------------------------------------------------------
(* BlockingCall implements RemoteCall.                                     *)

LEMMA AppendItems ==
    ASSUME NEW S, NEW s \in Seq(S), NEW e \in S
    PROVE  Items(Append(s, e)) = Items(s) \cup {e}
<1>1. /\ Append(s, e) \in Seq(S) /\ DOMAIN Append(s, e) = 1 .. Len(s) + 1
      /\ DOMAIN s = 1 .. Len(s)
  OBVIOUS
<1>2. \A i \in 1 .. Len(s) + 1 : Append(s, e)[i] = IF i <= Len(s) THEN s[i] ELSE e
  OBVIOUS
<1> QED
  BY <1>1, <1>2 DEF Items

LEMMA TakeItems ==
    ASSUME NEW S, NEW s \in Seq(S), s # <<>>
    PROVE  Items(s) = Items(Tail(s)) \cup {Head(s)}
<1>1. DOMAIN Tail(s) = 1 .. Len(s) - 1 /\ DOMAIN s = 1 .. Len(s) /\ Len(s) \in Nat \ {0}
  OBVIOUS
<1>2. \A i \in 1 .. Len(s) - 1 : Tail(s)[i] = s[i + 1]
  OBVIOUS
<1>3. Items(Tail(s)) \cup {Head(s)} \subseteq Items(s)
  BY <1>1, <1>2 DEF Items
<1>4. ASSUME NEW i \in DOMAIN s PROVE s[i] \in Items(Tail(s)) \cup {Head(s)}
  <2>1. CASE i = 1
    BY <2>1
  <2>2. CASE i # 1
    <3>1. i - 1 \in 1 .. Len(s) - 1 /\ Tail(s)[i - 1] = s[i]
      BY <1>1, <1>2, <2>2
    <3> QED
      BY <1>1, <3>1 DEF Items
  <2> QED
    BY <2>1, <2>2
<1> QED
  BY <1>3, <1>4 DEF Items

-----------------------------------------------------------------------------
(* A call that has seen its reply finds it when it returns. *)
GotInv == \A t \in Callers :
    (pc[t] \in {"erase", "erasing"} /\ gotReply[t]) => reply[serial[t]] # NoMessage
HandsInv == dpc \notin {"find", "store", "notify", "finish", "crashed"} => current = NoMessage
SentInv ==
    /\ \A s \in toBus : s < nextSerial
    /\ \A m \in Items(outgoing) : m.serial < nextSerial
    /\ \A s \in toBus : [type |-> "CALL", serial |-> s] \notin Items(outgoing)
RefInv == GotInv /\ HandsInv /\ SentInv

LEMMA HandsStep == TypeInv /\ HandsInv /\ [Next]_vars => HandsInv'
<1> SUFFICES ASSUME TypeInv, HandsInv, [Next]_vars PROVE HandsInv'
  OBVIOUS
<1>1. ASSUME NEW t \in Callers, CallerStep(t) PROVE HandsInv'
  <2>1. UNCHANGED <<dpc, current>>
    BY <1>1 DEF CallerStep, CallBegin, EnqueueLock, Enqueue, Send, Ring, Check, Park, SpuriousWakeup,
       Timeout, LastCheck, EraseLock, EraseAndReturn
  <2> QED
    BY <2>1 DEF HandsInv
<1>2. CASE DispatcherStep
  BY <1>2 DEF DispatcherStep, Poll, DispatchInvalid, Flush, Read, Process, Find, Crash, StoreReply,
     NotifyOne, Finish, Settle, Return, Recheck, HandsInv
<1>3. CASE BusStep
  BY <1>3 DEF BusStep, BusReply, BusSignal, BusClose, HandsInv
<1>4. CASE UNCHANGED vars
  BY <1>4 DEF vars, HandsInv
<1> QED
  BY <1>1, <1>2, <1>3, <1>4 DEF Next

LEMMA SentStep == TypeInv /\ SentInv /\ [Next]_vars => SentInv'
<1> SUFFICES ASSUME TypeInv, SentInv, [Next]_vars PROVE SentInv'
  OBVIOUS
<1>0. /\ nextSerial \in Nat /\ outgoing \in Seq(Outgoing) /\ toBus \subseteq Serials
      /\ \A m \in Items(outgoing) : m.serial \in Nat
  <2>1. outgoing \in Seq(Outgoing) /\ \A m \in Outgoing : m.serial \in Nat
    BY DEF TypeInv, TypeOK, Outgoing, Serials
  <2> QED
    BY <2>1, BlockingCallAssumption DEF TypeInv, TypeOK, Items
<1>1. CASE UNCHANGED <<toBus, outgoing, nextSerial>>
  BY <1>1 DEF SentInv
<1>2. ASSUME NEW t \in Callers, NEW k \in {"CALL", "SIGNAL"}, nextSerial \in Serials,
             nextSerial' = nextSerial + 1, UNCHANGED toBus,
             outgoing' = Append(outgoing, [type |-> k, serial |-> nextSerial])
      PROVE  SentInv'
  <2> DEFINE e == [type |-> k, serial |-> nextSerial]
  <2>1. e \in Outgoing /\ e.serial = nextSerial
    BY <1>2 DEF Outgoing
  <2>2. Items(outgoing') = Items(outgoing) \cup {e}
    BY <1>0, <1>2, <2>1, AppendItems
  <2>3. \A s \in toBus : s \in Nat /\ s < nextSerial /\ [type |-> "CALL", serial |-> s] # e
    <3> SUFFICES ASSUME NEW s \in toBus
                 PROVE  s \in Nat /\ s < nextSerial /\ [type |-> "CALL", serial |-> s] # e
      OBVIOUS
    <3>1. s \in Nat /\ s < nextSerial
      BY <1>0 DEF SentInv, Serials
    <3>2. [type |-> "CALL", serial |-> s].serial # e.serial
      BY <1>0, <3>1
    <3> QED
      BY <3>1, <3>2
  <2> HIDE DEF e
  <2>4. \A m \in Items(outgoing') : m.serial < nextSerial'
    BY <1>0, <1>2, <2>1, <2>2 DEF SentInv
  <2>5. \A s \in toBus' : s < nextSerial'
    BY <1>0, <1>2, <2>3 DEF SentInv
  <2> QED
    BY <1>2, <2>2, <2>3, <2>4, <2>5 DEF SentInv
<1>3. ASSUME NEW t \in Callers, CallerStep(t) PROVE SentInv'
  <2>1. CASE Enqueue(t)
    BY <1>2, <2>1 DEF Enqueue, busVars, Serials, TypeInv, TypeOK
  <2>2. CASE Send(t)
    <3>1. nextSerial \in Serials
      BY <2>2, SerialLeftBound DEF Send, TypeInv
    <3> QED
      BY <1>2, <2>2, <3>1 DEF Send, busVars
  <2>3. CASE CallBegin(t) \/ EnqueueLock(t) \/ Ring(t) \/ Check(t) \/ Park(t)
    BY <1>1, <2>3 DEF CallBegin, EnqueueLock, Ring, Check, Park, queueVars, busVars
  <2>4. CASE SpuriousWakeup(t) \/ Timeout(t) \/ LastCheck(t) \/ EraseLock(t) \/ EraseAndReturn(t)
    BY <1>1, <2>4 DEF SpuriousWakeup, Timeout, LastCheck, EraseLock, EraseAndReturn, queueVars, busVars
  <2> QED
    BY <1>3, <2>1, <2>2, <2>3, <2>4 DEF CallerStep
<1>4. CASE Flush
  <2>1. outgoing' = <<>> /\ nextSerial' = nextSerial
    BY <1>4 DEF Flush
  <2>2. Items(outgoing') = {}
    BY <2>1 DEF Items
  <2>3. \A s \in toBus' : s \in toBus \/ \E m \in Items(outgoing) : m.serial = s
    BY <1>4 DEF Flush, Items
  <2> QED
    BY <2>1, <2>2, <2>3 DEF SentInv
<1>5. CASE Poll \/ DispatchInvalid \/ Read \/ Process \/ Find \/ Crash
  BY <1>1, <1>5 DEF Poll, DispatchInvalid, Read, Process, Find, Crash, queueVars, busVars
<1>6. CASE StoreReply \/ NotifyOne \/ Finish \/ Settle \/ Return \/ Recheck
  BY <1>1, <1>6 DEF StoreReply, NotifyOne, Finish, Settle, Return, Recheck, queueVars, busVars
<1>7. CASE BusStep
  <2>1. toBus' \subseteq toBus /\ UNCHANGED <<outgoing, nextSerial>>
    BY <1>7 DEF BusStep, BusReply, BusSignal, BusClose, queueVars
  <2> QED
    BY <2>1 DEF SentInv
<1>8. CASE UNCHANGED vars
  BY <1>1, <1>8 DEF vars
<1> QED
  BY <1>3, <1>4, <1>5, <1>6, <1>7, <1>8 DEF Next, DispatcherStep

(* The replies in the table that a step of a caller or a message touches.   *)
LEMMA GotStep == TypeInv /\ TableTracksCalls /\ GotInv /\ [Next]_vars => GotInv'
<1> SUFFICES ASSUME TypeInv, TableTracksCalls, GotInv, [Next]_vars PROVE GotInv'
  OBVIOUS
<1>0. /\ pc \in [Callers -> CallerPCs] /\ serial \in [Callers -> 0 .. MaxSerial]
      /\ gotReply \in [Callers -> BOOLEAN] /\ reply \in [Serials -> Replies \cup {NoMessage}]
      /\ \A t \in Callers : pc[t] \in Registered => serial[t] \in Serials
  BY BlockingCallAssumption DEF TypeInv, TypeOK, SerialInv, Serials
<1>1. CASE UNCHANGED <<pc, serial, gotReply, reply>>
  BY <1>1 DEF GotInv
<1>2. ASSUME NEW t \in Callers, NEW l \in CallerPCs \ {"erase", "erasing"},
             pc' = [pc EXCEPT ![t] = l], UNCHANGED <<serial, gotReply, reply>>
      PROVE  GotInv'
  BY <1>0, <1>2 DEF GotInv
<1>3. ASSUME NEW t \in Callers, CallerStep(t) PROVE GotInv'
  <2>1. CASE CallBegin(t)
    BY <1>0, <2>1 DEF CallBegin, Goto, tableVars, GotInv
  <2>2. CASE EnqueueLock(t)
    BY <1>2, <2>2 DEF EnqueueLock, Goto, CallerPCs
  <2>3. CASE Enqueue(t)
    BY <1>0, <2>3 DEF Enqueue, Goto, GotInv
  <2>4. CASE Send(t)
    BY <1>2, <2>4 DEF Send, Goto, tableVars, CallerPCs
  <2>5. CASE Ring(t)
    BY <1>2, <2>5 DEF Ring, Goto, tableVars, CallerPCs
  <2>6. CASE Check(t)
    BY <1>0, <2>6 DEF Check, Goto, tableVars, GotInv
  <2>7. CASE Park(t) \/ SpuriousWakeup(t) \/ Timeout(t)
    BY <1>2, <2>7 DEF Park, SpuriousWakeup, Timeout, Goto, tableVars, CallerPCs
  <2>8. CASE LastCheck(t)
    BY <1>0, <2>8 DEF LastCheck, Goto, tableVars, GotInv
  <2>9. CASE EraseLock(t)
    BY <1>0, <2>9 DEF EraseLock, Goto, GotInv
  <2>10. CASE EraseAndReturn(t)
    <3>1. \A u \in Callers \ {t} : pc[u] \in Registered => serial[u] # serial[t]
      BY <2>10 DEF EraseAndReturn, TableTracksCalls, Registered
    <3> QED
      BY <1>0, <2>10, <3>1 DEF EraseAndReturn, Goto, GotInv, Registered
  <2> QED
    BY <1>3, <2>1, <2>2, <2>3, <2>4, <2>5, <2>6, <2>7, <2>8, <2>9, <2>10 DEF CallerStep
<1>4. CASE StoreReply
  <2>1. current # NoMessage
    BY <1>4 DEF StoreReply, TypeInv, CurrentInv, Replies, NoMessage
  <2> QED
    BY <1>0, <1>4, <2>1 DEF StoreReply, threadVars, GotInv, Registered
<1>5. CASE NotifyOne
  BY <1>0, <1>5 DEF NotifyOne, tableVars, GotInv
<1>6. CASE Poll \/ DispatchInvalid \/ Flush \/ Read \/ Process \/ Find \/ Crash
  BY <1>1, <1>6 DEF Poll, DispatchInvalid, Flush, Read, Process, Find, Crash, threadVars, tableVars
<1>7. CASE Finish \/ Settle \/ Return \/ Recheck \/ BusStep
  BY <1>1, <1>7 DEF Finish, Settle, Return, Recheck, BusStep, BusReply, BusSignal, BusClose,
     threadVars, tableVars
<1>8. CASE UNCHANGED vars
  BY <1>1, <1>8 DEF vars
<1> QED
  BY <1>3, <1>4, <1>5, <1>6, <1>7, <1>8 DEF Next, DispatcherStep

LEMMA RefInvariance == Spec => []RefInv
<1>1. Init => RefInv
  BY DEF Init, RefInv, GotInv, HandsInv, SentInv, Items
<1>2. TypeInv /\ CallInv /\ RefInv /\ [Next]_vars => RefInv'
  BY HandsStep, SentStep, GotStep DEF RefInv, CallInv
<1> QED
  BY <1>1, <1>2, TypeInvariance, CallInvariance, PTL DEF Spec

-----------------------------------------------------------------------------
(* The refinement.                                                         *)

InCallPCs == CallerPCs \ {"idle", "ring_send"}
OutPCs == {"idle", "ring_send"}

LEMMA PCFacts ==
    /\ Registered \subseteq InCallPCs
    /\ TypeInv => /\ pc \in [Callers -> CallerPCs] /\ serial \in [Callers -> 0 .. MaxSerial]
                  /\ \A t \in Callers : t \in Calling <=> pc[t] \in InCallPCs
                  /\ \A t \in Callers : pc[t] \in Registered => serial[t] \in Serials
  BY BlockingCallAssumption
  DEF Registered, InCallPCs, CallerPCs, TypeInv, TypeOK, SerialInv, Serials, Calling, InCall

(* A thread that stays in its call, or out of one.                          *)
LEMMA SameCalls ==
    ASSUME TypeInv, NEW t \in Callers, NEW l \in CallerPCs, pc' = [pc EXCEPT ![t] = l],
           serial' = serial, pc[t] \in InCallPCs <=> l \in InCallPCs,
           pc[t] \in Registered <=> l \in Registered
    PROVE  Calling' = Calling /\ Request' = Request
<1>1. \A u \in Callers : RequestOf(u)' = RequestOf(u) /\ (InCall(u)' <=> InCall(u))
  BY PCFacts DEF RequestOf, InCall, InCallPCs, CallerPCs
<1> QED
  BY <1>1 DEF Calling, Request

LEMMA SameAnswers ==
    ASSUME reply' = reply, InFlight' = InFlight PROVE Answers' = Answers
  BY DEF Answers, Answered

LEMMA SameRequests ==
    ASSUME UNCHANGED <<toBus, outgoing>> PROVE Requests' = Requests
  BY DEF Requests, Asked

(* The variables of RemoteCall do not change.                               *)
Stutters == UNCHANGED <<dpc = "crashed", valid, nextSerial, outcome, Calling, Request, Requests, Answers>>

LEMMA StutterStep == Stutters => UNCHANGED Promise!vars
  BY DEF Stutters, Promise!vars, Running

LEMMA CallerRefines ==
    ASSUME TypeInv, TypeInv', CallInv, RefInv, NEW t \in Callers, CallerStep(t)
    PROVE  Promise!CallStep(t) \/ Stutters
<1>0. /\ pc \in [Callers -> CallerPCs] /\ serial \in [Callers -> 0 .. MaxSerial]
      /\ outcome \in [Callers -> Outcomes]
  BY DEF TypeInv, TypeOK
<1>1. CASE CallBegin(t) /\ valid
  <2>1. /\ UNCHANGED <<valid, nextSerial, serial, reply, fromBus, incoming, current, toBus, outgoing, dpc>>
        /\ pc' = [pc EXCEPT ![t] = "enqueue"] /\ Running /\ pc[t] = "idle"
        /\ outcome' = [outcome EXCEPT ![t] = NoMessage]
    BY <1>1 DEF CallBegin, Goto, queueVars, tableVars, busVars
  <2>2. Answers' = Answers /\ Requests' = Requests
    BY <2>1, SameAnswers, SameRequests DEF InFlight
  <2>3. t \notin Calling /\ Calling' = Calling \cup {t} /\ Request' = Request
    BY <1>0, <2>1 DEF Calling, Request, RequestOf, InCall, Registered
  <2>4. outcome' = [outcome EXCEPT ![t] = Promise!NoResult]
    BY <2>1 DEF Promise!NoResult, NoMessage
  <2>5. UNCHANGED Running
    BY <2>1 DEF Running
  <2>6. Promise!Begin(t)
    BY <1>1, <2>1, <2>2, <2>3, <2>4, <2>5 DEF Promise!Begin
  <2> QED
    BY <2>6 DEF Promise!CallStep
<1>2. CASE CallBegin(t) /\ ~valid
  <2>1. /\ UNCHANGED <<valid, nextSerial, serial, reply, fromBus, incoming, current, toBus, outgoing,
                       dpc, pc>>
        /\ Running /\ pc[t] = "idle"
        /\ outcome' = [outcome EXCEPT ![t] = [type |-> "ErrorDisconnected", to |-> 0]]
    BY <1>2 DEF CallBegin, queueVars, tableVars, busVars
  <2>2. Answers' = Answers /\ Requests' = Requests
    BY <2>1, SameAnswers, SameRequests DEF InFlight
  <2>3. t \notin Calling /\ Calling' = Calling /\ Request' = Request
    BY <2>1 DEF Calling, Request, RequestOf, InCall
  <2> QED
    BY <1>2, <2>1, <2>2, <2>3 DEF Promise!CallStep, Promise!Refused, Promise!Exception, Running
<1>3. CASE Enqueue(t)
  <2> DEFINE e == [type |-> "CALL", serial |-> nextSerial]
  <2>1. /\ UNCHANGED <<valid, outcome, reply, fromBus, incoming, current, toBus, dpc>>
        /\ pc' = [pc EXCEPT ![t] = "ring"] /\ Running /\ pc[t] = "inserting"
        /\ outgoing' = Append(outgoing, e) /\ nextSerial' = nextSerial + 1
        /\ serial' = [serial EXCEPT ![t] = nextSerial] /\ nextSerial \in Serials
    BY <1>3 DEF Enqueue, Goto, busVars, TypeInv, TypeOK, Serials
  <2>2. Answers' = Answers
    BY <2>1, SameAnswers DEF InFlight
  <2>3. Items(outgoing') = Items(outgoing) \cup {e}
    <3>1. e \in Outgoing /\ outgoing \in Seq(Outgoing)
      BY <2>1 DEF Outgoing, TypeInv, TypeOK
    <3> HIDE DEF e
    <3> QED
      BY <2>1, <3>1, AppendItems
  <2>4. Requests' = Requests \cup {nextSerial}
    BY <2>1, <2>3 DEF Requests, Asked
  <2>5. t \in Calling /\ Calling' = Calling /\ Request[t] = 0
        /\ Request' = [Request EXCEPT ![t] = nextSerial]
    BY <1>0, <2>1 DEF Calling, Request, RequestOf, InCall, Registered
  <2> QED
    BY <2>1, <2>2, <2>4, <2>5
    DEF Promise!CallStep, Promise!Issue, Promise!Serials, Running, Serials
<1>4. CASE Send(t)
  <2> DEFINE e == [type |-> "SIGNAL", serial |-> nextSerial]
  <2>1. /\ UNCHANGED <<valid, outcome, reply, fromBus, incoming, current, toBus, dpc, serial>>
        /\ pc' = [pc EXCEPT ![t] = "ring_send"] /\ Running /\ pc[t] = "idle" /\ valid
        /\ outgoing' = Append(outgoing, e) /\ nextSerial' = nextSerial + 1
    BY <1>4 DEF Send, Goto, tableVars, busVars
  <2>2. Answers' = Answers
    BY <2>1, SameAnswers DEF InFlight
  <2>3. nextSerial \in Serials
    BY <1>4, SerialLeftBound DEF Send, TypeInv
  <2>4. Items(outgoing') = Items(outgoing) \cup {e}
    <3>1. e \in Outgoing /\ outgoing \in Seq(Outgoing)
      BY <2>3 DEF Outgoing, TypeInv, TypeOK
    <3> HIDE DEF e
    <3> QED
      BY <2>1, <3>1, AppendItems
  <2>5. \A s \in Serials : [type |-> "CALL", serial |-> s] # e
    <3>1. \A s \in Serials : [type |-> "CALL", serial |-> s].type # e.type
      OBVIOUS
    <3> QED
      BY <3>1
  <2>6. Requests' = Requests
    BY <2>1, <2>4, <2>5 DEF Requests, Asked
  <2>7. t \notin Calling /\ Calling' = Calling /\ Request' = Request
    BY <1>0, <2>1, SameCalls DEF Calling, InCall, InCallPCs, CallerPCs, Registered
  <2> QED
    BY <2>1, <2>2, <2>3, <2>6, <2>7
    DEF Promise!CallStep, Promise!SendOneWay, Promise!Serials, Running, Serials
<1>5. ASSUME NEW l \in CallerPCs, pc' = [pc EXCEPT ![t] = l], pc[t] \in InCallPCs <=> l \in InCallPCs,
             pc[t] \in Registered <=> l \in Registered,
             UNCHANGED <<valid, outcome, nextSerial, reply, fromBus, incoming, current, toBus, dpc,
                         serial, outgoing>>
      PROVE  Stutters
  BY <1>5, SameCalls, SameAnswers, SameRequests DEF InFlight, Stutters
<1>6. CASE EnqueueLock(t)
  BY <1>5, <1>6 DEF EnqueueLock, Goto, queueVars, busVars, CallerPCs, InCallPCs, Registered
<1>7. CASE Ring(t)
  <2> DEFINE l == IF pc[t] = "ring" THEN "check" ELSE "idle"
  <2>1. /\ l \in CallerPCs
        /\ pc[t] \in InCallPCs <=> l \in InCallPCs
        /\ pc[t] \in Registered <=> l \in Registered
    BY <1>7 DEF Ring, CallerPCs, InCallPCs, Registered
  <2>2. pc' = [pc EXCEPT ![t] = l]
    BY <1>7 DEF Ring, Goto
  <2>3. UNCHANGED <<valid, outcome, nextSerial, reply, fromBus, incoming, current, toBus, dpc,
                    serial, outgoing>>
    BY <1>7 DEF Ring, queueVars, busVars, tableVars
  <2> HIDE DEF l
  <2> QED
    BY <1>5, <2>1, <2>2, <2>3
<1>8. CASE Check(t)
  <2>1. \E l \in {"erase", "park"} : pc' = [pc EXCEPT ![t] = l]
    BY <1>8 DEF Check, Goto
  <2> QED
    BY <1>5, <1>8, <2>1 DEF Check, queueVars, busVars, tableVars, CallerPCs, InCallPCs, Registered
<1>9. CASE Park(t) \/ SpuriousWakeup(t) \/ Timeout(t) \/ LastCheck(t) \/ EraseLock(t)
  <2>1. \E l \in {"wait", "check", "expired", "erase", "erasing"} : pc' = [pc EXCEPT ![t] = l]
    BY <1>9 DEF Park, SpuriousWakeup, Timeout, LastCheck, EraseLock, Goto
  <2>2. pc[t] \in {"park", "wait", "expired", "erase"}
    BY <1>9 DEF Park, SpuriousWakeup, Timeout, LastCheck, EraseLock
  <2>3. UNCHANGED <<valid, outcome, nextSerial, reply, fromBus, incoming, current, toBus, dpc,
                    serial, outgoing>>
    BY <1>9 DEF Park, SpuriousWakeup, Timeout, LastCheck, EraseLock, queueVars, busVars, tableVars
  <2> QED
    BY <1>5, <2>1, <2>2, <2>3 DEF CallerPCs, InCallPCs, Registered
<1>10. CASE EraseAndReturn(t)
  <2> DEFINE s == serial[t]
  <2>1. /\ UNCHANGED <<valid, nextSerial, fromBus, incoming, current, toBus, dpc, serial, outgoing>>
        /\ pc' = [pc EXCEPT ![t] = "idle"] /\ Running /\ pc[t] = "erasing"
        /\ reply' = [reply EXCEPT ![s] = NoMessage]
        /\ outcome' = [outcome EXCEPT ![t] = Result(t)]
    BY <1>10 DEF EraseAndReturn, Goto, queueVars, busVars
  <2>2. s \in Serials /\ reply \in [Serials -> Replies \cup {NoMessage}] /\ s # 0
    BY <2>1, PCFacts DEF TypeInv, TypeOK, Registered, Serials
  <2>3. Answers' \in {Answers, Answers \ {s}}
    <3>1. \A x \in Serials \ {s} : x \in Answers' <=> x \in Answers
      BY <2>1, <2>2 DEF Answers, Answered, InFlight
    <3>2. s \in Answers' => s \in Answers
      BY <2>1, <2>2 DEF Answers, Answered, InFlight
    <3>3. Answers \subseteq Serials /\ Answers' \subseteq Serials
      BY DEF Answers
    <3> QED
      BY <3>1, <3>2, <3>3
  <2>4. Requests' = Requests
    BY <2>1, SameRequests
  <2>5. /\ t \in Calling /\ Calling' = Calling \ {t} /\ Request[t] = s
        /\ Request' = [Request EXCEPT ![t] = 0]
    BY <1>0, <2>1 DEF Calling, Request, RequestOf, InCall, Registered
  <2>6. CASE gotReply[t]
    <3>1. reply[s] \in Replies /\ reply[s].to = s
      BY <2>1, <2>2, <2>6 DEF RefInv, GotInv, CallInv, ReplyInv
    <3>2. reply[s] = [type |-> "REPLY", to |-> s]
      BY <3>1 DEF Replies
    <3>3. Result(t) = reply[s] /\ s \in Answers
      BY <2>2, <2>6, <3>2 DEF Result, Answers, Answered, NoMessage
    <3> QED
      BY <2>1, <2>2, <2>3, <2>4, <2>5, <3>2, <3>3
      DEF Promise!CallStep, Promise!Returns, Promise!Ends, Promise!Answer, Running
  <2>7. CASE ~gotReply[t]
    BY <2>1, <2>2, <2>3, <2>4, <2>5, <2>7
    DEF Result, Promise!CallStep, Promise!TimesOut, Promise!Ends, Promise!Exception, Running
  <2> QED
    BY <2>6, <2>7
<1> QED
  BY <1>1, <1>2, <1>3, <1>4, <1>6, <1>7, <1>8, <1>9, <1>10 DEF CallerStep

(* No answer but the one of a REPLY message is in flight.                   *)
LEMMA NoAnswerIn ==
    ASSUME NEW s \in Serials, NEW m \in Messages \cup {NoMessage}, m \notin Replies
    PROVE  [type |-> "REPLY", to |-> s] # m
  BY DEF Messages, NoMessage, Replies

LEMMA DispatcherRefines ==
    ASSUME TypeInv, TypeInv', CallInv, RefInv, DispatcherStep
    PROVE  Promise!Next \/ Stutters
<1>0. /\ reply \in [Serials -> Replies \cup {NoMessage}]
      /\ current \in Messages \cup {NoMessage}
      /\ incoming \in Seq(Messages) /\ fromBus \in Seq(Messages)
      /\ valid \in BOOLEAN
  BY DEF TypeInv, TypeOK
<1>1. ASSUME UNCHANGED threadVars PROVE UNCHANGED <<outcome, Calling, Request>>
  BY <1>1 DEF threadVars, Calling, Request, InCall, RequestOf
<1>2. ASSUME UNCHANGED <<valid, queueVars, threadVars, tableVars, busVars, incoming, current>>,
             Running, Running'
      PROVE  Stutters
  <2>1. Answers' = Answers /\ Requests' = Requests
    BY <1>2, SameAnswers, SameRequests DEF tableVars, queueVars, busVars, InFlight
  <2>2. UNCHANGED <<dpc = "crashed", valid, nextSerial>>
    BY <1>2 DEF Running, queueVars
  <2> QED
    BY <1>1, <1>2, <2>1, <2>2 DEF Stutters
<1>3. CASE Poll \/ DispatchInvalid
  BY <1>2, <1>3 DEF Poll, DispatchInvalid, Running
<1>4. CASE Settle \/ Return \/ Recheck
  BY <1>2, <1>4 DEF Settle, Return, Recheck, Running
<1>5. CASE Flush
  <2>1. /\ UNCHANGED <<nextSerial, incoming, tableVars, threadVars, current, fromBus>>
        /\ dpc = "dispatch" /\ dpc' = "read" /\ valid
        /\ outgoing' = <<>>
    BY <1>5 DEF Flush
  <2>2. UNCHANGED <<dpc = "crashed", Running, nextSerial, outcome, Calling, Request, Answers>> /\ Running
    BY <1>1, <2>1, SameAnswers DEF InFlight, Running, tableVars
  <2>3. \A m : m \notin Items(outgoing')
    BY <2>1 DEF Items
  <2>4. CASE valid'
    <3>1. toBus' = toBus \cup {outgoing[i].serial :
                        i \in {j \in DOMAIN outgoing : outgoing[j].type = "CALL"}}
      BY <1>5, <2>4 DEF Flush
    <3>2. \A i \in DOMAIN outgoing : outgoing[i] \in Outgoing
      BY DEF TypeInv, TypeOK
    <3>3. \A i \in DOMAIN outgoing : outgoing[i].type = "CALL" =>
              outgoing[i] = [type |-> "CALL", serial |-> outgoing[i].serial]
      BY <3>2 DEF Outgoing
    <3>4. \A s \in Serials : [type |-> "CALL", serial |-> s].serial = s
                             /\ [type |-> "CALL", serial |-> s].type = "CALL"
      OBVIOUS
    <3>5. \A s \in Serials : s \in toBus' <=> Asked(s)
      BY <3>1, <3>3, <3>4 DEF Asked, Items
    <3>6. Requests' = Requests
      BY <2>3, <3>5 DEF Requests, Asked
    <3> QED
      BY <2>1, <2>2, <2>4, <3>6 DEF Stutters
  <2>5. CASE ~valid'
    <3>1. toBus' = toBus /\ valid' = FALSE
      BY <1>5, <2>1, <2>5 DEF Flush
    <3>2. Requests' \subseteq Requests
      BY <2>3, <3>1 DEF Requests, Asked
    <3>3. Promise!Disconnect
      BY <2>2, <3>1, <3>2 DEF Promise!Disconnect
    <3> QED
      BY <3>3 DEF Promise!Next
  <2> QED
    BY <2>4, <2>5
<1>6. CASE Read
  <2>1. /\ UNCHANGED <<queueVars, tableVars, threadVars, current, toBus>>
        /\ dpc = "read" /\ dpc' = "process"
    BY <1>6 DEF Read
  <2>2. /\ UNCHANGED <<dpc = "crashed", Running, nextSerial, outcome, Calling, Request, Requests>>
        /\ Running
    BY <1>1, <2>1, SameRequests DEF Running, queueVars
  <2>3. InFlight' = InFlight
    <3>1. CASE fromBus = <<>>
      BY <1>6, <2>1, <3>1 DEF Read, InFlight
    <3>2. CASE fromBus # <<>>
      <4>1. Head(fromBus) \in Messages /\ incoming' = Append(incoming, Head(fromBus))
        BY <1>0, <1>6, <3>2 DEF Read
      <4>2. Items(incoming') = Items(incoming) \cup {Head(fromBus)}
        BY <1>0, <4>1, AppendItems
      <4>3. Items(fromBus) = Items(fromBus') \cup {Head(fromBus)}
        BY <1>0, <1>6, <3>2, TakeItems DEF Read
      <4> QED
        BY <2>1, <4>2, <4>3 DEF InFlight
    <3> QED
      BY <3>1, <3>2
  <2>4. Answers' = Answers
    BY <2>1, <2>3, SameAnswers DEF tableVars
  <2>5. CASE valid' = valid
    BY <2>2, <2>4, <2>5 DEF Stutters
  <2>6. CASE valid' # valid
    <3>1. valid' = FALSE
      BY <1>0, <1>6, <2>6 DEF Read
    <3>2. Promise!Disconnect
      BY <2>2, <2>4, <3>1 DEF Promise!Disconnect
    <3> QED
      BY <3>2 DEF Promise!Next
  <2> QED
    BY <2>5, <2>6
<1>7. CASE Process
  <2>1. /\ UNCHANGED <<valid, queueVars, tableVars, threadVars, busVars>>
        /\ Running /\ Running' /\ current = NoMessage
    BY <1>7 DEF Process, Running, RefInv, HandsInv
  <2>2. CASE incoming = <<>>
    BY <1>2, <1>7, <2>1, <2>2 DEF Process
  <2>3. CASE incoming # <<>>
    <3>1. Items(incoming) = Items(incoming') \cup {current'}
      BY <1>0, <1>7, <2>3, TakeItems DEF Process
    <3>2. InFlight = InFlight' \cup {NoMessage}
      BY <2>1, <3>1 DEF InFlight, busVars
    <3>3. NoMessage \notin Replies
      BY DEF NoMessage, Replies
    <3>4. \A s \in Serials : [type |-> "REPLY", to |-> s] # NoMessage
      BY <3>3, NoAnswerIn
    <3>5. Answers' = Answers
      BY <2>1, <3>2, <3>4 DEF Answers, Answered, tableVars
    <3>6. Requests' = Requests
      BY <2>1, SameRequests DEF queueVars, busVars
    <3>7. UNCHANGED <<dpc = "crashed", nextSerial>>
      BY <2>1 DEF Running, queueVars
    <3> QED
      BY <1>1, <2>1, <3>5, <3>6, <3>7 DEF Stutters
  <2> QED
    BY <2>2, <2>3
<1>8. CASE (Find \/ Crash) /\ dpc' # "crashed"
  <2>1. Running /\ Running'
    BY <1>8 DEF Find, Crash, Running
  <2> QED
    BY <1>2, <1>8, <2>1 DEF Find, Crash
<1>9. CASE (Find \/ Crash) /\ dpc' = "crashed"
  <2>1. /\ UNCHANGED <<valid, queueVars, tableVars, threadVars, busVars, incoming, current>>
        /\ Running /\ Running' = FALSE
    BY <1>9 DEF Find, Crash, Running
  <2>2. Answers' = Answers /\ Requests' = Requests /\ UNCHANGED nextSerial
    BY <2>1, SameAnswers, SameRequests DEF tableVars, queueVars, busVars, InFlight
  <2>3. Promise!Crash
    BY <1>1, <2>1, <2>2 DEF Promise!Crash
  <2> QED
    BY <2>3 DEF Promise!Next
<1>10. CASE StoreReply
  <2>1. /\ UNCHANGED <<valid, queueVars, threadVars, busVars, incoming, current>>
        /\ Running /\ Running' /\ current \in Replies
        /\ reply' = [reply EXCEPT ![current.to] = current]
    BY <1>10 DEF StoreReply, Running, TypeInv, CurrentInv
  <2>2. PICK c \in Serials : current = [type |-> "REPLY", to |-> c]
    BY <2>1 DEF Replies
  <2>3. current # NoMessage /\ reply' = [reply EXCEPT ![c] = current]
    BY <2>1, <2>2 DEF Replies, NoMessage
  <2>4. InFlight' = InFlight /\ current \in InFlight
    BY <2>1 DEF InFlight, busVars
  <2>5. \A s \in Serials : Answered(s)' <=> Answered(s)
    <3>1. Answered(c) /\ Answered(c)'
      BY <2>2, <2>4 DEF Answered
    <3>2. \A s \in Serials \ {c} : reply'[s] = reply[s]
      BY <1>0, <2>3
    <3>3. \A s \in Serials \ {c} : Answered(s)' <=> Answered(s)
      BY <2>4, <3>2 DEF Answered
    <3> QED
      BY <3>1, <3>3
  <2>6. Answers' = Answers
    BY <2>5 DEF Answers
  <2>7. Requests' = Requests
    BY <2>1, SameRequests DEF queueVars, busVars
  <2>8. UNCHANGED <<dpc = "crashed", nextSerial>>
    BY <2>1 DEF Running, queueVars
  <2> QED
    BY <1>1, <2>1, <2>6, <2>7, <2>8 DEF Stutters
<1>11. CASE NotifyOne
  <2>1. /\ UNCHANGED <<valid, queueVars, tableVars, busVars, incoming, current, serial, outcome>>
        /\ Running /\ Running'
        /\ pc' = [t \in Callers |->
                    IF pc[t] = "wait" /\ serial[t] = current.to THEN "check" ELSE pc[t]]
    BY <1>11 DEF NotifyOne, Running
  <2>2. \A t \in Callers : /\ InCall(t)' <=> InCall(t)
                           /\ RequestOf(t)' = RequestOf(t)
    BY <2>1 DEF InCall, RequestOf, Registered
  <2>3. Calling' = Calling /\ Request' = Request
    BY <2>2 DEF Calling, Request
  <2>4. Answers' = Answers /\ Requests' = Requests
    BY <2>1, SameAnswers, SameRequests DEF tableVars, queueVars, busVars, InFlight
  <2>5. UNCHANGED <<dpc = "crashed", nextSerial>>
    BY <2>1 DEF Running, queueVars
  <2> QED
    BY <2>1, <2>3, <2>4, <2>5 DEF Stutters
<1>12. CASE Finish
  <2>1. /\ UNCHANGED <<valid, queueVars, tableVars, threadVars, busVars, incoming>>
        /\ Running /\ Running' /\ current' = NoMessage
    BY <1>12 DEF Finish, Running
  <2>2. Requests' = Requests /\ UNCHANGED <<dpc = "crashed", Running, nextSerial>>
    BY <2>1, SameRequests DEF queueVars, busVars, Running
  <2>3. \A s \in Serials : [type |-> "REPLY", to |-> s] # NoMessage
    BY NoAnswerIn DEF NoMessage, Replies
  <2>4. \A s \in Serials : [type |-> "REPLY", to |-> s] # current => (Answered(s)' <=> Answered(s))
    BY <2>1, <2>3 DEF Answered, InFlight, tableVars, busVars
  <2>5. CASE Answers' = Answers
    BY <1>1, <2>1, <2>2, <2>5 DEF Stutters
  <2>6. CASE Answers' # Answers
    <3>1. PICK s \in Serials : [type |-> "REPLY", to |-> s] = current /\ ~(Answered(s)' <=> Answered(s))
      BY <2>4, <2>6 DEF Answers
    <3>2. Answered(s) /\ ~Answered(s)'
      BY <3>1, <2>1 DEF Answered, InFlight, tableVars
    <3>3. \A x \in Serials : x # s => (Answered(x)' <=> Answered(x))
      <4>1. \A x \in Serials : [type |-> "REPLY", to |-> x].to = x
        OBVIOUS
      <4> QED
        BY <2>4, <3>1, <4>1
    <3>4. s \in Answers /\ Answers' = Answers \ {s}
      BY <3>2, <3>3 DEF Answers
    <3>5. Promise!DropAnswer(s)
      BY <1>1, <2>1, <2>2, <3>4 DEF Promise!DropAnswer
    <3> QED
      BY <3>5 DEF Promise!Next, Promise!Serials, Serials
  <2> QED
    BY <2>5, <2>6
<1> QED
  BY <1>3, <1>4, <1>5, <1>6, <1>7, <1>8, <1>9, <1>10, <1>11, <1>12 DEF DispatcherStep

LEMMA BusRefines ==
    ASSUME TypeInv, RefInv, BusStep
    PROVE  Promise!Next \/ Stutters
<1>1. UNCHANGED <<valid, nextSerial, outcome, Running, dpc = "crashed", Calling, Request>> /\ Running
  BY DEF BusStep, BusReply, BusSignal, BusClose, Running, queueVars, threadVars, Calling, Request,
     InCall, RequestOf
<1>2. UNCHANGED <<outgoing, reply, incoming, current>> /\ fromBus \in Seq(Messages)
  BY DEF BusStep, BusReply, BusSignal, BusClose, queueVars, tableVars, TypeInv, TypeOK
<1>3. ASSUME NEW s \in Serials, BusReply(s) PROVE Promise!Next
  <2> DEFINE m == [type |-> "REPLY", to |-> s]
  <2>1. m \in Messages /\ m # NoMessage /\ \A x \in Serials : [type |-> "REPLY", to |-> x] = m <=> x = s
    <3>1. m \in Messages /\ m.type # NoMessage.type
      BY DEF Messages, Replies, NoMessage
    <3>2. \A x \in Serials : [type |-> "REPLY", to |-> x].to = x
      OBVIOUS
    <3> QED
      BY <3>1, <3>2
  <2>2. s \in toBus /\ toBus' = toBus \ {s} /\ fromBus' = Append(fromBus, m)
    BY <1>3 DEF BusReply
  <2> HIDE DEF m
  <2>3. Items(fromBus') = Items(fromBus) \cup {m}
    BY <1>2, <2>1, <2>2, AppendItems
  <2>4. InFlight' = InFlight \cup {m}
    BY <1>2, <2>3 DEF InFlight
  <2>5. \A x \in Serials : Answered(x)' <=> (Answered(x) \/ x = s)
    BY <1>2, <2>1, <2>4 DEF Answered
  <2>6. Answers' = Answers \cup {s}
    BY <2>5 DEF Answers
  <2>7. \A x \in Serials : Asked(x)' <=> (Asked(x) /\ x # s)
    BY <1>2, <2>2 DEF Asked, RefInv, SentInv
  <2>8. s \in Requests /\ Requests' = Requests \ {s}
    BY <2>2, <2>7 DEF Requests, Asked
  <2>9. Promise!BusAnswers(s)
    BY <1>1, <2>6, <2>8 DEF Promise!BusAnswers
  <2> QED
    BY <2>9 DEF Promise!Next, Promise!Serials, Serials
<1>4. CASE BusSignal
  <2> DEFINE m == [type |-> "SIGNAL", to |-> 0]
  <2>1. m \in Messages /\ m \notin Replies
    BY DEF Messages, Replies
  <2>2. toBus' = toBus /\ fromBus' = Append(fromBus, m)
    BY <1>4 DEF BusSignal
  <2> HIDE DEF m
  <2>3. Items(fromBus') = Items(fromBus) \cup {m}
    BY <1>2, <2>1, <2>2, AppendItems
  <2>4. \A x \in Serials : [type |-> "REPLY", to |-> x] # m
    BY <2>1, NoAnswerIn
  <2>5. \A x \in Serials : Answered(x)' <=> Answered(x)
    BY <1>2, <2>3, <2>4 DEF Answered, InFlight
  <2>6. Answers' = Answers
    BY <2>5 DEF Answers
  <2> QED
    BY <1>1, <1>2, <2>2, <2>6, SameRequests DEF Stutters
<1>5. CASE BusClose
  <2>1. UNCHANGED <<toBus, fromBus>>
    BY <1>5 DEF BusClose
  <2> QED
    BY <1>1, <1>2, <2>1, SameRequests, SameAnswers DEF Stutters, InFlight
<1> QED
  BY <1>3, <1>4, <1>5 DEF BusStep

LEMMA InitRefines == Init => Promise!Init
<1> SUFFICES ASSUME Init PROVE Promise!Init
  OBVIOUS
<1>1. /\ Running = TRUE /\ valid = TRUE /\ nextSerial = 1
      /\ Calling = {} /\ Request = [t \in Callers |-> 0]
  BY DEF Init, Running, Calling, Request, InCall, RequestOf, Registered
<1>2. outcome = [t \in Callers |-> Promise!NoResult]
  BY DEF Init, NoMessage, Promise!NoResult
<1>3. Items(fromBus) = {} /\ Items(incoming) = {} /\ Items(outgoing) = {} /\ toBus = {}
  BY DEF Init, Items
<1>4. Requests = {}
  BY <1>3 DEF Requests, Asked
<1>5. \A s \in Serials : [type |-> "REPLY", to |-> s] # NoMessage /\ reply[s] = NoMessage
  BY NoAnswerIn DEF Init, NoMessage, Replies
<1>6. Answers = {}
  BY <1>3, <1>5 DEF Init, Answers, Answered, InFlight
<1> QED
  BY <1>1, <1>2, <1>4, <1>6 DEF Promise!Init

(* Every blocking call ends with the bus's answer to its own request, or    *)
(* with an exception: send_with_reply_blocking, send, dispatch and          *)
(* process_single_message implement RemoteCall.                             *)
THEOREM PromiseKept == Spec => KeepsItsPromise
<1>1. TypeInv /\ TypeInv' /\ CallInv /\ RefInv /\ [Next]_vars => [Promise!Next]_(Promise!vars)
  <2> SUFFICES ASSUME TypeInv, TypeInv', CallInv, RefInv, [Next]_vars
               PROVE  Promise!Next \/ Stutters
    BY StutterStep
  <2>1. ASSUME NEW t \in Callers, CallerStep(t) PROVE Promise!Next \/ Stutters
    BY <2>1, CallerRefines DEF Promise!Next
  <2>2. CASE DispatcherStep
    BY <2>2, DispatcherRefines
  <2>3. CASE BusStep
    BY <2>3, BusRefines
  <2>4. CASE UNCHANGED vars
    BY <2>4 DEF vars, Stutters, Calling, Request, Requests, Answers, InCall, RequestOf, Asked,
       Answered, InFlight
  <2> QED
    BY <2>1, <2>2, <2>3, <2>4 DEF Next
<1> QED
  BY <1>1, InitRefines, TypeInvariance, CallInvariance, RefInvariance, PTL
  DEF Spec, KeepsItsPromise, Promise!Spec
=============================================================================
