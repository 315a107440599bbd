----------------------- MODULE BlockingCallRefinement -----------------------
(***************************************************************************)
(* BlockingCall keeps the promise of RemoteCall.  A request is in flight   *)
(* while it is on the outgoing queue or with the bus, an answer while it   *)
(* is on the socket, on the incoming queue, in the dispatch thread's hands *)
(* or in the table.                                                        *)
(***************************************************************************)
EXTENDS BlockingCall

Items(s) == {s[i] : i \in DOMAIN s}

InCall(t) == pc[t] \notin {"idle", "ring_send"}
RequestOf(t) == IF pc[t] \in Registered THEN serial[t] ELSE 0
InFlight == Items(fromBus) \cup Items(incoming) \cup {current}
Answered(s) == reply[s] # NoMessage \/ [type |-> "REPLY", to |-> s] \in InFlight
Asked(s) == s \in toBus \/ [type |-> "CALL", serial |-> s] \in Items(outgoing)

Calling == {t \in Callers : InCall(t)}
Request == [t \in Callers |-> RequestOf(t)]
Requests == {s \in Serials : Asked(s)}
Answers == {s \in Serials : Answered(s)}

Promise == INSTANCE RemoteCall WITH
    alive <- Running, up <- valid, next <- nextSerial, result <- outcome,
    calling <- Calling, request <- Request, requests <- Requests, answers <- Answers

(* Every blocking call ends with the answer the bus gave to the request of  *)
(* this very call, or with an exception, however the calling threads, the   *)
(* dispatch thread, late answers, lost notifications and the end of the     *)
(* connection interleave: the steps of send_with_reply_blocking and         *)
(* process_single_message are steps of RemoteCall.                          *)
KeepsItsPromise == Promise!Spec
=============================================================================
