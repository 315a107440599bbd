----------------------------- MODULE RemoteCall -----------------------------
(***************************************************************************)
(* What Connection::send_with_reply_blocking promises the threads that     *)
(* call it: a call sends one request under a serial that is never used     *)
(* again, and ends with the answer that the bus gave to that request, or   *)
(* with an exception.  Queues, locks, tables and wake-ups do not exist     *)
(* here: requests and answers are in flight, and may be lost.              *)
(***************************************************************************)
EXTENDS Integers

CONSTANTS Callers, MaxSerial

Serials == 1 .. MaxSerial
NoResult == [type |-> "NONE", to |-> 0]
Answer(s) == [type |-> "REPLY", to |-> s]
Exception(x) == [type |-> x, to |-> 0]

VARIABLES
    alive,      \* the process has not crashed
    up,         \* the connection can be used
    next,       \* the next serial
    calling,    \* threads in a call
    request,    \* the serial of each thread's call, 0 before it has one
    result,     \* what each thread's last call ended with
    requests,   \* serials of requests on their way to an answer
    answers     \* serials of answers on their way to their call

vars == <<alive, up, next, calling, request, result, requests, answers>>

Init ==
    /\ alive = TRUE /\ up = TRUE /\ next = 1
    /\ calling = {} /\ request = [t \in Callers |-> 0]
    /\ result = [t \in Callers |-> NoResult]
    /\ requests = {} /\ answers = {}

Refused(t) ==
    /\ alive /\ ~up /\ t \notin calling
    /\ result' = [result EXCEPT ![t] = Exception("ErrorDisconnected")]
    /\ UNCHANGED <<alive, up, next, calling, request, requests, answers>>
Begin(t) ==
    /\ alive /\ up /\ t \notin calling
    /\ calling' = calling \cup {t}
    /\ result' = [result EXCEPT ![t] = NoResult]
    /\ UNCHANGED <<alive, up, next, request, requests, answers>>
Issue(t) ==
    /\ alive /\ t \in calling /\ request[t] = 0 /\ next \in Serials
    /\ request' = [request EXCEPT ![t] = next] /\ next' = next + 1
    /\ requests' = requests \cup {next}
    /\ UNCHANGED <<alive, up, calling, result, answers>>
(* Connection::send: a message without an answer. *)
SendOneWay(t) ==
    /\ alive /\ up /\ t \notin calling /\ next \in Serials
    /\ next' = next + 1
    /\ UNCHANGED <<alive, up, calling, request, result, requests, answers>>

BusAnswers(s) ==
    /\ alive /\ s \in requests
    /\ requests' = requests \ {s} /\ answers' = answers \cup {s}
    /\ UNCHANGED <<alive, up, next, calling, request, result>>
(* An answer that comes late is dropped; what the bus does not get any more *)
(* is lost with the connection.                                             *)
DropAnswer(s) ==
    /\ alive /\ s \in answers
    /\ answers' = answers \ {s}
    /\ UNCHANGED <<alive, up, next, calling, request, result, requests>>
Disconnect ==
    /\ alive /\ up' = FALSE
    /\ requests' \in SUBSET requests
    /\ UNCHANGED <<alive, next, calling, request, result, answers>>

Ends(t, r) ==
    /\ alive /\ t \in calling /\ request[t] # 0
    /\ calling' = calling \ {t} /\ request' = [request EXCEPT ![t] = 0]
    /\ result' = [result EXCEPT ![t] = r]
    /\ answers' \in {answers, answers \ {request[t]}}
    /\ UNCHANGED <<alive, up, next, requests>>
Returns(t) == request[t] \in answers /\ Ends(t, Answer(request[t]))
TimesOut(t) == Ends(t, Exception("ErrorNoReply"))

(* The dispatch thread meets an entry that was erased under its hands. *)
Crash ==
    /\ alive /\ alive' = FALSE
    /\ UNCHANGED <<up, next, calling, request, result, requests, answers>>

CallStep(t) ==
    Refused(t) \/ Begin(t) \/ Issue(t) \/ SendOneWay(t) \/ Returns(t) \/ TimesOut(t)
Next ==
    \/ \E t \in Callers : CallStep(t)
    \/ \E s \in Serials : BusAnswers(s) \/ DropAnswer(s)
    \/ Disconnect \/ Crash

Spec == Init /\ [][Next]_vars
=============================================================================
