----------------------------- MODULE MCReading -----------------------------
(***************************************************************************)
(* Who reads a connection's socket: a transport, message by message, and   *)
(* the dispatcher that waits for several sockets and calls dispatch().     *)
(* The two share no state, so a run takes one of them.                     *)
(***************************************************************************)
EXTENDS MCTransport, StandaloneDispatcher

VARIABLE part

ReadingInit ==
    /\ part \in {"transport", "dispatcher"}
    /\ IF part = "transport" THEN TRUE ELSE kind = "simple"
    /\ Init /\ LoopInit
ReadingNext ==
    \/ part = "transport" /\ Next /\ UNCHANGED <<loopVars, part>>
    \/ part = "dispatcher" /\ LoopNext /\ UNCHANGED <<vars, part>>
(* Each part's fairness is asked of the runs of that part only. *)
ReadingSpec ==
    /\ ReadingInit /\ [][ReadingNext]_<<vars, loopVars, part>>
    /\ WF_vars(part = "transport" /\ ReaderStep)
    /\ WF_vars(part = "transport" /\ \E n \in 1..Len(pending) : PeerDeliver(n))
    /\ WF_loopVars(part = "dispatcher" /\ Follows(LoopStep))
    /\ WF_loopVars(part = "dispatcher" /\ Follows(Started \/ WakeToStop \/ Join))
    /\ WF_loopVars(part = "dispatcher" /\ Follows(Push \/ WakeForConnection))
=============================================================================
