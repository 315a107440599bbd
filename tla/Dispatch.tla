------------------------------ MODULE Dispatch ------------------------------
(***************************************************************************)
(* What runs on the dispatching thread of one connection: the loop of a    *)
(* dispatcher, Connection::dispatch, the handlers it calls, and what those *)
(* handlers may call back: Connection::send, which on this thread runs a   *)
(* nested dispatch(), and send_with_reply_blocking, which on this thread   *)
(* writes and reads the socket itself.  The thread's stack is explicit.    *)
(*                                                                         *)
(* Exceptions unwind the stack.  Method<>::handle_call_message catches     *)
(* them around the user's method and around the sending of its reply, and  *)
(* answers with an error; SignalProxy<>::on_dbus_incoming catches them     *)
(* around the user's signal handlers, and goes on.  The calls that the     *)
(* library answers itself are outside any try block: errors for what is    *)
(* not there, and the Introspectable, Peer and Properties interfaces.      *)
(*                                                                         *)
(* Messages arrive whole and are not too long: see Transport for others.   *)
(***************************************************************************)
EXTENDS Integers, Sequences, SequencesExt, FiniteSets

CONSTANTS
    Kind,             \* "standalone": StandaloneDispatcher; "fd": Qt, GLib
    FreeHandlersCall, \* the user's free signal handlers use the connection
    MaxIn,            \* bound: calls and signals sent by the bus
    MaxSends,         \* bound: sends by user code on this thread
    MaxBlocks,        \* bound: blocking calls by user code on this thread
    MaxOther          \* bound: sends by other threads

ASSUME DispatchAssumption ==
    /\ Kind \in {"standalone", "fd"}
    /\ FreeHandlersCall \in BOOLEAN
    /\ {MaxIn, MaxSends, MaxBlocks, MaxOther} \subseteq Nat

VARIABLES
    valid,      \* the transport's m_ok
    closed,     \* the bus has closed the socket
    fromBus,    \* messages on the socket
    incoming,   \* m_incomingMessages
    outgoing,   \* m_outgoingMessages
    written,    \* what was handed to the transport, in order
    toBus,      \* serials of blocking calls the bus has not answered
    status,     \* m_dispatchStatus
    wake,       \* bytes in the StandaloneDispatcher's socketpair
    stack,      \* the dispatching thread's stack
    throwing,   \* an exception is unwinding it
    dead,       \* the program has ended: std::terminate, or a null pointer
    misread,    \* history: Properties calls whose arguments had other types
    started,    \* ids of the calls and signals handed to handlers, in order
    answers,    \* answers queued per call id
    arrived, sends, blocks, others   \* counters for the bounds

vars == <<valid, closed, fromBus, toBus, incoming, outgoing, written, status, wake,
          stack, throwing, dead, misread, started, answers, arrived, sends, blocks,
          others>>
counters == <<arrived, sends, blocks, others>>
busVars  == <<closed, fromBus, toBus>>

Ids == 1..MaxIn
Serials == 1..(MaxSends + MaxBlocks + MaxOther + 2 * MaxIn)

(* A frame: the operation, where it is, and the message or serial it is on. *)
Frames ==
    [op : {"dispatch"}, at : {"flush", "read", "process", "finish"}, id : {0}]
      \cup [op : {"call"}, at : {"body", "replying", "failing", "setting", "direct"}, id : Ids]
      \cup [op : {"signal"}, at : {"free", "proxies"}, id : Ids]
      \cup [op : {"block"}, at : {"wait"}, id : Serials]
      \cup [op : {"app"}, at : {"body"}, id : {0}]
DispatchFrame == [op |-> "dispatch", at |-> "flush", id |-> 0]
Frame(o, a, i) == [op |-> o, at |-> a, id |-> i]

Incoming == [kind : {"CALL", "SIGNAL"}, id : Ids]
              \cup [kind : {"RETURN", "ERROR"}, id : Serials]
Outgoing == [from : {"dispatcher", "other"}, serial : Serials]

TypeOK ==
    /\ {valid, closed, throwing, dead} \subseteq BOOLEAN /\ misread \subseteq Ids
    /\ fromBus \in Seq(Incoming) /\ incoming \in Seq(Incoming)
    /\ outgoing \in Seq(Outgoing) /\ written \in Seq(Outgoing)
    /\ toBus \subseteq Serials
    /\ status \in {"COMPLETE", "DATA_REMAINS"}
    /\ wake \in Nat
    /\ stack \in Seq(Frames)
    /\ started \in Seq(Ids)
    /\ answers \in [Ids -> Nat]
    /\ arrived \in 0..MaxIn /\ sends \in 0..MaxSends
    /\ blocks \in 0..MaxBlocks /\ others \in 0..MaxOther

Init ==
    /\ valid = TRUE /\ closed = FALSE
    /\ fromBus = <<>> /\ incoming = <<>> /\ outgoing = <<>> /\ written = <<>>
    /\ toBus = {}
    /\ status = "COMPLETE" /\ wake = 0
    /\ stack = <<>> /\ throwing = FALSE /\ dead = FALSE /\ misread = {}
    /\ started = <<>> /\ answers = [i \in Ids |-> 0]
    /\ arrived = 0 /\ sends = 0 /\ blocks = 0 /\ others = 0

-----------------------------------------------------------------------------
(* The stack *)

Top == Last(stack)
Runs(o, a) == /\ ~dead /\ ~throwing /\ stack # <<>>
              /\ Top.op = o /\ Top.at = a
Moved(a) == [stack EXCEPT ![Len(stack)].at = a]

(* The next serial: each message queued or written has taken one. *)
NextSerial == Len(written) + Len(outgoing) + 1

(* User code is on top of the stack and may use the connection. *)
InUserCode ==
    \/ Runs("call", "body") \/ Runs("app", "body") \/ Runs("signal", "proxies")
    \/ Runs("signal", "free") /\ FreeHandlersCall

(* Mutant: send() on the dispatching thread only queues. *)
SendQueuesOnly(stk) ==
    \/ /\ valid
       /\ outgoing' = Append(outgoing, [from |-> "dispatcher", serial |-> NextSerial])
       /\ status' = "DATA_REMAINS"
       /\ stack' = stk
       /\ throwing' = FALSE
    \/ /\ ~valid
       /\ stack' = stk /\ throwing' = TRUE
       /\ UNCHANGED <<outgoing, status>>

(* Connection::send on the dispatching thread, from stack stk: queue the    *)
(* message, then notify_dispatcher_or_dispatch dispatches.                  *)
SendFrom(stk) ==
    \/ /\ valid
       /\ outgoing' = Append(outgoing, [from |-> "dispatcher", serial |-> NextSerial])
       /\ status' = "DATA_REMAINS"
       /\ stack' = Append(stk, DispatchFrame)
       /\ throwing' = FALSE
    \/ /\ ~valid                               \* throw ErrorDisconnected
       /\ stack' = stk /\ throwing' = TRUE
       /\ UNCHANGED <<outgoing, status>>

(* An answer to call i is sent, unless the send throws. *)
AnswerFrom(stk, i) ==
    /\ SendFrom(stk)
    /\ answers' = IF valid THEN [answers EXCEPT ![i] = @ + 1] ELSE answers
    /\ UNCHANGED <<valid, busVars, incoming, written, wake, dead, misread, started,
                   counters>>

-----------------------------------------------------------------------------
(* The dispatcher's loop *)

(* poll() of a StandaloneDispatcher, or the event loop's read notification. *)
Poll ==
    /\ ~dead /\ ~throwing /\ stack = <<>>
    /\ \/ Kind = "standalone" /\ wake > 0 /\ wake' = wake - 1
       \/ /\ valid /\ (fromBus # <<>> \/ closed)
          /\ wake' = IF wake > 0 THEN wake - 1 ELSE wake
    /\ stack' = <<DispatchFrame>>
    /\ UNCHANGED <<valid, busVars, incoming, outgoing, written, status, throwing,
                   dead, misread, started, answers, counters>>

(* With Qt and GLib the dispatching thread is the application's main        *)
(* thread: a timer or a widget may use the connection between dispatches.   *)
AppTask ==
    /\ ~dead /\ ~throwing /\ stack = <<>> /\ Kind = "fd" /\ sends < MaxSends
    /\ sends' = sends + 1
    /\ stack' = <<Frame("app", "body", 0)>>
    /\ UNCHANGED <<valid, busVars, incoming, outgoing, written, status, wake,
                   throwing, dead, misread, started, answers, arrived, blocks,
                   others>>

-----------------------------------------------------------------------------
(* Connection::dispatch *)

DispatchInvalid ==
    /\ Runs("dispatch", "flush") /\ ~valid
    /\ status' = "COMPLETE"
    /\ stack' = Front(stack)
    /\ UNCHANGED <<valid, busVars, incoming, outgoing, written, wake, throwing,
                   dead, misread, started, answers, counters>>

Flush ==
    /\ Runs("dispatch", "flush") /\ valid
    /\ written' = written \o outgoing
    /\ outgoing' = <<>>
    /\ valid' = (outgoing = <<>> \/ ~closed)
    /\ stack' = Moved("read")
    /\ UNCHANGED <<busVars, incoming, status, wake, throwing, dead, misread,
                   started, answers, counters>>

Read ==
    /\ Runs("dispatch", "read")
    /\ \/ /\ fromBus # <<>>
          /\ incoming' = Append(incoming, Head(fromBus))
          /\ fromBus' = Tail(fromBus)
          /\ UNCHANGED valid
       \/ /\ fromBus = <<>>
          /\ valid' = (valid /\ ~closed)
          /\ UNCHANGED <<incoming, fromBus>>
    /\ stack' = Moved("process")
    /\ UNCHANGED <<closed, toBus, outgoing, written, status, wake, throwing, dead,
                   misread, started, answers, counters>>

(* process_single_message: nothing to do, or a reply nobody expects. *)
ProcessNothing ==
    /\ Runs("dispatch", "process")
    /\ incoming # <<>> => Head(incoming).kind \in {"RETURN", "ERROR"}
    /\ incoming' = IF incoming = <<>> THEN incoming ELSE Tail(incoming)
    /\ stack' = Moved("finish")
    /\ UNCHANGED <<valid, busVars, outgoing, written, status, wake, throwing, dead,
                   misread, started, answers, counters>>

(* Mutant: the last message queued is processed first. *)
TakeLast(k) ==
    /\ Runs("dispatch", "process") /\ incoming # <<>>
    /\ Last(incoming).kind = k
    /\ incoming' = Front(incoming)
    /\ started' = Append(started, Last(incoming).id)

(* The front message is popped and handed on. *)
Take(k) ==
    /\ Runs("dispatch", "process") /\ incoming # <<>>
    /\ Head(incoming).kind = k
    /\ incoming' = Tail(incoming)
    /\ started' = Append(started, Head(incoming).id)

(* process_call_message: the object is called on this thread ... *)
ProcessCall ==
    /\ Take("CALL")
    /\ stack' = Append(Moved("finish"), Frame("call", "body", Head(incoming).id))
    /\ UNCHANGED <<valid, busVars, outgoing, written, status, wake, throwing, dead,
                   misread, answers, counters>>


(* ... or the library answers itself, from outside any try block: with an   *)
(* error, as there is no such object, interface or method, or for a         *)
(* standard interface ...                                                   *)
AnswerDirectly ==
    /\ Take("CALL")
    /\ LET i == Head(incoming).id IN
         /\ SendFrom(Append(Moved("finish"), Frame("call", "direct", i)))
         /\ answers' = IF valid THEN [answers EXCEPT ![i] = @ + 1] ELSE answers
    /\ UNCHANGED <<valid, busVars, written, wake, dead, misread, counters>>

(* ... Properties.Set sending PropertiesChanged first ...                   *)
SetProperty ==
    /\ Take("CALL")
    /\ SendFrom(Append(Moved("finish"), Frame("call", "setting", Head(incoming).id)))
    /\ UNCHANGED <<valid, busVars, written, wake, dead, misread, answers, counters>>

AnswerSet ==
    /\ Runs("call", "setting")
    /\ AnswerFrom(Moved("direct"), Top.id)

(* ... and the arguments of a Properties call are read outside any try      *)
(* block, too: those of other types throw ErrorInvalidTypecast.             *)
MisreadCall ==
    /\ Take("CALL")
    /\ stack' = Moved("finish") /\ throwing' = TRUE
    /\ misread' = misread \cup {Head(incoming).id}
    /\ UNCHANGED <<valid, busVars, outgoing, written, status, wake, dead, answers,
                   counters>>

(* m_freeProxySignalsLock, a std::mutex, is held by this thread itself. *)
FreeLockHeld == \E i \in DOMAIN stack : stack[i].op = "signal" /\ stack[i].at = "free"

(* process_signal_message runs the free handlers under that lock ... *)
ProcessSignal ==
    /\ ~FreeLockHeld
    /\ Take("SIGNAL")
    /\ stack' = Append(Moved("finish"), Frame("signal", "free", Head(incoming).id))
    /\ UNCHANGED <<valid, busVars, outgoing, written, status, wake, throwing, dead,
                   misread, answers, counters>>

(* ... and the handlers of object proxies after releasing it. *)
FreeHandlersDone ==
    /\ Runs("signal", "free")
    /\ stack' = Moved("proxies")
    /\ UNCHANGED <<valid, busVars, incoming, outgoing, written, status, wake,
                   throwing, dead, misread, started, answers, counters>>

(* Mutant: messages set aside do not count as remaining data. *)
FinishIgnoresIncoming ==
    /\ Runs("dispatch", "finish")
    /\ LET s == IF outgoing = <<>> THEN "COMPLETE" ELSE "DATA_REMAINS"
       IN /\ status' = s
          /\ stack' = IF Len(stack) = 1 /\ s = "DATA_REMAINS"
                      THEN <<DispatchFrame>> ELSE Front(stack)
    /\ UNCHANGED <<valid, busVars, incoming, outgoing, written, wake, throwing,
                   dead, misread, started, answers, counters>>

(* The status dispatch() leaves.  The dispatcher calls the outermost one    *)
(* again until it is COMPLETE; send() ignores that of a nested one.         *)
Finish ==
    /\ Runs("dispatch", "finish")
    /\ LET s == IF outgoing = <<>> /\ incoming = <<>> THEN "COMPLETE" ELSE "DATA_REMAINS"
       IN /\ status' = s
          /\ stack' = IF Len(stack) = 1 /\ s = "DATA_REMAINS"
                      THEN <<DispatchFrame>> ELSE Front(stack)
    /\ UNCHANGED <<valid, busVars, incoming, outgoing, written, wake, throwing,
                   dead, misread, started, answers, counters>>

-----------------------------------------------------------------------------
(* User code: methods, signal handlers, and tasks of the main thread *)

HandlerSend ==
    /\ InUserCode /\ sends < MaxSends
    /\ sends' = sends + 1
    /\ SendFrom(stack)
    /\ UNCHANGED <<valid, busVars, incoming, written, wake, dead, misread, started,
                   answers, arrived, blocks, others>>

(* send_with_reply_blocking on this thread: the call is written at once, in *)
(* front of whatever other threads have queued.                             *)
HandlerBlock ==
    /\ InUserCode /\ blocks < MaxBlocks
    /\ blocks' = blocks + 1
    /\ \/ /\ valid
          /\ written' = Append(written, [from |-> "dispatcher", serial |-> NextSerial])
          /\ toBus' = IF closed THEN toBus ELSE toBus \cup {NextSerial}
          /\ valid' = ~closed
          /\ stack' = Append(stack, Frame("block", "wait", NextSerial))
          /\ UNCHANGED throwing
       \/ /\ ~valid
          /\ throwing' = TRUE
          /\ UNCHANGED <<valid, toBus, written, stack>>
    /\ UNCHANGED <<closed, fromBus, incoming, outgoing, status, wake, dead, misread,
                   started, answers, arrived, sends, others>>

(* A message is read.  The expected answer ends the call, with an exception *)
(* for an error; anything else waits in the incoming queue.                 *)
BlockRead ==
    /\ Runs("block", "wait") /\ valid /\ fromBus # <<>>
    /\ fromBus' = Tail(fromBus)
    /\ LET m == Head(fromBus)
           mine == m.kind \in {"RETURN", "ERROR"} /\ m.id = Top.id
       IN /\ stack' = IF mine THEN Front(stack) ELSE stack
          /\ throwing' = (mine /\ m.kind = "ERROR")
          /\ incoming' = IF mine THEN incoming ELSE Append(incoming, m)
    /\ UNCHANGED <<valid, closed, toBus, outgoing, written, status, wake, dead,
                   misread, started, answers, counters>>

(* The end of the stream: readMessage returns no message, and what is       *)
(* logged of it, before the test, calls a virtual function of it.           *)
BlockEOF ==
    /\ Runs("block", "wait") /\ valid /\ fromBus = <<>> /\ closed
    /\ valid' = FALSE /\ dead' = TRUE
    /\ UNCHANGED <<busVars, incoming, outgoing, written, status, wake, stack,
                   throwing, misread, started, answers, counters>>

(* ErrorDisconnected, or ErrorNoReply when the time is up. *)
BlockThrow ==
    /\ Runs("block", "wait")
    /\ stack' = Front(stack) /\ throwing' = TRUE
    /\ UNCHANGED <<valid, busVars, incoming, outgoing, written, status, wake, dead,
                   misread, started, answers, counters>>

(* The method returns: its reply is sent inside the try block ... *)
MethodReturn ==
    /\ Runs("call", "body")
    /\ AnswerFrom(Moved("replying"), Top.id)

(* ... or throws, and the catch clause answers with an error. *)
MethodThrow ==
    /\ Runs("call", "body")
    /\ AnswerFrom(Moved("failing"), Top.id)

(* Mutant: handle_call_message reports Not_Handled after its reply, and     *)
(* send_error_on_handler_result answers again.                              *)
DoneNotHandled ==
    \/ /\ Runs("call", "replying")
       /\ AnswerFrom(Moved("direct"), Top.id)
    \/ /\ \/ Runs("call", "failing") \/ Runs("call", "direct")
          \/ Runs("signal", "proxies") \/ Runs("app", "body")
       /\ stack' = Front(stack)
       /\ UNCHANGED <<valid, busVars, incoming, outgoing, written, status, wake,
                      throwing, dead, misread, started, answers, counters>>

(* The answer's nested dispatch is over, or a handler or a task returns. *)
HandlerDone ==
    /\ \/ Runs("call", "replying") \/ Runs("call", "failing") \/ Runs("call", "direct")
       \/ Runs("signal", "proxies") \/ Runs("app", "body")
    /\ stack' = Front(stack)
    /\ UNCHANGED <<valid, busVars, incoming, outgoing, written, status, wake,
                   throwing, dead, misread, started, answers, counters>>

-----------------------------------------------------------------------------
(* Unwinding: throwing is TRUE and the frame on top sees the exception *)

Unwinds(o, ats) == ~dead /\ throwing /\ stack # <<>> /\ Top.op = o /\ Top.at \in ats

(* A frame without a handler goes. *)
UnwindFrame ==
    /\ \/ Unwinds("dispatch", {"flush", "read", "process", "finish"})
       \/ Unwinds("call", {"failing", "setting", "direct"})
    /\ stack' = Front(stack)
    /\ UNCHANGED <<valid, busVars, incoming, outgoing, written, status, wake,
                   throwing, dead, misread, started, answers, counters>>

(* The user's own code catches what the connection threw at it: a method    *)
(* may, a task of the main thread does.                                     *)
UserCatch ==
    /\ Unwinds("call", {"body"}) \/ Unwinds("app", {"body"})
    /\ throwing' = FALSE
    /\ UNCHANGED <<valid, busVars, incoming, outgoing, written, status, wake, stack,
                   dead, misread, started, answers, counters>>

(* Mutant: only ErrorInvalidTypecast is caught around signal handlers. *)
NoCatchAll ==
    /\ Unwinds("signal", {"free", "proxies"})
    /\ stack' = Front(stack)
    /\ UNCHANGED <<valid, busVars, incoming, outgoing, written, status, wake,
                   throwing, dead, misread, started, answers, counters>>

(* The catch clauses around the signal handlers: whatever one throws, or    *)
(* what it calls, the next handler is called.                               *)
SignalCatch ==
    /\ Unwinds("signal", {"free", "proxies"})
    /\ throwing' = FALSE
    /\ UNCHANGED <<valid, busVars, incoming, outgoing, written, status, wake, stack,
                   dead, misread, started, answers, counters>>

(* The catch clauses of handle_call_message, which cover the method and the *)
(* sending of its reply: an error is sent.                                  *)
CatchAndAnswer ==
    /\ Unwinds("call", {"body", "replying"})
    /\ AnswerFrom(Moved("failing"), Top.id)

(* Nothing caught it: it leaves the thread's function or the event loop. *)
Terminate ==
    /\ ~dead /\ throwing /\ stack = <<>>
    /\ dead' = TRUE
    /\ UNCHANGED <<valid, busVars, incoming, outgoing, written, status, wake, stack,
                   throwing, misread, started, answers, counters>>

-----------------------------------------------------------------------------
(* Other threads, and the bus (external) *)

(* Mutant: the dispatcher is not rung. *)
OtherSendSilent ==
    /\ ~dead /\ valid /\ others < MaxOther
    /\ others' = others + 1
    /\ outgoing' = Append(outgoing, [from |-> "other", serial |-> NextSerial])
    /\ status' = "DATA_REMAINS"
    /\ UNCHANGED <<valid, busVars, incoming, written, wake, stack, throwing, dead,
                   misread, started, answers, arrived, sends, blocks>>

(* send() from another thread (BlockingCall has its steps one by one): the  *)
(* signal m_needsDispatching has a listener only with StandaloneDispatcher. *)
OtherSend ==
    /\ ~dead /\ valid /\ others < MaxOther
    /\ others' = others + 1
    /\ outgoing' = Append(outgoing, [from |-> "other", serial |-> NextSerial])
    /\ status' = "DATA_REMAINS"
    /\ wake' = IF Kind = "standalone" THEN wake + 1 ELSE wake
    /\ UNCHANGED <<valid, busVars, incoming, written, stack, throwing, dead,
                   misread, started, answers, arrived, sends, blocks>>

BusMessage(k) ==
    /\ ~dead /\ ~closed /\ arrived < MaxIn
    /\ arrived' = arrived + 1
    /\ fromBus' = Append(fromBus, [kind |-> k, id |-> arrived + 1])
    /\ UNCHANGED <<valid, closed, toBus, incoming, outgoing, written, status, wake,
                   stack, throwing, dead, misread, started, answers, sends, blocks,
                   others>>

BusReply(s, k) ==
    /\ ~dead /\ ~closed /\ s \in toBus
    /\ toBus' = toBus \ {s}
    /\ fromBus' = Append(fromBus, [kind |-> k, id |-> s])
    /\ UNCHANGED <<valid, closed, incoming, outgoing, written, status, wake, stack,
                   throwing, dead, misread, started, answers, counters>>

BusClose ==
    /\ ~dead /\ ~closed
    /\ closed' = TRUE
    /\ UNCHANGED <<valid, fromBus, toBus, incoming, outgoing, written, status, wake,
                   stack, throwing, dead, misread, started, answers, counters>>

-----------------------------------------------------------------------------
DispatchStep ==
    \/ Poll \/ DispatchInvalid \/ Flush \/ Read \/ ProcessNothing \/ ProcessCall
    \/ AnswerDirectly \/ SetProperty \/ AnswerSet \/ MisreadCall \/ ProcessSignal
    \/ FreeHandlersDone \/ Finish \/ UnwindFrame \/ SignalCatch \/ CatchAndAnswer
    \/ Terminate

UserStep ==
    \/ HandlerSend \/ HandlerBlock \/ MethodReturn \/ MethodThrow \/ HandlerDone
    \/ UserCatch \/ BlockRead \/ BlockEOF \/ BlockThrow

BusStep ==
    \/ \E k \in {"CALL", "SIGNAL"} : BusMessage(k)
    \/ \E s \in Serials, k \in {"RETURN", "ERROR"} : BusReply(s, k)
    \/ BusClose

Next == DispatchStep \/ UserStep \/ AppTask \/ OtherSend \/ BusStep

Spec == Init /\ [][Next]_vars

(* The dispatching thread keeps running, handlers included: they end, and a *)
(* blocking call ends at the latest by its time-out.  Nothing is assumed of *)
(* the bus, of other threads or of the application's tasks.                 *)
FairSpec == Spec /\ WF_vars(DispatchStep \/ UserStep)

-----------------------------------------------------------------------------
(* Properties *)

(* Calls and signals are handed to their handlers in the order in which the *)
(* bus sent them, however dispatch() nests and whatever a blocking call on  *)
(* this thread reads before its answer and leaves in m_incomingMessages.    *)
ProcessedInOrder ==
    \A i, j \in DOMAIN started : i < j => started[i] < started[j]

(* Messages of one thread reach the socket in the order in which it sent    *)
(* them, although a blocking call of the dispatching thread does not go     *)
(* through m_outgoingMessages.                                              *)
SenderOrder ==
    LET all == written \o outgoing
    IN \A i, j \in DOMAIN all :
         (i < j /\ all[i].from = all[j].from) => all[i].serial < all[j].serial

(* A method call gets at most one answer, although its reply is sent inside *)
(* handle_call_message's try block and sending it may run other handlers:   *)
(* the only exception they let through while the bus is there is that of a  *)
(* Properties call whose arguments have other types.                        *)
AtMostOneAnswer == misread = {} => \A i \in Ids : answers[i] <= 1

(* Nothing ends the dispatching thread, and with it the program, but the    *)
(* loss of the bus and a Properties call whose arguments have other types:  *)
(* not what methods and signal handlers throw, nor blocking calls that time *)
(* out or return errors, in whatever way dispatches are nested.             *)
TerminatesOnlyOnDisconnect == dead => ~valid \/ misread # {}

(* A message set aside in m_incomingMessages is processed.                  *)
IncomingProcessed == (incoming # <<>>) ~> (incoming = <<>> \/ ~valid \/ dead)

(* What any thread queues is written. *)
OutgoingWritten == (outgoing # <<>>) ~> (outgoing = <<>> \/ ~valid \/ dead)


(* "This method, when called, will process at most one message"             *)
(* (connection.h:230): no message is handled inside the handling of another. *)
OneMessagePerDispatch ==
    Cardinality({i \in DOMAIN stack : stack[i].op \in {"call", "signal"}}) <= 1
=============================================================================
