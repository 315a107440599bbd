---------------------------- MODULE DispatchProofs ----------------------------
(***************************************************************************)
(* The order of messages, the answers to calls and the end of the          *)
(* dispatching thread, for any number of messages, sends, blocking calls   *)
(* and nested dispatches.  The properties rest on the shape of the stack   *)
(* (ShapeInv), on where each message is (OrderInv, SenderInv), on what an  *)
(* exception may meet on its way down (ThrowInv) and on which calls may    *)
(* have been answered (AnswerInv).                                         *)
(***************************************************************************)
EXTENDS Dispatch, TLAPS

Ops == {"dispatch", "call", "signal", "block", "app"}
Places == {"flush", "read", "process", "finish", "body", "replying", "failing",
           "setting", "direct", "free", "proxies", "wait"}
Frs == [op : Ops, at : Places, id : Nat]
Msgs == [kind : {"CALL", "SIGNAL", "RETURN", "ERROR"}, id : Nat]
Outs == [from : {"dispatcher", "other"}, serial : Nat]
Work(m) == m.kind \in {"CALL", "SIGNAL"}

(* User code, which the unwinding of an exception of the library ends at:   *)
(* it catches it, or the library does around it.                            *)
UserFrame(f) == f.op \in {"app", "signal"} \/ (f.op = "call" /\ f.at = "body")
UserTop(s) == s # <<>> /\ UserFrame(s[Len(s)])
(* A blocking call is on top, on user code; a call is handled in one frame. *)
BlockOnTop(s) ==
    \A i \in DOMAIN s : s[i].op = "block" => i = Len(s) /\ i > 1 /\ UserFrame(s[i - 1])
OneFramePerCall(s) ==
    \A i, j \in DOMAIN s : (i # j /\ s[i].op = "call" /\ s[j].op = "call") => s[i].id # s[j].id
Shape(s) == s \in Seq(Frs) /\ BlockOnTop(s) /\ OneFramePerCall(s)
(* The calls that are being handled, and those of them not yet answered:    *)
(* their method runs, or Properties.Set sends its signal.                   *)
Calls(s) == {s[i].id : i \in {j \in DOMAIN s : s[j].op = "call"}}
Unanswered == {"body", "setting"}
Pending(s) == {s[i].id : i \in {j \in DOMAIN s : s[j].op = "call" /\ s[j].at \in Unanswered}}
StartedIds == {started[k] : k \in DOMAIN started}
ShapeInv == Shape(stack) /\ Calls(stack) \subseteq StartedIds

(* What was started, what was set aside and what is on the socket are in    *)
(* the order of the bus.                                                    *)
Ordered(st, in, fb, n) ==
    /\ st \in Seq(Nat) /\ in \in Seq(Msgs) /\ fb \in Seq(Msgs) /\ n \in 0 .. MaxIn
    /\ \A i, j \in DOMAIN st : i < j => st[i] < st[j]
    /\ \A i \in DOMAIN st : st[i] \in 1 .. n
    /\ \A j \in DOMAIN in : Work(in[j]) =>
          /\ in[j].id \in 1 .. n
          /\ \A i \in DOMAIN st : st[i] < in[j].id
          /\ \A i \in DOMAIN in : (i < j /\ Work(in[i])) => in[i].id < in[j].id
    /\ \A j \in DOMAIN fb : Work(fb[j]) =>
          /\ fb[j].id \in 1 .. n
          /\ \A i \in DOMAIN st : st[i] < fb[j].id
          /\ \A i \in DOMAIN in : Work(in[i]) => in[i].id < fb[j].id
          /\ \A i \in DOMAIN fb : (i < j /\ Work(fb[i])) => fb[i].id < fb[j].id
OrderInv == Ordered(started, incoming, fromBus, arrived)

(* What one thread sends is written and queued in its order.                *)
Sending(w, o) ==
    /\ w \in Seq(Outs) /\ o \in Seq(Outs)
    /\ \A j \in DOMAIN w : w[j].serial <= Len(w) + Len(o)
    /\ \A j \in DOMAIN o : o[j].serial <= Len(w) + Len(o)
    /\ \A i, j \in DOMAIN w : (i < j /\ w[i].from = w[j].from) => w[i].serial < w[j].serial
    /\ \A i, j \in DOMAIN o : (i < j /\ o[i].from = o[j].from) => o[i].serial < o[j].serial
    /\ \A i \in DOMAIN w, j \in DOMAIN o : w[i].from = o[j].from => w[i].serial < o[j].serial
SenderInv == Sending(written, outgoing)
(* What the dispatching thread has queued is flushed before it does         *)
(* anything else.                                                           *)
FlushInv ==
    (valid /\ \E k \in DOMAIN outgoing : outgoing[k].from = "dispatcher") =>
        Runs("dispatch", "flush")

(* An exception starts in user code, or the connection has failed, or the   *)
(* arguments of a Properties call had other types.                          *)
Excused == (throwing /\ misread = {}) => (~valid \/ UserTop(stack))
ThrowInv == Excused /\ TerminatesOnlyOnDisconnect

AnswerInv ==
    /\ answers \in [Ids -> Nat]
    /\ \A i \in Ids : answers[i] > 0 => i \in StartedIds
    /\ AtMostOneAnswer
    /\ misread = {} => \A i \in Pending(stack) : answers[i] = 0

DispatchInv ==
    /\ ShapeInv /\ OrderInv /\ SenderInv /\ FlushInv /\ ThrowInv /\ AnswerInv

-----------------------------------------------------------------------------
(* The operations on the stack.                                             *)
LEMMA PushLemma ==
    ASSUME NEW s \in Seq(Frs), NEW f \in Frs
    PROVE /\ Append(s, f) \in Seq(Frs) /\ Append(s, f) # <<>>
          /\ Len(Append(s, f)) = Len(s) + 1
          /\ DOMAIN Append(s, f) = 1 .. Len(s) + 1
          /\ Append(s, f)[Len(s) + 1] = f
          /\ \A i \in DOMAIN s : i \in 1 .. Len(s) /\ Append(s, f)[i] = s[i]
  OBVIOUS
LEMMA PopLemma ==
    ASSUME NEW s \in Seq(Frs), s # <<>>
    PROVE /\ Front(s) \in Seq(Frs)
          /\ Len(Front(s)) = Len(s) - 1 /\ Len(s) \in Nat \ {0}
          /\ DOMAIN Front(s) = 1 .. Len(s) - 1
          /\ \A i \in 1 .. Len(s) - 1 : Front(s)[i] = s[i] /\ i \in DOMAIN s
<1>1. Len(s) \in Nat /\ Len(s) # 0 /\ DOMAIN s = 1 .. Len(s)
  OBVIOUS
<1>2. ASSUME NEW n \in Int, n <= Len(s), 0 <= n
      PROVE /\ SubSeq(s, 1, n) \in Seq(Frs) /\ Len(SubSeq(s, 1, n)) = n
            /\ \A i \in 1 .. n : SubSeq(s, 1, n)[i] = s[i]
  <2>1. SubSeq(s, 1, n) \in Seq(Frs)
    BY <1>2
  <2>2. Len(SubSeq(s, 1, n)) = n
    BY <1>2
  <2>3. \A i \in 1 .. n : SubSeq(s, 1, n)[i] = s[i]
    BY <1>2
  <2> QED
    BY <2>1, <2>2, <2>3
<1> QED
  BY <1>1, <1>2 DEF Front

LEMMA MoveLemma ==
    ASSUME NEW s \in Seq(Frs), s # <<>>, NEW a \in Places
    PROVE LET t == [s EXCEPT ![Len(s)].at = a]
          IN /\ t \in Seq(Frs) /\ t # <<>> /\ Len(t) = Len(s) /\ DOMAIN t = DOMAIN s
             /\ Len(s) \in DOMAIN s
             /\ t[Len(s)].op = s[Len(s)].op /\ t[Len(s)].id = s[Len(s)].id /\ t[Len(s)].at = a
             /\ \A i \in DOMAIN s : i # Len(s) => t[i] = s[i]
<1> DEFINE n == Len(s)
           r == [s[n] EXCEPT !.at = a]
           t == [s EXCEPT ![n].at = a]
<1>1. n \in DOMAIN s /\ DOMAIN s = 1 .. n /\ n \in Nat /\ s[n] \in Frs
  OBVIOUS
<1>2. r \in Frs /\ r.op = s[n].op /\ r.id = s[n].id /\ r.at = a
  BY <1>1 DEF Frs
<1>3. t = [s EXCEPT ![n] = r]
  OBVIOUS
<1> HIDE DEF r
<1> QED
  BY <1>1, <1>2, <1>3

LEMMA PopShape ==
    ASSUME NEW s, Shape(s), s # <<>>
    PROVE Shape(Front(s)) /\ Calls(Front(s)) \subseteq Calls(s) /\ Pending(Front(s)) \subseteq Pending(s)
<1> DEFINE t == Front(s)
<1>1. /\ s \in Seq(Frs) /\ t \in Seq(Frs) /\ DOMAIN t = 1 .. Len(s) - 1 /\ Len(s) \in Nat
      /\ \A i \in DOMAIN t : t[i] = s[i] /\ i \in DOMAIN s /\ i # Len(s)
  BY PopLemma DEF Shape
<1> HIDE DEF t
<1>2. BlockOnTop(t)
  BY <1>1 DEF BlockOnTop, Shape
<1>3. OneFramePerCall(t)
  BY <1>1 DEF OneFramePerCall, Shape
<1>4. Calls(t) \subseteq Calls(s) /\ Pending(t) \subseteq Pending(s)
  BY <1>1 DEF Calls, Pending
<1> QED
  BY <1>1, <1>2, <1>3, <1>4 DEF Shape, t

LEMMA MoveShape ==
    ASSUME NEW s, Shape(s), s # <<>>, NEW a \in Places \ Unanswered,
           s[Len(s)].op # "block"
    PROVE LET t == [s EXCEPT ![Len(s)].at = a]
          IN /\ Shape(t) /\ t # <<>> /\ Len(t) = Len(s)
             /\ t[Len(s)].op = s[Len(s)].op /\ t[Len(s)].at = a /\ t[Len(s)].id = s[Len(s)].id
             /\ Calls(t) \subseteq Calls(s)
             /\ Pending(t) \subseteq Pending(s)
             /\ s[Len(s)].op = "call" => s[Len(s)].id \in Calls(s) \ Pending(t)
<1> DEFINE t == [s EXCEPT ![Len(s)].at = a]
<1>1. /\ s \in Seq(Frs) /\ t \in Seq(Frs) /\ t # <<>> /\ DOMAIN t = DOMAIN s /\ Len(t) = Len(s)
      /\ Len(s) \in DOMAIN s /\ DOMAIN s = 1 .. Len(s) /\ Len(s) \in Nat
      /\ t[Len(s)].op = s[Len(s)].op /\ t[Len(s)].at = a /\ t[Len(s)].id = s[Len(s)].id
      /\ \A i \in DOMAIN s : i # Len(s) => t[i] = s[i]
  BY MoveLemma DEF Shape
<1> HIDE DEF t
<1>2. BlockOnTop(t)
  BY <1>1 DEF BlockOnTop, Shape
<1>3. OneFramePerCall(t)
  BY <1>1 DEF OneFramePerCall, Shape
<1>4. Calls(t) \subseteq Calls(s) /\ Pending(t) \subseteq Pending(s)
  BY <1>1 DEF Calls, Pending
<1>5. s[Len(s)].op = "call" => s[Len(s)].id \in Calls(s)
  BY <1>1 DEF Calls
<1>6. s[Len(s)].op = "call" => s[Len(s)].id \notin Pending(t)
  BY <1>1, <1>3 DEF Pending, OneFramePerCall
<1> QED
  BY <1>1, <1>2, <1>3, <1>4, <1>5, <1>6 DEF Shape, t

LEMMA PushShape ==
    ASSUME NEW s, Shape(s), NEW f \in Frs,
           s # <<>> => s[Len(s)].op # "block",
           f.op = "block" => UserTop(s),
           f.op = "call" => f.id \notin Calls(s)
    PROVE /\ Shape(Append(s, f))
          /\ Append(s, f) # <<>> /\ Append(s, f)[Len(Append(s, f))] = f
          /\ Calls(Append(s, f)) \subseteq Calls(s) \cup (IF f.op = "call" THEN {f.id} ELSE {})
          /\ Pending(Append(s, f)) \subseteq
                Pending(s) \cup (IF f.op = "call" /\ f.at \in Unanswered THEN {f.id} ELSE {})
<1> DEFINE t == Append(s, f)
<1>1. /\ s \in Seq(Frs) /\ t \in Seq(Frs) /\ Len(t) = Len(s) + 1 /\ DOMAIN t = 1 .. Len(s) + 1
      /\ t[Len(s) + 1] = f /\ DOMAIN s = 1 .. Len(s) /\ Len(s) \in Nat
      /\ \A i \in 1 .. Len(s) : t[i] = s[i]
  BY PushLemma DEF Shape
<1> HIDE DEF t
<1>2. BlockOnTop(t)
  <2> SUFFICES ASSUME NEW i \in DOMAIN t, t[i].op = "block"
               PROVE i = Len(t) /\ i > 1 /\ UserFrame(t[i - 1])
    BY DEF BlockOnTop
  <2>1. CASE i = Len(s) + 1
    <3>1. s # <<>> /\ UserFrame(s[Len(s)])
      BY <1>1, <2>1 DEF UserTop
    <3>2. Len(s) # 0 /\ t[i - 1] = s[Len(s)]
      BY <1>1, <2>1, <3>1
    <3> QED
      BY <1>1, <2>1, <3>1, <3>2
  <2>2. CASE i # Len(s) + 1
    <3>1. i \in DOMAIN s /\ s[i].op = "block" /\ s # <<>>
      BY <1>1, <2>2
    <3>2. i = Len(s)
      BY <3>1 DEF Shape, BlockOnTop
    <3> QED
      BY <3>1, <3>2
  <2> QED
    BY <2>1, <2>2
<1>3. OneFramePerCall(t)
  BY <1>1 DEF OneFramePerCall, Shape, Calls
<1>5. t # <<>> /\ t[Len(t)] = f
  BY <1>1
<1>6. Calls(t) \subseteq Calls(s) \cup (IF f.op = "call" THEN {f.id} ELSE {})
  BY <1>1 DEF Calls
<1>7. Pending(t) \subseteq Pending(s) \cup (IF f.op = "call" /\ f.at \in Unanswered THEN {f.id} ELSE {})
  BY <1>1 DEF Pending
<1> QED
  BY <1>1, <1>2, <1>3, <1>5, <1>6, <1>7 DEF Shape, t

-----------------------------------------------------------------------------
(* The operations on the queue of messages to process.                      *)
LEMMA TailLemma ==
    ASSUME NEW s \in Seq(Msgs), s # <<>>
    PROVE /\ Head(s) \in Msgs /\ Head(s) = s[1] /\ 1 \in DOMAIN s /\ Tail(s) \in Seq(Msgs)
          /\ \A i \in DOMAIN Tail(s) : i \in Nat /\ i > 0 /\ i + 1 \in DOMAIN s /\ Tail(s)[i] = s[i + 1]
  OBVIOUS
LEMMA DropOrder ==
    ASSUME NEW st, NEW in, NEW fb, NEW n, Ordered(st, in, fb, n), in # <<>>
    PROVE Ordered(st, Tail(in), fb, n)
<1> DEFINE t == Tail(in)
<1>1. t \in Seq(Msgs) /\ \A i \in DOMAIN t : i \in Nat /\ i + 1 \in DOMAIN in /\ t[i] = in[i + 1]
  BY TailLemma DEF Ordered
<1> HIDE DEF t
<1> QED
  BY <1>1 DEF Ordered, t
LEMMA SkipOrder ==
    ASSUME NEW st, NEW in, NEW fb, NEW n, Ordered(st, in, fb, n), fb # <<>>
    PROVE Ordered(st, in, Tail(fb), n)
<1> DEFINE t == Tail(fb)
<1>1. t \in Seq(Msgs) /\ \A i \in DOMAIN t : i \in Nat /\ i + 1 \in DOMAIN fb /\ t[i] = fb[i + 1]
  BY TailLemma DEF Ordered
<1> HIDE DEF t
<1> QED
  BY <1>1 DEF Ordered, t
LEMMA TakeOrder ==
    ASSUME NEW st, NEW in, NEW fb, NEW n, Ordered(st, in, fb, n), in # <<>>, Work(Head(in))
    PROVE /\ Ordered(Append(st, Head(in).id), Tail(in), fb, n)
          /\ Head(in).id \in 1 .. n /\ \A k \in DOMAIN st : st[k] # Head(in).id
<1> DEFINE t == Tail(in)
           u == Append(st, Head(in).id)
<1>1. /\ Head(in) \in Msgs /\ Head(in) = in[1] /\ 1 \in DOMAIN in
      /\ t \in Seq(Msgs)
      /\ \A i \in DOMAIN t : i \in Nat /\ i > 0 /\ i + 1 \in DOMAIN in /\ t[i] = in[i + 1]
  BY TailLemma DEF Ordered
<1>2. Head(in).id \in Nat /\ st \in Seq(Nat) /\ Len(st) \in Nat
  BY <1>1 DEF Msgs, Ordered
<1>3. /\ u \in Seq(Nat) /\ DOMAIN u = 1 .. Len(st) + 1 /\ DOMAIN st = 1 .. Len(st)
      /\ u[Len(st) + 1] = Head(in).id /\ \A i \in DOMAIN st : u[i] = st[i]
  BY <1>2
<1>4. Head(in).id \in 1 .. n /\ \A k \in DOMAIN st : st[k] < Head(in).id /\ st[k] \in Nat
  BY <1>1, <1>2 DEF Ordered
<1>5. Ordered(st, t, fb, n)
  BY DropOrder
<1> HIDE DEF t, u
<1>6. \A i, j \in DOMAIN u : i < j => u[i] < u[j]
  <2>1. \A i, j \in DOMAIN st : i < j => st[i] < st[j]
    BY DEF Ordered
  <2> SUFFICES ASSUME NEW i \in DOMAIN u, NEW j \in DOMAIN u, i < j PROVE u[i] < u[j]
    OBVIOUS
  <2>2. CASE j = Len(st) + 1
    BY <1>2, <1>3, <1>4, <2>2
  <2>3. CASE j # Len(st) + 1
    <3>1. i \in DOMAIN st /\ j \in DOMAIN st
      BY <1>2, <1>3, <2>3
    <3> QED
      BY <1>3, <2>1, <3>1
  <2> QED
    BY <2>2, <2>3
<1>7. ASSUME NEW j \in DOMAIN t, Work(t[j]), NEW i \in DOMAIN u PROVE u[i] < t[j].id
  <2>1. j + 1 \in DOMAIN in /\ t[j] = in[j + 1] /\ 1 < j + 1 /\ Work(in[j + 1])
    BY <1>1, <1>7
  <2>2. in[1].id < in[j + 1].id /\ \A k \in DOMAIN st : st[k] < in[j + 1].id
    BY <1>1, <2>1 DEF Ordered
  <2>3. CASE i = Len(st) + 1
    BY <1>1, <1>3, <2>1, <2>2, <2>3
  <2>4. CASE i # Len(st) + 1
    <3>1. i \in DOMAIN st /\ u[i] = st[i]
      BY <1>2, <1>3, <2>4
    <3> QED
      BY <2>1, <2>2, <3>1
  <2> QED
    BY <2>3, <2>4
<1>8. ASSUME NEW j \in DOMAIN fb, Work(fb[j]), NEW i \in DOMAIN u PROVE u[i] < fb[j].id
  <2>1. in[1].id < fb[j].id /\ \A k \in DOMAIN st : st[k] < fb[j].id
    BY <1>1, <1>8 DEF Ordered
  <2>2. CASE i = Len(st) + 1
    BY <1>1, <1>3, <2>1, <2>2
  <2>3. CASE i # Len(st) + 1
    <3>1. i \in DOMAIN st /\ u[i] = st[i]
      BY <1>2, <1>3, <2>3
    <3> QED
      BY <2>1, <3>1
  <2> QED
    BY <2>2, <2>3
<1>9. Ordered(u, t, fb, n)
  <2>1. \A i \in DOMAIN u : u[i] \in 1 .. n
    <3>1. \A i \in DOMAIN st : st[i] \in 1 .. n
      BY DEF Ordered
    <3> QED
      BY <1>2, <1>3, <1>4, <3>1
  <2> QED
    BY <1>3, <1>5, <1>6, <1>7, <1>8, <2>1 DEF Ordered
<1>10. \A k \in DOMAIN st : st[k] # Head(in).id
  BY <1>2, <1>4
<1> QED
  BY <1>4, <1>9, <1>10 DEF t, u
LEMMA ReadOrder ==
    ASSUME NEW st, NEW in, NEW fb, NEW n, Ordered(st, in, fb, n), fb # <<>>
    PROVE Ordered(st, Append(in, Head(fb)), Tail(fb), n)
<1> DEFINE t == Tail(fb)
           u == Append(in, Head(fb))
<1>1. /\ Head(fb) \in Msgs /\ Head(fb) = fb[1] /\ 1 \in DOMAIN fb
      /\ t \in Seq(Msgs)
      /\ \A i \in DOMAIN t : i \in Nat /\ i > 0 /\ i + 1 \in DOMAIN fb /\ t[i] = fb[i + 1]
  BY TailLemma DEF Ordered
<1>2. in \in Seq(Msgs) /\ Len(in) \in Nat
  BY DEF Ordered
<1>3. /\ u \in Seq(Msgs) /\ DOMAIN u = 1 .. Len(in) + 1 /\ DOMAIN in = 1 .. Len(in)
      /\ u[Len(in) + 1] = fb[1] /\ \A i \in DOMAIN in : u[i] = in[i]
  BY <1>1, <1>2
<1>4. Ordered(st, in, t, n)
  BY SkipOrder
<1> HIDE DEF t, u
<1>5. ASSUME NEW j \in DOMAIN u, Work(u[j])
      PROVE /\ u[j].id \in 1 .. n
            /\ \A i \in DOMAIN st : st[i] < u[j].id
            /\ \A i \in DOMAIN u : (i < j /\ Work(u[i])) => u[i].id < u[j].id
  <2>1. CASE j = Len(in) + 1
    <3>1. /\ fb[1].id \in 1 .. n /\ \A i \in DOMAIN st : st[i] < fb[1].id
          /\ \A i \in DOMAIN in : Work(in[i]) => in[i].id < fb[1].id
      BY <1>1, <1>3, <1>5, <2>1 DEF Ordered
    <3> QED
      BY <1>2, <1>3, <2>1, <3>1
  <2>2. CASE j # Len(in) + 1
    <3>1. j \in DOMAIN in /\ u[j] = in[j] /\ \A i \in DOMAIN u : i < j => i \in DOMAIN in /\ u[i] = in[i]
      BY <1>2, <1>3, <2>2
    <3> QED
      BY <1>5, <3>1 DEF Ordered
  <2> QED
    BY <2>1, <2>2
<1>6. ASSUME NEW j \in DOMAIN t, Work(t[j]), NEW i \in DOMAIN u, Work(u[i]) PROVE u[i].id < t[j].id
  <2>1. j + 1 \in DOMAIN fb /\ t[j] = fb[j + 1] /\ 1 < j + 1 /\ Work(fb[j + 1])
    BY <1>1, <1>6
  <2>2. CASE i = Len(in) + 1
    BY <1>1, <1>3, <1>6, <2>1, <2>2 DEF Ordered
  <2>3. CASE i # Len(in) + 1
    <3>1. i \in DOMAIN in /\ u[i] = in[i]
      BY <1>2, <1>3, <2>3
    <3> QED
      BY <1>6, <2>1, <3>1 DEF Ordered
  <2> QED
    BY <2>2, <2>3
<1> QED
  BY <1>3, <1>4, <1>5, <1>6 DEF Ordered, t, u
LEMMA ArriveOrder ==
    ASSUME NEW st, NEW in, NEW fb, NEW n, Ordered(st, in, fb, n), NEW m \in Msgs,
           NEW p \in 0 .. MaxIn,
           Work(m) => p = n + 1 /\ m.id = p, ~Work(m) => p = n
    PROVE Ordered(st, in, Append(fb, m), p)
<1> DEFINE u == Append(fb, m)
<1>1. fb \in Seq(Msgs) /\ Len(fb) \in Nat /\ n \in Nat /\ p \in Nat /\ m.id \in Nat
  BY DEF Ordered, Msgs
<1>2. /\ u \in Seq(Msgs) /\ DOMAIN u = 1 .. Len(fb) + 1 /\ DOMAIN fb = 1 .. Len(fb)
      /\ u[Len(fb) + 1] = m /\ \A i \in DOMAIN fb : u[i] = fb[i]
  BY <1>1
<1> HIDE DEF u
<1>3. \A i \in 1 .. n : i \in 1 .. p
  BY <1>1
<1>4. ASSUME NEW j \in DOMAIN u, Work(u[j])
      PROVE /\ u[j].id \in 1 .. p
            /\ \A i \in DOMAIN st : st[i] < u[j].id
            /\ \A i \in DOMAIN in : Work(in[i]) => in[i].id < u[j].id
            /\ \A i \in DOMAIN u : (i < j /\ Work(u[i])) => u[i].id < u[j].id
  <2>1. CASE j = Len(fb) + 1
    <3>1. u[j] = m /\ p = n + 1 /\ m.id = p
      BY <1>2, <1>4, <2>1
    <3>2. \A i \in DOMAIN u : i < j => i \in DOMAIN fb /\ u[i] = fb[i]
      BY <1>1, <1>2, <2>1
    <3>3. /\ \A i \in DOMAIN st : st[i] \in 1 .. n
          /\ \A i \in DOMAIN in : Work(in[i]) => in[i].id \in 1 .. n
          /\ \A i \in DOMAIN fb : Work(fb[i]) => fb[i].id \in 1 .. n
      BY DEF Ordered
    <3> QED
      BY <1>1, <3>1, <3>2, <3>3
  <2>2. CASE j # Len(fb) + 1
    <3>1. j \in DOMAIN fb /\ u[j] = fb[j] /\ \A i \in DOMAIN u : i < j => i \in DOMAIN fb /\ u[i] = fb[i]
      BY <1>1, <1>2, <2>2
    <3>2. fb[j].id \in 1 .. n
      BY <1>4, <3>1 DEF Ordered
    <3> QED
      BY <1>3, <1>4, <3>1, <3>2 DEF Ordered
  <2> QED
    BY <2>1, <2>2
<1>5. \A j \in DOMAIN in : Work(in[j]) => in[j].id \in 1 .. p
  BY <1>3 DEF Ordered
<1>6. \A i \in DOMAIN st : st[i] \in 1 .. p
  BY <1>3 DEF Ordered
<1> QED
  BY <1>2, <1>4, <1>5, <1>6 DEF Ordered, u

(* What a step does to the messages to process.                             *)
BusTypes == MaxIn \in Nat /\ \A i \in Serials : i \in Nat
LEMMA Constants == BusTypes
  BY DispatchAssumption DEF BusTypes, Serials

KeepsOrder == UNCHANGED <<started, incoming, fromBus, arrived>>
LEMMA OrderStep ==
    ASSUME OrderInv, [Next]_vars PROVE OrderInv'
<1>1. CASE Read
  <2>1. \/ fromBus # <<>> /\ incoming' = Append(incoming, Head(fromBus)) /\ fromBus' = Tail(fromBus)
        \/ incoming' = incoming /\ fromBus' = fromBus
    BY <1>1 DEF Read
  <2>2. started' = started /\ arrived' = arrived
    BY <1>1 DEF Read, counters
  <2> QED
    BY <2>1, <2>2, ReadOrder DEF OrderInv
<1>2. CASE ProcessNothing
  <2>1. incoming' = incoming \/ (incoming # <<>> /\ incoming' = Tail(incoming))
    BY <1>2 DEF ProcessNothing
  <2>2. started' = started /\ arrived' = arrived /\ fromBus' = fromBus
    BY <1>2 DEF ProcessNothing, counters, busVars
  <2> QED
    BY <2>1, <2>2, DropOrder DEF OrderInv
<1>3. CASE ProcessCall \/ AnswerDirectly \/ SetProperty \/ MisreadCall \/ ProcessSignal
  <2>1. /\ incoming # <<>> /\ Work(Head(incoming))
        /\ incoming' = Tail(incoming) /\ started' = Append(started, Head(incoming).id)
    BY <1>3 DEF ProcessCall, AnswerDirectly, SetProperty, MisreadCall, ProcessSignal, Take, Work
  <2>2. arrived' = arrived /\ fromBus' = fromBus
    BY <1>3 DEF ProcessCall, AnswerDirectly, SetProperty, MisreadCall, ProcessSignal, counters, busVars
  <2> QED
    BY <2>1, <2>2, TakeOrder DEF OrderInv
<1>4. CASE BlockRead
  <2>1. fromBus # <<>> /\ fromBus' = Tail(fromBus)
        /\ (incoming' = incoming \/ incoming' = Append(incoming, Head(fromBus)))
    BY <1>4 DEF BlockRead
  <2>2. started' = started /\ arrived' = arrived
    BY <1>4 DEF BlockRead, counters
  <2> QED
    BY <2>1, <2>2, ReadOrder, SkipOrder DEF OrderInv
<1>5. ASSUME NEW k \in {"CALL", "SIGNAL"}, BusMessage(k) PROVE OrderInv'
  <2> DEFINE m == [kind |-> k, id |-> arrived + 1]
  <2>1. arrived \in 0 .. MaxIn /\ MaxIn \in Nat
    BY Constants DEF OrderInv, Ordered, BusTypes
  <2>2. m \in Msgs /\ Work(m) /\ m.id = arrived + 1
    BY <2>1 DEF Msgs, Work
  <2>3. /\ arrived' = arrived + 1 /\ arrived' \in 0 .. MaxIn /\ fromBus' = Append(fromBus, m)
        /\ started' = started /\ incoming' = incoming
    BY <1>5, <2>1 DEF BusMessage
  <2> HIDE DEF m
  <2> QED
    BY <2>2, <2>3, ArriveOrder DEF OrderInv
<1>6. ASSUME NEW s \in Serials, NEW k \in {"RETURN", "ERROR"}, BusReply(s, k) PROVE OrderInv'
  <2> DEFINE m == [kind |-> k, id |-> s]
  <2>1. m \in Msgs /\ ~Work(m) /\ arrived \in 0 .. MaxIn
    BY Constants DEF Msgs, Work, BusTypes, OrderInv, Ordered
  <2>2. /\ arrived' = arrived /\ fromBus' = Append(fromBus, m)
        /\ started' = started /\ incoming' = incoming
    BY <1>6 DEF BusReply, counters
  <2> HIDE DEF m
  <2> QED
    BY <2>1, <2>2, ArriveOrder DEF OrderInv
<1>7. CASE KeepsOrder
  BY <1>7 DEF OrderInv, KeepsOrder
<1>8. KeepsOrder \/ Read \/ ProcessNothing \/ BlockRead
        \/ ProcessCall \/ AnswerDirectly \/ SetProperty \/ MisreadCall \/ ProcessSignal
        \/ (\E k \in {"CALL", "SIGNAL"} : BusMessage(k))
        \/ (\E s \in Serials, k \in {"RETURN", "ERROR"} : BusReply(s, k))
  <2>1. (Poll \/ DispatchInvalid \/ Flush \/ FreeHandlersDone \/ Finish \/ UnwindFrame) => KeepsOrder
    BY DEF Poll, DispatchInvalid, Flush, FreeHandlersDone, Finish, UnwindFrame, KeepsOrder, busVars, counters
  <2>2. (CatchAndAnswer \/ MethodReturn \/ MethodThrow \/ AnswerSet) => KeepsOrder
    BY DEF CatchAndAnswer, MethodReturn, MethodThrow, AnswerSet, AnswerFrom, KeepsOrder, busVars, counters
  <2>3. (Terminate \/ HandlerSend \/ HandlerBlock \/ HandlerDone \/ SignalCatch \/ UserCatch) => KeepsOrder
    BY DEF Terminate, HandlerSend, HandlerBlock, HandlerDone, SignalCatch, UserCatch, KeepsOrder, busVars, counters
  <2>4. (BlockEOF \/ BlockThrow \/ AppTask \/ OtherSend \/ BusClose \/ UNCHANGED vars) => KeepsOrder
    BY DEF BlockEOF, BlockThrow, AppTask, OtherSend, BusClose, vars, KeepsOrder, busVars, counters
  <2> QED
    BY <2>1, <2>2, <2>3, <2>4 DEF Next, DispatchStep, UserStep, BusStep
<1> QED
  BY <1>1, <1>2, <1>3, <1>4, <1>5, <1>6, <1>7, <1>8

-----------------------------------------------------------------------------
(* What a step does to the stack.                                           *)
LEMMA FrameTypes ==
    /\ DispatchFrame \in Frs /\ DispatchFrame.op = "dispatch" /\ DispatchFrame.at = "flush"
    /\ \A o \in Ops, a \in Places, i \in Nat :
          Frame(o, a, i) \in Frs /\ Frame(o, a, i).op = o /\ Frame(o, a, i).at = a /\ Frame(o, a, i).id = i
  BY DEF DispatchFrame, Frame, Frs, Ops, Places
LEMMA EmptyShape ==
    Shape(<<>>) /\ Calls(<<>>) = {} /\ Pending(<<>>) = {}
  BY DEF Shape, BlockOnTop, OneFramePerCall, Calls, Pending
(* The stack s may get another frame.                                       *)
Open(s) == s # <<>> => s[Len(s)].op # "block"
LEMMA SendShape ==
    ASSUME NEW s, Shape(s), Open(s), SendFrom(s)
    PROVE /\ Shape(stack') /\ Calls(stack') \subseteq Calls(s) /\ Pending(stack') \subseteq Pending(s)
          /\ valid => throwing' = FALSE /\ stack' # <<>> /\ stack'[Len(stack')] = DispatchFrame
          /\ ~valid => throwing' = TRUE /\ stack' = s /\ UNCHANGED outgoing
<1>1. CASE valid
  <2>1. stack' = Append(s, DispatchFrame) /\ throwing' = FALSE
    BY <1>1 DEF SendFrom
  <2>2. DispatchFrame \in Frs /\ DispatchFrame.op = "dispatch"
    BY FrameTypes
  <2>3. /\ Shape(Append(s, DispatchFrame))
        /\ Append(s, DispatchFrame) # <<>>
        /\ Append(s, DispatchFrame)[Len(Append(s, DispatchFrame))] = DispatchFrame
        /\ Calls(Append(s, DispatchFrame)) \subseteq Calls(s)
        /\ Pending(Append(s, DispatchFrame)) \subseteq Pending(s)
    BY <2>2, PushShape DEF Open
  <2> QED
    BY <1>1, <2>1, <2>3
<1>2. CASE ~valid
  BY <1>2 DEF SendFrom
<1> QED
  BY <1>1, <1>2

(* What runs is on top, and user code may push a frame.                     *)
LEMMA RunsTop ==
    /\ \A o, a : Runs(o, a) => stack # <<>> /\ stack[Len(stack)].op = o /\ stack[Len(stack)].at = a
    /\ InUserCode => stack # <<>> /\ UserTop(stack) /\ Open(stack)
  BY DEF Runs, Top, Last, InUserCode, UserTop, UserFrame, Open
(* The frame on top goes on to another place.                               *)
LEMMA MovedShape ==
    ASSUME ShapeInv, NEW o \in Ops \ {"block"}, NEW a \in Places \ Unanswered,
           stack # <<>>, stack[Len(stack)].op = o
    PROVE /\ Shape(Moved(a)) /\ Open(Moved(a)) /\ Moved(a) # <<>>
          /\ Calls(Moved(a)) \subseteq Calls(stack) /\ Pending(Moved(a)) \subseteq Pending(stack)
          /\ o = "call" => stack[Len(stack)].id \in Calls(stack) \ Pending(Moved(a))
          /\ Moved(a)[Len(Moved(a))].op = o /\ Moved(a)[Len(Moved(a))].at = a
<1> DEFINE t == [stack EXCEPT ![Len(stack)].at = a]
<1>1. /\ Shape(t) /\ t # <<>> /\ Len(t) = Len(stack)
      /\ t[Len(stack)].op = stack[Len(stack)].op /\ t[Len(stack)].at = a
      /\ Calls(t) \subseteq Calls(stack) /\ Pending(t) \subseteq Pending(stack)
      /\ o = "call" => stack[Len(stack)].id \in Calls(stack) \ Pending(t)
  BY MoveShape DEF ShapeInv
<1>2. Moved(a) = t
  BY DEF Moved
<1> HIDE DEF t
<1> QED
  BY <1>1, <1>2 DEF Open
(* A message is taken that was not started.                                 *)
LEMMA TakeFacts ==
    ASSUME OrderInv, NEW k \in {"CALL", "SIGNAL"}, Take(k)
    PROVE /\ Head(incoming).id \in Ids \ StartedIds /\ Head(incoming).id \in Nat
          /\ StartedIds' = StartedIds \cup {Head(incoming).id}
          /\ stack # <<>> /\ stack[Len(stack)].op = "dispatch"
<1>1. incoming # <<>> /\ Work(Head(incoming)) /\ started' = Append(started, Head(incoming).id)
  BY DEF Take, Work
<1>2. /\ Head(incoming).id \in 1 .. arrived /\ arrived \in 0 .. MaxIn /\ started \in Seq(Nat)
      /\ \A n \in DOMAIN started : started[n] # Head(incoming).id
  BY <1>1, TakeOrder DEF OrderInv, Ordered
<1>3. Head(incoming).id \in Ids \ StartedIds /\ Head(incoming).id \in Nat
  BY <1>2, Constants DEF Ids, StartedIds, BusTypes
<1>4. StartedIds' = StartedIds \cup {Head(incoming).id}
  <2> DEFINE u == Append(started, Head(incoming).id)
  <2>1. /\ DOMAIN u = 1 .. Len(started) + 1 /\ DOMAIN started = 1 .. Len(started) /\ Len(started) \in Nat
        /\ u[Len(started) + 1] = Head(incoming).id /\ \A n \in DOMAIN started : u[n] = started[n]
    BY <1>2, <1>3
  <2> HIDE DEF u
  <2>2. {u[n] : n \in DOMAIN u} = {started[n] : n \in DOMAIN started} \cup {Head(incoming).id}
    BY <2>1
  <2> QED
    BY <1>1, <2>2 DEF StartedIds, u
<1> QED
  BY <1>3, <1>4, RunsTop DEF Take

(* The frames of a step: a call becomes pending only by ProcessCall and     *)
(* SetProperty.                                                             *)
KeepsFrames == Shape(stack') /\ Calls(stack') \subseteq StartedIds' /\ Pending(stack') \subseteq Pending(stack)
LEMMA Started == started' = started => StartedIds' = StartedIds
  BY DEF StartedIds
(* An answer is sent from the frame on top, which goes on to another place. *)
LEMMA AnswerShape ==
    ASSUME ShapeInv, NEW a \in {"replying", "failing", "direct"}, stack # <<>>,
           stack[Len(stack)].op = "call", AnswerFrom(Moved(a), Top.id)
    PROVE /\ KeepsFrames /\ Top.id \in Calls(stack) \ Pending(stack') /\ Top.id \in StartedIds
          /\ valid => throwing' = FALSE
<1>1. /\ Shape(Moved(a)) /\ Open(Moved(a))
      /\ Calls(Moved(a)) \subseteq Calls(stack) /\ Pending(Moved(a)) \subseteq Pending(stack)
      /\ stack[Len(stack)].id \in Calls(stack) \ Pending(Moved(a))
  BY MovedShape DEF Ops, Places, Unanswered
<1>2. SendFrom(Moved(a)) /\ started' = started
  BY DEF AnswerFrom
<1>3. /\ Shape(stack') /\ Calls(stack') \subseteq Calls(Moved(a)) /\ Pending(stack') \subseteq Pending(Moved(a))
      /\ valid => throwing' = FALSE
  BY <1>1, <1>2, SendShape
<1>4. StartedIds' = StartedIds /\ Top.id = stack[Len(stack)].id
  BY <1>2, Started DEF Top, Last
<1> QED
  BY <1>1, <1>3, <1>4 DEF KeepsFrames, ShapeInv

(* A call that was not started is taken, and handled in a frame of its own. *)
CallStack(a) == Append(Moved("finish"), Frame("call", a, Head(incoming).id))
LEMMA CallShape ==
    ASSUME OrderInv, ShapeInv, Take("CALL"), NEW a \in {"body", "setting", "direct"}
    PROVE /\ Shape(CallStack(a)) /\ Open(CallStack(a))
          /\ Calls(CallStack(a)) \subseteq StartedIds'
          /\ Pending(CallStack(a)) \subseteq
                Pending(stack) \cup (IF a = "direct" THEN {} ELSE {Head(incoming).id})
<1> DEFINE f == Frame("call", a, Head(incoming).id)
           t == Moved("finish")
<1>1. /\ Head(incoming).id \in Ids \ StartedIds /\ Head(incoming).id \in Nat
      /\ StartedIds' = StartedIds \cup {Head(incoming).id}
      /\ stack # <<>> /\ stack[Len(stack)].op = "dispatch"
  BY TakeFacts
<1>2. Shape(t) /\ Open(t) /\ Calls(t) \subseteq Calls(stack) /\ Pending(t) \subseteq Pending(stack)
  BY <1>1, MovedShape DEF Ops, Places, Unanswered
<1>3. f \in Frs /\ f.op = "call" /\ f.id = Head(incoming).id /\ f.at = a
  BY <1>1, FrameTypes DEF Ops, Places
<1>4. f.id \notin Calls(t)
  BY <1>1, <1>2, <1>3 DEF ShapeInv
<1>5. CallStack(a) = Append(t, f)
  BY DEF CallStack
<1> HIDE DEF f, t
<1>6. /\ Shape(Append(t, f)) /\ Append(t, f)[Len(Append(t, f))] = f
      /\ Calls(Append(t, f)) \subseteq Calls(t) \cup {f.id}
      /\ Pending(Append(t, f)) \subseteq Pending(t) \cup (IF a \in Unanswered THEN {f.id} ELSE {})
  BY <1>2, <1>3, <1>4, PushShape DEF Open
<1>7. Open(Append(t, f))
  BY <1>3, <1>6 DEF Open
<1> QED
  BY <1>1, <1>2, <1>3, <1>5, <1>6, <1>7 DEF ShapeInv, Unanswered
(* What the library sends while it handles such a call itself.              *)
LEMMA DirectShape ==
    ASSUME OrderInv, ShapeInv, Take("CALL"), NEW a \in {"setting", "direct"}, SendFrom(CallStack(a))
    PROVE /\ ShapeInv'
          /\ Pending(stack') \subseteq
                Pending(stack) \cup (IF a = "direct" THEN {} ELSE {Head(incoming).id})
<1>1. /\ Shape(CallStack(a)) /\ Open(CallStack(a))
      /\ Calls(CallStack(a)) \subseteq StartedIds'
      /\ Pending(CallStack(a)) \subseteq
            Pending(stack) \cup (IF a = "direct" THEN {} ELSE {Head(incoming).id})
  BY CallShape
<1>2. /\ Shape(stack') /\ Calls(stack') \subseteq Calls(CallStack(a))
      /\ Pending(stack') \subseteq Pending(CallStack(a))
  BY <1>1, SendShape
<1> QED
  BY <1>1, <1>2 DEF ShapeInv

LEMMA ShapeStep ==
    ASSUME OrderInv, ShapeInv, [Next]_vars
    PROVE ShapeInv' /\ (~ProcessCall /\ ~SetProperty => KeepsFrames)
<1> USE DEF KeepsFrames
<1>1. CASE started' = started /\ stack' = stack
  BY <1>1, Started DEF ShapeInv
<1>2. CASE DispatchInvalid \/ HandlerDone \/ UnwindFrame \/ BlockThrow
  <2>1. stack # <<>> /\ stack' = Front(stack) /\ started' = started
    BY <1>2 DEF DispatchInvalid, HandlerDone, UnwindFrame, BlockThrow, Runs, Unwinds
  <2> QED
    BY <2>1, PopShape, Started DEF ShapeInv
<1>3. CASE BlockRead
  <2>1. stack # <<>> /\ (stack' = stack \/ stack' = Front(stack)) /\ started' = started
    BY <1>3 DEF BlockRead, Runs
  <2> QED
    BY <2>1, PopShape, Started DEF ShapeInv
<1>4. CASE Finish
  <2>1. stack # <<>> /\ (stack' = <<DispatchFrame>> \/ stack' = Front(stack)) /\ started' = started
    BY <1>4 DEF Finish, Runs
  <2>2. CASE stack' = Front(stack)
    BY <2>1, <2>2, PopShape, Started DEF ShapeInv
  <2>3. CASE stack' = Append(<<>>, DispatchFrame)
    <3>1. Shape(stack') /\ Calls(stack') \subseteq {} /\ Pending(stack') \subseteq {}
      BY <2>3, EmptyShape, FrameTypes, PushShape
    <3> QED
      BY <2>1, <3>1 DEF ShapeInv, Finish
  <2>4. <<DispatchFrame>> = Append(<<>>, DispatchFrame)
    OBVIOUS
  <2> QED
    BY <2>1, <2>2, <2>3, <2>4
<1>5. CASE Poll \/ AppTask
  <2> DEFINE f == IF stack' = <<DispatchFrame>> THEN DispatchFrame ELSE Frame("app", "body", 0)
  <2>1. started' = started /\ (stack' = <<DispatchFrame>> \/ stack' = <<Frame("app", "body", 0)>>)
    BY <1>5 DEF Poll, AppTask
  <2>2. stack' = Append(<<>>, f)
    BY <2>1
  <2>3. f \in Frs /\ f.op \in {"dispatch", "app"}
    BY FrameTypes DEF Ops, Places
  <2> HIDE DEF f
  <2>4. Shape(stack') /\ Calls(stack') \subseteq {} /\ Pending(stack') \subseteq {}
    BY <2>2, <2>3, EmptyShape, PushShape
  <2> QED
    BY <2>1, <2>4 DEF ShapeInv
<1>6. CASE Flush \/ Read \/ ProcessNothing
  <2>1. /\ stack # <<>> /\ stack[Len(stack)].op = "dispatch" /\ started' = started
        /\ \E a \in {"read", "process", "finish"} : stack' = Moved(a)
    BY <1>6, RunsTop DEF Flush, Read, ProcessNothing
  <2> QED
    BY <2>1, MovedShape, Started DEF ShapeInv, Ops, Places, Unanswered
<1>7. CASE FreeHandlersDone
  <2>1. /\ stack # <<>> /\ stack[Len(stack)].op = "signal" /\ started' = started
        /\ stack' = Moved("proxies")
    BY <1>7, RunsTop DEF FreeHandlersDone
  <2> QED
    BY <2>1, MovedShape, Started DEF ShapeInv, Ops, Places, Unanswered
<1>8. CASE HandlerSend
  <2>1. InUserCode /\ SendFrom(stack) /\ started' = started
    BY <1>8 DEF HandlerSend
  <2> QED
    BY <2>1, RunsTop, SendShape, Started DEF ShapeInv
<1>9. CASE MethodReturn \/ MethodThrow \/ CatchAndAnswer \/ AnswerSet
  <2>1. /\ stack # <<>> /\ stack[Len(stack)].op = "call"
        /\ \E a \in {"replying", "failing", "direct"} : AnswerFrom(Moved(a), Top.id)
    BY <1>9, RunsTop DEF MethodReturn, MethodThrow, CatchAndAnswer, AnswerSet, Unwinds, Top, Last
  <2> QED
    BY <2>1, AnswerShape DEF ShapeInv
<1>10. CASE HandlerBlock
  <2> DEFINE f == Frame("block", "wait", NextSerial)
  <2>1. InUserCode /\ started' = started /\ (stack' = stack \/ stack' = Append(stack, f))
    BY <1>10 DEF HandlerBlock
  <2>2. stack # <<>> /\ UserTop(stack) /\ Open(stack)
    BY <2>1, RunsTop
  <2>3. f \in Frs /\ f.op = "block"
    <3>1. NextSerial \in Nat
      BY DEF NextSerial
    <3> QED
      BY <3>1, FrameTypes DEF Ops, Places
  <2> HIDE DEF f
  <2>4. Shape(Append(stack, f)) /\ Calls(Append(stack, f)) \subseteq Calls(stack) /\ Pending(Append(stack, f)) \subseteq Pending(stack)
    BY <2>2, <2>3, PushShape DEF ShapeInv, Open
  <2> QED
    BY <2>1, <2>4, Started DEF ShapeInv
<1>11. CASE ProcessCall
  <2>1. Take("CALL") /\ stack' = CallStack("body")
    BY <1>11 DEF ProcessCall, CallStack
  <2> QED
    BY <1>11, <2>1, CallShape DEF ShapeInv
<1>12. CASE AnswerDirectly \/ SetProperty
  <2>1. CASE AnswerDirectly
    <3>1. Take("CALL") /\ SendFrom(CallStack("direct"))
      BY <2>1 DEF AnswerDirectly, CallStack
    <3> QED
      BY <3>1, DirectShape DEF ShapeInv
  <2>2. CASE SetProperty
    <3>1. Take("CALL") /\ SendFrom(CallStack("setting"))
      BY <2>2 DEF SetProperty, CallStack
    <3> QED
      BY <2>2, <3>1, DirectShape DEF ShapeInv
  <2> QED
    BY <1>12, <2>1, <2>2
<1>13. CASE ProcessSignal
  <2> DEFINE f == Frame("signal", "free", Head(incoming).id)
             t == Moved("finish")
  <2>1. Take("SIGNAL") /\ stack' = Append(t, f)
    BY <1>13 DEF ProcessSignal
  <2>2. /\ Head(incoming).id \in Nat
        /\ StartedIds' = StartedIds \cup {Head(incoming).id}
        /\ stack # <<>> /\ stack[Len(stack)].op = "dispatch"
    BY <2>1, TakeFacts
  <2>3. Shape(t) /\ Open(t) /\ Calls(t) \subseteq Calls(stack) /\ Pending(t) \subseteq Pending(stack)
    BY <2>2, MovedShape DEF Ops, Places, Unanswered
  <2>4. f \in Frs /\ f.op = "signal"
    BY <2>2, FrameTypes DEF Ops, Places
  <2> HIDE DEF f, t
  <2>5. Shape(Append(t, f)) /\ Calls(Append(t, f)) \subseteq Calls(t) /\ Pending(Append(t, f)) \subseteq Pending(t)
    BY <2>3, <2>4, PushShape DEF Open
  <2> QED
    BY <2>1, <2>2, <2>3, <2>5 DEF ShapeInv
<1>14. (Terminate \/ SignalCatch \/ UserCatch \/ BlockEOF \/ OtherSend \/ BusStep \/ UNCHANGED vars)
        => started' = started /\ stack' = stack
  BY DEF Terminate, SignalCatch, UserCatch, BlockEOF, OtherSend, BusStep, BusMessage, BusReply, BusClose, vars
<1>15. CASE MisreadCall
  <2>1. Take("CALL") /\ stack' = Moved("finish")
    BY <1>15 DEF MisreadCall
  <2>2. /\ StartedIds' = StartedIds \cup {Head(incoming).id}
        /\ stack # <<>> /\ stack[Len(stack)].op = "dispatch"
    BY <2>1, TakeFacts
  <2> QED
    BY <2>1, <2>2, MovedShape DEF ShapeInv, Ops, Places, Unanswered
<1> QED
  BY <1>1, <1>2, <1>3, <1>4, <1>5, <1>6, <1>7, <1>8, <1>9, <1>10, <1>11, <1>12, <1>13, <1>14, <1>15
     DEF Next, DispatchStep, UserStep

-----------------------------------------------------------------------------
(* What a step does to the messages to write.                               *)

LEMMA AppendLemma ==
    ASSUME NEW s \in Seq(Outs), NEW m \in Outs
    PROVE /\ Append(s, m) \in Seq(Outs) /\ Len(s) \in Nat /\ Len(Append(s, m)) = Len(s) + 1
          /\ DOMAIN s = 1 .. Len(s) /\ DOMAIN Append(s, m) = 1 .. Len(s) + 1
          /\ Append(s, m)[Len(s) + 1] = m
          /\ \A i \in 1 .. Len(s) : Append(s, m)[i] = s[i] /\ s[i] \in Outs
  OBVIOUS
LEMMA QueueSends ==
    ASSUME NEW w, NEW o, Sending(w, o), NEW m \in Outs, m.serial = Len(w) + Len(o) + 1
    PROVE Sending(w, Append(o, m))
<1> DEFINE u == Append(o, m)
<1>1. /\ u \in Seq(Outs) /\ Len(o) \in Nat /\ Len(u) = Len(o) + 1
      /\ DOMAIN o = 1 .. Len(o) /\ DOMAIN u = 1 .. Len(o) + 1 /\ u[Len(o) + 1] = m
      /\ \A i \in 1 .. Len(o) : u[i] = o[i]
      /\ w \in Seq(Outs) /\ Len(w) \in Nat
      /\ \A i \in DOMAIN w : w[i].serial \in Nat
      /\ \A i \in DOMAIN o : o[i].serial \in Nat
  <2>1. w \in Seq(Outs) /\ o \in Seq(Outs)
    BY DEF Sending
  <2>2. (\A i \in DOMAIN w : w[i] \in Outs) /\ (\A i \in DOMAIN o : o[i] \in Outs)
    BY <2>1
  <2>3. \A r \in Outs : r.serial \in Nat
    BY DEF Outs
  <2>4. Len(w) \in Nat /\ Len(o) \in Nat
    BY <2>1
  <2> QED
    BY <2>1, <2>2, <2>3, <2>4, AppendLemma
<1> HIDE DEF u
<1>2. \A j \in DOMAIN w : w[j].serial <= Len(w) + Len(u) /\ w[j].serial < m.serial
  BY <1>1 DEF Sending
<1>3. \A j \in DOMAIN o : o[j].serial <= Len(w) + Len(u) /\ o[j].serial < m.serial
  BY <1>1 DEF Sending
<1>4. \A j \in DOMAIN u : u[j].serial <= Len(w) + Len(u)
  BY <1>1, <1>3
<1>5. ASSUME NEW i \in DOMAIN u, NEW j \in DOMAIN u, i < j, u[i].from = u[j].from
      PROVE u[i].serial < u[j].serial
  <2>1. CASE j = Len(o) + 1
    BY <1>1, <1>3, <1>5, <2>1
  <2>2. CASE j # Len(o) + 1
    <3>1. i \in DOMAIN o /\ j \in DOMAIN o /\ u[i] = o[i] /\ u[j] = o[j]
      BY <1>1, <1>5, <2>2
    <3> QED
      BY <1>5, <3>1 DEF Sending
  <2> QED
    BY <2>1, <2>2
<1>6. ASSUME NEW i \in DOMAIN w, NEW j \in DOMAIN u, w[i].from = u[j].from
      PROVE w[i].serial < u[j].serial
  <2>1. CASE j = Len(o) + 1
    BY <1>1, <1>2, <2>1
  <2>2. CASE j # Len(o) + 1
    <3>1. j \in DOMAIN o /\ u[j] = o[j]
      BY <1>1, <2>2
    <3> QED
      BY <1>6, <3>1 DEF Sending
  <2> QED
    BY <2>1, <2>2
<1>7. \A i, j \in DOMAIN w : (i < j /\ w[i].from = w[j].from) => w[i].serial < w[j].serial
  BY DEF Sending
<1> QED
  BY <1>1, <1>2, <1>4, <1>5, <1>6, <1>7 DEF Sending, u
(* A blocking call writes past what other threads have queued.              *)
LEMMA WriteSends ==
    ASSUME NEW w, NEW o, Sending(w, o), NEW m \in Outs, m.serial = Len(w) + Len(o) + 1,
           \A k \in DOMAIN o : o[k].from # m.from
    PROVE Sending(Append(w, m), o)
<1> DEFINE u == Append(w, m)
<1>1. /\ u \in Seq(Outs) /\ Len(w) \in Nat /\ Len(u) = Len(w) + 1
      /\ DOMAIN w = 1 .. Len(w) /\ DOMAIN u = 1 .. Len(w) + 1 /\ u[Len(w) + 1] = m
      /\ \A i \in 1 .. Len(w) : u[i] = w[i]
      /\ o \in Seq(Outs) /\ Len(o) \in Nat
      /\ \A i \in DOMAIN w : w[i].serial \in Nat
      /\ \A i \in DOMAIN o : o[i].serial \in Nat
  <2>1. w \in Seq(Outs) /\ o \in Seq(Outs)
    BY DEF Sending
  <2>2. (\A i \in DOMAIN w : w[i] \in Outs) /\ (\A i \in DOMAIN o : o[i] \in Outs)
    BY <2>1
  <2>3. \A r \in Outs : r.serial \in Nat
    BY DEF Outs
  <2>4. Len(w) \in Nat /\ Len(o) \in Nat
    BY <2>1
  <2> QED
    BY <2>1, <2>2, <2>3, <2>4, AppendLemma
<1> HIDE DEF u
<1>2. \A j \in DOMAIN w : w[j].serial <= Len(u) + Len(o) /\ w[j].serial < m.serial
  BY <1>1 DEF Sending
<1>3. \A j \in DOMAIN o : o[j].serial <= Len(u) + Len(o)
  BY <1>1 DEF Sending
<1>4. \A j \in DOMAIN u : u[j].serial <= Len(u) + Len(o)
  BY <1>1, <1>2
<1>5. ASSUME NEW i \in DOMAIN u, NEW j \in DOMAIN u, i < j, u[i].from = u[j].from
      PROVE u[i].serial < u[j].serial
  <2>1. CASE j = Len(w) + 1
    BY <1>1, <1>2, <1>5, <2>1
  <2>2. CASE j # Len(w) + 1
    <3>1. i \in DOMAIN w /\ j \in DOMAIN w /\ u[i] = w[i] /\ u[j] = w[j]
      BY <1>1, <1>5, <2>2
    <3> QED
      BY <1>5, <3>1 DEF Sending
  <2> QED
    BY <2>1, <2>2
<1>6. ASSUME NEW i \in DOMAIN u, NEW j \in DOMAIN o, u[i].from = o[j].from
      PROVE u[i].serial < o[j].serial
  <2>1. i # Len(w) + 1
    BY <1>1, <1>6
  <2>2. i \in DOMAIN w /\ u[i] = w[i]
    BY <1>1, <2>1
  <2> QED
    BY <1>6, <2>2 DEF Sending
<1>7. \A i, j \in DOMAIN o : (i < j /\ o[i].from = o[j].from) => o[i].serial < o[j].serial
  BY DEF Sending
<1> QED
  BY <1>1, <1>3, <1>4, <1>5, <1>6, <1>7 DEF Sending, u
(* What is queued is written in its order.                                  *)
LEMMA FlushSends ==
    ASSUME NEW w, NEW o, Sending(w, o)
    PROVE /\ Sending(w \o o, <<>>)
          /\ \A i, j \in DOMAIN (w \o o) :
                (i < j /\ (w \o o)[i].from = (w \o o)[j].from) => (w \o o)[i].serial < (w \o o)[j].serial
<1> DEFINE u == w \o o
<1>1. /\ w \in Seq(Outs) /\ o \in Seq(Outs) /\ Len(w) \in Nat /\ Len(o) \in Nat
      /\ DOMAIN w = 1 .. Len(w) /\ DOMAIN o = 1 .. Len(o)
  BY DEF Sending
<1>2. /\ u \in Seq(Outs) /\ Len(u) = Len(w) + Len(o) /\ DOMAIN u = 1 .. Len(w) + Len(o)
      /\ \A i \in 1 .. Len(w) : u[i] = w[i]
      /\ \A i \in 1 .. Len(w) + Len(o) : i > Len(w) => i - Len(w) \in 1 .. Len(o) /\ u[i] = o[i - Len(w)]
  BY <1>1
<1> HIDE DEF u
<1>3. ASSUME NEW i \in DOMAIN u, NEW j \in DOMAIN u, i < j, u[i].from = u[j].from
      PROVE u[i].serial < u[j].serial
  <2>1. CASE j <= Len(w)
    <3>1. i \in DOMAIN w /\ j \in DOMAIN w /\ u[i] = w[i] /\ u[j] = w[j]
      BY <1>1, <1>2, <1>3, <2>1
    <3> QED
      BY <1>3, <3>1 DEF Sending
  <2>2. CASE i > Len(w)
    <3>1. /\ i - Len(w) \in DOMAIN o /\ j - Len(w) \in DOMAIN o /\ i - Len(w) < j - Len(w)
          /\ u[i] = o[i - Len(w)] /\ u[j] = o[j - Len(w)]
      BY <1>1, <1>2, <1>3, <2>2
    <3> QED
      BY <1>3, <3>1 DEF Sending
  <2>3. CASE i <= Len(w) /\ j > Len(w)
    <3>1. i \in DOMAIN w /\ j - Len(w) \in DOMAIN o /\ u[i] = w[i] /\ u[j] = o[j - Len(w)]
      BY <1>1, <1>2, <1>3, <2>3
    <3> QED
      BY <1>3, <3>1 DEF Sending
  <2> QED
    BY <1>1, <1>2, <2>1, <2>2, <2>3
<1>4. ASSUME NEW j \in DOMAIN u PROVE u[j].serial <= Len(u)
  <2>1. CASE j <= Len(w)
    <3>1. j \in DOMAIN w /\ u[j] = w[j]
      BY <1>1, <1>2, <2>1
    <3> QED
      BY <1>2, <3>1 DEF Sending
  <2>2. CASE j > Len(w)
    <3>1. j - Len(w) \in DOMAIN o /\ u[j] = o[j - Len(w)]
      BY <1>1, <1>2, <2>2
    <3> QED
      BY <1>2, <3>1 DEF Sending
  <2> QED
    BY <1>1, <1>2, <2>1, <2>2
<1>5. <<>> \in Seq(Outs) /\ Len(<<>>) = 0 /\ DOMAIN <<>> = {} /\ Len(u) + 0 = Len(u)
  BY <1>1, <1>2
<1> HIDE DEF u
<1>6. Sending(u, <<>>)
  BY <1>2, <1>3, <1>4, <1>5 DEF Sending
<1> QED
  BY <1>3, <1>6 DEF u

LEMMA SendSends ==
    ASSUME SenderInv, FlushInv, NEW s \in Seq(Frs), SendFrom(s), ~dead,
           UNCHANGED <<written, valid, dead>>
    PROVE SenderInv' /\ FlushInv'
<1>1. CASE valid
  <2> DEFINE m == [from |-> "dispatcher", serial |-> NextSerial]
  <2>1. outgoing' = Append(outgoing, m) /\ stack' = Append(s, DispatchFrame) /\ throwing' = FALSE
    BY <1>1 DEF SendFrom
  <2>2. m \in Outs /\ m.serial = Len(written) + Len(outgoing) + 1
    BY DEF SenderInv, Sending, NextSerial, Outs
  <2> HIDE DEF m
  <2>3. Sending(written, Append(outgoing, m))
    BY <2>2, QueueSends DEF SenderInv
  <2>4. stack' # <<>> /\ stack'[Len(stack')] = DispatchFrame
    BY <2>1, PushLemma, FrameTypes
  <2> QED
    BY <2>1, <2>3, <2>4, FrameTypes DEF SenderInv, FlushInv, Runs, Top, Last
<1>2. CASE ~valid
  BY <1>2 DEF SendFrom, SenderInv, FlushInv
<1> QED
  BY <1>1, <1>2

LEMMA MovedType == ASSUME ShapeInv, stack # <<>>, NEW a \in Places PROVE Moved(a) \in Seq(Frs)
  BY MoveLemma DEF ShapeInv, Shape, Moved

(* Nothing of the dispatching thread is queued while it does something else *)
(* than flush.                                                              *)
KeepsQueue == UNCHANGED <<written, outgoing>>
LEMMA SenderStep ==
    ASSUME OrderInv, ShapeInv, SenderInv, FlushInv, [Next]_vars PROVE SenderInv' /\ FlushInv'
<1>1. CASE HandlerSend
  BY <1>1, SendSends DEF HandlerSend, ShapeInv, Shape, InUserCode, Runs
<1>2. CASE MethodReturn \/ MethodThrow \/ CatchAndAnswer \/ AnswerSet
  <2>1. PICK a \in {"replying", "failing", "direct"} : AnswerFrom(Moved(a), Top.id) /\ stack # <<>> /\ ~dead
    BY <1>2 DEF MethodReturn, MethodThrow, CatchAndAnswer, AnswerSet, Unwinds, Runs
  <2>2. Moved(a) \in Seq(Frs)
    BY <2>1, MovedType DEF Places
  <2> QED
    BY <2>1, <2>2, SendSends DEF AnswerFrom
<1>3. CASE AnswerDirectly \/ SetProperty
  <2>1. PICK a \in {"setting", "direct"} :
          Take("CALL") /\ SendFrom(CallStack(a)) /\ UNCHANGED <<written, valid, dead>>
    BY <1>3 DEF AnswerDirectly, SetProperty, CallStack
  <2>2. ~dead
    BY <2>1 DEF Take, Runs
  <2>3. CallStack(a) \in Seq(Frs)
    BY <2>1, CallShape DEF Shape
  <2> QED
    BY <2>1, <2>2, <2>3, SendSends
<1>4. CASE Flush
  <2>1. written' = written \o outgoing /\ outgoing' = <<>>
    BY <1>4 DEF Flush
  <2>2. Sending(written', outgoing')
    BY <2>1, FlushSends DEF SenderInv
  <2> QED
    BY <2>1, <2>2 DEF SenderInv, FlushInv
<1>5. CASE HandlerBlock
  <2> DEFINE m == [from |-> "dispatcher", serial |-> NextSerial]
  <2>1. InUserCode /\ outgoing' = outgoing
    BY <1>5 DEF HandlerBlock
  <2>2. ~Runs("dispatch", "flush")
    BY <2>1 DEF InUserCode, Runs
  <2>3. CASE valid
    <3>1. \A k \in DOMAIN outgoing : outgoing[k].from # "dispatcher"
      BY <2>2, <2>3 DEF FlushInv
    <3>2. written' = Append(written, m)
      BY <1>5, <2>3 DEF HandlerBlock
    <3>3. m \in Outs /\ m.serial = Len(written) + Len(outgoing) + 1 /\ m.from = "dispatcher"
      BY DEF SenderInv, Sending, NextSerial, Outs
    <3> HIDE DEF m
    <3>4. Sending(written', outgoing')
      BY <2>1, <3>1, <3>2, <3>3, WriteSends DEF SenderInv
    <3> QED
      BY <2>1, <3>1, <3>4 DEF SenderInv, FlushInv
  <2>4. CASE ~valid
    BY <1>5, <2>1, <2>4 DEF HandlerBlock, SenderInv, FlushInv
  <2> QED
    BY <2>3, <2>4
<1>6. CASE OtherSend
  <2> DEFINE m == [from |-> "other", serial |-> NextSerial]
  <2>1. outgoing' = Append(outgoing, m) /\ UNCHANGED <<written, valid, stack, throwing, dead>>
    BY <1>6 DEF OtherSend
  <2>2. m \in Outs /\ m.serial = Len(written) + Len(outgoing) + 1 /\ m.from = "other"
    BY DEF SenderInv, Sending, NextSerial, Outs
  <2> HIDE DEF m
  <2>3. Sending(written, Append(outgoing, m))
    BY <2>2, QueueSends DEF SenderInv
  <2>4. outgoing \in Seq(Outs)
    BY DEF SenderInv, Sending
  <2>5. \A k \in DOMAIN outgoing' : outgoing'[k].from = "dispatcher" =>
          k \in DOMAIN outgoing /\ outgoing[k].from = "dispatcher"
    BY <2>1, <2>2, <2>4, AppendLemma
  <2>6. Runs("dispatch", "flush")' = Runs("dispatch", "flush")
    BY <2>1 DEF Runs, Top, Last
  <2> QED
    BY <2>1, <2>3, <2>5, <2>6 DEF SenderInv, FlushInv
<1>7. ASSUME KeepsQueue, valid' => valid, Runs("dispatch", "flush") => (Runs("dispatch", "flush")' \/ ~valid')
      PROVE SenderInv' /\ FlushInv'
  BY <1>7 DEF KeepsQueue, SenderInv, FlushInv
<1>8. (Read \/ ProcessNothing \/ ProcessCall \/ MisreadCall \/ ProcessSignal \/ FreeHandlersDone \/ Finish)
      => KeepsQueue /\ (valid' => valid) /\ ~Runs("dispatch", "flush")
  <2>1. Read => KeepsQueue /\ (valid' => valid)
    <3>1. Read => KeepsQueue /\ (valid' = valid \/ valid' = (valid /\ ~closed))
      BY DEF Read, KeepsQueue
    <3>2. valid' = valid \/ valid' = (valid /\ ~closed) => (valid' => valid)
      BY Zenon
    <3> QED
      BY <3>1, <3>2, Zenon
  <2>2. Read \/ ProcessNothing \/ FreeHandlersDone \/ Finish => ~Runs("dispatch", "flush")
    BY DEF Read, ProcessNothing, FreeHandlersDone, Finish, Runs
  <2>3. ProcessCall \/ MisreadCall \/ ProcessSignal => ~Runs("dispatch", "flush")
    BY DEF ProcessCall, MisreadCall, ProcessSignal, Take, Runs
  <2>4. ProcessNothing \/ FreeHandlersDone \/ Finish => KeepsQueue /\ (valid' => valid)
    BY DEF ProcessNothing, FreeHandlersDone, Finish, KeepsQueue
  <2>5. ProcessCall \/ MisreadCall \/ ProcessSignal => KeepsQueue /\ (valid' => valid)
    BY DEF ProcessCall, MisreadCall, ProcessSignal, KeepsQueue
  <2> QED
    BY <2>1, <2>2, <2>3, <2>4, <2>5
<1>9. (HandlerDone \/ BlockRead \/ BlockEOF \/ BlockThrow)
      => KeepsQueue /\ (valid' => valid) /\ ~Runs("dispatch", "flush")
  BY DEF HandlerDone, BlockRead, BlockEOF, BlockThrow, Runs, KeepsQueue
<1>10. (UnwindFrame \/ SignalCatch \/ UserCatch \/ Terminate \/ Poll \/ AppTask)
      => KeepsQueue /\ (valid' => valid) /\ ~Runs("dispatch", "flush")
  BY DEF UnwindFrame, SignalCatch, UserCatch, Terminate, Poll, AppTask, Unwinds, Runs, KeepsQueue
<1>11. DispatchInvalid => KeepsQueue /\ (valid' => valid) /\ ~valid'
  BY DEF DispatchInvalid, KeepsQueue
<1>12. (BusStep \/ UNCHANGED vars) => KeepsQueue /\ UNCHANGED <<valid, stack, throwing, dead>>
  <2>1. ASSUME NEW k, BusMessage(k) PROVE KeepsQueue /\ UNCHANGED <<valid, stack, throwing, dead>>
    BY <2>1 DEF BusMessage, KeepsQueue
  <2>2. ASSUME NEW k, NEW n, BusReply(n, k) PROVE KeepsQueue /\ UNCHANGED <<valid, stack, throwing, dead>>
    BY <2>2 DEF BusReply, KeepsQueue
  <2>3. BusClose \/ UNCHANGED vars => KeepsQueue /\ UNCHANGED <<valid, stack, throwing, dead>>
    BY DEF BusClose, vars, KeepsQueue
  <2> QED
    BY <2>1, <2>2, <2>3 DEF BusStep
<1>13. (BusStep \/ UNCHANGED vars) => Runs("dispatch", "flush")' = Runs("dispatch", "flush")
  BY <1>12 DEF Runs, Top, Last
<1> QED
  BY <1>1, <1>2, <1>3, <1>4, <1>5, <1>6, <1>7, <1>8, <1>9, <1>10, <1>11, <1>12, <1>13
     DEF Next, DispatchStep, UserStep

-----------------------------------------------------------------------------
(* What a step does to the connection and to an exception.                  *)

(* A connection that has failed stays so.                                   *)
KeepsValid == UNCHANGED valid
LEMMA ValidStep == [Next]_vars => (valid' => valid)
<1>1. (Poll \/ DispatchInvalid \/ ProcessNothing \/ ProcessCall \/ MisreadCall \/ ProcessSignal) => KeepsValid
  BY DEF Poll, DispatchInvalid, ProcessNothing, ProcessCall, MisreadCall, ProcessSignal, KeepsValid
<1>2. (CatchAndAnswer \/ MethodReturn \/ MethodThrow \/ AnswerSet) => KeepsValid
  BY DEF CatchAndAnswer, MethodReturn, MethodThrow, AnswerSet, AnswerFrom, KeepsValid
<1>3. (AnswerDirectly \/ SetProperty \/ FreeHandlersDone \/ Finish \/ UnwindFrame \/ Terminate) => KeepsValid
  BY DEF AnswerDirectly, SetProperty, FreeHandlersDone, Finish, UnwindFrame, Terminate, KeepsValid
<1>4. (HandlerSend \/ HandlerDone \/ SignalCatch \/ UserCatch \/ BlockRead \/ BlockThrow) => KeepsValid
  BY DEF HandlerSend, HandlerDone, SignalCatch, UserCatch, BlockRead, BlockThrow, KeepsValid
<1>5. (AppTask \/ OtherSend \/ BusClose \/ UNCHANGED vars) => KeepsValid
  BY DEF AppTask, OtherSend, BusClose, vars, KeepsValid
<1>6. ASSUME NEW k, BusMessage(k) PROVE KeepsValid
  BY <1>6 DEF BusMessage, KeepsValid
<1>7. ASSUME NEW k, NEW n, BusReply(n, k) PROVE KeepsValid
  BY <1>7 DEF BusReply, KeepsValid
<1>8. Flush \/ BlockEOF => valid
  BY DEF Flush, BlockEOF
<1>9. Read => (valid' => valid)
  <2>1. Read => (valid' = valid \/ valid' = (valid /\ ~closed))
    BY DEF Read
  <2> QED
    BY <2>1, Zenon
<1>10. HandlerBlock => (valid' => valid)
  <2>1. HandlerBlock => (valid \/ valid' = valid)
    BY DEF HandlerBlock
  <2> QED
    BY <2>1
<1>11. KeepsValid => (valid' => valid)
  BY DEF KeepsValid
<1> QED
  BY <1>1, <1>2, <1>3, <1>4, <1>5, <1>6, <1>7, <1>8, <1>9, <1>10, <1>11
     DEF Next, DispatchStep, UserStep, BusStep

(* A blocking call that ends leaves the user's code on top.                 *)
LEMMA BlockPops ==
    ASSUME ShapeInv, stack # <<>>, stack[Len(stack)].op = "block"
    PROVE UserTop(Front(stack))
<1>1. /\ stack \in Seq(Frs) /\ Len(Front(stack)) = Len(stack) - 1 /\ Len(stack) \in Nat \ {0}
      /\ DOMAIN Front(stack) = 1 .. Len(stack) - 1
      /\ \A i \in 1 .. Len(stack) - 1 : Front(stack)[i] = stack[i]
  BY PopLemma DEF ShapeInv, Shape
<1>2. Len(stack) > 1 /\ UserFrame(stack[Len(stack) - 1])
  <2>1. Len(stack) \in DOMAIN stack
    BY <1>1
  <2> QED
    BY <2>1 DEF ShapeInv, Shape, BlockOnTop
<1>3. Front(stack) # <<>>
  BY <1>1, <1>2
<1>4. Front(stack)[Len(Front(stack))] = stack[Len(stack) - 1]
  BY <1>1, <1>2
<1> QED
  BY <1>2, <1>3, <1>4 DEF UserTop

(* A misread call is not forgotten.                                         *)
KeepsMisread == UNCHANGED misread
LEMMA MisreadStep == [Next]_vars => (misread' = {} => misread = {})
<1>1. (Poll \/ DispatchInvalid \/ Flush \/ Read \/ ProcessNothing \/ ProcessCall \/ ProcessSignal) => KeepsMisread
  BY DEF Poll, DispatchInvalid, Flush, Read, ProcessNothing, ProcessCall, ProcessSignal, KeepsMisread
<1>2. (CatchAndAnswer \/ MethodReturn \/ MethodThrow \/ AnswerSet \/ AnswerDirectly \/ SetProperty) => KeepsMisread
  BY DEF CatchAndAnswer, MethodReturn, MethodThrow, AnswerSet, AnswerDirectly, SetProperty, AnswerFrom,
         KeepsMisread
<1>3. (FreeHandlersDone \/ Finish \/ Terminate \/ HandlerSend \/ HandlerBlock \/ HandlerDone) => KeepsMisread
  BY DEF FreeHandlersDone, Finish, Terminate, HandlerSend, HandlerBlock, HandlerDone, KeepsMisread
<1>4. (UnwindFrame \/ SignalCatch \/ UserCatch \/ BlockRead \/ BlockEOF \/ BlockThrow) => KeepsMisread
  BY DEF UnwindFrame, SignalCatch, UserCatch, BlockRead, BlockEOF, BlockThrow, KeepsMisread
<1>5. (AppTask \/ OtherSend \/ BusClose \/ UNCHANGED vars) => KeepsMisread
  BY DEF AppTask, OtherSend, BusClose, vars, KeepsMisread
<1>6. ASSUME NEW k, BusMessage(k) PROVE KeepsMisread
  BY <1>6 DEF BusMessage, KeepsMisread
<1>7. ASSUME NEW k, NEW n, BusReply(n, k) PROVE KeepsMisread
  BY <1>7 DEF BusReply, KeepsMisread
<1>8. MisreadCall => misread' # {}
  BY DEF MisreadCall
<1>9. KeepsMisread => misread' = misread
  BY DEF KeepsMisread
<1> QED
  BY <1>1, <1>2, <1>3, <1>4, <1>5, <1>6, <1>7, <1>8, <1>9 DEF Next, DispatchStep, UserStep, BusStep

LEMMA SendExcused == ASSUME NEW s, SendFrom(s), UNCHANGED valid PROVE Excused'
<1>1. CASE valid
  BY <1>1 DEF SendFrom, Excused
<1>2. CASE ~valid
  <2>1. ~valid'
    BY <1>2
  <2> QED
    BY <2>1 DEF Excused
<1> QED
  BY <1>1, <1>2

LEMMA ExcusedStep ==
    ASSUME ShapeInv, Excused, [Next]_vars PROVE Excused'
<1>1. CASE UNCHANGED <<throwing, stack>>
  BY <1>1, MisreadStep, ValidStep DEF Excused
<1>2. CASE throwing' = throwing /\ ~throwing
  BY <1>2 DEF Excused
<1>3. CASE AnswerDirectly \/ SetProperty \/ HandlerSend
  <2>1. \E s : SendFrom(s) /\ UNCHANGED valid
    BY <1>3 DEF AnswerDirectly, SetProperty, HandlerSend
  <2> QED
    BY <2>1, SendExcused
<1>4. CASE MethodReturn \/ MethodThrow \/ CatchAndAnswer \/ AnswerSet
  <2>1. \E s : SendFrom(s) /\ UNCHANGED valid
    BY <1>4 DEF MethodReturn, MethodThrow, CatchAndAnswer, AnswerSet, AnswerFrom
  <2> QED
    BY <2>1, SendExcused
<1>5. CASE HandlerBlock
  <2>1. CASE valid
    <3>1. ~throwing /\ throwing' = throwing
      BY <1>5, <2>1 DEF HandlerBlock, InUserCode, Runs
    <3> QED
      BY <3>1 DEF Excused
  <2>2. CASE ~valid
    <3>1. ~valid'
      BY <2>2, ValidStep
    <3> QED
      BY <3>1 DEF Excused
  <2> QED
    BY <2>1, <2>2
<1>6. CASE MisreadCall
  BY <1>6 DEF MisreadCall, Excused
<1>7. CASE SignalCatch \/ UserCatch
  BY <1>7 DEF SignalCatch, UserCatch, Excused
<1>8. CASE UnwindFrame
  <2>1. CASE misread # {} \/ ~valid
    BY <2>1, MisreadStep, ValidStep DEF Excused
  <2>2. CASE misread = {} /\ valid
    <3>1. throwing /\ stack # <<>> /\ Top = stack[Len(stack)] /\ ~UserFrame(Top)
      BY <1>8 DEF UnwindFrame, Unwinds, Top, Last, UserFrame
    <3>2. UserFrame(Top)
      BY <2>2, <3>1 DEF Excused, UserTop
    <3> QED
      BY <3>1, <3>2
  <2> QED
    BY <2>1, <2>2
<1>9. CASE BlockThrow
  <2>1. stack # <<>> /\ stack[Len(stack)].op = "block" /\ stack' = Front(stack)
    BY <1>9, RunsTop DEF BlockThrow
  <2> QED
    BY <2>1, BlockPops DEF Excused
<1>10. CASE BlockRead
  <2>1. stack # <<>> /\ stack[Len(stack)].op = "block" /\ (throwing' => stack' = Front(stack))
    BY <1>10, RunsTop DEF BlockRead
  <2> QED
    BY <2>1, BlockPops DEF Excused
<1>11. (Terminate \/ BlockEOF \/ OtherSend \/ BusStep \/ UNCHANGED vars) => UNCHANGED <<throwing, stack>>
  <2>1. (Terminate \/ BlockEOF \/ OtherSend \/ BusClose \/ UNCHANGED vars) => UNCHANGED <<throwing, stack>>
    BY DEF Terminate, BlockEOF, OtherSend, BusClose, vars
  <2>2. ASSUME NEW k, BusMessage(k) PROVE UNCHANGED <<throwing, stack>>
    BY <2>2 DEF BusMessage
  <2>3. ASSUME NEW k, NEW n, BusReply(n, k) PROVE UNCHANGED <<throwing, stack>>
    BY <2>3 DEF BusReply
  <2> QED
    BY <2>1, <2>2, <2>3 DEF BusStep
<1>12. (Poll \/ AppTask \/ DispatchInvalid \/ Flush \/ Read \/ ProcessNothing)
          => throwing' = throwing /\ ~throwing
  BY DEF Poll, AppTask, DispatchInvalid, Flush, Read, ProcessNothing, Runs
<1>13. (ProcessCall \/ ProcessSignal \/ FreeHandlersDone \/ Finish \/ HandlerDone)
          => throwing' = throwing /\ ~throwing
  BY DEF ProcessCall, ProcessSignal, Take, FreeHandlersDone, Finish, HandlerDone, Runs
<1> QED
  BY <1>1, <1>2, <1>3, <1>4, <1>5, <1>6, <1>7, <1>8, <1>9, <1>10, <1>11, <1>12, <1>13
     DEF Next, DispatchStep, UserStep

KeepsDead == UNCHANGED dead
LEMMA ThrowStep ==
    ASSUME ShapeInv, ThrowInv, [Next]_vars PROVE ThrowInv'
<1> USE DEF TerminatesOnlyOnDisconnect
<1>1. Excused'
  BY ExcusedStep DEF ThrowInv
<1>2. CASE Terminate
  <2>1. throwing /\ stack = <<>>
    BY <1>2 DEF Terminate
  <2>2. misread # {} \/ ~valid
    BY <2>1 DEF ThrowInv, Excused, UserTop
  <2> QED
    BY <1>1, <2>2, ValidStep, MisreadStep DEF ThrowInv
<1>3. CASE BlockEOF
  BY <1>1, <1>3 DEF BlockEOF, ThrowInv
<1>4. CASE KeepsDead
  BY <1>1, <1>4, ValidStep, MisreadStep DEF ThrowInv, KeepsDead
<1>5. KeepsDead \/ Terminate \/ BlockEOF
  <2>1. (Poll \/ DispatchInvalid \/ Flush \/ Read \/ ProcessNothing \/ ProcessCall \/ ProcessSignal) => KeepsDead
    BY DEF Poll, DispatchInvalid, Flush, Read, ProcessNothing, ProcessCall, ProcessSignal, KeepsDead
  <2>2. (CatchAndAnswer \/ MethodReturn \/ MethodThrow \/ AnswerSet) => KeepsDead
    BY DEF CatchAndAnswer, MethodReturn, MethodThrow, AnswerSet, AnswerFrom, KeepsDead
  <2>3. (AnswerDirectly \/ SetProperty \/ MisreadCall \/ SignalCatch) => KeepsDead
    BY DEF AnswerDirectly, SetProperty, MisreadCall, SignalCatch, KeepsDead
  <2>4. (FreeHandlersDone \/ Finish \/ HandlerSend \/ HandlerBlock \/ HandlerDone \/ UnwindFrame) => KeepsDead
    BY DEF FreeHandlersDone, Finish, HandlerSend, HandlerBlock, HandlerDone, UnwindFrame, KeepsDead
  <2>5. (UserCatch \/ BlockRead \/ BlockThrow \/ AppTask \/ OtherSend \/ BusClose \/ UNCHANGED vars) => KeepsDead
    BY DEF UserCatch, BlockRead, BlockThrow, AppTask, OtherSend, BusClose, vars, KeepsDead
  <2>6. ASSUME NEW k, BusMessage(k) PROVE KeepsDead
    BY <2>6 DEF BusMessage, KeepsDead
  <2>7. ASSUME NEW k, NEW n, BusReply(n, k) PROVE KeepsDead
    BY <2>7 DEF BusReply, KeepsDead
  <2> QED
    BY <2>1, <2>2, <2>3, <2>4, <2>5, <2>6, <2>7 DEF Next, DispatchStep, UserStep, BusStep
<1> QED
  BY <1>2, <1>3, <1>4, <1>5

-----------------------------------------------------------------------------
(* What a step does to the answers.                                         *)
KeepsAnswers == UNCHANGED answers
LEMMA OtherAnswers ==
    ASSUME [Next]_vars
    PROVE KeepsAnswers \/ AnswerDirectly \/ AnswerSet \/ MethodReturn \/ MethodThrow \/ CatchAndAnswer
<1>1. (Poll \/ DispatchInvalid \/ Flush \/ Read \/ ProcessNothing \/ ProcessCall \/ ProcessSignal) => KeepsAnswers
  BY DEF Poll, DispatchInvalid, Flush, Read, ProcessNothing, ProcessCall, ProcessSignal, KeepsAnswers
<1>2. (FreeHandlersDone \/ Finish \/ HandlerSend \/ HandlerBlock \/ HandlerDone \/ UnwindFrame) => KeepsAnswers
  BY DEF FreeHandlersDone, Finish, HandlerSend, HandlerBlock, HandlerDone, UnwindFrame, KeepsAnswers
<1>3. (UserCatch \/ BlockRead \/ BlockEOF \/ BlockThrow \/ AppTask \/ OtherSend \/ UNCHANGED vars) => KeepsAnswers
  BY DEF UserCatch, BlockRead, BlockEOF, BlockThrow, AppTask, OtherSend, vars, KeepsAnswers
<1>4. ASSUME NEW k, BusMessage(k) PROVE KeepsAnswers
  BY <1>4 DEF BusMessage, KeepsAnswers
<1>5. ASSUME NEW k, NEW n, BusReply(n, k) PROVE KeepsAnswers
  BY <1>5 DEF BusReply, KeepsAnswers
<1>6. (BusClose \/ SignalCatch \/ Terminate \/ SetProperty \/ MisreadCall) => KeepsAnswers
  BY DEF BusClose, SignalCatch, Terminate, SetProperty, MisreadCall, KeepsAnswers
<1> QED
  BY <1>1, <1>2, <1>3, <1>4, <1>5, <1>6 DEF Next, DispatchStep, UserStep, BusStep

LEMMA StartedGrows ==
    ASSUME OrderInv, [Next]_vars PROVE StartedIds \subseteq StartedIds'
<1>1. CASE \E k \in {"CALL", "SIGNAL"} : Take(k)
  BY <1>1, TakeFacts
<1>2. CASE UNCHANGED started
  BY <1>2, Started
<1>3. (Poll \/ DispatchInvalid \/ Flush \/ Read \/ ProcessNothing) => UNCHANGED started
  BY DEF Poll, DispatchInvalid, Flush, Read, ProcessNothing
<1>4. (CatchAndAnswer \/ MethodReturn \/ MethodThrow \/ AnswerSet) => UNCHANGED started
  BY DEF CatchAndAnswer, MethodReturn, MethodThrow, AnswerSet, AnswerFrom
<1>5. (FreeHandlersDone \/ Finish \/ HandlerSend \/ HandlerBlock \/ HandlerDone \/ UnwindFrame) => UNCHANGED started
  BY DEF FreeHandlersDone, Finish, HandlerSend, HandlerBlock, HandlerDone, UnwindFrame
<1>6. (UserCatch \/ BlockRead \/ BlockEOF \/ BlockThrow \/ AppTask \/ OtherSend \/ UNCHANGED vars) => UNCHANGED started
  BY DEF UserCatch, BlockRead, BlockEOF, BlockThrow, AppTask, OtherSend, vars
<1>7. ASSUME NEW k, BusMessage(k) PROVE UNCHANGED started
  BY <1>7 DEF BusMessage
<1>8. ASSUME NEW k, NEW n, BusReply(n, k) PROVE UNCHANGED started
  BY <1>8 DEF BusReply
<1>9. (BusClose \/ SignalCatch \/ Terminate) => UNCHANGED started
  BY DEF BusClose, SignalCatch, Terminate
<1>10. (ProcessCall \/ AnswerDirectly \/ SetProperty \/ MisreadCall \/ ProcessSignal)
          => \E k \in {"CALL", "SIGNAL"} : Take(k)
  BY DEF ProcessCall, AnswerDirectly, SetProperty, MisreadCall, ProcessSignal
<1> QED
  BY <1>1, <1>2, <1>3, <1>4, <1>5, <1>6, <1>7, <1>8, <1>9, <1>10 DEF Next, DispatchStep, UserStep, BusStep

LEMMA PendingStarted ==
    ASSUME ShapeInv, OrderInv
    PROVE /\ Pending(stack) \subseteq Calls(stack) /\ Calls(stack) \subseteq StartedIds
          /\ StartedIds \subseteq Ids
<1>1. Pending(stack) \subseteq Calls(stack)
  BY DEF Pending, Calls
<1>2. \A n \in DOMAIN started : started[n] \in 1 .. arrived
  BY DEF OrderInv, Ordered
<1>3. arrived \in 0 .. MaxIn
  BY DEF OrderInv, Ordered
<1>4. StartedIds \subseteq Ids
  BY <1>2, <1>3, Constants DEF StartedIds, Ids, BusTypes
<1> QED
  BY <1>1, <1>4 DEF ShapeInv

(* A call that has no answer yet gets one, and is no longer pending.         *)
LEMMA AnswerOnce ==
    ASSUME AnswerInv, NEW i \in Ids, i \in StartedIds', StartedIds \subseteq StartedIds',
           misread' = {} => misread = {}, Pending(stack') \subseteq Pending(stack) \ {i}, Pending(stack) \subseteq Ids,
           (valid /\ misread = {}) => answers[i] = 0,
           answers' = IF valid THEN [answers EXCEPT ![i] = @ + 1] ELSE answers
    PROVE AnswerInv'
<1>1. CASE ~valid
  BY <1>1 DEF AnswerInv, AtMostOneAnswer
<1>2. CASE valid
  <2>1. answers' = [answers EXCEPT ![i] = answers[i] + 1] /\ answers[i] \in Nat
    BY <1>2 DEF AnswerInv
  <2>2. answers' \in [Ids -> Nat] /\ answers'[i] = answers[i] + 1
    BY <2>1 DEF AnswerInv
  <2>3. \A k \in Ids : k # i => answers'[k] = answers[k]
    BY <2>1 DEF AnswerInv
  <2>4. \A k \in Ids : answers'[k] > 0 => k \in StartedIds'
    BY <2>3 DEF AnswerInv
  <2>5. AtMostOneAnswer'
    <3> SUFFICES ASSUME misread' = {}, NEW k \in Ids PROVE answers'[k] <= 1
      BY DEF AtMostOneAnswer
    <3>1. misread = {}
      OBVIOUS
    <3>2. CASE k = i
      BY <1>2, <2>2, <3>1, <3>2
    <3>3. CASE k # i
      BY <2>3, <3>1, <3>3 DEF AnswerInv, AtMostOneAnswer
    <3> QED
      BY <3>2, <3>3
  <2>6. misread' = {} => \A k \in Pending(stack') : answers'[k] = 0
    <3> SUFFICES ASSUME misread' = {}, NEW k \in Pending(stack') PROVE answers'[k] = 0
      OBVIOUS
    <3>1. misread = {} /\ k \in Pending(stack) /\ k # i /\ k \in Ids
      OBVIOUS
    <3>2. answers[k] = 0
      BY <3>1 DEF AnswerInv
    <3> QED
      BY <2>3, <3>1, <3>2
  <2> QED
    BY <2>2, <2>4, <2>5, <2>6 DEF AnswerInv
<1> QED
  BY <1>1, <1>2

LEMMA AnswerStep ==
    ASSUME OrderInv, ShapeInv, ThrowInv, AnswerInv, [Next]_vars PROVE AnswerInv'
<1>1. /\ StartedIds \subseteq StartedIds' /\ (misread' = {} => misread = {})
      /\ Pending(stack) \subseteq StartedIds /\ StartedIds \subseteq Ids
      /\ ~ProcessCall /\ ~SetProperty => KeepsFrames
  BY StartedGrows, MisreadStep, PendingStarted, ShapeStep
<1>2. CASE KeepsAnswers /\ ~ProcessCall /\ ~SetProperty
  <2>1. Pending(stack') \subseteq Pending(stack) /\ answers' = answers
    BY <1>1, <1>2 DEF KeepsFrames, KeepsAnswers
  <2> QED
    BY <1>1, <2>1 DEF AnswerInv, AtMostOneAnswer
<1>3. ASSUME Take("CALL")
      PROVE /\ Head(incoming).id \in Ids /\ Head(incoming).id \in StartedIds'
            /\ answers[Head(incoming).id] = 0
  <2>1. /\ Head(incoming).id \in Ids \ StartedIds
        /\ StartedIds' = StartedIds \cup {Head(incoming).id}
    BY <1>3, TakeFacts
  <2>2. answers[Head(incoming).id] \in Nat /\ ~(answers[Head(incoming).id] > 0)
    BY <2>1 DEF AnswerInv
  <2> QED
    BY <2>1, <2>2
<1>4. CASE ProcessCall \/ SetProperty
  <2>1. Take("CALL") /\ answers' = answers
    BY <1>4 DEF ProcessCall, SetProperty
  <2>2. Pending(stack') \subseteq Pending(stack) \cup {Head(incoming).id}
    <3>1. CASE ProcessCall
      <4>1. stack' = CallStack("body")
        BY <3>1 DEF ProcessCall, CallStack
      <4> QED
        BY <2>1, <4>1, CallShape
    <3>2. CASE SetProperty
      <4>1. SendFrom(CallStack("setting"))
        BY <3>2 DEF SetProperty, CallStack
      <4> QED
        BY <2>1, <4>1, DirectShape
    <3> QED
      BY <1>4, <3>1, <3>2
  <2> QED
    BY <1>1, <1>3, <2>1, <2>2 DEF AnswerInv, AtMostOneAnswer
<1>5. CASE AnswerDirectly
  <2> DEFINE i == Head(incoming).id
  <2>1. /\ Take("CALL") /\ SendFrom(CallStack("direct"))
        /\ answers' = IF valid THEN [answers EXCEPT ![i] = @ + 1] ELSE answers
    BY <1>5 DEF AnswerDirectly, CallStack
  <2>2. i \in Ids /\ i \in StartedIds' /\ answers[i] = 0
    BY <1>3, <2>1
  <2>3. Pending(stack') \subseteq Pending(stack) \ {i}
    <3>1. i \notin StartedIds
      BY <2>1, TakeFacts
    <3> QED
      BY <1>1, <2>1, <3>1, DirectShape
  <2> HIDE DEF i
  <2> QED
    BY <1>1, <2>1, <2>2, <2>3, AnswerOnce
<1>6. CASE MethodReturn \/ MethodThrow \/ CatchAndAnswer \/ AnswerSet
  <2> DEFINE i == Top.id
  <2>1. PICK a \in {"replying", "failing", "direct"} : AnswerFrom(Moved(a), i)
    BY <1>6 DEF MethodReturn, MethodThrow, CatchAndAnswer, AnswerSet
  <2>2. stack # <<>> /\ Top = stack[Len(stack)] /\ Top.op = "call"
    BY <1>6 DEF MethodReturn, MethodThrow, CatchAndAnswer, AnswerSet, Runs, Unwinds, Top, Last
  <2>3. KeepsFrames /\ i \in StartedIds /\ i \notin Pending(stack')
    BY <2>1, <2>2, AnswerShape
  <2>4. (valid /\ misread = {}) => Top.at \in Unanswered
    <3>1. CASE MethodReturn \/ MethodThrow \/ AnswerSet
      BY <3>1 DEF MethodReturn, MethodThrow, AnswerSet, Runs, Unanswered
    <3>2. CASE CatchAndAnswer
      <4>1. throwing
        BY <3>2 DEF CatchAndAnswer, Unwinds
      <4>2. (valid /\ misread = {}) => UserFrame(Top)
        BY <2>2, <4>1 DEF ThrowInv, Excused, UserTop
      <4> QED
        BY <2>2, <4>2 DEF UserFrame, Unanswered
    <3> QED
      BY <1>6, <3>1, <3>2
  <2>5. Top.at \in Unanswered => i \in Pending(stack)
    <3>1. Len(stack) \in DOMAIN stack
      BY <2>2 DEF ShapeInv, Shape
    <3> QED
      BY <2>2, <3>1 DEF Pending
  <2>6. (valid /\ misread = {}) => answers[i] = 0
    BY <2>4, <2>5 DEF AnswerInv
  <2>7. answers' = IF valid THEN [answers EXCEPT ![i] = @ + 1] ELSE answers
    BY <2>1 DEF AnswerFrom
  <2> HIDE DEF i
  <2> QED
    BY <1>1, <2>3, <2>6, <2>7, AnswerOnce DEF KeepsFrames
<1> QED
  BY <1>2, <1>4, <1>5, <1>6, OtherAnswers

-----------------------------------------------------------------------------
(* The invariant holds at first and is kept by every step.                  *)
LEMMA InitInv == Init => DispatchInv
<1> SUFFICES ASSUME Init PROVE DispatchInv
  OBVIOUS
<1> USE DEF Init
<1>1. ShapeInv
  BY EmptyShape DEF ShapeInv
<1>2. OrderInv
  BY Constants DEF OrderInv, Ordered, BusTypes
<1>3. SenderInv
  BY DEF SenderInv, Sending
<1>4. FlushInv
  BY DEF FlushInv
<1>5. ThrowInv
  BY DEF ThrowInv, TerminatesOnlyOnDisconnect, Excused
<1>6. AnswerInv
  <2>1. answers = [i \in Ids |-> 0]
    OBVIOUS
  <2>2. answers \in [Ids -> Nat] /\ \A i \in Ids : answers[i] = 0
    BY <2>1
  <2>3. Pending(stack) = {}
    BY EmptyShape
  <2> QED
    BY <2>2, <2>3 DEF AnswerInv, AtMostOneAnswer
<1> QED
  BY <1>1, <1>2, <1>3, <1>4, <1>5, <1>6 DEF DispatchInv

LEMMA Invariance == Spec => []DispatchInv
<1>1. DispatchInv /\ [Next]_vars => DispatchInv'
  <2> SUFFICES ASSUME DispatchInv, [Next]_vars PROVE DispatchInv'
    OBVIOUS
  <2>1. ShapeInv' /\ OrderInv'
    BY ShapeStep, OrderStep DEF DispatchInv
  <2>2. SenderInv' /\ FlushInv'
    BY SenderStep DEF DispatchInv
  <2>3. ThrowInv' /\ AnswerInv'
    BY ThrowStep, AnswerStep DEF DispatchInv
  <2> QED
    BY <2>1, <2>2, <2>3 DEF DispatchInv
<1> QED
  BY InitInv, <1>1, PTL DEF Spec

(* Calls and signals reach their handlers in the order of the bus, although *)
(* a blocking call on the dispatching thread reads ahead of them and        *)
(* send() nests a dispatch() inside a handler.                              *)
THEOREM DispatchProcessedInOrder == Spec => []ProcessedInOrder
<1>1. DispatchInv => ProcessedInOrder
  BY DEF DispatchInv, OrderInv, Ordered, ProcessedInOrder
<1> QED
  BY Invariance, <1>1, PTL

(* What one thread sends is written in its order: the dispatching thread    *)
(* has flushed what it queued before it makes a blocking call, which is     *)
(* written past m_outgoingMessages.                                         *)
THEOREM DispatchSenderOrder == Spec => []SenderOrder
<1>1. DispatchInv => SenderOrder
  BY FlushSends DEF DispatchInv, SenderInv, SenderOrder
<1> QED
  BY Invariance, <1>1, PTL

(* A call is answered once: no exception reaches handle_call_message's      *)
(* catch clauses after its reply was queued, unless the connection has      *)
(* failed or the arguments of a Properties call had other types.            *)
THEOREM DispatchAtMostOneAnswer == Spec => []AtMostOneAnswer
<1>1. DispatchInv => AtMostOneAnswer
  BY DEF DispatchInv, AnswerInv
<1> QED
  BY Invariance, <1>1, PTL

(* An exception of the library unwinds the whole dispatching thread only    *)
(* when the connection has failed or the arguments of a Properties call had *)
(* other types; the null message that a blocking call logs ends the program *)
(* when the bus has closed the connection.                                  *)
THEOREM DispatchTerminates == Spec => []TerminatesOnlyOnDisconnect
<1>1. DispatchInv => TerminatesOnlyOnDisconnect
  BY DEF DispatchInv, ThrowInv
<1> QED
  BY Invariance, <1>1, PTL

=============================================================================
