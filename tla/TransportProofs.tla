-------------------------- MODULE TransportProofs --------------------------
(***************************************************************************)
(* Invariance proofs for Transport, for any lengths and number of messages *)
(* and any places where arrival pauses.  FramingInv follows the units that *)
(* are still to be read: they are the peer's messages one after the other  *)
(* (Runs), and what the reader has kept - the buffer, the reading state    *)
(* and the two counters, whose sum modulo 2^32 is what is left of the      *)
(* message - says where in them the socket stands.                         *)
(*                                                                         *)
(* Proofs for StandaloneDispatcher, which reads from such transports.      *)
(* Whenever the owner starts and stops the dispatcher and another thread   *)
(* adds connections, each connection that is dispatched knows the thread,  *)
(* and stop() leaves no thread behind, for any number of connections,      *)
(* starts and calls.  What the property says of states in which the loop   *)
(* runs rests on three invariants: where the owner is tells which thread   *)
(* m_dispatch_thread stands for (OwnerInv); a connection that is being     *)
(* added, or that the thread has passed in m_connections, has its id       *)
(* already (KnownInv); and so has its object (HandlerInv).                 *)
(***************************************************************************)
EXTENDS Transport, StandaloneDispatcher, TLAPS

Items(s) == {s[i] : i \in DOMAIN s}

(* Where readMessage is, and what its buffer has, in every state. *)
ReaderInv ==
    /\ kind = "sendmsg" => pc \in {"idle", "peek", "receive"} /\ Len(buf) = Fixed
    /\ kind = "simple" =>
         /\ pc \in {"idle", "first", "second", "body"}
         /\ rstate = "FirstHeaderPart" =>
              pc \in {"idle", "first"} /\ Len(buf) < Fixed /\ headerLeft = 0
         /\ rstate = "SecondHeaderPart" => pc \in {"idle", "second"} /\ Len(buf) >= Fixed
         /\ rstate = "Body" => pc \in {"idle", "body"} /\ Len(buf) >= Fixed /\ headerLeft = 0
    /\ \A u \in Items(buf) \cup Items(stream) \cup Items(pending) :
         u = Stale \/ u.msg \in 1..Len(sent)
TypeInv == TypeOK /\ ReaderInv

(* The units that are still to be read; the message they go on with. *)
Ahead == stream \o pending
Current == Len(delivered) + 1

(* In the messages of these shapes: from each of its units on, a message is *)
(* whole, and the next one follows.                                         *)
Runs(q, shapes) == \A i \in DOMAIN q :
    LET m == q[i].msg
        left == Length(shapes[m]) - q[i].pos
    IN /\ m \in 1..Len(shapes) /\ q[i].pos \in 1..Length(shapes[m])
       /\ i + left <= Len(q)
       /\ \A k \in 0..left : q[i + k] = Unit(m, q[i].pos + k)
       /\ IF m = Len(shapes) THEN i + left = Len(q)
          ELSE i + left < Len(q) /\ q[i + left + 1] = Unit(m + 1, 1)

(* The units begin with message m; they go on after p - 1 units of it. *)
Begins(q, shapes, m) == IF q = <<>> THEN m = Len(shapes) + 1 ELSE q[1] = Unit(m, 1)
AtUnit(q, shapes, m, p) ==
    /\ m \in 1..Len(shapes) /\ p \in 1..(Length(shapes[m]) + 1)
    /\ IF p <= Length(shapes[m]) THEN q # <<>> /\ q[1] = Unit(m, p) ELSE Begins(q, shapes, m + 1)

(* What the peer's messages and their arrival are like, unless noted. *)
PeerInv ==
    /\ Runs(Ahead, sent)
    /\ "long" \notin damage =>
         \A m \in DOMAIN sent : sent[m].array + sent[m].body <= MaxLength
    /\ "wrap" \notin damage => \A m \in DOMAIN sent : ~SeemsShort(sent[m])
    /\ ("split" \notin damage /\ pending # <<>>) =>
         pending[1].pos = 1 \/ (kind = "simple" /\ pending[1].pos = 2)

Copes == damage \subseteq (IF kind = "sendmsg" THEN {"long"} ELSE {"split"})

BeginsHere == Begins(Ahead, sent, Current)
GoesOn(p) == AtUnit(Ahead, sent, Current, p)
(* This much of the message is left. *)
GoesOnFor(n) == GoesOn(Length(sent[Current]) - n + 1) /\ n <= Length(sent[Current]) - Fixed

SendmsgInv ==
    /\ BeginsHere
    /\ pc = "receive" =>
         \/ stream = <<>> /\ closed = TRUE
         \/ stream # <<>> /\ buf[1] = Unit(Current, 1) /\ buf[2] = Unit(Current, 2)

Left == (headerLeft + bodyLeft) % Word
SimpleInv ==
    /\ rstate = "FirstHeaderPart" =>
         \/ buf = <<>> /\ BeginsHere
         \/ buf = <<Unit(Current, 1)>> /\ GoesOn(2)
    /\ rstate = "SecondHeaderPart" =>
         /\ buf[1] = Unit(Current, 1) /\ buf[2] = Unit(Current, 2)
         /\ headerLeft = 0 => Len(buf) = Fixed /\ GoesOn(Fixed + 1)
         /\ headerLeft # 0 => GoesOnFor(Left)
    /\ rstate = "Body" => GoesOnFor(Left)
    /\ damage = {} =>
         /\ rstate = "SecondHeaderPart" => headerLeft = 0
         /\ rstate = "Body" => bodyLeft = 0 /\ buf = Units(Current)

FramingInv ==
    /\ PeerInv
    /\ (kind = "sendmsg" /\ Copes) => SendmsgInv
    /\ (kind = "simple" /\ Copes) => SimpleInv
    /\ DeliveredInOrder

-----------------------------------------------------------------------------
(* Sequences.                                                              *)

LEMMA Cut ==
    ASSUME NEW S, NEW s \in Seq(S), NEW n \in 0..Len(s)
    PROVE  /\ SubSeq(s, 1, n) \in Seq(S) /\ Len(SubSeq(s, 1, n)) = n
           /\ \A i \in 1..n : SubSeq(s, 1, n)[i] = s[i]
           /\ SubSeq(s, n + 1, Len(s)) \in Seq(S)
           /\ Len(SubSeq(s, n + 1, Len(s))) = Len(s) - n
           /\ \A i \in 1..(Len(s) - n) : SubSeq(s, n + 1, Len(s))[i] = s[n + i]
  OBVIOUS

LEMMA Joined ==
    ASSUME NEW S, NEW s \in Seq(S), NEW t \in Seq(S)
    PROVE  /\ s \o t \in Seq(S) /\ Len(s \o t) = Len(s) + Len(t)
           /\ \A i \in 1..Len(s) : (s \o t)[i] = s[i]
           /\ \A i \in 1..Len(t) : (s \o t)[Len(s) + i] = t[i]
  OBVIOUS

LEMMA Same ==
    ASSUME NEW S, NEW s \in Seq(S), NEW t \in Seq(S), Len(s) = Len(t),
           \A i \in 1..Len(s) : s[i] = t[i]
    PROVE  s = t
  OBVIOUS

LEMMA CutItems ==
    ASSUME NEW S, NEW s \in Seq(S), NEW n \in 0..Len(s)
    PROVE  /\ Items(SubSeq(s, 1, n)) \subseteq Items(s)
           /\ Items(SubSeq(s, n + 1, Len(s))) \subseteq Items(s)
<1> DEFINE a == SubSeq(s, 1, n)
           b == SubSeq(s, n + 1, Len(s))
<1>1. /\ DOMAIN a = 1..n /\ \A i \in 1..n : a[i] = s[i]
      /\ DOMAIN b = 1..(Len(s) - n) /\ \A i \in 1..(Len(s) - n) : b[i] = s[n + i]
      /\ DOMAIN s = 1..Len(s) /\ Len(s) \in Nat
  BY Cut
<1> HIDE DEF a, b
<1>2. Items(a) \subseteq Items(s)
  BY <1>1 DEF Items
<1>3. Items(b) \subseteq Items(s)
  <2>1. \A i \in DOMAIN b : n + i \in DOMAIN s
    BY <1>1
  <2> QED
    BY <1>1, <2>1 DEF Items
<1> QED
  BY <1>2, <1>3 DEF a, b

LEMMA JoinedItems ==
    ASSUME NEW S, NEW s \in Seq(S), NEW t \in Seq(S)
    PROVE  Items(s \o t) \subseteq Items(s) \cup Items(t)
<1> DEFINE a == s \o t
<1>1. /\ DOMAIN a = 1..(Len(s) + Len(t)) /\ DOMAIN s = 1..Len(s) /\ DOMAIN t = 1..Len(t)
      /\ Len(s) \in Nat /\ Len(t) \in Nat
      /\ \A i \in 1..Len(s) : a[i] = s[i]
      /\ \A i \in 1..Len(t) : a[Len(s) + i] = t[i]
  BY Joined
<1> HIDE DEF a
<1>2. ASSUME NEW i \in DOMAIN a PROVE a[i] \in Items(s) \cup Items(t)
  <2>1. CASE i \in 1..Len(s)
    BY <1>1, <2>1 DEF Items
  <2>2. CASE i \notin 1..Len(s)
    <3>1. i - Len(s) \in DOMAIN t /\ a[i] = t[i - Len(s)]
      BY <1>1, <2>2
    <3> QED
      BY <3>1 DEF Items
  <2> QED
    BY <2>1, <2>2
<1> QED
  BY <1>2 DEF Items, a

LEMMA Arrives ==
    ASSUME TypeOK, NEW n \in Nat
    PROVE  Arrived(n) \in Nat /\ Arrived(n) <= n /\ Arrived(n) <= Len(stream)
<1>1. Len(stream) \in Nat
  BY DEF TypeOK
<1> QED
  BY <1>1 DEF Arrived

LEMMA Takes ==
    ASSUME TypeOK, NEW n \in Nat
    PROVE  /\ Arrived(n) \in 0..Len(stream) /\ Arrived(n) <= n
           /\ Arrived(n) = 0 => n = 0 \/ stream = <<>>
           /\ Take(Arrived(n)) \in Seq(UnitSet) /\ Drop(Arrived(n)) \in Seq(UnitSet)
           /\ Len(Take(Arrived(n))) = Arrived(n)
           /\ Items(Take(Arrived(n))) \subseteq Items(stream)
           /\ Items(Drop(Arrived(n))) \subseteq Items(stream)
<1>1. stream \in Seq(UnitSet) /\ Len(stream) \in Nat
  BY DEF TypeOK
<1>2. Arrived(n) \in 0..Len(stream) /\ Arrived(n) <= n /\ (Arrived(n) = 0 => n = 0 \/ stream = <<>>)
  BY <1>1 DEF Arrived
<1> QED
  BY <1>1, <1>2, Cut, CutItems DEF Take, Drop

(* Receiving is taking what has arrived of some length. *)
LEMMA Receives ==
    ASSUME TypeOK, NEW t \in Int
    PROVE  \E w \in Nat : Received(t) = Arrived(w) /\ (t > 0 => w = t) /\ (t <= 0 => w = 0)
<1>0. Len(stream) \in Nat
  BY DEF TypeOK
<1>1. CASE t > 0
  BY <1>1 DEF Received
<1>2. CASE t <= 0
  BY <1>0, <1>2 DEF Received, Arrived
<1> QED
  BY <1>1, <1>2

(* Arithmetic on a uint32_t. *)
LEMMA WordType == Word \in Nat /\ Word > 0 /\ MaxLength \in 0..(Word - 1)
  BY TransportAssumption

LEMMA Modulo ==
    ASSUME NEW w \in Nat, w > 0, NEW x \in Int
    PROVE  /\ x % w \in 0..(w - 1)
           /\ (0 <= x /\ x < w) => x % w = x
           /\ (w <= x /\ x < 2 * w) => x % w = x - w
           /\ (0 - w <= x /\ x < 0) => x % w = x + w
<1>1. x % w \in 0..(w - 1)
  OBVIOUS
<1>2. (0 <= x /\ x < w) => x % w = x
  OBVIOUS
<1>3. (w <= x /\ x < 2 * w) => x % w = x - w
  OBVIOUS
<1>4. (0 - w <= x /\ x < 0) => x % w = x + w
  OBVIOUS
<1> QED
  BY <1>1, <1>2, <1>3, <1>4

LEMMA ModWord ==
    ASSUME NEW x \in Int
    PROVE  /\ x % Word \in 0..(Word - 1)
           /\ (0 <= x /\ x < Word) => x % Word = x
           /\ (Word <= x /\ x < 2 * Word) => x % Word = x - Word
           /\ (0 - Word <= x /\ x < 0) => x % Word = x + Word
  BY WordType, Modulo

LEMMA MinusType == ASSUME NEW b \in Int, NEW n \in Int PROVE Minus(b, n) \in 0..(Word - 1)
<1>1. b - n \in Int
  OBVIOUS
<1> QED
  BY <1>1, ModWord DEF Minus

-----------------------------------------------------------------------------
(* Types.                                                                  *)

(* The lengths that a buffer announces. *)
LEMMA LengthTypes ==
    ASSUME TypeInv, Len(buf) >= Fixed
    PROVE  /\ BodyLength(buf) \subseteq 0..(Word - 1) /\ ArrayLength(buf) \subseteq 0..(Word - 1)
           /\ BodyLength(buf) \subseteq Nat /\ ArrayLength(buf) \subseteq Nat
<1>1. 1 \in DOMAIN buf /\ 2 \in DOMAIN buf
  BY DEF TypeInv, TypeOK, Fixed
<1>2. buf[1] \in Items(buf) /\ buf[2] \in Items(buf)
  BY <1>1 DEF Items
<1>3. ASSUME NEW u \in Items(buf), u.pos # 0
      PROVE  sent[u.msg].body \in 0..(Word - 1) /\ sent[u.msg].array \in 0..(Word - 1)
  <2>1. u.msg \in 1..Len(sent)
    BY <1>3 DEF TypeInv, ReaderInv, Stale, Unit
  <2>2. sent[u.msg] \in Shapes
    BY <2>1 DEF TypeInv, TypeOK
  <2> QED
    BY <2>2, TransportAssumption
<1>4. BodyLength(buf) \subseteq 0..(Word - 1) /\ ArrayLength(buf) \subseteq 0..(Word - 1)
  BY <1>2, <1>3 DEF BodyLength, ArrayLength
<1> QED
  BY <1>4, WordType

LEMMA TotalType ==
    ASSUME NEW a \in Nat, NEW b \in Nat
    PROVE  /\ Total(a, b) \in Int
           /\ 2 * b < Word => Signed(b) = b /\ Total(a, b) = Fixed + a + b
<1>1. Word \in Nat
  BY WordType
<1> QED
  BY <1>1 DEF Total, Signed, Fixed

LEMMA TypeInit == Init => TypeInv
<1> SUFFICES ASSUME Init PROVE TypeInv
  OBVIOUS
<1>1. /\ kind \in {"sendmsg", "simple"} /\ sent = <<>> /\ pending = <<>> /\ stream = <<>>
      /\ pc = "idle" /\ rstate = "FirstHeaderPart" /\ headerLeft = 0 /\ bodyLeft = 0
  BY TransportAssumption DEF Init
<1>2. Stale \in UnitSet
  BY TransportAssumption DEF Stale, Unit, UnitSet
<1>3. /\ buf \in Seq(UnitSet) /\ Items(buf) \subseteq {Stale}
      /\ kind = "sendmsg" => Len(buf) = 2
      /\ kind = "simple" => Len(buf) = 0
  <2>1. CASE kind = "sendmsg"
    <3>1. buf = <<Stale, Stale>>
      BY <2>1 DEF Init
    <3> QED
      BY <1>2, <2>1, <3>1 DEF Items
  <2>2. CASE kind # "sendmsg"
    <3>1. buf = <<>>
      BY <2>2 DEF Init
    <3> QED
      BY <2>2, <3>1 DEF Items
  <2> QED
    BY <2>1, <2>2
<1>4. ReaderInv
  BY <1>1, <1>3 DEF ReaderInv, Items, Fixed
<1>5. TypeOK
  <2>1. closed \in BOOLEAN /\ ok \in BOOLEAN /\ damage = {} /\ delivered = <<>> /\ kind \in Kinds
    BY DEF Init
  <2>2. 0 \in 0..(Word - 1)
    BY WordType
  <2> QED
    BY <1>1, <1>3, <2>1, <2>2, TransportAssumption DEF TypeOK
<1> QED
  BY <1>4, <1>5 DEF TypeInv

(* Where the units of a step's sequences come from. *)
LEMMA UnitsKnown ==
    ASSUME ReaderInv, sent' = sent,
           Items(buf)' \cup Items(stream)' \cup Items(pending)'
               \subseteq Items(buf) \cup Items(stream) \cup Items(pending)
    PROVE  \A u \in Items(buf)' \cup Items(stream)' \cup Items(pending)' :
               u = Stale \/ u.msg \in 1..Len(sent')
  BY DEF ReaderInv

(* What has been received replaces the front of the buffer. *)
Refilled(n) == Take(IF n < Fixed THEN n ELSE Fixed) \o SubSeq(buf, n + 1, Fixed)

LEMMA Refill ==
    ASSUME TypeOK, Len(buf) = Fixed, NEW n \in 0..Len(stream)
    PROVE  /\ Refilled(n) \in Seq(UnitSet) /\ Len(Refilled(n)) = Fixed
           /\ Items(Refilled(n)) \subseteq Items(buf) \cup Items(stream)
           /\ n = 0 => Refilled(n) = buf
           /\ n >= Fixed => Refilled(n)[1] = stream[1] /\ Refilled(n)[2] = stream[2]
<1> DEFINE k == IF n < Fixed THEN n ELSE Fixed
           a == SubSeq(stream, 1, k)
           b == SubSeq(buf, k + 1, Len(buf))
<1>1. /\ Fixed \in Nat /\ Fixed = 2 /\ stream \in Seq(UnitSet) /\ buf \in Seq(UnitSet)
      /\ k \in 0..Len(stream) /\ k \in 0..Len(buf) /\ Len(stream) \in Nat
  BY DEF Fixed, TypeOK
<1>2. /\ a \in Seq(UnitSet) /\ Len(a) = k /\ Items(a) \subseteq Items(stream)
      /\ \A i \in 1..k : a[i] = stream[i]
      /\ b \in Seq(UnitSet) /\ Len(b) = Len(buf) - k /\ Items(b) \subseteq Items(buf)
      /\ \A i \in 1..(Len(buf) - k) : b[i] = buf[k + i]
  <2> HIDE DEF k
  <2> QED
    BY <1>1, Cut, CutItems
<1>3. SubSeq(buf, n + 1, Fixed) = b
  BY <1>1
<1>4. Refilled(n) = a \o b
  BY <1>3 DEF Refilled, Take
<1> DEFINE c == a \o b
<1> HIDE DEF a, b, k
<1>5. /\ c \in Seq(UnitSet) /\ Len(c) = Fixed
      /\ \A i \in 1..k : c[i] = stream[i]
      /\ \A i \in 1..(Fixed - k) : c[k + i] = buf[k + i]
  <2>1. /\ c \in Seq(UnitSet) /\ Len(c) = Len(a) + Len(b)
        /\ \A i \in 1..Len(a) : c[i] = a[i]
        /\ \A i \in 1..Len(b) : c[Len(a) + i] = b[i]
    <3>1. a \in Seq(UnitSet) /\ b \in Seq(UnitSet)
      BY <1>2
    <3> QED
      BY <3>1, Joined
  <2> HIDE DEF c
  <2> QED
    BY <1>1, <1>2, <2>1
<1>6. Items(c) \subseteq Items(buf) \cup Items(stream)
  <2>1. Items(c) \subseteq Items(a) \cup Items(b)
    BY <1>2, JoinedItems
  <2> QED
    BY <1>2, <2>1
<1> HIDE DEF c
<1>7. n = 0 => c = buf
  <2> SUFFICES ASSUME n = 0 PROVE c = buf
    OBVIOUS
  <2>1. k = 0
    BY <1>1 DEF k
  <2>2. Len(c) = Len(buf) /\ \A i \in 1..Len(c) : c[i] = buf[i]
    BY <1>1, <1>5, <2>1
  <2> QED
    BY <1>1, <1>5, <2>2, Same
<1>8. n >= Fixed => c[1] = stream[1] /\ c[2] = stream[2]
  <2>1. n >= Fixed => k = 2
    BY <1>1 DEF k
  <2> QED
    BY <1>5, <2>1
<1>9. Refilled(n) = c
  BY <1>4 DEF c
<1> QED
  BY <1>5, <1>6, <1>7, <1>8, <1>9

LEMMA MadeType == ASSUME TypeOK, NEW u PROVE Made(u) \in 0..MaxMessages
<1>1. Len(sent) \in Nat /\ Len(sent) <= MaxMessages /\ MaxMessages \in Nat
  BY TransportAssumption DEF TypeOK
<1>2. CASE \E m \in 1..Len(sent) : u = Units(m)
  <2>1. Made(u) \in 1..Len(sent)
    BY <1>2 DEF Made
  <2> QED
    BY <1>1, <2>1
<1>3. CASE ~\E m \in 1..Len(sent) : u = Units(m)
  BY <1>1, <1>3 DEF Made
<1> QED
  BY <1>2, <1>3

(* The steps of SendmsgTransport. *)
LEMMA SendmsgTypes == ASSUME TypeInv, SendmsgStep PROVE TypeInv'
<1> USE DEF TypeInv
<1>0. kind = "sendmsg" /\ pc \in {"peek", "receive"} /\ Len(buf) = Fixed /\ kind' = kind
  BY TransportAssumption DEF SendmsgStep, Peek, BadOrder, PurgeData, Receive, TypeOK, ReaderInv
<1>1. CASE Peek
  <2>1. UNCHANGED <<kind, sent, pending, closed, damage, stream, ok, rstate, headerLeft, bodyLeft, delivered>>
        /\ pc' \in {"idle", "receive"}
    BY <1>1 DEF Peek, peerVars, simpleVars
  <2>2. /\ buf' \in Seq(UnitSet) /\ Len(buf') = Fixed
        /\ Items(buf') \subseteq Items(buf) \cup Items(stream)
    <3>1. CASE buf' = buf
      BY <1>0, <3>1 DEF TypeOK
    <3>2. CASE buf' # buf
      <4>1. Arrived(Fixed) \in 0..Len(stream) /\ Arrived(Fixed) <= Fixed
        BY Takes DEF Fixed
      <4>2. buf' = Take(Arrived(Fixed)) \o SubSeq(buf, Arrived(Fixed) + 1, Fixed)
        BY <1>1, <3>2 DEF Peek
      <4>3. Arrived(Fixed) = IF Arrived(Fixed) < Fixed THEN Arrived(Fixed) ELSE Fixed
        BY <4>1 DEF TypeOK, Fixed
      <4>4. buf' = Refilled(Arrived(Fixed))
        BY <4>2, <4>3 DEF Refilled
      <4> QED
        BY <1>0, <4>1, <4>4, Refill
    <3> QED
      BY <3>1, <3>2
  <2> QED
    BY <1>0, <2>1, <2>2, UnitsKnown DEF TypeOK, ReaderInv
<1>2. CASE BadOrder \/ PurgeData
  <2>1. UNCHANGED <<kind, sent, pending, closed, damage, stream, buf, rstate, headerLeft, bodyLeft, delivered>>
        /\ pc' = "idle" /\ ok' \in BOOLEAN
    BY <1>2 DEF BadOrder, PurgeData, peerVars, simpleVars, TypeOK
  <2> QED
    BY <1>0, <2>1, UnitsKnown DEF TypeOK, ReaderInv
<1>3. CASE Receive
  <2>1. UNCHANGED <<kind, sent, pending, closed, damage, rstate, headerLeft, bodyLeft>> /\ pc' = "idle"
    BY <1>3 DEF Receive, peerVars, simpleVars
  <2>2. PICK b \in BodyLength(buf), a \in ArrayLength(buf) :
          /\ ok' = ReceivedAny(Received(Total(a, b)))
          /\ delivered' = IF Received(Total(a, b)) = 0 THEN delivered
                          ELSE Append(delivered, IF Received(Total(a, b)) = Total(a, b)
                                                 THEN Made(Take(Received(Total(a, b)))) ELSE 0)
          /\ buf' = Refilled(Received(Total(a, b)))
          /\ stream' = Drop(Received(Total(a, b)))
    BY <1>3 DEF Receive, Refilled
  <2>3. PICK w \in Nat : Received(Total(a, b)) = Arrived(w)
    <3>1. a \in Nat /\ b \in Nat
      BY <1>0, LengthTypes
    <3>2. Total(a, b) \in Int
      BY <3>1, TotalType
    <3> QED
      BY <3>2, Receives
  <2>4. PICK n \in 0..Len(stream) : n = Received(Total(a, b))
    BY <2>3, Takes
  <2>5. stream' \in Seq(UnitSet) /\ Items(stream') \subseteq Items(stream)
    BY <2>2, <2>3, Takes
  <2>6. buf' \in Seq(UnitSet) /\ Len(buf') = Fixed /\ Items(buf') \subseteq Items(buf) \cup Items(stream)
    BY <1>0, <2>2, <2>4, Refill
  <2>7. delivered' \in Seq(0..MaxMessages)
    <3>1. PICK x : x = IF Received(Total(a, b)) = Total(a, b)
                       THEN Made(Take(Received(Total(a, b)))) ELSE 0
      OBVIOUS
    <3>2. x \in 0..MaxMessages
      BY <3>1, MadeType, TransportAssumption
    <3>3. delivered' = delivered \/ delivered' = Append(delivered, x)
      BY <2>2, <3>1
    <3>4. delivered \in Seq(0..MaxMessages)
      BY DEF TypeOK
    <3>5. \A S : \A d \in Seq(S), y \in S : Append(d, y) \in Seq(S)
      OBVIOUS
    <3> QED
      BY <3>2, <3>3, <3>4, <3>5, Zenon
  <2>8. ok' \in BOOLEAN
    BY <2>2 DEF ReceivedAny
  <2> QED
    BY <1>0, <2>1, <2>5, <2>6, <2>7, <2>8, UnitsKnown DEF TypeOK, ReaderInv
<1> QED
  BY <1>1, <1>2, <1>3 DEF SendmsgStep

(* The steps of SimpleTransport. *)
LEMMA SimpleTypes == ASSUME TypeInv, SimpleStep PROVE TypeInv'
<1> USE DEF TypeInv
<1>0. kind = "simple" /\ pc \in {"first", "second", "body"} /\ kind' = kind
  BY TransportAssumption DEF SimpleStep, ReadBlocks, First, Purge, Second, BodyRead, BodyDone,
     TypeOK, ReaderInv
<1>a. /\ stream \in Seq(UnitSet) /\ buf \in Seq(UnitSet) /\ pending \in Seq(UnitSet)
      /\ Len(buf) \in Nat /\ Len(stream) \in Nat
      /\ bodyLeft \in 0..(Word - 1) /\ headerLeft \in 0..(Word - 1) /\ Word \in Nat
  <2>1. Word \in Nat
    BY WordType
  <2> QED
    BY <2>1 DEF TypeOK
<1>b. ASSUME NEW n \in Nat
      PROVE  LET u == Take(Arrived(n)) IN
             /\ buf \o u \in Seq(UnitSet) /\ Len(buf \o u) = Len(buf) + Arrived(n)
             /\ Items(buf \o u) \subseteq Items(buf) \cup Items(stream)
             /\ Drop(Arrived(n)) \in Seq(UnitSet) /\ Items(Drop(Arrived(n))) \subseteq Items(stream)
  <2> DEFINE u == Take(Arrived(n))
  <2>1. u \in Seq(UnitSet) /\ Len(u) = Arrived(n) /\ Items(u) \subseteq Items(stream)
        /\ Drop(Arrived(n)) \in Seq(UnitSet) /\ Items(Drop(Arrived(n))) \subseteq Items(stream)
    BY Takes
  <2> HIDE DEF u
  <2>2. buf \o u \in Seq(UnitSet) /\ Len(buf \o u) = Len(buf) + Len(u)
    BY <1>a, <2>1, Joined
  <2>3. Items(buf \o u) \subseteq Items(buf) \cup Items(u)
    BY <1>a, <2>1, JoinedItems
  <2>4. /\ buf \o u \in Seq(UnitSet) /\ Len(buf \o u) = Len(buf) + Arrived(n)
        /\ Items(buf \o u) \subseteq Items(buf) \cup Items(stream)
    BY <2>1, <2>2, <2>3
  <2> QED
    BY <2>1, <2>4 DEF u
<1>1. CASE ReadBlocks
  <2>1. UNCHANGED <<kind, sent, pending, closed, damage, stream, ok, buf, rstate, headerLeft, bodyLeft, delivered>>
        /\ pc' = "idle"
    BY <1>1 DEF ReadBlocks, peerVars, simpleVars
  <2> QED
    BY <1>0, <2>1, UnitsKnown DEF TypeOK, ReaderInv
<1>2. CASE First
  <2>1. UNCHANGED <<kind, sent, pending, closed, damage, headerLeft, bodyLeft, delivered>>
        /\ pc = "first"
    BY <1>2 DEF First, peerVars
  <2>2. rstate = "FirstHeaderPart" /\ Len(buf) < Fixed /\ headerLeft = 0
    BY <1>0, <2>1 DEF ReaderInv, TypeOK
  <2>3. PICK n \in Nat : n = Fixed - Len(buf)
    BY <1>a, <2>2 DEF Fixed
  <2>4. /\ ok' = (Arrived(n) > 0) /\ buf' = buf \o Take(Arrived(n)) /\ stream' = Drop(Arrived(n))
        /\ rstate' = IF Len(buf) + Arrived(n) = Fixed THEN "SecondHeaderPart" ELSE rstate
        /\ pc' = IF Len(buf) + Arrived(n) = Fixed THEN "second" ELSE "idle"
    BY <1>2, <2>3 DEF First
  <2>5. Arrived(n) \in Nat /\ Arrived(n) <= n
    BY Arrives
  <2>6. /\ buf' \in Seq(UnitSet) /\ Len(buf') = Len(buf) + Arrived(n)
        /\ Items(buf') \subseteq Items(buf) \cup Items(stream)
        /\ stream' \in Seq(UnitSet) /\ Items(stream') \subseteq Items(stream)
    BY <1>b, <2>4
  <2>7. Len(buf') <= Fixed /\ (Len(buf') < Fixed <=> Len(buf) + Arrived(n) # Fixed)
    BY <1>a, <2>3, <2>5, <2>6 DEF Fixed
  <2>8. /\ ok' \in BOOLEAN /\ pc' \in {"second", "idle"} /\ rstate' \in {"FirstHeaderPart", "SecondHeaderPart"}
        /\ rstate' = "FirstHeaderPart" => pc' = "idle" /\ Len(buf') < Fixed
        /\ rstate' = "SecondHeaderPart" => Len(buf') >= Fixed
    BY <2>2, <2>4, <2>6, <2>7 DEF Fixed
  <2>9. TypeOK'
    BY <2>1, <2>6, <2>8 DEF TypeOK
  <2> QED
    BY <1>0, <2>1, <2>2, <2>6, <2>8, <2>9, UnitsKnown DEF ReaderInv
<1>3. CASE Purge
  <2>1. UNCHANGED <<kind, sent, pending, closed, damage, ok, bodyLeft, delivered>>
        /\ pc' = "idle" /\ buf' = <<>> /\ stream' = <<>> /\ headerLeft' = 0 /\ rstate' = "FirstHeaderPart"
    BY <1>3 DEF Purge, peerVars
  <2>2. Items(buf') = {} /\ Items(stream') = {} /\ Len(buf') = 0
    BY <2>1 DEF Items
  <2>3. TypeOK'
    BY <1>a, <2>1 DEF TypeOK
  <2> QED
    BY <1>0, <2>1, <2>2, <2>3, UnitsKnown DEF ReaderInv, Fixed
<1>4. CASE Second
  <2>1. UNCHANGED <<kind, sent, pending, closed, damage, ok, delivered>> /\ pc = "second"
    BY <1>4 DEF Second, peerVars
  <2>2. rstate = "SecondHeaderPart" /\ Len(buf) >= Fixed
    BY <1>0, <2>1 DEF ReaderInv, TypeOK
  <2>3. PICK h, b :
          /\ IF headerLeft = 0 THEN h \in ArrayLength(buf) /\ b \in BodyLength(buf)
             ELSE h = headerLeft /\ b = bodyLeft
          /\ IF (h + b) % Word > 0 /\ WouldBlock
             THEN /\ headerLeft' = h /\ bodyLeft' = b /\ pc' = "idle"
                  /\ UNCHANGED <<buf, stream, rstate>>
             ELSE LET n == Arrived((h + b) % Word) IN
                  /\ buf' = buf \o Take(n) /\ stream' = Drop(n)
                  /\ headerLeft' = IF n >= h THEN 0 ELSE h
                  /\ bodyLeft' = Minus(b, IF n >= h THEN n - h ELSE n)
                  /\ rstate' = IF n >= h THEN "Body" ELSE rstate
                  /\ pc' = IF n >= h THEN "body" ELSE "idle"
    BY <1>4 DEF Second, ArrayDone
  <2>4. h \in 0..(Word - 1) /\ b \in 0..(Word - 1)
    <3>1. CASE headerLeft = 0
      BY <2>2, <2>3, <3>1, LengthTypes
    <3>2. CASE headerLeft # 0
      BY <1>a, <2>3, <3>2
    <3> QED
      BY <3>1, <3>2
  <2>5. CASE (h + b) % Word > 0 /\ WouldBlock
    <3>1. headerLeft' = h /\ bodyLeft' = b /\ pc' = "idle" /\ UNCHANGED <<buf, stream, rstate>>
      BY <2>3, <2>5
    <3> QED
      BY <1>0, <2>1, <2>2, <2>4, <3>1, UnitsKnown DEF TypeOK, ReaderInv
  <2>6. CASE ~((h + b) % Word > 0 /\ WouldBlock)
    <3>0. h + b \in Int
      BY <1>a, <2>4
    <3>1. PICK want \in Nat : want = (h + b) % Word
      <4>1. (h + b) % Word \in 0..(Word - 1)
        BY <3>0, ModWord
      <4> QED
        BY <1>a, <4>1
    <3>2. PICK n \in Nat : n = Arrived(want)
      BY <1>a, <3>1, Takes
    <3>3. /\ buf' = buf \o Take(n) /\ stream' = Drop(n)
          /\ headerLeft' = IF n >= h THEN 0 ELSE h
          /\ bodyLeft' = Minus(b, IF n >= h THEN n - h ELSE n)
          /\ rstate' = IF n >= h THEN "Body" ELSE rstate
          /\ pc' = IF n >= h THEN "body" ELSE "idle"
      BY <2>3, <2>6, <3>1, <3>2
    <3>4. /\ buf' \in Seq(UnitSet) /\ Len(buf') = Len(buf) + n
          /\ Items(buf') \subseteq Items(buf) \cup Items(stream)
          /\ stream' \in Seq(UnitSet) /\ Items(stream') \subseteq Items(stream)
      BY <1>b, <3>1, <3>2, <3>3
    <3>5. bodyLeft' \in 0..(Word - 1)
      <4>1. b \in Int /\ (IF n >= h THEN n - h ELSE n) \in Int
        BY <1>a, <2>4
      <4> QED
        BY <3>3, <4>1, MinusType
    <3>6. /\ headerLeft' \in 0..(Word - 1) /\ rstate' \in {"SecondHeaderPart", "Body"} /\ pc' \in {"idle", "body"}
          /\ rstate' = "SecondHeaderPart" => pc' = "idle"
          /\ rstate' = "Body" => headerLeft' = 0
      BY <1>a, <2>2, <2>4, <3>3
    <3>7. Len(buf') >= Fixed
      BY <1>a, <2>2, <3>4 DEF Fixed
    <3>8. TypeOK'
      <4>1. /\ buf' \in Seq(UnitSet) /\ stream' \in Seq(UnitSet)
            /\ pc' \in {"idle", "peek", "receive", "first", "second", "body"}
            /\ rstate' \in {"FirstHeaderPart", "SecondHeaderPart", "Body"}
        BY <3>4, <3>6
      <4>2. /\ kind \in Kinds /\ sent \in Seq(Shapes) /\ Len(sent) <= MaxMessages
            /\ pending \in Seq(UnitSet) /\ closed \in BOOLEAN /\ ok \in BOOLEAN
            /\ delivered \in Seq(0..MaxMessages) /\ damage \subseteq {"split", "long", "wrap"}
        BY DEF TypeOK
      <4> QED
        BY <2>1, <3>5, <3>6, <4>1, <4>2 DEF TypeOK
    <3>9. \A u \in Items(buf)' \cup Items(stream)' \cup Items(pending)' :
               u = Stale \/ u.msg \in 1..Len(sent')
      <4>1. Items(buf)' \cup Items(stream)' \cup Items(pending)'
               \subseteq Items(buf) \cup Items(stream) \cup Items(pending)
        BY <2>1, <3>4
      <4> QED
        BY <2>1, <4>1, UnitsKnown
    <3>10. ReaderInv'
      BY <1>0, <3>6, <3>7, <3>9 DEF ReaderInv
    <3> QED
      BY <3>8, <3>10
  <2> QED
    BY <2>5, <2>6
<1>5. CASE BodyRead
  <2>1. UNCHANGED <<kind, sent, pending, closed, damage, ok, buf, rstate, headerLeft, delivered>>
        /\ stream' = Drop(Arrived(bodyLeft)) /\ bodyLeft' = Minus(bodyLeft, Arrived(bodyLeft))
        /\ pc = "body" /\ pc' \in {"body", "idle"}
    BY <1>5 DEF BodyRead, peerVars
  <2>2. bodyLeft \in Nat /\ Arrived(bodyLeft) \in Nat
    <3>1. bodyLeft \in Nat
      BY <1>a
    <3> QED
      BY <3>1, Arrives
  <2>3. bodyLeft' \in 0..(Word - 1)
    BY <2>1, <2>2, MinusType
  <2>4. stream' \in Seq(UnitSet) /\ Items(stream') \subseteq Items(stream)
    BY <2>1, <2>2, Takes
  <2>5. rstate = "Body"
    BY <1>0, <2>1 DEF ReaderInv, TypeOK
  <2>6. TypeOK'
    BY <2>1, <2>3, <2>4 DEF TypeOK
  <2> QED
    BY <1>0, <2>1, <2>4, <2>5, <2>6, UnitsKnown DEF ReaderInv
<1>6. CASE BodyDone
  <2>1. UNCHANGED <<kind, sent, pending, closed, damage, ok, stream, bodyLeft>>
        /\ pc' = "idle" /\ buf' = <<>> /\ headerLeft' = 0 /\ rstate' = "FirstHeaderPart"
        /\ delivered' = Append(delivered, Made(buf))
    BY <1>6 DEF BodyDone, peerVars
  <2>2. Items(buf') = {} /\ Len(buf') = 0
    BY <2>1 DEF Items
  <2>3. delivered' \in Seq(0..MaxMessages)
    <3>1. Made(buf) \in 0..MaxMessages /\ delivered \in Seq(0..MaxMessages)
      BY MadeType DEF TypeOK
    <3>2. \A S : \A d \in Seq(S), y \in S : Append(d, y) \in Seq(S)
      OBVIOUS
    <3> QED
      BY <2>1, <3>1, <3>2, Zenon
  <2>4. TypeOK'
    BY <1>a, <2>1, <2>3 DEF TypeOK
  <2> QED
    BY <1>0, <2>1, <2>2, <2>4, UnitsKnown DEF ReaderInv, Fixed
<1> QED
  BY <1>1, <1>2, <1>3, <1>4, <1>5, <1>6 DEF SimpleStep

(* The peer's steps. *)
LEMMA PeerTypes == ASSUME TypeInv, PeerStep PROVE TypeInv'
<1> USE DEF TypeInv
<1>1. ASSUME NEW s \in Shapes, PeerSend(s) PROVE TypeInv'
  <2> DEFINE new == [i \in 1..Length(s) |-> Unit(Len(sent) + 1, i)]
  <2>1. /\ UNCHANGED <<kind, stream, closed, ok, pc, buf, rstate, headerLeft, bodyLeft, delivered>>
        /\ sent' = Append(sent, s) /\ Len(sent) < MaxMessages /\ pending' = new
    BY <1>1 DEF PeerSend, simpleVars
  <2>2. damage' \subseteq {"split", "long", "wrap"}
    BY <1>1 DEF PeerSend, TypeOK
  <2>3. Len(sent) \in Nat /\ MaxMessages \in Nat /\ Length(s) \in Nat /\ sent \in Seq(Shapes)
    BY TransportAssumption DEF TypeOK, Length, Fixed
  <2>4. sent' \in Seq(Shapes) /\ Len(sent') = Len(sent) + 1 /\ Len(sent') <= MaxMessages
    BY <2>1, <2>3
  <2>5. \A i \in 1..Length(s) : Unit(Len(sent) + 1, i) \in UnitSet
    BY <2>1, <2>3 DEF Unit, UnitSet
  <2>6. new \in Seq(UnitSet) /\ \A u \in Items(new) : u.msg = Len(sent) + 1
    BY <2>3, <2>5 DEF Items, Unit
  <2> HIDE DEF new
  <2>7. TypeOK'
    BY <2>1, <2>2, <2>4, <2>6 DEF TypeOK
  <2>8. \A u \in Items(buf)' \cup Items(stream)' \cup Items(pending)' :
               u = Stale \/ u.msg \in 1..Len(sent')
    <3>1. \A u \in Items(buf) \cup Items(stream) : u = Stale \/ u.msg \in 1..Len(sent')
      BY <2>3, <2>4 DEF ReaderInv
    <3>2. \A u \in Items(new) : u.msg \in 1..Len(sent')
      BY <2>3, <2>4, <2>6
    <3> QED
      BY <2>1, <3>1, <3>2
  <2> QED
    BY <2>1, <2>7, <2>8 DEF ReaderInv
<1>2. ASSUME NEW n \in 1..Len(pending), PeerDeliver(n) PROVE TypeInv'
  <2>0. /\ pending \in Seq(UnitSet) /\ stream \in Seq(UnitSet)
        /\ Len(pending) \in Nat /\ n \in 0..Len(pending)
    BY DEF TypeOK
  <2> DEFINE a == SubSeq(pending, 1, n)
             b == SubSeq(pending, n + 1, Len(pending))
  <2>1. /\ UNCHANGED <<kind, sent, closed, ok, pc, buf, rstate, headerLeft, bodyLeft, delivered>>
        /\ stream' = stream \o a /\ pending' = b
    BY <1>2 DEF PeerDeliver, simpleVars
  <2>2. damage' \subseteq {"split", "long", "wrap"}
    BY <1>2 DEF PeerDeliver, TypeOK
  <2>3. a \in Seq(UnitSet) /\ b \in Seq(UnitSet)
        /\ Items(a) \subseteq Items(pending) /\ Items(b) \subseteq Items(pending)
    BY <2>0, Cut, CutItems
  <2> HIDE DEF a, b
  <2>4. stream' \in Seq(UnitSet) /\ Items(stream') \subseteq Items(stream) \cup Items(a)
    BY <2>0, <2>1, <2>3, Joined, JoinedItems
  <2>5. TypeOK'
    BY <2>1, <2>2, <2>3, <2>4 DEF TypeOK
  <2>6. Items(buf)' \cup Items(stream)' \cup Items(pending)'
               \subseteq Items(buf) \cup Items(stream) \cup Items(pending)
    BY <2>1, <2>3, <2>4
  <2> QED
    BY <2>1, <2>5, <2>6, UnitsKnown DEF ReaderInv
<1>3. CASE PeerClose
  <2>1. UNCHANGED <<kind, sent, pending, stream, ok, pc, buf, rstate, headerLeft, bodyLeft, delivered,
                    damage>> /\ closed' = TRUE
    BY <1>3 DEF PeerClose, simpleVars
  <2> QED
    BY <2>1, UnitsKnown DEF TypeOK, ReaderInv
<1> QED
  BY <1>1, <1>2, <1>3 DEF PeerStep

LEMMA TypeStep == TypeInv /\ [Next]_vars => TypeInv'
<1> SUFFICES ASSUME TypeInv, [Next]_vars PROVE TypeInv'
  OBVIOUS
<1>1. CASE ReadMessage
  <2>1. UNCHANGED <<kind, sent, pending, closed, damage, stream, ok, buf, rstate, headerLeft, bodyLeft, delivered>>
    BY <1>1 DEF ReadMessage, peerVars, simpleVars
  <2>2. /\ kind = "sendmsg" => pc' = "peek"
        /\ kind = "simple" =>
             /\ rstate = "FirstHeaderPart" => pc' = "first"
             /\ rstate = "SecondHeaderPart" => pc' = "second"
             /\ rstate = "Body" => pc' = "body"
    BY <1>1 DEF ReadMessage
  <2>3. kind \in {"sendmsg", "simple"} /\ rstate \in {"FirstHeaderPart", "SecondHeaderPart", "Body"}
    BY TransportAssumption DEF TypeInv, TypeOK
  <2> QED
    BY <2>1, <2>2, <2>3, UnitsKnown DEF TypeInv, TypeOK, ReaderInv
<1>2. CASE UNCHANGED vars
  BY <1>2, UnitsKnown DEF vars, TypeInv, TypeOK, ReaderInv
<1> QED
  BY <1>1, <1>2, SendmsgTypes, SimpleTypes, PeerTypes DEF Next, ReaderStep

(* Type correctness, for both transports. *)
THEOREM TransportTypes == Spec => []TypeOK
<1>1. TypeInv => TypeOK
  BY DEF TypeInv
<1> QED
  BY <1>1, TypeInit, TypeStep, PTL DEF Spec

-----------------------------------------------------------------------------
(* Framing.                                                                *)

Rest(q, n) == SubSeq(q, n + 1, Len(q))

LEMMA LengthType == \A x \in Shapes : Length(x) \in Nat /\ Length(x) >= Fixed /\ Fixed = 2
  BY TransportAssumption DEF Length, Fixed

LEMMA UnitFields == \A m, i : Unit(m, i).msg = m /\ Unit(m, i).pos = i
  BY DEF Unit

(* Message m goes on at place i of q, from its unit p to its last. *)
RunFrom(q, shapes, i, m, p) ==
    /\ m \in 1..Len(shapes) /\ Length(shapes[m]) \in Nat /\ p \in 1..Length(shapes[m])
    /\ i + (Length(shapes[m]) - p) <= Len(q)
    /\ \A k \in 0..(Length(shapes[m]) - p) : q[i + k] = Unit(m, p + k)
    /\ m = Len(shapes) => i + (Length(shapes[m]) - p) = Len(q)
    /\ m # Len(shapes) => /\ i + (Length(shapes[m]) - p) < Len(q)
                          /\ q[i + (Length(shapes[m]) - p) + 1] = Unit(m + 1, 1)

LEMMA RunsAt ==
    ASSUME NEW s \in Seq(Shapes), NEW q \in Seq(UnitSet), Runs(q, s), NEW i \in 1..Len(q),
           NEW m, NEW p, q[i] = Unit(m, p)
    PROVE  RunFrom(q, s, i, m, p)
<1>1. i \in DOMAIN q /\ q[i].msg = m /\ q[i].pos = p
  BY UnitFields
<1>2. m \in 1..Len(s)
  BY <1>1 DEF Runs
<1>3. s[m] \in Shapes
  BY <1>2
<1> QED
  BY <1>1, <1>2, <1>3, LengthType DEF Runs, RunFrom

LEMMA RunIs ==
    ASSUME NEW r, NEW z, NEW i, NEW m \in 1..Len(z), NEW p \in 1..Length(z[m]), Length(z[m]) \in Nat,
           NEW left, left = Length(z[m]) - p, i + left <= Len(r),
           \A k \in 0..left : r[i + k] = Unit(m, p + k),
           m = Len(z) => i + left = Len(r),
           m # Len(z) => i + left < Len(r) /\ r[i + left + 1] = Unit(m + 1, 1)
    PROVE  RunFrom(r, z, i, m, p)
  BY DEF RunFrom

LEMMA RunsFrom ==
    ASSUME NEW s, NEW q \in Seq(UnitSet),
           \A i \in 1..Len(q) : \E m, p : q[i] = Unit(m, p) /\ RunFrom(q, s, i, m, p)
    PROVE  Runs(q, s)
<1> SUFFICES ASSUME NEW i \in 1..Len(q)
             PROVE  LET m == q[i].msg
                        left == Length(s[m]) - q[i].pos
                    IN /\ m \in 1..Len(s) /\ q[i].pos \in 1..Length(s[m])
                       /\ i + left <= Len(q)
                       /\ \A k \in 0..left : q[i + k] = Unit(m, q[i].pos + k)
                       /\ IF m = Len(s) THEN i + left = Len(q)
                          ELSE i + left < Len(q) /\ q[i + left + 1] = Unit(m + 1, 1)
  BY DEF Runs
<1>1. PICK m, p : q[i] = Unit(m, p) /\ RunFrom(q, s, i, m, p)
  OBVIOUS
<1>2. q[i].msg = m /\ q[i].pos = p
  BY <1>1, UnitFields
<1> QED
  BY <1>1, <1>2 DEF RunFrom

LEMMA RunsRest ==
    ASSUME NEW s \in Seq(Shapes), NEW q \in Seq(UnitSet), Runs(q, s), NEW n \in 0..Len(q)
    PROVE  Runs(Rest(q, n), s)
<1> DEFINE r == Rest(q, n)
<1>1. PICK N \in Nat : /\ N = Len(q) - n /\ Len(q) = N + n /\ n \in Nat
                       /\ Len(r) = N /\ DOMAIN r = 1..N /\ \A i \in 1..N : r[i] = q[n + i]
  <2>1. /\ Len(q) \in Nat /\ n \in Nat /\ n <= Len(q) /\ r \in Seq(UnitSet) /\ Len(r) = Len(q) - n
        /\ \A i \in 1..(Len(q) - n) : r[i] = q[n + i]
    BY Cut DEF Rest
  <2> HIDE DEF r
  <2> QED
    BY <2>1
<1> HIDE DEF r
<1>2. ASSUME NEW i \in 1..N
      PROVE  LET m == r[i].msg
                 left == Length(s[m]) - r[i].pos
             IN /\ m \in 1..Len(s) /\ r[i].pos \in 1..Length(s[m])
                /\ i + left <= Len(r)
                /\ \A k \in 0..left : r[i + k] = Unit(m, r[i].pos + k)
                /\ IF m = Len(s) THEN i + left = Len(r)
                   ELSE i + left < Len(r) /\ r[i + left + 1] = Unit(m + 1, 1)
  <2>1. PICK j \in 1..Len(q) : j = n + i /\ r[i] = q[j]
    BY <1>1
  <2>2. PICK m, p : q[j] = Unit(m, p) /\ m = q[j].msg /\ p = q[j].pos
    <3>1. q[j] \in UnitSet
      BY <2>1
    <3> QED
      BY <3>1 DEF UnitSet, Unit
  <2>3. /\ m \in 1..Len(s) /\ Length(s[m]) \in Nat /\ p \in 1..Length(s[m])
        /\ j + (Length(s[m]) - p) <= Len(q)
        /\ \A k \in 0..(Length(s[m]) - p) : q[j + k] = Unit(m, p + k)
        /\ m = Len(s) => j + (Length(s[m]) - p) = Len(q)
        /\ m # Len(s) => /\ j + (Length(s[m]) - p) < Len(q)
                         /\ q[j + (Length(s[m]) - p) + 1] = Unit(m + 1, 1)
    <3>1. RunFrom(q, s, j, m, p)
      <4>1. q[j] = Unit(m, p)
        BY <2>2
      <4> QED
        BY <4>1, RunsAt
    <3> QED
      BY <3>1 DEF RunFrom
  <2>4. PICK left \in Nat : left = Length(s[m]) - p
    BY <2>3
  <2>5. /\ j + left <= N + n
        /\ \A k \in 0..left : q[j + k] = Unit(m, p + k)
        /\ m = Len(s) => j + left = N + n
        /\ m # Len(s) => j + left < N + n /\ q[j + left + 1] = Unit(m + 1, 1)
    BY <1>1, <2>3, <2>4
  <2>6. \A k \in 0..left : i + k \in 1..N /\ n + (i + k) = j + k
    <3>1. i + left <= N
      BY <1>1, <2>1, <2>5
    <3>2. j = n + i /\ i \in Nat /\ i >= 1 /\ n \in Nat
      BY <1>1, <2>1
    <3>3. ASSUME NEW k \in 0..left
          PROVE  i + k \in 1..N /\ n + (i + k) = j + k
      BY <3>1, <3>2
    <3> QED
      BY <3>3
  <2>7. i + left <= N /\ (m = Len(s) => i + left = N) /\ (m # Len(s) => i + left < N)
    BY <1>1, <2>1, <2>5
  <2>9. \A k \in 0..left : r[i + k] = Unit(m, p + k)
    BY <1>1, <2>5, <2>6
  <2>10. m # Len(s) => r[i + left + 1] = Unit(m + 1, 1)
    <3>1. n + (i + left + 1) = j + left + 1
      BY <1>1, <2>1
    <3>2. m # Len(s) => i + left + 1 \in 1..N
      BY <1>1, <2>7
    <3> QED
      BY <1>1, <2>5, <3>1, <3>2
  <2>8. r[i].msg = m /\ r[i].pos = p
    BY <2>1, <2>2
  <2> QED
    BY <1>1, <2>3, <2>4, <2>7, <2>8, <2>9, <2>10
<1>3. \A i \in DOMAIN r :
         LET m == r[i].msg
             left == Length(s[m]) - r[i].pos
         IN /\ m \in 1..Len(s) /\ r[i].pos \in 1..Length(s[m])
            /\ i + left <= Len(r)
            /\ \A k \in 0..left : r[i + k] = Unit(m, r[i].pos + k)
            /\ IF m = Len(s) THEN i + left = Len(r)
               ELSE i + left < Len(r) /\ r[i + left + 1] = Unit(m + 1, 1)
  BY <1>1, <1>2, Zenon
<1> QED
  BY <1>3, Zenon DEF Runs, r

(* The peer's next message comes after the others. *)
Sequel(s, x) == [i \in 1..Length(x) |-> Unit(Len(s) + 1, i)]

LEMMA SequelType ==
    ASSUME NEW s \in Seq(Shapes), Len(s) < MaxMessages, NEW x \in Shapes
    PROVE  /\ Sequel(s, x) \in Seq(UnitSet) /\ Len(Sequel(s, x)) = Length(x)
           /\ \A i \in 1..Length(x) : Sequel(s, x)[i] = Unit(Len(s) + 1, i)
<1>1. Len(s) \in Nat /\ MaxMessages \in Nat /\ Length(x) \in Nat
  BY TransportAssumption, LengthType
<1>2. \A i \in 1..Length(x) : Unit(Len(s) + 1, i) \in UnitSet
  BY <1>1 DEF Unit, UnitSet
<1> QED
  BY <1>1, <1>2 DEF Sequel

LEMMA RunsMore ==
    ASSUME NEW s \in Seq(Shapes), Len(s) < MaxMessages, NEW x \in Shapes,
           NEW q \in Seq(UnitSet), Runs(q, s)
    PROVE  Runs(q \o Sequel(s, x), Append(s, x))
<1> DEFINE r == q \o Sequel(s, x)
           z == Append(s, x)
<1>1. PICK L \in Nat : L = Length(x) /\ L >= 2
  BY LengthType
<1>2. PICK N \in Nat : N = Len(q)
  OBVIOUS
<1>3. PICK M \in Nat : M = Len(s)
  OBVIOUS
<1>4. /\ r \in Seq(UnitSet) /\ Len(r) = N + L
      /\ \A i \in 1..N : r[i] = q[i]
      /\ \A i \in 1..L : r[N + i] = Unit(M + 1, i)
  <2>1. Sequel(s, x) \in Seq(UnitSet) /\ Len(Sequel(s, x)) = L
        /\ \A i \in 1..L : Sequel(s, x)[i] = Unit(M + 1, i)
    BY <1>1, <1>3, SequelType
  <2> DEFINE u == Sequel(s, x)
  <2>2. u \in Seq(UnitSet) /\ Len(u) = L
    BY <2>1
  <2>3. \A i \in 1..L : u[i] = Unit(M + 1, i)
    BY <2>1
  <2>4. r = q \o u
    OBVIOUS
  <2> HIDE DEF u, r
  <2>5. /\ r \in Seq(UnitSet) /\ Len(r) = Len(q) + Len(u)
        /\ \A i \in 1..Len(q) : r[i] = q[i]
        /\ \A i \in 1..Len(u) : r[Len(q) + i] = u[i]
    <3>1. u \in Seq(UnitSet) /\ q \in Seq(UnitSet)
      BY <2>2
    <3> QED
      BY <2>4, <3>1, Joined
  <2> QED
    BY <1>2, <2>2, <2>3, <2>5
<1>5. /\ z \in Seq(Shapes) /\ Len(z) = M + 1 /\ z[M + 1] = x
      /\ \A m \in 1..M : z[m] = s[m]
  BY <1>3
<1> HIDE DEF r, z
<1>6. ASSUME NEW i \in 1..(N + L)
      PROVE  \E m, p : r[i] = Unit(m, p) /\ RunFrom(r, z, i, m, p)
  <2>1. CASE i <= N
    <3>1. i \in 1..Len(q) /\ r[i] = q[i]
      BY <1>2, <1>4, <2>1
    <3>2. PICK m, p : q[i] = Unit(m, p)
      <4>1. q[i] \in UnitSet
        BY <3>1
      <4> QED
        BY <4>1 DEF UnitSet, Unit
    <3>3. RunFrom(q, s, i, m, p)
      BY <3>1, <3>2, RunsAt
    <3>4. PICK left \in Nat : left = Length(s[m]) - p
      BY <3>3 DEF RunFrom
    <3>5. /\ m \in 1..M /\ Length(s[m]) \in Nat /\ p \in 1..Length(s[m]) /\ i + left <= N
          /\ \A k \in 0..left : q[i + k] = Unit(m, p + k)
          /\ m = M => i + left = N
          /\ m # M => i + left < N /\ q[i + left + 1] = Unit(m + 1, 1)
      BY <1>2, <1>3, <3>3, <3>4 DEF RunFrom
    <3>6. z[m] = s[m] /\ m \in 1..(M + 1) /\ m # M + 1
      BY <1>3, <1>5, <3>5
    <3>7. \A k \in 0..left : r[i + k] = Unit(m, p + k)
      <4>1. \A k \in 0..left : i + k \in 1..N
        BY <3>5
      <4> QED
        BY <1>4, <3>5, <4>1
    <3>8. r[i + left + 1] = Unit(m + 1, 1)
      <4>1. CASE m = M
        <5>1. r[N + 1] = Unit(M + 1, 1)
          BY <1>1, <1>4
        <5> QED
          BY <3>5, <4>1, <5>1
      <4>2. CASE m # M
        <5>1. i + left + 1 \in 1..N
          BY <3>5, <4>2
        <5> QED
          BY <1>4, <3>5, <4>2, <5>1
      <4> QED
        BY <4>1, <4>2
    <3>9. i + left < N + L
      BY <1>1, <3>5
    <3>10. RunFrom(r, z, i, m, p)
      <4>1. m \in 1..Len(z) /\ m # Len(z) /\ Length(z[m]) = Length(s[m]) /\ Len(r) = N + L
        BY <1>4, <1>5, <3>6
      <4>2. p \in 1..Length(z[m]) /\ Length(z[m]) \in Nat /\ left = Length(z[m]) - p
            /\ i + left <= Len(r) /\ i + left < Len(r)
        BY <3>4, <3>5, <3>9, <4>1
      <4> QED
        BY <3>7, <3>8, <4>1, <4>2, RunIs
    <3>11. r[i] = Unit(m, p)
      BY <3>1, <3>2
    <3> QED
      BY <3>10, <3>11
  <2>2. CASE i > N
    <3>1. PICK p \in 1..L : i = N + p
      BY <2>2
    <3>2. r[i] = Unit(M + 1, p) /\ Length(z[M + 1]) = L
      BY <1>1, <1>4, <1>5, <3>1
    <3>3. \A k \in 0..(L - p) : r[i + k] = Unit(M + 1, p + k)
      <4>1. \A k \in 0..(L - p) : p + k \in 1..L /\ i + k = N + (p + k)
        BY <3>1
      <4> QED
        BY <1>4, <4>1
    <3>4. i + (L - p) = N + L
      BY <3>1
    <3>5. RunFrom(r, z, i, M + 1, p)
      <4>1. M + 1 \in 1..Len(z) /\ M + 1 = Len(z) /\ Length(z[M + 1]) = L /\ Len(r) = N + L
        BY <1>4, <1>5, <3>2
      <4>2. p \in 1..Length(z[M + 1]) /\ Length(z[M + 1]) \in Nat /\ L - p = Length(z[M + 1]) - p
            /\ i + (L - p) <= Len(r) /\ i + (L - p) = Len(r)
        BY <1>1, <3>1, <3>4, <4>1
      <4> QED
        BY <3>3, <4>1, <4>2, RunIs
    <3> QED
      BY <3>2, <3>5
  <2> QED
    BY <2>1, <2>2
<1>7. Runs(r, z)
  BY <1>4, <1>6, RunsFrom
<1> QED
  BY <1>7 DEF r, z

(* Reading on in a message. *)
LEMMA BeginsAt ==
    ASSUME NEW s \in Seq(Shapes), NEW q \in Seq(UnitSet), Runs(q, s), NEW m, Begins(q, s, m), q # <<>>
    PROVE  AtUnit(q, s, m, 1)
<1>1. q[1] = Unit(m, 1) /\ 1 \in 1..Len(q)
  BY DEF Begins
<1>2. RunFrom(q, s, 1, m, 1)
  BY <1>1, RunsAt
<1> QED
  BY <1>1, <1>2 DEF RunFrom, AtUnit

LEMMA ReadOn ==
    ASSUME NEW s \in Seq(Shapes), NEW q \in Seq(UnitSet), Runs(q, s), NEW m, NEW p,
           AtUnit(q, s, m, p), NEW n \in 0..(Length(s[m]) - p + 1)
    PROVE  /\ Length(s[m]) - p + 1 \in 0..Len(q)
           /\ \A k \in 1..(Length(s[m]) - p + 1) : q[k] = Unit(m, p + k - 1)
           /\ AtUnit(Rest(q, n), s, m, p + n)
<1>1. m \in 1..Len(s) /\ s[m] \in Shapes
  BY DEF AtUnit
<1>2. PICK L \in Nat : L = Length(s[m])
  BY <1>1, LengthType
<1>3. PICK N \in Nat : N = Len(q)
  OBVIOUS
<1>4. p \in 1..(L + 1)
  BY <1>2 DEF AtUnit
<1>5. CASE p = L + 1
  <2>1. n = 0 /\ L - p + 1 = 0
    BY <1>2, <1>4, <1>5
  <2>2. Rest(q, n) = q
    BY <2>1 DEF Rest
  <2> QED
    BY <1>2, <1>3, <1>4, <2>1, <2>2
<1>6. CASE p <= L
  <2>1. q # <<>> /\ q[1] = Unit(m, p) /\ 1 \in 1..Len(q)
    BY <1>2, <1>6 DEF AtUnit
  <2>2. RunFrom(q, s, 1, m, p)
    BY <2>1, RunsAt
  <2>3. PICK left \in Nat : left = L - p
    BY <1>4, <1>6
  <2>4. /\ 1 + left <= N
        /\ \A k \in 0..left : q[1 + k] = Unit(m, p + k)
        /\ m = Len(s) => 1 + left = N
        /\ m # Len(s) => 1 + left < N /\ q[1 + left + 1] = Unit(m + 1, 1)
    BY <1>2, <1>3, <2>2, <2>3 DEF RunFrom
  <2>5. \A k \in 1..(left + 1) : q[k] = Unit(m, p + k - 1)
    <3>1. \A k \in 1..(left + 1) : k - 1 \in 0..left /\ 1 + (k - 1) = k /\ p + (k - 1) = p + k - 1
      BY <1>4
    <3> QED
      BY <2>4, <3>1
  <2>6. n \in 0..(left + 1) /\ n <= N
    BY <1>2, <1>4, <2>3, <2>4
  <2> DEFINE r == Rest(q, n)
  <2>7. r \in Seq(UnitSet) /\ Len(r) = N - n /\ \A i \in 1..(N - n) : r[i] = q[n + i]
    <3>1. n \in 0..Len(q)
      BY <1>3, <2>6
    <3> QED
      BY <1>3, <3>1, Cut DEF Rest
  <2> HIDE DEF r
  <2>8. AtUnit(r, s, m, p + n)
    <3>1. CASE n <= left
      <4>1. n + 1 \in 1..(left + 1) /\ 1 \in 1..(N - n) /\ p + (n + 1) - 1 = p + n /\ p + n \in 1..L
        BY <1>4, <2>3, <2>4, <2>6, <3>1
      <4>2. r # <<>> /\ r[1] = Unit(m, p + n)
        BY <2>5, <2>7, <4>1
      <4> QED
        BY <1>1, <1>2, <4>1, <4>2 DEF AtUnit
    <3>2. CASE n = left + 1
      <4>1. p + n = L + 1
        BY <1>4, <2>3, <3>2
      <4>2. Begins(r, s, m + 1)
        <5>1. CASE m = Len(s)
          <6>1. Len(r) = 0
            BY <2>4, <2>7, <3>2, <5>1
          <6> QED
            BY <2>7, <5>1, <6>1 DEF Begins
        <5>2. CASE m # Len(s)
          <6>1. 1 \in 1..(N - n) /\ n + 1 = 1 + left + 1
            BY <2>4, <2>6, <3>2, <5>2
          <6>2. r # <<>> /\ r[1] = Unit(m + 1, 1)
            BY <2>4, <2>7, <5>2, <6>1
          <6> QED
            BY <6>2 DEF Begins
        <5> QED
          BY <5>1, <5>2
      <4> QED
        BY <1>1, <1>2, <4>1, <4>2 DEF AtUnit
    <3> QED
      BY <2>6, <3>1, <3>2
  <2>9. L - p + 1 = left + 1 /\ left + 1 \in 0..N
    BY <1>4, <2>3, <2>4
  <2> QED
    BY <1>2, <1>3, <2>5, <2>8, <2>9 DEF r
<1> QED
  BY <1>4, <1>5, <1>6

LEMMA AheadIs ==
    ASSUME TypeInv
    PROVE  /\ sent \in Seq(Shapes) /\ Ahead \in Seq(UnitSet) /\ Len(stream) \in Nat /\ Len(pending) \in Nat
           /\ Len(Ahead) = Len(stream) + Len(pending)
           /\ \A i \in 1..Len(stream) : Ahead[i] = stream[i]
           /\ \A i \in 1..Len(pending) : Ahead[Len(stream) + i] = pending[i]
<1>1. sent \in Seq(Shapes) /\ stream \in Seq(UnitSet) /\ pending \in Seq(UnitSet)
  BY DEF TypeInv, TypeOK
<1> QED
  BY <1>1, Joined DEF Ahead

LEMMA JoinedRest ==
    ASSUME NEW S, NEW s \in Seq(S), NEW t \in Seq(S), NEW n \in 0..Len(s)
    PROVE  SubSeq(s, n + 1, Len(s)) \o t = Rest(s \o t, n)
<1> DEFINE a == SubSeq(s, n + 1, Len(s))
           b == a \o t
           c == s \o t
           d == Rest(c, n)
<1>1. PICK M \in Nat : M = Len(s)
  OBVIOUS
<1>2. PICK N \in Nat : N = Len(t)
  OBVIOUS
<1>3. a \in Seq(S) /\ Len(a) = M - n /\ \A i \in 1..(M - n) : a[i] = s[n + i]
  BY <1>1, Cut
<1>4. c \in Seq(S) /\ Len(c) = M + N /\ (\A i \in 1..M : c[i] = s[i]) /\ \A i \in 1..N : c[M + i] = t[i]
  BY <1>1, <1>2, Joined
<1> HIDE DEF a
<1>5. b \in Seq(S) /\ Len(b) = (M - n) + N /\ (\A i \in 1..(M - n) : b[i] = a[i])
      /\ \A i \in 1..N : b[(M - n) + i] = t[i]
  <2>1. a \in Seq(S)
    BY <1>3
  <2>2. b \in Seq(S) /\ Len(b) = Len(a) + Len(t) /\ (\A i \in 1..Len(a) : b[i] = a[i])
        /\ \A i \in 1..Len(t) : b[Len(a) + i] = t[i]
    BY <2>1, Joined
  <2> HIDE DEF b
  <2> QED
    BY <1>2, <1>3, <2>2
<1> HIDE DEF b, c
<1>6. d \in Seq(S) /\ Len(d) = M + N - n /\ \A i \in 1..(M + N - n) : d[i] = c[n + i]
  <2>1. c \in Seq(S) /\ n \in 0..Len(c) /\ Len(c) = M + N
    BY <1>1, <1>4
  <2> QED
    BY <2>1, Cut DEF Rest
<1> HIDE DEF d
<1>7. ASSUME NEW i \in 1..(M + N - n) PROVE b[i] = d[i]
  <2>1. CASE i <= M - n
    <3>1. i \in 1..(M - n) /\ n + i \in 1..M
      BY <1>1, <2>1
    <3> QED
      BY <1>3, <1>4, <1>5, <1>6, <3>1
  <2>2. CASE i > M - n
    <3>1. PICK j \in 1..N : i = (M - n) + j /\ n + i = M + j
      <4>1. i - (M - n) \in 1..N
        BY <1>1, <2>2
      <4> QED
        BY <1>1, <4>1
    <3> QED
      BY <1>4, <1>5, <1>6, <3>1
  <2> QED
    BY <1>1, <2>1, <2>2
<1>8. Len(b) = Len(d) /\ \A i \in 1..Len(b) : b[i] = d[i]
  BY <1>1, <1>5, <1>6, <1>7
<1>9. b = d
  BY <1>5, <1>6, <1>8, Same
<1> QED
  BY <1>9 DEF a, b, c, d

LEMMA JoinedMove ==
    ASSUME NEW S, NEW s \in Seq(S), NEW t \in Seq(S), NEW n \in 0..Len(t)
    PROVE  (s \o SubSeq(t, 1, n)) \o SubSeq(t, n + 1, Len(t)) = s \o t
<1> DEFINE a == SubSeq(t, 1, n)
           b == SubSeq(t, n + 1, Len(t))
           c == s \o a
           d == c \o b
           e == s \o t
<1>1. PICK M \in Nat : M = Len(s)
  OBVIOUS
<1>2. PICK N \in Nat : N = Len(t)
  OBVIOUS
<1>3. /\ a \in Seq(S) /\ Len(a) = n /\ \A i \in 1..n : a[i] = t[i]
      /\ b \in Seq(S) /\ Len(b) = N - n /\ \A i \in 1..(N - n) : b[i] = t[n + i]
  BY <1>2, Cut
<1>4. e \in Seq(S) /\ Len(e) = M + N /\ (\A i \in 1..M : e[i] = s[i]) /\ \A i \in 1..N : e[M + i] = t[i]
  BY <1>1, <1>2, Joined
<1> HIDE DEF a, b, e
<1>5. c \in Seq(S) /\ Len(c) = M + n /\ (\A i \in 1..M : c[i] = s[i]) /\ \A i \in 1..n : c[M + i] = a[i]
  <2>1. a \in Seq(S)
    BY <1>3
  <2>2. c \in Seq(S) /\ Len(c) = Len(s) + Len(a) /\ (\A i \in 1..Len(s) : c[i] = s[i])
        /\ \A i \in 1..Len(a) : c[Len(s) + i] = a[i]
    BY <2>1, Joined
  <2> HIDE DEF c
  <2> QED
    BY <1>1, <1>3, <2>2
<1> HIDE DEF c
<1>6. d \in Seq(S) /\ Len(d) = M + n + (N - n) /\ (\A i \in 1..(M + n) : d[i] = c[i])
      /\ \A i \in 1..(N - n) : d[M + n + i] = b[i]
  <2>1. b \in Seq(S) /\ c \in Seq(S)
    BY <1>3, <1>5
  <2>2. d \in Seq(S) /\ Len(d) = Len(c) + Len(b) /\ (\A i \in 1..Len(c) : d[i] = c[i])
        /\ \A i \in 1..Len(b) : d[Len(c) + i] = b[i]
    BY <2>1, Joined
  <2> HIDE DEF d
  <2> QED
    BY <1>3, <1>5, <2>2
<1> HIDE DEF d
<1>7. ASSUME NEW i \in 1..(M + N) PROVE d[i] = e[i]
  <2>1. CASE i <= M
    <3>1. i \in 1..M /\ i \in 1..(M + n)
      BY <1>2, <2>1
    <3> QED
      BY <1>4, <1>5, <1>6, <3>1
  <2>2. CASE i > M /\ i <= M + n
    <3>1. PICK j \in 1..n : i = M + j /\ j \in 1..N /\ i \in 1..(M + n)
      <4>1. i - M \in 1..n
        BY <1>2, <2>2
      <4> QED
        BY <1>2, <2>2, <4>1
    <3>2. d[i] = c[i] /\ c[M + j] = a[j] /\ a[j] = t[j]
      BY <1>3, <1>5, <1>6, <3>1
    <3>3. e[M + j] = t[j]
      BY <1>4, <3>1
    <3> QED
      BY <3>1, <3>2, <3>3
  <2>3. CASE i > M + n
    <3>1. PICK j \in 1..(N - n) : i = M + n + j /\ n + j \in 1..N /\ i = M + (n + j)
      <4>1. i - (M + n) \in 1..(N - n)
        BY <1>2, <2>3
      <4> QED
        BY <1>2, <2>3, <4>1
    <3>2. d[M + n + j] = b[j] /\ b[j] = t[n + j]
      BY <1>3, <1>6, <3>1
    <3>3. e[M + (n + j)] = t[n + j]
      BY <1>4, <3>1
    <3> QED
      BY <3>1, <3>2, <3>3
  <2> QED
    BY <1>2, <2>1, <2>2, <2>3
<1>8. Len(d) = Len(e) /\ \A i \in 1..Len(d) : d[i] = e[i]
  <2>1. M + n + (N - n) = M + N
    BY <1>1, <1>2
  <2>2. Len(d) = M + N /\ Len(e) = M + N
    BY <1>4, <1>6, <2>1
  <2> QED
    BY <1>7, <2>2
<1>9. d = e
  BY <1>4, <1>6, <1>8, Same
<1> QED
  BY <1>9 DEF a, b, c, d, e

(* What a read leaves. *)
LEMMA AheadRead ==
    ASSUME TypeInv, NEW n \in 0..Len(stream), stream' = Drop(n), pending' = pending
    PROVE  Ahead' = Rest(Ahead, n)
<1>1. stream \in Seq(UnitSet) /\ pending \in Seq(UnitSet)
  BY DEF TypeInv, TypeOK
<1> QED
  BY <1>1, JoinedRest DEF Ahead, Drop

LEMMA AtMore ==
    ASSUME NEW s \in Seq(Shapes), Len(s) < MaxMessages, NEW x \in Shapes, NEW q \in Seq(UnitSet), NEW m
    PROVE  /\ Begins(q, s, m) => Begins(q \o Sequel(s, x), Append(s, x), m)
           /\ \A p : AtUnit(q, s, m, p) => AtUnit(q \o Sequel(s, x), Append(s, x), m, p)
<1> DEFINE u == Sequel(s, x)
           r == q \o u
           z == Append(s, x)
<1>1. u \in Seq(UnitSet) /\ Len(u) >= 2 /\ u[1] = Unit(Len(s) + 1, 1)
  BY SequelType, LengthType
<1>2. /\ Len(z) = Len(s) + 1 /\ Len(s) \in Nat
      /\ \A i \in 1..Len(s) : z[i] = s[i]
  OBVIOUS
<1> HIDE DEF u, z
<1>3. /\ r \in Seq(UnitSet) /\ Len(r) = Len(q) + Len(u)
      /\ \A i \in 1..Len(q) : r[i] = q[i]
      /\ \A i \in 1..Len(u) : r[Len(q) + i] = u[i]
  BY <1>1, Joined
<1> HIDE DEF r
<1>4. r # <<>> /\ (q # <<>> => r[1] = q[1]) /\ (q = <<>> => r[1] = Unit(Len(s) + 1, 1))
  <2>1. Len(q) \in Nat /\ Len(u) \in Nat /\ (q # <<>> => 1 \in 1..Len(q)) /\ (q = <<>> => Len(q) = 0)
    BY <1>1
  <2>2. Len(r) # 0
    BY <1>1, <1>3, <2>1
  <2>3. q = <<>> => r[1] = u[1]
    <3>1. 1 \in 1..Len(u)
      BY <1>1, <2>1
    <3>2. q = <<>> => Len(q) + 1 = 1
      BY <2>1
    <3> QED
      BY <1>3, <3>1, <3>2
  <2> QED
    BY <1>1, <1>3, <2>1, <2>2, <2>3
<1>5. \A k : Begins(q, s, k) => Begins(r, z, k)
  BY <1>4 DEF Begins
<1>6. ASSUME NEW p, AtUnit(q, s, m, p) PROVE AtUnit(r, z, m, p)
  <2>1. m \in 1..Len(s) /\ m \in 1..Len(z) /\ z[m] = s[m]
    BY <1>2, <1>6 DEF AtUnit
  <2> QED
    BY <1>4, <1>5, <1>6, <2>1 DEF AtUnit
<1> QED
  BY <1>5, <1>6 DEF r, u, z

LEMMA FramingInit == Init => FramingInv
<1> SUFFICES ASSUME Init PROVE FramingInv
  OBVIOUS
<1>1. TypeInv
  BY TypeInit
<1>2. Ahead = <<>> /\ Len(sent) = 0 /\ Len(delivered) = 0
  <2>1. Len(Ahead) = 0 /\ Ahead \in Seq(UnitSet)
    BY <1>1, AheadIs DEF Init
  <2> QED
    BY <2>1 DEF Init
<1>3. PeerInv
  BY <1>2 DEF PeerInv, Runs, Init
<1>4. BeginsHere
  BY <1>2 DEF BeginsHere, Begins, Current
<1>5. SendmsgInv
  BY <1>4 DEF SendmsgInv, Init
<1>6. kind = "simple" => SimpleInv
  BY <1>4 DEF SimpleInv, Init
<1>7. DeliveredInOrder
  BY <1>2 DEF DeliveredInOrder, Init
<1> QED
  BY <1>3, <1>5, <1>6, <1>7 DEF FramingInv

(* A step of the peer disturbs nothing the reader relies on. *)
LEMMA PeerKeeps ==
    ASSUME TypeInv, FramingInv, PeerInv',
           UNCHANGED <<kind, pc, buf, rstate, headerLeft, bodyLeft, delivered>>,
           damage \subseteq damage',
           Len(sent') >= Len(sent), \A m \in 1..Len(sent) : sent'[m] = sent[m],
           closed = TRUE => closed' = TRUE /\ stream' = stream,
           stream # <<>> => stream' # <<>>,
           \A m : Begins(Ahead, sent, m) => Begins(Ahead', sent', m),
           \A m, p : AtUnit(Ahead, sent, m, p) => AtUnit(Ahead', sent', m, p)
    PROVE  FramingInv'
<1>1. Current' = Current
  BY DEF Current
<1>2. BeginsHere => BeginsHere'
  BY <1>1 DEF BeginsHere
<1>3. \A p : GoesOn(p) => GoesOn(p)' /\ sent'[Current] = sent[Current]
  BY <1>1 DEF GoesOn, AtUnit
<1>4. GoesOnFor(Left) => GoesOnFor(Left)'
  BY <1>1, <1>3 DEF GoesOnFor, Left
<1>5. GoesOnFor(Left) => Units(Current)' = Units(Current)
  BY <1>1, <1>3 DEF GoesOnFor, Units
<1>6. (Copes' => Copes) /\ (damage' = {} => damage = {} /\ Copes)
  BY DEF Copes
<1>7. SendmsgInv => SendmsgInv'
  BY <1>1, <1>2 DEF SendmsgInv
<1>8. SimpleInv => SimpleInv'
  <2> SUFFICES ASSUME SimpleInv PROVE SimpleInv'
    OBVIOUS
  <2>1. (rstate = "FirstHeaderPart" =>
         \/ buf = <<>> /\ BeginsHere
         \/ buf = <<Unit(Current, 1)>> /\ GoesOn(2))'
    BY <1>1, <1>2, <1>3 DEF SimpleInv
  <2>2. (rstate = "SecondHeaderPart" =>
         /\ buf[1] = Unit(Current, 1) /\ buf[2] = Unit(Current, 2)
         /\ headerLeft = 0 => Len(buf) = Fixed /\ GoesOn(Fixed + 1)
         /\ headerLeft # 0 => GoesOnFor(Left))'
    <3>1. CASE rstate = "SecondHeaderPart"
      <4>1. (buf[1] = Unit(Current, 1) /\ buf[2] = Unit(Current, 2))'
        BY <1>1, <3>1 DEF SimpleInv
      <4>2. (headerLeft = 0 => Len(buf) = Fixed /\ GoesOn(Fixed + 1))'
        BY <1>3, <3>1 DEF SimpleInv
      <4>3. (headerLeft # 0 => GoesOnFor(Left))'
        BY <1>4, <3>1 DEF SimpleInv
      <4> QED
        BY <4>1, <4>2, <4>3
    <3> QED
      BY <3>1
  <2>3. (rstate = "Body" => GoesOnFor(Left))'
    BY <1>4 DEF SimpleInv
  <2>4. (damage = {} =>
         /\ rstate = "SecondHeaderPart" => headerLeft = 0
         /\ rstate = "Body" => bodyLeft = 0 /\ buf = Units(Current))'
    BY <1>5, <1>6 DEF SimpleInv
  <2> QED
    BY <2>1, <2>2, <2>3, <2>4 DEF SimpleInv
<1>9. DeliveredInOrder'
  BY <1>6 DEF FramingInv, DeliveredInOrder
<1> QED
  BY <1>6, <1>7, <1>8, <1>9 DEF FramingInv

LEMMA PeerSends ==
    ASSUME TypeInv, FramingInv, NEW s \in Shapes, PeerSend(s)
    PROVE  FramingInv'
<1>1. /\ sent' = Append(sent, s) /\ pending' = Sequel(sent, s) /\ stream' = stream /\ closed' = closed
      /\ closed = FALSE /\ pending = <<>> /\ Len(sent) < MaxMessages
      /\ damage' = damage \cup (IF s.array + s.body > MaxLength THEN {"long"} ELSE {})
                           \cup (IF SeemsShort(s) THEN {"wrap"} ELSE {})
  BY DEF PeerSend, Sequel
<1>2. sent \in Seq(Shapes) /\ stream \in Seq(UnitSet)
  BY DEF TypeInv, TypeOK
<1>3. Ahead = stream /\ Ahead' = Ahead \o Sequel(sent, s) /\ Ahead \in Seq(UnitSet)
  <2>1. stream \o <<>> = stream
    BY <1>2
  <2> QED
    BY <1>1, <1>2, <2>1 DEF Ahead
<1>4. Len(sent') = Len(sent) + 1 /\ Len(sent) \in Nat /\ sent'[Len(sent) + 1] = s
      /\ \A m \in 1..Len(sent) : sent'[m] = sent[m]
  BY <1>1, <1>2
<1>5. PeerInv'
  <2>1. Runs(Ahead', sent')
    BY <1>1, <1>2, <1>3, RunsMore DEF FramingInv, PeerInv
  <2>2. ASSUME "long" \notin damage', NEW m \in DOMAIN sent'
        PROVE  sent'[m].array + sent'[m].body <= MaxLength
    <3>1. "long" \notin damage /\ s.array + s.body <= MaxLength
      <4>1. s.array \in Nat /\ s.body \in Nat /\ MaxLength \in Nat
        BY TransportAssumption, WordType
      <4> QED
        BY <1>1, <2>2, <4>1
    <3>2. m \in 1..(Len(sent) + 1)
      BY <1>1, <1>2, <1>4
    <3>3. CASE m = Len(sent) + 1
      BY <1>4, <3>1, <3>3
    <3>4. CASE m # Len(sent) + 1
      <4>1. m \in 1..Len(sent) /\ m \in DOMAIN sent
        BY <1>2, <1>4, <3>2, <3>4
      <4> QED
        BY <1>4, <3>1, <4>1 DEF FramingInv, PeerInv
    <3> QED
      BY <3>3, <3>4
  <2>a. ASSUME "wrap" \notin damage', NEW m \in DOMAIN sent' PROVE ~SeemsShort(sent'[m])
    <3>1. "wrap" \notin damage /\ ~SeemsShort(s)
      BY <1>1, <2>a
    <3>2. m \in 1..(Len(sent) + 1)
      BY <1>1, <1>2, <1>4
    <3>3. CASE m = Len(sent) + 1
      BY <1>4, <3>1, <3>3
    <3>4. CASE m # Len(sent) + 1
      <4>1. m \in 1..Len(sent) /\ m \in DOMAIN sent
        BY <1>2, <1>4, <3>2, <3>4
      <4> QED
        BY <1>4, <3>1, <4>1 DEF FramingInv, PeerInv
    <3> QED
      BY <3>3, <3>4
  <2>3. pending'[1].pos = 1
    <3>1. 1 \in 1..Length(s)
      BY LengthType
    <3>2. Sequel(sent, s)[1] = Unit(Len(sent) + 1, 1)
      BY <1>1, <1>2, <3>1, SequelType
    <3> QED
      BY <1>1, <3>2, UnitFields
  <2> QED
    BY <2>1, <2>2, <2>a, <2>3 DEF PeerInv
<1>6. \A m : Begins(Ahead, sent, m) => Begins(Ahead', sent', m)
  BY <1>1, <1>2, <1>3, AtMore
<1>7. \A m, p : AtUnit(Ahead, sent, m, p) => AtUnit(Ahead', sent', m, p)
  BY <1>1, <1>2, <1>3, AtMore
<1>8. UNCHANGED <<kind, pc, buf, rstate, headerLeft, bodyLeft, delivered>>
  BY DEF PeerSend, simpleVars
<1>9. Len(sent') >= Len(sent) /\ damage \subseteq damage'
  <2>1. Len(sent') >= Len(sent)
    <3>1. \A i \in Nat : i + 1 >= i
      OBVIOUS
    <3> QED
      BY <1>4, <3>1
  <2> QED
    BY <1>1, <2>1
<1>10. closed = TRUE => closed' = TRUE /\ stream' = stream
  BY <1>1
<1>11. stream # <<>> => stream' # <<>>
  BY <1>1
<1> QED
  BY <1>4, <1>5, <1>6, <1>7, <1>8, <1>9, <1>10, <1>11, PeerKeeps

LEMMA PeerDelivers ==
    ASSUME TypeInv, FramingInv, NEW n \in 1..Len(pending), PeerDeliver(n)
    PROVE  FramingInv'
<1>1. /\ closed = FALSE /\ sent' = sent
      /\ n = Len(pending) \/ pending[n].pos \in Cuts
      /\ stream' = stream \o SubSeq(pending, 1, n)
      /\ pending' = Rest(pending, n)
      /\ damage' = damage \cup
           (IF n = Len(pending) \/ (kind = "simple" /\ pending[n].pos < Fixed) THEN {} ELSE {"split"})
  BY DEF PeerDeliver, Rest
<1>2. sent \in Seq(Shapes) /\ stream \in Seq(UnitSet) /\ pending \in Seq(UnitSet)
  BY DEF TypeInv, TypeOK
<1>3. Ahead' = Ahead /\ n \in 0..Len(pending)
  <2>1. n \in 0..Len(pending)
    BY <1>2
  <2> QED
    BY <1>1, <1>2, <2>1, JoinedMove DEF Ahead, Rest
<1>4. stream # <<>> => stream' # <<>>
  <2>1. SubSeq(pending, 1, n) \in Seq(UnitSet)
    BY <1>2, <1>3, Cut
  <2>2. Len(stream') = Len(stream) + Len(SubSeq(pending, 1, n))
    BY <1>1, <1>2, <2>1, Joined
  <2> QED
    BY <1>2, <2>1, <2>2
<1>5. ASSUME "split" \notin damage', pending' # <<>>
      PROVE  kind = "simple" /\ pending'[1].pos = 2
  <2>1. PICK N \in Nat : N = Len(pending)
    BY <1>2
  <2>2. n < N /\ n \in 1..N /\ pending'[1] = pending[n + 1]
    <3>1. pending' \in Seq(UnitSet) /\ Len(pending') = N - n
          /\ \A i \in 1..(N - n) : pending'[i] = pending[n + i]
      BY <1>1, <1>2, <1>3, <2>1, Cut DEF Rest
    <3>2. Len(pending') # 0
      BY <1>5, <3>1
    <3>3. n < N /\ 1 \in 1..(N - n) /\ n \in 1..N
      BY <2>1, <3>1, <3>2
    <3> QED
      BY <3>1, <3>3
  <2>3. kind = "simple" /\ pending[n].pos < Fixed
    BY <1>1, <1>5, <2>1, <2>2
  <2>4. PICK M \in Nat : M = Len(stream)
    BY <1>2
  <2>5. /\ Ahead \in Seq(UnitSet) /\ Len(Ahead) = M + N
        /\ \A i \in 1..N : Ahead[M + i] = pending[i]
    BY <2>1, <2>4, AheadIs
  <2>6. M + n \in 1..Len(Ahead) /\ Ahead[M + n] = pending[n] /\ Ahead[M + n + 1] = pending[n + 1]
    <3>1. M + n + 1 = M + (n + 1) /\ n + 1 \in 1..N /\ M + n \in 1..(M + N)
      BY <2>1, <2>2, <2>4
    <3> QED
      BY <2>2, <2>5, <3>1
  <2>7. PICK m, p : Ahead[M + n] = Unit(m, p) /\ RunFrom(Ahead, sent, M + n, m, p)
    <3>1. pending[n] \in UnitSet
      BY <1>2, <2>1, <2>2
    <3>2. pending[n] = Unit(pending[n].msg, pending[n].pos)
      BY <3>1 DEF Unit, UnitSet
    <3>3. Ahead[M + n] = Unit(pending[n].msg, pending[n].pos)
      BY <2>6, <3>2
    <3>4. Runs(Ahead, sent)
      BY DEF FramingInv, PeerInv
    <3>5. RunFrom(Ahead, sent, M + n, pending[n].msg, pending[n].pos)
      BY <1>2, <2>5, <2>6, <3>3, <3>4, RunsAt
    <3> QED
      BY <3>3, <3>5
  <2>8. p = 1 /\ m \in 1..Len(sent) /\ Length(sent[m]) \in Nat /\ p \in 1..Length(sent[m])
    <3>1. p \in 1..Length(sent[m]) /\ m \in 1..Len(sent) /\ Length(sent[m]) \in Nat
      BY <2>7 DEF RunFrom
    <3>2. p < 2
      BY <2>3, <2>6, <2>7, UnitFields DEF Fixed
    <3> QED
      BY <3>1, <3>2
  <2>9. Length(sent[m]) >= 2
    BY <1>2, <2>8, LengthType
  <2>10. Ahead[M + n + 1] = Unit(m, p + 1)
    <3>1. 1 \in 0..(Length(sent[m]) - p)
      BY <2>8, <2>9
    <3> QED
      BY <2>7, <3>1 DEF RunFrom
  <2> QED
    BY <2>2, <2>3, <2>6, <2>8, <2>10, UnitFields
<1>6. PeerInv'
  <2>1. Runs(Ahead', sent')
    BY <1>1, <1>3 DEF FramingInv, PeerInv
  <2>2. /\ "long" \notin damage' => "long" \notin damage
        /\ "wrap" \notin damage' => "wrap" \notin damage
    BY <1>1
  <2>3. "long" \notin damage' =>
          \A m \in DOMAIN sent' : sent'[m].array + sent'[m].body <= MaxLength
    BY <1>1, <2>2 DEF FramingInv, PeerInv
  <2>a. "wrap" \notin damage' => \A m \in DOMAIN sent' : ~SeemsShort(sent'[m])
    BY <1>1, <2>2 DEF FramingInv, PeerInv
  <2>4. kind' = kind
    BY DEF PeerDeliver
  <2>5. ("split" \notin damage' /\ pending' # <<>>) =>
          pending'[1].pos = 1 \/ (kind' = "simple" /\ pending'[1].pos = 2)
    BY <1>5, <2>4
  <2> QED
    BY <2>1, <2>3, <2>a, <2>5 DEF PeerInv
<1>7. UNCHANGED <<kind, pc, buf, rstate, headerLeft, bodyLeft, delivered>>
  BY DEF PeerDeliver, simpleVars
<1>8. Len(sent') >= Len(sent)
  BY <1>1, <1>2
<1> QED
  BY <1>1, <1>3, <1>4, <1>6, <1>7, <1>8, PeerKeeps

LEMMA PeerFraming == ASSUME TypeInv, FramingInv, PeerStep PROVE FramingInv'
<1>1. CASE PeerClose
  <2>1. /\ UNCHANGED <<kind, sent, pending, stream, pc, buf, rstate, headerLeft, bodyLeft, delivered, damage>>
        /\ closed = FALSE
    BY <1>1 DEF PeerClose, simpleVars, TypeInv, TypeOK
  <2>2. Len(sent') >= Len(sent)
    BY <2>1 DEF TypeInv, TypeOK
  <2>3. PeerInv' /\ Ahead' = Ahead
    BY <2>1 DEF FramingInv, PeerInv, Ahead
  <2> QED
    BY <2>1, <2>2, <2>3, PeerKeeps
<1> QED
  BY <1>1, PeerSends, PeerDelivers DEF PeerStep

(* What a reader's step leaves to be read. *)
LEMMA ReaderKeeps ==
    ASSUME TypeInv, FramingInv, UNCHANGED <<kind, sent, pending, damage>>,
           NEW n \in 0..Len(stream), stream' = Drop(n)
    PROVE  PeerInv' /\ Ahead' = Rest(Ahead, n) /\ n \in 0..Len(Ahead) /\ Copes' = Copes
<1>1. Ahead' = Rest(Ahead, n)
  BY AheadRead
<1>2. n \in 0..Len(Ahead) /\ sent \in Seq(Shapes) /\ Ahead \in Seq(UnitSet)
  <2>1. Len(Ahead) = Len(stream) + Len(pending) /\ Len(stream) \in Nat /\ Len(pending) \in Nat
    BY AheadIs
  <2>2. n \in 0..Len(Ahead)
    BY <2>1
  <2> QED
    BY <2>2, AheadIs
<1>3. Runs(Ahead', sent')
  BY <1>1, <1>2, RunsRest DEF FramingInv, PeerInv
<1>4. PeerInv'
  BY <1>3 DEF FramingInv, PeerInv
<1> QED
  BY <1>1, <1>2, <1>4 DEF Copes

(* A message that arrives whole is there to its end. *)
LEMMA Whole ==
    ASSUME TypeInv, PeerInv, "split" \notin damage, NEW m, NEW p, AtUnit(Ahead, sent, m, p),
           p + Len(stream) # 1, kind = "simple" => p + Len(stream) # 2
    PROVE  Len(stream) >= Length(sent[m]) - p + 1
<1>1. PICK N \in Nat : N = Len(stream)
  BY DEF TypeInv, TypeOK
<1>2. m \in 1..Len(sent) /\ sent[m] \in Shapes /\ p \in 1..(Length(sent[m]) + 1)
  BY AheadIs DEF AtUnit
<1>3. PICK L \in Nat : L = Length(sent[m])
  BY <1>2, LengthType
<1> SUFFICES ASSUME N < L - p + 1 PROVE FALSE
  BY <1>1, <1>2, <1>3
<1>4. PICK P \in Nat : P = Len(pending)
  BY DEF TypeInv, TypeOK
<1>5. 0 \in 0..(L - p + 1)
  BY <1>2, <1>3
<1>6. L - p + 1 \in 0..(N + P) /\ \A k \in 1..(L - p + 1) : Ahead[k] = Unit(m, p + k - 1)
  <2>1. Runs(Ahead, sent)
    BY DEF PeerInv
  <2>2. sent \in Seq(Shapes) /\ Ahead \in Seq(UnitSet) /\ Len(Ahead) = N + P
    BY <1>1, <1>4, AheadIs
  <2> QED
    BY <1>3, <1>5, <2>1, <2>2, ReadOn
<1>7. N + 1 \in 1..(L - p + 1) /\ P >= 1
  BY <1>2, <1>3, <1>6
<1>8. pending[1] = Ahead[N + 1] /\ pending # <<>>
  <2>1. 1 \in 1..P
    BY <1>7
  <2> QED
    BY <1>1, <1>4, <2>1, AheadIs
<1>9. Ahead[N + 1] = Unit(m, p + (N + 1) - 1) /\ p + (N + 1) - 1 = p + N
  BY <1>2, <1>3, <1>6, <1>7
<1>10. pending[1].pos = p + N
  BY <1>8, <1>9, UnitFields
<1> QED
  BY <1>1, <1>8, <1>10 DEF PeerInv

LEMMA MadeIs ==
    ASSUME TypeInv, NEW m \in 1..Len(sent), NEW u, u = Units(m)
    PROVE  Made(u) = m
<1>1. \A k \in 1..Len(sent) : Units(k)[1] = Unit(k, 1)
  <2> SUFFICES ASSUME NEW k \in 1..Len(sent) PROVE Units(k)[1] = Unit(k, 1)
    OBVIOUS
  <2>1. sent[k] \in Shapes
    BY DEF TypeInv, TypeOK
  <2>2. 1 \in 1..Length(sent[k])
    BY <2>1, LengthType
  <2> QED
    BY <2>2 DEF Units
<1>2. ASSUME NEW k \in 1..Len(sent), u = Units(k) PROVE k = m
  <2>1. Unit(k, 1) = Unit(m, 1)
    BY <1>1, <1>2
  <2>2. Unit(k, 1).msg = k /\ Unit(m, 1).msg = m
    BY UnitFields
  <2> QED
    BY <2>1, <2>2
<1> QED
  BY <1>2 DEF Made

(* The message due is returned. *)
LEMMA Delivers ==
    ASSUME TypeInv, FramingInv, NEW d, delivered' = Append(delivered, d), damage' = damage,
           damage = {} => d = Current
    PROVE  DeliveredInOrder' /\ Current' = Current + 1
<1>1. PICK N \in Nat : N = Len(delivered)
  BY DEF TypeInv, TypeOK
<1>2. Len(delivered') = N + 1 /\ delivered'[N + 1] = d /\ DOMAIN delivered = 1..N
      /\ DOMAIN delivered' = 1..(N + 1) /\ \A i \in 1..N : delivered'[i] = delivered[i]
  BY <1>1 DEF TypeInv, TypeOK
<1>3. Current = N + 1 /\ Current' = N + 2
  BY <1>1, <1>2 DEF Current
<1>4. ASSUME damage' = {}, NEW i \in DOMAIN delivered' PROVE delivered'[i] = i
  <2>1. CASE i = N + 1
    BY <1>2, <1>3, <1>4, <2>1
  <2>2. CASE i # N + 1
    <3>1. i \in 1..N
      BY <1>2, <2>2
    <3> QED
      BY <1>2, <1>4, <3>1 DEF FramingInv, DeliveredInOrder
  <2> QED
    BY <2>1, <2>2
<1> QED
  BY <1>3, <1>4 DEF DeliveredInOrder

(* Nothing is read and nothing that was read is changed. *)
LEMMA Steady ==
    ASSUME FramingInv, pc' # "receive",
           UNCHANGED <<kind, sent, pending, stream, damage, buf, rstate, headerLeft, bodyLeft, delivered>>
    PROVE  FramingInv'
<1>1. Ahead' = Ahead /\ Current' = Current
  BY DEF Ahead, Current
<1>2. PeerInv' /\ Copes' = Copes /\ DeliveredInOrder'
  BY <1>1 DEF FramingInv, PeerInv, Copes, DeliveredInOrder
<1>3. BeginsHere' = BeginsHere /\ \A p : GoesOn(p)' = GoesOn(p)
  BY <1>1 DEF BeginsHere, GoesOn
<1>4. GoesOnFor(Left)' = GoesOnFor(Left)
  BY <1>1, <1>3 DEF GoesOnFor, Left
<1>5. Units(Current)' = Units(Current)
  BY <1>1 DEF Units
<1>6. SendmsgInv => SendmsgInv'
  BY <1>3 DEF SendmsgInv
<1>7. SimpleInv => SimpleInv'
  BY <1>1, <1>3, <1>4, <1>5 DEF SimpleInv
<1> QED
  BY <1>2, <1>6, <1>7 DEF FramingInv

(* A message to come on a stream that is not split is at its front, whole. *)
LEMMA WholeMessage ==
    ASSUME TypeInv, FramingInv, kind = "sendmsg", Copes, BeginsHere, stream # <<>>
    PROVE  /\ Current \in 1..Len(sent) /\ sent[Current] \in Shapes
           /\ Length(sent[Current]) \in 1..Len(stream)
           /\ \A k \in 1..Length(sent[Current]) : stream[k] = Unit(Current, k)
           /\ Begins(Rest(Ahead, Length(sent[Current])), sent, Current + 1)
<1> DEFINE L == Length(sent[Current])
<1>1. sent \in Seq(Shapes) /\ Ahead \in Seq(UnitSet) /\ Runs(Ahead, sent) /\ PeerInv
  BY AheadIs DEF FramingInv, PeerInv
<1>2. PICK N \in Nat : N = Len(stream) /\ N >= 1
  <2>1. stream \in Seq(UnitSet)
    BY DEF TypeInv, TypeOK
  <2> QED
    BY <2>1
<1>3. Ahead # <<>>
  <2>1. Len(Ahead) = N + Len(pending) /\ Len(pending) \in Nat
    BY <1>2, AheadIs
  <2>2. Len(Ahead) # 0
    BY <1>2, <2>1
  <2> QED
    BY <1>1, <2>2
<1>4. AtUnit(Ahead, sent, Current, 1)
  BY <1>1, <1>3, BeginsAt DEF BeginsHere
<1>5. Current \in 1..Len(sent) /\ sent[Current] \in Shapes
  BY <1>1, <1>4 DEF AtUnit
<1>6. L \in Nat /\ L >= 2
  BY <1>5, LengthType
<1>7. N >= L
  <2>1. "split" \notin damage
    BY DEF Copes
  <2>2. 1 + N # 1 /\ kind # "simple"
    BY <1>2
  <2>3. N >= L - 1 + 1
    BY <1>1, <1>2, <1>4, <2>1, <2>2, Whole
  <2> QED
    BY <1>6, <2>3
<1>8. /\ \A k \in 1..L : Ahead[k] = Unit(Current, k)
      /\ AtUnit(Rest(Ahead, L), sent, Current, L + 1)
  <2>1. L \in 0..(L - 1 + 1) /\ L - 1 + 1 = L /\ 1 + L = L + 1
    BY <1>6
  <2>2. /\ \A k \in 1..(L - 1 + 1) : Ahead[k] = Unit(Current, 1 + k - 1)
        /\ AtUnit(Rest(Ahead, L), sent, Current, 1 + L)
    BY <1>1, <1>4, <2>1, ReadOn
  <2>3. \A k \in 1..L : 1 + k - 1 = k
    BY <1>6
  <2> QED
    BY <2>1, <2>2, <2>3
<1>9. \A k \in 1..L : stream[k] = Unit(Current, k)
  <2>1. \A k \in 1..L : k \in 1..N
    BY <1>2, <1>6, <1>7
  <2> QED
    BY <1>2, <1>8, <2>1, AheadIs
<1>10. Begins(Rest(Ahead, L), sent, Current + 1)
  BY <1>6, <1>8 DEF AtUnit
<1> QED
  BY <1>2, <1>5, <1>6, <1>7, <1>9, <1>10

LEMMA PeekFraming == ASSUME TypeInv, FramingInv, Peek PROVE FramingInv'
<1>1. /\ UNCHANGED <<kind, sent, pending, closed, damage, stream, rstate, headerLeft, bodyLeft, delivered>>
      /\ pc = "peek" /\ kind = "sendmsg" /\ Len(buf) = Fixed
  BY TransportAssumption DEF Peek, peerVars, simpleVars, TypeInv, TypeOK, ReaderInv
<1>2. CASE WouldBlock
  <2>1. pc' # "receive" /\ buf' = buf
    BY <1>2 DEF Peek
  <2> QED
    BY <1>1, <2>1, Steady
<1>3. CASE ~WouldBlock
  <2>1. buf' = Take(Arrived(Fixed)) \o SubSeq(buf, Arrived(Fixed) + 1, Fixed)
    BY <1>3 DEF Peek
  <2>2. Ahead' = Ahead /\ Current' = Current
    BY <1>1 DEF Ahead, Current
  <2>3. PeerInv' /\ Copes' = Copes /\ DeliveredInOrder'
    BY <1>1, <2>2 DEF FramingInv, PeerInv, Copes, DeliveredInOrder
  <2>4. ASSUME Copes PROVE SendmsgInv'
    <3>1. BeginsHere /\ BeginsHere'
      BY <1>1, <2>2, <2>4 DEF FramingInv, SendmsgInv, BeginsHere
    <3>2. CASE stream = <<>>
      <4>1. closed' = TRUE
        BY <1>1, <1>3, <3>2 DEF WouldBlock, TypeInv, TypeOK
      <4> QED
        BY <1>1, <3>1, <3>2, <4>1 DEF SendmsgInv
    <3>3. CASE stream # <<>>
      <4>1. /\ Current \in 1..Len(sent) /\ sent[Current] \in Shapes
            /\ Length(sent[Current]) \in 1..Len(stream)
            /\ \A k \in 1..Length(sent[Current]) : stream[k] = Unit(Current, k)
        BY <1>1, <2>4, <3>1, <3>3, WholeMessage
      <4>2. Length(sent[Current]) >= 2 /\ Fixed = 2 /\ Len(stream) \in Nat
        BY <4>1, LengthType DEF TypeInv, TypeOK
      <4>3. Arrived(Fixed) = 2 /\ 2 \in 0..Len(stream) /\ 1 \in 1..Length(sent[Current])
            /\ 2 \in 1..Length(sent[Current])
        <5>1. PICK N \in Nat : N = Len(stream)
          BY <4>2
        <5>2. PICK L \in 1..N : L = Length(sent[Current])
          BY <4>1, <5>1
        <5>3. L >= 2 /\ N >= 2 /\ 2 \in 0..N /\ 1 \in 1..L /\ 2 \in 1..L
          BY <4>2, <5>2
        <5>4. Arrived(2) = 2
          BY <5>1, <5>3 DEF Arrived
        <5> QED
          BY <4>2, <5>1, <5>2, <5>3, <5>4
      <4>4. buf' = Refilled(2)
        BY <2>1, <4>2, <4>3 DEF Refilled
      <4>5. buf'[1] = stream[1] /\ buf'[2] = stream[2]
        <5>1. TypeOK /\ 2 >= Fixed
          BY <4>2 DEF TypeInv
        <5> QED
          BY <1>1, <4>3, <4>4, <5>1, Refill
      <4>6. buf'[1] = Unit(Current, 1) /\ buf'[2] = Unit(Current, 2)
        BY <4>1, <4>3, <4>5
      <4> QED
        BY <1>1, <2>2, <3>1, <3>3, <4>6 DEF SendmsgInv
    <3> QED
      BY <3>2, <3>3
  <2> QED
    BY <1>1, <2>3, <2>4 DEF FramingInv
<1> QED
  BY <1>2, <1>3

LEMMA ReceiveFraming == ASSUME TypeInv, FramingInv, Receive PROVE FramingInv'
<1>1. /\ UNCHANGED <<kind, sent, pending, closed, damage, rstate, headerLeft, bodyLeft>>
      /\ pc = "receive" /\ pc' = "idle" /\ kind = "sendmsg" /\ Len(buf) = Fixed
  BY TransportAssumption DEF Receive, peerVars, simpleVars, TypeInv, TypeOK, ReaderInv
<1>2. PICK b \in BodyLength(buf), a \in ArrayLength(buf) :
        /\ delivered' = IF Received(Total(a, b)) = 0 THEN delivered
                        ELSE Append(delivered, IF Received(Total(a, b)) = Total(a, b)
                                               THEN Made(Take(Received(Total(a, b)))) ELSE 0)
        /\ stream' = Drop(Received(Total(a, b)))
        /\ ~TooLong(a, b)
  BY DEF Receive
<1>a. TypeOK
  BY DEF TypeInv
<1>3. a \in Nat /\ b \in Nat /\ Total(a, b) \in Int
  BY <1>1, LengthTypes, TotalType
<1>b. PICK w \in Nat : Received(Total(a, b)) = Arrived(w) /\ (Total(a, b) > 0 => w = Total(a, b))
  BY <1>a, <1>3, Receives
<1>4. PICK n \in 0..Len(stream) : n = Received(Total(a, b)) /\ n = Arrived(w)
  BY <1>a, <1>b, Takes
<1>5. PeerInv' /\ Ahead' = Rest(Ahead, n) /\ Copes' = Copes
  BY <1>1, <1>2, <1>4, ReaderKeeps
<1>6. CASE ~Copes
  <2>1. damage' # {}
    BY <1>1, <1>6 DEF Copes
  <2> QED
    BY <1>1, <1>5, <1>6, <2>1 DEF FramingInv, DeliveredInOrder
<1>7. CASE Copes /\ stream = <<>>
  <2>1. n = 0 /\ Rest(Ahead, 0) = Ahead
    <3>1. Len(stream) = 0 /\ Ahead \in Seq(UnitSet)
      BY <1>7, AheadIs
    <3> QED
      BY <1>4, <3>1 DEF Rest
  <2>2. delivered' = delivered /\ Ahead' = Ahead
    BY <1>2, <1>4, <1>5, <2>1
  <2>3. BeginsHere' /\ DeliveredInOrder'
    BY <1>1, <1>7, <2>2 DEF FramingInv, SendmsgInv, BeginsHere, Current, DeliveredInOrder
  <2>4. SendmsgInv'
    BY <1>1, <2>3 DEF SendmsgInv
  <2> QED
    BY <1>1, <1>5, <2>3, <2>4 DEF FramingInv
<1>8. CASE Copes /\ stream # <<>>
  <2>1. SendmsgInv
    BY <1>1, <1>8 DEF FramingInv
  <2>2. buf[1] = Unit(Current, 1) /\ buf[2] = Unit(Current, 2) /\ BeginsHere
    BY <1>1, <1>8, <2>1 DEF SendmsgInv
  <2>3. PICK L : L = Length(sent[Current])
    OBVIOUS
  <2>4. /\ Current \in 1..Len(sent) /\ sent[Current] \in Shapes /\ L \in 1..Len(stream)
        /\ \A k \in 1..L : stream[k] = Unit(Current, k)
        /\ Begins(Rest(Ahead, L), sent, Current + 1)
    BY <1>1, <1>8, <2>2, <2>3, WholeMessage
  <2>5. b = sent[Current].body /\ a = sent[Current].array
    BY <1>2, <2>2, UnitFields DEF BodyLength, ArrayLength
  <2>a. 2 * b < Word
    <3>1. "wrap" \notin damage /\ Current \in DOMAIN sent
      BY <1>1, <1>8, <2>4 DEF Copes, TypeInv, TypeOK
    <3>2. ~SeemsShort(sent[Current])
      BY <3>1 DEF FramingInv, PeerInv
    <3>3. a + b <= MaxLength
      BY <1>2, <1>3, <2>5, <3>2, WordType DEF SeemsShort
    <3> QED
      BY <1>3, <3>3, TransportAssumption
  <2>6. Total(a, b) = L /\ L \in Nat /\ L > 0 /\ w = L
    <3>1. Total(a, b) = L
      BY <1>3, <2>3, <2>4, <2>5, <2>a, TotalType, LengthType DEF Length
    <3> QED
      BY <1>b, <2>4, <3>1
  <2>7. n = L /\ n # 0
    <3>1. Len(stream) \in Nat
      BY DEF TypeInv, TypeOK
    <3> QED
      BY <1>4, <2>4, <2>6, <3>1 DEF Arrived
  <2>8. Take(n) = Units(Current)
    <3>1. stream \in Seq(UnitSet)
      BY DEF TypeInv, TypeOK
    <3>2. Take(n) \in Seq(UnitSet) /\ Len(Take(n)) = L /\ \A k \in 1..L : Take(n)[k] = stream[k]
      BY <1>4, <2>7, <3>1, Cut DEF Take
    <3>3. DOMAIN Take(n) = 1..L /\ Take(n) = [k \in 1..L |-> Take(n)[k]]
      BY <3>2
    <3>4. \A k \in 1..L : Take(n)[k] = Unit(Current, k)
      BY <2>4, <3>2
    <3>5. Take(n) = [k \in 1..L |-> Unit(Current, k)]
      BY <3>3, <3>4
    <3> QED
      BY <2>3, <3>5 DEF Units
  <2>9. delivered' = Append(delivered, Current)
    <3>1. Made(Take(n)) = Current
      BY <2>4, <2>8, MadeIs
    <3> QED
      BY <1>2, <1>4, <2>6, <2>7, <3>1
  <2>10. DeliveredInOrder' /\ Current' = Current + 1
    BY <1>1, <2>9, Delivers
  <2>11. BeginsHere'
    BY <1>1, <1>5, <2>4, <2>7, <2>10 DEF BeginsHere
  <2>12. SendmsgInv'
    BY <1>1, <2>11 DEF SendmsgInv
  <2> QED
    BY <1>1, <1>5, <2>10, <2>12 DEF FramingInv
<1> QED
  BY <1>6, <1>7, <1>8

(* The two counters, each on its own modulo 2^32, tell what is left. *)
LEMMA LeftRead ==
    ASSUME NEW h \in 0..(Word - 1), NEW b \in 0..(Word - 1), NEW n \in Nat, n <= (h + b) % Word
    PROVE  /\ n < h => (h + Minus(b, n)) % Word = ((h + b) % Word) - n
           /\ n >= h => Minus(b, n - h) = ((h + b) % Word) - n
<1>1. PICK W \in Nat : W = Word /\ W > 0
  <2>1. Word \in Nat /\ Word > 0
    BY WordType
  <2> QED
    BY <2>1
<1>2. h \in 0..(W - 1) /\ b \in 0..(W - 1) /\ h + b \in Nat
  BY <1>1
<1>3. PICK t \in 0..(W - 1) : t = (h + b) % W
  BY <1>1, <1>2, ModWord
<1>4. (h + b < W /\ t = h + b) \/ (h + b >= W /\ t = h + b - W)
  <2>1. h + b < W => t = h + b
    BY <1>1, <1>2, <1>3, ModWord
  <2>2. h + b >= W => t = h + b - W
    <3>1. h + b < 2 * W
      BY <1>1, <1>2
    <3> QED
      BY <1>1, <1>2, <1>3, <3>1, ModWord
  <2> QED
    BY <1>1, <1>2, <2>1, <2>2
<1>5. n <= t
  BY <1>1, <1>3
<1>6. ASSUME n < h PROVE (h + Minus(b, n)) % Word = t - n
  <2>1. PICK c \in 0..(W - 1) : c = Minus(b, n)
    BY <1>1, <1>2, MinusType
  <2>2. (b - n >= 0 /\ c = b - n) \/ (b - n < 0 /\ c = b - n + W)
    <3>1. b - n \in Int /\ b - n < W /\ 0 - W <= b - n
      BY <1>1, <1>2, <1>6
    <3>2. (b - n >= 0 => (b - n) % W = b - n) /\ (b - n < 0 => (b - n) % W = b - n + W)
      BY <1>1, <3>1, ModWord
    <3> QED
      BY <1>1, <2>1, <3>1, <3>2 DEF Minus
  <2>3. h + c \in Int /\ (h + c = t - n \/ h + c = t - n + W) /\ t - n \in 0..(W - 1)
    BY <1>1, <1>2, <1>4, <1>5, <1>6, <2>2
  <2>4. h + c = t - n => (h + c) % W = t - n
    BY <1>1, <2>3, ModWord
  <2>5. h + c = t - n + W => (h + c) % W = t - n
    <3>1. h + c = t - n + W => W <= h + c /\ h + c < 2 * W /\ h + c - W = t - n
      BY <1>1, <1>3, <2>3
    <3> QED
      BY <1>1, <2>3, <3>1, ModWord
  <2> QED
    BY <1>1, <2>1, <2>3, <2>4, <2>5
<1>7. ASSUME n >= h PROVE Minus(b, n - h) = t - n
  <2>1. b - (n - h) \in Int /\ (b - (n - h) = t - n \/ b - (n - h) = t - n + W) /\ t - n \in 0..(W - 1)
    BY <1>1, <1>2, <1>4, <1>5, <1>7
  <2>2. b - (n - h) = t - n => (b - (n - h)) % W = t - n
    BY <1>1, <2>1, ModWord
  <2>3. b - (n - h) = t - n + W => (b - (n - h)) % W = t - n
    <3>1. b - (n - h) = t - n + W =>
            W <= b - (n - h) /\ b - (n - h) < 2 * W /\ b - (n - h) - W = t - n
      BY <1>1, <1>3, <2>1
    <3> QED
      BY <1>1, <2>1, <3>1, ModWord
  <2> QED
    BY <1>1, <2>1, <2>2, <2>3 DEF Minus
<1> QED
  BY <1>1, <1>3, <1>6, <1>7

(* Reading on in the message under way. *)
LEMMA ReadsOn ==
    ASSUME TypeInv, FramingInv, UNCHANGED <<kind, sent, pending, damage, delivered>>,
           NEW n \in 0..Len(stream), stream' = Drop(n), NEW p, GoesOn(p),
           n <= Length(sent[Current]) - p + 1
    PROVE  /\ Current' = Current /\ Current \in 1..Len(sent) /\ sent[Current] \in Shapes
           /\ \A k \in 1..n : stream[k] = Unit(Current, p + k - 1)
           /\ GoesOn(p + n)'
<1>1. sent \in Seq(Shapes) /\ Ahead \in Seq(UnitSet) /\ Runs(Ahead, sent)
  BY AheadIs DEF FramingInv, PeerInv
<1>2. Current' = Current
  BY DEF Current
<1>3. /\ AtUnit(Ahead, sent, Current, p) /\ Current \in 1..Len(sent) /\ sent[Current] \in Shapes
      /\ p \in 1..(Length(sent[Current]) + 1)
  BY <1>1 DEF GoesOn, AtUnit
<1>4. PICK L \in Nat : L = Length(sent[Current])
  BY <1>3, LengthType
<1>5. PICK N \in Nat : N = Len(stream)
  BY DEF TypeInv, TypeOK
<1>6. n \in 0..(L - p + 1)
  BY <1>3, <1>4, <1>5
<1>7. /\ \A k \in 1..(L - p + 1) : Ahead[k] = Unit(Current, p + k - 1)
      /\ AtUnit(Rest(Ahead, n), sent, Current, p + n)
  <2>1. n \in 0..(Length(sent[Current]) - p + 1)
    BY <1>4, <1>6
  <2>2. AtUnit(Ahead, sent, Current, p)
    BY <1>3
  <2>3. /\ \A k \in 1..(Length(sent[Current]) - p + 1) : Ahead[k] = Unit(Current, p + k - 1)
        /\ AtUnit(Rest(Ahead, n), sent, Current, p + n)
    BY <1>1, <2>1, <2>2, ReadOn
  <2> QED
    BY <1>4, <2>3
<1>8. GoesOn(p + n)'
  <2>1. Ahead' = Rest(Ahead, n)
    BY ReaderKeeps
  <2> QED
    BY <1>2, <1>7, <2>1 DEF GoesOn
<1>9. ASSUME NEW k \in 1..n PROVE stream[k] = Unit(Current, p + k - 1)
  <2>1. k \in 1..N /\ k \in 1..(L - p + 1)
    BY <1>3, <1>4, <1>5, <1>6
  <2> QED
    BY <1>5, <1>7, <2>1, AheadIs
<1> QED
  BY <1>2, <1>3, <1>8, <1>9

LEMMA NotCoped ==
    ASSUME PeerInv', ~Copes, UNCHANGED <<kind, damage>>
    PROVE  FramingInv'
  BY DEF FramingInv, Copes, DeliveredInOrder

(* A step of SimpleTransport within a message returns none. *)
LEMMA Within ==
    ASSUME FramingInv, PeerInv', UNCHANGED <<kind, damage, delivered>>, kind = "simple",
           Copes => SimpleInv'
    PROVE  FramingInv'
  BY DEF FramingInv, Copes, DeliveredInOrder

(* The units of the message that are in the buffer. *)
LEMMA Gathers ==
    ASSUME TypeInv, NEW n \in 0..Len(stream), buf' = buf \o Take(n), NEW c,
           \A i \in 1..Len(buf) : buf[i] = Unit(c, i),
           \A k \in 1..n : stream[k] = Unit(c, Len(buf) + 1 + k - 1)
    PROVE  /\ buf' \in Seq(UnitSet) /\ Len(buf') = Len(buf) + n
           /\ \A i \in 1..(Len(buf) + n) : buf'[i] = Unit(c, i)
<1>1. buf \in Seq(UnitSet) /\ stream \in Seq(UnitSet)
  BY DEF TypeInv, TypeOK
<1> DEFINE t == Take(n)
<1>2. t \in Seq(UnitSet) /\ Len(t) = n /\ \A k \in 1..n : t[k] = stream[k]
  BY <1>1, Cut DEF Take
<1>3. PICK B \in Nat : B = Len(buf)
  BY <1>1
<1>4. PICK N \in Nat : N = Len(stream)
  BY <1>1
<1> HIDE DEF t
<1>5. /\ buf' \in Seq(UnitSet) /\ Len(buf') = B + n
      /\ \A i \in 1..B : buf'[i] = buf[i]
      /\ \A k \in 1..n : buf'[B + k] = t[k]
  <2>1. buf \in Seq(UnitSet) /\ t \in Seq(UnitSet) /\ buf' = buf \o t
    BY <1>1, <1>2 DEF t
  <2>2. /\ buf \o t \in Seq(UnitSet) /\ Len(buf \o t) = Len(buf) + Len(t)
        /\ \A i \in 1..Len(buf) : (buf \o t)[i] = buf[i]
        /\ \A i \in 1..Len(t) : (buf \o t)[Len(buf) + i] = t[i]
    BY <2>1, Joined
  <2> QED
    BY <1>2, <1>3, <2>1, <2>2
<1>6. ASSUME NEW i \in 1..(B + n) PROVE buf'[i] = Unit(c, i)
  <2>1. CASE i <= B
    <3>1. i \in 1..B
      BY <1>3, <2>1
    <3> QED
      BY <1>3, <1>5, <3>1
  <2>2. CASE i > B
    <3>1. PICK k \in 1..n : i = B + k /\ B + 1 + k - 1 = i
      <4>1. i - B \in 1..n /\ i = B + (i - B) /\ B + 1 + (i - B) - 1 = i
        BY <1>3, <1>4, <2>2
      <4> QED
        BY <4>1
    <3> QED
      BY <1>2, <1>3, <1>5, <3>1
  <2>3. B + n \in Int /\ i \in Int
    BY <1>3, <1>4
  <2>4. i <= B \/ i > B
    BY <1>3, <2>3
  <2> QED
    BY <2>1, <2>2, <2>4
<1> QED
  BY <1>3, <1>5, <1>6

LEMMA FirstFraming == ASSUME TypeInv, FramingInv, First PROVE FramingInv'
<1>1. /\ UNCHANGED <<kind, sent, pending, closed, damage, headerLeft, bodyLeft, delivered>>
      /\ kind = "simple" /\ rstate = "FirstHeaderPart" /\ Len(buf) < 2 /\ headerLeft = 0 /\ Fixed = 2
      /\ buf \in Seq(UnitSet) /\ Len(buf) \in Nat
  BY TransportAssumption DEF First, peerVars, TypeInv, TypeOK, ReaderInv, Fixed
<1>2. PICK B \in 0..1 : B = Len(buf)
  <2>1. Len(buf) \in Nat /\ Len(buf) < 2
    BY <1>1
  <2>2. Len(buf) \in 0..1
    BY <2>1
  <2> QED
    BY <2>2
<1>3. PICK N \in Nat : N = Len(stream)
  BY DEF TypeInv, TypeOK
<1>4. PICK n \in 0..N : n = Arrived(2 - B) /\ n <= 2 - B
  <2>1. TypeOK /\ 2 - B \in Nat
    BY <1>2 DEF TypeInv
  <2> QED
    BY <1>3, <2>1, Takes
<1>5. /\ buf' = buf \o Take(n) /\ stream' = Drop(n)
      /\ rstate' = IF B + n = 2 THEN "SecondHeaderPart" ELSE rstate
  BY <1>1, <1>2, <1>4 DEF First
<1>6. PeerInv' /\ Ahead' = Rest(Ahead, n)
  BY <1>1, <1>3, <1>4, <1>5, ReaderKeeps
<1>7. ASSUME Copes PROVE SimpleInv'
  <2>1. \/ buf = <<>> /\ BeginsHere
        \/ buf = <<Unit(Current, 1)>> /\ GoesOn(2)
    BY <1>1, <1>7 DEF FramingInv, SimpleInv
  <2>2. CASE n = 0
    <3>1. buf' = buf /\ rstate' = rstate
      <4>1. Take(0) = <<>>
        BY DEF Take
      <4> QED
        BY <1>1, <1>2, <1>5, <2>2, <4>1
    <3>2. Ahead' = Ahead /\ Current' = Current
      <4>1. Rest(Ahead, 0) = Ahead
        BY AheadIs DEF Rest
      <4> QED
        BY <1>1, <1>6, <2>2, <4>1 DEF Current
    <3>3. (buf = <<>> /\ BeginsHere)' \/ (buf = <<Unit(Current, 1)>> /\ GoesOn(2))'
      BY <1>1, <2>1, <3>1, <3>2 DEF BeginsHere, GoesOn
    <3> QED
      BY <1>1, <3>1, <3>3 DEF SimpleInv
  <2>3. CASE n # 0
    <3>1. GoesOn(B + 1) /\ \A i \in 1..B : buf[i] = Unit(Current, i)
      <4>1. CASE buf = <<>> /\ BeginsHere
        <5>1. Ahead # <<>>
          <6>1. Len(Ahead) = N + Len(pending) /\ Len(pending) \in Nat
            BY <1>3, AheadIs
          <6>2. Len(Ahead) # 0
            BY <1>3, <1>4, <2>3, <6>1
          <6> QED
            BY <6>2
        <5>2. GoesOn(1)
          BY <4>1, <5>1, AheadIs, BeginsAt DEF FramingInv, PeerInv, BeginsHere, GoesOn
        <5>3. B = 0
          BY <1>2, <4>1
        <5> QED
          BY <5>2, <5>3
      <4>2. CASE buf = <<Unit(Current, 1)>> /\ GoesOn(2)
        <5>1. B = 1 /\ buf[1] = Unit(Current, 1)
          BY <1>2, <4>2
        <5> QED
          BY <4>2, <5>1
      <4> QED
        BY <2>1, <4>1, <4>2
    <3>2. n <= Length(sent[Current]) - (B + 1) + 1
      <4>1. Current \in 1..Len(sent) /\ sent \in Seq(Shapes)
        BY <3>1, AheadIs DEF GoesOn, AtUnit
      <4>2. PICK L \in Nat : L = Length(sent[Current]) /\ L >= 2
        BY <4>1, LengthType
      <4> QED
        BY <1>2, <1>4, <4>2
    <3>3. /\ Current' = Current
          /\ \A k \in 1..n : stream[k] = Unit(Current, B + 1 + k - 1)
          /\ GoesOn(B + 1 + n)'
      BY <1>1, <1>3, <1>4, <1>5, <3>1, <3>2, ReadsOn
    <3>4. /\ buf' \in Seq(UnitSet) /\ Len(buf') = B + n
          /\ \A i \in 1..(B + n) : buf'[i] = Unit(Current, i)
      BY <1>2, <1>3, <1>4, <1>5, <3>1, <3>3, Gathers
    <3>5. CASE B + n = 2
      <4>1. rstate' = "SecondHeaderPart" /\ GoesOn(Fixed + 1)' /\ headerLeft' = 0 /\ Len(buf') = Fixed
        <5>1. B + 1 + n = Fixed + 1
          BY <1>1, <1>2, <1>3, <1>4, <3>5
        <5> QED
          BY <1>1, <1>5, <3>3, <3>4, <3>5, <5>1
      <4>2. buf'[1] = Unit(Current, 1) /\ buf'[2] = Unit(Current, 2)
        BY <3>4, <3>5
      <4> QED
        BY <1>1, <3>3, <4>1, <4>2 DEF SimpleInv
    <3>6. CASE B + n # 2
      <4>1. B = 0 /\ n = 1 /\ rstate' = "FirstHeaderPart"
        BY <1>1, <1>2, <1>3, <1>4, <1>5, <2>3, <3>6
      <4>2. buf' = <<Unit(Current, 1)>>
        BY <3>4, <4>1
      <4>3. GoesOn(2)'
        BY <3>3, <4>1
      <4> QED
        BY <3>3, <4>1, <4>2, <4>3 DEF SimpleInv
    <3> QED
      BY <3>5, <3>6
  <2> QED
    BY <2>2, <2>3
<1> QED
  BY <1>1, <1>6, <1>7, Within

(* What the header in the buffer announces is the length of the message. *)
LEMMA Announced ==
    ASSUME TypeInv, Len(buf) >= Fixed, buf[1] = Unit(Current, 1), buf[2] = Unit(Current, 2)
    PROVE  /\ BodyLength(buf) = {sent[Current].body} /\ ArrayLength(buf) = {sent[Current].array}
           /\ ~MayBeBadOrder(buf)
<1>1. buf[1].pos = 1 /\ buf[1].msg = Current /\ buf[2].pos = 2 /\ buf[2].msg = Current
  BY UnitFields
<1> QED
  BY <1>1 DEF BodyLength, ArrayLength, MayBeBadOrder

(* A purge is never taken for a message that the transport can cope with. *)
LEMMA PurgeFraming == ASSUME TypeInv, FramingInv, Purge PROVE FramingInv'
<1>1. /\ UNCHANGED <<kind, sent, pending, closed, damage, bodyLeft, delivered>>
      /\ kind = "simple" /\ rstate = "SecondHeaderPart" /\ headerLeft = 0 /\ stream' = <<>>
      /\ Len(buf) >= Fixed
  BY TransportAssumption DEF Purge, peerVars, TypeInv, TypeOK, ReaderInv
<1>2. PICK N \in Nat : N = Len(stream)
  BY DEF TypeInv, TypeOK
<1>3. stream' = Drop(N) /\ N \in 0..N
  <2>1. stream \in Seq(UnitSet)
    BY DEF TypeInv, TypeOK
  <2>2. Drop(N) \in Seq(UnitSet) /\ Len(Drop(N)) = N - N
    BY <1>2, <2>1, Cut DEF Drop
  <2> QED
    BY <1>1, <1>2, <2>2
<1>4. PeerInv'
  BY <1>1, <1>2, <1>3, ReaderKeeps
<1>5. ASSUME Copes PROVE FALSE
  <2>1. buf[1] = Unit(Current, 1) /\ buf[2] = Unit(Current, 2) /\ GoesOn(Fixed + 1)
    BY <1>1, <1>5 DEF FramingInv, SimpleInv
  <2>2. \E b \in BodyLength(buf), a \in ArrayLength(buf) : SumTooLong(a, b)
    BY <1>1, <2>1, Announced DEF Purge
  <2>3. (sent[Current].array + sent[Current].body) % Word > MaxLength
    BY <1>1, <2>1, <2>2, Announced DEF SumTooLong
  <2>4. Current \in 1..Len(sent) /\ sent \in Seq(Shapes)
    BY <2>1, AheadIs DEF GoesOn, AtUnit
  <2>5. "long" \notin damage
    BY <1>1, <1>5 DEF Copes
  <2>6. sent[Current].array + sent[Current].body <= MaxLength
    BY <2>4, <2>5 DEF FramingInv, PeerInv
  <2>7. sent[Current].array \in Nat /\ sent[Current].body \in Nat /\ MaxLength \in Nat
    <3>1. sent[Current] \in Shapes
      BY <2>4
    <3> QED
      BY <3>1, TransportAssumption, WordType
  <2>8. PICK x \in Nat : x = sent[Current].array + sent[Current].body
    BY <2>7
  <2>9. x < Word /\ x % Word = x
    BY <2>6, <2>8, WordType, ModWord
  <2> QED
    BY <2>3, <2>6, <2>7, <2>8, <2>9
<1> QED
  BY <1>1, <1>4, <1>5, NotCoped

LEMMA BodyReadFraming == ASSUME TypeInv, FramingInv, BodyRead PROVE FramingInv'
<1>1. /\ UNCHANGED <<kind, sent, pending, closed, damage, buf, rstate, headerLeft, delivered>>
      /\ kind = "simple" /\ rstate = "Body" /\ headerLeft = 0 /\ bodyLeft # 0
      /\ bodyLeft \in 0..(Word - 1)
  BY TransportAssumption DEF BodyRead, peerVars, TypeInv, TypeOK, ReaderInv
<1>2. PICK b \in Nat : b = bodyLeft /\ b < Word
  <2>1. bodyLeft \in Nat /\ bodyLeft < Word
    BY <1>1, WordType
  <2> QED
    BY <2>1
<1>3. PICK n \in 0..Len(stream) : n = Arrived(b) /\ n <= b /\ n \in Nat
  <2>1. TypeOK
    BY DEF TypeInv
  <2> QED
    BY <1>2, <2>1, Takes
<1>4. stream' = Drop(n) /\ bodyLeft' = Minus(b, n)
  BY <1>2, <1>3 DEF BodyRead
<1>5. PeerInv'
  BY <1>1, <1>4, ReaderKeeps
<1>6. ASSUME Copes PROVE SimpleInv'
  <2>1. Left = b /\ Left' = b - n
    <3>1. Left = b
      BY <1>1, <1>2, ModWord DEF Left
    <3>2. b - n \in Int /\ 0 <= b - n /\ b - n < Word
      BY <1>2, <1>3, WordType
    <3>3. bodyLeft' = b - n
      BY <1>4, <3>2, ModWord DEF Minus
    <3>4. Left' = (0 + (b - n)) % Word /\ 0 + (b - n) = b - n
      BY <1>1, <3>2, <3>3 DEF Left
    <3> QED
      BY <3>1, <3>2, <3>4, ModWord
  <2>2. GoesOnFor(b)
    BY <1>1, <1>6, <2>1 DEF FramingInv, SimpleInv
  <2>3. Current \in 1..Len(sent) /\ sent[Current] \in Shapes
    BY <2>2, AheadIs DEF GoesOnFor, GoesOn, AtUnit
  <2>4. PICK L \in Nat : L = Length(sent[Current])
    BY <2>3, LengthType
  <2>5. GoesOn(L - b + 1) /\ b <= L - Fixed
    BY <2>2, <2>4 DEF GoesOnFor
  <2>6. n <= L - (L - b + 1) + 1
    BY <1>2, <1>3, <2>4
  <2>7. Current' = Current /\ GoesOn(L - b + 1 + n)'
    BY <1>1, <1>4, <2>4, <2>5, <2>6, ReadsOn
  <2>8. L - b + 1 + n = L - (b - n) + 1 /\ b - n <= L - Fixed
    BY <1>2, <1>3, <2>4, <2>5 DEF Fixed
  <2>9. GoesOnFor(Left)'
    <3>1. Length(sent[Current])' = L
      BY <1>1, <2>4, <2>7
    <3> QED
      BY <2>1, <2>7, <2>8, <3>1 DEF GoesOnFor
  <2>10. damage' # {}
    BY <1>1 DEF FramingInv, SimpleInv, Copes
  <2> QED
    BY <1>1, <2>9, <2>10 DEF SimpleInv
<1> QED
  BY <1>1, <1>5, <1>6, Within

LEMMA BodyDoneFraming == ASSUME TypeInv, FramingInv, BodyDone PROVE FramingInv'
<1>1. /\ UNCHANGED <<kind, sent, pending, closed, damage, stream, bodyLeft>>
      /\ kind = "simple" /\ rstate = "Body" /\ headerLeft = 0 /\ bodyLeft = 0
      /\ delivered' = Append(delivered, Made(buf)) /\ buf' = <<>>
      /\ rstate' = "FirstHeaderPart"
  BY TransportAssumption DEF BodyDone, peerVars, TypeInv, TypeOK, ReaderInv
<1>2. Ahead' = Ahead
  BY <1>1 DEF Ahead
<1>3. PeerInv' /\ Copes' = Copes
  BY <1>1, <1>2 DEF FramingInv, PeerInv, Copes
<1>4. ASSUME Copes PROVE SimpleInv' /\ DeliveredInOrder'
  <2>1. Left = 0
    BY <1>1, WordType, ModWord DEF Left
  <2>2. GoesOnFor(0)
    BY <1>1, <1>4, <2>1 DEF FramingInv, SimpleInv
  <2>3. Current \in 1..Len(sent) /\ sent[Current] \in Shapes
    BY <2>2, AheadIs DEF GoesOnFor, GoesOn, AtUnit
  <2>4. PICK L \in Nat : L = Length(sent[Current])
    BY <2>3, LengthType
  <2>5. Begins(Ahead, sent, Current + 1)
    <3>1. L - 0 + 1 = L + 1 /\ ~(L + 1 <= L)
      BY <2>4
    <3>2. AtUnit(Ahead, sent, Current, L + 1)
      BY <2>2, <2>4, <3>1 DEF GoesOnFor, GoesOn
    <3> QED
      BY <2>4, <3>1, <3>2 DEF AtUnit
  <2>6. damage = {} => Made(buf) = Current
    BY <1>1, <1>4, <2>3, MadeIs DEF FramingInv, SimpleInv
  <2>7. DeliveredInOrder' /\ Current' = Current + 1
    BY <1>1, <2>6, Delivers
  <2>8. BeginsHere'
    BY <1>1, <1>2, <2>5, <2>7 DEF BeginsHere
  <2> QED
    BY <1>1, <2>7, <2>8 DEF SimpleInv
<1> QED
  BY <1>1, <1>3, <1>4, NotCoped DEF FramingInv

(* The lengths read from the header, or kept from the last call. *)
Lengths == IF headerLeft = 0
           THEN {<<a, b>> : a \in ArrayLength(buf), b \in BodyLength(buf)}
           ELSE {<<headerLeft, bodyLeft>>}

(* What the lengths say is what is left of the message. *)
LEMMA LengthsLeft ==
    ASSUME TypeInv, FramingInv, kind = "simple", Copes, rstate = "SecondHeaderPart",
           NEW lens \in Lengths
    PROVE  /\ lens[1] \in 0..(Word - 1) /\ lens[2] \in 0..(Word - 1)
           /\ GoesOnFor((lens[1] + lens[2]) % Word)
           /\ headerLeft # 0 => lens[1] # 0
           /\ headerLeft = 0 => lens[1] + lens[2] = Length(sent[Current]) - Fixed
           /\ headerLeft = 0 => (lens[1] + lens[2]) % Word = lens[1] + lens[2]
<1>1. /\ buf[1] = Unit(Current, 1) /\ buf[2] = Unit(Current, 2)
      /\ headerLeft = 0 => Len(buf) = Fixed /\ GoesOn(Fixed + 1)
      /\ headerLeft # 0 => GoesOnFor(Left)
  BY DEF FramingInv, SimpleInv
<1>2. headerLeft \in 0..(Word - 1) /\ bodyLeft \in 0..(Word - 1) /\ Len(buf) >= Fixed
  BY DEF TypeInv, TypeOK, ReaderInv
<1>3. CASE headerLeft # 0
  <2>1. lens[1] = headerLeft /\ lens[2] = bodyLeft
    BY <1>3 DEF Lengths
  <2> QED
    BY <1>1, <1>2, <1>3, <2>1 DEF Left
<1>4. CASE headerLeft = 0
  <2>1. lens[1] = sent[Current].array /\ lens[2] = sent[Current].body
    BY <1>1, <1>2, <1>4, Announced DEF Lengths
  <2>2. Current \in 1..Len(sent) /\ sent \in Seq(Shapes) /\ sent[Current] \in Shapes
    BY <1>1, <1>4, AheadIs DEF GoesOn, AtUnit
  <2>3. PICK h \in Nat : h = lens[1]
    BY <2>1, <2>2, TransportAssumption
  <2>4. PICK b \in Nat : b = lens[2]
    BY <2>1, <2>2, TransportAssumption
  <2>5. h + b < Word
    <3>1. "long" \notin damage
      BY DEF Copes
    <3>2. h + b <= MaxLength
      BY <2>1, <2>2, <2>3, <2>4, <3>1 DEF FramingInv, PeerInv
    <3>3. MaxLength \in Nat /\ MaxLength < Word
      BY TransportAssumption, WordType
    <3> QED
      BY <2>3, <2>4, <3>2, <3>3, WordType
  <2>6. h \in 0..(Word - 1) /\ b \in 0..(Word - 1) /\ (h + b) % Word = h + b
    <3>1. h \in 0..(Word - 1) /\ b \in 0..(Word - 1)
      BY <2>3, <2>4, <2>5, WordType
    <3> QED
      BY <2>3, <2>4, <2>5, <3>1, ModWord
  <2>7. Length(sent[Current]) = 2 + h + b /\ Fixed = 2
    BY <2>1, <2>3, <2>4 DEF Length, Fixed
  <2>8. GoesOnFor(h + b)
    <3>1. (2 + h + b) - (h + b) + 1 = 2 + 1 /\ h + b <= (2 + h + b) - 2
      BY <2>3, <2>4
    <3> QED
      BY <1>1, <1>4, <2>7, <3>1 DEF GoesOnFor
  <2> QED
    BY <1>4, <2>3, <2>4, <2>6, <2>7, <2>8
<1> QED
  BY <1>3, <1>4

(* A message that arrives whole is there to be read. *)
LEMMA RestIsThere ==
    ASSUME TypeInv, FramingInv, kind = "simple", damage = {}, NEW left \in Nat, GoesOn(Fixed + 1),
           left = Length(sent[Current]) - Fixed
    PROVE  Len(stream) >= left
<1>1. PICK N \in Nat : N = Len(stream)
  BY DEF TypeInv, TypeOK
<1>2. Fixed + 1 = 3 /\ Fixed = 2
  BY DEF Fixed
<1>3. AtUnit(Ahead, sent, Current, 3) /\ 3 + N # 1 /\ 3 + N # 2
  BY <1>1, <1>2 DEF GoesOn
<1>4. N >= Length(sent[Current]) - 3 + 1
  BY <1>1, <1>3, Whole DEF FramingInv
<1>5. PICK L \in Nat : L = Length(sent[Current])
  BY <1>3, AheadIs, LengthType DEF AtUnit
<1> QED
  BY <1>1, <1>2, <1>4, <1>5

(* The three ways SecondHeaderPart goes on: nothing to read, the array      *)
(* complete, the array not complete.                                        *)
LEMMA SecondSteps ==
    ASSUME TypeInv, Second
    PROVE  /\ UNCHANGED <<kind, sent, pending, closed, damage, delivered>>
           /\ kind = "simple" /\ rstate = "SecondHeaderPart"
           /\ \E lens \in Lengths :
                LET h == lens[1]
                    b == lens[2]
                    want == (h + b) % Word
                    n == Arrived(want)
                IN \/ /\ want > 0 /\ stream = <<>>
                      /\ headerLeft' = h /\ bodyLeft' = b /\ UNCHANGED <<buf, stream, rstate>>
                   \/ /\ buf' = buf \o Take(n) /\ stream' = Drop(n) /\ n >= h
                      /\ headerLeft' = 0 /\ bodyLeft' = Minus(b, n - h) /\ rstate' = "Body"
                   \/ /\ buf' = buf \o Take(n) /\ stream' = Drop(n) /\ ~(n >= h)
                      /\ headerLeft' = h /\ bodyLeft' = Minus(b, n) /\ rstate' = rstate
<1>1. /\ UNCHANGED <<kind, sent, pending, closed, damage, delivered>>
      /\ kind = "simple" /\ rstate = "SecondHeaderPart"
  BY TransportAssumption DEF Second, peerVars, TypeInv, TypeOK, ReaderInv
<1>2. PICK lens \in Lengths :
        LET h == lens[1]
            b == lens[2]
            want == (h + b) % Word
            n == Arrived(want)
            whole == ArrayDone(n, h)
        IN IF want > 0 /\ WouldBlock
           THEN headerLeft' = h /\ bodyLeft' = b /\ UNCHANGED <<buf, stream, rstate>>
           ELSE /\ buf' = buf \o Take(n)
                /\ stream' = Drop(n)
                /\ headerLeft' = IF whole THEN 0 ELSE h
                /\ bodyLeft' = Minus(b, IF whole THEN n - h ELSE n)
                /\ rstate' = IF whole THEN "Body" ELSE rstate
  BY DEF Second, Lengths
<1> DEFINE h == lens[1]
           b == lens[2]
           want == (h + b) % Word
           n == Arrived(want)
<1>3. CASE want > 0 /\ WouldBlock
  BY <1>1, <1>2, <1>3 DEF WouldBlock
<1>4. CASE ~(want > 0 /\ WouldBlock)
  BY <1>1, <1>2, <1>4 DEF ArrayDone
<1> QED
  BY <1>3, <1>4

LEMMA SecondFraming == ASSUME TypeInv, FramingInv, Second PROVE FramingInv'
<1>1. /\ UNCHANGED <<kind, sent, pending, closed, damage, delivered>>
      /\ kind = "simple" /\ rstate = "SecondHeaderPart"
  BY SecondSteps
<1>2. PICK lens \in Lengths :
        LET h == lens[1]
            b == lens[2]
            want == (h + b) % Word
            n == Arrived(want)
        IN \/ /\ want > 0 /\ stream = <<>>
              /\ headerLeft' = h /\ bodyLeft' = b /\ UNCHANGED <<buf, stream, rstate>>
           \/ /\ buf' = buf \o Take(n) /\ stream' = Drop(n) /\ n >= h
              /\ headerLeft' = 0 /\ bodyLeft' = Minus(b, n - h) /\ rstate' = "Body"
           \/ /\ buf' = buf \o Take(n) /\ stream' = Drop(n) /\ ~(n >= h)
              /\ headerLeft' = h /\ bodyLeft' = Minus(b, n) /\ rstate' = rstate
  BY SecondSteps
<1>3. PICK h \in Nat : h = lens[1]
  <2>1. Len(buf) >= Fixed /\ headerLeft \in 0..(Word - 1)
    BY <1>1 DEF TypeInv, TypeOK, ReaderInv
  <2>2. ArrayLength(buf) \subseteq Nat
    BY <2>1, LengthTypes
  <2> QED
    BY <2>1, <2>2 DEF Lengths
<1>4. PICK b \in Nat : b = lens[2]
  <2>1. Len(buf) >= Fixed /\ bodyLeft \in 0..(Word - 1)
    BY <1>1 DEF TypeInv, TypeOK, ReaderInv
  <2>2. BodyLength(buf) \subseteq Nat
    BY <2>1, LengthTypes
  <2> QED
    BY <2>1, <2>2 DEF Lengths
<1>5. PICK want \in 0..(Word - 1) : want = (h + b) % Word
  BY <1>3, <1>4, ModWord
<1>6. PICK n \in 0..Len(stream) : n = Arrived(want) /\ n <= want /\ n \in Nat
  <2>1. TypeOK /\ want \in Nat
    BY WordType DEF TypeInv
  <2> QED
    BY <2>1, Takes
<1>7. \/ /\ want > 0 /\ stream = <<>>
         /\ headerLeft' = h /\ bodyLeft' = b /\ UNCHANGED <<buf, stream, rstate>>
      \/ /\ buf' = buf \o Take(n) /\ stream' = Drop(n) /\ n >= h
         /\ headerLeft' = 0 /\ bodyLeft' = Minus(b, n - h) /\ rstate' = "Body"
      \/ /\ buf' = buf \o Take(n) /\ stream' = Drop(n) /\ ~(n >= h)
         /\ headerLeft' = h /\ bodyLeft' = Minus(b, n) /\ rstate' = rstate
  BY <1>2, <1>3, <1>4, <1>5, <1>6
<1>8. PeerInv'
  <2>1. CASE stream' = stream
    BY <1>1, <2>1 DEF FramingInv, PeerInv, Ahead
  <2>2. CASE stream' = Drop(n)
    BY <1>1, <2>2, ReaderKeeps
  <2> QED
    BY <1>7, <2>1, <2>2
<1>9. ASSUME Copes PROVE SimpleInv'
  <2>1. /\ h \in 0..(Word - 1) /\ b \in 0..(Word - 1) /\ GoesOnFor(want)
        /\ headerLeft # 0 => h # 0
        /\ headerLeft = 0 => h + b = Length(sent[Current]) - Fixed /\ want = h + b
    BY <1>1, <1>3, <1>4, <1>5, <1>9, LengthsLeft
  <2>2. /\ buf[1] = Unit(Current, 1) /\ buf[2] = Unit(Current, 2) /\ buf \in Seq(UnitSet)
        /\ headerLeft = 0 => Len(buf) = Fixed /\ GoesOn(Fixed + 1)
        /\ damage = {} => headerLeft = 0
    BY <1>1, <1>9 DEF FramingInv, SimpleInv, TypeInv, TypeOK
  <2>3. Current \in 1..Len(sent) /\ sent[Current] \in Shapes
    BY <2>1, AheadIs DEF GoesOnFor, GoesOn, AtUnit
  <2>4. PICK L \in Nat : L = Length(sent[Current]) /\ Fixed = 2
    BY <2>3, LengthType
  <2>5. Current' = Current /\ Length(sent[Current])' = L
    BY <1>1, <2>4 DEF Current
  <2>6. damage = {} => Len(stream) >= want
    <3> SUFFICES ASSUME damage = {} PROVE Len(stream) >= want
      OBVIOUS
    <3>1. want \in Nat /\ GoesOn(Fixed + 1) /\ want = Length(sent[Current]) - Fixed
      BY <2>1, <2>2, WordType
    <3> QED
      BY <1>1, <3>1, RestIsThere
  <2>7. damage = {} => n = want
    <3>1. Len(stream) \in Nat
      BY DEF TypeInv, TypeOK
    <3> QED
      BY <1>5, <1>6, <2>6, <3>1, WordType DEF Arrived
  <2>8. CASE want > 0 /\ stream = <<>> /\ headerLeft' = h /\ bodyLeft' = b /\ UNCHANGED <<buf, stream, rstate>>
    <3>1. Ahead' = Ahead /\ \A p : GoesOn(p) => GoesOn(p)'
      BY <1>1, <2>5, <2>8 DEF Ahead, GoesOn
    <3>2. Left' = want
      BY <1>5, <2>8 DEF Left
    <3>3. GoesOnFor(Left)'
      BY <1>1, <2>1, <2>5, <3>1, <3>2 DEF GoesOnFor
    <3>4. headerLeft' = 0 => Len(buf') = Fixed /\ GoesOn(Fixed + 1)'
      BY <2>1, <2>2, <2>8, <3>1
    <3>5. damage # {}
      <4>1. Len(stream) = 0
        BY <2>8
      <4> QED
        BY <2>6, <2>8, <4>1, WordType
    <3> QED
      BY <1>1, <2>2, <2>5, <2>8, <3>3, <3>4, <3>5 DEF SimpleInv
  <2>9. CASE buf' = buf \o Take(n) /\ stream' = Drop(n)
    <3>1. GoesOn(L - want + 1) /\ want <= L - 2
      BY <2>1, <2>4 DEF GoesOnFor
    <3>2. n <= L - (L - want + 1) + 1
      BY <1>5, <1>6, <2>4, WordType
    <3>3. GoesOn(L - want + 1 + n)' /\ \A k \in 1..n : stream[k] = Unit(Current, L - want + 1 + k - 1)
      BY <1>1, <2>4, <2>9, <3>1, <3>2, ReadsOn
    <3>4. \A m : m = want - n => GoesOnFor(m)'
      <4>1. L - want + 1 + n = L - (want - n) + 1 /\ want - n <= L - 2
        <5>1. want \in Nat
          BY <1>5, WordType
        <5>2. L \in Nat /\ n \in Nat /\ want <= L - 2
          BY <1>6, <3>1
        <5> QED
          BY <5>1, <5>2
      <4> QED
        BY <2>4, <2>5, <3>3, <4>1 DEF GoesOnFor
    <3>5. buf'[1] = Unit(Current', 1) /\ buf'[2] = Unit(Current', 2)
      <4>1. Take(n) \in Seq(UnitSet)
        BY Takes, <1>5, <1>6, WordType DEF TypeInv
      <4>2. \A i \in 1..Len(buf) : buf'[i] = buf[i]
        BY <2>2, <2>9, <4>1, Joined
      <4>3. 1 \in 1..Len(buf) /\ 2 \in 1..Len(buf)
        BY <1>1, <2>2, <2>4 DEF TypeInv, ReaderInv
      <4> QED
        BY <2>2, <2>5, <4>2, <4>3
    <3>6. CASE n >= h /\ headerLeft' = 0 /\ bodyLeft' = Minus(b, n - h) /\ rstate' = "Body"
      <4>1. bodyLeft' = want - n
        BY <1>5, <1>6, <2>1, <3>6, LeftRead
      <4>2. Left' = want - n
        <5>1. want - n \in Int /\ 0 <= want - n /\ want - n < Word /\ 0 + (want - n) = want - n
          BY <1>5, <1>6, WordType
        <5> QED
          BY <3>6, <4>1, <5>1, ModWord DEF Left
      <4>3. GoesOnFor(Left)'
        BY <3>4, <4>2
      <4>4. damage = {} => bodyLeft' = 0 /\ buf' = Units(Current)'
        <5> SUFFICES ASSUME damage = {} PROVE bodyLeft' = 0 /\ buf' = Units(Current)'
          OBVIOUS
        <5>1. n = want /\ want = L - 2 /\ Len(buf) = 2 /\ want \in Nat
          BY <2>1, <2>2, <2>4, <2>7, WordType
        <5>2. bodyLeft' = 0
          BY <4>1, <5>1
        <5>3. \A i \in 1..Len(buf) : buf[i] = Unit(Current, i)
          BY <2>2, <5>1
        <5>4. \A k \in 1..n : stream[k] = Unit(Current, Len(buf) + 1 + k - 1)
          <6>1. L - want + 1 = Len(buf) + 1
            BY <2>4, <5>1
          <6> QED
            BY <3>3, <6>1
        <5>5. /\ buf' \in Seq(UnitSet) /\ Len(buf') = Len(buf) + n
              /\ \A i \in 1..(Len(buf) + n) : buf'[i] = Unit(Current, i)
          BY <2>9, <5>3, <5>4, Gathers
        <5>6. Len(buf) + n = L
          BY <2>4, <5>1
        <5>7. buf' = [i \in 1..L |-> Unit(Current, i)]
          <6>1. buf' = [i \in 1..L |-> buf'[i]]
            BY <5>5, <5>6
          <6> QED
            BY <5>5, <5>6, <6>1
        <5>8. Units(Current)' = [i \in 1..L |-> Unit(Current, i)]
          BY <2>5 DEF Units
        <5> QED
          BY <5>2, <5>7, <5>8
      <4> QED
        BY <1>1, <3>6, <4>3, <4>4 DEF SimpleInv
    <3>7. CASE ~(n >= h) /\ headerLeft' = h /\ bodyLeft' = Minus(b, n) /\ rstate' = rstate
      <4>1. n < h /\ h # 0
        BY <1>6, <3>7
      <4>2. Left' = want - n
        <5>1. (h + Minus(b, n)) % Word = ((h + b) % Word) - n
          BY <1>5, <1>6, <2>1, <4>1, LeftRead
        <5> QED
          BY <1>5, <3>7, <5>1 DEF Left
      <4>3. GoesOnFor(Left)'
        BY <3>4, <4>2
      <4>4. damage # {}
        <5>1. damage = {} => n = h + b
          BY <2>1, <2>2, <2>7
        <5> QED
          BY <4>1, <5>1
      <4> QED
        BY <1>1, <3>5, <3>7, <4>1, <4>3, <4>4 DEF SimpleInv
    <3> QED
      BY <1>7, <2>9, <3>6, <3>7, <2>8
  <2> QED
    BY <1>7, <2>8, <2>9
<1> QED
  BY <1>1, <1>8, <1>9, Within

LEMMA FramingStep == TypeInv /\ FramingInv /\ [Next]_vars => FramingInv'
<1> SUFFICES ASSUME TypeInv, FramingInv, [Next]_vars PROVE FramingInv'
  OBVIOUS
<1>1. CASE PeerStep
  BY <1>1, PeerFraming
<1>2. CASE ReadMessage \/ BadOrder \/ PurgeData \/ ReadBlocks \/ UNCHANGED vars
  <2>1. /\ UNCHANGED <<kind, sent, pending, stream, damage, buf, rstate, headerLeft, bodyLeft, delivered>>
        /\ pc' # "receive" \/ UNCHANGED vars
    <3>1. CASE ReadMessage
      <4>1. kind \in {"sendmsg", "simple"} /\ rstate \in {"FirstHeaderPart", "SecondHeaderPart", "Body"}
        BY TransportAssumption DEF TypeInv, TypeOK
      <4>2. UNCHANGED <<kind, sent, pending, stream, damage, buf, rstate, headerLeft, bodyLeft, delivered>>
        BY <3>1 DEF ReadMessage, peerVars, simpleVars
      <4>3. /\ kind = "sendmsg" => pc' = "peek"
            /\ kind = "simple" =>
                 /\ rstate = "FirstHeaderPart" => pc' = "first"
                 /\ rstate = "SecondHeaderPart" => pc' = "second"
                 /\ rstate = "Body" => pc' = "body"
        BY <3>1 DEF ReadMessage
      <4> QED
        BY <4>1, <4>2, <4>3
    <3>2. CASE BadOrder \/ PurgeData \/ ReadBlocks
      BY <3>2 DEF BadOrder, PurgeData, ReadBlocks, peerVars, simpleVars
    <3>3. CASE UNCHANGED vars
      BY <3>3 DEF vars
    <3> QED
      BY <1>2, <3>1, <3>2, <3>3
  <2>2. CASE pc' # "receive"
    BY <2>1, <2>2, Steady
  <2>3. CASE UNCHANGED vars
    <3>1. Ahead' = Ahead /\ Current' = Current /\ Left' = Left /\ Units(Current)' = Units(Current)
      BY <2>3 DEF vars, Ahead, Current, Left, Units
    <3>2. BeginsHere' = BeginsHere /\ \A p : GoesOn(p)' = GoesOn(p)
      BY <2>3, <3>1 DEF vars, BeginsHere, GoesOn
    <3>3. GoesOnFor(Left)' = GoesOnFor(Left)
      BY <2>3, <3>1, <3>2 DEF vars, GoesOnFor
    <3>4. SendmsgInv' = SendmsgInv /\ SimpleInv' = SimpleInv
      BY <2>3, <3>1, <3>2, <3>3 DEF vars, SendmsgInv, SimpleInv
    <3> QED
      BY <2>3, <3>1, <3>4 DEF vars, FramingInv, PeerInv, Copes, DeliveredInOrder
  <2> QED
    BY <2>1, <2>2, <2>3
<1>3. CASE Peek \/ Receive
  BY <1>3, PeekFraming, ReceiveFraming
<1>4. CASE First \/ Purge \/ Second \/ BodyRead \/ BodyDone
  BY <1>4, FirstFraming, PurgeFraming, SecondFraming, BodyReadFraming, BodyDoneFraming
<1> QED
  BY <1>1, <1>2, <1>3, <1>4 DEF Next, ReaderStep, SendmsgStep, SimpleStep

LEMMA BoundaryFollows == TypeInv /\ FramingInv => BoundaryKept
<1> SUFFICES ASSUME TypeInv, FramingInv, pc = "idle", stream # <<>>,
                    \/ kind = "simple" /\ buf = <<>> /\ damage \subseteq {"split"}
                    \/ kind = "sendmsg" /\ damage \subseteq {"long"}
             PROVE  Head(stream).pos = 1
  BY DEF BoundaryKept
<1>1. Copes /\ kind \in {"sendmsg", "simple"}
  BY TransportAssumption DEF Copes, TypeInv, TypeOK
<1>2. BeginsHere
  <2>1. CASE kind = "sendmsg"
    BY <1>1, <2>1 DEF FramingInv, SendmsgInv
  <2>2. CASE kind = "simple" /\ buf = <<>>
    <3>1. Len(buf) = 0
      BY <2>2
    <3>2. rstate = "FirstHeaderPart"
      <4>1. ~(Len(buf) >= Fixed)
        BY <3>1 DEF Fixed
      <4> QED
        BY <2>2, <4>1 DEF TypeInv, TypeOK, ReaderInv
    <3>3. buf # <<Unit(Current, 1)>>
      BY <2>2
    <3> QED
      BY <1>1, <2>2, <3>2, <3>3 DEF FramingInv, SimpleInv
  <2> QED
    BY <1>1, <2>1, <2>2
<1>3. Ahead # <<>> /\ Ahead[1] = stream[1] /\ Head(stream) = stream[1]
  <2>1. stream \in Seq(UnitSet) /\ Len(stream) \in Nat /\ Len(stream) # 0
    BY DEF TypeInv, TypeOK
  <2>2. Len(Ahead) = Len(stream) + Len(pending) /\ Len(pending) \in Nat /\ 1 \in 1..Len(stream)
    BY <2>1, AheadIs
  <2>3. Len(Ahead) # 0
    BY <2>1, <2>2
  <2> QED
    BY <2>1, <2>2, <2>3, AheadIs
<1> QED
  BY <1>2, <1>3, UnitFields DEF BeginsHere, Begins

(* Between messages the socket stands at the start of one, for messages of  *)
(* any lengths and any places where their arrival pauses.                   *)
THEOREM BoundaryIsKept == Spec => []BoundaryKept
<1>1. Init => TypeInv /\ FramingInv
  BY TypeInit, FramingInit
<1>2. (TypeInv /\ FramingInv) /\ [Next]_vars => (TypeInv /\ FramingInv)'
  BY TypeStep, FramingStep
<1> QED
  BY <1>1, <1>2, BoundaryFollows, PTL DEF Spec

(* readMessage returns the peer's messages in order, each intact and once.  *)
THEOREM MessagesInOrder == Spec => []DeliveredInOrder
<1>1. Init => TypeInv /\ FramingInv
  BY TypeInit, FramingInit
<1>2. (TypeInv /\ FramingInv) /\ [Next]_vars => (TypeInv /\ FramingInv)'
  BY TypeStep, FramingStep
<1>3. TypeInv /\ FramingInv => DeliveredInOrder
  BY DEF FramingInv
<1> QED
  BY <1>1, <1>2, <1>3, PTL DEF Spec

-----------------------------------------------------------------------------
(* StandaloneDispatcher                                                    *)


Serving == {"check", "scan", "poll", "dispatch"}
Alive == Serving \cup {"begin"}
Pending == IF adder.pc = "push" THEN adder.conn ELSE {}

OwnerInv ==
    /\ owner = "started" => /\ thread = NoThread /\ loop.id = starts /\ loop.pc # "none"
                            /\ starts \in ThreadIds
    /\ thread # NoThread => thread = loop.id
    /\ (owner # "started" /\ thread = NoThread) => loop.pc \notin Alive
    /\ isRunning => (owner = "started" \/ (owner = "idle" /\ thread # NoThread))
    /\ (owner = "started" /\ ~isRunning) => selfStopped
    /\ (owner = "idle" /\ ~isRunning /\ thread # NoThread) => selfStopped
    /\ terminated => selfStopped
KnownInv ==
    /\ ThreadsAreKnown
    /\ loop.pc = "begin" =>
          \A k \in DOMAIN conns : k < loop.at => knows[conns[k]] = loop.id
    /\ loop.pc \in Alive => \A c \in Pending : knows[c] = loop.id
HandlerInv ==
    /\ \A c \in Conns : inbox[c] > 0 => c \in Exported
    /\ loop.pc \in Alive =>
          \A c \in ((Added \cup Pending) \cap Exported) \ outdated : handler[c] = loop.id
    /\ CallsAreRun
LoopInv == LoopTypeOK /\ (~raced => OwnerInv /\ KnownInv /\ HandlerInv)

-----------------------------------------------------------------------------
(* An element of m_connections is a connection. *)
LEMMA ConnType == LoopTypeOK /\ ~AtEnd => loop.at \in DOMAIN conns /\ Conn \in Conns
  BY DEF LoopTypeOK, AtEnd, Conn

LEMMA LoopFields ==
    LoopTypeOK => /\ loop.at \in Nat /\ loop.at + 1 \in Nat \ {0} /\ loop.watched \subseteq Conns
                  /\ loop.id \in {NoThread} \cup ThreadIds
  BY DEF LoopTypeOK

(* What a new place, a new position and new descriptors leave of the loop.  *)
Places == {"none", "begin", "check", "scan", "poll", "dispatch", "ended"}
Loops == [pc : Places, id : {NoThread} \cup ThreadIds, at : Nat \ {0}, watched : SUBSET Conns]
LEMMA LoopType == LoopTypeOK => loop \in Loops
  BY DEF LoopTypeOK, Loops, Places

(* How the steps of the loop move it.                                       *)
Moves(r, s, p) == r \in Loops /\ s \in Loops /\ s.id = r.id /\ s.pc = p

LEMMA MoveTo ==
    ASSUME NEW r \in Loops, NEW p \in Places PROVE Moves(r, [r EXCEPT !.pc = p, !.at = 1], p)
<1>1. ASSUME NEW n \in Nat \ {0} PROVE Moves(r, [r EXCEPT !.pc = p, !.at = n], p)
  BY DEF Loops, Places, Moves
<1>2. 1 \in Nat \ {0}
  OBVIOUS
<1> QED
  BY <1>1, <1>2
LEMMA MoveOn ==
    ASSUME NEW r \in Loops
    PROVE Moves(r, [r EXCEPT !.at = r.at + 1], r.pc) /\ [r EXCEPT !.at = r.at + 1].at = r.at + 1
<1>1. r.at + 1 \in Nat \ {0}
  BY DEF Loops
<1>2. ASSUME NEW n \in Nat \ {0}
      PROVE Moves(r, [r EXCEPT !.at = n], r.pc) /\ [r EXCEPT !.at = n].at = n
  BY DEF Loops, Places, Moves
<1> QED
  BY <1>1, <1>2
LEMMA WatchToo ==
    ASSUME NEW r \in Loops, NEW c \in Conns
    PROVE Moves(r, [r EXCEPT !.at = r.at + 1, !.watched = r.watched \cup {c}], r.pc)
<1>1. r.at + 1 \in Nat \ {0} /\ r.watched \cup {c} \in SUBSET Conns
  BY DEF Loops
<1>2. ASSUME NEW n \in Nat \ {0}, NEW w \in SUBSET Conns
      PROVE Moves(r, [r EXCEPT !.at = n, !.watched = w], r.pc)
  BY DEF Loops, Places, Moves
<1> QED
  BY <1>1, <1>2
LEMMA Forget ==
    ASSUME NEW r \in Loops, NEW p \in Places
    PROVE Moves(r, [r EXCEPT !.pc = p, !.watched = {}], p)
<1>1. ASSUME NEW w \in SUBSET Conns PROVE Moves(r, [r EXCEPT !.pc = p, !.watched = w], p)
  BY DEF Loops, Places, Moves
<1> QED
  BY <1>1

LEMMA TakeMoves ==
    ASSUME LoopTypeOK, TakeConnection
    PROVE /\ AtEnd => Moves(loop, loop', "check")
          /\ ~AtEnd => Moves(loop, loop', "begin") /\ loop'.at = loop.at + 1
<1>1. loop \in Loops /\ "check" \in Places
  BY LoopType DEF Places
<1>2. AtEnd => loop' = [loop EXCEPT !.pc = "check", !.at = 1]
  BY DEF TakeConnection
<1>3. ~AtEnd => loop' = [loop EXCEPT !.at = loop.at + 1]
  BY DEF TakeConnection
<1>4. loop.pc = "begin"
  BY DEF TakeConnection
<1> QED
  BY <1>1, <1>2, <1>3, <1>4, MoveTo, MoveOn
LEMMA WatchMoves ==
    ASSUME LoopTypeOK, Watch
    PROVE /\ AtEnd => Moves(loop, loop', "poll")
          /\ ~AtEnd => Moves(loop, loop', "scan")
<1>1. loop \in Loops /\ "poll" \in Places
  BY LoopType DEF Places
<1>2. AtEnd => loop' = [loop EXCEPT !.pc = "poll", !.at = 1]
  BY DEF Watch
<1>3. ~AtEnd => /\ loop' = [loop EXCEPT !.at = loop.at + 1, !.watched = loop.watched \cup {Conn}]
               /\ Conn \in Conns
  BY ConnType DEF Watch
<1>4. loop.pc = "scan"
  BY DEF Watch
<1> QED
  BY <1>1, <1>2, <1>3, <1>4, MoveTo, WatchToo
LEMMA PollMoves ==
    ASSUME LoopTypeOK, Poll PROVE Moves(loop, loop', "dispatch")
<1>1. loop \in Loops /\ "dispatch" \in Places
  BY LoopType DEF Places
<1>2. loop' = [loop EXCEPT !.pc = "dispatch", !.watched = {}]
  BY DEF Poll
<1> QED
  BY <1>1, <1>2, Forget
LEMMA NextMoves ==
    ASSUME LoopTypeOK, NextConnection
    PROVE /\ AtEnd => Moves(loop, loop', "check")
          /\ ~AtEnd => Moves(loop, loop', "dispatch")
<1>1. loop \in Loops /\ "check" \in Places
  BY LoopType DEF Places
<1>2. AtEnd => loop' = [loop EXCEPT !.pc = "check", !.at = 1]
  BY DEF NextConnection
<1>3. ~AtEnd => loop' = [loop EXCEPT !.at = loop.at + 1]
  BY DEF NextConnection
<1>4. loop.pc = "dispatch"
  BY DEF NextConnection
<1> QED
  BY <1>1, <1>2, <1>3, <1>4, MoveTo, MoveOn

LEMMA InitInv == LoopInit => LoopInv
<1> SUFFICES ASSUME LoopInit PROVE LoopInv
  OBVIOUS
<1>1. loop = NoLoop /\ loop \in Loops /\ loop.pc = "none"
  BY DEF LoopInit, Loops, Places, NoLoop, NoThread
<1>2. conns \in Seq(Conns) /\ adder \in [pc : {"idle", "push", "wake"}, conn : SUBSET Conns]
  BY DEF LoopInit
<1>3. /\ knows \in [Conns -> {Application, NoThread} \cup ThreadIds]
      /\ handler \in [Conns -> {Nowhere, Application, NoThread} \cup ThreadIds]
      /\ inbox \in [Conns -> Nat]
  BY DEF LoopInit
<1>4. starts \in 0 .. MaxStarts /\ calls \in 0 .. MaxCalls /\ registered \subseteq Conns
  BY LoopAssumption DEF LoopInit
<1>5. LoopTypeOK
  BY <1>1, <1>2, <1>3, <1>4 DEF LoopInit, LoopTypeOK, Loops, Places
<1>6. OwnerInv
  BY <1>1 DEF LoopInit, OwnerInv, Alive, Serving
<1>7. KnownInv
  BY <1>1 DEF LoopInit, KnownInv, ThreadsAreKnown, Alive, Serving
<1>8. HandlerInv
  BY <1>1 DEF LoopInit, HandlerInv, CallsAreRun, Alive, Serving
<1> QED
  BY <1>5, <1>6, <1>7, <1>8 DEF LoopInv

(* Every step keeps the types. *)
LEMMA LoopTypeStep ==
    ASSUME LoopTypeOK, [LoopNext]_loopVars PROVE LoopTypeOK'
<1>1. CASE Start
  <2>1. starts' \in 0 .. MaxStarts /\ starts' \in ThreadIds /\ outdated' \subseteq Conns
    BY <1>1, LoopAssumption DEF Start, LoopTypeOK, ThreadIds, Exported
  <2>2. loop' \in [pc : {"none", "begin", "check", "scan", "poll", "dispatch", "ended"},
                   id : {NoThread} \cup ThreadIds, at : Nat \ {0}, watched : SUBSET Conns]
    BY <1>1, <2>1 DEF Start, LoopTypeOK, NoLoop
  <2>3. owner' \in {"started", "idle"} /\ raced' \in BOOLEAN /\ terminated' \in BOOLEAN
    BY <1>1 DEF Start, LoopTypeOK
  <2> QED
    BY <1>1, <2>1, <2>2, <2>3 DEF Start, LoopTypeOK, ownerVars, connVars, socketVars
<1>2. CASE Started
  BY <1>2 DEF Started, LoopTypeOK, loopVars, ownerVars, connVars, exportVars, socketVars, ThreadIds, NoThread
<1>3. CASE Stop
  BY <1>3 DEF Stop, LoopTypeOK, loopVars, ownerVars, connVars, exportVars, socketVars, ThreadIds, NoThread
<1>4. CASE WakeToStop
  BY <1>4 DEF WakeToStop, LoopTypeOK, loopVars, ownerVars, connVars, exportVars, socketVars, ThreadIds, NoThread
<1>5. CASE Join
  BY <1>5 DEF Join, LoopTypeOK, loopVars, ownerVars, connVars, exportVars, socketVars, ThreadIds, NoThread
<1>6. CASE Destroy
  BY <1>6 DEF Destroy, LoopTypeOK, loopVars, ownerVars, connVars, exportVars, socketVars, ThreadIds, NoThread
<1>7. CASE Push
  <2>1. conns' \in Seq(Conns)
    BY <1>7 DEF Push, LoopTypeOK
  <2>2. (raced \/ Iterating) \in BOOLEAN /\ Iterating \in BOOLEAN
    BY DEF Iterating
  <2>3. terminated' \in BOOLEAN /\ raced' \in BOOLEAN
    BY <1>7, <2>2, Zenon DEF Push
  <2> QED
    BY <1>7, <2>1, <2>3 DEF Push, LoopTypeOK, ownerVars, exportVars, socketVars
<1>8. CASE WakeForConnection
  BY <1>8 DEF WakeForConnection, LoopTypeOK, loopVars, ownerVars, connVars, exportVars, socketVars, ThreadIds, NoThread
<1>9. ASSUME NEW c \in Conns, AddConnection(c) PROVE LoopTypeOK'
  BY <1>9 DEF AddConnection, LoopTypeOK, loopVars, ownerVars, connVars, exportVars, socketVars, ThreadIds, NoThread
<1>10. ASSUME NEW c \in Conns, Export(c) PROVE LoopTypeOK'
  BY <1>10 DEF Export, LoopTypeOK, loopVars, ownerVars, connVars, exportVars, socketVars, ThreadIds, NoThread, Nowhere, Application
<1>11. CASE TakeConnection
  <2>1. loop' \in Loops
    BY <1>11, TakeMoves DEF Moves
  <2>2. knows' \in [Conns -> {Application, NoThread} \cup ThreadIds]
    <3>1. knows' = knows \/ knows' = [knows EXCEPT ![Conn] = loop.id]
      BY <1>11 DEF TakeConnection
    <3> QED
      BY <3>1, LoopFields DEF LoopTypeOK
  <2> QED
    BY <1>11, <2>1, <2>2 DEF TakeConnection, LoopTypeOK, Loops, Places, ownerVars, connVars, exportVars, socketVars
<1>12. CASE CheckRunning
  BY <1>12 DEF CheckRunning, LoopTypeOK, loopVars, ownerVars, connVars, exportVars, socketVars, ThreadIds, NoThread
<1>13. CASE Watch
  <2>1. loop' \in Loops
    BY <1>13, WatchMoves DEF Moves
  <2>2. registered' \subseteq Conns
    BY <1>13, ConnType DEF Watch, LoopTypeOK
  <2>3. terminated' \in BOOLEAN
    <3>1. terminated' = terminated \/ terminated' = (Conn \notin registered /\ knows[Conn] # loop.id)
      BY <1>13, Zenon DEF Watch
    <3> QED
      BY <3>1, Zenon DEF LoopTypeOK
  <2> QED
    BY <1>13, <2>1, <2>2, <2>3 DEF Watch, LoopTypeOK, Loops, Places, ownerVars, connVars, exportVars, socketVars
<1>14. CASE Poll
  <2>1. wakes' \in Nat /\ loop' \in Loops
    BY <1>14, PollMoves DEF Poll, LoopTypeOK, Moves
  <2> QED
    BY <1>14, <2>1 DEF Poll, LoopTypeOK, Loops, Places, ownerVars, connVars, exportVars, socketVars
<1>15. CASE DispatchCall
  <2>1. Conn \in Conns /\ inbox[Conn] - 1 \in Nat
    BY <1>15, ConnType DEF DispatchCall, LoopTypeOK
  <2>2. inbox' \in [Conns -> Nat]
    BY <1>15, <2>1 DEF DispatchCall, LoopTypeOK
  <2>3. refused' \subseteq Conns
    BY <1>15, <2>1 DEF DispatchCall, LoopTypeOK
  <2> QED
    BY <1>15, <2>2, <2>3 DEF DispatchCall, LoopTypeOK, ownerVars, connVars
<1>16. CASE StopFromMethod
  <2>1. Conn \in Conns /\ inbox[Conn] - 1 \in Nat
    BY <1>16, ConnType DEF StopFromMethod, LoopTypeOK
  <2>2. inbox' \in [Conns -> Nat]
    BY <1>16, <2>1 DEF StopFromMethod, LoopTypeOK
  <2>3. wakes' \in Nat
    BY <1>16 DEF StopFromMethod, LoopTypeOK
  <2>4. isRunning' = FALSE /\ selfStopped' = TRUE
    BY <1>16 DEF StopFromMethod
  <2> QED
    BY <1>16, <2>2, <2>3, <2>4 DEF StopFromMethod, LoopTypeOK, connVars, exportVars
<1>17. CASE NextConnection
  <2>1. loop' \in Loops
    BY <1>17, NextMoves DEF Moves
  <2> QED
    BY <1>17, <2>1 DEF NextConnection, LoopTypeOK, Loops, Places, ownerVars, connVars, exportVars, socketVars
<1>18. ASSUME NEW c \in Conns, Arrive(c) PROVE LoopTypeOK'
  BY <1>18, LoopAssumption DEF Arrive, LoopTypeOK, loopVars, ownerVars, connVars, exportVars, socketVars, ThreadIds, NoThread
<1>19. CASE UNCHANGED loopVars
  BY <1>19 DEF LoopTypeOK, loopVars, ownerVars, connVars, exportVars, socketVars, ThreadIds, NoThread
<1> QED
  BY <1>1, <1>2, <1>3, <1>4, <1>5, <1>6, <1>7, <1>8, <1>9, <1>10, <1>11, <1>12, <1>13, <1>14, <1>15, <1>16, <1>17, <1>18, <1>19
     DEF LoopNext, OwnerStep, AdderStep, LoopStep

(* Where the owner is, and what m_dispatch_thread stands for. *)
LEMMA OwnerInvStep ==
    ASSUME LoopTypeOK, OwnerInv, KnownInv, [LoopNext]_loopVars, ~raced' PROVE OwnerInv'
<1>1. CASE Start
  <2>1. CASE thread # NoThread
    BY <1>1, <2>1 DEF Start, OwnerInv, Alive, Serving
  <2>2. CASE thread = NoThread
    <3>1. loop'.id = starts' /\ loop'.pc = "begin" /\ thread' = NoThread /\ owner' = "started"
      BY <1>1, <2>2 DEF Start
    <3>2. starts' \in ThreadIds
      BY <1>1, LoopAssumption DEF Start, LoopTypeOK, ThreadIds
    <3>3. isRunning' = TRUE /\ terminated' = terminated /\ selfStopped' = selfStopped
      BY <1>1, <2>2 DEF Start
    <3> QED
      BY <3>1, <3>2, <3>3 DEF OwnerInv
  <2> QED
    BY <2>1, <2>2
<1>2. CASE Started
  BY <1>2 DEF Started, OwnerInv, ThreadIds, LoopTypeOK, loopVars, ownerVars, connVars, exportVars, socketVars, Alive, Serving, NoThread
<1>3. CASE Stop
  BY <1>3 DEF Stop, OwnerInv, LoopTypeOK, loopVars, ownerVars, connVars, exportVars, socketVars, Alive, Serving, NoThread
<1>4. CASE WakeToStop
  BY <1>4 DEF WakeToStop, OwnerInv, LoopTypeOK, loopVars, ownerVars, connVars, exportVars, socketVars, Alive, Serving, NoThread
<1>5. CASE Join
  BY <1>5 DEF Join, OwnerInv, LoopTypeOK, loopVars, ownerVars, connVars, exportVars, socketVars, Alive, Serving, NoThread
<1>6. CASE Destroy
  BY <1>6 DEF Destroy, OwnerInv, LoopTypeOK, loopVars, ownerVars, connVars, exportVars, socketVars, Alive, Serving, NoThread
<1>7. CASE Push
  BY <1>7 DEF Push, OwnerInv, LoopTypeOK, loopVars, ownerVars, connVars, exportVars, socketVars, Alive, Serving, NoThread, Iterating
<1>8. CASE WakeForConnection
  BY <1>8 DEF WakeForConnection, OwnerInv, LoopTypeOK, loopVars, ownerVars, connVars, exportVars, socketVars, Alive, Serving, NoThread
<1>9. ASSUME NEW c \in Conns, AddConnection(c) PROVE OwnerInv'
  BY <1>9 DEF AddConnection, OwnerInv, LoopTypeOK, loopVars, ownerVars, connVars, exportVars, socketVars, Alive, Serving, NoThread
<1>10. ASSUME NEW c \in Conns, Export(c) PROVE OwnerInv'
  BY <1>10 DEF Export, OwnerInv, LoopTypeOK, loopVars, ownerVars, connVars, exportVars, socketVars, Alive, Serving, NoThread
<1>11. CASE TakeConnection
  BY <1>11 DEF TakeConnection, OwnerInv, LoopTypeOK, loopVars, ownerVars, connVars, exportVars, socketVars, Alive, Serving, NoThread
<1>12. CASE CheckRunning
  BY <1>12 DEF CheckRunning, OwnerInv, LoopTypeOK, loopVars, ownerVars, connVars, exportVars, socketVars, Alive, Serving, NoThread
<1>13. CASE Watch
  <2>1. loop'.id = loop.id /\ loop.pc \in Serving /\ loop'.pc \in Serving
    BY <1>13, WatchMoves DEF Moves, Watch, Serving
  <2>2. terminated' => selfStopped
    <3>1. CASE AtEnd
      BY <1>13, <3>1 DEF Watch, OwnerInv
    <3>2. CASE ~AtEnd
      <4>1. Conn \in Added
        BY <3>2, ConnType DEF Added, Conn
      <4>2. knows[Conn] = loop.id
        BY <1>13, <4>1 DEF Watch, KnownInv, ThreadsAreKnown
      <4>3. terminated' = (Conn \notin registered /\ knows[Conn] # loop.id)
        BY <1>13, <3>2 DEF Watch
      <4> QED
        BY <4>2, <4>3
    <3> QED
      BY <3>1, <3>2
  <2>3. /\ isRunning' = isRunning /\ thread' = thread /\ starts' = starts /\ owner' = owner
        /\ selfStopped' = selfStopped
    BY <1>13 DEF Watch, ownerVars
  <2> QED
    BY <2>1, <2>2, <2>3 DEF OwnerInv, Alive, Serving
<1>14. CASE Poll
  BY <1>14 DEF Poll, OwnerInv, LoopTypeOK, loopVars, ownerVars, connVars, exportVars, socketVars, Alive, Serving, NoThread
<1>15. CASE DispatchCall
  BY <1>15 DEF DispatchCall, OwnerInv, LoopTypeOK, loopVars, ownerVars, connVars, exportVars, socketVars, Alive, Serving, NoThread
<1>16. CASE StopFromMethod
  BY <1>16 DEF StopFromMethod, OwnerInv, LoopTypeOK, loopVars, ownerVars, connVars, exportVars, socketVars, Alive, Serving, NoThread
<1>17. CASE NextConnection
  BY <1>17 DEF NextConnection, OwnerInv, LoopTypeOK, loopVars, ownerVars, connVars, exportVars, socketVars, Alive, Serving, NoThread
<1>18. ASSUME NEW c \in Conns, Arrive(c) PROVE OwnerInv'
  BY <1>18 DEF Arrive, OwnerInv, LoopTypeOK, loopVars, ownerVars, connVars, exportVars, socketVars, Alive, Serving, NoThread
<1>19. CASE UNCHANGED loopVars
  BY <1>19 DEF OwnerInv, LoopTypeOK, loopVars, ownerVars, connVars, exportVars, socketVars, Alive, Serving, NoThread
<1> QED
  BY <1>1, <1>2, <1>3, <1>4, <1>5, <1>6, <1>7, <1>8, <1>9, <1>10, <1>11, <1>12, <1>13, <1>14, <1>15, <1>16, <1>17, <1>18, <1>19
     DEF LoopNext, OwnerStep, AdderStep, LoopStep

(* Who has the id of the thread. *)
LEMMA KnownInvStep ==
    ASSUME LoopTypeOK, OwnerInv, KnownInv, [LoopNext]_loopVars, ~raced' PROVE KnownInv'
<1>1. CASE Start
  <2>1. adder.pc # "push"
    BY <1>1 DEF Start
  <2>2. conns' = conns /\ adder' = adder /\ knows' = knows
    BY <1>1 DEF Start, connVars
  <2>3. CASE thread # NoThread
    <3>1. loop' = loop
      BY <1>1, <2>3 DEF Start
    <3> QED
      BY <2>2, <3>1 DEF KnownInv, ThreadsAreKnown, Added, Pending
  <2>4. CASE thread = NoThread
    <3>1. loop'.pc = "begin" /\ loop'.at = 1
      BY <1>1, <2>4 DEF Start
    <3>2. \A n \in DOMAIN conns : ~(n < 1)
      BY DEF LoopTypeOK
    <3> QED
      BY <2>1, <2>2, <3>1, <3>2 DEF KnownInv, ThreadsAreKnown, Pending
  <2> QED
    BY <2>3, <2>4
<1>2. CASE Started
  BY <1>2 DEF Started, KnownInv, ThreadsAreKnown, Added, Pending, LoopTypeOK, loopVars, ownerVars, connVars, exportVars, socketVars, Alive, Serving
<1>3. CASE Stop
  BY <1>3 DEF Stop, KnownInv, ThreadsAreKnown, Added, Pending, LoopTypeOK, loopVars, ownerVars, connVars, exportVars, socketVars, Alive, Serving
<1>4. CASE WakeToStop
  BY <1>4 DEF WakeToStop, KnownInv, ThreadsAreKnown, Added, Pending, LoopTypeOK, loopVars, ownerVars, connVars, exportVars, socketVars, Alive, Serving
<1>5. CASE Join
  BY <1>5 DEF Join, KnownInv, ThreadsAreKnown, Added, Pending, LoopTypeOK, loopVars, ownerVars, connVars, exportVars, socketVars, Alive, Serving
<1>6. CASE Destroy
  BY <1>6 DEF Destroy, KnownInv, ThreadsAreKnown, Added, Pending, LoopTypeOK, loopVars, ownerVars, connVars, exportVars, socketVars, Alive, Serving
<1>7. CASE Push
  BY <1>7 DEF Push, KnownInv, ThreadsAreKnown, Added, Pending, LoopTypeOK, loopVars, ownerVars, connVars, exportVars, socketVars, Alive, Serving, Iterating
<1>8. CASE WakeForConnection
  BY <1>8 DEF WakeForConnection, KnownInv, ThreadsAreKnown, Added, Pending, LoopTypeOK, loopVars, ownerVars, connVars, exportVars, socketVars, Alive, Serving
<1>9. ASSUME NEW c \in Conns, AddConnection(c) PROVE KnownInv'
  BY <1>9 DEF AddConnection, KnownInv, ThreadsAreKnown, Added, Pending, LoopTypeOK, loopVars, ownerVars, connVars, exportVars, socketVars, Alive, Serving, OwnerInv
<1>10. ASSUME NEW c \in Conns, Export(c) PROVE KnownInv'
  BY <1>10 DEF Export, KnownInv, ThreadsAreKnown, Added, Pending, LoopTypeOK, loopVars, ownerVars, connVars, exportVars, socketVars, Alive, Serving
<1>11. CASE TakeConnection
  <2>1. conns' = conns /\ adder' = adder /\ loop.pc = "begin"
    BY <1>11 DEF TakeConnection, connVars
  <2>2. Pending' = Pending
    BY <2>1 DEF Pending
  <2>3. CASE AtEnd
    <3>1. loop'.id = loop.id /\ loop'.pc = "check" /\ knows' = knows
      BY <1>11, <2>3, TakeMoves DEF TakeConnection, Moves
    <3>2. \A n \in DOMAIN conns : n < loop.at
      BY <2>3 DEF AtEnd, LoopTypeOK
    <3>3. \A c \in Added : knows[c] = loop.id
      BY <2>1, <3>2 DEF KnownInv, Added
    <3>4. Added' = Added
      BY <2>1 DEF Added
    <3> QED
      BY <2>1, <2>2, <3>1, <3>3, <3>4 DEF KnownInv, ThreadsAreKnown, Alive
  <2>4. CASE ~AtEnd
    <3>1. loop'.id = loop.id /\ loop'.pc = "begin" /\ loop'.at = loop.at + 1
      BY <1>11, <2>4, TakeMoves DEF Moves
    <3>2. knows' = [knows EXCEPT ![Conn] = loop.id]
      BY <1>11, <2>4 DEF TakeConnection
    <3>3. \A c \in Conns : knows[c] = loop.id => knows'[c] = loop.id
      BY <3>2 DEF LoopTypeOK
    <3>4. knows'[Conn] = loop.id
      BY <2>4, <3>2, ConnType DEF LoopTypeOK
    <3>5. ASSUME NEW n \in DOMAIN conns, n < loop.at + 1 PROVE knows'[conns[n]] = loop.id
      <4>1. n \in Nat /\ loop.at \in Nat /\ conns[n] \in Conns
        BY LoopFields DEF LoopTypeOK
      <4>2. CASE n = loop.at
        BY <3>4, <4>2 DEF Conn
      <4>3. CASE n < loop.at
        BY <2>1, <3>3, <4>1, <4>3 DEF KnownInv
      <4> QED
        BY <3>5, <4>1, <4>2, <4>3
    <3>6. \A c \in Pending : knows'[c] = loop.id
      <4>1. \A c \in Pending : c \in Conns /\ knows[c] = loop.id
        BY <2>1 DEF KnownInv, Alive, Pending, LoopTypeOK
      <4> QED
        BY <3>3, <4>1
    <3> QED
      BY <2>1, <2>2, <3>1, <3>5, <3>6 DEF KnownInv, ThreadsAreKnown
  <2> QED
    BY <2>3, <2>4
<1>12. CASE CheckRunning
  BY <1>12 DEF CheckRunning, KnownInv, ThreadsAreKnown, Added, Pending, LoopTypeOK, loopVars, ownerVars, connVars, exportVars, socketVars, Alive, Serving
<1>13. CASE Watch
  <2>1. loop'.id = loop.id /\ loop.pc \in Serving /\ loop'.pc \in Serving
    BY <1>13, WatchMoves DEF Moves, Watch, Serving
  <2>2. conns' = conns /\ adder' = adder /\ knows' = knows
    BY <1>13 DEF Watch, connVars
  <2> QED
    BY <2>1, <2>2 DEF KnownInv, ThreadsAreKnown, Added, Pending, Alive, Serving
<1>14. CASE Poll
  BY <1>14 DEF Poll, KnownInv, ThreadsAreKnown, Added, Pending, LoopTypeOK, loopVars, ownerVars, connVars, exportVars, socketVars, Alive, Serving
<1>15. CASE DispatchCall
  BY <1>15 DEF DispatchCall, KnownInv, ThreadsAreKnown, Added, Pending, LoopTypeOK, loopVars, ownerVars, connVars, exportVars, socketVars, Alive, Serving
<1>16. CASE StopFromMethod
  BY <1>16 DEF StopFromMethod, KnownInv, ThreadsAreKnown, Added, Pending, LoopTypeOK, loopVars, ownerVars, connVars, exportVars, socketVars, Alive, Serving
<1>17. CASE NextConnection
  <2>1. loop'.id = loop.id /\ loop.pc \in Serving /\ loop'.pc \in Serving
    BY <1>17, NextMoves DEF Moves, NextConnection, Serving
  <2>2. conns' = conns /\ adder' = adder /\ knows' = knows
    BY <1>17 DEF NextConnection, connVars
  <2> QED
    BY <2>1, <2>2 DEF KnownInv, ThreadsAreKnown, Added, Pending, Alive, Serving
<1>18. ASSUME NEW c \in Conns, Arrive(c) PROVE KnownInv'
  BY <1>18 DEF Arrive, KnownInv, ThreadsAreKnown, Added, Pending, LoopTypeOK, loopVars, ownerVars, connVars, exportVars, socketVars, Alive, Serving
<1>19. CASE UNCHANGED loopVars
  BY <1>19 DEF KnownInv, ThreadsAreKnown, Added, Pending, LoopTypeOK, loopVars, ownerVars, connVars, exportVars, socketVars, Alive, Serving
<1> QED
  BY <1>1, <1>2, <1>3, <1>4, <1>5, <1>6, <1>7, <1>8, <1>9, <1>10, <1>11, <1>12, <1>13, <1>14, <1>15, <1>16, <1>17, <1>18, <1>19
     DEF LoopNext, OwnerStep, AdderStep, LoopStep

(* Whose objects the thread runs. *)
LEMMA HandlerInvStep ==
    ASSUME LoopTypeOK, OwnerInv, KnownInv, HandlerInv, [LoopNext]_loopVars, ~raced' PROVE HandlerInv'
<1>1. CASE Start
  BY <1>1 DEF Start, HandlerInv, CallsAreRun, Exported, Added, Pending, LoopTypeOK, loopVars, ownerVars, connVars, exportVars, socketVars, Alive, Serving, NoLoop
<1>2. CASE Started
  BY <1>2 DEF Started, HandlerInv, CallsAreRun, Exported, Added, Pending, LoopTypeOK, loopVars, ownerVars, connVars, exportVars, socketVars, Alive, Serving
<1>3. CASE Stop
  BY <1>3 DEF Stop, HandlerInv, CallsAreRun, Exported, Added, Pending, LoopTypeOK, loopVars, ownerVars, connVars, exportVars, socketVars, Alive, Serving
<1>4. CASE WakeToStop
  BY <1>4 DEF WakeToStop, HandlerInv, CallsAreRun, Exported, Added, Pending, LoopTypeOK, loopVars, ownerVars, connVars, exportVars, socketVars, Alive, Serving
<1>5. CASE Join
  BY <1>5 DEF Join, HandlerInv, CallsAreRun, Exported, Added, Pending, LoopTypeOK, loopVars, ownerVars, connVars, exportVars, socketVars, Alive, Serving
<1>6. CASE Destroy
  BY <1>6 DEF Destroy, HandlerInv, CallsAreRun, Exported, Added, Pending, LoopTypeOK, loopVars, ownerVars, connVars, exportVars, socketVars, Alive, Serving
<1>7. CASE Push
  BY <1>7 DEF Push, HandlerInv, CallsAreRun, Exported, Added, Pending, LoopTypeOK, loopVars, ownerVars, connVars, exportVars, socketVars, Alive, Serving, Iterating
<1>8. CASE WakeForConnection
  BY <1>8 DEF WakeForConnection, HandlerInv, CallsAreRun, Exported, Added, Pending, LoopTypeOK, loopVars, ownerVars, connVars, exportVars, socketVars, Alive, Serving
<1>9. ASSUME NEW c \in Conns, AddConnection(c) PROVE HandlerInv'
  BY <1>9 DEF AddConnection, HandlerInv, CallsAreRun, Exported, Added, Pending, LoopTypeOK, loopVars, ownerVars, connVars, exportVars, socketVars, Alive, Serving, OwnerInv
<1>10. ASSUME NEW c \in Conns, Export(c) PROVE HandlerInv'
  BY <1>10 DEF Export, HandlerInv, CallsAreRun, Exported, Added, Pending, LoopTypeOK, loopVars, ownerVars, connVars, exportVars, socketVars, Alive, Serving, OwnerInv, KnownInv, ThreadsAreKnown, Starting, NoThread
<1>11. CASE TakeConnection
  <2>1. loop'.id = loop.id /\ loop.pc \in Alive /\ loop'.pc \in Alive
    BY <1>11, TakeMoves DEF Moves, TakeConnection, Alive, Serving
  <2>2. /\ conns' = conns /\ adder' = adder /\ handler' = handler /\ inbox' = inbox
        /\ outdated' = outdated /\ refused' = refused
    BY <1>11 DEF TakeConnection, connVars, exportVars, socketVars
  <2> QED
    BY <2>1, <2>2 DEF HandlerInv, CallsAreRun, Exported, Added, Pending
<1>12. CASE CheckRunning
  BY <1>12 DEF CheckRunning, HandlerInv, CallsAreRun, Exported, Added, Pending, LoopTypeOK, loopVars, ownerVars, connVars, exportVars, socketVars, Alive, Serving
<1>13. CASE Watch
  <2>1. loop'.id = loop.id /\ loop.pc \in Alive /\ loop'.pc \in Alive
    BY <1>13, WatchMoves DEF Moves, Watch, Alive, Serving
  <2>2. /\ conns' = conns /\ adder' = adder /\ handler' = handler /\ inbox' = inbox
        /\ outdated' = outdated /\ refused' = refused
    BY <1>13 DEF Watch, connVars, exportVars, socketVars
  <2> QED
    BY <2>1, <2>2 DEF HandlerInv, CallsAreRun, Exported, Added, Pending
<1>14. CASE Poll
  BY <1>14 DEF Poll, HandlerInv, CallsAreRun, Exported, Added, Pending, LoopTypeOK, loopVars, ownerVars, connVars, exportVars, socketVars, Alive, Serving
<1>15. CASE DispatchCall
  <2>1. Conn \in Conns /\ Conn \in Added /\ loop.pc = "dispatch"
    BY <1>15, ConnType DEF DispatchCall, Added, Conn
  <2>2. /\ loop' = loop /\ conns' = conns /\ adder' = adder /\ handler' = handler
        /\ outdated' = outdated
    BY <1>15 DEF DispatchCall, connVars
  <2>3. \A c \in Conns : inbox'[c] > 0 => inbox[c] > 0
    BY <1>15, <2>1 DEF DispatchCall, LoopTypeOK
  <2>4. refused' \subseteq outdated
    <3>1. knows[Conn] = loop.id
      BY <2>1 DEF KnownInv, ThreadsAreKnown
    <3>2. Conn \in Exported
      BY <1>15, <2>1 DEF DispatchCall, HandlerInv
    <3>3. Conn \notin outdated => handler[Conn] = loop.id
      BY <2>1, <3>2 DEF HandlerInv, Alive, Serving
    <3>4. refused' = refused \/ (handler[Conn] # knows[Conn] /\ refused' = refused \cup {Conn})
      BY <1>15 DEF DispatchCall
    <3> QED
      BY <3>1, <3>3, <3>4 DEF HandlerInv, CallsAreRun
  <2> QED
    BY <2>2, <2>3, <2>4 DEF HandlerInv, CallsAreRun, Exported, Added, Pending
<1>16. CASE StopFromMethod
  BY <1>16, ConnType DEF StopFromMethod, HandlerInv, CallsAreRun, Exported, Added, Pending, LoopTypeOK, loopVars, ownerVars, connVars, exportVars, socketVars, Alive, Serving
<1>17. CASE NextConnection
  <2>1. loop'.id = loop.id /\ loop.pc \in Alive /\ loop'.pc \in Alive
    BY <1>17, NextMoves DEF Moves, NextConnection, Alive, Serving
  <2>2. /\ conns' = conns /\ adder' = adder /\ handler' = handler /\ inbox' = inbox
        /\ outdated' = outdated /\ refused' = refused
    BY <1>17 DEF NextConnection, connVars, exportVars, socketVars
  <2> QED
    BY <2>1, <2>2 DEF HandlerInv, CallsAreRun, Exported, Added, Pending
<1>18. ASSUME NEW c \in Conns, Arrive(c) PROVE HandlerInv'
  BY <1>18 DEF Arrive, HandlerInv, CallsAreRun, Exported, Added, Pending, LoopTypeOK, loopVars, ownerVars, connVars, exportVars, socketVars, Alive, Serving
<1>19. CASE UNCHANGED loopVars
  BY <1>19 DEF HandlerInv, CallsAreRun, Exported, Added, Pending, LoopTypeOK, loopVars, ownerVars, connVars, exportVars, socketVars, Alive, Serving
<1> QED
  BY <1>1, <1>2, <1>3, <1>4, <1>5, <1>6, <1>7, <1>8, <1>9, <1>10, <1>11, <1>12, <1>13, <1>14, <1>15, <1>16, <1>17, <1>18, <1>19
     DEF LoopNext, OwnerStep, AdderStep, LoopStep

LEMMA LoopInvariance == LoopSpec => []LoopInv
<1>1. LoopInv /\ [LoopNext]_loopVars => LoopInv'
  <2> SUFFICES ASSUME LoopInv, [LoopNext]_loopVars PROVE LoopInv'
    OBVIOUS
  <2>1. LoopTypeOK'
    BY LoopTypeStep DEF LoopInv
  <2>2. ~raced' => ~raced
    BY DEF LoopNext, loopVars
  <2>3. ~raced' => OwnerInv' /\ KnownInv' /\ HandlerInv'
    BY <2>2, OwnerInvStep, KnownInvStep, HandlerInvStep DEF LoopInv
  <2> QED
    BY <2>1, <2>3 DEF LoopInv
<1> QED
  BY <1>1, InitInv, PTL DEF LoopSpec

(* The state of the dispatcher, of its thread and of the thread that adds   *)
(* connections keeps its types (LoopTypeOK).                                *)
THEOREM LoopTypeCorrect == LoopSpec => []LoopTypeOK
<1>1. LoopInv => LoopTypeOK
  BY DEF LoopInv
<1> QED
  BY <1>1, LoopInvariance, PTL

(* Until add_connection and start() race, the loop dispatches connections   *)
(* that know its thread, nothing is dispatched after stop(), nothing ends   *)
(* the program but a method that stops its dispatcher, and calls are        *)
(* refused for objects that were exported too early only.                   *)
THEOREM LoopFollows == LoopSpec => []LoopFollowsItsOwner
<1>1. LoopInv => LoopFollowsItsOwner
  BY DEF LoopInv, LoopTypeOK, OwnerInv, KnownInv, HandlerInv, LoopFollowsItsOwner, StoppedIsQuiet,
     NotTerminated, Alive, Serving
<1> QED
  BY <1>1, LoopInvariance, PTL
=============================================================================
