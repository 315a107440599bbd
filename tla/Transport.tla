----------------------------- MODULE Transport -----------------------------
(***************************************************************************)
(* Reading messages off the socket: SendmsgTransport::readMessage, which   *)
(* peeks at the fixed part of the header and then receives the message in  *)
(* one recvmsg(), and SimpleTransport::readMessage, which keeps what it    *)
(* has read between calls.  The socket is a non-blocking stream: a read    *)
(* returns what has arrived, up to what was asked for.                     *)
(*                                                                         *)
(* Bytes are grouped into units.  The first unit of a message holds bytes  *)
(* 0 to 11 (the byte order mark and the length of the body), the second    *)
(* one bytes 12 to 15 (the length of the header array); then come the      *)
(* padded array and the body.  Every read() or recvmsg() is a step.  The   *)
(* receive buffers grow as needed; their sizes are left out.               *)
(***************************************************************************)
EXTENDS Integers, Sequences, SequencesExt

CONSTANTS
    Kinds,      \* the transports considered: "sendmsg", "simple"
    Shapes,     \* [array, body] lengths, in units, of the peer's messages
    Word,       \* 2^32, the range of uint32_t: lengths are below it
    MaxLength,  \* Validator::maximum_message_size, in units after the first two
    Cuts,       \* after how many units the arrival of a message may pause
    MaxMessages \* bound: messages sent by the peer

Fixed == 2                     \* units in the fixed part of the header

ASSUME TransportAssumption ==
    /\ Kinds \subseteq {"sendmsg", "simple"}
    /\ Word \in Nat /\ MaxLength \in Nat /\ 2 * MaxLength < Word
    /\ Shapes \subseteq [array : 0..(Word - 1), body : 0..(Word - 1)]
    /\ Cuts \subseteq Nat /\ MaxMessages \in Nat

VARIABLES
    kind,       \* which transport this is
    sent,       \* the shapes of the messages the peer has sent
    pending,    \* units sent that have not arrived
    stream,     \* units on the socket
    closed,     \* the peer has closed it
    ok,         \* m_ok
    pc,         \* where readMessage is, "idle" outside it
    buf,        \* the receive buffer: what is valid of it (simple), the
                \* last two header units peeked at (sendmsg)
    rstate,     \* m_readingState (simple)
    headerLeft, \* m_headerLeftToRead (simple)
    bodyLeft,   \* m_bodyLeftToRead (simple)
    delivered,  \* messages returned: the message, or 0 for one not intact
    damage      \* history: what the peer did that readMessage cannot cope with

vars == <<kind, sent, pending, stream, closed, ok, pc, buf, rstate, headerLeft, bodyLeft,
          delivered, damage>>
peerVars   == <<sent, pending, closed, damage>>
simpleVars == <<rstate, headerLeft, bodyLeft>>

Length(s) == Fixed + s.array + s.body

Unit(m, i) == [msg |-> m, pos |-> i]
Units(m) == [i \in 1..Length(sent[m]) |-> Unit(m, i)]
Stale == Unit(0, 0)            \* memory no message was read into

UnitSet == [msg : 0..MaxMessages, pos : Nat]
Take(n) == SubSeq(stream, 1, n)
Drop(n) == SubSeq(stream, n + 1, Len(stream))
Arrived(n) == IF n < Len(stream) THEN n ELSE Len(stream)

TypeOK ==
    /\ kind \in Kinds
    /\ sent \in Seq(Shapes) /\ Len(sent) <= MaxMessages
    /\ pending \in Seq(UnitSet) /\ stream \in Seq(UnitSet) /\ buf \in Seq(UnitSet)
    /\ closed \in BOOLEAN /\ ok \in BOOLEAN
    /\ pc \in {"idle", "peek", "receive", "first", "second", "body"}
    /\ rstate \in {"FirstHeaderPart", "SecondHeaderPart", "Body"}
    /\ headerLeft \in 0..(Word - 1) /\ bodyLeft \in 0..(Word - 1)
    /\ delivered \in Seq(0..MaxMessages)
    /\ damage \subseteq {"split", "long", "wrap"}

Init ==
    /\ kind \in Kinds
    /\ sent = <<>> /\ pending = <<>> /\ stream = <<>> /\ closed = FALSE
    /\ ok = TRUE /\ pc = "idle"
    /\ buf = IF kind = "sendmsg" THEN <<Stale, Stale>> ELSE <<>>
    /\ rstate = "FirstHeaderPart" /\ headerLeft = 0 /\ bodyLeft = 0
    /\ delivered = <<>> /\ damage = {}

-----------------------------------------------------------------------------
(* What the first two units of a buffer say.  Units that are not where they *)
(* belong are bytes of something else, and may say anything.                *)

BodyLength(b)  == IF b[1].pos = 1 THEN {sent[b[1].msg].body} ELSE 0..(Word - 1)
ArrayLength(b) == IF b[2].pos = 2 THEN {sent[b[2].msg].array} ELSE 0..(Word - 1)
MayBeBadOrder(b) == b[1].pos # 1

(* Message::create_from_data, as far as framing goes. *)
Made(units) ==
    IF \E m \in 1..Len(sent) : units = Units(m)
    THEN CHOOSE m \in 1..Len(sent) : units = Units(m)
    ELSE 0

ReadMessage ==
    /\ ok /\ pc = "idle"
    /\ pc' = IF kind = "sendmsg" THEN "peek"
             ELSE CASE rstate = "FirstHeaderPart"  -> "first"
                    [] rstate = "SecondHeaderPart" -> "second"
                    [] rstate = "Body"             -> "body"
    /\ UNCHANGED <<kind, peerVars, stream, ok, buf, simpleVars, delivered>>

WouldBlock == stream = <<>> /\ ~closed

-----------------------------------------------------------------------------
(* SendmsgTransport *)

(* peek(16): whatever has arrived replaces the front of the buffer. *)
Peek ==
    /\ pc = "peek"
    /\ \/ /\ WouldBlock
          /\ pc' = "idle"
          /\ UNCHANGED buf
       \/ /\ ~WouldBlock
          /\ buf' = LET n == Arrived(Fixed) IN Take(n) \o SubSeq(buf, n + 1, Fixed)
          /\ pc' = "receive"
    /\ UNCHANGED <<kind, peerVars, stream, ok, simpleVars, delivered>>

BadOrder ==
    /\ pc = "receive" /\ MayBeBadOrder(buf)
    /\ ok' = FALSE /\ pc' = "idle"
    /\ UNCHANGED <<kind, peerVars, stream, buf, simpleVars, delivered>>

(* The body's length is put together as an int and kept as a ssize_t: from  *)
(* 2^31 on it is negative.                                                  *)
Signed(b) == IF 2 * b >= Word THEN b - Word ELSE b

TooLong(a, b) == a + Signed(b) > MaxLength

(* The message is too long: purgeData() receives into an empty buffer,      *)
(* which on a stream takes nothing.                                         *)
PurgeData ==
    /\ pc = "receive"
    /\ \E b \in BodyLength(buf), a \in ArrayLength(buf) : TooLong(a, b)
    /\ pc' = "idle"
    /\ UNCHANGED <<kind, peerVars, stream, ok, buf, simpleVars, delivered>>

(* Mutant: the padding of the header array is not counted. *)
TotalUnpadded(a, b) == Fixed + (IF a > 0 THEN a - 1 ELSE a) + Signed(b)

(* The length of the message that the header announces. *)
Total(a, b) == Fixed + a + Signed(b)

(* What recvmsg() takes: nothing when it is asked for no byte, or for a     *)
(* negative number of them.                                                 *)
Received(total) == IF total > 0 THEN Arrived(total) ELSE 0

(* Zero bytes are taken for the end of the stream. *)
ReceivedAny(n) == n > 0

(* The real reading: the length asked for is taken for the length received. *)
Receive ==
    /\ pc = "receive"
    /\ \E b \in BodyLength(buf), a \in ArrayLength(buf) :
         LET total == Total(a, b)
             n == Received(total)
         IN /\ ~TooLong(a, b)
            /\ ok' = ReceivedAny(n)
            /\ delivered' = IF n = 0 THEN delivered
                            ELSE Append(delivered, IF n = total THEN Made(Take(n)) ELSE 0)
            /\ buf' = Take(IF n < Fixed THEN n ELSE Fixed) \o SubSeq(buf, n + 1, Fixed)
            /\ stream' = Drop(n)
    /\ pc' = "idle"
    /\ UNCHANGED <<kind, peerVars, simpleVars>>

-----------------------------------------------------------------------------
(* SimpleTransport *)

(* read() had nothing to return: readMessage returns and keeps its state. *)
ReadBlocks ==
    /\ pc \in {"first", "body"} /\ WouldBlock
    /\ pc = "body" => bodyLeft # 0
    /\ pc' = "idle"
    /\ UNCHANGED <<kind, peerVars, stream, ok, buf, simpleVars, delivered>>

(* FirstHeaderPart: what is missing of the first 16 bytes.  Zero bytes are  *)
(* the end of the stream.                                                   *)
First ==
    /\ pc = "first" /\ ~WouldBlock
    /\ LET n == Arrived(Fixed - Len(buf)) IN
         /\ ok' = (n > 0)
         /\ buf' = buf \o Take(n)
         /\ stream' = Drop(n)
         /\ rstate' = IF Len(buf) + n = Fixed THEN "SecondHeaderPart" ELSE rstate
         /\ pc' = IF Len(buf) + n = Fixed THEN "second" ELSE "idle"
    /\ UNCHANGED <<kind, peerVars, headerLeft, bodyLeft, delivered>>

(* The sum of two uint32_t, which wraps. *)
SumTooLong(a, b) == (a + b) % Word > MaxLength

(* Bad byte order or length: purgeData() forgets the buffer and everything  *)
(* that has arrived.                                                        *)
Purge ==
    /\ pc = "second" /\ headerLeft = 0
    /\ \/ MayBeBadOrder(buf)
       \/ \E b \in BodyLength(buf), a \in ArrayLength(buf) : SumTooLong(a, b)
    /\ buf' = <<>> /\ stream' = <<>>
    /\ rstate' = "FirstHeaderPart" /\ headerLeft' = 0
    /\ pc' = "idle"
    /\ UNCHANGED <<kind, peerVars, ok, bodyLeft, delivered>>

(* Mutant: an array read to its last byte is not yet complete. *)
ArrayDoneLate(n, h) == n > h

ArrayDone(n, h) == n >= h

(* Mutant: a counter that is not updated. *)
MinusForgotten(b, n) == b

(* m_bodyLeftToRead -= bytesRead, on a uint32_t. *)
Minus(b, n) == (b - n) % Word

(* SecondHeaderPart.  The lengths are computed unless a header is under     *)
(* way; then one read asks for the array and the body, and what it returns  *)
(* is counted against the array only when it completes the array.           *)
Second ==
    /\ pc = "second"
    /\ \E lens \in IF headerLeft = 0
                   THEN {<<a, b>> : a \in ArrayLength(buf), b \in BodyLength(buf)}
                   ELSE {<<headerLeft, bodyLeft>>} :
         LET h == lens[1]
             b == lens[2]
             want == (h + b) % Word
             n == Arrived(want)
             whole == ArrayDone(n, h)
         IN /\ headerLeft = 0 => ~SumTooLong(h, b)
            /\ IF want > 0 /\ WouldBlock
               THEN /\ headerLeft' = h /\ bodyLeft' = b
                    /\ pc' = "idle"
                    /\ UNCHANGED <<buf, stream, rstate>>
               ELSE /\ buf' = buf \o Take(n)
                    /\ stream' = Drop(n)
                    /\ headerLeft' = IF whole THEN 0 ELSE h
                    /\ bodyLeft' = Minus(b, IF whole THEN n - h ELSE n)
                    /\ rstate' = IF whole THEN "Body" ELSE rstate
                    /\ pc' = IF whole THEN "body" ELSE "idle"
    /\ UNCHANGED <<kind, peerVars, ok, delivered>>

(* Body: the rest is read to where the last read went. *)
BodyRead ==
    /\ pc = "body" /\ bodyLeft # 0 /\ ~WouldBlock
    /\ LET n == Arrived(bodyLeft) IN
         /\ stream' = Drop(n)
         /\ bodyLeft' = Minus(bodyLeft, n)
         /\ pc' = IF bodyLeft' = 0 THEN "body" ELSE "idle"
    /\ UNCHANGED <<kind, peerVars, ok, buf, rstate, headerLeft, delivered>>

(* A full message: it is made from the buffer, and the state is reset. *)
BodyDone ==
    /\ pc = "body" /\ bodyLeft = 0
    /\ delivered' = Append(delivered, Made(buf))
    /\ buf' = <<>>
    /\ rstate' = "FirstHeaderPart" /\ headerLeft' = 0
    /\ pc' = "idle"
    /\ UNCHANGED <<kind, peerVars, stream, ok, bodyLeft>>

-----------------------------------------------------------------------------
(* The peer (external) *)

(* A message that is too long, with a body so long that its length turns    *)
(* negative and the total does not show it.                                 *)
SeemsShort(s) == s.array + s.body > MaxLength /\ ~TooLong(s.array, s.body)

PeerSend(s) ==
    /\ pending = <<>> /\ ~closed /\ Len(sent) < MaxMessages
    /\ sent' = Append(sent, s)
    /\ pending' = [i \in 1..Length(s) |-> Unit(Len(sent) + 1, i)]
    /\ damage' = damage \cup (IF s.array + s.body > MaxLength THEN {"long"} ELSE {})
                         \cup (IF SeemsShort(s) THEN {"wrap"} ELSE {})
    /\ UNCHANGED <<kind, stream, closed, ok, pc, buf, simpleVars, delivered>>

(* Units arrive, up to the end of the message or to a cut.  Only            *)
(* SimpleTransport is made for a pause, inside the fixed part.              *)
PeerDeliver(n) ==
    /\ ~closed /\ n \in 1..Len(pending)
    /\ n = Len(pending) \/ pending[n].pos \in Cuts
    /\ stream' = stream \o SubSeq(pending, 1, n)
    /\ pending' = SubSeq(pending, n + 1, Len(pending))
    /\ damage' = damage \cup
         (IF n = Len(pending) \/ (kind = "simple" /\ pending[n].pos < Fixed)
          THEN {} ELSE {"split"})
    /\ UNCHANGED <<kind, sent, closed, ok, pc, buf, simpleVars, delivered>>

PeerClose ==
    /\ ~closed
    /\ closed' = TRUE
    /\ UNCHANGED <<kind, sent, pending, stream, ok, pc, buf, simpleVars, delivered,
                   damage>>

-----------------------------------------------------------------------------
SendmsgStep == Peek \/ BadOrder \/ PurgeData \/ Receive
SimpleStep == ReadBlocks \/ First \/ Purge \/ Second \/ BodyRead \/ BodyDone
ReaderStep == ReadMessage \/ SendmsgStep \/ SimpleStep
PeerStep ==
    \/ \E s \in Shapes : PeerSend(s)
    \/ \E n \in 1..Len(pending) : PeerDeliver(n)
    \/ PeerClose

Next == ReaderStep \/ PeerStep

Spec == Init /\ [][Next]_vars

(* The dispatcher polls the socket and reads while the transport is valid;  *)
(* what was sent arrives.                                                   *)
FairSpec ==
    /\ Spec
    /\ WF_vars(ReaderStep)
    /\ WF_vars(\E n \in 1..Len(pending) : PeerDeliver(n))

-----------------------------------------------------------------------------
(* Properties *)

(* readMessage returns the peer's messages in order, each intact and once:  *)
(* the header lengths, the padding and the state kept between calls never   *)
(* lose the boundary, although SimpleTransport may find the first 16 bytes  *)
(* spread over several calls.  Messages that arrive in other pieces, or are *)
(* too long, are excepted.                                                  *)
DeliveredInOrder == damage = {} => \A i \in DOMAIN delivered : delivered[i] = i

(* Between messages the socket stands at the start of one.  For             *)
(* SimpleTransport this holds however arrival is split: a split message may *)
(* be cut short or hold up the stream, but the next is not misread.  For    *)
(* SendmsgTransport it holds although too long messages are sent, unless    *)
(* the length of a body is 2^31 or more and makes the sum short: then the   *)
(* socket is left inside the message while the transport stays valid.       *)
BoundaryKept ==
    (/\ pc = "idle" /\ stream # <<>>
     /\ \/ kind = "simple" /\ buf = <<>> /\ damage \subseteq {"split"}
        \/ kind = "sendmsg" /\ damage \subseteq {"long"})
      => Head(stream).pos = 1

(* Every message is returned, unless the peer closes the socket; and once a *)
(* message was read, the transport notices that the peer closed the socket  *)
(* (before that, SendmsgTransport looks at memory never written).           *)
EveryMessageRead ==
    /\ \A m \in 1..MaxMessages :
          (Len(sent) >= m) ~> (Len(delivered) >= m \/ closed \/ damage # {})
    /\ (closed /\ delivered # <<>>) ~> (~ok \/ damage # {})

(* "Invalid message: it can't be that big! purge our reading buffer and     *)
(* reset to a known state" (sendmsgtransport.cpp:403-404): a message that   *)
(* is too long does not stay at the front of the socket.                    *)
OversizedPurged ==
    \A m \in 1..MaxMessages :
        (stream # <<>> /\ Head(stream) = Unit(m, 1))
            ~> (stream = <<>> \/ Head(stream) # Unit(m, 1) \/ ~ok)
=============================================================================
