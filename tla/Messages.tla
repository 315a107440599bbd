------------------------------ MODULE Messages ------------------------------
(***************************************************************************)
(* The life of a message: an application builds it (Message and its four   *)
(* subclasses, the append iterator), the connection serializes it, the     *)
(* other side creates a message from the bytes and reads its arguments one *)
(* by one, and answers a call.  The other side may also be a program that  *)
(* does not use this library and marshals, in either byte order, what the  *)
(* D-Bus specification prescribes.                                         *)
(***************************************************************************)
EXTENDS Wire

CONSTANTS Samples,      \* arguments: [T |-> type, val |-> value]
          MaxArgs,      \* arguments of one message
          MaxMessage,   \* Validator::maximum_message_size(), 2^27 in the library
          Serials,      \* serials the connection may give a message
          Tests         \* the arguments of the messages the unit tests build

VARIABLES stage,    \* "new", "write", "sent", "read", "threw" or "crashed"
          from,     \* who marshals the message: "library", "peer" or "test"
          call,     \* of the call msg answers, the serial and the sender
          msg,      \* the message being built, or that was sent
          args,     \* the arguments appended to it
          wire,     \* its bytes
          rcvd,     \* the message made of them
          it, p,    \* the receiver's iterator
          got       \* what the receiver has read: [ask |-> type, val |-> value]
vars == <<stage, from, call, msg, args, wire, rcvd, it, p, got>>
readVars == <<rcvd, it, p, got>>

-----------------------------------------------------------------------------
(* The value of an argument that holds a variant is given by the type and   *)
(* value inside; Cpp makes Variants of them.                                *)
RECURSIVE Cpp(_, _)
Cpp(T, val) ==
    CASE T.type = "v" -> MakeVariant(val.T, Cpp(val.T, val.val))
      [] T.type = "a" -> [k \in DOMAIN val |-> Cpp(T.sub[1], val[k])]
      [] T.type \in {"(", "{"} -> [k \in DOMAIN val |-> Cpp(T.sub[k], val[k])]
      [] OTHER -> val

(* The bytes the D-Bus specification prescribes for a value after buf: the  *)
(* reference for the append iterators, and what a foreign program sends.    *)
RECURSIVE Lay(_, _, _, _), LayAll(_, _, _, _)
LayAll(buf, types, vals, endian) ==
    IF vals = <<>> THEN buf
    ELSE LayAll(Lay(buf, Head(types), Head(vals), endian), Tail(types), Tail(vals), endian)
Lay(buf, T, val, endian) ==
    LET a == Alignment(T.sub[1].type)
        start == Align(PutNumber(buf, 0, 4, endian), a)
        whole == LayAll(start, [k \in DOMAIN val |-> T.sub[1]], val, endian)
        size == PutNumber(buf, Len(whole) - Len(start), 4, endian)
    IN
    CASE T.type = "a" -> size \o SubSeq(whole, Len(size) + 1, Len(whole))
      [] T.type \in {"(", "{"} -> LayAll(Align(buf, 8), T.sub, val, endian)
      [] T.type = "v" ->
            Lay(PutSignature(buf, Codes(Text(val.T))), val.T, val.val, endian)
      [] T.type \in Strings -> PutString(buf, val, endian)
      [] T.type = "g" -> PutSignature(buf, val)
      [] OTHER -> PutNumber(buf, val, Width(T.type), endian)

-----------------------------------------------------------------------------
(* Message.  The header fields, in the order of MessageHeaderFields, which  *)
(* is also that of their numbers on the wire.                               *)
HeaderFields == <<"Path", "Interface", "Member", "Error_Name", "Reply_Serial",
                  "Destination", "Sender", "Signature", "Unix_FDs">>
NoReplyExpected == 1
NoAutoStart == 2
HasFlag(flags, f) == (flags \div f) % 2 = 1
SetFlag(flags, f, on) ==
    CASE on /\ ~HasFlag(flags, f) -> flags + f
      [] ~on /\ HasFlag(flags, f) -> flags - f
      [] OTHER -> flags

MessageOf(type, headers) ==
    [type |-> type, valid |-> TRUE, endian |-> "Big", flags |-> 0, serial |-> 0,
     headers |-> headers, body |-> <<>>, fds |-> <<>>]
None == MessageOf("NONE", <<>>)

StringVariant(s) == MakeVariant(Basic("s"), s)
UintVariant(n) == MakeVariant(Basic("u"), n)
HeaderField(m, f) == IF f \in DOMAIN m.headers THEN m.headers[f] ELSE NoVariant
SetHeaderField(m, f, v) == [m EXCEPT !.headers = (f :> v) @@ @]
(* The value of a field, or none unless the field has the type. *)
HeaderValue(m, f, t, none) ==
    IF HeaderField(m, f).type = t THEN FromVariant(HeaderField(m, f), Basic(t)).val ELSE none
Destination(m) == HeaderValue(m, "Destination", "s", <<>>)
Sender(m) == HeaderValue(m, "Sender", "s", <<>>)
SignatureOf(m) == Chars(HeaderValue(m, "Signature", "g", <<>>))
(* path(), interface_name() and member(). *)
FirstFields(m) ==
    [k \in 1 .. 3 |-> HeaderValue(m, HeaderFields[k], IF k = 1 THEN "o" ELSE "s", <<>>)]
CallHeader(m) == FirstFields(m)
SignalHeader(m) == FirstFields(m)
ReplySerial(m) == HeaderValue(m, "Reply_Serial", "u", 0)
ErrorName(m) == HeaderValue(m, "Error_Name", "s", <<>>)

AppendSignature(m, chars) ==
    SetHeaderField(m, "Signature",
        MakeVariant(Basic("g"), HeaderValue(m, "Signature", "g", <<>>) \o Codes(chars)))
SignatureNodes(m) == Nodes(SignatureOf(m))

(* append() << value, the message's own iterator; dup is what fcntl gives. *)
Signed(m, T) ==
    IF m.valid \/ T.type \in {"a", "("} THEN AppendSignature(m, Text(T)) ELSE m
Counted(m, fds) ==
    IF fds # m.fds THEN SetHeaderField(m, "Unix_FDs", UintVariant(Len(fds))) ELSE m
Holding(m, s) ==
    [crashed |-> s.crashed,
     msg |-> [Counted(m, s.fds) EXCEPT !.body = s.buf, !.fds = s.fds, !.valid = s.valid]]
AppendArgument(m, T, val, dup) ==
    Holding(Signed(m, T),
            AppendValue([buf |-> m.body, fds |-> m.fds, valid |-> m.valid, dup |-> dup,
                         crashed |-> FALSE, kind |-> "message"], T, val))

-----------------------------------------------------------------------------
(* serialize_to_vector.                                                     *)
TypeCode(type) ==
    CASE type = "CALL" -> 1 [] type = "RETURN" -> 2 [] type = "ERROR" -> 3
      [] type = "SIGNAL" -> 4
MustHaveSerial(m) == m.type \in {"RETURN", "ERROR"}
HasReplySerial(m) == ReplySerial(m) # 0

HeaderArray(m) ==
    LET f[k \in 0 .. 9] ==
            IF k = 0 THEN Zeros(16)
            ELSE LET v == HeaderField(m, HeaderFields[k])
                 IN  IF v.type = "INVALID" THEN f[k - 1]
                     ELSE PutVariant(Append(Align(f[k - 1], 8), k), Codes(v.sig), v.bytes)
    IN  SubSeq(f[9], 17, Len(f[9]))

FixedPart(m, serial) ==
    PutNumber(PutNumber(PutNumber(<<66, TypeCode(m.type), m.flags, 1>>,
        Len(m.body), 4, "Big"), serial, 4, "Big"), 0, 4, "Big")
(* Mutant: the body directly follows the header array. *)
SerializeUnaligned(m, serial) ==
    LET whole == FixedPart(m, serial) \o HeaderArray(m)
    IN  PutAt(whole, 12, Len(whole) - 16) \o m.body
Serialize(m, serial) ==
    LET header == HeaderArray(m)
        whole == FixedPart(m, serial) \o header
    IN  Align(PutAt(whole, 12, Len(whole) - 16), 8) \o m.body
CanSerialize(m, serial) ==
    /\ MustHaveSerial(m) => HasReplySerial(m)
    /\ Len(Serialize(m, serial)) < MaxMessage

-----------------------------------------------------------------------------
(* create_from_data.                                                        *)
(* demarshal_variant: containers and descriptors give an empty Variant. *)
RECURSIVE DemarshalVariant(_, _, _)
DemarshalVariant(bytes, at, endian) ==
    LET Of(t, p1) ==
            CASE t \in {"a", "v"} -> DemarshalVariant(bytes, p1, endian)
              [] t \in {"(", "{", "h", "INVALID"} -> Ok(NoVariant, p1)
              [] OTHER -> Then(GetExact([bytes |-> bytes, endian |-> endian], t, p1),
                               LAMBDA r : Ok(MakeVariant(Basic(t), r.val), r.p))
    IN  Then(GetSignature(bytes, at), LAMBDA sig : Of(FirstType(Chars(sig.val)), sig.p))

(* The loop over the header array, whose end is compared with 12 + its size. *)
RECURSIVE ReadHeaders(_, _, _, _, _)
ReadHeaders(bytes, at, end, endian, headers) ==
    LET key == AlignUp(at, 8)
        known == bytes[key + 1] \in 1 .. 9
    IN  CASE at >= end -> Ok(headers, at)
          [] at < end /\ ~Fits(bytes, key, 1) -> Crash
          [] OTHER -> Then(DemarshalVariant(bytes, key + 1, endian), LAMBDA r :
                ReadHeaders(bytes, r.p, end, endian,
                    IF known THEN (HeaderFields[bytes[key + 1]] :> r.val) @@ headers
                    ELSE headers))

CreateFromData(bytes, fds) ==
    LET endian == IF bytes[1] = 108 THEN "Little" ELSE "Big"
        word(k) == GetNumber(bytes, k, 4, endian).val
        type == <<"CALL", "RETURN", "ERROR", "SIGNAL">>[bytes[2]]
        With(headers, start, size) ==
            IF ~Fits(bytes, start, size) THEN Crash
            ELSE Ok([MessageOf(type, headers) EXCEPT
                        !.endian = endian, !.flags = bytes[3], !.serial = word(8),
                        !.body = Slice(bytes, start, size),
                        !.fds = SubSeq(fds, 1, HeaderValue([headers |-> headers],
                                                           "Unix_FDs", "u", 0))], 0)
    IN  Then(ReadHeaders(bytes, 16, 12 + word(12), endian, <<>>),
             LAMBDA h : With(h.val, AlignUp(h.p, 8), word(4)))

-----------------------------------------------------------------------------
NoCall == [serial |-> 0, sender |-> <<>>]
Init ==
    /\ stage = "new" /\ from = "library" /\ call = NoCall /\ msg = None
    /\ args = <<>> /\ wire = <<>> /\ rcvd = None /\ it = Invalid /\ p = 0 /\ got = <<>>

PathA == <<47, 97>>     \* "/a"
NameB == <<98, 46, 98>> \* "b.b"
NameC == <<99>>         \* "c"
Text1 == <<116>>        \* "t"

(* CallMessage::create and SignalMessage::create. *)
CallMessage ==
    [Path |-> MakeVariant(Basic("o"), PathA), Interface |-> StringVariant(NameB),
     Member |-> StringVariant(NameC), Destination |-> StringVariant(NameB)]
SignalMessage ==
    [Path |-> MakeVariant(Basic("o"), PathA), Interface |-> StringVariant(NameB),
     Member |-> StringVariant(NameC)]
Create ==
    /\ stage = "new"
    /\ stage' = "write"
    /\ msg' \in {MessageOf("CALL", CallMessage), MessageOf("SIGNAL", SignalMessage)}
    /\ UNCHANGED <<from, call, args, wire, readVars>>

(* set_no_reply and set_auto_start. *)
SetFlags ==
    /\ stage = "write" /\ msg.type = "CALL" /\ args = <<>>
    /\ \E f \in {NoReplyExpected, NoAutoStart}, on \in BOOLEAN :
          msg' = [msg EXCEPT !.flags = SetFlag(@, f, on)]
    /\ UNCHANGED <<stage, from, call, args, wire, readVars>>

AppendArg ==
    /\ stage = "write" /\ Len(args) < (IF call = NoCall THEN MaxArgs ELSE 1)
    /\ \E a \in Samples, dup \in BOOLEAN :
          \E r \in {AppendArgument(msg, a.T, Cpp(a.T, a.val), dup)} :
              /\ a.T.type # "h" => dup
              /\ msg' = r.msg
              /\ args' = Append(args, a)
              /\ stage' = IF r.crashed THEN "crashed" ELSE "write"
    /\ UNCHANGED <<from, call, wire, readVars>>

(* The connection writes a message, valid or not, unless it cannot be      *)
(* serialized.                                                             *)
Send ==
    /\ stage = "write"
    /\ \E serial \in Serials :
          /\ CanSerialize(msg, serial)
          /\ wire' = Serialize(msg, serial)
          /\ msg' = [msg EXCEPT !.serial = serial]
    /\ stage' = "sent"
    /\ UNCHANGED <<from, call, args, readVars>>

(* A foreign program sends a call, with a header field of its own. *)
PeerHeader(endian, types) ==
    <<<<1, [T |-> Basic("o"), val |-> PathA]>>, <<3, [T |-> Basic("s"), val |-> NameC]>>,
      <<7, [T |-> Basic("s"), val |-> NameB]>>, <<10, [T |-> Basic("u"), val |-> 1]>>,
      <<8, [T |-> Basic("g"), val |-> Codes(Texts(types))]>>>>
PeerBytes(types, vals, endian, serial) ==
    LET body == LayAll(<<>>, types, vals, endian)
        fixed == PutNumber(PutNumber(<<IF endian = "Little" THEN 108 ELSE 66, 1, 0, 1>>,
                    Len(body), 4, endian), serial, 4, endian)
        header == Lay(fixed, ArrayOf(StructOf(<<Basic("y"), VariantType>>)),
                      PeerHeader(endian, types), endian)
    IN  Align(header, 8) \o body
PeerSend ==
    /\ stage = "new"
    /\ \E n \in 0 .. MaxArgs : \E as \in [1 .. n -> {a \in Samples : a.T.type # "h"}],
          endian \in {"Big", "Little"}, serial \in Serials :
          /\ args' = as
          /\ wire' = PeerBytes([k \in 1 .. n |-> as[k].T], [k \in 1 .. n |-> as[k].val],
                               endian, serial)
          /\ msg' = [None EXCEPT !.serial = serial]
    /\ stage' = "sent" /\ from' = "peer"
    /\ UNCHANGED <<call, readVars>>

Receive ==
    /\ stage = "sent"
    /\ \E r \in {CreateFromData(wire, msg.fds)} :
          /\ rcvd' = IF IsOk(r) THEN r.val ELSE None
          /\ it' = IF IsOk(r) THEN Iter(SignatureNodes(r.val), NoLast) ELSE Invalid
          /\ stage' = IF IsOk(r) THEN "read" ELSE "crashed"
    /\ p' = 0 /\ got' = <<>>
    /\ UNCHANGED <<from, call, msg, args, wire>>

(* A unit test makes a call, appends its arguments and lets an iterator     *)
(* over the same message read them.                                         *)
AppendArguments(m, as) ==
    FoldLeft(LAMBDA r, a : IF r.crashed THEN r ELSE AppendArgument(r.msg, a.T, Cpp(a.T, a.val), TRUE),
             [crashed |-> FALSE, msg |-> m], as)
RunTest ==
    /\ stage = "new"
    /\ \E t \in Tests : \E r \in {AppendArguments(MessageOf("CALL", CallMessage), t)} :
          /\ args' = t
          /\ msg' = r.msg /\ rcvd' = r.msg
          /\ it' = Iter(SignatureNodes(r.msg), NoLast)
          /\ stage' = IF r.crashed THEN "crashed" ELSE "read"
    /\ from' = "test"
    /\ UNCHANGED <<call, wire, p, got>>

Context(m) == [kind |-> "message", bytes |-> m.body, endian |-> m.endian, fds |-> m.fds]
(* ErrorMessage::message. *)
ErrorText(m) ==
    IF TypeAt(SignatureNodes(m)) = "s"
    THEN GetString(m.body, 0, m.endian).val ELSE <<>>

(* iterator >> value.  The receiver expects the arguments that were sent,   *)
(* but may try to read a byte first, and go on if that throws.              *)
ReadArg ==
    /\ stage = "read" /\ Len(got) < Len(args)
    /\ \E T \in {args[Len(got) + 1].T} \cup (IF from = "test" THEN {} ELSE {Basic("y")}) :
          \E r \in {Get(Context(rcvd), T, it, p, <<>>)} :
              /\ stage' = CASE IsOk(r) -> "read"
                            [] r.status = "throw" ->
                                 IF T = args[Len(got) + 1].T THEN "threw" ELSE "read"
                            [] OTHER -> "crashed"
              /\ it' = IF IsOk(r) THEN Following(it) ELSE it
              /\ p' = IF r.status \in {"ok", "throw"} THEN r.p ELSE p
              /\ got' = IF IsOk(r) THEN Append(got, [ask |-> T, val |-> r.val]) ELSE got
    /\ UNCHANGED <<from, call, msg, args, wire, rcvd>>

(* create_reply and create_error_reply: a destination that is not a bus     *)
(* name is not set.  ErrorMessage::create appends its text.                 *)
To(sender) == IF sender = <<>> THEN <<>> ELSE "Destination" :> StringVariant(sender)
ReplyTo(m, type) ==
    [MessageOf(type, [Reply_Serial |-> UintVariant(m.serial)] @@ To(Sender(m)))
        EXCEPT !.valid = ~HasFlag(m.flags, NoReplyExpected)]
ErrorFor(m) ==
    AppendArgument(MessageOf("ERROR", [Reply_Serial |-> UintVariant(m.serial),
                                       Error_Name |-> StringVariant(NameB)]),
                   Basic("s"), Text1, TRUE).msg
Reply ==
    /\ stage = "read" /\ rcvd.type = "CALL" /\ Len(got) = Len(args) /\ call = NoCall
    /\ from # "test"
    /\ call' = [serial |-> rcvd.serial, sender |-> Sender(rcvd)]
    /\ \/ /\ \E type \in {"RETURN", "ERROR"} : msg' = ReplyTo(rcvd, type)
          /\ args' = <<>>
       \/ /\ msg' = ErrorFor(rcvd)
          /\ args' = <<[T |-> Basic("s"), val |-> Text1]>>
    /\ stage' = "write" /\ from' = "library" /\ wire' = <<>>
    /\ rcvd' = None /\ it' = Invalid /\ p' = 0 /\ got' = <<>>

Next == Create \/ SetFlags \/ AppendArg \/ Send \/ PeerSend \/ Receive \/ RunTest \/ ReadArg
        \/ Reply
Spec == Init /\ [][Next]_vars

-----------------------------------------------------------------------------
(* For which arguments the library keeps the format and gives back what was *)
(* appended.                                                                *)

RECURSIVE Deep8(_, _), Regular(_, _), Plain(_, _), Faithful(_, _), HasMap(_)
Every(P(_, _), T, val) ==
    \A k \in DOMAIN val : P(IF T.type = "a" THEN T.sub[1] ELSE T.sub[k], val[k])

(* Something aligned to 8 is inside. *)
Deep8(T, val) ==
    CASE T.type = "a" -> Alignment(T.sub[1].type) = 8 \/ ~Every(LAMBDA e, x : ~Deep8(e, x), T, val)
      [] T.type = "v" -> Deep8(val.T, val.val)
      [] OTHER -> Alignment(T.type) = 8

(* The content of a Variant: no variant or descriptor inside, vectors of    *)
(* what is aligned to 4 or less.                                            *)
Plain(T, val) ==
    CASE T.type \in {"v", "h"} -> FALSE
      [] T.type = "a" /\ ~IsMap(T) -> Alignment(T.sub[1].type) < 8 /\ Every(Plain, T, val)
      [] IsContainer(T.type) /\ (T.type = "a" => IsMap(T)) -> Every(Plain, T, val)
      [] OTHER -> TRUE

(* A container is marshaled in a buffer of its own and then copied: what it *)
(* holds must not need a larger alignment than the container itself.        *)
Regular(T, val) ==
    CASE T.type = "a" ->
            /\ Every(Regular, T, val)
            /\ Alignment(T.sub[1].type) = 8 \/ ~Deep8(T, val)
      [] T.type \in {"(", "{"} -> Every(Regular, T, val)
      [] T.type = "v" -> /\ Plain(val.T, val.val) /\ Regular(val.T, val.val)
                         /\ val.T.type = "a" => ~Deep8(val.T, val.val)
      [] OTHER -> T.type # "h"

(* An array iterator is valid up to its first position plus the size of the *)
(* data: the last element must be longer than the size and the padding.  The *)
(* padding of an empty array is not skipped.                                *)
LastIsLong(T, val) ==
    LET wide == Alignment(T.sub[1].type) = 8
    IN  IF val = <<>> THEN ~wide
        ELSE Len(Lay(<<>>, T.sub[1], Last(val), "Big")) >= IF wide THEN 11 ELSE 7
HasMap(T) == IsMap(T) \/ \E k \in DOMAIN T.sub : HasMap(T.sub[k])
NoStruct(T) == T.type # "(" /\ \A k \in DOMAIN T.sub : T.sub[k].type # "("
Faithful(T, val) ==
    CASE T.type = "a" ->
            /\ Every(Faithful, T, val) /\ LastIsLong(T, val)
            /\ IsMap(T) /\ Len(val) > 1 => ~HasMap(T.sub[1].sub[2])
      [] T.type \in {"(", "{"} -> Every(Faithful, T, val)
      [] T.type = "v" -> /\ Tame(val.T) /\ Plain(val.T, val.val) /\ NoStruct(val.T)
                         /\ Faithful(val.T, val.val)
      [] OTHER -> TRUE

(* The unit tests expect what they append to be kept without exception.    *)
Sound ==
    from = "test" \/ \A k \in DOMAIN args :
        /\ Tame(args[k].T) /\ Faithful(args[k].T, args[k].val)
        /\ from = "library" => msg.valid /\ (Regular(args[k].T, args[k].val) \/ args[k].T.type = "h")

-----------------------------------------------------------------------------
(* The body of a message follows the D-Bus specification: the append        *)
(* iterators, which marshal each container into a buffer that starts at 0,  *)
(* still align every value within the whole message.                        *)
BodyFollowsTheSpecification ==
    (stage = "sent" /\ from = "library" /\ msg.valid /\ \A k \in DOMAIN args : Regular(args[k].T, args[k].val))
    => msg.body = LayAll(<<>>, [k \in DOMAIN args |-> args[k].T],
                         [k \in DOMAIN args |-> args[k].val], "Big")

(* What was appended is what is read, by a message iterator that shares one *)
(* position among its sub-iterators, whoever marshaled it and in whatever   *)
(* byte order, also after an attempt to read a value of the wrong type; a   *)
(* number read as a byte is truncated.  A unit test also finds the          *)
(* signature it expects, and converts a Variant before it compares.         *)
ReadBack ==
    Sound =>
        /\ from = "test" => SignatureOf(rcvd) = Texts([k \in DOMAIN args |-> args[k].T])
        /\ stage \notin {"crashed", "threw"}
        /\ \A k \in DOMAIN got :
              (from = "test" /\ got[k].ask = VariantType) \/
              got[k].val = IF got[k].ask = args[k].T THEN Cpp(args[k].T, args[k].val)
                           ELSE args[k].val % 256

(* An answer carries, when it arrives, the serial of the call it was made   *)
(* for and goes to the sender of that call, if the call named one; an error *)
(* that was given a text has it still.                                      *)
AnswersItsCall ==
    (stage = "read" /\ call # NoCall) =>
        /\ ReplySerial(rcvd) = call.serial
        /\ rcvd.type = "RETURN" => Destination(rcvd) = call.sender
        /\ ErrorName(rcvd) # <<>> => ErrorText(rcvd) = Text1

(* Every message that is sent can be made into a message again, without a   *)
(* failed assertion, and has the type, flags, serial, header fields, body   *)
(* and descriptors of the one that was sent; a header field that is not     *)
(* known is skipped, and an answer finds the caller it is for.              *)
HeadersSurvive ==
    /\ AnswersItsCall
    /\ (stage = "crashed" /\ wire # <<>>) => rcvd # None
    /\ stage = "read" =>
        IF from # "peer"
        THEN /\ rcvd = [msg EXCEPT !.valid = TRUE]
             /\ rcvd.type = "SIGNAL" => SignalHeader(rcvd) = <<PathA, NameB, NameC>>
        ELSE /\ DOMAIN rcvd.headers = {"Path", "Member", "Sender", "Signature"}
             /\ rcvd.serial = msg.serial
             /\ Sender(rcvd) = NameB /\ CallHeader(rcvd) = <<PathA, <<>>, NameC>>

(* A Variant that has crossed the wire gives the value it was made of.      *)
VariantsGiveTheirValue ==
    Sound => \A k \in DOMAIN got :
        got[k].ask = VariantType =>
            LET c == args[k].val IN
            \A r \in {FromVariant(got[k].val, c.T)} : IsOk(r) /\ r.val = Cpp(c.T, c.val)
=============================================================================
