-------------------------------- MODULE Wire --------------------------------
(***************************************************************************)
(* Values and bytes: what MessageAppendIterator and VariantAppendIterator  *)
(* append for a C++ value, and what MessageIterator and VariantIterator    *)
(* make of the bytes again.                                                *)
(*                                                                         *)
(* A value is given with its type (a node of Signatures).  A number is a   *)
(* natural number, a string a sequence of codes, a vector or a tuple a     *)
(* sequence, a std::map a sequence of <<key, data>> pairs in the order of  *)
(* its keys, a file descriptor an identifier, and a Variant the record     *)
(* [type, sig, bytes, align] of its four members.                          *)
(***************************************************************************)
EXTENDS Signatures, TLC

CONSTANT MaxArray    \* Validator::maximum_array_size(), 2^26 in the library

Code ==
    [y |-> 121, b |-> 98, n |-> 110, q |-> 113, i |-> 105, u |-> 117, x |-> 120,
     t |-> 116, d |-> 100, s |-> 115, o |-> 111, g |-> 103, h |-> 104, a |-> 97,
     v |-> 118] @@ ("(" :> 40) @@ (")" :> 41) @@ ("{" :> 123) @@ ("}" :> 125)
Codes(sig) == [k \in DOMAIN sig |-> Code[sig[k]]]
(* A code that is no signature character is char_to_dbus_type's INVALID. *)
Chars(codes) ==
    [k \in DOMAIN codes |->
        IF \E c \in DOMAIN Code : Code[c] = codes[k]
        THEN CHOOSE c \in DOMAIN Code : Code[c] = codes[k] ELSE "?"]

(* A default-constructed Variant. *)
NoVariant == [type |-> "INVALID", sig |-> <<>>, bytes |-> <<>>, align |-> 0]

IsMap(T) == T.type = "a" /\ T.sub[1].type = "{"

-----------------------------------------------------------------------------
(* Appending.  A state s of an iterator is the buffer it marshals to, the   *)
(* descriptors of the message, whether the message is valid, whether the    *)
(* next fcntl( F_DUPFD_CLOEXEC ) succeeds, whether the process has crashed, *)
(* and the kind of the iterator.                                            *)

Put(s, buf) == [s EXCEPT !.buf = buf]

(* Align and copy the working buffer of a sub-iterator. *)
CopyIn(s, sub, a) == [sub EXCEPT !.buf = Align(s.buf, a) \o sub.buf]

(* close_container, for an array whose elements are aligned to a.           *)
(* Marshaling::align divides by the alignment.                              *)
Sized(s, sub, a) ==
    IF a = 0 THEN [sub EXCEPT !.crashed = TRUE]
    ELSE CopyIn(Put(s, PutNumber(s.buf, Len(sub.buf), 4, "Big")), sub, a)
CloseArray(s, sub, a) ==
    IF Len(sub.buf) > MaxArray THEN [sub EXCEPT !.buf = s.buf, !.valid = FALSE]
    ELSE Sized(s, sub, a)
(* That of a variant iterator has no message to invalidate. *)
CloseVariantArray(s, sub, a) ==
    IF Len(sub.buf) > MaxArray THEN [sub EXCEPT !.buf = s.buf] ELSE Sized(s, sub, a)
(* Mutant: a struct is not aligned. *)
CloseStructUnaligned(s, sub) == CopyIn(s, sub, 1)
CloseStruct(s, sub) == CopyIn(s, sub, 8)

(* The alignment open_container derives from the signature it is given: a   *)
(* message iterator is given the element's, a variant iterator the whole    *)
(* vector's; for a std::map both are given that of the dict entry.          *)
ArrayAlignment(T) == Alignment(FirstType(Text(T.sub[1])))
VariantArrayAlignment(T) ==
    Alignment(FirstType(IF IsMap(T) THEN Text(T.sub[1]) ELSE Text(T)))

AppendFd(s, fd) ==
    IF ~s.dup THEN [s EXCEPT !.valid = FALSE]
    ELSE [s EXCEPT !.fds = Append(@, fd), !.buf = PutNumber(@, Len(s.fds), 4, "Big")]
AppendVariant(s, v) ==
    IF v.type = "INVALID" THEN s
    ELSE Put(s, Align(PutSignature(s.buf, Codes(v.sig)), v.align) \o v.bytes)
(* A Variant in a Variant loses its signature. *)
AppendVariantInVariant(s, v) == Put(s, s.buf \o v.bytes)

RECURSIVE AppendValue(_, _, _), AppendAll(_, _, _)
AppendAll(s, types, vals) ==
    IF vals = <<>> THEN s
    ELSE AppendAll(AppendValue(s, Head(types), Head(vals)), Tail(types), Tail(vals))
Repeat(t, val) == [k \in DOMAIN val |-> t]
AppendContainer(s, T, val) ==
    LET empty == Put(s, <<>>) IN
    IF T.type = "a"
    THEN CloseArray(s, AppendAll(empty, Repeat(T.sub[1], val), val), ArrayAlignment(T))
    ELSE CloseStruct(s, AppendAll(empty, T.sub, val))
AppendVariantContainer(s, T, val) ==
    LET empty == Put(s, <<>>) IN
    IF T.type = "a"
    THEN CloseVariantArray(s, AppendAll(empty, Repeat(T.sub[1], val), val),
                           VariantArrayAlignment(T))
    ELSE CloseStruct(s, AppendAll(empty, T.sub, val))
AppendValue(s, T, val) ==
    LET message == s.kind = "message" IN
    CASE T.type \in {"a", "(", "{"} ->
            IF message THEN AppendContainer(s, T, val) ELSE AppendVariantContainer(s, T, val)
      [] T.type \notin {"a", "(", "{"} /\ ~s.valid -> s
      [] OTHER ->
            CASE T.type = "h" -> AppendFd(s, val)
              [] T.type = "v" ->
                    IF message THEN AppendVariant(s, val) ELSE AppendVariantInVariant(s, val)
              [] OTHER -> Put(s, PutBasic(s.buf, T.type, val))

(* The constructors of Variant. *)
MakeVariant(T, val) ==
    LET s == AppendValue([buf |-> <<>>, fds |-> <<>>, valid |-> TRUE, dup |-> TRUE,
                          crashed |-> FALSE, kind |-> "variant"], T, val)
    IN  [type |-> T.type, sig |-> Text(T), bytes |-> s.buf, align |-> Alignment(T.type)]

-----------------------------------------------------------------------------
(* Reading.  ctx is what the iterators over one message or one Variant      *)
(* share, but for the position p: [kind, bytes, endian, fds].  An iterator  *)
(* is the nodes of its signature still ahead and, in an array, the last     *)
(* position at which it is valid.                                           *)

RECURSIVE CopyElements(_, _, _, _), CopyArray(_, _, _, _), CopyDictEntry(_, _, _, _),
          CopyStruct(_, _, _, _)
RECURSIVE Get(_, _, _, _, _), Elements(_, _, _, _), Fields(_, _, _, _, _),
          Entries(_, _, _, _, _, _)

Iter(nodes, last) == [nodes |-> nodes, last |-> last]
NoLast == -1
Invalid == Iter(<<>>, NoLast)
ArgType(it) == TypeAt(it.nodes)
IsDict(it) == ElementTypeAt(it.nodes) = "{"

InArray(it, p) == p <= it.last
IsValidAt(it, p) == it.nodes # <<>> /\ (it.last # NoLast => InArray(it, p))

Following(it) ==
    IF it.last # NoLast \/ it.nodes = <<>> THEN it ELSE Iter(NextAt(it.nodes), NoLast)

(* recurse() and the constructor of a sub-iterator.  The last position of   *)
(* an array counts from where the reading of its size begins: the left      *)
(* operand of the addition is the one the compiler evaluates first.         *)
LastPosition(p, len) == p + len.val
Recurse(ctx, it, p) ==
    LET sub == RecurseAt(it.nodes) IN
    CASE ArgType(it) = "a" ->
            Then(GetNumber(ctx.bytes, p, 4, ctx.endian),
                 LAMBDA len : Ok(Iter(sub, LastPosition(p, len)), len.p))
      [] ArgType(it) = "v" ->
            Then(GetSignature(ctx.bytes, p),
                 LAMBDA sig : Ok(Iter(Nodes(Chars(sig.val)), NoLast), sig.p))
      [] ArgType(it) \in {"(", "{"} -> Ok(Iter(sub, NoLast), AlignUp(p, 8))
      [] OTHER -> Ok(Invalid, p)
ThrowAt(p) == [status |-> "throw", p |-> p]
Hang == [status |-> "hang"]

(* The conversion operators to the numeric types.  Doubles are left to the *)
(* reader that asks for one.                                               *)
ToBool(n) == IF n = 0 THEN 0 ELSE 1
ToNarrow(t, n) == n % (256 ^ Width(t))
ToWide(n) == n
Cast(t, n) ==
    CASE t = "b" -> ToBool(n)
      [] t \in {"y"} \cup Fixed2 -> ToNarrow(t, n)
      [] OTHER -> ToWide(n)
GetCast(ctx, t, a, p) ==
    Then(GetExact(ctx, a, p), LAMBDA r : Ok(Cast(t, r.val), r.p))

(* VariantIterator repeats these operators. *)
VariantExact(ctx, a, p) == GetExact(ctx, a, p)
VariantNarrow(t, n) == IF t = "b" THEN ToBool(n) ELSE n % (256 ^ Width(t))
VariantWide(n) == n
VariantNumber(ctx, t, a, p) ==
    Then(VariantExact(ctx, a, p), LAMBDA r :
        Ok(IF t \in {"b", "y"} \cup Fixed2 THEN VariantNarrow(t, r.val)
           ELSE VariantWide(r.val), r.p))

(* get_filedescriptor: -1 outside the descriptors of the message. *)
GetFd(ctx, p) ==
    Then(GetNumber(ctx.bytes, p, 4, ctx.endian), LAMBDA r :
        Ok(IF r.val < Len(ctx.fds) THEN ctx.fds[r.val + 1] ELSE -1, r.p))

(* dict[ key ] = data, keeping the place of the key. *)
Insert(pairs, k, d) ==
    IF \E j \in DOMAIN pairs : pairs[j][1] = k
    THEN [j \in DOMAIN pairs |-> IF pairs[j][1] = k THEN <<k, d>> ELSE pairs[j]]
    ELSE Append(pairs, <<k, d>>)

-----------------------------------------------------------------------------
(* Variant::createFromMessage.  It marshals again what it reads, into a     *)
(* vector of its own.  Members that its switches leave out are neither read *)
(* nor written.                                                            *)

CopyBasic(ctx, a, p, out) ==
    Then(GetExact(ctx, a, p), LAMBDA r : Ok(PutBasic(out, a, r.val), r.p))
Copied == Basics \ {"h"}

(* One case of the switches on the type under the iterator. *)
CopyMember(ctx, it, p, out, copied) ==
    LET a == ArgType(it) IN
    CASE a \in Copied -> CopyBasic(ctx, a, p, out)
      [] a \in copied ->
            Then(Recurse(ctx, it, p), LAMBDA sub :
                CASE a = "a" -> CopyArray(ctx, sub.val, sub.p, out)
                  [] a = "{" -> CopyDictEntry(ctx, sub.val, sub.p, out)
                  [] a = "(" -> CopyStruct(ctx, sub.val, sub.p, out))
      [] OTHER -> Ok(out, p)

(* The loop of recurseArray: an element that is not read leaves the iterator *)
(* where it is, and valid, for ever.                                        *)
CopyElements(ctx, it, p, work) ==
    IF ~IsValidAt(it, p) THEN Ok(work, p)
    ELSE Then(CopyMember(ctx, it, p, work, {"a", "{", "("}), LAMBDA r :
            IF ArgType(it) \in {"v", "h"} THEN Hang ELSE CopyElements(ctx, it, r.p, r.val))

(* Mutant: the elements follow the size without padding. *)
CopyArrayUnaligned(ctx, it, p, out) ==
    Then(CopyElements(ctx, it, p, <<>>), LAMBDA work :
        Ok(PutNumber(out, Len(work.val), 4, "Big") \o work.val, work.p))
CopyArray(ctx, it, p, out) ==
    Then(CopyElements(ctx, it, p, <<>>), LAMBDA work :
        Ok(Align(PutNumber(out, Len(work.val), 4, "Big"), Alignment(ArgType(it))) \o work.val,
           work.p))

(* The switch of recurseDictEntry and recurseStruct has no case for a       *)
(* struct, a variant or a descriptor.                                       *)
CopyFieldsFrom(ctx, it, p, out) ==
    LET f[k \in 0 .. Len(it.nodes)] ==
            IF k = 0 THEN Ok(out, p)
            ELSE Then(f[k - 1], LAMBDA r :
                    CopyMember(ctx, Iter(SubSeq(it.nodes, k, Len(it.nodes)), NoLast),
                               r.p, r.val, {"a", "{"}))
    IN  f[Len(it.nodes)]
CopyDictEntry(ctx, it, p, out) == CopyFieldsFrom(ctx, it, AlignUp(p, 8), Align(out, 8))
CopyStruct(ctx, it, p, out) == CopyFieldsFrom(ctx, it, AlignUp(p, 8), Align(out, 8))

CreateFromMessage(ctx, it, p) ==
    LET a == ArgType(it)
        at == AlignUp(p, IF a = "INVALID" THEN 1 ELSE Alignment(a))
    IN  Then(IF a \in {"v", "h", "{", "INVALID"} THEN Ok(<<>>, at)
             ELSE CopyMember(ctx, it, at, <<>>, {"a", "("}),
             LAMBDA r : Ok([type |-> a, sig |-> Respell(it.nodes), bytes |-> r.val,
                            align |-> Alignment(a)], r.p))

(* it >> variant.  A variant iterator checks the type and reads nothing; a  *)
(* message iterator recurses into whatever container is there, and what is  *)
(* no container has no demarshaler.                                         *)
GetVariant(ctx, it, p) ==
    Then(Recurse(ctx, it, p), LAMBDA sub :
        IF IsContainer(ArgType(it)) THEN CreateFromMessage(ctx, sub.val, sub.p) ELSE Crash)
VariantInVariant(it, p) == IF ArgType(it) = "v" THEN Ok(NoVariant, p) ELSE ThrowAt(p)

-----------------------------------------------------------------------------
(* it >> value, for a value of type T.  prior is what the C++ variable holds *)
(* before, which matters for a std::map: a message iterator inserts into it. *)

Elements(ctx, T, it, p) ==
    IF ~IsValidAt(it, p) THEN Ok(<<>>, p)
    ELSE Then(Get(ctx, T, it, p, <<>>), LAMBDA r :
            IF r.p = p THEN Hang
            ELSE Then(Elements(ctx, T, it, r.p),
                      LAMBDA rest : Ok(<<r.val>> \o rest.val, rest.p)))

Fields(ctx, types, it, p, prior) ==
    LET held == prior # <<>> IN
    IF types = <<>> THEN Ok(<<>>, p)
    ELSE Then(Get(ctx, Head(types), it, p, IF held THEN Head(prior) ELSE <<>>), LAMBDA r :
            Then(Fields(ctx, Tail(types), Following(it), r.p,
                        IF held THEN Tail(prior) ELSE <<>>),
                 LAMBDA rest : Ok(<<r.val>> \o rest.val, rest.p)))

(* The variable that receives the data of the entries is declared once. *)
Kept(ctx, data) == IF ctx.kind = "message" THEN data ELSE <<>>
Entries(ctx, entry, it, p, pairs, data) ==
    IF ~IsValidAt(it, p) THEN Ok(pairs, p)
    ELSE Then(Then(Recurse(ctx, it, p), LAMBDA sub :
                Fields(ctx, entry, sub.val, sub.p, IF data = <<>> THEN <<>> ELSE <<0, data>>)),
              LAMBDA r :
                Entries(ctx, entry, it, r.p, Insert(pairs, r.val[1], r.val[2]),
                        IF entry[2].type \in {"a", "("} THEN Kept(ctx, r.val[2]) ELSE <<>>))

GetArray(ctx, T, it, p) ==
    IF ArgType(it) # "a" THEN ThrowAt(p)
    ELSE Then(Recurse(ctx, it, p), LAMBDA sub : Elements(ctx, T.sub[1], sub.val, sub.p))
GetDict(ctx, T, it, p, prior) ==
    IF ~IsDict(it) THEN ThrowAt(p)
    ELSE Then(Recurse(ctx, it, p),
              LAMBDA sub : Entries(ctx, T.sub[1].sub, sub.val, sub.p, prior, <<>>))
GetStruct(ctx, T, it, p, prior) ==
    Then(Recurse(ctx, it, p), LAMBDA sub : Fields(ctx, T.sub, sub.val, sub.p, prior))
(* A variant iterator reads a tuple without entering the struct. *)
VariantContainer(ctx, T, it, p) ==
    CASE IsMap(T) -> GetDict(ctx, T, it, p, <<>>)
      [] T.type = "a" /\ ~IsMap(T) -> GetArray(ctx, T, it, p)
      [] OTHER -> Fields(ctx, T.sub, it, p, <<>>)

GetText(ctx, a, p) ==
    IF a \in Strings \cup {"g"} THEN GetExact(ctx, a, p) ELSE ThrowAt(p)
GetFromMessage(ctx, T, it, p, prior) ==
    LET a == ArgType(it) IN
    CASE IsMap(T) -> GetDict(ctx, T, it, p, prior)
      [] T.type = "a" /\ ~IsMap(T) -> GetArray(ctx, T, it, p)
      [] T.type = "(" -> GetStruct(ctx, T, it, p, prior)
      [] T.type \in Numbers /\ a \in Numbers -> GetCast(ctx, T.type, a, p)
      [] T.type \in Strings \cup {"g"} -> GetText(ctx, a, p)
      [] T.type = "h" /\ a = "h" -> GetFd(ctx, p)
      [] T.type = "v" -> GetVariant(ctx, it, p)
      [] OTHER -> ThrowAt(p)
GetFromVariant(ctx, T, it, p) ==
    LET a == ArgType(it) IN
    CASE T.type \in {"a", "("} -> VariantContainer(ctx, T, it, p)
      [] T.type \in Numbers /\ a \in Numbers -> VariantNumber(ctx, T.type, a, p)
      [] T.type \in Strings \cup {"g"} /\ a \in Strings \cup {"g"} -> VariantExact(ctx, a, p)
      [] T.type = "v" -> VariantInVariant(it, p)
      [] OTHER -> ThrowAt(p)
Get(ctx, T, it, p, prior) ==
    IF ctx.kind = "message" THEN GetFromMessage(ctx, T, it, p, prior)
    ELSE GetFromVariant(ctx, T, it, p)

(* Variant::to_bool() ... to_signature(), to_vector(), to_map(), to_tuple(). *)
FromVariant(v, T) ==
    IF T.type \in Basics /\ v.type # T.type THEN ThrowAt(0)
    ELSE Get([kind |-> "variant", bytes |-> v.bytes, endian |-> "Big", fds |-> <<>>],
             T, Iter(Nodes(v.sig), NoLast), 0, <<>>)
=============================================================================
