------------------------------ MODULE Marshal ------------------------------
(***************************************************************************)
(* Bytes: the Marshaling class, which appends to a vector of bytes, and    *)
(* the Demarshaling class, which reads them back from a position.          *)
(*                                                                         *)
(* Numbers are natural numbers below 2^24, so that TLC can represent them: *)
(* the high digits of a wider number are zeros that still take their room. *)
(* A character is the number of its code.                                  *)
(***************************************************************************)
EXTENDS Integers, Sequences

(* The types whose values are as wide as their alignment, and the others    *)
(* that are no containers.                                                 *)
Fixed2 == {"n", "q"}
Fixed4 == {"b", "i", "u", "h"}
Fixed8 == {"x", "t", "d"}
Strings == {"s", "o"}
Numbers == {"y", "b"} \cup Fixed2 \cup {"i", "u"} \cup Fixed8

(* The number of bytes of a value of a fixed type. *)
Width(t) ==
    CASE t = "y" -> 1
      [] t \in Fixed2 -> 2
      [] t \in Fixed4 -> 4
      [] t \in Fixed8 -> 8

(* The zeros align() appends to n bytes, or skips after them. *)
Gap(n, a) == (a - (n % a)) % a
AlignUp(n, a) == n + Gap(n, a)
Zeros(n) == [k \in 1 .. n |-> 0]

Digit(n, k) == IF k > 2 THEN 0 ELSE (n \div (256 ^ k)) % 256
Digits(n, w, endian) ==
    [k \in 1 .. w |-> IF endian = "Big" THEN Digit(n, w - k) ELSE Digit(n, k - 1)]

-----------------------------------------------------------------------------
(* Marshaling: buf is the vector it appends to.                            *)

Align(buf, a) == buf \o Zeros(Gap(Len(buf), a))
PutNumber(buf, n, w, endian) == Align(buf, w) \o Digits(n, w, endian)
PutString(buf, s, endian) == PutNumber(buf, Len(s), 4, endian) \o s \o <<0>>
PutSignature(buf, codes) == buf \o <<Len(codes) % 256>> \o codes \o <<0>>
(* marshal( Variant ): the bytes follow the signature without alignment. *)
PutVariant(buf, codes, data) == PutSignature(buf, codes) \o data
PutAt(buf, offset, n) ==
    [k \in DOMAIN buf |-> IF k \in offset + 1 .. offset + 4
                          THEN Digits(n, 4, "Big")[k - offset] ELSE buf[k]]

-----------------------------------------------------------------------------
(* Demarshaling: buf are the bytes of a message in its byte order, p the    *)
(* position.  A read gives the value and the next position; what is_valid() *)
(* refuses is a failed assertion, which ends the process.                   *)

Crash == [status |-> "crash"]
Throw == [status |-> "throw"]
Ok(val, p) == [status |-> "ok", val |-> val, p |-> p]
IsOk(r) == r.status = "ok"
(* A read that goes on with what another one gave. *)
Then(r, Continue(_)) == IF IsOk(r) THEN Continue(r) ELSE r

Fits(buf, p, n) == p + n <= Len(buf)
Slice(buf, p, n) == SubSeq(buf, p + 1, p + n)
(* A number beyond 2^24, which only comes of reading at a wrong position, is *)
(* Huge.                                                                    *)
Huge == 256 ^ 3
NumberOf(digits) ==
    LET f[k \in 0 .. Len(digits)] ==
            CASE k = 0 -> 0
              [] k > 0 /\ f[k - 1] >= 256 ^ 2 -> Huge
              [] OTHER -> f[k - 1] * 256 + digits[k]
    IN  f[Len(digits)]
InOrder(digits, endian) ==
    IF endian = "Big" THEN digits
    ELSE [k \in DOMAIN digits |-> digits[Len(digits) + 1 - k]]
GetNumber(buf, p, w, endian) ==
    LET at == AlignUp(p, w)
    IN  IF Fits(buf, at, w)
        THEN Ok(NumberOf(InOrder(Slice(buf, at, w), endian)), at + w) ELSE Crash
GetBool(buf, p, endian) ==
    Then(GetNumber(buf, p, 4, endian), LAMBDA r : Ok(IF r.val # 0 THEN 1 ELSE 0, r.p))
(* Mutant: the terminating NUL of a string is not skipped. *)
GetStringShort(buf, p, endian) ==
    Then(GetNumber(buf, p, 4, endian), LAMBDA len :
        IF Fits(buf, len.p, len.val) THEN Ok(Slice(buf, len.p, len.val), len.p + len.val)
        ELSE Crash)
GetString(buf, p, endian) ==
    Then(GetNumber(buf, p, 4, endian), LAMBDA len :
        IF Fits(buf, len.p, len.val + 1)
        THEN Ok(Slice(buf, len.p, len.val), len.p + len.val + 1) ELSE Crash)
(* The length byte is checked, the characters after it are not: beyond the  *)
(* data they are whatever the memory holds, here a crash.                   *)
GetSignature(buf, p) ==
    CASE ~Fits(buf, p, 1) -> Crash
      [] Fits(buf, p, 1) /\ ~Fits(buf, p + 1, buf[p + 1]) -> Crash
      [] OTHER -> Ok(Slice(buf, p + 1, buf[p + 1]), p + buf[p + 1] + 2)
-----------------------------------------------------------------------------
(* The basic types.  What the library appends is big endian on every        *)
(* machine; what it reads is in the byte order of the message.              *)

AppendNumber(buf, t, val) == PutNumber(buf, val, Width(t), "Big")
AppendString(buf, t, val) ==
    IF t = "g" THEN PutSignature(buf, val) ELSE PutString(buf, val, "Big")
(* VariantAppendIterator's operators of the basic types. *)
PutBasic(buf, t, val) ==
    IF t \in Numbers THEN AppendNumber(buf, t, val) ELSE AppendString(buf, t, val)

(* get_bool() ... get_string(), on a value of the type a. *)
GetExact(ctx, a, p) ==
    CASE a = "b" -> GetBool(ctx.bytes, p, ctx.endian)
      [] a \in Numbers \ {"b"} -> GetNumber(ctx.bytes, p, Width(a), ctx.endian)
      [] a \in Strings -> GetString(ctx.bytes, p, ctx.endian)
      [] a = "g" -> GetSignature(ctx.bytes, p)
=============================================================================
