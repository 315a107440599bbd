---------------------------- MODULE ParserProofs ----------------------------
(***************************************************************************)
(* Proofs for Startup, DocumentParser and Marshal: what the parser of      *)
(* addresses makes of any address, and what opening, authenticating and    *)
(* writing make of it; what the code generator makes of any readable       *)
(* document; and what demarshaling makes of marshaled basic values.        *)
(*                                                                         *)
(* An address is followed token by token: after the value of a pair the    *)
(* parser's configuration holds the newest pair of each key so far, and    *)
(* after a transport its list holds the transports so far.  Both are       *)
(* proved by induction on the length of what was read, with the set of the *)
(* lengths for which the claim holds (SetInduction).  The handshake is     *)
(* followed line by line, as long as each line of the server comes whole.  *)
(*                                                                         *)
(* A document is followed tag by tag.  What is remembered of the current   *)
(* interface is what was read since the open one began (InInterface), the  *)
(* current method and signal have the name of the open ones, and the node  *)
(* has the interfaces that ended (ReadInv).                                *)
(*                                                                         *)
(* Values are followed one by one: what is written grows at its end only,  *)
(* and each value is found where the buffer ended before it.               *)
(***************************************************************************)
EXTENDS Startup, DocumentParser, Marshal, SequenceTheorems, WellFoundedInduction, TLAPS

-----------------------------------------------------------------------------
(* Induction                                                               *)

(* Every set of numbers that is not empty has a least one. *)
LEMMA LeastNumber ==
    ASSUME NEW T, T \subseteq Nat, T # {}
    PROVE  \E x \in T : \A y \in T : x <= y
<1>1. \E x \in T : \A y \in T : ~ (<<y, x>> \in OpToRel(<, Nat))
    BY WFMin, NatLessThanWellFounded
<1>2. PICK x \in T : \A y \in T : ~ (<<y, x>> \in OpToRel(<, Nat))
    BY <1>1
<1>3. \A y \in T : ~ (y < x)
    <2> TAKE y \in T
    <2>1. <<y, x>> \in Nat \X Nat
        OBVIOUS
    <2>2. ~ (<<y, x>> \in OpToRel(<, Nat))
        BY <1>2
    <2> QED BY <2>1, <2>2 DEF OpToRel
<1> QED BY <1>3

(* A set of lengths that has 0 and goes on with each of them has them all. *)
LEMMA SetInduction ==
    ASSUME NEW n \in Nat, NEW S, 0 \in S, \A k \in 0 .. n - 1 : k \in S => k + 1 \in S
    PROVE  n \in S
<1> SUFFICES ASSUME n \notin S
             PROVE  FALSE
    OBVIOUS
<1> DEFINE T == {k \in 0 .. n : k \notin S}
<1>1. T \subseteq Nat /\ T # {}
    OBVIOUS
<1> HIDE DEF T
<1>2. PICK x \in T : \A y \in T : x <= y
    BY <1>1, LeastNumber
<1>3. x \in 1 .. n /\ x \notin S
    BY <1>2 DEF T
<1>4. x - 1 \in 0 .. n - 1 /\ x - 1 \notin T
    BY <1>1, <1>2, <1>3
<1>5. x - 1 \in S
    BY <1>4 DEF T
<1>6. (x - 1) + 1 \in S
    BY <1>4, <1>5
<1> QED BY <1>3, <1>6

-----------------------------------------------------------------------------
(* What ParseTransports makes of an address (parseTransports)              *)

(* The states the parser is in after each of the first k tokens of s. *)
IsParsing(p, s, k) ==
    p = [n \in 0 .. k |-> IF n = 0 THEN AtName(<<>>) ELSE ParseStep(s[n], p[n - 1])]
ParsingExists(s, k) == \E p : IsParsing(p, s, k)

(* There are such states of no token, and of one more. *)
LEMMA ParsingBegins == \A s : ParsingExists(s, 0)
<1> TAKE s
<1> DEFINE p == [n \in 0 .. 0 |-> AtName(<<>>)]
<1>1. IsParsing(p, s, 0)
    BY DEF IsParsing
<1> QED BY <1>1 DEF ParsingExists

LEMMA ParsingGoesOn ==
    ASSUME NEW s, NEW k \in Nat, ParsingExists(s, k)
    PROVE  ParsingExists(s, k + 1)
<1>1. PICK p : IsParsing(p, s, k)
    BY DEF ParsingExists
<1> DEFINE q == [n \in 0 .. k + 1 |-> IF n = k + 1 THEN ParseStep(s[k + 1], p[k]) ELSE p[n]]
<1>2. \A n \in 0 .. k : p[n] = IF n = 0 THEN AtName(<<>>) ELSE ParseStep(s[n], p[n - 1])
    BY <1>1 DEF IsParsing
<1>3. \A n \in 0 .. k + 1 : q[n] = IF n = 0 THEN AtName(<<>>) ELSE ParseStep(s[n], q[n - 1])
    <2> TAKE n \in 0 .. k + 1
    <2>1. CASE n = k + 1
        BY <2>1
    <2>2. CASE n # k + 1
        <3>1. n \in 0 .. k /\ (n # 0 => n - 1 \in 0 .. k)
            BY <2>2
        <3> QED BY <3>1, <1>2
    <2> QED BY <2>1, <2>2
<1>4. IsParsing(q, s, k + 1)
    BY <1>3 DEF IsParsing
<1> HIDE DEF q
<1> QED BY <1>4 DEF ParsingExists

(* The function Parsing is defined by recursion, and exists. *)
LEMMA ParsingDefined ==
    ASSUME NEW s, Len(s) \in Nat
    PROVE  /\ Parsing(s)[0] = AtName(<<>>)
           /\ \A n \in 1 .. Len(s) : Parsing(s)[n] = ParseStep(s[n], Parsing(s)[n - 1])
<1> DEFINE S == {k \in 0 .. Len(s) : ParsingExists(s, k)}
<1>1. 0 \in S
    BY ParsingBegins
<1>2. \A k \in 0 .. Len(s) - 1 : k \in S => k + 1 \in S
    BY ParsingGoesOn
<1> HIDE DEF S
<1>3. Len(s) \in S
    BY <1>1, <1>2, SetInduction
<1>4. \E q : IsParsing(q, s, Len(s))
    BY <1>3 DEF S, ParsingExists
<1> DEFINE p == Parsing(s)
<1>5. IsParsing(p, s, Len(s))
    BY <1>4 DEF Parsing, IsParsing
<1> HIDE DEF p
<1>6. \A n \in 0 .. Len(s) : p[n] = IF n = 0 THEN AtName(<<>>) ELSE ParseStep(s[n], p[n - 1])
    BY <1>5 DEF IsParsing
<1> QED BY <1>6 DEF p

(* What the parser has after the whole of a sequence of tokens. *)
Parsed(s) == Parsing(s)[Len(s)]

(* Before the first token, and one token later. *)
LEMMA ParsedNothing == Parsed(<<>>) = AtName(<<>>)
<1>1. Len(<<>>) = 0
    OBVIOUS
<1> QED BY <1>1, ParsingDefined DEF Parsed

LEMMA ParsedAppend ==
    ASSUME NEW T, NEW s \in Seq(T), NEW c \in T
    PROVE  Parsed(Append(s, c)) = ParseStep(c, Parsed(s))
<1> DEFINE w == Append(s, c)
           S == {k \in 0 .. Len(s) : Parsing(w)[k] = Parsing(s)[k]}
<1>1. Len(w) = Len(s) + 1 /\ Len(s) \in Nat /\ w[Len(s) + 1] = c
        /\ \A k \in 1 .. Len(s) : w[k] = s[k]
    OBVIOUS
<1> HIDE DEF w
<1>8. \A k \in 1 .. Len(w) : Parsing(w)[k] = ParseStep(w[k], Parsing(w)[k - 1])
    <2>1. Len(w) \in Nat
        BY <1>1
    <2> QED BY <2>1, ParsingDefined
<1>9. \A k \in 1 .. Len(s) : Parsing(s)[k] = ParseStep(s[k], Parsing(s)[k - 1])
    BY <1>1, ParsingDefined
<1>2. 0 \in S
    BY <1>1, ParsingDefined
<1>3. ASSUME NEW k \in 0 .. Len(s) - 1, k \in S
      PROVE  k + 1 \in S
    <2>1. k + 1 \in 1 .. Len(s) /\ k + 1 \in 1 .. Len(w) /\ (k + 1) - 1 = k
        BY <1>1
    <2>2. Parsing(w)[k + 1] = ParseStep(w[k + 1], Parsing(w)[k])
        BY <2>1, <1>8
    <2>3. Parsing(s)[k + 1] = ParseStep(s[k + 1], Parsing(s)[k])
        BY <2>1, <1>9
    <2> QED BY <1>1, <1>3, <2>1, <2>2, <2>3
<1> HIDE DEF S
<1>4. Len(s) \in S
    BY <1>1, <1>2, <1>3, SetInduction
<1>5. Parsing(w)[Len(s)] = Parsing(s)[Len(s)]
    BY <1>4 DEF S
<1>6. Parsing(w)[Len(s) + 1] = ParseStep(w[Len(s) + 1], Parsing(w)[(Len(s) + 1) - 1])
    BY <1>1, <1>8
<1>7. (Len(s) + 1) - 1 = Len(s)
    BY <1>1
<1> QED BY <1>1, <1>5, <1>6, <1>7 DEF Parsed, w

-----------------------------------------------------------------------------
(* FlattenSeq, of sequences over a set. *)
Joins(g, ss, k) ==
    /\ g[1] = ss[1]
    /\ \A i \in 2 .. k : g[i] = g[i - 1] \o ss[i]
Flattening(g, ss, k) ==
    g = [i \in 1 .. k |-> IF i = 1 THEN ss[i] ELSE g[i - 1] \o ss[i]]
FlatteningExists(ss, k) == k = 0 \/ \E g : Flattening(g, ss, k)

(* There are such sequences of one part, and of one more. *)
LEMMA FlatteningBegins == \A ss : FlatteningExists(ss, 1)
<1> TAKE ss
<1> DEFINE g == [i \in 1 .. 1 |-> ss[1]]
<1>1. Flattening(g, ss, 1)
    BY DEF Flattening
<1> QED BY <1>1 DEF FlatteningExists

LEMMA FlatteningGoesOn ==
    ASSUME NEW ss, NEW k \in Nat, FlatteningExists(ss, k)
    PROVE  FlatteningExists(ss, k + 1)
<1>0. CASE k = 0
    BY <1>0, FlatteningBegins
<1>4. CASE k # 0
    <2>1. PICK g : Flattening(g, ss, k)
        BY <1>4 DEF FlatteningExists
    <2> DEFINE q == [n \in 1 .. k + 1 |-> IF n = k + 1 THEN g[k] \o ss[k + 1] ELSE g[n]]
    <2>2. \A n \in 1 .. k : g[n] = IF n = 1 THEN ss[n] ELSE g[n - 1] \o ss[n]
        BY <2>1 DEF Flattening
    <2>3. \A n \in 1 .. k + 1 : q[n] = IF n = 1 THEN ss[n] ELSE q[n - 1] \o ss[n]
        <3> TAKE n \in 1 .. k + 1
        <3>1. CASE n = k + 1
            <4>1. n # 1 /\ n - 1 = k /\ k \in 1 .. k + 1 /\ k # k + 1
                BY <3>1, <1>4
            <4>2. q[n] = g[k] \o ss[k + 1]
                BY <3>1
            <4>3. q[k] = g[k]
                BY <4>1
            <4> QED BY <3>1, <4>1, <4>2, <4>3
        <3>2. CASE n # k + 1
            <4>1. n \in 1 .. k /\ (n # 1 => n - 1 \in 1 .. k)
                BY <3>2
            <4> QED BY <4>1, <2>2
        <3> QED BY <3>1, <3>2
    <2>4. Flattening(q, ss, k + 1)
        BY <2>3 DEF Flattening
    <2> HIDE DEF q
    <2> QED BY <2>4 DEF FlatteningExists
<1> QED BY <1>0, <1>4

(* The sequences it is built from. *)
LEMMA Flattened ==
    ASSUME NEW ss, Len(ss) \in Nat \ {0}
    PROVE  \E g : Joins(g, ss, Len(ss)) /\ FlattenSeq(ss) = g[Len(ss)]
<1> DEFINE S == {k \in 0 .. Len(ss) : FlatteningExists(ss, k)}
<1>1. 0 \in S
    BY DEF FlatteningExists
<1>2. \A k \in 0 .. Len(ss) - 1 : k \in S => k + 1 \in S
    BY FlatteningGoesOn
<1> HIDE DEF S
<1>3. Len(ss) \in S
    BY <1>1, <1>2, SetInduction
<1>4. \E q : Flattening(q, ss, Len(ss))
    BY <1>3 DEF S, FlatteningExists
<1> DEFINE g == CHOOSE q : Flattening(q, ss, Len(ss))
<1>5. Flattening(g, ss, Len(ss))
    BY <1>4
<1>6. FlattenSeq(ss) = g[Len(ss)]
    BY DEF FlattenSeq, Flattening
<1> HIDE DEF g
<1>7. ASSUME NEW m \in Nat, Flattening(g, ss, m)
      PROVE  \A i \in 1 .. m : g[i] = IF i = 1 THEN ss[i] ELSE g[i - 1] \o ss[i]
    BY <1>7 DEF Flattening
<1>8. ASSUME NEW m \in Nat \ {0}, Flattening(g, ss, m)
      PROVE  Joins(g, ss, m)
    <2>1. g[1] = ss[1]
        BY <1>7, <1>8
    <2>2. ASSUME NEW i \in 2 .. m
          PROVE  g[i] = g[i - 1] \o ss[i]
        <3>1. i \in 1 .. m /\ i # 1
            BY <2>2
        <3> QED BY <3>1, <1>7, <1>8
    <2> QED BY <2>1, <2>2 DEF Joins
<1> QED BY <1>5, <1>6, <1>8

-----------------------------------------------------------------------------
(* Two and three tokens later. *)
LEMMA AppendTwo ==
    ASSUME NEW T, NEW s \in Seq(T), NEW a \in T, NEW b \in T
    PROVE  /\ s \o <<a, b>> \in Seq(T)
           /\ Parsed(s \o <<a, b>>) = ParseStep(b, ParseStep(a, Parsed(s)))
<1>1. Append(s, a) \in Seq(T)
    OBVIOUS
<1>2. s \o <<a, b>> = Append(Append(s, a), b)
    OBVIOUS
<1>3. Parsed(Append(s, a)) = ParseStep(a, Parsed(s))
    BY ParsedAppend
<1>4. Parsed(Append(Append(s, a), b)) = ParseStep(b, Parsed(Append(s, a)))
    BY <1>1, ParsedAppend
<1>5. s \o <<a, b>> \in Seq(T)
    OBVIOUS
<1> QED BY <1>2, <1>3, <1>4, <1>5

LEMMA AppendThree ==
    ASSUME NEW T, NEW s \in Seq(T), NEW a \in T, NEW b \in T, NEW c \in T
    PROVE  /\ s \o <<a, b, c>> \in Seq(T)
           /\ Parsed(s \o <<a, b, c>>) = ParseStep(c, ParseStep(b, ParseStep(a, Parsed(s))))
<1>1. s \o <<a, b>> \in Seq(T)
    OBVIOUS
<1>2. s \o <<a, b, c>> = Append(s \o <<a, b>>, c)
    OBVIOUS
<1>3. Parsed(s \o <<a, b>>) = ParseStep(b, ParseStep(a, Parsed(s)))
    BY AppendTwo
<1>4. Parsed(Append(s \o <<a, b>>, c)) = ParseStep(c, Parsed(s \o <<a, b>>))
    BY <1>1, ParsedAppend
<1>5. s \o <<a, b, c>> \in Seq(T)
    OBVIOUS
<1> QED BY <1>2, <1>3, <1>4, <1>5

(* A configuration has the newest of the first j pairs of each key. *)
Giving(pairs, j, key) == {k \in 1 .. j : pairs[k].key = key}
Holds(config, pairs, j) ==
    \A key :
        \/ Giving(pairs, j, key) = {} /\ Lookup(config, <<key>>) = <<>>
        \/ \E k \in Giving(pairs, j, key) :
              /\ \A l \in Giving(pairs, j, key) : l <= k
              /\ Lookup(config, <<key>>) = <<pairs[k].value>>

(* An empty configuration, and one with one pair more. *)
LEMMA HoldsNothing ==
    ASSUME NEW pairs
    PROVE  /\ Holds(NoConfig, pairs, 0)
           /\ Holds(With(NoConfig, <<>>, <<>>), pairs, 0)
<1>1. \A key : Giving(pairs, 0, key) = {}
    BY DEF Giving
<1>2. \A key : <<key>> # <<>>
    OBVIOUS
<1> QED BY <1>1, <1>2 DEF Holds, NoConfig, With, Lookup

LEMMA HoldsOneMore ==
    ASSUME NEW pairs, NEW j \in Nat, NEW c, Holds(c, pairs, j)
    PROVE  Holds(With(c, <<pairs[j + 1].key>>, <<pairs[j + 1].value>>), pairs, j + 1)
<1> DEFINE d == With(c, <<pairs[j + 1].key>>, <<pairs[j + 1].value>>)
<1> SUFFICES ASSUME NEW key
             PROVE  \/ Giving(pairs, j + 1, key) = {} /\ Lookup(d, <<key>>) = <<>>
                    \/ \E k \in Giving(pairs, j + 1, key) :
                          /\ \A l \in Giving(pairs, j + 1, key) : l <= k
                          /\ Lookup(d, <<key>>) = <<pairs[k].value>>
    BY DEF Holds
<1>1. CASE key = pairs[j + 1].key
    <2>1. j + 1 \in Giving(pairs, j + 1, key) /\ \A l \in Giving(pairs, j + 1, key) : l <= j + 1
        BY <1>1 DEF Giving
    <2>2. Lookup(d, <<key>>) = <<pairs[j + 1].value>>
        BY <1>1 DEF Lookup, With
    <2> QED BY <2>1, <2>2
<1>2. CASE key # pairs[j + 1].key
    <2>1. Giving(pairs, j + 1, key) = Giving(pairs, j, key)
        BY <1>2 DEF Giving
    <2>2. <<key>> # <<pairs[j + 1].key>>
        BY <1>2
    <2>3. Lookup(d, <<key>>) = Lookup(c, <<key>>)
        BY <2>2 DEF Lookup, With
    <2> QED BY <2>1, <2>3 DEF Holds
<1> QED BY <1>1, <1>2

-----------------------------------------------------------------------------
(* Pairs, and transports                                                   *)

(* The parser is in the value of the j-th pair of t. *)
InValue(p, t, j, out) ==
    \E c : /\ Holds(c, t.pairs, j - 1)
          /\ p = [state |-> "value", name |-> <<t.name>>, key |-> <<t.pairs[j].key>>,
                  value |-> <<t.pairs[j].value>>, config |-> c, out |-> out]
(* The parser is in the key that follows the j-th pair of t. *)
AfterPair(p, t, j, out) ==
    \E c : /\ Holds(c, t.pairs, j)
          /\ p = [state |-> "key", name |-> <<t.name>>, key |-> <<>>, value |-> <<>>,
                  config |-> c, out |-> out]
InKey(p, t, out) ==
    p = [state |-> "key", name |-> <<t.name>>, key |-> <<>>, value |-> <<>>,
         config |-> NoConfig, out |-> out]

(* The pairs of a transport are pairs. *)
LEMMA PairIsPair ==
    ASSUME NEW t \in Transports, NEW j \in 1 .. Len(t.pairs)
    PROVE  t.pairs[j] \in Pairs
<1>1. t.pairs \in Seq(Pairs)
    BY DEF Transports
<1> QED BY <1>1

Comma == ","
Semicolon == ";"
(* What an address is written with. *)
Text == STRING \cup {":", "=", ",", ";"}

(* A name and its colon lead to the first key. *)
LEMMA NameParsed ==
    ASSUME NEW s \in Seq(Text), NEW out, Parsed(s) = AtName(out), NEW t \in Transports
    PROVE  /\ s \o <<t.name, ":">> \in Seq(Text)
           /\ InKey(Parsed(s \o <<t.name, ":">>), t, out)
<1>1. t.name \in STRING /\ t.name # ":"
    BY DEF Transports, Tokens
<1>2. ParseStep(t.name, AtName(out)) = [AtName(out) EXCEPT !.name = <<t.name>>]
    BY <1>1 DEF ParseStep, AtName
<1>3. InKey(ParseStep(":", ParseStep(t.name, AtName(out))), t, out)
    BY <1>2 DEF InKey, ParseStep, AtName
<1>4. t.name \in Text /\ ":" \in Text
    BY <1>1 DEF Text
<1>5. /\ Parsed(s \o <<t.name, ":">>) = ParseStep(":", ParseStep(t.name, Parsed(s)))
      /\ s \o <<t.name, ":">> \in Seq(Text)
    BY <1>4, AppendTwo
<1> QED BY <1>3, <1>5

(* A key, the equals sign and a value lead to the end of that value. *)
LEMMA PairParsed ==
    ASSUME NEW t \in Transports, NEW j \in 1 .. Len(t.pairs), NEW c, NEW out, NEW p,
           Holds(c, t.pairs, j - 1),
           p = [state |-> "key", name |-> <<t.name>>, key |-> <<>>, value |-> <<>>,
                config |-> c, out |-> out]
    PROVE  InValue(ParseStep(t.pairs[j].value, ParseStep("=", ParseStep(t.pairs[j].key, p))),
                   t, j, out)
<1>1. /\ t.pairs[j].key # "="
      /\ t.pairs[j].value # "," /\ t.pairs[j].value # ";"
    BY PairIsPair DEF Pairs, Tokens
<1> DEFINE q == ParseStep(t.pairs[j].key, p)
<1>2. q = [state |-> "key", name |-> <<t.name>>, key |-> <<t.pairs[j].key>>, value |-> <<>>,
           config |-> c, out |-> out]
    <2>1. Append(<<>>, t.pairs[j].key) = <<t.pairs[j].key>>
        OBVIOUS
    <2> QED BY <1>1, <2>1 DEF ParseStep
<1> HIDE DEF q
<1>3. ParseStep("=", q) =
          [state |-> "value", name |-> <<t.name>>, key |-> <<t.pairs[j].key>>, value |-> <<>>,
           config |-> c, out |-> out]
    BY <1>2 DEF ParseStep
<1>4. ParseStep(t.pairs[j].value, ParseStep("=", q))
        = [state |-> "value", name |-> <<t.name>>, key |-> <<t.pairs[j].key>>,
           value |-> <<t.pairs[j].value>>, config |-> c, out |-> out]
    <2>1. Append(<<>>, t.pairs[j].value) = <<t.pairs[j].value>>
        OBVIOUS
    <2> QED BY <1>1, <1>3, <2>1 DEF ParseStep
<1> QED BY <1>4 DEF InValue, q

(* A comma adds the pair to the configuration. *)
LEMMA CommaParsed ==
    ASSUME NEW t \in Transports, NEW j \in 1 .. Len(t.pairs), NEW out, NEW p,
           InValue(p, t, j, out)
    PROVE  AfterPair(ParseStep(",", p), t, j, out)
<1>1. PICK c : /\ Holds(c, t.pairs, j - 1)
               /\ p = [state |-> "value", name |-> <<t.name>>, key |-> <<t.pairs[j].key>>,
                       value |-> <<t.pairs[j].value>>, config |-> c, out |-> out]
    BY DEF InValue
<1> DEFINE d == With(c, <<t.pairs[j].key>>, <<t.pairs[j].value>>)
<1>2. ParseStep(",", p) = [state |-> "key", name |-> <<t.name>>, key |-> <<>>,
                           value |-> <<>>, config |-> d, out |-> out]
    BY <1>1 DEF ParseStep
<1>3. Holds(d, t.pairs, j)
    <2>1. j - 1 \in Nat /\ (j - 1) + 1 = j
        OBVIOUS
    <2> QED BY <1>1, <2>1, HoldsOneMore
<1> HIDE DEF d
<1> QED BY <1>2, <1>3 DEF AfterPair

(* Facts about the types of sequences. *)
LEMMA LenIsNatural == ASSUME NEW S, NEW s \in Seq(S) PROVE Len(s) \in Nat
OBVIOUS

(* What the parser has after a transport: at the separator, or at the end of *)
(* the address, it will finish it with these pairs.                         *)
Read(p, t, out) ==
    /\ p.name = <<t.name>> /\ p.out = out
    /\ t.pairs # <<>> => p.state = "value"
    /\ Holds(With(p.config, p.key, p.value), t.pairs, Len(t.pairs))

WrittenPair(pair) == <<pair.key, "=", pair.value>>

LEMMA ThreeTokens == ASSUME NEW T, NEW a \in T, NEW b \in T, NEW c \in T
                     PROVE  <<a, b, c>> \in Seq(T)
OBVIOUS

(* A pair is written with three tokens. *)
LEMMA PairIsText ==
    ASSUME NEW t \in Transports, NEW j \in 1 .. Len(t.pairs)
    PROVE  /\ t.pairs[j].key \in Text /\ t.pairs[j].value \in Text
           /\ WrittenPair(t.pairs[j]) \in Seq(Text)
<1>1. t.pairs[j].key \in Text /\ t.pairs[j].value \in Text /\ "=" \in Text
    BY PairIsPair DEF Pairs, Tokens, Text
<1>2. <<t.pairs[j].key, "=", t.pairs[j].value>> \in Seq(Text)
    BY <1>1, ThreeTokens
<1> QED BY <1>1, <1>2 DEF WrittenPair

(* A pair is read from any sequence before it. *)
LEMMA AppendPair ==
    ASSUME NEW s \in Seq(Text), NEW t \in Transports, NEW j \in 1 .. Len(t.pairs)
    PROVE  /\ s \o WrittenPair(t.pairs[j]) \in Seq(Text)
           /\ Parsed(s \o WrittenPair(t.pairs[j])) =
                ParseStep(t.pairs[j].value, ParseStep("=", ParseStep(t.pairs[j].key, Parsed(s))))
<1>1. "=" \in Text
    BY DEF Text
<1> QED BY <1>1, PairIsText, AppendThree DEF WrittenPair

(* One pair after the name, and one after a comma. *)
LEMMA FirstPair ==
    ASSUME NEW s \in Seq(Text), NEW t \in Transports, NEW out, t.pairs # <<>>,
           InKey(Parsed(s), t, out)
    PROVE  /\ s \o WrittenPair(t.pairs[1]) \in Seq(Text)
           /\ InValue(Parsed(s \o WrittenPair(t.pairs[1])), t, 1, out)
<1>1. t.pairs \in Seq(Pairs)
    BY DEF Transports
<1>2. 1 \in 1 .. Len(t.pairs)
    BY <1>1
<1>3. t.pairs[1].key \in Text /\ t.pairs[1].value \in Text /\ "=" \in Text
    BY <1>2, PairIsPair DEF Pairs, Tokens, Text
<1>4. Holds(NoConfig, t.pairs, 1 - 1)
    BY HoldsNothing
<1>5. InValue(ParseStep(t.pairs[1].value, ParseStep("=", ParseStep(t.pairs[1].key, Parsed(s)))),
              t, 1, out)
    BY <1>2, <1>4, PairParsed DEF InKey
<1> QED BY <1>3, <1>5, AppendThree DEF WrittenPair

(* One token between two sequences. *)
LEMMA AppendOne ==
    ASSUME NEW T, NEW s \in Seq(T), NEW c \in T, NEW u \in Seq(T)
    PROVE  /\ Append(s, c) \in Seq(T) /\ <<c>> \o u \in Seq(T)
           /\ s \o (<<c>> \o u) = Append(s, c) \o u
           /\ Parsed(Append(s, c)) = ParseStep(c, Parsed(s))
<1>1. Append(s, c) \in Seq(T) /\ <<c>> \o u \in Seq(T)
    OBVIOUS
<1>2. s \o (<<c>> \o u) = Append(s, c) \o u
    OBVIOUS
<1> QED BY <1>1, <1>2, ParsedAppend

(* A pair after a separator, and after a comma. *)
LEMMA PairAfter ==
    ASSUME NEW s \in Seq(Text), NEW t \in Transports, NEW out, NEW j \in 1 .. Len(t.pairs),
           NEW separator \in Text, AfterPair(ParseStep(separator, Parsed(s)), t, j - 1, out)
    PROVE  /\ s \o (<<separator>> \o WrittenPair(t.pairs[j])) \in Seq(Text)
           /\ InValue(Parsed(s \o (<<separator>> \o WrittenPair(t.pairs[j]))), t, j, out)
<1> DEFINE r == Append(s, separator)
           u == WrittenPair(t.pairs[j])
<1>2. u \in Seq(Text)
    BY PairIsText
<1> HIDE DEF u
<1>3. /\ r \in Seq(Text)
      /\ s \o (<<separator>> \o u) = r \o u
      /\ Parsed(r) = ParseStep(separator, Parsed(s))
    BY <1>2, AppendOne
<1> HIDE DEF r
<1>6. InValue(ParseStep(t.pairs[j].value, ParseStep("=", ParseStep(t.pairs[j].key, Parsed(r)))),
              t, j, out)
    BY <1>3, PairParsed DEF AfterPair
<1>7. r \o u \in Seq(Text) /\ InValue(Parsed(r \o u), t, j, out)
    BY <1>3, <1>6, AppendPair DEF u
<1> QED BY <1>3, <1>7 DEF u

LEMMA PairsOf == ASSUME NEW t \in Transports
                 PROVE  t.pairs \in Seq(Pairs) /\ Len(t.pairs) \in Nat
<1>1. t.pairs \in Seq(Pairs)
    BY DEF Transports
<1> QED BY <1>1

LEMMA NextPair ==
    ASSUME NEW s \in Seq(Text), NEW t \in Transports, NEW out, NEW j \in 2 .. Len(t.pairs),
           InValue(Parsed(s), t, j - 1, out)
    PROVE  /\ s \o (<<Comma>> \o WrittenPair(t.pairs[j])) \in Seq(Text)
           /\ InValue(Parsed(s \o (<<Comma>> \o WrittenPair(t.pairs[j]))), t, j, out)
<1>1. j \in 1 .. Len(t.pairs) /\ j - 1 \in 1 .. Len(t.pairs)
    BY PairsOf
<1>2. AfterPair(ParseStep(Comma, Parsed(s)), t, j - 1, out)
    BY <1>1, CommaParsed DEF Comma
<1>3. Comma \in Text
    BY DEF Text, Comma
<1> QED BY <1>1, <1>2, <1>3, PairAfter

Parts(parts, separator) ==
    [i \in DOMAIN parts |-> (IF i = 1 THEN <<>> ELSE <<separator>>) \o parts[i]]

(* What the pairs of a transport are written as is read pair by pair. *)
LEMMA PairsRead ==
    ASSUME NEW s \in Seq(Text), NEW t \in Transports, NEW out, InKey(Parsed(s), t, out),
           t.pairs # <<>>, NEW g, Joins(g, Parts(WrittenPairs(t.pairs), Comma), Len(t.pairs))
    PROVE  /\ g[Len(t.pairs)] \in Seq(Text)
           /\ InValue(Parsed(s \o g[Len(t.pairs)]), t, Len(t.pairs), out)
<1> DEFINE L == Len(t.pairs)
           ss == Parts(WrittenPairs(t.pairs), Comma)
           Good(k) == g[k] \in Seq(Text) /\ InValue(Parsed(s \o g[k]), t, k, out)
           S == {k \in 0 .. L : k = 0 \/ Good(k)}
<1>1. L \in Nat \ {0} /\ t.pairs \in Seq(Pairs) /\ DOMAIN t.pairs = 1 .. L
    BY PairsOf
<1>2. ss[1] = WrittenPair(t.pairs[1])
      /\ \A k \in 2 .. L : ss[k] = <<Comma>> \o WrittenPair(t.pairs[k])
    <2>1. \A k \in 1 .. L : ss[k] = (IF k = 1 THEN <<>> ELSE <<Comma>>) \o WrittenPair(t.pairs[k])
        BY <1>1 DEF Parts, WrittenPairs, WrittenPair
    <2> HIDE DEF ss
    <2>2. <<>> \o WrittenPair(t.pairs[1]) = WrittenPair(t.pairs[1])
        BY <1>1, PairIsText
    <2>3. ss[1] = <<>> \o WrittenPair(t.pairs[1])
        <3>1. 1 \in 1 .. L
            BY <1>1
        <3> HIDE DEF L
        <3>2. ss[1] = (IF 1 = 1 THEN <<>> ELSE <<Comma>>) \o WrittenPair(t.pairs[1])
            BY <2>1, <3>1
        <3> QED BY <3>2
    <2>4. ASSUME NEW k \in 2 .. L
          PROVE  ss[k] = <<Comma>> \o WrittenPair(t.pairs[k])
        <3>1. k \in 1 .. L /\ k # 1
            BY <1>1
        <3> QED BY <2>1, <3>1
    <2> QED BY <2>2, <2>3, <2>4
<1>3. g[1] = ss[1] /\ \A k \in 2 .. L : g[k] = g[k - 1] \o ss[k]
    BY DEF Joins
<1> HIDE DEF L, ss
<1>4. Good(1)
    BY <1>1, <1>2, <1>3, FirstPair, PairIsText DEF L
<1>5. ASSUME NEW k \in 2 .. L, Good(k - 1)
      PROVE  Good(k)
    <2> DEFINE h == g[k - 1]
               u == <<Comma>> \o WrittenPair(t.pairs[k])
    <2>1. h \in Seq(Text) /\ InValue(Parsed(s \o h), t, k - 1, out)
        BY <1>5
    <2>2. u \in Seq(Text)
        <3>1. Comma \in Text
            BY DEF Text, Comma
        <3>2. WrittenPair(t.pairs[k]) \in Seq(Text)
            BY <1>1, PairIsText DEF L
        <3> QED BY <3>1, <3>2, AppendOne
    <2>3. g[k] = h \o u
        BY <1>2, <1>3
    <2> HIDE DEF h
    <2>4. s \o h \in Seq(Text)
        BY <2>1
    <2>5. InValue(Parsed((s \o h) \o u), t, k, out)
        BY <2>1, <2>4, NextPair DEF L
    <2> HIDE DEF u
    <2>6. (s \o h) \o u = s \o (h \o u) /\ h \o u \in Seq(Text)
        BY <2>1, <2>2
    <2> QED BY <2>3, <2>5, <2>6
<1> HIDE DEF Good
<1>6. 0 \in S
    BY <1>1
<1>7. ASSUME NEW k \in 0 .. L - 1, k \in S
      PROVE  k + 1 \in S
    <2>1. CASE k = 0
        BY <1>1, <1>4, <2>1
    <2>2. CASE k # 0
        <3>1. k + 1 \in 2 .. L /\ (k + 1) - 1 = k
            BY <1>1, <2>2
        <3>2. Good((k + 1) - 1)
            BY <1>7, <2>2, <3>1
        <3>3. Good(k + 1)
            BY <1>5, <3>1, <3>2
        <3> QED BY <3>1, <3>3
    <2> QED BY <2>1, <2>2
<1> HIDE DEF S
<1>8. L \in S
    BY <1>1, <1>6, <1>7, SetInduction
<1> QED BY <1>1, <1>8 DEF S, Good, L

(* A transport, with or without pairs, is read to its end. *)
LEMMA TransportParsed ==
    ASSUME NEW s \in Seq(Text), NEW out, Parsed(s) = AtName(out), NEW t \in Transports
    PROVE  /\ WrittenTransport(t) \in Seq(Text)
           /\ Read(Parsed(s \o WrittenTransport(t)), t, out)
<1> DEFINE n == <<t.name, ":">>
           r == s \o n
           ss == Parts(WrittenPairs(t.pairs), Comma)
<1>1. n \in Seq(Text)
    <2>1. t.name \in Text /\ ":" \in Text
        BY DEF Transports, Tokens, Text
    <2> QED BY <2>1
<1>2. r \in Seq(Text) /\ InKey(Parsed(r), t, out)
    BY NameParsed
<1>3. WrittenTransport(t) = n \o FlattenSeq(ss)
    BY DEF WrittenTransport, Joined, Parts, Comma
<1>4. t.pairs \in Seq(Pairs) /\ Len(t.pairs) \in Nat /\ DOMAIN t.pairs = 1 .. Len(t.pairs)
        /\ Len(ss) = Len(t.pairs)
    BY PairsOf DEF Parts, WrittenPairs
<1> HIDE DEF n, r
<1>5. CASE t.pairs = <<>>
    <2>1. FlattenSeq(ss) = <<>>
        BY <1>5 DEF FlattenSeq, Parts, WrittenPairs
    <2>2. WrittenTransport(t) = n /\ s \o n = r
        BY <1>1, <1>3, <2>1 DEF r
    <2>3. Read(Parsed(r), t, out)
        <3>1. Holds(With(NoConfig, <<>>, <<>>), t.pairs, 0)
            BY HoldsNothing
        <3> QED BY <1>2, <1>5, <3>1 DEF InKey, Read
    <2> QED BY <1>1, <2>2, <2>3
<1>6. CASE t.pairs # <<>>
    <2>1. Len(t.pairs) \in Nat \ {0}
        BY <1>4, <1>6
    <2>2. PICK g : Joins(g, ss, Len(t.pairs)) /\ FlattenSeq(ss) = g[Len(t.pairs)]
        BY <1>4, <2>1, Flattened
    <2> DEFINE f == g[Len(t.pairs)]
    <2>3. f \in Seq(Text) /\ InValue(Parsed(r \o f), t, Len(t.pairs), out)
        BY <1>2, <1>6, <2>2, PairsRead
    <2> HIDE DEF f
    <2>4. n \o f \in Seq(Text) /\ s \o (n \o f) = r \o f
        BY <1>1, <2>3 DEF r
    <2>5. WrittenTransport(t) = n \o f
        BY <1>3, <2>2 DEF f
    <2>6. Read(Parsed(r \o f), t, out)
        <3> DEFINE p == Parsed(r \o f)
                   j == Len(t.pairs)
        <3>1. PICK c : /\ Holds(c, t.pairs, j - 1)
                       /\ p = [state |-> "value", name |-> <<t.name>>, key |-> <<t.pairs[j].key>>,
                               value |-> <<t.pairs[j].value>>, config |-> c, out |-> out]
            BY <2>3 DEF InValue
        <3>2. Holds(With(c, <<t.pairs[j].key>>, <<t.pairs[j].value>>), t.pairs, j)
            <4>1. j - 1 \in Nat /\ (j - 1) + 1 = j /\ j \in 1 .. Len(t.pairs)
                BY <2>1
            <4> QED BY <3>1, <4>1, HoldsOneMore
        <3> QED BY <3>1, <3>2 DEF Read
    <2> QED BY <2>4, <2>5, <2>6
<1> QED BY <1>5, <1>6

-----------------------------------------------------------------------------
(* Whole addresses *)
(* out has what the first n transports of ts say. *)
IsSeq(out) == \E S : out \in Seq(S)
ReadAs(out, ts, n) ==
    /\ IsSeq(out) /\ Len(out) = n
    /\ \A k \in 1 .. n : /\ out[k].name = <<ts[k].name>>
                         /\ Holds(out[k].config, ts[k].pairs, Len(ts[k].pairs))

(* The transport that was read is added at its end, ... *)
LEMMA OneMoreRead ==
    ASSUME NEW ts, NEW n \in Nat, NEW out, ReadAs(out, ts, n),
           NEW p, Read(p, ts[n + 1], out)
    PROVE  ReadAs(Append(out, Finished(p)), ts, n + 1)
<1>1. PICK S : out \in Seq(S)
    BY DEF ReadAs, IsSeq
<1> DEFINE f == Finished(p)
           T == S \cup {f}
<1>2. f.name = <<ts[n + 1].name>> /\ Holds(f.config, ts[n + 1].pairs, Len(ts[n + 1].pairs))
    BY DEF Finished, Read
<1> HIDE DEF f
<1>3. out \in Seq(T) /\ f \in T
    <2>1. S \subseteq T
        OBVIOUS
    <2> QED BY <1>1, <2>1, SeqMonotonic
<1> HIDE DEF T
<1>4. /\ Append(out, f) \in Seq(T) /\ Len(Append(out, f)) = n + 1
      /\ \A k \in 1 .. n : Append(out, f)[k] = out[k]
      /\ Append(out, f)[n + 1] = f
    BY <1>3, AppendProperties DEF ReadAs
<1>5. ASSUME NEW k \in 1 .. n + 1
      PROVE  /\ Append(out, f)[k].name = <<ts[k].name>>
             /\ Holds(Append(out, f)[k].config, ts[k].pairs, Len(ts[k].pairs))
    <2>1. CASE k = n + 1
        BY <1>2, <1>4, <2>1
    <2>2. CASE k # n + 1
        <3>1. k \in 1 .. n
            BY <2>2
        <3> QED BY <1>4, <3>1 DEF ReadAs
    <2> QED BY <2>1, <2>2
<1> QED BY <1>4, <1>5 DEF ReadAs, IsSeq, f

(* ... which is at a semicolon ... *)
LEMMA SemicolonParsed ==
    ASSUME NEW p, NEW t, t.pairs # <<>>, NEW out, Read(p, t, out)
    PROVE  ParseStep(Semicolon, p) = AtName(Append(out, Finished(p)))
BY DEF Read, ParseStep, Semicolon

(* ... or at the end of the address. *)
LEMMA TransportsRead ==
    ASSUME NEW ts, IsAddress(ts), ts # <<>>, NEW g,
           Joins(g, Parts([i \in DOMAIN ts |-> WrittenTransport(ts[i])], Semicolon), Len(ts))
    PROVE  /\ g[Len(ts)] \in Seq(Text)
           /\ \E out : ReadAs(out, ts, Len(ts) - 1)
                     /\ Read(Parsed(g[Len(ts)]), ts[Len(ts)], out)
<1> DEFINE L == Len(ts)
           ss == Parts([i \in DOMAIN ts |-> WrittenTransport(ts[i])], Semicolon)
           W(k) == WrittenTransport(ts[k])
           Good(k) == g[k] \in Seq(Text)
                        /\ \E out : ReadAs(out, ts, k - 1) /\ Read(Parsed(g[k]), ts[k], out)
           S == {k \in 0 .. L : k = 0 \/ Good(k)}
<1>1. L \in Nat \ {0} /\ DOMAIN ts = 1 .. L /\ \A k \in 1 .. L : ts[k] \in Transports
    BY DEF IsAddress
<1>9. <<>> \in Seq(Text) /\ Parsed(<<>>) = AtName(<<>>)
    BY ParsedNothing
<1>10. \A k \in 1 .. L : W(k) \in Seq(Text)
    BY <1>1, <1>9, TransportParsed
<1>2. ss[1] = W(1) /\ \A k \in 2 .. L : ss[k] = <<Semicolon>> \o W(k)
    <2>1. \A k \in 1 .. L : ss[k] = (IF k = 1 THEN <<>> ELSE <<Semicolon>>) \o W(k)
        BY <1>1 DEF Parts
    <2> HIDE DEF ss, L, W
    <2>2. 1 \in 1 .. L
        BY <1>1
    <2>3. <<>> \o W(1) = W(1)
        BY <1>10, <2>2
    <2>4. ss[1] = (IF 1 = 1 THEN <<>> ELSE <<Semicolon>>) \o W(1)
        BY <2>1, <2>2
    <2>5. ASSUME NEW k \in 2 .. L
          PROVE  ss[k] = <<Semicolon>> \o W(k)
        <3>1. k \in 1 .. L /\ k # 1
            BY <1>1
        <3> QED BY <2>1, <3>1
    <2> QED BY <2>3, <2>4, <2>5
<1>3. g[1] = ss[1] /\ \A k \in 2 .. L : g[k] = g[k - 1] \o ss[k]
    BY DEF Joins
<1>11. \A k \in 1 .. L - 1 : ts[k].pairs # <<>>
    BY DEF IsAddress
<1> HIDE DEF L, ss
<1>4. Good(1)
    <2>1. 1 \in 1 .. L
        BY <1>1
    <2>2. g[1] = W(1) /\ <<>> \o W(1) = W(1)
        BY <1>2, <1>3, <1>10, <2>1
    <2>3. Read(Parsed(<<>> \o W(1)), ts[1], <<>>)
        BY <1>1, <1>9, <2>1, TransportParsed
    <2>4. ReadAs(<<>>, ts, 0)
        BY <1>9 DEF ReadAs, IsSeq
    <2>5. ReadAs(<<>>, ts, 1 - 1)
        BY <2>4
    <2> QED BY <1>10, <2>1, <2>2, <2>3, <2>5
<1>5. ASSUME NEW k \in 2 .. L, Good(k - 1)
      PROVE  Good(k)
    <2> DEFINE h == g[k - 1]
               u == W(k)
               p == Parsed(h)
    <2>0. k - 1 \in 1 .. L - 1 /\ k - 1 \in 1 .. L /\ k \in 1 .. L
        BY <1>1
    <2>1. PICK out : h \in Seq(Text) /\ ReadAs(out, ts, k - 2) /\ Read(p, ts[k - 1], out)
        <3>1. (k - 1) - 1 = k - 2
            BY <2>0
        <3> QED BY <1>5, <3>1
    <2>2. u \in Seq(Text) /\ Semicolon \in Text
        BY <1>10, <2>0 DEF Text, Semicolon
    <2>3. g[k] = h \o (<<Semicolon>> \o u)
        BY <1>2, <1>3
    <2> DEFINE more == Append(out, Finished(p))
               r == Append(h, Semicolon)
    <2>4. ReadAs(more, ts, k - 1)
        <3>1. k - 2 \in Nat /\ (k - 2) + 1 = k - 1
            BY <2>0
        <3> QED BY <2>1, <3>1, OneMoreRead
    <2>5. ParseStep(Semicolon, p) = AtName(more)
        BY <1>11, <2>0, <2>1, SemicolonParsed
    <2> HIDE DEF h, u, more, p
    <2>6. /\ r \in Seq(Text) /\ h \o (<<Semicolon>> \o u) = r \o u
          /\ Parsed(r) = AtName(more)
        BY <2>1, <2>2, <2>5, AppendOne DEF p
    <2> HIDE DEF r
    <2>7. Read(Parsed(r \o u), ts[k], more)
        BY <1>1, <2>0, <2>6, TransportParsed DEF u
    <2>8. r \o u \in Seq(Text)
        BY <2>2, <2>6
    <2> QED BY <2>3, <2>4, <2>6, <2>7, <2>8
<1> HIDE DEF Good
<1>6. 0 \in S
    BY <1>1
<1>7. ASSUME NEW k \in 0 .. L - 1, k \in S
      PROVE  k + 1 \in S
    <2>1. CASE k = 0
        BY <1>1, <1>4, <2>1
    <2>2. CASE k # 0
        <3>1. k + 1 \in 2 .. L /\ (k + 1) - 1 = k
            BY <1>1, <2>2
        <3>2. Good((k + 1) - 1)
            BY <1>7, <2>2, <3>1
        <3>3. Good(k + 1)
            BY <1>5, <3>1, <3>2
        <3> QED BY <3>1, <3>3
    <2> QED BY <2>1, <2>2
<1> HIDE DEF S
<1>8. L \in S
    BY <1>1, <1>6, <1>7, SetInduction
<1> QED BY <1>1, <1>8 DEF S, Good, L

(* The parser reads back every address that is written. *)
LEMMA AddressParsed ==
    ASSUME NEW ts, IsAddress(ts)
    PROVE  ReadAs(ParseTransports(Written(ts)), ts, Len(ts))
<1> DEFINE parts == [i \in DOMAIN ts |-> WrittenTransport(ts[i])]
           ss == Parts(parts, Semicolon)
           w == Written(ts)
           p == Parsed(w)
<1>1. Len(ts) \in Nat /\ DOMAIN ts = 1 .. Len(ts) /\ Len(ss) = Len(ts)
    BY DEF IsAddress, Parts
<1>2. w = FlattenSeq(ss)
    BY DEF Written, Joined, Parts, Semicolon
<1>3. ParseTransports(w) = IF p.name = <<>> THEN p.out ELSE Append(p.out, Finished(p))
    BY DEF ParseTransports, Parsed
<1>4. CASE ts = <<>>
    <2>1. w = <<>>
        BY <1>2, <1>4 DEF FlattenSeq, Parts
    <2>2. p = AtName(<<>>)
        BY <2>1, ParsedNothing
    <2>3. ParseTransports(w) = <<>>
        BY <1>3, <2>2 DEF AtName
    <2>4. <<>> \in Seq({}) /\ Len(<<>>) = 0 /\ Len(ts) = 0
        BY <1>4
    <2>5. ReadAs(<<>>, ts, 0)
        BY <2>4 DEF ReadAs, IsSeq
    <2> QED BY <2>3, <2>4, <2>5
<1>5. CASE ts # <<>>
    <2>1. Len(ts) \in Nat \ {0}
        BY <1>5 DEF IsAddress
    <2>2. PICK g : Joins(g, ss, Len(ts)) /\ FlattenSeq(ss) = g[Len(ts)]
        BY <1>1, <2>1, Flattened
    <2>3. PICK out : ReadAs(out, ts, Len(ts) - 1) /\ Read(p, ts[Len(ts)], out)
        BY <1>2, <1>5, <2>2, TransportsRead
    <2>4. Len(ts) - 1 \in Nat /\ (Len(ts) - 1) + 1 = Len(ts)
        BY <2>1
    <2>5. ReadAs(Append(out, Finished(p)), ts, Len(ts))
        BY <2>3, <2>4, OneMoreRead
    <2>6. p.name # <<>> /\ p.out = out
        BY <2>3 DEF Read
    <2> QED BY <1>3, <2>5, <2>6
<1> QED BY <1>4, <1>5

(* The key of a transport's configuration and the newest pair of that key   *)
(* name the same socket.                                                    *)
LEMMA SocketIsMeant ==
    ASSUME NEW u, NEW t \in Transports, Holds(u.config, t.pairs, Len(t.pairs)), NEW key, NEW i
    PROVE  SocketAt(u, key, i) = MeantAt(t, key, i)
<1> DEFINE L == Len(t.pairs)
           given == {j \in DOMAIN t.pairs : t.pairs[j].key = key}
           newest == CHOOSE j \in given : \A l \in given : l <= j
<1>1. L \in Nat /\ DOMAIN t.pairs = 1 .. L
    BY PairsOf
<1>2. given = Giving(t.pairs, L, key)
    BY <1>1 DEF Giving
<1>3. \/ given = {} /\ Lookup(u.config, <<key>>) = <<>>
      \/ \E k \in given : /\ \A l \in given : l <= k
                          /\ Lookup(u.config, <<key>>) = <<t.pairs[k].value>>
    BY <1>2 DEF Holds
<1>4. given \subseteq Int
    BY <1>1
<1>5. MeantAt(t, key, i) = IF given = {} THEN <<>>
                        ELSE <<Socket(key, <<t.pairs[newest].value>>, i)>>
    BY DEF MeantAt
<1>6. SocketAt(u, key, i) = IF Lookup(u.config, <<key>>) = <<>> THEN <<>>
                         ELSE <<Socket(key, Lookup(u.config, <<key>>), i)>>
    BY DEF SocketAt
<1> HIDE DEF given
<1>7. CASE given = {} /\ Lookup(u.config, <<key>>) = <<>>
    BY <1>5, <1>6, <1>7
<1>8. ASSUME NEW k \in given, \A l \in given : l <= k,
             Lookup(u.config, <<key>>) = <<t.pairs[k].value>>
      PROVE  SocketAt(u, key, i) = MeantAt(t, key, i)
    <2>1. newest \in given /\ \A l \in given : l <= newest
        BY <1>8
    <2>2. newest = k
        <3>1. newest <= k /\ k <= newest
            BY <1>8, <2>1
        <3> HIDE DEF newest
        <3> QED BY <1>4, <2>1, <3>1
    <2>3. given # {} /\ <<t.pairs[k].value>> # <<>>
        BY <1>8
    <2> QED BY <1>5, <1>6, <1>8, <2>2, <2>3
<1> QED BY <1>3, <1>7, <1>8

(* The sockets of a transport that was read are those it means. *)
LEMMA SocketsOfIsMeantBy ==
    ASSUME NEW u, NEW t \in Transports, u.name = <<t.name>>,
           Holds(u.config, t.pairs, Len(t.pairs)), NEW i
    PROVE  SocketsOf(u, i) = MeantBy(t, i)
<1>1. u.name = <<"unix">> <=> t.name = "unix"
    OBVIOUS
<1>2. \A key : SocketAt(u, key, i) = MeantAt(t, key, i)
    BY SocketIsMeant
<1>3. /\ SocketAt(u, "path", i) = MeantAt(t, "path", i)
      /\ SocketAt(u, "abstract", i) = MeantAt(t, "abstract", i)
    BY <1>2
<1> QED BY <1>1, <1>3 DEF SocketsOf, MeantBy

(* The sockets that are tried are those that are meant. *)
LEMMA SocketsAreMeant ==
    ASSUME NEW ts, IsAddress(ts)
    PROVE  Sockets(ParseTransports(Written(ts))) = Meant(ts)
<1> DEFINE r == ParseTransports(Written(ts))
<1>1. ReadAs(r, ts, Len(ts))
    BY AddressParsed
<1> HIDE DEF r
<1>2. /\ DOMAIN ts = 1 .. Len(ts) /\ DOMAIN r = 1 .. Len(ts)
      /\ \A i \in 1 .. Len(ts) : ts[i] \in Transports
    <2>1. \E S : r \in Seq(S) /\ Len(r) = Len(ts)
        BY <1>1 DEF ReadAs, IsSeq
    <2> QED BY <2>1 DEF IsAddress
<1>3. ASSUME NEW i \in 1 .. Len(ts)
      PROVE  SocketsOf(r[i], i) = MeantBy(ts[i], i)
    <2>1. r[i].name = <<ts[i].name>> /\ Holds(r[i].config, ts[i].pairs, Len(ts[i].pairs))
        BY <1>1 DEF ReadAs
    <2> QED BY <1>2, <2>1, SocketsOfIsMeantBy
<1>4. [i \in DOMAIN r |-> SocketsOf(r[i], i)] = [i \in DOMAIN ts |-> MeantBy(ts[i], i)]
    BY <1>2, <1>3
<1> QED BY <1>4 DEF Sockets, Meant, r

(* Sequences over a set, one after the other, are one over that set. *)
LEMMA FlatteningIsOver ==
    ASSUME NEW S, NEW ss, Len(ss) \in Nat, ss = <<>> \/ DOMAIN ss = 1 .. Len(ss),
           \A i \in 1 .. Len(ss) : ss[i] \in Seq(S)
    PROVE  FlattenSeq(ss) \in Seq(S)
<1>1. CASE ss = <<>>
    BY <1>1 DEF FlattenSeq
<1>2. CASE ss # <<>> /\ Len(ss) = 0
    <2>1. DOMAIN ss = {}
        BY <1>2
    <2> QED BY <1>2, <2>1
<1>3. CASE Len(ss) # 0
    <2> DEFINE L == Len(ss)
    <2>1. PICK g : Joins(g, ss, L) /\ FlattenSeq(ss) = g[L]
        BY <1>3, Flattened
    <2> DEFINE I == {k \in 0 .. L : k = 0 \/ g[k] \in Seq(S)}
    <2>2. 0 \in I
        OBVIOUS
    <2>3. ASSUME NEW k \in 0 .. L - 1, k \in I
          PROVE  k + 1 \in I
        <3>1. CASE k = 0
            BY <1>3, <2>1, <3>1 DEF Joins
        <3>2. CASE k # 0
            <4>1. k + 1 \in 2 .. L /\ (k + 1) - 1 = k /\ k + 1 \in 1 .. L
                BY <3>2
            <4>2. g[k + 1] = g[k] \o ss[k + 1]
                BY <2>1, <4>1 DEF Joins
            <4>3. g[k] \in Seq(S) /\ ss[k + 1] \in Seq(S)
                BY <2>3, <3>2, <4>1
            <4>4. g[k] \o ss[k + 1] \in Seq(S)
                BY <4>3
            <4>5. g[k + 1] \in Seq(S) /\ k + 1 \in 0 .. L
                BY <2>3, <4>1, <4>2, <4>4
            <4> QED BY <4>5
        <3> QED BY <3>1, <3>2
    <2> HIDE DEF I
    <2>4. L \in I
        BY <2>2, <2>3, SetInduction
    <2> QED BY <1>3, <2>1, <2>4 DEF I
<1> QED BY <1>1, <1>2, <1>3

(* Every socket that is meant is somewhere. *)
SomeSockets ==
    {s \in [key : STRING \cup {"path", "abstract"}, where : Seq(STRING), of : Nat] : s.where # <<>>}

LEMMA MeantSockets ==
    ASSUME NEW ts, IsAddress(ts)
    PROVE  Meant(ts) \in Seq(SomeSockets)
<1> DEFINE ss == [i \in DOMAIN ts |-> MeantBy(ts[i], i)]
<1>1. /\ Len(ts) \in Nat /\ DOMAIN ts = 1 .. Len(ts)
      /\ \A i \in 1 .. Len(ts) : ts[i] \in Transports
    BY DEF IsAddress
<1>2. ASSUME NEW t \in Transports, NEW key \in {"path", "abstract"}, NEW of \in Nat
      PROVE  MeantAt(t, key, of) \in Seq(SomeSockets)
    <2> DEFINE given == {j \in DOMAIN t.pairs : t.pairs[j].key = key}
               newest == CHOOSE j \in given : \A l \in given : l <= j
    <2>1. given \subseteq Nat
        BY PairsOf
    <2>2. CASE given = {}
        BY <2>2 DEF MeantAt
    <2>3. CASE given # {}
        <3>1. newest \in given
            <4>1. \E j \in given : \A l \in given : l <= j
                <5>1. given \subseteq 1 .. Len(t.pairs) /\ Len(t.pairs) \in Nat
                    BY PairsOf
                <5> HIDE DEF given
                <5> DEFINE up == {Len(t.pairs) - l : l \in given}
                <5>2. up \subseteq Nat /\ up # {}
                    <6>1. \A l \in given : Len(t.pairs) - l \in Nat
                        BY <5>1
                    <6> QED BY <2>3, <6>1
                <5> HIDE DEF up
                <5>3. PICK x \in up : \A y \in up : x <= y
                    BY <5>2, LeastNumber
                <5>4. PICK j \in given : x = Len(t.pairs) - j
                    BY DEF up
                <5>5. ASSUME NEW l \in given
                      PROVE  l <= j
                    <6>1. Len(t.pairs) - l \in up
                        BY DEF up
                    <6>2. Len(t.pairs) - j <= Len(t.pairs) - l
                        BY <5>3, <5>4, <6>1
                    <6> QED BY <5>1, <6>2
                <5> QED BY <5>5
            <4> QED BY <4>1
        <3> HIDE DEF newest
        <3>2. newest \in 1 .. Len(t.pairs)
            BY <3>1, PairsOf
        <3>3. t.pairs[newest].value \in STRING
            BY <3>2, PairIsPair DEF Pairs, Tokens
        <3>4. Socket(key, <<t.pairs[newest].value>>, of) \in SomeSockets
            <4>1. <<t.pairs[newest].value>> \in Seq(STRING) /\ <<t.pairs[newest].value>> # <<>>
                BY <3>3
            <4> QED BY <4>1 DEF Socket, SomeSockets
        <3>5. MeantAt(t, key, of) = <<Socket(key, <<t.pairs[newest].value>>, of)>>
            BY <2>3 DEF MeantAt, newest
        <3> QED BY <3>4, <3>5
    <2> QED BY <2>2, <2>3
<1>3. ASSUME NEW t \in Transports, NEW of \in Nat
      PROVE  MeantBy(t, of) \in Seq(SomeSockets)
    <2>1. /\ MeantAt(t, "path", of) \in Seq(SomeSockets)
          /\ MeantAt(t, "abstract", of) \in Seq(SomeSockets)
        BY <1>2
    <2>2. MeantAt(t, "path", of) \o MeantAt(t, "abstract", of) \in Seq(SomeSockets)
        BY <2>1
    <2> QED BY <2>2 DEF MeantBy
<1>4. \A i \in 1 .. Len(ts) : ss[i] \in Seq(SomeSockets)
    BY <1>1, <1>3
<1>5. Len(ss) = Len(ts) /\ DOMAIN ss = 1 .. Len(ts)
    BY <1>1
<1> HIDE DEF ss
<1>6. FlattenSeq(ss) \in Seq(SomeSockets)
    BY <1>1, <1>4, <1>5, FlatteningIsOver
<1> QED BY <1>6 DEF Meant, ss

(* What was tried and what is still to be tried are what the address means. *)
SocketsTried(entries) == [i \in DOMAIN entries |-> entries[i].socket]
Entries == [socket : SomeSockets, outcome : {"failed", "invalid", "passed"}]
PassedOverRightly(entries) ==
    \A i \in DOMAIN entries :
        entries[i].outcome = "passed" =>
           /\ i > 1 /\ entries[i - 1].outcome = "invalid"
           /\ entries[i - 1].socket.of = entries[i].socket.of
OrderInv ==
    /\ address \in Addresses
    /\ tried \in Seq(Entries) /\ todo \in Seq(SomeSockets)
    /\ pc = "open" => chosen.where = <<>>
    /\ SocketsInOrder

(* One more entry. *)
LEMMA EntryAppended ==
    ASSUME NEW entries \in Seq(Entries), NEW e \in Entries
    PROVE  /\ Append(entries, e) \in Seq(Entries)
           /\ SocketsTried(Append(entries, e)) = Append(SocketsTried(entries), e.socket)
           /\ SocketsTried(entries) \in Seq(SomeSockets)
<1> DEFINE more == Append(entries, e)
<1>1. PICK n \in Nat : n = Len(entries)
    OBVIOUS
<1>2. /\ more \in Seq(Entries) /\ DOMAIN more = 1 .. n + 1 /\ DOMAIN entries = 1 .. n
      /\ \A i \in 1 .. n : more[i] = entries[i] /\ entries[i] \in Entries
      /\ more[n + 1] = e
    BY <1>1
<1>3. \A i \in 1 .. n : entries[i].socket \in SomeSockets
    BY <1>2 DEF Entries
<1>4. SocketsTried(entries) = [i \in 1 .. n |-> entries[i].socket]
    BY <1>2 DEF SocketsTried
<1>5. SocketsTried(entries) \in Seq(SomeSockets) /\ Len(SocketsTried(entries)) = n
    BY <1>3, <1>4
<1>6. SocketsTried(more) = [i \in 1 .. n + 1 |-> more[i].socket]
    BY <1>2 DEF SocketsTried
<1>7. Append(SocketsTried(entries), e.socket)
        = [i \in 1 .. n + 1 |-> IF i = n + 1 THEN e.socket ELSE entries[i].socket]
    BY <1>3, <1>4, <1>5
<1>8. \A i \in 1 .. n + 1 : more[i].socket = IF i = n + 1 THEN e.socket ELSE entries[i].socket
    <2>1. \A i \in 1 .. n + 1 : i = n + 1 \/ i \in 1 .. n
        OBVIOUS
    <2> QED BY <1>2, <2>1
<1> QED BY <1>2, <1>5, <1>6, <1>7, <1>8

LEMMA RightlyAppended ==
    ASSUME NEW entries \in Seq(Entries), PassedOverRightly(entries), NEW e \in Entries,
           e.outcome = "passed" =>
              /\ entries # <<>> /\ entries[Len(entries)].outcome = "invalid"
              /\ entries[Len(entries)].socket.of = e.socket.of
    PROVE  PassedOverRightly(Append(entries, e))
<1> DEFINE more == Append(entries, e)
<1>1. PICK n \in Nat : n = Len(entries)
    OBVIOUS
<1>2. /\ DOMAIN more = 1 .. n + 1 /\ DOMAIN entries = 1 .. n
      /\ \A i \in 1 .. n : more[i] = entries[i]
      /\ more[n + 1] = e
    BY <1>1
<1>3. entries # <<>> => n \in 1 .. n /\ n > 0
    BY <1>1
<1> HIDE DEF more
<1>4. ASSUME NEW i \in 1 .. n + 1, more[i].outcome = "passed"
      PROVE  /\ i > 1 /\ more[i - 1].outcome = "invalid"
             /\ more[i - 1].socket.of = more[i].socket.of
    <2>1. CASE i = n + 1
        <3>1. (n + 1) - 1 = n
            OBVIOUS
        <3> QED BY <1>1, <1>2, <1>3, <1>4, <2>1, <3>1
    <2>2. CASE i # n + 1
        <3>1. i \in 1 .. n /\ (i > 1 => i - 1 \in 1 .. n)
            BY <2>2
        <3> QED BY <1>2, <1>4, <3>1 DEF PassedOverRightly
    <2> QED BY <2>1, <2>2
<1>5. PassedOverRightly(more)
    BY <1>2, <1>4 DEF PassedOverRightly
<1> QED BY <1>5 DEF more

(* While no socket is chosen. *)
LEMMA OpenInOrder ==
    ASSUME OrderInv, pc = "open"
    PROVE  /\ tried \in Seq(Entries) /\ todo \in Seq(SomeSockets) /\ chosen.where = <<>>
           /\ SocketsTried(tried) \o <<>> \o todo = Meant(address)
           /\ PassedOverRightly(tried)
<1>1. /\ tried \in Seq(Entries) /\ todo \in Seq(SomeSockets) /\ chosen.where = <<>>
      /\ SocketsInOrder
    BY DEF OrderInv
<1>2. (IF chosen.where = <<>> THEN <<>> ELSE <<chosen>>) = <<>>
    BY <1>1
<1>3. SocketsTried(tried) \o (IF chosen.where = <<>> THEN <<>> ELSE <<chosen>>) \o todo = Meant(address)
    BY <1>1 DEF SocketsInOrder, SocketsTried
<1>4. PassedOverRightly(tried)
    BY <1>1 DEF SocketsInOrder, PassedOverRightly
<1> QED BY <1>1, <1>2, <1>3, <1>4

(* The invariant holds at first, and each step keeps it. *)
LEMMA OrderStarts == StartInit => OrderInv
<1> SUFFICES ASSUME StartInit
             PROVE  OrderInv
    OBVIOUS
<1>1. address \in Addresses /\ tried = <<>> /\ chosen = Socket("path", <<>>, 0)
      /\ todo = Sockets(ParseTransports(Written(address)))
    BY DEF StartInit, NoSocket
<1>2. todo = Meant(address) /\ todo \in Seq(SomeSockets)
    BY <1>1, AddressAssumption, SocketsAreMeant, MeantSockets
<1>3. chosen.where = <<>> /\ tried \in Seq(Entries)
    BY <1>1 DEF Socket
<1>4. SocketsTried(tried) = <<>> /\ PassedOverRightly(tried)
    BY <1>1 DEF SocketsTried, PassedOverRightly
<1>5. <<>> \o <<>> \o todo = todo
    BY <1>2
<1>6. (IF chosen.where = <<>> THEN <<>> ELSE <<chosen>>) = <<>>
    BY <1>3
<1>7. SocketsTried(tried) \o (IF chosen.where = <<>> THEN <<>> ELSE <<chosen>>) \o todo = Meant(address)
    BY <1>2, <1>4, <1>5, <1>6
<1>8. SocketsInOrder
    BY <1>4, <1>7 DEF SocketsInOrder, SocketsTried, PassedOverRightly
<1> QED BY <1>1, <1>2, <1>3, <1>8 DEF OrderInv

(* One socket goes from those still to be tried to those before them. *)
LEMMA SocketPasses ==
    ASSUME NEW entries \in Seq(Entries), NEW ss \in Seq(SomeSockets), ss # <<>>,
           NEW outcome \in {"failed", "invalid", "passed"}
    PROVE  /\ Tail(ss) \in Seq(SomeSockets) /\ Head(ss) \in SomeSockets
           /\ Tried(Head(ss), outcome) \in Entries
           /\ Append(entries, Tried(Head(ss), outcome)) \in Seq(Entries)
           /\ SocketsTried(Append(entries, Tried(Head(ss), outcome))) \o <<>> \o Tail(ss)
                 = SocketsTried(entries) \o <<>> \o ss
<1>1. Tail(ss) \in Seq(SomeSockets) /\ Head(ss) \in SomeSockets
    OBVIOUS
<1>2. Tried(Head(ss), outcome) \in Entries /\ Tried(Head(ss), outcome).socket = Head(ss)
    BY <1>1 DEF Tried, Entries
<1>3. /\ Append(entries, Tried(Head(ss), outcome)) \in Seq(Entries)
      /\ SocketsTried(Append(entries, Tried(Head(ss), outcome)))
            = Append(SocketsTried(entries), Head(ss))
      /\ SocketsTried(entries) \in Seq(SomeSockets)
    BY <1>2, EntryAppended
<1>4. Append(SocketsTried(entries), Head(ss)) \o <<>> \o Tail(ss)
        = SocketsTried(entries) \o <<>> \o ss
    BY <1>1, <1>3
<1> QED BY <1>1, <1>2, <1>3, <1>4

LEMMA OpenFailsKeeps == ASSUME OrderInv, OpenFails PROVE OrderInv'
<1> DEFINE e == Tried(Head(todo), "failed")
<1>1. /\ pc = "open" /\ todo # <<>> /\ tried' = Append(tried, e) /\ todo' = Tail(todo)
      /\ UNCHANGED <<address, chosen, pc>>
    BY DEF OpenFails
<1>2. /\ tried \in Seq(Entries) /\ todo \in Seq(SomeSockets) /\ chosen.where = <<>>
      /\ SocketsTried(tried) \o <<>> \o todo = Meant(address) /\ PassedOverRightly(tried)
    BY <1>1, OpenInOrder
<1>3. /\ tried' \in Seq(Entries) /\ todo' \in Seq(SomeSockets) /\ e \in Entries
      /\ SocketsTried(tried') \o <<>> \o todo' = SocketsTried(tried) \o <<>> \o todo
    BY <1>1, <1>2, SocketPasses
<1>4. PassedOverRightly(tried')
    <2>1. e.outcome # "passed"
        BY DEF Tried
    <2> HIDE DEF e
    <2> QED BY <1>1, <1>2, <1>3, <2>1, RightlyAppended
<1>5. Meant(address)' = Meant(address)
    BY <1>1 DEF Meant
<1>6. SocketsInOrder'
    BY <1>1, <1>2, <1>3, <1>4, <1>5 DEF SocketsInOrder, SocketsTried, PassedOverRightly
<1> QED BY <1>1, <1>2, <1>3, <1>6 DEF OrderInv

LEMMA OpenInvalidKeeps == ASSUME OrderInv, OpenInvalid PROVE OrderInv'
<1> DEFINE rest == Tail(todo)
           passesOver == rest # <<>> /\ Head(rest).of = Head(todo).of
           e == Tried(Head(todo), "invalid")
           invalid == Append(tried, e)
           over == Tried(Head(rest), "passed")
<1>1. /\ pc = "open" /\ todo # <<>> /\ UNCHANGED <<address, chosen, pc>>
      /\ tried' = IF passesOver THEN Append(invalid, over) ELSE invalid
      /\ todo' = IF passesOver THEN Tail(rest) ELSE rest
    BY DEF OpenInvalid
<1>2. /\ tried \in Seq(Entries) /\ todo \in Seq(SomeSockets) /\ chosen.where = <<>>
      /\ SocketsTried(tried) \o <<>> \o todo = Meant(address) /\ PassedOverRightly(tried)
    BY <1>1, OpenInOrder
<1>3. /\ invalid \in Seq(Entries) /\ rest \in Seq(SomeSockets) /\ e \in Entries
      /\ SocketsTried(invalid) \o <<>> \o rest = SocketsTried(tried) \o <<>> \o todo
    BY <1>1, <1>2, SocketPasses
<1>4. /\ e.outcome = "invalid" /\ over.outcome = "passed"
      /\ e.socket = Head(todo) /\ over.socket = Head(rest)
    BY DEF Tried
<1>5. invalid # <<>> /\ invalid[Len(invalid)] = e
    <2> HIDE DEF e
    <2>1. PICK n \in Nat : n = Len(tried)
        BY <1>2
    <2>2. Len(invalid) = n + 1 /\ invalid[n + 1] = e /\ n + 1 # 0
        BY <1>2, <1>3, <2>1
    <2> QED BY <2>2
<1> HIDE DEF e
<1>6. PassedOverRightly(invalid)
    BY <1>2, <1>3, <1>4, RightlyAppended
<1> HIDE DEF rest, invalid
<1>7. /\ tried' \in Seq(Entries) /\ todo' \in Seq(SomeSockets) /\ PassedOverRightly(tried')
      /\ SocketsTried(tried') \o <<>> \o todo' = Meant(address)
    <2>1. CASE ~passesOver
        BY <1>1, <1>2, <1>3, <1>6, <2>1
    <2>2. CASE passesOver
        <3>1. rest # <<>>
            BY <2>2
        <3>2. /\ Append(invalid, over) \in Seq(Entries) /\ Tail(rest) \in Seq(SomeSockets)
              /\ over \in Entries
              /\ SocketsTried(Append(invalid, over)) \o <<>> \o Tail(rest)
                    = SocketsTried(invalid) \o <<>> \o rest
            BY <1>3, <3>1, SocketPasses
        <3>3. invalid[Len(invalid)].socket.of = over.socket.of
            BY <1>4, <1>5, <2>2
        <3> HIDE DEF over
        <3>4. PassedOverRightly(Append(invalid, over))
            BY <1>3, <1>4, <1>5, <1>6, <3>2, <3>3, RightlyAppended
        <3> QED BY <1>1, <1>2, <1>3, <2>2, <3>2, <3>4
    <2> QED BY <2>1, <2>2
<1>8. Meant(address)' = Meant(address)
    BY <1>1 DEF Meant
<1>9. SocketsInOrder'
    BY <1>1, <1>2, <1>7, <1>8 DEF SocketsInOrder, SocketsTried, PassedOverRightly
<1> QED BY <1>1, <1>2, <1>7, <1>9 DEF OrderInv

LEMMA OpenUnixSocketKeeps == ASSUME OrderInv, OpenUnixSocket PROVE OrderInv'
<1>1. /\ pc = "open" /\ todo # <<>> /\ chosen' = Head(todo) /\ todo' = Tail(todo)
      /\ pc' = "authenticate" /\ UNCHANGED <<address, tried>>
    BY DEF OpenUnixSocket
<1>2. /\ tried \in Seq(Entries) /\ todo \in Seq(SomeSockets) /\ chosen.where = <<>>
      /\ SocketsTried(tried) \o <<>> \o todo = Meant(address) /\ PassedOverRightly(tried)
    BY <1>1, OpenInOrder
<1>3. todo' \in Seq(SomeSockets) /\ Head(todo) \in SomeSockets /\ chosen'.where # <<>>
    <2>1. Head(todo) \in SomeSockets
        BY <1>1, <1>2
    <2> QED BY <1>1, <1>2, <2>1 DEF SomeSockets
<1>4. SocketsTried(tried) \in Seq(SomeSockets)
    BY <1>2, <1>3, EntryAppended, SocketPasses, <1>1
<1>5. SocketsTried(tried) \o <<chosen'>> \o todo' = SocketsTried(tried) \o <<>> \o todo
    BY <1>1, <1>2, <1>3, <1>4
<1>6. Meant(address)' = Meant(address)
    BY <1>1 DEF Meant
<1>7. SocketsInOrder'
    BY <1>1, <1>2, <1>3, <1>5, <1>6 DEF SocketsInOrder, SocketsTried, PassedOverRightly
<1> QED BY <1>1, <1>2, <1>3, <1>7 DEF OrderInv

LEMMA OrderStep == OrderInv /\ [StartNext]_startVars => OrderInv'
<1> SUFFICES ASSUME OrderInv, [StartNext]_startVars
             PROVE  OrderInv'
    OBVIOUS
<1>1. CASE OpenFails \/ OpenInvalid \/ OpenUnixSocket
    BY <1>1, OpenFailsKeeps, OpenInvalidKeeps, OpenUnixSocketKeeps
<1>2. CASE ~ OpenFails /\ ~ OpenInvalid /\ ~ OpenUnixSocket
    <2>1. UNCHANGED openVars /\ (pc' = "open" => pc = "open")
        BY <1>2 DEF StartNext, startVars, NoTransport, Authenticate, Negotiate, ServerAnswers,
            ServerGoesOn, BusRegister, Enqueue, Flush, FlushEnds, Write, WriteMessage, WriteFails,
            WriteUnserializable
    <2>2. UNCHANGED <<address, todo, tried, chosen>>
        BY <2>1 DEF openVars
    <2>3. Meant(address)' = Meant(address)
        BY <2>2 DEF Meant
    <2> QED BY <2>1, <2>2, <2>3 DEF OrderInv, SocketsInOrder
<1> QED BY <1>1, <1>2

(* The sockets before the chosen one, the chosen one and those still to try *)
(* are, in this order, those that the address means, for any addresses whose *)
(* transports all have a key, but for the last: no transport's configuration *)
(* reaches another (Transport::open_transport).  And each one before the    *)
(* chosen one was tried, or its transport's path had opened a transport that *)
(* is not valid.                                                           *)
THEOREM SocketsAreTriedInOrder == StartSpec => []SocketsInOrder
<1>1. OrderInv => SocketsInOrder
    BY DEF OrderInv
<1> QED
    BY <1>1, OrderStarts, OrderStep, PTL DEF StartSpec
-----------------------------------------------------------------------------
(* The handshake, and the messages written after it                        *)

Answers == {"OK", "REJECTED", "ERROR", "DATA", "EOF"}
Agreements == {"AGREE_UNIX_FD", "ERROR", "EOF"}

(* What is on the socket while a line is expected, if it came whole: the    *)
(* line asked for, or the answer.                                           *)
Asked(line) == linesOut = <<line>> /\ linesIn = <<>>
Answered(line) == linesOut = <<>> /\ linesIn = <<Whole(line)>>
HandshakeInv ==
    /\ pc \in {"open", "authenticate", "negotiate", "closed"} => valid = FALSE
    /\ pc \in {"open", "authenticate", "negotiate"} => negotiated = FALSE
    /\ split = FALSE =>
         /\ pending = <<>>
         /\ pc = "open" => linesOut = <<>> /\ linesIn = <<>> /\ agreed = FALSE
         /\ pc = "authenticate" =>
              /\ agreed = FALSE
              /\ Asked("AUTH") \/ \E line \in Answers :
                                     Answered(line) /\ (line = "OK" => authorised = TRUE)
         /\ pc = "negotiate" =>
              /\ authorised = TRUE
              /\ \/ Asked("NEGOTIATE_UNIX_FD") /\ agreed = FALSE
                 \/ \E line \in Agreements : Answered(line) /\ agreed = (line = "AGREE_UNIX_FD")
         /\ pc \in {"hello", "ready", "flush"} =>
              /\ linesIn = <<>> /\ linesOut = <<"BEGIN">>
              /\ authorised = TRUE /\ negotiated = agreed

(* What has been written, whole or in part, since the transport is valid. *)
WriteInv ==
    /\ sent \in Nat /\ queued \in Nat /\ stream \in Seq([message : 1 .. sent, cut : BOOLEAN])
    /\ pc \in {"open", "authenticate", "negotiate"} =>
          sent = 0 /\ queued = 0 /\ unserializable = {} /\ stream = <<>>
    /\ NoGapWhileValid

StartTypes ==
    /\ pc \in {"open", "authenticate", "negotiate", "closed", "hello", "ready", "flush"}
    /\ valid \in BOOLEAN /\ split \in BOOLEAN /\ authorised \in BOOLEAN /\ agreed \in BOOLEAN
    /\ negotiated \in BOOLEAN
StartInv == StartTypes /\ HandshakeInv /\ WriteInv

LEMMA StartInitInv == StartInit => StartInv
<1> SUFFICES ASSUME StartInit PROVE StartInv
  OBVIOUS
<1>1. /\ pc = "open" /\ valid = FALSE /\ linesOut = <<>> /\ linesIn = <<>> /\ pending = <<>>
      /\ authorised = FALSE /\ agreed = FALSE /\ split = FALSE /\ negotiated = FALSE
      /\ sent = 0 /\ queued = 0 /\ unserializable = {} /\ stream = <<>>
  BY DEF StartInit
<1>2. StartTypes /\ WriteInv
  <2>1. StartTypes
    BY <1>1 DEF StartTypes
  <2>2. sent \in Nat /\ queued \in Nat /\ stream \in Seq([message : 1 .. sent, cut : BOOLEAN])
    BY <1>1
  <2>3. NoGapWhileValid
    BY <1>1 DEF NoGapWhileValid
  <2> QED
    BY <1>1, <2>1, <2>2, <2>3 DEF WriteInv
<1>3. HandshakeInv
  BY <1>1 DEF HandshakeInv
<1> QED
  BY <1>2, <1>3 DEF StartInv

(* One whole line in the socket is what SASL::read_data finds. *)
LEMMA FoundWhole ==
    ASSUME NEW line, linesIn = <<Whole(line)>>, NEW l
    PROVE  Found(l) <=> l = line
<1>1. DOMAIN linesIn = {1} /\ linesIn[1].line = line /\ linesIn[1].part = "whole"
  BY DEF Whole
<1> QED
  BY <1>1 DEF Found

(* The handshake. *)
LEMMA ServerKeeps ==
    ASSUME StartInv, (\E line \in Lines : ServerAnswers(line)) \/ ServerGoesOn
    PROVE  StartInv'
<1> USE DEF StartInv, StartTypes
<1>1. UNCHANGED <<pc, valid, negotiated, queued, sent, unserializable, stream>>
  BY DEF ServerAnswers, ServerGoesOn, openVars, busVars, writeVars
<1>2. WriteInv'
  BY <1>1 DEF WriteInv, NoGapWhileValid
<1>3. CASE ServerGoesOn
  <2>1. UNCHANGED <<split, authorised, agreed>> /\ pending # <<>>
    BY <1>3 DEF ServerGoesOn
  <2>2. split # FALSE
    BY <2>1 DEF HandshakeInv
  <2> QED
    BY <1>1, <1>2, <2>1, <2>2 DEF HandshakeInv
<1>4. ASSUME NEW line \in Lines, ServerAnswers(line) PROVE StartInv'
  <2>1. /\ linesOut # <<>> /\ linesOut' = Tail(linesOut) /\ Send(line)
        /\ \/ Head(linesOut) = "AUTH" /\ line \in Answers
           \/ Head(linesOut) = "NEGOTIATE_UNIX_FD" /\ line \in Agreements
        /\ authorised' = (authorised \/ line = "OK")
        /\ agreed' = (agreed \/ line = "AGREE_UNIX_FD")
    BY <1>4 DEF ServerAnswers, Answers, Agreements
  <2>2. StartTypes'
    BY <1>1, <2>1 DEF Send
  <2>3. CASE split' # FALSE
    BY <1>1, <1>2, <2>2, <2>3 DEF HandshakeInv
  <2>4. CASE split' = FALSE
    <3>1. split = FALSE /\ linesIn' = Append(linesIn, Whole(line)) /\ pending' = pending
      BY <2>1, <2>4 DEF Send
    <3>2. CASE pc = "authenticate"
      <4>1. Asked("AUTH") /\ agreed = FALSE
        BY <2>1, <3>1, <3>2 DEF HandshakeInv, Answered
      <4>2. line \in Answers /\ linesOut' = <<>> /\ linesIn' = <<Whole(line)>>
        BY <2>1, <3>1, <4>1 DEF Asked
      <4>3. Answered(line)' /\ (line = "OK" => authorised' = TRUE) /\ agreed' = FALSE
        BY <2>1, <4>1, <4>2 DEF Answered, Answers
      <4>4. pending' = <<>>
        BY <3>1 DEF HandshakeInv
      <4> QED
        BY <1>1, <1>2, <2>2, <3>2, <4>2, <4>3, <4>4 DEF HandshakeInv
    <3>3. CASE pc = "negotiate"
      <4>1. Asked("NEGOTIATE_UNIX_FD") /\ agreed = FALSE /\ authorised = TRUE
        BY <2>1, <3>1, <3>3 DEF HandshakeInv, Answered
      <4>2. line \in Agreements /\ linesOut' = <<>> /\ linesIn' = <<Whole(line)>>
        BY <2>1, <3>1, <4>1 DEF Asked
      <4>3. Answered(line)' /\ agreed' = (line = "AGREE_UNIX_FD") /\ authorised' = TRUE
        BY <2>1, <4>1, <4>2 DEF Answered
      <4>4. pending' = <<>>
        BY <3>1 DEF HandshakeInv
      <4> QED
        BY <1>1, <1>2, <2>2, <3>3, <4>2, <4>3, <4>4 DEF HandshakeInv
    <3>4. CASE pc \in {"open", "hello", "ready", "flush"}
      BY <2>1, <3>1, <3>4 DEF HandshakeInv
    <3>5. CASE pc = "closed"
      <4>1. pending' = <<>>
        BY <3>1 DEF HandshakeInv
      <4> QED
        BY <1>1, <1>2, <2>2, <3>5, <4>1 DEF HandshakeInv
    <3> QED
      BY <3>2, <3>3, <3>4, <3>5
  <2> QED
    BY <2>3, <2>4
<1> QED
  BY <1>3, <1>4

LEMMA AuthenticateKeeps == ASSUME StartInv, Authenticate PROVE StartInv'
<1> USE DEF StartInv, StartTypes
<1>1. /\ UNCHANGED <<valid, pending, authorised, agreed, split, negotiated, queued, sent, unserializable, stream>>
      /\ pc = "authenticate" /\ linesIn # <<>> /\ linesIn' = <<>>
  BY DEF Authenticate, writeVars
<1>2. \/ Found("OK") /\ linesOut' = Append(linesOut, "NEGOTIATE_UNIX_FD") /\ pc' = "negotiate"
      \/ pc' = "closed"
  BY DEF Authenticate
<1>3. StartTypes' /\ WriteInv'
  BY <1>1, <1>2 DEF WriteInv, NoGapWhileValid
<1>4. CASE split = FALSE /\ pc' = "negotiate"
  <2>1. PICK line \in Answers : Answered(line) /\ (line = "OK" => authorised = TRUE)
    BY <1>1, <1>4 DEF HandshakeInv, Asked
  <2>2. line = "OK"
    BY <1>2, <1>4, <2>1, FoundWhole DEF Answered
  <2>3. linesOut' = <<"NEGOTIATE_UNIX_FD">> /\ authorised = TRUE /\ agreed = FALSE
    BY <1>1, <1>2, <1>4, <2>1, <2>2 DEF Answered, HandshakeInv
  <2> QED
    BY <1>1, <1>3, <1>4, <2>3 DEF HandshakeInv, Asked
<1> QED
  BY <1>1, <1>2, <1>3, <1>4 DEF HandshakeInv

LEMMA NegotiateKeeps == ASSUME StartInv, Negotiate PROVE StartInv'
<1> USE DEF StartInv, StartTypes
<1>1. /\ UNCHANGED <<pending, authorised, agreed, split, queued, sent, unserializable, stream>>
      /\ pc = "negotiate" /\ linesIn # <<>> /\ linesIn' = <<>> /\ negotiated' = Found("AGREE_UNIX_FD")
      /\ \/ pc' = "closed" /\ valid' = valid
         \/ linesOut' = Append(linesOut, "BEGIN") /\ pc' = "hello" /\ valid' = TRUE
  BY DEF Negotiate, writeVars
<1>2. StartTypes' /\ WriteInv'
  <2>1. StartTypes'
    BY <1>1 DEF Found
  <2>2. sent = 0 /\ queued = 0 /\ unserializable = {} /\ stream = <<>>
    BY <1>1 DEF WriteInv
  <2> QED
    BY <1>1, <2>1, <2>2 DEF WriteInv, NoGapWhileValid
<1>3. CASE split = FALSE /\ pc' = "hello"
  <2>1. PICK line \in Agreements : Answered(line) /\ agreed = (line = "AGREE_UNIX_FD")
    BY <1>1, <1>3 DEF HandshakeInv, Asked
  <2>2. Found("AGREE_UNIX_FD") = (line = "AGREE_UNIX_FD")
    <3>1. Found("AGREE_UNIX_FD") <=> line = "AGREE_UNIX_FD"
      BY <2>1, FoundWhole DEF Answered
    <3>2. Found("AGREE_UNIX_FD") \in BOOLEAN
      BY DEF Found
    <3> QED
      BY <3>1, <3>2
  <2>3. linesOut' = <<"BEGIN">> /\ authorised = TRUE /\ negotiated' = agreed'
    BY <1>1, <1>3, <2>1, <2>2 DEF Answered, HandshakeInv
  <2> QED
    BY <1>1, <1>2, <1>3, <2>3 DEF HandshakeInv
<1> QED
  BY <1>1, <1>2, <1>3 DEF HandshakeInv

LEMMA WriteKeeps ==
    ASSUME StartInv, WriteMessage \/ WriteFails \/ WriteUnserializable PROVE StartInv'
<1> USE DEF StartInv, StartTypes
<1> DEFINE Entry(s) == [message : 1 .. s, cut : BOOLEAN]
<1>1. /\ UNCHANGED <<pc, saslVars, unserializable>> /\ pc = "flush" /\ queued > 0
      /\ sent' = sent + 1 /\ queued' = queued - 1 /\ valid' \in BOOLEAN
  BY DEF WriteMessage, WriteFails, WriteUnserializable, Write
<1>2. StartTypes' /\ HandshakeInv'
  BY <1>1 DEF saslVars, HandshakeInv, Asked, Answered
<1>3. PICK s \in Nat : s = sent
  BY DEF WriteInv
<1>4. PICK n \in Nat : n = Len(stream)
  BY DEF WriteInv
<1>5. /\ stream \in Seq(Entry(s)) /\ DOMAIN stream = 1 .. n
      /\ \A i \in 1 .. n : stream[i] \in Entry(s) /\ stream[i].message \in 1 .. s
  <2>1. stream \in Seq(Entry(s))
    BY <1>3 DEF WriteInv
  <2>2. DOMAIN stream = 1 .. n /\ \A i \in 1 .. n : stream[i] \in Entry(s)
    <3> HIDE DEF Entry
    <3> QED
      BY <1>4, <2>1
  <2>3. \A e \in Entry(s) : e.message \in 1 .. s
    OBVIOUS
  <2> QED
    BY <2>1, <2>2, <2>3
<1>6. stream \in Seq(Entry(s + 1)) /\ sent' \in Nat /\ queued' \in Nat
  <2>1. \A i \in 1 .. n : stream[i] \in Entry(s + 1)
    BY <1>5
  <2> HIDE DEF Entry
  <2> QED
    BY <1>1, <1>3, <1>4, <1>5, <2>1 DEF WriteInv
<1>7. CASE WriteFails
  <2>1. valid' = FALSE /\ stream' = stream
    BY <1>7 DEF WriteFails
  <2> QED
    BY <1>1, <1>2, <1>3, <1>6, <2>1 DEF WriteInv, NoGapWhileValid
<1>8. CASE WriteUnserializable
  <2>1. s + 1 \in unserializable /\ UNCHANGED <<valid, stream>>
    BY <1>1, <1>3, <1>8 DEF WriteUnserializable
  <2>2. (1 .. s + 1) \ unserializable = (1 .. s) \ unserializable
    BY <2>1
  <2> QED
    BY <1>1, <1>2, <1>3, <1>6, <2>1, <2>2 DEF WriteInv, NoGapWhileValid
<1>9. CASE WriteMessage
  <2>1. PICK cut \in BOOLEAN : stream' = Append(stream, [message |-> s + 1, cut |-> cut])
    BY <1>1, <1>3, <1>9 DEF WriteMessage
  <2>2. s + 1 \notin unserializable /\ valid' = valid
    BY <1>1, <1>3, <1>9 DEF WriteMessage
  <2>3. [message |-> s + 1, cut |-> cut] \in Entry(s + 1)
    OBVIOUS
  <2>4. /\ stream' \in Seq(Entry(s + 1)) /\ DOMAIN stream' = 1 .. n + 1
        /\ stream'[n + 1].message = s + 1 /\ \A i \in 1 .. n : stream'[i] = stream[i]
    <3> HIDE DEF Entry
    <3> QED
      BY <1>4, <1>6, <2>1, <2>3
  <2>5. ASSUME valid' = TRUE
        PROVE  /\ \A i, j \in 1 .. n + 1 : i < j => stream'[i].message < stream'[j].message
               /\ {stream'[i].message : i \in 1 .. n + 1} = (1 .. s + 1) \ unserializable
    <3>1. /\ \A i, j \in 1 .. n : i < j => stream[i].message < stream[j].message
          /\ {stream[i].message : i \in 1 .. n} = (1 .. s) \ unserializable
      <4>1. /\ \A i, j \in DOMAIN stream : i < j => stream[i].message < stream[j].message
            /\ {stream[i].message : i \in DOMAIN stream} = (1 .. sent) \ unserializable
        BY <2>2, <2>5 DEF WriteInv, NoGapWhileValid
      <4>2. DOMAIN stream = 1 .. n
        BY <1>5
      <4> QED
        BY <1>3, <4>1, <4>2
    <3>2. \A i \in 1 .. n + 1 : i = n + 1 \/ i \in 1 .. n
      OBVIOUS
    <3>3. \A i \in 1 .. n : stream'[i].message = stream[i].message /\ stream[i].message \in 1 .. s
      BY <1>5, <2>4
    <3>4. ASSUME NEW i \in 1 .. n + 1, NEW j \in 1 .. n + 1, i < j
          PROVE  stream'[i].message < stream'[j].message
      <4>1. i \in 1 .. n
        BY <3>4
      <4>2. stream'[i].message = stream[i].message /\ stream[i].message \in 1 .. s
        BY <3>3, <4>1
      <4>3. CASE j \in 1 .. n
        BY <3>1, <3>3, <3>4, <4>1, <4>2, <4>3
      <4>4. CASE j = n + 1
        <5>1. stream'[j].message = s + 1
          BY <2>4, <4>4
        <5> QED
          BY <4>2, <5>1
      <4> QED
        BY <3>2, <4>3, <4>4
    <3>5. {stream'[i].message : i \in 1 .. n + 1} = {stream[i].message : i \in 1 .. n} \cup {s + 1}
      <4>1. \A i \in 1 .. n : i \in 1 .. n + 1
        OBVIOUS
      <4>2. n + 1 \in 1 .. n + 1 /\ stream'[n + 1].message = s + 1
        BY <2>4
      <4>3. ASSUME NEW x \in {stream'[i].message : i \in 1 .. n + 1}
            PROVE  x \in {stream[i].message : i \in 1 .. n} \cup {s + 1}
        BY <3>2, <3>3, <4>2
      <4>4. ASSUME NEW x \in {stream[i].message : i \in 1 .. n} \cup {s + 1}
            PROVE  x \in {stream'[i].message : i \in 1 .. n + 1}
        BY <3>3, <4>1, <4>2
      <4> QED
        BY <4>3, <4>4
    <3>6. (1 .. s + 1) \ unserializable = ((1 .. s) \ unserializable) \cup {s + 1}
      BY <2>2
    <3> QED
      BY <3>1, <3>4, <3>5, <3>6
  <2> QED
    BY <1>1, <1>2, <1>3, <1>6, <2>4, <2>5 DEF WriteInv, NoGapWhileValid
<1> QED
  BY <1>7, <1>8, <1>9

LEMMA StartStep == StartInv /\ [StartNext]_startVars => StartInv'
<1> SUFFICES ASSUME StartInv, [StartNext]_startVars PROVE StartInv'
  OBVIOUS
<1> USE DEF StartInv, StartTypes
<1>1. CASE OpenFails \/ OpenInvalid \/ NoTransport \/ UNCHANGED startVars
  <2>1. UNCHANGED <<valid, linesOut, linesIn, pending, authorised, agreed, split, negotiated, queued, sent, unserializable, stream>>
        /\ (pc' = pc \/ (pc = "open" /\ pc' = "closed"))
    BY <1>1 DEF OpenFails, OpenInvalid, NoTransport, startVars, saslVars, writeVars
  <2>2. StartTypes' /\ WriteInv'
    BY <2>1 DEF WriteInv, NoGapWhileValid
  <2> QED
    BY <2>1, <2>2 DEF HandshakeInv, Asked, Answered
<1>2. CASE OpenUnixSocket
  <2>1. UNCHANGED <<valid, linesIn, pending, authorised, agreed, split, negotiated, queued, sent, unserializable, stream>>
        /\ pc = "open" /\ pc' = "authenticate" /\ linesOut' = <<"AUTH">>
    BY <1>2 DEF OpenUnixSocket, writeVars
  <2>2. StartTypes' /\ WriteInv'
    BY <2>1 DEF WriteInv, NoGapWhileValid
  <2> QED
    BY <2>1, <2>2 DEF HandshakeInv, Asked
<1>3. CASE BusRegister \/ Flush \/ FlushEnds
  <2>1. UNCHANGED <<valid, linesOut, linesIn, pending, authorised, agreed, split, negotiated, queued, sent, unserializable, stream>>
        /\ pc \in {"hello", "ready", "flush"} /\ pc' \in {"hello", "ready", "flush"}
    BY <1>3 DEF BusRegister, Flush, FlushEnds, saslVars, writeVars
  <2>2. StartTypes' /\ WriteInv'
    BY <2>1 DEF WriteInv, NoGapWhileValid
  <2> QED
    BY <2>1, <2>2 DEF HandshakeInv
<1>4. CASE Enqueue
  <2>1. /\ UNCHANGED <<valid, linesOut, linesIn, pending, authorised, agreed, split, negotiated, sent,
                      stream, pc>>
        /\ pc = "ready" /\ queued' = queued + 1
        /\ unserializable' \in {unserializable, unserializable \cup {sent + queued + 1}}
    BY <1>4 DEF Enqueue, saslVars
  <2>2. sent \in Nat /\ queued \in Nat /\ queued' \in Nat
    BY <2>1 DEF WriteInv
  <2>3. (1 .. sent) \ unserializable' = (1 .. sent) \ unserializable
    BY <2>1, <2>2
  <2>4. StartTypes' /\ WriteInv'
    BY <2>1, <2>2, <2>3 DEF WriteInv, NoGapWhileValid
  <2> QED
    BY <2>1, <2>4 DEF HandshakeInv
<1> QED
  BY <1>1, <1>2, <1>3, <1>4, ServerKeeps, AuthenticateKeeps, NegotiateKeeps, WriteKeeps DEF StartNext

(* When the handshake with a server that sends each line at once is over,   *)
(* nothing of it is left in the socket, the client was let in, and both     *)
(* sides know the same of file descriptors.                                 *)
THEOREM HandshakeIsClean == StartSpec => []HandshakeClean
<1>1. StartInv => HandshakeClean
  BY DEF StartInv, StartTypes, HandshakeInv, HandshakeClean
<1> QED
  BY <1>1, StartInitInv, StartStep, PTL DEF StartSpec

(* While the transport calls itself valid, the bus has got, in order, every *)
(* message that was given to writeMessage and can be serialized, up to one  *)
(* that was cut.                                                            *)
THEOREM NoGapIsHidden == StartSpec => []NoGapWhileValid
<1>1. StartInv => NoGapWhileValid
  BY DEF StartInv, WriteInv
<1> QED
  BY <1>1, StartInitInv, StartStep, PTL DEF StartSpec

(* A connection is opened cleanly: with the first of the sockets of its     *)
(* address that can be opened and takes the nul byte (the abstract name of a *)
(* transport whose path opened but did not take it is passed over), and with *)
(* nothing left over of the handshake.  The address is any in which only    *)
(* the last transport may have no key (AddressAssumption), as the parser    *)
(* reads on over the end of any other.                                      *)
THEOREM OpeningIsClean == StartSpec => []OpensCleanly
<1>1. SocketsInOrder /\ HandshakeClean => OpensCleanly
  BY DEF OpensCleanly
<1> QED
  BY <1>1, SocketsAreTriedInOrder, HandshakeIsClean, PTL

-----------------------------------------------------------------------------
(* Counting members                                                        *)

(* A sequence with one element more. *)
LEMMA AppendAny ==
    ASSUME NEW s, IsSeq(s), NEW x
    PROVE  /\ IsSeq(Append(s, x)) /\ Len(s) \in Nat /\ DOMAIN s = 1 .. Len(s)
           /\ DOMAIN Append(s, x) = 1 .. Len(s) + 1
           /\ \A k \in 1 .. Len(s) : Append(s, x)[k] = s[k]
           /\ Append(s, x)[Len(s) + 1] = x
<1>1. PICK S : s \in Seq(S)
    BY DEF IsSeq
<1> DEFINE T == S \cup {x}
<1>2. s \in Seq(T) /\ x \in T
    BY <1>1
<1> HIDE DEF T
<1>3. Append(s, x) \in Seq(T)
    BY <1>2
<1> QED BY <1>2, <1>3 DEF IsSeq

(* f counts the n positions of S. *)
Counts(f, n, S) == f \in [1 .. n -> S] /\ Enumerates(f, S)

(* p comes after all of the positions in S. *)
ComesAfter(p, S) == p \in Nat /\ S \subseteq Nat /\ \A q \in S : q < p

(* g counts what f counts, and then p. *)
CountsOn(g, f, n, S, p) ==
    /\ Counts(g, n + 1, S \cup {p})
    /\ \A k \in 1 .. n : g[k] = f[k]
    /\ g[n + 1] = p

(* A position after all of those counted is counted next. *)
LEMMA EnumeratesMore ==
    ASSUME NEW n \in Nat, NEW S, NEW f, Counts(f, n, S), NEW p, ComesAfter(p, S)
    PROVE  \E g : CountsOn(g, f, n, S, p)
<1>8. /\ f \in [1 .. n -> S] /\ Enumerates(f, S)
      /\ p \in Nat /\ S \subseteq Nat /\ \A q \in S : q < p
    BY DEF Counts, ComesAfter
<1> DEFINE g == [k \in 1 .. n + 1 |-> IF k = n + 1 THEN p ELSE f[k]]
<1>1. \A k \in 1 .. n : g[k] = f[k] /\ f[k] \in S
    BY <1>8
<1>2. g[n + 1] = p
    OBVIOUS
<1>3. DOMAIN g = 1 .. n + 1
    OBVIOUS
<1>4. g \in [1 .. n + 1 -> S \cup {p}]
    BY <1>8
<1> HIDE DEF g
<1>5. ASSUME NEW k \in DOMAIN g, NEW m \in DOMAIN g, k < m
      PROVE  g[k] < g[m]
    <2>1. k \in 1 .. n
        BY <1>3, <1>5
    <2>2. CASE m = n + 1
        BY <1>1, <1>2, <1>8, <2>1, <2>2
    <2>3. CASE m # n + 1
        <3>1. m \in 1 .. n
            BY <1>3, <2>3
        <3> QED BY <1>1, <1>5, <1>8, <2>1, <3>1 DEF Enumerates
    <2> QED BY <2>2, <2>3
<1>6. ASSUME NEW q \in S \cup {p}
      PROVE  \E k \in DOMAIN g : g[k] = q
    <2>1. CASE q = p
        BY <1>2, <1>3, <2>1
    <2>2. CASE q \in S
        <3>1. PICK k \in 1 .. n : f[k] = q
            BY <1>8, <2>2 DEF Enumerates
        <3> QED BY <1>1, <1>3, <3>1
    <2> QED BY <2>1, <2>2
<1>7. Enumerates(g, S \cup {p})
    BY <1>5, <1>6 DEF Enumerates
<1> QED BY <1>1, <1>2, <1>4, <1>7 DEF Counts, CountsOn

(* An element after all of those named is named next. *)
LEMMA NamedMore ==
    ASSUME NEW infos, IsSeq(infos), NEW d, NEW S, NamedAfter(infos, d, S),
           NEW p, ComesAfter(p, S), NEW info, info.name = NameOf(d, p)
    PROVE  NamedAfter(Append(infos, info), d, S \cup {p}) /\ IsSeq(Append(infos, info))
<1> DEFINE n == Len(infos)
           more == Append(infos, info)
<1>1. /\ IsSeq(more) /\ n \in Nat /\ DOMAIN infos = 1 .. n /\ DOMAIN more = 1 .. n + 1
      /\ \A k \in 1 .. n : more[k] = infos[k]
      /\ more[n + 1] = info
    BY AppendAny
<1> HIDE DEF more, n
<1>2. PICK f : Counts(f, n, S) /\ \A k \in 1 .. n : infos[k].name = NameOf(d, f[k])
    BY <1>1 DEF NamedAfter, Counts
<1>3. PICK g : /\ Counts(g, n + 1, S \cup {p})
               /\ \A k \in 1 .. n : g[k] = f[k]
               /\ g[n + 1] = p
    BY <1>1, <1>2, EnumeratesMore DEF CountsOn
<1>4. ASSUME NEW k \in 1 .. n + 1
      PROVE  more[k].name = NameOf(d, g[k])
    <2>1. CASE k = n + 1
        BY <1>1, <1>3, <2>1
    <2>2. CASE k # n + 1
        <3>1. k \in 1 .. n
            BY <1>1, <2>2
        <3> QED BY <1>1, <1>2, <1>3, <3>1
    <2> QED BY <2>1, <2>2
<1>5. NamedAfter(more, d, S \cup {p})
    BY <1>1, <1>3, <1>4 DEF NamedAfter, Counts
<1> QED BY <1>1, <1>5 DEF more

-----------------------------------------------------------------------------
(* What is open, and what is done, in the first a tags of a document       *)

(* A document the parser can be given, that is readable. *)
IsDocument(d) == /\ Len(d) \in Nat /\ DOMAIN d = 1 .. Len(d)
                 /\ \A p \in DOMAIN d : d[p].start \in BOOLEAN
                 /\ Readable(d)
AnInterface == "interface"
AMethod == "method"
ASignal == "signal"
Containers == {AnInterface, AMethod, ASignal}
(* The elements that began and did not end yet, and those that did. *)
Open(d, tag, a) ==
    {p \in 1 .. a : d[p].start /\ d[p].tag = tag /\ \A n \in 1 .. a : ~Closes(d, p, n)}
Done(d, tag, a) ==
    {p \in 1 .. a : d[p].start /\ d[p].tag = tag /\ \E n \in 1 .. a : Closes(d, p, n)}

(* An element has one end, and an end is that of one element. *)
LEMMA ClosesOnce ==
    ASSUME NEW d, NEW p \in Int, NEW n \in Int, NEW m \in Int, Closes(d, p, n), Closes(d, p, m)
    PROVE  n = m
<1>1. p < n /\ p < m /\ d[n].tag = d[p].tag /\ d[m].tag = d[p].tag
    BY DEF Closes
<1>2. ~(n < m)
    <2>1. n < m => n \in p + 1 .. m - 1
        BY <1>1
    <2> QED BY <1>1, <2>1 DEF Closes
<1>3. ~(m < n)
    <2>1. m < n => m \in p + 1 .. n - 1
        BY <1>1
    <2> QED BY <1>1, <2>1 DEF Closes
<1> QED BY <1>2, <1>3

LEMMA OpenedOnce ==
    ASSUME NEW d, NEW p \in Int, NEW q \in Int, NEW n \in Int, Closes(d, p, n), Closes(d, q, n)
    PROVE  p = q
<1>1. p < n /\ q < n /\ d[n].tag = d[p].tag /\ d[n].tag = d[q].tag
    BY DEF Closes
<1>2. ~(p < q)
    <2>1. p < q => q \in p + 1 .. n - 1
        BY <1>1
    <2> QED BY <1>1, <2>1 DEF Closes
<1>3. ~(q < p)
    <2>1. q < p => p \in q + 1 .. n - 1
        BY <1>1
    <2> QED BY <1>1, <2>1 DEF Closes
<1> QED BY <1>2, <1>3

(* In a readable document each of these elements has its end. *)
LEMMA IsClosed ==
    ASSUME NEW d, IsDocument(d), NEW p \in 1 .. Len(d), d[p].tag \in Containers
    PROVE  /\ d[p].start => \E n \in 1 .. Len(d) : Closes(d, p, n)
           /\ ~d[p].start => \E n \in 1 .. Len(d) : Closes(d, n, p)
<1>1. d[p].tag \in Members \cup {"interface"}
    BY DEF Containers, AnInterface, AMethod, ASignal, Members
<1> QED BY <1>1 DEF IsDocument, Readable

(* An element that is open is closed after the next tag of that name. *)
LEMMA OpenIsNotNested ==
    ASSUME NEW d, IsDocument(d), NEW a \in 0 .. Len(d) - 1, NEW tag \in Containers,
           NEW p \in Open(d, tag, a), d[a + 1].tag = tag
    PROVE  Closes(d, p, a + 1)
<1>1. /\ p \in 1 .. a /\ d[p].start /\ d[p].tag = tag /\ p \in 1 .. Len(d) /\ Len(d) \in Nat
      /\ \A n \in 1 .. a : ~Closes(d, p, n)
    BY DEF Open, IsDocument
<1>2. PICK n \in 1 .. Len(d) : Closes(d, p, n)
    BY <1>1, IsClosed
<1>3. n > a
    BY <1>1, <1>2
<1>4. CASE n = a + 1
    BY <1>2, <1>4
<1>5. CASE n # a + 1
    <2>1. a + 1 \in p + 1 .. n - 1
        BY <1>1, <1>3, <1>5
    <2> QED BY <1>1, <1>2, <2>1 DEF Closes
<1> QED BY <1>4, <1>5

(* A start opens one element; its end leaves none of its kind open. *)
LEMMA StartOpens ==
    ASSUME NEW d, IsDocument(d), NEW a \in 0 .. Len(d) - 1, NEW tag \in Containers,
           d[a + 1].tag = tag, d[a + 1].start
    PROVE  Open(d, tag, a + 1) = {a + 1} /\ Done(d, tag, a + 1) = Done(d, tag, a)
<1>1. Len(d) \in Nat /\ \A p : ~Closes(d, p, a + 1)
    BY DEF Closes, IsDocument
<1>2. Open(d, tag, a) = {}
    BY <1>1, OpenIsNotNested
<1>3. \A n \in 1 .. a + 1 : ~Closes(d, a + 1, n)
    BY DEF Closes
<1>4. \A n \in 1 .. a + 1 : n \in 1 .. a \/ n = a + 1
    OBVIOUS
<1>5. Open(d, tag, a + 1) = {a + 1}
    BY <1>1, <1>2, <1>3, <1>4 DEF Open
<1>6. Done(d, tag, a + 1) = Done(d, tag, a)
    BY <1>1, <1>3, <1>4 DEF Done
<1> QED BY <1>5, <1>6

LEMMA EndCloses ==
    ASSUME NEW d, IsDocument(d), NEW a \in 0 .. Len(d) - 1, NEW tag \in Containers,
           d[a + 1].tag = tag, ~d[a + 1].start
    PROVE  \E p \in Open(d, tag, a) :
              /\ Closes(d, p, a + 1)
              /\ Open(d, tag, a + 1) = {} /\ Done(d, tag, a + 1) = Done(d, tag, a) \cup {p}
              /\ \A q \in Done(d, tag, a) : q < p
<1>1. Len(d) \in Nat /\ a + 1 \in 1 .. Len(d)
    BY DEF IsDocument
<1>2. PICK p \in 1 .. Len(d) : Closes(d, p, a + 1)
    BY <1>1, IsClosed
<1>3. p \in 1 .. a /\ d[p].start /\ d[p].tag = tag
    BY <1>2 DEF Closes
<1>4. \A n \in 1 .. a : ~Closes(d, p, n)
    <2> SUFFICES ASSUME NEW n \in 1 .. a, Closes(d, p, n)
                 PROVE  FALSE
        OBVIOUS
    <2>1. n = a + 1
        BY <1>2, ClosesOnce
    <2> QED BY <2>1
<1>5. p \in Open(d, tag, a)
    BY <1>3, <1>4 DEF Open
<1>6. \A n \in 1 .. a + 1 : n \in 1 .. a \/ n = a + 1
    OBVIOUS
<1>7. \A q \in Open(d, tag, a) : q = p
    <2> TAKE q \in Open(d, tag, a)
    <2>1. Closes(d, q, a + 1)
        BY OpenIsNotNested
    <2>2. q \in Int
        BY DEF Open
    <2> QED BY <1>2, <2>1, <2>2, OpenedOnce
<1>8. Open(d, tag, a + 1) = {}
    <2> SUFFICES ASSUME NEW q \in Open(d, tag, a + 1)
                 PROVE  FALSE
        OBVIOUS
    <2>1. q \in 1 .. a + 1 /\ d[q].start /\ d[q].tag = tag
            /\ \A n \in 1 .. a + 1 : ~Closes(d, q, n)
        BY DEF Open
    <2>2. q \in 1 .. a
        BY <2>1, <1>6
    <2>3. q \in Open(d, tag, a)
        BY <2>1, <2>2, <1>6 DEF Open
    <2> QED BY <1>2, <1>7, <2>1, <2>3
<1>9. Done(d, tag, a + 1) = Done(d, tag, a) \cup {p}
    <2>1. ASSUME NEW q \in Done(d, tag, a + 1)
          PROVE  q \in Done(d, tag, a) \cup {p}
        <3>1. PICK n \in 1 .. a + 1 : Closes(d, q, n)
            BY DEF Done
        <3>2. q \in 1 .. a + 1 /\ d[q].start /\ d[q].tag = tag
            BY DEF Done
        <3>3. q \in 1 .. a
            BY <1>6, <3>2
        <3>4. CASE n = a + 1
            <4>1. q = p
                BY <1>2, <3>1, <3>3, <3>4, OpenedOnce
            <4> QED BY <4>1
        <3>5. CASE n \in 1 .. a
            BY <3>1, <3>2, <3>3, <3>5 DEF Done
        <3> QED BY <1>6, <3>4, <3>5
    <2>2. Done(d, tag, a) \subseteq Done(d, tag, a + 1)
        BY DEF Done
    <2>3. p \in Done(d, tag, a + 1)
        BY <1>2, <1>3 DEF Done
    <2> QED BY <2>1, <2>2, <2>3
<1>10. \A q \in Done(d, tag, a) : q < p
    <2> TAKE q \in Done(d, tag, a)
    <2>1. PICK n \in 1 .. a : Closes(d, q, n)
        BY DEF Done
    <2>2. q \in 1 .. a /\ d[q].start /\ d[q].tag = tag
        BY DEF Done
    <2>3. q # p
        BY <1>4, <2>1
    <2>4. ~(q > p)
        <3>1. q > p => q \in p + 1 .. (a + 1) - 1
            BY <1>3, <2>2
        <3> QED BY <1>2, <1>3, <2>2, <3>1 DEF Closes
    <2> QED BY <1>3, <2>2, <2>3, <2>4
<1> QED BY <1>2, <1>5, <1>8, <1>9, <1>10

(* A tag of another kind opens and closes none of this kind. *)
LEMMA OtherTagKeeps ==
    ASSUME NEW d, IsDocument(d), NEW a \in 0 .. Len(d) - 1, NEW tag, d[a + 1].tag # tag
    PROVE  Open(d, tag, a + 1) = Open(d, tag, a) /\ Done(d, tag, a + 1) = Done(d, tag, a)
<1>1. \A p : d[p].tag = tag => ~Closes(d, p, a + 1)
    BY DEF Closes
<1>2. \A n \in 1 .. a + 1 : n \in 1 .. a \/ n = a + 1
    OBVIOUS
<1> QED BY <1>1, <1>2 DEF Open, Done

-----------------------------------------------------------------------------
(* What the generator knows of the document after its first a tags         *)

(* The methods and signals, the properties of an interface that is open, *)
(* and the interfaces to be kept. *)
After(S, p) == {q \in S : q > p}
KeptProperty(d, q) == d[q].start /\ d[q].tag = "property" /\ Complete(d[q].attrs)
PropertiesFrom(d, p, a) == {q \in p .. a : KeptProperty(d, q)}
IgnoredAt(d, p) == ValueOf(d[p].attrs, "ignored") = "true"
NotIgnoredDone(d, a) == {p \in Done(d, AnInterface, a) : ~IgnoredAt(d, p)}

(* The current interface has what was read since the open one began, *)
(* and the node the interfaces that were read before. *)
InInterface(i, d, p, a) ==
    /\ i.name = d[p].attrs["name"]
    /\ NamedAfter(i.methods, d, After(Done(d, AMethod, a), p))
    /\ NamedAfter(i.signals, d, After(Done(d, ASignal, a), p))
    /\ NamedAfter(i.properties, d, PropertiesFrom(d, p, a))
InterfacesRead(infos, d, a) ==
    \E f : /\ Counts(f, Len(infos), NotIgnoredDone(d, a))
           /\ \A k \in 1 .. Len(infos) : Describes(infos[k], d, f[k])

(* The fields of what is remembered. *)
InterfaceShape(i) ==
    /\ i = [name |-> i.name, cppname |-> i.cppname, methods |-> i.methods,
            signals |-> i.signals, properties |-> i.properties]
    /\ IsSeq(i.methods) /\ IsSeq(i.signals) /\ IsSeq(i.properties)
MethodShape(m) == m = [name |-> m.name, ret |-> m.ret, args |-> m.args]
SignalShape(s) == s = [name |-> s.name, args |-> s.args]
NodeShape(r) ==
    /\ r = [path |-> r.path, dest |-> r.dest, cppname |-> r.cppname, interfaces |-> r.interfaces]
    /\ IsSeq(r.interfaces)

(* What is current is what is open. *)
InterfaceRead(d, a, i, ignored) ==
    \A p \in Open(d, AnInterface, a) : InInterface(i, d, p, a) /\ ignored = IgnoredAt(d, p)
MethodRead(d, a, m) == \A q \in Open(d, AMethod, a) : m.name = NameOf(d, q)
SignalRead(d, a, s) == \A q \in Open(d, ASignal, a) : s.name = NameOf(d, q)
State(d, a, i, m, s, ignored, r) ==
    /\ InterfaceShape(i) /\ MethodShape(m) /\ SignalShape(s) /\ NodeShape(r)
    /\ InterfacesRead(r.interfaces, d, a)
    /\ InterfaceRead(d, a, i, ignored)
    /\ MethodRead(d, a, m)
    /\ SignalRead(d, a, s)
(* The document has another tag. *)
GoesOn(d, a) == IsDocument(d) /\ a \in 0 .. Len(d) - 1 /\ a + 1 \in DOMAIN d /\ Len(d) \in Nat

(* The inductive invariant: it says nothing of a document that is not *)
(* readable. *)
ReadInv ==
    /\ doc \in Documents /\ at \in 0 .. Len(doc)
    /\ Readable(doc) =>
          State(doc, at, currentInterface, currentMethodInfo, currentSignal, ignoreInterface, rootNode)

(* The names of the elements that hold others. *)
LEMMA Tags == /\ AnInterface \in Containers /\ AMethod \in Containers /\ ASignal \in Containers
              /\ AnInterface # AMethod /\ AnInterface # ASignal /\ AMethod # ASignal
BY DEF Containers, AnInterface, AMethod, ASignal

(* Where the sets stay as they are. *)
LEMMA DoneKeeps ==
    ASSUME NEW d, NEW a, GoesOn(d, a), NEW tag \in Containers, d[a + 1].tag # tag \/ d[a + 1].start
    PROVE  Done(d, tag, a + 1) = Done(d, tag, a)
<1>1. CASE d[a + 1].tag # tag
    BY <1>1, OtherTagKeeps DEF GoesOn
<1>2. CASE d[a + 1].tag = tag /\ d[a + 1].start
    BY <1>2, StartOpens DEF GoesOn
<1> QED BY <1>1, <1>2

(* A tag of another kind leaves each part of the state as it is. *)
LEMMA InterfacesReadKeeps ==
    ASSUME NEW d, NEW a, GoesOn(d, a), NEW infos, InterfacesRead(infos, d, a),
           d[a + 1].tag # AnInterface \/ d[a + 1].start
    PROVE  InterfacesRead(infos, d, a + 1)
<1>1. Done(d, AnInterface, a + 1) = Done(d, AnInterface, a)
    BY Tags, DoneKeeps
<1>2. NotIgnoredDone(d, a + 1) = NotIgnoredDone(d, a)
    BY <1>1 DEF NotIgnoredDone
<1> QED BY <1>2 DEF InterfacesRead

LEMMA MethodReadKeeps ==
    ASSUME NEW d, NEW a, GoesOn(d, a), NEW m, MethodRead(d, a, m), NEW n, n.name = m.name,
           d[a + 1].tag # AMethod
    PROVE  MethodRead(d, a + 1, n)
<1>1. Open(d, AMethod, a + 1) = Open(d, AMethod, a)
    BY OtherTagKeeps DEF GoesOn
<1> QED BY <1>1 DEF MethodRead

LEMMA SignalReadKeeps ==
    ASSUME NEW d, NEW a, GoesOn(d, a), NEW m, SignalRead(d, a, m), NEW n, n.name = m.name,
           d[a + 1].tag # ASignal
    PROVE  SignalRead(d, a + 1, n)
<1>1. Open(d, ASignal, a + 1) = Open(d, ASignal, a)
    BY OtherTagKeeps DEF GoesOn
<1> QED BY <1>1 DEF SignalRead

LEMMA PropertiesKeep ==
    ASSUME NEW d, NEW a, GoesOn(d, a), NEW p \in 1 .. a,
           ~KeptProperty(d, a + 1)
    PROVE  PropertiesFrom(d, p, a + 1) = PropertiesFrom(d, p, a)
<1>1. a \in Nat
    BY DEF GoesOn
<1>2. \A q \in p .. a + 1 : q \in p .. a \/ q = a + 1
    BY <1>1
<1>3. \A q \in p .. a : q \in p .. a + 1
    BY <1>1
<1> QED BY <1>2, <1>3 DEF PropertiesFrom

LEMMA InterfaceReadKeeps ==
    ASSUME NEW d, NEW a, GoesOn(d, a), NEW i, NEW ignored, InterfaceRead(d, a, i, ignored),
           d[a + 1].tag # AnInterface,
           d[a + 1].tag \notin {AMethod, ASignal} \/ d[a + 1].start,
           ~KeptProperty(d, a + 1)
    PROVE  InterfaceRead(d, a + 1, i, ignored)
<1>1. Open(d, AnInterface, a + 1) = Open(d, AnInterface, a)
    BY OtherTagKeeps DEF GoesOn
<1>2. Done(d, AMethod, a + 1) = Done(d, AMethod, a) /\ Done(d, ASignal, a + 1) = Done(d, ASignal, a)
    BY Tags, DoneKeeps
<1>3. ASSUME NEW p \in Open(d, AnInterface, a)
      PROVE  PropertiesFrom(d, p, a + 1) = PropertiesFrom(d, p, a)
    <2>1. p \in 1 .. a
        BY DEF Open
    <2> QED BY <2>1, PropertiesKeep
<1> QED BY <1>1, <1>2, <1>3 DEF InterfaceRead, InInterface

(* A tag of no interface, method, signal or property. *)
LEMMA QuietKeeps ==
    ASSUME NEW d, NEW a, GoesOn(d, a), NEW i, NEW m, NEW s, NEW ignored, NEW r,
           State(d, a, i, m, s, ignored, r),
           d[a + 1].tag \notin Containers, ~KeptProperty(d, a + 1),
           NEW n, MethodShape(n), n.name = m.name, NEW t, SignalShape(t), t.name = s.name
    PROVE  State(d, a + 1, i, n, t, ignored, r)
<1>1. d[a + 1].tag # AnInterface /\ d[a + 1].tag # AMethod /\ d[a + 1].tag # ASignal
    BY Tags
<1>2. InterfacesRead(r.interfaces, d, a + 1)
    BY <1>1, InterfacesReadKeeps DEF State
<1>3. InterfaceRead(d, a + 1, i, ignored)
    BY <1>1, InterfaceReadKeeps DEF State
<1>4. MethodRead(d, a + 1, n) /\ SignalRead(d, a + 1, t)
    BY <1>1, MethodReadKeeps, SignalReadKeeps DEF State
<1> QED BY <1>2, <1>3, <1>4 DEF State

(* At first nothing is named. *)
LEMMA NothingNamed ==
    ASSUME NEW infos, infos = <<>>, NEW d
    PROVE  NamedAfter(infos, d, {}) /\ IsSeq(infos)
<1>1. <<>> \in [DOMAIN infos -> {}] /\ DOMAIN infos = {} /\ <<>> \in Seq({})
    OBVIOUS
<1> QED BY <1>1 DEF NamedAfter, Enumerates, IsSeq

LEMMA NoInterfacesRead ==
    ASSUME NEW infos, infos = <<>>, NEW d, NEW a, NotIgnoredDone(d, a) = {}
    PROVE  InterfacesRead(infos, d, a) /\ IsSeq(infos)
<1>1. <<>> \in [1 .. 0 -> {}] /\ Len(infos) = 0 /\ <<>> \in Seq({}) /\ DOMAIN <<>> = {}
    OBVIOUS
<1>2. Counts(<<>>, 0, {})
    BY <1>1 DEF Counts, Enumerates
<1> QED BY <1>1, <1>2 DEF InterfacesRead, IsSeq

(* The tag of a node comes before all others. *)
LEMMA NodeKeeps ==
    ASSUME NEW d, NEW a, GoesOn(d, a), NEW i, NEW m, NEW s, NEW ignored, NEW r,
           State(d, a, i, m, s, ignored, r), d[a + 1].start, d[a + 1].tag = "node",
           NEW n, NodeShape(n), n.interfaces = <<>>
    PROVE  State(d, a + 1, i, m, s, ignored, n)
<1>1. d[a + 1].tag \notin Containers /\ ~KeptProperty(d, a + 1)
    BY DEF Containers, AnInterface, AMethod, ASignal, KeptProperty
<1>2. State(d, a + 1, i, m, s, ignored, r)
    <2>1. MethodShape(m) /\ SignalShape(s)
        BY DEF State
    <2> QED BY <1>1, <2>1, QuietKeeps
<1>3. a + 1 = 1
    BY DEF GoesOn, IsDocument, Readable, IsStart
<1>4. Done(d, AnInterface, a + 1) = {}
    BY <1>3 DEF Done, Closes
<1>5. InterfacesRead(n.interfaces, d, a + 1)
    BY <1>4, NoInterfacesRead DEF NotIgnoredDone
<1> QED BY <1>2, <1>5 DEF State

(* An interface that begins is empty, a method or a signal has its name. *)
LEMMA InterfaceStartKeeps ==
    ASSUME NEW d, NEW a, GoesOn(d, a), NEW i, NEW m, NEW s, NEW ignored, NEW r,
           State(d, a, i, m, s, ignored, r), d[a + 1].start, d[a + 1].tag = AnInterface,
           NEW j, InterfaceShape(j), j.name = d[a + 1].attrs["name"],
           j.methods = <<>>, j.signals = <<>>, j.properties = <<>>
    PROVE  State(d, a + 1, j, m, s, IgnoredAt(d, a + 1), r)
<1>1. d[a + 1].tag # AMethod /\ d[a + 1].tag # ASignal
    BY Tags
<1>2. InterfacesRead(r.interfaces, d, a + 1)
    BY InterfacesReadKeeps DEF State
<1>3. MethodRead(d, a + 1, m) /\ SignalRead(d, a + 1, s)
    BY <1>1, MethodReadKeeps, SignalReadKeeps DEF State
<1>4. Open(d, AnInterface, a + 1) = {a + 1}
    BY Tags, StartOpens DEF GoesOn
<1>5. /\ After(Done(d, AMethod, a + 1), a + 1) = {} /\ After(Done(d, ASignal, a + 1), a + 1) = {}
      /\ PropertiesFrom(d, a + 1, a + 1) = {}
    <2>1. a \in Nat
        BY DEF GoesOn
    <2>2. \A tag : \A q \in Done(d, tag, a + 1) : ~(q > a + 1)
        BY <2>1 DEF Done
    <2>3. \A q \in a + 1 .. a + 1 : q = a + 1
        BY <2>1
    <2>4. ~KeptProperty(d, a + 1)
        BY DEF AnInterface, KeptProperty
    <2> QED BY <2>2, <2>3, <2>4 DEF After, PropertiesFrom
<1>6. InInterface(j, d, a + 1, a + 1)
    BY <1>5, NothingNamed DEF InInterface
<1>7. InterfaceRead(d, a + 1, j, IgnoredAt(d, a + 1))
    BY <1>4, <1>6 DEF InterfaceRead
<1> QED BY <1>2, <1>3, <1>7 DEF State

LEMMA MethodStartKeeps ==
    ASSUME NEW d, NEW a, GoesOn(d, a), NEW i, NEW m, NEW s, NEW ignored, NEW r,
           State(d, a, i, m, s, ignored, r), d[a + 1].start, d[a + 1].tag = AMethod,
           NEW n, MethodShape(n), n.name = NameOf(d, a + 1)
    PROVE  State(d, a + 1, i, n, s, ignored, r)
<1>1. d[a + 1].tag # AnInterface /\ d[a + 1].tag # ASignal /\ ~KeptProperty(d, a + 1)
    BY Tags DEF AMethod, KeptProperty
<1>2. InterfacesRead(r.interfaces, d, a + 1)
    BY InterfacesReadKeeps DEF State
<1>3. InterfaceRead(d, a + 1, i, ignored) /\ SignalRead(d, a + 1, s)
    BY <1>1, InterfaceReadKeeps, SignalReadKeeps DEF State
<1>4. Open(d, AMethod, a + 1) = {a + 1}
    BY Tags, StartOpens DEF GoesOn
<1>5. MethodRead(d, a + 1, n)
    BY <1>4 DEF MethodRead
<1> QED BY <1>2, <1>3, <1>5 DEF State

LEMMA SignalStartKeeps ==
    ASSUME NEW d, NEW a, GoesOn(d, a), NEW i, NEW m, NEW s, NEW ignored, NEW r,
           State(d, a, i, m, s, ignored, r), d[a + 1].start, d[a + 1].tag = ASignal,
           NEW n, SignalShape(n), n.name = NameOf(d, a + 1)
    PROVE  State(d, a + 1, i, m, n, ignored, r)
<1>1. d[a + 1].tag # AnInterface /\ d[a + 1].tag # AMethod /\ ~KeptProperty(d, a + 1)
    BY Tags DEF ASignal, KeptProperty
<1>2. InterfacesRead(r.interfaces, d, a + 1)
    BY InterfacesReadKeeps DEF State
<1>3. InterfaceRead(d, a + 1, i, ignored) /\ MethodRead(d, a + 1, m)
    BY <1>1, InterfaceReadKeeps, MethodReadKeeps DEF State
<1>4. Open(d, ASignal, a + 1) = {a + 1}
    BY Tags, StartOpens DEF GoesOn
<1>5. SignalRead(d, a + 1, n)
    BY <1>4 DEF SignalRead
<1> QED BY <1>2, <1>3, <1>5 DEF State

(* A complete property joins those of the interface it is in. *)
LEMMA PropertyKeeps ==
    ASSUME NEW d, NEW a, GoesOn(d, a), NEW i, NEW m, NEW s, NEW ignored, NEW r,
           State(d, a, i, m, s, ignored, r), KeptProperty(d, a + 1),
           NEW info, info.name = NameOf(d, a + 1)
    PROVE  State(d, a + 1, [i EXCEPT !.properties = Append(@, info)], m, s, ignored, r)
<1> DEFINE j == [i EXCEPT !.properties = Append(@, info)]
<1>1. /\ d[a + 1].tag # AnInterface /\ d[a + 1].tag # AMethod /\ d[a + 1].tag # ASignal
      /\ d[a + 1].start
    BY DEF AnInterface, AMethod, ASignal, KeptProperty
<1>2. InterfacesRead(r.interfaces, d, a + 1)
    BY <1>1, InterfacesReadKeeps DEF State
<1>3. MethodRead(d, a + 1, m) /\ SignalRead(d, a + 1, s)
    BY <1>1, MethodReadKeeps, SignalReadKeeps DEF State
<1>4. InterfaceShape(i)
    BY DEF State
<1>5. j = [name |-> i.name, cppname |-> i.cppname, methods |-> i.methods,
           signals |-> i.signals, properties |-> Append(i.properties, info)]
    <2>1. PICK n, c, x, y, z :
              i = [name |-> n, cppname |-> c, methods |-> x, signals |-> y, properties |-> z]
        BY <1>4 DEF InterfaceShape
    <2>2. i.name = n /\ i.cppname = c /\ i.methods = x /\ i.signals = y /\ i.properties = z
        BY <2>1
    <2>3. j = [name |-> n, cppname |-> c, methods |-> x, signals |-> y,
               properties |-> Append(z, info)]
        BY <2>1
    <2> QED BY <2>2, <2>3
<1> HIDE DEF j
<1>6. InterfaceShape(j)
    BY <1>4, <1>5, AppendAny DEF InterfaceShape
<1>7. Open(d, AnInterface, a + 1) = Open(d, AnInterface, a)
    BY <1>1, OtherTagKeeps DEF GoesOn
<1>8. Done(d, AMethod, a + 1) = Done(d, AMethod, a) /\ Done(d, ASignal, a + 1) = Done(d, ASignal, a)
    BY <1>1, Tags, DoneKeeps
<1>9. ASSUME NEW p \in Open(d, AnInterface, a)
      PROVE  InInterface(j, d, p, a + 1) /\ ignored = IgnoredAt(d, p)
    <2>1. a \in Nat /\ p \in 1 .. a
        BY DEF GoesOn, Open
    <2>2. PropertiesFrom(d, p, a + 1) = PropertiesFrom(d, p, a) \cup {a + 1}
        <3>1. \A q : q \in p .. a + 1 <=> q \in p .. a \/ q = a + 1
            BY <2>1
        <3> QED BY <3>1 DEF PropertiesFrom
    <2>3. ComesAfter(a + 1, PropertiesFrom(d, p, a))
        BY <2>1 DEF ComesAfter, PropertiesFrom
    <2>4. InInterface(i, d, p, a) /\ ignored = IgnoredAt(d, p)
        BY DEF State, InterfaceRead
    <2>5. NamedAfter(Append(i.properties, info), d, PropertiesFrom(d, p, a) \cup {a + 1})
        <3>1. NamedAfter(i.properties, d, PropertiesFrom(d, p, a)) /\ IsSeq(i.properties)
            BY <1>4, <2>4 DEF InInterface, InterfaceShape
        <3> QED BY <2>3, <3>1, NamedMore
    <2>6. j.name = i.name /\ j.methods = i.methods /\ j.signals = i.signals
            /\ j.properties = Append(i.properties, info)
        BY <1>5
    <2> QED BY <1>8, <2>2, <2>4, <2>5, <2>6 DEF InInterface
<1>10. InterfaceRead(d, a + 1, j, ignored)
    BY <1>7, <1>9 DEF InterfaceRead
<1> QED BY <1>2, <1>3, <1>6, <1>10 DEF State, j

(* A method or a signal that ends joins those of the interface it is in. *)
LEMMA MemberEnds ==
    ASSUME NEW d, NEW a, GoesOn(d, a), NEW tag \in {AMethod, ASignal},
           d[a + 1].tag = tag, ~d[a + 1].start
    PROVE  /\ Open(d, tag, a + 1) = {}
           /\ \E q \in Open(d, tag, a) : \A p \in Open(d, AnInterface, a) :
                 /\ After(Done(d, tag, a + 1), p) = After(Done(d, tag, a), p) \cup {q}
                 /\ ComesAfter(q, After(Done(d, tag, a), p))
<1>1. IsDocument(d) /\ a \in 0 .. Len(d) - 1 /\ Len(d) \in Nat /\ tag \in Containers
        /\ a \in Nat /\ a + 1 \in 1 .. Len(d)
    BY Tags DEF GoesOn
<1>2. PICK q \in Open(d, tag, a) :
          /\ Closes(d, q, a + 1)
          /\ Open(d, tag, a + 1) = {} /\ Done(d, tag, a + 1) = Done(d, tag, a) \cup {q}
          /\ \A m \in Done(d, tag, a) : m < q
    BY <1>1, EndCloses
<1>3. q \in 1 .. a /\ q \in 1 .. Len(d) /\ d[q].tag = tag /\ d[q].start
    BY <1>1 DEF Open
<1>4. ASSUME NEW p \in Open(d, AnInterface, a)
      PROVE  p < q
    <2>1. p \in 1 .. a /\ d[p].start /\ d[p].tag = AnInterface /\ p \in 1 .. Len(d)
            /\ \A n \in 1 .. a : ~Closes(d, p, n)
        BY <1>1 DEF Open
    <2>2. PICK n \in 1 .. Len(d) : Closes(d, p, n)
        BY <1>1, <2>1, Tags, IsClosed
    <2>3. n # a + 1
        BY <2>1, <2>2, Tags DEF Closes
    <2>4. a + 1 \in p .. n
        BY <1>1, <2>1, <2>2, <2>3
    <2>5. IsStart(d, p, "interface") /\ d[q].tag \in Members
        BY <1>3, <2>1 DEF IsStart, AnInterface, Members, AMethod, ASignal
    <2>6. q \in p .. n <=> a + 1 \in p .. n
        BY <1>1, <1>2, <1>3, <2>1, <2>2, <2>5 DEF IsDocument, Readable
    <2>7. p # q
        BY <1>3, <2>1, Tags
    <2> QED BY <1>3, <2>1, <2>4, <2>6, <2>7
<1>5. ASSUME NEW p \in Open(d, AnInterface, a)
      PROVE  /\ After(Done(d, tag, a + 1), p) = After(Done(d, tag, a), p) \cup {q}
             /\ ComesAfter(q, After(Done(d, tag, a), p))
    <2>1. After(Done(d, tag, a + 1), p) = After(Done(d, tag, a), p) \cup {q}
        BY <1>2, <1>4 DEF After
    <2>2. After(Done(d, tag, a), p) \subseteq Nat
        BY <1>1 DEF After, Done
    <2> QED BY <1>2, <1>3, <2>1, <2>2 DEF ComesAfter, After
<1> QED BY <1>2, <1>5

(* One field of the current interface changes. *)
LEMMA ExceptMethods ==
    ASSUME NEW i, InterfaceShape(i), NEW v
    PROVE  [i EXCEPT !.methods = Append(@, v)] =
               [name |-> i.name, cppname |-> i.cppname, methods |-> Append(i.methods, v),
                signals |-> i.signals, properties |-> i.properties]
<1>1. PICK n, c, x, y, z :
          i = [name |-> n, cppname |-> c, methods |-> x, signals |-> y, properties |-> z]
    BY DEF InterfaceShape
<1> QED BY <1>1

LEMMA ExceptSignals ==
    ASSUME NEW i, InterfaceShape(i), NEW v
    PROVE  [i EXCEPT !.signals = Append(@, v)] =
               [name |-> i.name, cppname |-> i.cppname, methods |-> i.methods,
                signals |-> Append(i.signals, v), properties |-> i.properties]
<1>1. PICK n, c, x, y, z :
          i = [name |-> n, cppname |-> c, methods |-> x, signals |-> y, properties |-> z]
    BY DEF InterfaceShape
<1> QED BY <1>1

(* So the end of a method or a signal keeps the state. *)
LEMMA MethodEndKeeps ==
    ASSUME NEW d, NEW a, GoesOn(d, a), NEW i, NEW m, NEW s, NEW ignored, NEW r,
           State(d, a, i, m, s, ignored, r), ~d[a + 1].start, d[a + 1].tag = AMethod
    PROVE  State(d, a + 1, [i EXCEPT !.methods = Append(@, m)], m, s, ignored, r)
<1> DEFINE j == [i EXCEPT !.methods = Append(@, m)]
<1>1. d[a + 1].tag # AnInterface /\ d[a + 1].tag # ASignal /\ ~KeptProperty(d, a + 1)
    BY Tags DEF AMethod, KeptProperty
<1>2. InterfacesRead(r.interfaces, d, a + 1)
    BY <1>1, InterfacesReadKeeps DEF State
<1>3. SignalRead(d, a + 1, s)
    BY <1>1, SignalReadKeeps DEF State
<1>4. InterfaceShape(i)
    BY DEF State
<1>5. j = [name |-> i.name, cppname |-> i.cppname, methods |-> Append(i.methods, m),
           signals |-> i.signals, properties |-> i.properties]
    BY <1>4, ExceptMethods
<1> HIDE DEF j
<1>6. InterfaceShape(j)
    BY <1>4, <1>5, AppendAny DEF InterfaceShape
<1>7. Open(d, AnInterface, a + 1) = Open(d, AnInterface, a)
    BY <1>1, OtherTagKeeps DEF GoesOn
<1>8. Done(d, ASignal, a + 1) = Done(d, ASignal, a)
    BY <1>1, Tags, DoneKeeps
<1>9. PICK q \in Open(d, AMethod, a) : \A p \in Open(d, AnInterface, a) :
          /\ After(Done(d, AMethod, a + 1), p) = After(Done(d, AMethod, a), p) \cup {q}
          /\ ComesAfter(q, After(Done(d, AMethod, a), p))
    BY MemberEnds
<1>10. Open(d, AMethod, a + 1) = {}
    BY MemberEnds
<1>11. m.name = NameOf(d, q)
    BY <1>9 DEF State, MethodRead
<1>12. ASSUME NEW p \in Open(d, AnInterface, a)
       PROVE  InInterface(j, d, p, a + 1) /\ ignored = IgnoredAt(d, p)
    <2>1. p \in 1 .. a
        BY DEF Open
    <2>2. PropertiesFrom(d, p, a + 1) = PropertiesFrom(d, p, a)
        BY <1>1, <2>1, PropertiesKeep
    <2>3. InInterface(i, d, p, a) /\ ignored = IgnoredAt(d, p)
        BY DEF State, InterfaceRead
    <2>4. NamedAfter(Append(i.methods, m), d, After(Done(d, AMethod, a), p) \cup {q})
        <3>1. NamedAfter(i.methods, d, After(Done(d, AMethod, a), p)) /\ IsSeq(i.methods)
            BY <1>4, <2>3 DEF InInterface, InterfaceShape
        <3>2. ComesAfter(q, After(Done(d, AMethod, a), p))
            BY <1>9
        <3> QED BY <1>11, <3>1, <3>2, NamedMore
    <2>5. j.name = i.name /\ j.methods = Append(i.methods, m) /\ j.signals = i.signals
            /\ j.properties = i.properties
        BY <1>5
    <2>6. After(Done(d, AMethod, a + 1), p) = After(Done(d, AMethod, a), p) \cup {q}
        BY <1>9
    <2> QED BY <1>8, <2>2, <2>3, <2>4, <2>5, <2>6 DEF InInterface
<1>13. InterfaceRead(d, a + 1, j, ignored)
    BY <1>7, <1>12 DEF InterfaceRead
<1>14. MethodRead(d, a + 1, m)
    BY <1>10 DEF MethodRead
<1> QED BY <1>2, <1>3, <1>6, <1>13, <1>14 DEF State, j

LEMMA SignalEndKeeps ==
    ASSUME NEW d, NEW a, GoesOn(d, a), NEW i, NEW m, NEW s, NEW ignored, NEW r,
           State(d, a, i, m, s, ignored, r), ~d[a + 1].start, d[a + 1].tag = ASignal
    PROVE  State(d, a + 1, [i EXCEPT !.signals = Append(@, s)], m, s, ignored, r)
<1> DEFINE j == [i EXCEPT !.signals = Append(@, s)]
<1>1. d[a + 1].tag # AnInterface /\ d[a + 1].tag # AMethod /\ ~KeptProperty(d, a + 1)
    BY Tags DEF ASignal, KeptProperty
<1>2. InterfacesRead(r.interfaces, d, a + 1)
    BY <1>1, InterfacesReadKeeps DEF State
<1>3. MethodRead(d, a + 1, m)
    BY <1>1, MethodReadKeeps DEF State
<1>4. InterfaceShape(i)
    BY DEF State
<1>5. j = [name |-> i.name, cppname |-> i.cppname, methods |-> i.methods,
           signals |-> Append(i.signals, s), properties |-> i.properties]
    BY <1>4, ExceptSignals
<1> HIDE DEF j
<1>6. InterfaceShape(j)
    BY <1>4, <1>5, AppendAny DEF InterfaceShape
<1>7. Open(d, AnInterface, a + 1) = Open(d, AnInterface, a)
    BY <1>1, OtherTagKeeps DEF GoesOn
<1>8. Done(d, AMethod, a + 1) = Done(d, AMethod, a)
    BY <1>1, Tags, DoneKeeps
<1>9. PICK q \in Open(d, ASignal, a) : \A p \in Open(d, AnInterface, a) :
          /\ After(Done(d, ASignal, a + 1), p) = After(Done(d, ASignal, a), p) \cup {q}
          /\ ComesAfter(q, After(Done(d, ASignal, a), p))
    BY MemberEnds
<1>10. Open(d, ASignal, a + 1) = {}
    BY MemberEnds
<1>11. s.name = NameOf(d, q)
    BY <1>9 DEF State, SignalRead
<1>12. ASSUME NEW p \in Open(d, AnInterface, a)
       PROVE  InInterface(j, d, p, a + 1) /\ ignored = IgnoredAt(d, p)
    <2>1. p \in 1 .. a
        BY DEF Open
    <2>2. PropertiesFrom(d, p, a + 1) = PropertiesFrom(d, p, a)
        BY <1>1, <2>1, PropertiesKeep
    <2>3. InInterface(i, d, p, a) /\ ignored = IgnoredAt(d, p)
        BY DEF State, InterfaceRead
    <2>4. NamedAfter(Append(i.signals, s), d, After(Done(d, ASignal, a), p) \cup {q})
        <3>1. NamedAfter(i.signals, d, After(Done(d, ASignal, a), p)) /\ IsSeq(i.signals)
            BY <1>4, <2>3 DEF InInterface, InterfaceShape
        <3>2. ComesAfter(q, After(Done(d, ASignal, a), p))
            BY <1>9
        <3> QED BY <1>11, <3>1, <3>2, NamedMore
    <2>5. j.name = i.name /\ j.methods = i.methods /\ j.signals = Append(i.signals, s)
            /\ j.properties = i.properties
        BY <1>5
    <2>6. After(Done(d, ASignal, a + 1), p) = After(Done(d, ASignal, a), p) \cup {q}
        BY <1>9
    <2> QED BY <1>8, <2>2, <2>3, <2>4, <2>5, <2>6 DEF InInterface
<1>13. InterfaceRead(d, a + 1, j, ignored)
    BY <1>7, <1>12 DEF InterfaceRead
<1>14. SignalRead(d, a + 1, s)
    BY <1>10 DEF SignalRead
<1> QED BY <1>2, <1>3, <1>6, <1>13, <1>14 DEF State, j

(* What is in an interface that ends is what was closed since it started. *)
LEMMA MembersWithin ==
    ASSUME NEW d, NEW a, GoesOn(d, a), NEW tag \in {AMethod, ASignal},
           NEW p \in 1 .. a, d[p].start, d[p].tag = AnInterface, Closes(d, p, a + 1)
    PROVE  Within(d, tag, p) = After(Done(d, tag, a), p)
<1>1. IsDocument(d) /\ a \in Nat /\ Len(d) \in Nat /\ a + 1 \in 1 .. Len(d) /\ p \in 1 .. Len(d)
        /\ DOMAIN d = 1 .. Len(d)
    BY DEF GoesOn, IsDocument
<1>2. IsStart(d, p, "interface")
    BY DEF IsStart, AnInterface
<1>3. \A n \in DOMAIN d : Closes(d, p, n) => n = a + 1
    BY <1>1, ClosesOnce
<1>4. ASSUME NEW q \in Within(d, tag, p)
      PROVE  q \in After(Done(d, tag, a), p)
    <2>1. q \in 1 .. Len(d) /\ d[q].start /\ d[q].tag = tag /\ q \in p .. a + 1
        BY <1>1, <1>3 DEF Within, IsStart
    <2>2. PICK m \in 1 .. Len(d) : Closes(d, q, m)
        BY <1>1, <2>1, Tags, IsClosed
    <2>3. d[q].tag \in Members
        BY <2>1 DEF Members, AMethod, ASignal
    <2>4. m \in p .. a + 1
        BY <1>1, <1>2, <2>1, <2>2, <2>3 DEF IsDocument, Readable
    <2>5. m # a + 1 /\ q # p
        BY <2>1, <2>2, Tags DEF Closes
    <2>6. m \in 1 .. a /\ q \in 1 .. a /\ q > p
        BY <1>1, <2>1, <2>2, <2>4, <2>5 DEF Closes
    <2> QED BY <2>1, <2>2, <2>6 DEF Done, After
<1>5. ASSUME NEW q \in After(Done(d, tag, a), p)
      PROVE  q \in Within(d, tag, p)
    <2>1. q \in 1 .. a /\ d[q].start /\ d[q].tag = tag /\ q > p
        BY DEF Done, After
    <2>2. q \in DOMAIN d /\ a + 1 \in DOMAIN d /\ q \in p .. a + 1
        BY <1>1, <2>1
    <2> QED BY <2>1, <2>2 DEF Within, IsStart
<1> QED BY <1>4, <1>5

LEMMA PropertiesWithin ==
    ASSUME NEW d, NEW a, GoesOn(d, a), NEW p \in 1 .. a, Closes(d, p, a + 1)
    PROVE  PropertiesIn(d, p) = PropertiesFrom(d, p, a)
<1>1. a \in Nat /\ Len(d) \in Nat /\ a + 1 \in DOMAIN d /\ DOMAIN d = 1 .. Len(d)
    BY DEF GoesOn, IsDocument
<1>2. \A n \in DOMAIN d : Closes(d, p, n) => n = a + 1
    BY <1>1, ClosesOnce
<1>3. ~d[a + 1].start
    BY DEF Closes
<1>4. \A q : q \in p .. a + 1 /\ q # a + 1 => q \in p .. a
    BY <1>1
<1>5. \A q \in p .. a : q \in p .. a + 1 /\ q \in DOMAIN d
    BY <1>1
<1> QED BY <1>1, <1>2, <1>3, <1>4, <1>5 DEF PropertiesIn, Within, IsStart, PropertiesFrom, KeptProperty

(* The interface that ends is after those that were read before. *)
LEMMA InterfaceEnds ==
    ASSUME NEW d, NEW a, GoesOn(d, a), NEW i, NEW m, NEW s, NEW ignored, NEW r,
           State(d, a, i, m, s, ignored, r), ~d[a + 1].start, d[a + 1].tag = AnInterface
    PROVE  /\ Open(d, AnInterface, a + 1) = {}
           /\ \E p : /\ ComesAfter(p, NotIgnoredDone(d, a)) /\ Describes(i, d, p)
                     /\ NotIgnoredDone(d, a + 1) = NotIgnoredDone(d, a) \cup (IF ignored THEN {} ELSE {p})
<1>1. IsDocument(d) /\ a \in 0 .. Len(d) - 1 /\ a \in Nat /\ Len(d) \in Nat
    BY DEF GoesOn
<1>2. PICK p \in Open(d, AnInterface, a) :
          /\ Closes(d, p, a + 1)
          /\ Open(d, AnInterface, a + 1) = {}
          /\ Done(d, AnInterface, a + 1) = Done(d, AnInterface, a) \cup {p}
          /\ \A q \in Done(d, AnInterface, a) : q < p
    BY <1>1, Tags, EndCloses
<1>3. p \in 1 .. a /\ d[p].start /\ d[p].tag = AnInterface
    BY DEF Open
<1>4. InInterface(i, d, p, a) /\ ignored = IgnoredAt(d, p)
    BY <1>2 DEF State, InterfaceRead
<1>5. Within(d, AMethod, p) = After(Done(d, AMethod, a), p)
        /\ Within(d, ASignal, p) = After(Done(d, ASignal, a), p)
    BY <1>2, <1>3, MembersWithin
<1>6. PropertiesIn(d, p) = PropertiesFrom(d, p, a)
    BY <1>2, <1>3, PropertiesWithin
<1>7. Describes(i, d, p)
    <2>1. AMethod = "method" /\ ASignal = "signal"
        BY DEF AMethod, ASignal
    <2>2. NamedAfter(i.methods, d, Within(d, AMethod, p))
            /\ NamedAfter(i.signals, d, Within(d, ASignal, p))
        BY <1>4, <1>5 DEF InInterface
    <2>3. NamedAfter(i.properties, d, PropertiesIn(d, p)) /\ i.name = d[p].attrs["name"]
        BY <1>4, <1>6 DEF InInterface
    <2> QED BY <2>2, <2>3 DEF Describes, AMethod, ASignal
<1>8. ComesAfter(p, NotIgnoredDone(d, a))
    <2>1. Done(d, AnInterface, a) \subseteq Nat
        BY <1>1 DEF Done
    <2> QED BY <1>2, <1>3, <2>1 DEF ComesAfter, NotIgnoredDone
<1>9. NotIgnoredDone(d, a + 1) = NotIgnoredDone(d, a) \cup (IF ignored THEN {} ELSE {p})
    BY <1>2, <1>4 DEF NotIgnoredDone
<1> QED BY <1>2, <1>7, <1>8, <1>9

(* So the end of an interface keeps the state, ignored or not. *)
LEMMA InterfaceEndKeeps ==
    ASSUME NEW d, NEW a, GoesOn(d, a), NEW i, NEW m, NEW s, NEW ignored, NEW r,
           State(d, a, i, m, s, ignored, r), ~d[a + 1].start, d[a + 1].tag = AnInterface
    PROVE  State(d, a + 1, i, m, s, ignored,
                 IF ignored THEN r ELSE [r EXCEPT !.interfaces = Append(@, i)])
<1> DEFINE u == IF ignored THEN r ELSE [r EXCEPT !.interfaces = Append(@, i)]
<1>1. d[a + 1].tag # AMethod /\ d[a + 1].tag # ASignal
    BY Tags
<1>2. MethodRead(d, a + 1, m) /\ SignalRead(d, a + 1, s)
    BY <1>1, MethodReadKeeps, SignalReadKeeps DEF State
<1>3. Open(d, AnInterface, a + 1) = {}
    BY InterfaceEnds
<1>4. InterfaceRead(d, a + 1, i, ignored)
    BY <1>3 DEF InterfaceRead
<1>5. PICK p : /\ ComesAfter(p, NotIgnoredDone(d, a)) /\ Describes(i, d, p)
               /\ NotIgnoredDone(d, a + 1) = NotIgnoredDone(d, a) \cup (IF ignored THEN {} ELSE {p})
    BY InterfaceEnds
<1>6. NodeShape(r) /\ InterfacesRead(r.interfaces, d, a)
    BY DEF State
<1>7. CASE ignored
    <2>1. NotIgnoredDone(d, a + 1) = NotIgnoredDone(d, a) /\ u = r
        BY <1>5, <1>7
    <2>2. InterfacesRead(r.interfaces, d, a + 1)
        BY <1>6, <2>1 DEF InterfacesRead
    <2> QED BY <1>2, <1>4, <2>1, <2>2 DEF State
<1>8. CASE ~ignored
    <2> DEFINE infos == r.interfaces
               more == Append(infos, i)
               n == Len(infos)
    <2>1. NotIgnoredDone(d, a + 1) = NotIgnoredDone(d, a) \cup {p}
        BY <1>5, <1>8
    <2>2. u = [path |-> r.path, dest |-> r.dest, cppname |-> r.cppname, interfaces |-> more]
        <3>1. PICK x, y, z, w : r = [path |-> x, dest |-> y, cppname |-> z, interfaces |-> w]
            BY <1>6 DEF NodeShape
        <3>2. r.path = x /\ r.dest = y /\ r.cppname = z /\ r.interfaces = w
            BY <3>1
        <3>3. u = [path |-> x, dest |-> y, cppname |-> z, interfaces |-> Append(w, i)]
            BY <1>8, <3>1
        <3> QED BY <3>2, <3>3
    <2>3. /\ IsSeq(infos) /\ IsSeq(more) /\ n \in Nat /\ DOMAIN more = 1 .. n + 1
          /\ \A k \in 1 .. n : more[k] = infos[k]
          /\ more[n + 1] = i
        BY <1>6, AppendAny DEF NodeShape
    <2>4. Len(more) = n + 1
        <3>1. \E T : more \in Seq(T)
            BY <2>3 DEF IsSeq
        <3>2. DOMAIN more = 1 .. Len(more) /\ Len(more) \in Nat
            BY <3>1
        <3> HIDE DEF more, n
        <3> QED BY <2>3, <3>2
    <2>5. PICK f : Counts(f, n, NotIgnoredDone(d, a)) /\ \A k \in 1 .. n : Describes(infos[k], d, f[k])
        BY <1>6 DEF InterfacesRead
    <2> HIDE DEF more, n, infos
    <2>6. PICK g : /\ Counts(g, n + 1, NotIgnoredDone(d, a) \cup {p})
                   /\ \A k \in 1 .. n : g[k] = f[k]
                   /\ g[n + 1] = p
        <3> DEFINE before == NotIgnoredDone(d, a)
        <3>1. n \in Nat /\ Counts(f, n, before) /\ ComesAfter(p, before)
            BY <1>5, <2>3, <2>5
        <3> HIDE DEF before
        <3>2. \E g : CountsOn(g, f, n, before, p)
            BY <3>1, EnumeratesMore
        <3> QED BY <3>2 DEF before, CountsOn
    <2>7. ASSUME NEW k \in 1 .. n + 1
          PROVE  Describes(more[k], d, g[k])
        <3>1. CASE k = n + 1
            BY <1>5, <2>3, <2>6, <3>1
        <3>2. CASE k # n + 1
            <4>1. k \in 1 .. n
                BY <2>3, <3>2
            <4> QED BY <2>3, <2>5, <2>6, <4>1
        <3> QED BY <3>1, <3>2
    <2>8. InterfacesRead(more, d, a + 1)
        BY <2>1, <2>4, <2>6, <2>7 DEF InterfacesRead
    <2> HIDE DEF u
    <2>9. NodeShape(u) /\ u.interfaces = more
        BY <2>2, <2>3 DEF NodeShape
    <2> QED BY <1>2, <1>4, <2>8, <2>9 DEF State, u
<1> QED BY <1>7, <1>8

-----------------------------------------------------------------------------
(* The steps of the parser (start_element and end_element)                 *)

(* The invariant, at a step. *)
LEMMA ReadingOn ==
    ASSUME ReadInv, TagsLeft, Readable(doc)
    PROVE  /\ GoesOn(doc, at)
           /\ State(doc, at, currentInterface, currentMethodInfo, currentSignal,
                    ignoreInterface, rootNode)
<1>1. Len(doc) \in Nat /\ DOMAIN doc = 1 .. Len(doc) /\ \A p \in DOMAIN doc : doc[p].start \in BOOLEAN
    BY DocumentsAssumption DEF ReadInv
<1>2. at \in 0 .. Len(doc) /\ at < Len(doc)
    BY DEF ReadInv, TagsLeft
<1>3. at \in 0 .. Len(doc) - 1 /\ at + 1 \in DOMAIN doc
    BY <1>1, <1>2
<1> QED BY <1>1, <1>3 DEF ReadInv, GoesOn, IsDocument

(* Each tag keeps the state. *)
LEMMA NodeTagKeeps ==
    ASSUME ReadInv, Readable(doc), NodeTag
    PROVE  State(doc, at + 1, currentInterface', currentMethodInfo', currentSignal',
                 ignoreInterface', rootNode')
<1>1. TagsLeft /\ doc[at + 1].start /\ doc[at + 1].tag = "node"
    BY DEF NodeTag, Starts, Tag
<1>2. UNCHANGED <<currentInterface, currentMethodInfo, currentSignal, ignoreInterface>>
    BY DEF NodeTag, partsVars
<1>3. \E path, dest, cppname : rootNode' = NodeInfo(path, dest, cppname)
    BY DEF NodeTag
<1>4. NodeShape(rootNode') /\ rootNode'.interfaces = <<>>
    <2>1. PICK path, dest, cppname : rootNode' = [path |-> path, dest |-> dest, cppname |-> cppname,
                                                  interfaces |-> <<>>]
        BY <1>3 DEF NodeInfo
    <2>2. <<>> \in Seq({})
        OBVIOUS
    <2> QED BY <2>1, <2>2 DEF NodeShape, IsSeq
<1> QED BY <1>1, <1>2, <1>4, ReadingOn, NodeKeeps

LEMMA InterfaceTagKeeps ==
    ASSUME ReadInv, Readable(doc), InterfaceTag
    PROVE  State(doc, at + 1, currentInterface', currentMethodInfo', currentSignal',
                 ignoreInterface', rootNode')
<1>1. TagsLeft /\ doc[at + 1].start /\ doc[at + 1].tag = AnInterface
    BY DEF InterfaceTag, Starts, Tag, AnInterface
<1>2. at + 1 \in DOMAIN doc
    BY <1>1, ReadingOn DEF GoesOn
<1>3. Has(doc[at + 1].attrs, "name")
    <2>1. doc[at + 1].tag \in Members \cup {"interface"}
        BY <1>1 DEF AnInterface
    <2> QED BY <1>1, <1>2, <2>1 DEF Readable
<1>4. /\ UNCHANGED <<currentMethodInfo, currentSignal, rootNode>>
      /\ ignoreInterface' = IgnoredAt(doc, at + 1)
      /\ \E cppname : currentInterface' =
            [NoInterface EXCEPT !.name = doc[at + 1].attrs["name"], !.cppname = cppname]
    BY <1>3 DEF InterfaceTag, Tag, Ignored, IgnoredAt
<1>5. InterfaceShape(currentInterface') /\ currentInterface'.name = doc[at + 1].attrs["name"]
        /\ currentInterface'.methods = <<>> /\ currentInterface'.signals = <<>>
        /\ currentInterface'.properties = <<>>
    <2> DEFINE name == doc[at + 1].attrs["name"]
    <2>1. PICK cppname : currentInterface' = [NoInterface EXCEPT !.name = name, !.cppname = cppname]
        BY <1>4
    <2> HIDE DEF name
    <2>2. currentInterface' = [name |-> name, cppname |-> cppname, methods |-> <<>>,
                               signals |-> <<>>, properties |-> <<>>]
        BY <2>1 DEF NoInterface
    <2>3. <<>> \in Seq({})
        OBVIOUS
    <2> QED BY <2>2, <2>3 DEF InterfaceShape, IsSeq, name
<1> QED BY <1>1, <1>4, <1>5, ReadingOn, InterfaceStartKeeps

LEMMA MethodTagKeeps ==
    ASSUME ReadInv, Readable(doc), MethodTag
    PROVE  State(doc, at + 1, currentInterface', currentMethodInfo', currentSignal',
                 ignoreInterface', rootNode')
<1>1. TagsLeft /\ doc[at + 1].start /\ doc[at + 1].tag = AMethod
    BY DEF MethodTag, Starts, Tag, AMethod
<1>2. at + 1 \in DOMAIN doc
    BY <1>1, ReadingOn DEF GoesOn
<1>3. Has(doc[at + 1].attrs, "name")
    <2>1. doc[at + 1].tag \in Members \cup {"interface"}
        BY <1>1 DEF AMethod, Members
    <2> QED BY <1>1, <1>2, <2>1 DEF Readable
<1>4. /\ UNCHANGED <<currentInterface, currentSignal, ignoreInterface, rootNode>>
      /\ currentMethodInfo' = MethodInfo(Underscored(doc[at + 1].attrs["name"]))
    BY <1>3 DEF MethodTag, Tag
<1>5. NameOf(doc, at + 1) = Underscored(doc[at + 1].attrs["name"])
    BY <1>1 DEF NameOf, Members, AMethod
<1>6. MethodShape(currentMethodInfo') /\ currentMethodInfo'.name = NameOf(doc, at + 1)
    <2> DEFINE name == Underscored(doc[at + 1].attrs["name"])
    <2>1. currentMethodInfo' = [name |-> name, ret |-> <<"void">>, args |-> <<>>]
        BY <1>4 DEF MethodInfo
    <2> QED BY <1>5, <2>1 DEF MethodShape
<1> QED BY <1>1, <1>4, <1>6, ReadingOn, MethodStartKeeps

LEMMA SignalTagKeeps ==
    ASSUME ReadInv, Readable(doc), SignalTag
    PROVE  State(doc, at + 1, currentInterface', currentMethodInfo', currentSignal',
                 ignoreInterface', rootNode')
<1>1. TagsLeft /\ doc[at + 1].start /\ doc[at + 1].tag = ASignal
    BY DEF SignalTag, Starts, Tag, ASignal
<1>2. at + 1 \in DOMAIN doc
    BY <1>1, ReadingOn DEF GoesOn
<1>3. Has(doc[at + 1].attrs, "name")
    <2>1. doc[at + 1].tag \in Members \cup {"interface"}
        BY <1>1 DEF ASignal, Members
    <2> QED BY <1>1, <1>2, <2>1 DEF Readable
<1>4. /\ UNCHANGED <<currentInterface, currentMethodInfo, ignoreInterface, rootNode>>
      /\ currentSignal' = SignalInfo(Underscored(doc[at + 1].attrs["name"]))
    BY <1>3 DEF SignalTag, Tag
<1>5. NameOf(doc, at + 1) = Underscored(doc[at + 1].attrs["name"])
    BY <1>1 DEF NameOf, Members, ASignal
<1>6. SignalShape(currentSignal') /\ currentSignal'.name = NameOf(doc, at + 1)
    <2> DEFINE name == Underscored(doc[at + 1].attrs["name"])
    <2>1. currentSignal' = [name |-> name, args |-> <<>>]
        BY <1>4 DEF SignalInfo
    <2> QED BY <1>5, <2>1 DEF SignalShape
<1> QED BY <1>1, <1>4, <1>6, ReadingOn, SignalStartKeeps

LEMMA ArgTagKeeps ==
    ASSUME ReadInv, Readable(doc), ArgTag
    PROVE  State(doc, at + 1, currentInterface', currentMethodInfo', currentSignal',
                 ignoreInterface', rootNode')
<1>1. TagsLeft /\ doc[at + 1].tag = "arg"
    BY DEF ArgTag, Starts, Tag
<1>2. doc[at + 1].tag \notin Containers /\ ~KeptProperty(doc, at + 1)
    BY <1>1 DEF Containers, AnInterface, AMethod, ASignal, KeptProperty
<1>3. UNCHANGED <<currentInterface, ignoreInterface, rootNode>>
    BY DEF ArgTag
<1>4. MethodShape(currentMethodInfo) /\ SignalShape(currentSignal)
    BY <1>1, ReadingOn DEF State
<1>5. \/ \E type : currentMethodInfo' = [currentMethodInfo EXCEPT !.ret = type]
      \/ \E arg : currentMethodInfo' = [currentMethodInfo EXCEPT !.args = Append(@, arg)]
      \/ currentMethodInfo' = currentMethodInfo
    BY DEF ArgTag
<1>6. \/ \E arg : currentSignal' = [currentSignal EXCEPT !.args = Append(@, arg)]
      \/ currentSignal' = currentSignal
    BY DEF ArgTag
<1>7. MethodShape(currentMethodInfo') /\ currentMethodInfo'.name = currentMethodInfo.name
    <2>1. PICK n, x, y : currentMethodInfo = [name |-> n, ret |-> x, args |-> y]
        BY <1>4 DEF MethodShape
    <2>2. \E u, v : currentMethodInfo' = [name |-> n, ret |-> u, args |-> v]
        BY <1>5, <2>1
    <2> QED BY <2>1, <2>2 DEF MethodShape
<1>8. SignalShape(currentSignal') /\ currentSignal'.name = currentSignal.name
    <2>1. PICK n, y : currentSignal = [name |-> n, args |-> y]
        BY <1>4 DEF SignalShape
    <2>2. \E v : currentSignal' = [name |-> n, args |-> v]
        BY <1>6, <2>1
    <2> QED BY <2>1, <2>2 DEF SignalShape
<1> QED BY <1>1, <1>2, <1>3, <1>7, <1>8, ReadingOn, QuietKeeps

LEMMA PropertyTagKeeps ==
    ASSUME ReadInv, Readable(doc), PropertyTag
    PROVE  State(doc, at + 1, currentInterface', currentMethodInfo', currentSignal',
                 ignoreInterface', rootNode')
<1>1. TagsLeft /\ doc[at + 1].start /\ doc[at + 1].tag = "property"
    BY DEF PropertyTag, Starts, Tag
<1>2. UNCHANGED <<currentMethodInfo, currentSignal, ignoreInterface, rootNode>>
    BY DEF PropertyTag
<1>3. CASE ~Complete(doc[at + 1].attrs)
    <2>1. UNCHANGED currentInterface
        BY <1>3 DEF PropertyTag, Tag
    <2>2. doc[at + 1].tag \notin Containers /\ ~KeptProperty(doc, at + 1)
        BY <1>1, <1>3 DEF Containers, AnInterface, AMethod, ASignal, KeptProperty
    <2>3. MethodShape(currentMethodInfo) /\ SignalShape(currentSignal)
        BY <1>1, ReadingOn DEF State
    <2> QED BY <1>1, <1>2, <2>1, <2>2, <2>3, ReadingOn, QuietKeeps
<1>4. CASE Complete(doc[at + 1].attrs)
    <2>1. \E type, access : currentInterface' =
            [currentInterface EXCEPT !.properties =
                Append(@, [name |-> doc[at + 1].attrs["name"], type |-> type, access |-> access])]
        BY <1>4 DEF PropertyTag, Tag
    <2>2. NameOf(doc, at + 1) = doc[at + 1].attrs["name"]
        BY <1>1 DEF NameOf, Members
    <2>3. \E info : /\ info.name = NameOf(doc, at + 1)
                    /\ currentInterface' = [currentInterface EXCEPT !.properties = Append(@, info)]
        <3> DEFINE name == doc[at + 1].attrs["name"]
        <3>1. PICK type, access : currentInterface' = [currentInterface EXCEPT !.properties =
                                     Append(@, [name |-> name, type |-> type, access |-> access])]
            BY <2>1
        <3>2. [name |-> name, type |-> type, access |-> access].name = name
            OBVIOUS
        <3> QED BY <2>2, <3>1, <3>2
    <2>4. KeptProperty(doc, at + 1)
        BY <1>1, <1>4 DEF KeptProperty
    <2> QED BY <1>1, <1>2, <2>3, <2>4, ReadingOn, PropertyKeeps
<1> QED BY <1>3, <1>4

LEMMA OtherTagIsQuiet ==
    ASSUME ReadInv, Readable(doc), OtherTag
    PROVE  State(doc, at + 1, currentInterface', currentMethodInfo', currentSignal',
                 ignoreInterface', rootNode')
<1>1. TagsLeft /\ doc[at + 1].tag \notin Containers /\ ~KeptProperty(doc, at + 1)
    BY DEF OtherTag, Tag, Containers, AnInterface, AMethod, ASignal, KeptProperty
<1>2. UNCHANGED <<currentInterface, currentMethodInfo, currentSignal, ignoreInterface, rootNode>>
    BY DEF OtherTag, partsVars
<1>3. MethodShape(currentMethodInfo) /\ SignalShape(currentSignal)
    BY <1>1, ReadingOn DEF State
<1> QED BY <1>1, <1>2, <1>3, ReadingOn, QuietKeeps

LEMMA EndTagKeeps ==
    ASSUME ReadInv, Readable(doc), EndTag
    PROVE  State(doc, at + 1, currentInterface', currentMethodInfo', currentSignal',
                 ignoreInterface', rootNode')
<1> DEFINE tag == doc[at + 1].tag
<1>1. TagsLeft /\ ~doc[at + 1].start
    BY DEF EndTag, Tag
<1>2. UNCHANGED <<currentMethodInfo, currentSignal, ignoreInterface>>
    BY DEF EndTag
<1>3. CASE tag = AnInterface
    <2>1. currentInterface' = currentInterface
        BY <1>3 DEF EndTag, Tag, AnInterface
    <2>2. rootNode' = IF ignoreInterface THEN rootNode
                      ELSE [rootNode EXCEPT !.interfaces = Append(@, currentInterface)]
        BY <1>3 DEF EndTag, Tag, AnInterface
    <2> QED BY <1>1, <1>2, <1>3, <2>1, <2>2, ReadingOn, InterfaceEndKeeps
<1>4. CASE tag = AMethod
    <2>1. currentInterface' = [currentInterface EXCEPT !.methods = Append(@, currentMethodInfo)]
        BY <1>4 DEF EndTag, Tag, AMethod
    <2>2. rootNode' = rootNode
        BY <1>4 DEF EndTag, Tag, AMethod
    <2> QED BY <1>1, <1>2, <1>4, <2>1, <2>2, ReadingOn, MethodEndKeeps
<1>5. CASE tag = ASignal
    <2>1. currentInterface' = [currentInterface EXCEPT !.signals = Append(@, currentSignal)]
        BY <1>5 DEF EndTag, Tag, ASignal
    <2>2. rootNode' = rootNode
        BY <1>5 DEF EndTag, Tag, ASignal
    <2> QED BY <1>1, <1>2, <1>5, <2>1, <2>2, ReadingOn, SignalEndKeeps
<1>6. CASE tag \notin Containers
    <2>1. tag # "interface" /\ tag # "method" /\ tag # "signal"
        BY <1>6 DEF Containers, AnInterface, AMethod, ASignal
    <2>2. currentInterface' = currentInterface /\ rootNode' = rootNode
        BY <2>1 DEF EndTag, Tag
    <2>3. MethodShape(currentMethodInfo) /\ SignalShape(currentSignal)
        BY <1>1, ReadingOn DEF State
    <2>4. ~KeptProperty(doc, at + 1)
        BY <1>1 DEF KeptProperty
    <2> QED BY <1>1, <1>2, <1>6, <2>2, <2>3, <2>4, ReadingOn, QuietKeeps
<1> QED BY <1>3, <1>4, <1>5, <1>6 DEF Containers

(* The invariant holds at first, each step keeps it, and it is enough. *)
LEMMA ReadStarts == ReadInit => ReadInv
<1> SUFFICES ASSUME ReadInit
             PROVE  ReadInv
    OBVIOUS
<1>1. /\ currentInterface = NoInterface
      /\ currentMethodInfo = [MethodInfo("") EXCEPT !.ret = <<>>]
      /\ currentSignal = SignalInfo("") /\ rootNode = NodeInfo("", "", "")
    BY DEF ReadInit
<1>2. doc \in Documents /\ at = 0 /\ at \in 0 .. Len(doc)
    <2>1. doc \in Documents /\ at = 0
        BY DEF ReadInit
    <2> QED BY <2>1, DocumentsAssumption
<1>3. <<>> \in Seq({})
    OBVIOUS
<1>4. InterfaceShape(currentInterface)
    BY <1>1, <1>3 DEF NoInterface, InterfaceShape, IsSeq
<1>5. MethodShape(currentMethodInfo) /\ SignalShape(currentSignal)
    BY <1>1 DEF MethodInfo, SignalInfo, MethodShape, SignalShape
<1>6. NodeShape(rootNode) /\ rootNode.interfaces = <<>>
    BY <1>1, <1>3 DEF NodeInfo, NodeShape, IsSeq
<1>7. \A tag : Open(doc, tag, 0) = {} /\ Done(doc, tag, 0) = {}
    BY DEF Open, Done
<1>8. InterfacesRead(rootNode.interfaces, doc, 0)
    BY <1>6, <1>7, NoInterfacesRead DEF NotIgnoredDone
<1>9. State(doc, at, currentInterface, currentMethodInfo, currentSignal, ignoreInterface, rootNode)
    <2>1. InterfaceRead(doc, 0, currentInterface, ignoreInterface)
        BY <1>7 DEF InterfaceRead
    <2>2. MethodRead(doc, 0, currentMethodInfo) /\ SignalRead(doc, 0, currentSignal)
        BY <1>7 DEF MethodRead, SignalRead
    <2>3. NodeShape(rootNode)
        BY <1>6
    <2> QED BY <1>2, <1>4, <1>5, <1>8, <2>1, <2>2, <2>3 DEF State
<1> QED BY <1>2, <1>9 DEF ReadInv

LEMMA ReadStep == ReadInv /\ [ReadNext]_documentVars => ReadInv'
<1> SUFFICES ASSUME ReadInv, [ReadNext]_documentVars
             PROVE  ReadInv'
    OBVIOUS
<1>1. CASE ReadNext
    <2>1. TagsLeft /\ doc' = doc /\ at' = at + 1
        BY <1>1 DEF ReadNext, NodeTag, InterfaceTag, MethodTag, SignalTag, ArgTag, PropertyTag,
            OtherTag, EndTag, Starts, PushTag
    <2>2. doc' \in Documents /\ at' \in 0 .. Len(doc')
        <3>1. Len(doc) \in Nat /\ doc \in Documents /\ at \in 0 .. Len(doc)
            BY DocumentsAssumption DEF ReadInv
        <3> QED BY <2>1, <3>1 DEF TagsLeft
    <2>3. ASSUME Readable(doc)
          PROVE  State(doc, at + 1, currentInterface', currentMethodInfo', currentSignal',
                       ignoreInterface', rootNode')
        BY <1>1, <2>3, NodeTagKeeps, InterfaceTagKeeps, MethodTagKeeps, SignalTagKeeps, ArgTagKeeps,
            PropertyTagKeeps, OtherTagIsQuiet, EndTagKeeps DEF ReadNext
    <2> QED BY <2>1, <2>2, <2>3 DEF ReadInv
<1>2. CASE UNCHANGED documentVars
    BY <1>2 DEF ReadInv, documentVars, parseVars, partsVars
<1> QED BY <1>1, <1>2

LEMMA ReadInvFollows == ReadInv => MembersStayHome
<1> SUFFICES ASSUME ReadInv, ~TagsLeft, Readable(doc)
             PROVE  \E f \in [DOMAIN rootNode.interfaces -> NotIgnored(doc)] :
                       /\ Enumerates(f, NotIgnored(doc))
                       /\ \A k \in DOMAIN rootNode.interfaces :
                             Describes(rootNode.interfaces[k], doc, f[k])
    BY DEF MembersStayHome
<1>1. /\ IsDocument(doc) /\ DOMAIN doc = 1 .. Len(doc) /\ at = Len(doc)
      /\ NodeShape(rootNode) /\ InterfacesRead(rootNode.interfaces, doc, at)
    BY DocumentsAssumption DEF ReadInv, IsDocument, TagsLeft, State
<1>2. NotIgnoredDone(doc, at) = NotIgnored(doc)
    <2>1. ASSUME NEW p \in NotIgnored(doc)
          PROVE  p \in NotIgnoredDone(doc, at)
        <3>1. p \in 1 .. Len(doc) /\ doc[p].start /\ doc[p].tag = AnInterface /\ ~IgnoredAt(doc, p)
            BY <1>1 DEF NotIgnored, IsStart, IgnoredAt, AnInterface
        <3>2. \E n \in 1 .. Len(doc) : Closes(doc, p, n)
            BY <1>1, <3>1, Tags, IsClosed
        <3> QED BY <1>1, <3>1, <3>2 DEF NotIgnoredDone, Done
    <2>2. NotIgnoredDone(doc, at) \subseteq NotIgnored(doc)
        BY <1>1 DEF NotIgnoredDone, Done, NotIgnored, IsStart, IgnoredAt, AnInterface
    <2> QED BY <2>1, <2>2
<1>3. PICK f : /\ Counts(f, Len(rootNode.interfaces), NotIgnored(doc))
               /\ \A k \in 1 .. Len(rootNode.interfaces) : Describes(rootNode.interfaces[k], doc, f[k])
    BY <1>1, <1>2 DEF InterfacesRead
<1>4. DOMAIN rootNode.interfaces = 1 .. Len(rootNode.interfaces)
    BY <1>1, AppendAny DEF NodeShape
<1> QED BY <1>3, <1>4 DEF Counts

(* Whatever came before it, an interface of a document that the parser has  *)
(* read keeps exactly its own methods, signals and properties, in order     *)
(* (start_element and end_element of code-generator.cpp).                   *)
THEOREM NothingLeaks == ReadSpec => []MembersStayHome
<1> QED
    BY ReadStarts, ReadStep, ReadInvFollows, PTL DEF ReadSpec

-----------------------------------------------------------------------------
(* Marshal: a number and its bytes, in either byte order                  *)

(* The widths of numbers, which are their alignments. *)
Widths == {1, 2, 4, 8}
(* What n is without its last k bytes. *)
Shifted(n, k) ==
    IF k = 0 THEN n ELSE IF k = 1 THEN n \div 256 ELSE IF k = 2 THEN n \div (256 ^ 2) ELSE 0
(* A number that w bytes hold, in the bounds of the model. *)
IsNumber(n, w) == n \in Nat /\ n < Huge /\ (w = 1 => n < 256) /\ (w = 2 => n < 256 ^ 2)

(* A number is what its last bytes and the others say. *)
LEMMA LastByte ==
    ASSUME NEW n \in Nat
    PROVE  \E q \in Nat, r \in 0 .. 255 : n = 256 * q + r /\ q = n \div 256 /\ r = n % 256
<1>1. n \div 256 \in Nat
    OBVIOUS
<1>2. n % 256 \in 0 .. 255
    OBVIOUS
<1>3. n % 256 = n - 256 * (n \div 256)
    OBVIOUS
<1> DEFINE q == n \div 256
           r == n % 256
<1> HIDE DEF q, r
<1>4. n = 256 * q + r /\ q \in Nat /\ r \in 0 .. 255
    BY <1>1, <1>2, <1>3 DEF q, r
<1> QED BY <1>4 DEF q, r

ThreeBytes(u, t, r) == 256 * (256 * u + t) + r

LEMMA LastBytes ==
    ASSUME NEW n \in Nat, NEW u \in Nat, NEW t \in 0 .. 255, NEW r \in 0 .. 255,
           n = ThreeBytes(u, t, r)
    PROVE  n \div (256 ^ 2) = u
<1> DEFINE m == 256 * t + r
<1>1. n = (256 * 256) * u + m /\ m \in Int /\ 0 <= m /\ m < 256 * 256
    BY DEF ThreeBytes
<1> HIDE DEF m
<1>2. 256 ^ 2 = 256 * 256
    OBVIOUS
<1>3. n \div (256 * 256) = u
    BY <1>1
<1> QED BY <1>2, <1>3

LEMMA Digits3 ==
    ASSUME NEW n \in Nat, n < 256 * 256 * 256
    PROVE  \E u \in 0 .. 255, t \in 0 .. 255, r \in 0 .. 255 :
              /\ n = ThreeBytes(u, t, r)
              /\ n \div (256 ^ 2) = u /\ n \div 256 = 256 * u + t
              /\ Digit(n, 0) = r /\ Digit(n, 1) = t /\ Digit(n, 2) = u
<1>1. 256 ^ 0 = 1 /\ 256 ^ 1 = 256 /\ 256 ^ 2 = 256 * 256
    OBVIOUS
<1>3. PICK q \in Nat, r \in 0 .. 255 : n = 256 * q + r /\ q = n \div 256 /\ r = n % 256
    BY LastByte
<1>4. PICK u \in Nat, t \in 0 .. 255 : q = 256 * u + t /\ u = q \div 256 /\ t = q % 256
    BY LastByte
<1>5. n = ThreeBytes(u, t, r)
    BY <1>3, <1>4 DEF ThreeBytes
<1>6. u < 256
    BY <1>5 DEF ThreeBytes
<1>7. u \in 0 .. 255
    BY <1>6
<1>8. n \div (256 ^ 2) = u
    BY <1>5, LastBytes
<1>9. u % 256 = u
    BY <1>7
<1>10. Digit(n, 0) = r
    <2>1. n \div 256 ^ 0 = n
        BY <1>1
    <2>2. n % 256 = r
        BY <1>3
    <2> QED BY <2>1, <2>2 DEF Digit
<1>11. Digit(n, 1) = t
    <2>1. n \div 256 ^ 1 = q
        BY <1>1, <1>3
    <2>2. q % 256 = t
        BY <1>4
    <2> QED BY <2>1, <2>2 DEF Digit
<1>12. Digit(n, 2) = u
    BY <1>8, <1>9 DEF Digit
<1>13. n \div 256 = 256 * u + t
    BY <1>3, <1>4
<1> QED BY <1>5, <1>7, <1>8, <1>10, <1>11, <1>12, <1>13

(* Each byte is what the number has there. *)
LEMMA DigitShifted ==
    ASSUME NEW n \in Nat, n < 256 * 256 * 256, NEW k \in Nat
    PROVE  /\ Shifted(n, k) = Shifted(n, k + 1) * 256 + Digit(n, k)
           /\ Shifted(n, k + 1) \in Nat /\ Shifted(n, k + 1) < 256 * 256 /\ Digit(n, k) \in 0 .. 255
<1>1. PICK u \in 0 .. 255, t \in 0 .. 255, r \in 0 .. 255 :
          /\ n = ThreeBytes(u, t, r)
          /\ n \div (256 ^ 2) = u /\ n \div 256 = 256 * u + t
          /\ Digit(n, 0) = r /\ Digit(n, 1) = t /\ Digit(n, 2) = u
    BY Digits3
<1>2. /\ Shifted(n, 0) = n /\ Shifted(n, 1) = 256 * u + t /\ Shifted(n, 2) = u
      /\ \A m \in Nat : m > 2 => Shifted(n, m) = 0
    BY <1>1 DEF Shifted
<1>3. k > 2 => Digit(n, k) = 0
    BY DEF Digit
<1>8. n = 256 * (256 * u + t) + r /\ Digit(n, 0) = r /\ Digit(n, 1) = t /\ Digit(n, 2) = u
    BY <1>1 DEF ThreeBytes
<1>4. CASE k = 0
    <2>1. 256 * u + t \in Nat /\ 256 * u + t < 256 * 256 /\ 0 + 1 = 1
        OBVIOUS
    <2> QED BY <1>2, <1>4, <1>8, <2>1
<1>5. CASE k = 1
    <2>1. u \in Nat /\ u < 256 * 256 /\ 1 + 1 = 2
        OBVIOUS
    <2> QED BY <1>2, <1>5, <1>8, <2>1
<1>6. CASE k = 2
    <2>1. Shifted(n, k + 1) = 0
        BY <1>2, <1>6
    <2>2. u = 0 * 256 + u /\ 0 \in Nat /\ 0 < 256 * 256
        OBVIOUS
    <2> QED BY <1>2, <1>6, <1>8, <2>1, <2>2
<1>7. CASE k > 2
    <2>1. Shifted(n, k) = 0 /\ Shifted(n, k + 1) = 0 /\ Digit(n, k) = 0
        BY <1>2, <1>3, <1>7
    <2>2. 0 = 0 * 256 + 0 /\ 0 \in Nat /\ 0 < 256 * 256 /\ 0 \in 0 .. 255
        OBVIOUS
    <2> QED BY <2>1, <2>2
<1> QED BY <1>4, <1>5, <1>6, <1>7

LEMMA NothingAbove ==
    ASSUME NEW w \in Widths, NEW n, IsNumber(n, w)
    PROVE  Shifted(n, w) = 0
<1>1. n \in Nat
    BY DEF IsNumber
<1>2. CASE w = 1
    <2>1. n < 256
        BY <1>2 DEF IsNumber
    <2>2. n \div 256 = 0
        BY <1>1, <2>1
    <2> QED BY <1>2, <2>2 DEF Shifted
<1>3. CASE w = 2
    <2>1. n < 256 ^ 2
        BY <1>3 DEF IsNumber
    <2>2. n < 256 * 256
        BY <2>1
    <2>3. n \div (256 * 256) = 0
        BY <1>1, <2>2
    <2>4. n \div (256 ^ 2) = 0
        BY <2>3
    <2> QED BY <1>3, <2>4 DEF Shifted
<1>4. CASE w > 2
    BY <1>4 DEF Shifted, Widths
<1> QED BY <1>2, <1>3, <1>4 DEF Widths

(* f has the number that the first k digits make, for each k. *)
(* The recursive function of NumberOf exists, and has the number back. *)
OneMore(f, d, k) ==
    CASE k = 0 -> 0
      [] k > 0 /\ f[k - 1] >= 256 ^ 2 -> Huge
      [] OTHER -> f[k - 1] * 256 + d[k]
IsReading(f, d) == f = [k \in 0 .. Len(d) |-> OneMore(f, d, k)]

LEMMA NumberOfReading ==
    ASSUME NEW d, NEW g, IsReading(g, d)
    PROVE  \E f : IsReading(f, d) /\ NumberOf(d) = f[Len(d)]
<1> DEFINE f == CHOOSE h : IsReading(h, d)
<1>1. IsReading(f, d)
    OBVIOUS
<1>2. NumberOf(d) = f[Len(d)]
    BY DEF NumberOf, IsReading, OneMore
<1> QED BY <1>1, <1>2

LEMMA NumberOfDigits ==
    ASSUME NEW w \in Widths, NEW n, IsNumber(n, w), NEW d, Len(d) = w,
           \A k \in 1 .. w : d[k] = Digit(n, w - k)
    PROVE  NumberOf(d) = n
<1>1. n \in Nat /\ n < 256 * 256 * 256 /\ w \in Nat
    BY DEF IsNumber, Huge, Widths
<1> DEFINE g == [k \in 0 .. w |-> Shifted(n, w - k)]
<1>2. g[0] = 0 /\ g[w] = n
    <2>1. Shifted(n, w - 0) = 0
        BY <1>1, NothingAbove
    <2>2. Shifted(n, w - w) = n
        BY <1>1 DEF Shifted
    <2> QED BY <1>1, <2>1, <2>2
<1>3. ASSUME NEW k \in 1 .. w
      PROVE  /\ g[k - 1] \in Nat /\ g[k - 1] < 256 * 256
             /\ g[k] = g[k - 1] * 256 + d[k]
    <2> HIDE DEF g
    <2>1. w - k \in Nat /\ w - (k - 1) = (w - k) + 1 /\ k - 1 \in 0 .. w /\ k \in 0 .. w
        BY <1>1
    <2>2. g[k - 1] = Shifted(n, (w - k) + 1) /\ g[k] = Shifted(n, w - k)
        BY <2>1 DEF g
    <2> DEFINE j == w - k
    <2> HIDE DEF j
    <2>3. j \in Nat /\ g[k - 1] = Shifted(n, j + 1) /\ g[k] = Shifted(n, j) /\ d[k] = Digit(n, j)
        BY <2>1, <2>2 DEF j
    <2> QED BY <1>1, <2>3, DigitShifted
<1>4. DOMAIN g = 0 .. w
    OBVIOUS
<1>11. g = [k \in 0 .. w |-> g[k]]
    OBVIOUS
<1> HIDE DEF g
<1>5. IsReading(g, d)
    <2>1. ASSUME NEW k \in 0 .. w
          PROVE  g[k] = OneMore(g, d, k)
        <3>1. CASE k = 0
            BY <1>2, <3>1 DEF OneMore
        <3>2. CASE k # 0
            <4>1. k \in 1 .. w
                BY <1>1, <3>2
            <4>2. ~(g[k - 1] >= 256 ^ 2)
                BY <1>3, <4>1
            <4> QED BY <1>3, <3>2, <4>1, <4>2 DEF OneMore
        <3> QED BY <3>1, <3>2
    <2> QED BY <1>11, <2>1 DEF IsReading
<1>6. PICK f : IsReading(f, d) /\ NumberOf(d) = f[Len(d)]
    BY <1>5, NumberOfReading
<1>7. \A k \in 0 .. w : f[k] = OneMore(f, d, k)
    BY <1>6 DEF IsReading
<1> DEFINE S == {k \in 0 .. w : f[k] = g[k]}
<1>8. 0 \in S
    BY <1>1, <1>2, <1>7 DEF OneMore
<1>9. \A k \in 0 .. w - 1 : k \in S => k + 1 \in S
    <2> SUFFICES ASSUME NEW k \in 0 .. w - 1, f[k] = g[k]
                 PROVE  k + 1 \in 0 .. w /\ f[k + 1] = g[k + 1]
        OBVIOUS
    <2>1. k + 1 \in 1 .. w /\ (k + 1) - 1 = k /\ k + 1 \in 0 .. w
        BY <1>1
    <2>2. /\ g[k] \in Nat /\ g[k] < 256 * 256
          /\ g[k + 1] = g[k] * 256 + d[k + 1]
        BY <1>3, <2>1
    <2>3. ~(f[k] >= 256 ^ 2)
        BY <2>2
    <2>4. f[k + 1] = f[k] * 256 + d[k + 1]
        BY <1>7, <2>1, <2>3 DEF OneMore
    <2> QED BY <2>1, <2>2, <2>4
<1> HIDE DEF S
<1>10. w \in S
    BY <1>1, <1>8, <1>9, SetInduction
<1> QED BY <1>2, <1>6, <1>10 DEF S

Bytes == Seq(Nat)

-----------------------------------------------------------------------------
(* What is put in a buffer is found there                                  *)

LEMMA GapIsNatural ==
    ASSUME NEW n \in Nat, NEW a \in Widths
    PROVE  Gap(n, a) \in Nat /\ AlignUp(n, a) \in Nat
<1>1. Gap(n, a) \in Nat
    BY DEF Gap, Widths
<1> QED BY <1>1 DEF AlignUp

LEMMA BytesJoined ==
    ASSUME NEW a \in Bytes, NEW b \in Bytes
    PROVE  a \o b \in Bytes /\ Len(a \o b) = Len(a) + Len(b) /\ Len(a) \in Nat /\ Len(b) \in Nat
BY DEF Bytes

LEMMA Aligned ==
    ASSUME NEW buf \in Bytes, NEW a \in Widths
    PROVE  Align(buf, a) \in Bytes /\ Len(Align(buf, a)) = AlignUp(Len(buf), a)
<1> DEFINE g == Gap(Len(buf), a)
<1>1. g \in Nat
    BY GapIsNatural DEF Bytes
<1> HIDE DEF g
<1>2. Zeros(g) \in Bytes /\ Len(Zeros(g)) = g
    BY <1>1 DEF Zeros, Bytes
<1> QED BY <1>2, BytesJoined DEF Align, AlignUp, g

(* The bytes of a number make that number. *)
LEMMA DigitsOf ==
    ASSUME NEW w \in Widths, NEW n, IsNumber(n, w), NEW endian
    PROVE  /\ Digits(n, w, endian) \in Bytes /\ Len(Digits(n, w, endian)) = w
           /\ NumberOf(InOrder(Digits(n, w, endian), endian)) = n
<1>1. n \in Nat /\ n < 256 * 256 * 256 /\ w \in Nat
    BY DEF IsNumber, Huge, Widths
<1>2. \A k \in Nat : Digit(n, k) \in Nat
    <2> TAKE k \in Nat
    <2>1. Digit(n, k) \in 0 .. 255
        BY <1>1, DigitShifted
    <2> QED BY <2>1
<1> DEFINE d == Digits(n, w, endian)
           e == InOrder(d, endian)
<1>3. d = [k \in 1 .. w |-> IF endian = "Big" THEN Digit(n, w - k) ELSE Digit(n, k - 1)]
    BY DEF Digits
<1> HIDE DEF d
<1>4. \A k \in 1 .. w : w - k \in Nat /\ k - 1 \in Nat
    BY <1>1
<1>5. \A k \in 1 .. w : d[k] \in Nat
    BY <1>2, <1>3, <1>4
<1>6. d \in Bytes /\ Len(d) = w
    BY <1>1, <1>3, <1>5 DEF Bytes
<1>7. Len(e) = w /\ \A k \in 1 .. w : e[k] = Digit(n, w - k)
    <2>1. CASE endian = "Big"
        BY <1>3, <1>6, <2>1 DEF InOrder
    <2>2. CASE endian # "Big"
        <3>1. e = [k \in 1 .. w |-> d[w + 1 - k]]
            <4>1. DOMAIN d = 1 .. w /\ Len(d) = w
                BY <1>3, <1>6
            <4> QED BY <2>2, <4>1 DEF InOrder
        <3>2. Len(e) = w
            BY <1>1, <3>1
        <3>3. ASSUME NEW k \in 1 .. w
              PROVE  e[k] = Digit(n, w - k)
            <4>1. w + 1 - k \in 1 .. w /\ (w + 1 - k) - 1 = w - k
                BY <1>1
            <4>2. d[w + 1 - k] = Digit(n, (w + 1 - k) - 1)
                BY <1>3, <2>2, <4>1
            <4> QED BY <3>1, <4>1, <4>2
        <3> QED BY <3>2, <3>3
    <2> QED BY <2>1, <2>2
<1> HIDE DEF e
<1>8. NumberOf(e) = n
    BY <1>7, NumberOfDigits
<1> QED BY <1>6, <1>8 DEF d, e

(* What stands in a buffer is found there. *)
LEMMA SliceFound ==
    ASSUME NEW a \in Bytes, NEW b \in Bytes, NEW c \in Bytes
    PROVE  /\ Fits((a \o b) \o c, Len(a), Len(b))
           /\ Slice((a \o b) \o c, Len(a), Len(b)) = b
<1> DEFINE s == (a \o b) \o c
<1>1. /\ s \in Bytes /\ Len(s) = Len(a) + Len(b) + Len(c)
      /\ Len(a) \in Nat /\ Len(b) \in Nat /\ Len(c) \in Nat
    BY BytesJoined
<1>2. \A k \in 1 .. Len(b) : s[Len(a) + k] = b[k]
    BY DEF Bytes
<1> HIDE DEF s
<1>3. Slice(s, Len(a), Len(b)) = b
    <2> DEFINE t == Slice(s, Len(a), Len(b))
    <2>1. t = SubSeq(s, Len(a) + 1, Len(a) + Len(b))
        BY DEF Slice
    <2> DEFINE m == Len(a) + 1
               n == Len(a) + Len(b)
    <2>2. m \in 1 .. Len(s) + 1 /\ n \in m - 1 .. Len(s) /\ n - m + 1 = Len(b)
        BY <1>1
    <2>3. s \in Seq(Nat)
        BY <1>1 DEF Bytes
    <2> HIDE DEF m, n
    <2>4. /\ SubSeq(s, m, n) \in Seq(Nat) /\ Len(SubSeq(s, m, n)) = Len(b)
          /\ \A k \in 1 .. Len(b) : SubSeq(s, m, n)[k] = s[m + k - 1]
        BY <2>2, <2>3, SubSeqProperties
    <2>5. t = SubSeq(s, m, n)
        BY <2>1 DEF m, n
    <2>6. ASSUME NEW k \in 1 .. Len(b)
          PROVE  t[k] = b[k]
        <3>1. m + k - 1 = Len(a) + k
            BY <1>1 DEF m
        <3> QED BY <1>2, <2>4, <2>5, <3>1
    <2>7. t \in Seq(Nat) /\ b \in Seq(Nat) /\ Len(t) = Len(b)
        BY <2>4, <2>5 DEF Bytes
    <2> HIDE DEF t
    <2>8. \A k \in 1 .. Len(t) : t[k] = b[k]
        BY <2>6, <2>7
    <2>9. t = b
        BY <2>7, <2>8, SeqEqual
    <2> QED BY <2>9 DEF t
<1>4. Fits(s, Len(a), Len(b))
    BY <1>1 DEF Fits
<1> QED BY <1>3, <1>4 DEF s

(* A number reads back, from where the buffer ended before it. *)
LEMMA PutNumberIs ==
    ASSUME NEW buf \in Bytes, NEW w \in Widths, NEW n, IsNumber(n, w), NEW endian
    PROVE  /\ PutNumber(buf, n, w, endian) \in Bytes
           /\ Len(PutNumber(buf, n, w, endian)) = AlignUp(Len(buf), w) + w
<1>1. Align(buf, w) \in Bytes /\ Len(Align(buf, w)) = AlignUp(Len(buf), w)
    BY Aligned
<1>2. Digits(n, w, endian) \in Bytes /\ Len(Digits(n, w, endian)) = w
    BY DigitsOf
<1> QED BY <1>1, <1>2, BytesJoined DEF PutNumber

LEMMA NumbersReadBack ==
    ASSUME NEW buf \in Bytes, NEW rest \in Bytes, NEW w \in Widths, NEW n, IsNumber(n, w), NEW endian
    PROVE  GetNumber(PutNumber(buf, n, w, endian) \o rest, Len(buf), w, endian)
           = Ok(n, Len(PutNumber(buf, n, w, endian)))
<1> DEFINE a == Align(buf, w)
           d == Digits(n, w, endian)
           all == (a \o d) \o rest
<1>1. a \in Bytes /\ d \in Bytes /\ Len(d) = w /\ Len(a) = AlignUp(Len(buf), w)
    BY Aligned, DigitsOf
<1>2. Fits(all, Len(a), Len(d)) /\ Slice(all, Len(a), Len(d)) = d
    BY <1>1, SliceFound
<1>3. NumberOf(InOrder(d, endian)) = n
    BY DigitsOf
<1>4. PutNumber(buf, n, w, endian) \o rest = all
    BY DEF PutNumber
<1>5. Len(PutNumber(buf, n, w, endian)) = Len(a) + w
    BY <1>1, PutNumberIs
<1> HIDE DEF a, d, all
<1>6. GetNumber(all, Len(buf), w, endian) = Ok(n, Len(a) + w)
    BY <1>1, <1>2, <1>3 DEF GetNumber
<1> QED BY <1>4, <1>5, <1>6

LEMMA JoinedTwice ==
    ASSUME NEW a \in Bytes, NEW b \in Bytes, NEW c \in Bytes
    PROVE  (a \o b) \o c = a \o (b \o c)
BY ConcatAssociative DEF Bytes

(* A text between what stands before it and the one byte that ends it. *)
LEMMA TextFound ==
    ASSUME NEW a \in Bytes, NEW s \in Bytes, NEW z \in Bytes, Len(z) = 1, NEW rest \in Bytes,
           NEW all, all = ((a \o s) \o z) \o rest
    PROVE  /\ (a \o s) \o z \in Bytes /\ Len((a \o s) \o z) = Len(a) + Len(s) + 1
           /\ s \o (z \o rest) \in Bytes /\ all = a \o (s \o (z \o rest))
           /\ Slice(all, Len(a), Len(s)) = s /\ Fits(all, Len(a), Len(s) + 1)
<1> DEFINE as == a \o s
           zr == z \o rest
           szr == s \o zr
<1>1. zr \in Bytes /\ as \in Bytes /\ Len(as) = Len(a) + Len(s)
    BY BytesJoined
<1>2. as \o z \in Bytes /\ Len(as \o z) = Len(a) + Len(s) + 1
    <2> HIDE DEF as
    <2>1. as \o z \in Bytes /\ Len(as \o z) = Len(as) + Len(z)
        BY <1>1, BytesJoined
    <2> QED BY <1>1, <2>1
<1>3. (as \o z) \o rest = as \o zr
    <2>1. as \in Bytes
        BY <1>1
    <2> HIDE DEF as, zr
    <2>2. (as \o z) \o rest = as \o (z \o rest)
        BY <2>1, JoinedTwice
    <2> QED BY <2>2 DEF zr
<1>4. szr \in Bytes /\ as \o zr = a \o szr
    <2>1. zr \in Bytes
        BY <1>1
    <2> HIDE DEF zr
    <2>2. szr \in Bytes
        BY <2>1, BytesJoined
    <2>3. (a \o s) \o zr = a \o (s \o zr)
        BY <2>1, JoinedTwice
    <2> QED BY <2>2, <2>3
<1>5. Slice(as \o zr, Len(a), Len(s)) = s
    <2> HIDE DEF zr
    <2> QED BY <1>1, SliceFound
<1> HIDE DEF as, zr, szr
<1>6. Len(all) = Len(a) + Len(s) + 1 + Len(rest) /\ Len(rest) \in Nat /\ Len(a) \in Nat
        /\ Len(s) \in Nat
    <2>1. Len((as \o z) \o rest) = Len(as \o z) + Len(rest)
        BY <1>2, BytesJoined
    <2>2. Len(rest) \in Nat /\ Len(a) \in Nat /\ Len(s) \in Nat
        BY DEF Bytes
    <2> QED BY <1>2, <2>1, <2>2 DEF as
<1>7. Fits(all, Len(a), Len(s) + 1)
    BY <1>6 DEF Fits
<1>8. all = as \o zr
    BY <1>3 DEF as
<1> QED BY <1>2, <1>4, <1>5, <1>7, <1>8 DEF as, zr, szr

(* So does a string, whose length comes before it, ... *)
IsText(s) == s \in Bytes /\ Len(s) < Huge

LEMMA StringsReadBack ==
    ASSUME NEW buf \in Bytes, NEW rest \in Bytes, NEW s, IsText(s), NEW endian
    PROVE  /\ PutString(buf, s, endian) \in Bytes
           /\ GetString(PutString(buf, s, endian) \o rest, Len(buf), endian)
              = Ok(s, Len(PutString(buf, s, endian)))
<1> DEFINE a == PutNumber(buf, Len(s), 4, endian)
           z == <<0>>
           all == ((a \o s) \o z) \o rest
<1>1. s \in Bytes /\ Len(s) \in Nat /\ IsNumber(Len(s), 4) /\ 4 \in Widths
    BY DEF IsText, IsNumber, Widths, Bytes
<1>2. a \in Bytes /\ z \in Bytes /\ Len(z) = 1
    <2>1. a \in Bytes
        BY <1>1, PutNumberIs
    <2>2. z \in Bytes /\ Len(z) = 1
        BY DEF Bytes
    <2> QED BY <2>1, <2>2
<1>3. PutString(buf, s, endian) = (a \o s) \o z
    BY DEF PutString
<1> HIDE DEF a, z
<1>4. /\ (a \o s) \o z \in Bytes /\ Len((a \o s) \o z) = Len(a) + Len(s) + 1
      /\ s \o (z \o rest) \in Bytes /\ all = a \o (s \o (z \o rest))
      /\ Slice(all, Len(a), Len(s)) = s /\ Fits(all, Len(a), Len(s) + 1)
    BY <1>1, <1>2, TextFound
<1>5. GetNumber(a \o (s \o (z \o rest)), Len(buf), 4, endian) = Ok(Len(s), Len(a))
    BY <1>1, <1>4, NumbersReadBack DEF a
<1> HIDE DEF all
<1>6. GetNumber(all, Len(buf), 4, endian) = Ok(Len(s), Len(a))
    BY <1>4, <1>5
<1>7. GetString(all, Len(buf), endian) = Ok(s, Len(a) + Len(s) + 1)
    BY <1>4, <1>6 DEF GetString, Then, IsOk, Ok
<1> QED BY <1>3, <1>4, <1>7 DEF all

(* ... a signature, whose length is one byte, ... *)
IsSignatureText(c) == c \in Bytes /\ Len(c) < 256

LEMMA SignaturesReadBack ==
    ASSUME NEW buf \in Bytes, NEW rest \in Bytes, NEW c, IsSignatureText(c)
    PROVE  /\ PutSignature(buf, c) \in Bytes
           /\ GetSignature(PutSignature(buf, c) \o rest, Len(buf))
              = Ok(c, Len(PutSignature(buf, c)))
<1> DEFINE n == <<Len(c) % 256>>
           z == <<0>>
           all == (((buf \o n) \o c) \o z) \o rest
<1>1. c \in Bytes /\ Len(c) \in Nat /\ Len(c) % 256 = Len(c)
    <2>1. c \in Bytes /\ Len(c) \in Nat /\ Len(c) < 256
        BY DEF IsSignatureText, Bytes
    <2>2. \A k \in Nat : k < 256 => k % 256 = k
        OBVIOUS
    <2> QED BY <2>1, <2>2
<1>2. n = <<Len(c)>> /\ n \in Bytes /\ Len(n) = 1 /\ n[1] = Len(c) /\ z \in Bytes /\ Len(z) = 1
    BY <1>1 DEF Bytes
<1>3. PutSignature(buf, c) = ((buf \o n) \o c) \o z
    BY DEF PutSignature
<1> HIDE DEF n, z
<1> DEFINE a == buf \o n
<1>4. a \in Bytes /\ Len(a) = Len(buf) + 1 /\ Len(buf) \in Nat
    BY <1>2, BytesJoined
<1>5. a[Len(buf) + 1] = Len(c)
    BY <1>2, <1>4 DEF Bytes
<1> HIDE DEF a
<1>6. /\ (a \o c) \o z \in Bytes /\ Len((a \o c) \o z) = Len(a) + Len(c) + 1
      /\ c \o (z \o rest) \in Bytes /\ all = a \o (c \o (z \o rest))
      /\ Slice(all, Len(a), Len(c)) = c /\ Fits(all, Len(a), Len(c) + 1)
    BY <1>1, <1>2, <1>4, TextFound DEF a
<1>7. all[Len(buf) + 1] = Len(c)
    <2>1. (a \o (c \o (z \o rest)))[Len(buf) + 1] = a[Len(buf) + 1]
        BY <1>4, <1>6 DEF Bytes
    <2> QED BY <1>5, <1>6, <2>1
<1> HIDE DEF all
<1>8. Fits(all, Len(buf), 1) /\ Fits(all, Len(buf) + 1, Len(c))
    <2>1. Len(all) \in Nat
        BY <1>4, <1>6, BytesJoined
    <2> QED BY <1>1, <1>4, <1>6, <2>1 DEF Fits
<1>9. Slice(all, Len(buf) + 1, Len(c)) = c
    BY <1>4, <1>6
<1>10. GetSignature(all, Len(buf)) = Ok(c, Len(buf) + Len(c) + 2)
    BY <1>7, <1>8, <1>9 DEF GetSignature
<1>11. Len(buf) + Len(c) + 2 = Len(a) + Len(c) + 1
    BY <1>1, <1>4
<1> QED BY <1>3, <1>6, <1>10, <1>11 DEF all, a

(* ... and a Boolean, which is four bytes wide. *)
LEMMA BoolsReadBack ==
    ASSUME NEW buf \in Bytes, NEW rest \in Bytes, NEW n \in {0, 1}, NEW endian
    PROVE  GetBool(PutNumber(buf, n, 4, endian) \o rest, Len(buf), endian)
           = Ok(n, Len(PutNumber(buf, n, 4, endian)))
<1>1. IsNumber(n, 4) /\ 4 \in Widths
    BY DEF IsNumber, Widths, Huge
<1>2. GetNumber(PutNumber(buf, n, 4, endian) \o rest, Len(buf), 4, endian)
      = Ok(n, Len(PutNumber(buf, n, 4, endian)))
    BY <1>1, NumbersReadBack
<1>3. (IF n # 0 THEN 1 ELSE 0) = n
    OBVIOUS
<1> QED BY <1>2, <1>3 DEF GetBool, Then, IsOk, Ok

-----------------------------------------------------------------------------
(* The basic values of a message: what append() << value leaves and what    *)
(* iterator >> value finds                                                 *)

(* The values of each basic type but a file descriptor, in the bounds of   *)
(* the model. *)
BigEndian == "Big"
IsBasicValue(t, val) ==
    \/ t = "b" /\ val \in {0, 1}
    \/ t \in Numbers \ {"b"} /\ IsNumber(val, Width(t))
    \/ t \in Strings /\ IsText(val)
    \/ t = "g" /\ IsSignatureText(val)

LEMMA WidthOfNumber ==
    ASSUME NEW t \in Numbers
    PROVE  Width(t) \in Widths /\ (t = "b" => Width(t) = 4)
BY DEF Numbers, Fixed2, Fixed4, Fixed8, Width, Widths

(* What is appended comes after what is there. *)
IsAfter(all, buf) == \E rest \in Bytes : all = buf \o rest
(* The iterator reads these bytes. *)
ReadsFrom(ctx, all) == ctx.bytes = all /\ ctx.endian = BigEndian

(* One value, wherever the buffer ends before it. *)
LEMMA BasicReadsBack ==
    ASSUME NEW buf \in Bytes, NEW t, NEW val, IsBasicValue(t, val),
           NEW all, IsAfter(all, PutBasic(buf, t, val)), NEW ctx, ReadsFrom(ctx, all)
    PROVE  GetExact(ctx, t, Len(buf)) = Ok(val, Len(PutBasic(buf, t, val)))
<1>5. PICK rest \in Bytes : ctx.bytes = PutBasic(buf, t, val) \o rest /\ ctx.endian = BigEndian
    BY DEF IsAfter, ReadsFrom
<1>1. CASE t = "b" /\ val \in {0, 1}
    <2>1. t \in Numbers
        BY <1>1 DEF Numbers
    <2>2. PutBasic(buf, t, val) = PutNumber(buf, val, 4, BigEndian)
        BY <1>1, <2>1, WidthOfNumber DEF PutBasic, AppendNumber, BigEndian
    <2>5. GetExact(ctx, t, Len(buf)) = GetBool(ctx.bytes, Len(buf), BigEndian)
        <3>1. t \notin Strings /\ t # "g"
            BY <1>1 DEF Strings
        <3> QED BY <1>1, <1>5, <3>1 DEF GetExact
    <2>6. GetBool(PutNumber(buf, val, 4, BigEndian) \o rest, Len(buf), BigEndian)
          = Ok(val, Len(PutNumber(buf, val, 4, BigEndian)))
        BY <1>1, BoolsReadBack
    <2> QED BY <1>5, <2>2, <2>5, <2>6
<1>2. CASE t \in Numbers \ {"b"} /\ IsNumber(val, Width(t))
    <2> DEFINE w == Width(t)
    <2>1. PutBasic(buf, t, val) = PutNumber(buf, val, w, BigEndian)
        BY <1>2 DEF PutBasic, AppendNumber, BigEndian
    <2>2. GetExact(ctx, t, Len(buf)) = GetNumber(ctx.bytes, Len(buf), w, BigEndian)
        <3>1. t \notin Strings /\ t # "g" /\ t # "b"
            BY <1>2 DEF Strings, Numbers, Fixed2, Fixed8
        <3> QED BY <1>2, <1>5, <3>1 DEF GetExact
    <2>3. w \in Widths /\ IsNumber(val, w)
        BY <1>2, WidthOfNumber
    <2> HIDE DEF w
    <2>5. GetNumber(PutNumber(buf, val, w, BigEndian) \o rest, Len(buf), w, BigEndian)
          = Ok(val, Len(PutNumber(buf, val, w, BigEndian)))
        BY <2>3, NumbersReadBack
    <2> QED BY <1>5, <2>1, <2>2, <2>5
<1>3. CASE t \in Strings /\ IsText(val)
    <2>1. t \notin Numbers /\ t # "g" /\ t # "b"
        BY <1>3 DEF Strings, Numbers, Fixed2, Fixed8
    <2>2. PutBasic(buf, t, val) = PutString(buf, val, BigEndian)
        BY <2>1 DEF PutBasic, AppendString, BigEndian
    <2>3. GetExact(ctx, t, Len(buf)) = GetString(ctx.bytes, Len(buf), BigEndian)
        BY <1>3, <1>5, <2>1 DEF GetExact
    <2> QED BY <1>3, <1>5, <2>2, <2>3, StringsReadBack
<1>4. CASE t = "g" /\ IsSignatureText(val)
    <2>1. t \notin Numbers /\ t \notin Strings /\ t # "b"
        BY <1>4 DEF Strings, Numbers, Fixed2, Fixed8
    <2>2. PutBasic(buf, t, val) = PutSignature(buf, val)
        BY <1>4, <2>1 DEF PutBasic, AppendString
    <2>3. GetExact(ctx, t, Len(buf)) = GetSignature(ctx.bytes, Len(buf))
        BY <1>4, <2>1 DEF GetExact
    <2> QED BY <1>4, <1>5, <2>2, <2>3, SignaturesReadBack
<1> QED BY <1>1, <1>2, <1>3, <1>4 DEF IsBasicValue

(* Appending keeps what is there. *)
LEMMA AfterItself ==
    ASSUME NEW a \in Bytes
    PROVE  IsAfter(a, a)
<1>1. <<>> \in Bytes /\ a \o <<>> = a
    BY DEF Bytes
<1> QED BY <1>1 DEF IsAfter

LEMMA AfterAnother ==
    ASSUME NEW a \in Bytes, NEW b, IsAfter(b, a), NEW c, IsAfter(c, b)
    PROVE  IsAfter(c, a)
<1>1. PICK x \in Bytes : b = a \o x
    BY DEF IsAfter
<1>2. PICK y \in Bytes : c = b \o y
    BY DEF IsAfter
<1>3. c = a \o (x \o y)
    BY <1>1, <1>2, JoinedTwice
<1>4. x \o y \in Bytes
    BY BytesJoined
<1> QED BY <1>3, <1>4 DEF IsAfter

LEMMA Appended ==
    ASSUME NEW a \in Bytes, NEW b \in Bytes
    PROVE  IsAfter(a \o b, a) /\ a \o b \in Bytes
BY BytesJoined DEF IsAfter

LEMMA NumberAppended ==
    ASSUME NEW buf \in Bytes, NEW w \in Widths, NEW n, IsNumber(n, w), NEW endian
    PROVE  IsAfter(PutNumber(buf, n, w, endian), buf)
<1> DEFINE g == Gap(Len(buf), w)
           z == Zeros(g)
           d == Digits(n, w, endian)
<1>1. g \in Nat
    BY GapIsNatural DEF Bytes
<1>2. z \in Bytes
    <2> HIDE DEF g
    <2> QED BY <1>1 DEF Zeros, Bytes
<1>3. d \in Bytes
    BY DigitsOf
<1>4. PutNumber(buf, n, w, endian) = (buf \o z) \o d
    BY DEF PutNumber, Align
<1> HIDE DEF z, d
<1>5. IsAfter(buf \o z, buf) /\ buf \o z \in Bytes
    BY <1>2, Appended
<1>6. IsAfter((buf \o z) \o d, buf \o z)
    BY <1>3, <1>5, Appended
<1> QED BY <1>4, <1>5, <1>6, AfterAnother

LEMMA BasicAppended ==
    ASSUME NEW buf \in Bytes, NEW t, NEW val, IsBasicValue(t, val)
    PROVE  IsAfter(PutBasic(buf, t, val), buf)
<1>1. CASE t \in Numbers /\ IsNumber(val, Width(t))
    <2> DEFINE w == Width(t)
    <2>1. PutBasic(buf, t, val) = PutNumber(buf, val, w, BigEndian)
        BY <1>1 DEF PutBasic, AppendNumber, BigEndian
    <2>2. w \in Widths /\ IsNumber(val, w)
        BY <1>1, WidthOfNumber
    <2> HIDE DEF w
    <2> QED BY <2>1, <2>2, NumberAppended
<1>2. CASE t = "b" /\ val \in {0, 1}
    <2>1. t \in Numbers /\ Width(t) = 4
        <3>1. t \in Numbers
            BY <1>2 DEF Numbers
        <3> QED BY <1>2, <3>1, WidthOfNumber
    <2>2. IsNumber(val, 4)
        BY <1>2 DEF IsNumber, Huge
    <2> QED BY <1>1, <2>1, <2>2
<1>3. CASE t \in Strings /\ IsText(val)
    <2> DEFINE a == PutNumber(buf, Len(val), 4, BigEndian)
               z == <<0>>
    <2>1. t \notin Numbers /\ t # "g"
        BY <1>3 DEF Strings, Numbers, Fixed2, Fixed8
    <2>2. PutBasic(buf, t, val) = (a \o val) \o z
        BY <2>1 DEF PutBasic, AppendString, PutString, BigEndian
    <2>3. val \in Bytes /\ IsNumber(Len(val), 4) /\ 4 \in Widths /\ z \in Bytes
        BY <1>3 DEF IsText, IsNumber, Widths, Bytes
    <2>4. a \in Bytes /\ IsAfter(a, buf)
        BY <2>3, PutNumberIs, NumberAppended
    <2> HIDE DEF a, z
    <2>5. IsAfter(a \o val, a) /\ a \o val \in Bytes
        BY <2>3, <2>4, Appended
    <2>6. IsAfter((a \o val) \o z, a \o val)
        BY <2>3, <2>5, Appended
    <2>7. IsAfter(a \o val, buf)
        BY <2>4, <2>5, AfterAnother
    <2> QED BY <2>2, <2>6, <2>7, AfterAnother
<1>4. CASE t = "g" /\ IsSignatureText(val)
    <2> DEFINE n == <<Len(val) % 256>>
               z == <<0>>
    <2>1. t \notin Numbers
        BY <1>4 DEF Numbers, Fixed2, Fixed8
    <2>2. PutBasic(buf, t, val) = ((buf \o n) \o val) \o z
        BY <1>4, <2>1 DEF PutBasic, AppendString, PutSignature
    <2>3. val \in Bytes /\ n \in Bytes /\ z \in Bytes
        <3>1. val \in Bytes /\ Len(val) \in Nat
            BY <1>4 DEF IsSignatureText, Bytes
        <3>2. \A k \in Nat : k % 256 \in Nat
            OBVIOUS
        <3> QED BY <3>1, <3>2 DEF Bytes
    <2> HIDE DEF n, z
    <2>4. IsAfter(buf \o n, buf) /\ buf \o n \in Bytes
        BY <2>3, Appended
    <2>5. IsAfter((buf \o n) \o val, buf \o n) /\ (buf \o n) \o val \in Bytes
        BY <2>3, <2>4, Appended
    <2>6. IsAfter(((buf \o n) \o val) \o z, (buf \o n) \o val)
        BY <2>3, <2>5, Appended
    <2>7. IsAfter((buf \o n) \o val, buf)
        BY <2>4, <2>5, AfterAnother
    <2> QED BY <2>2, <2>6, <2>7, AfterAnother
<1> QED BY <1>1, <1>2, <1>3, <1>4 DEF IsBasicValue

(* The buffer after each of the first k values. *)
IsWriting(f, types, vals, k) ==
    f = [n \in 0 .. k |-> IF n = 0 THEN <<>> ELSE PutBasic(f[n - 1], types[n], vals[n])]
Writing(types, vals) == CHOOSE f : IsWriting(f, types, vals, Len(types))
BufferAfter(types, vals, n) == Writing(types, vals)[n]

(* The function Writing exists. *)
WritingExists(types, vals, k) == \E f : IsWriting(f, types, vals, k)

LEMMA WritingBegins == \A types, vals : WritingExists(types, vals, 0)
<1> TAKE types, vals
<1> DEFINE f == [n \in 0 .. 0 |-> <<>>]
<1>1. IsWriting(f, types, vals, 0)
    BY DEF IsWriting
<1> QED BY <1>1 DEF WritingExists

LEMMA WritingGoesOn ==
    ASSUME NEW types, NEW vals, NEW k \in Nat, WritingExists(types, vals, k)
    PROVE  WritingExists(types, vals, k + 1)
<1>1. PICK p : IsWriting(p, types, vals, k)
    BY DEF WritingExists
<1> DEFINE q == [n \in 0 .. k + 1 |->
                    IF n = k + 1 THEN PutBasic(p[k], types[k + 1], vals[k + 1]) ELSE p[n]]
<1>2. \A n \in 0 .. k : p[n] = IF n = 0 THEN <<>> ELSE PutBasic(p[n - 1], types[n], vals[n])
    BY <1>1 DEF IsWriting
<1>3. \A n \in 0 .. k + 1 :
          q[n] = IF n = 0 THEN <<>> ELSE PutBasic(q[n - 1], types[n], vals[n])
    <2> TAKE n \in 0 .. k + 1
    <2>1. CASE n = k + 1
        BY <2>1
    <2>2. CASE n # k + 1
        <3>1. n \in 0 .. k /\ (n # 0 => n - 1 \in 0 .. k)
            BY <2>2
        <3> QED BY <3>1, <1>2
    <2> QED BY <2>1, <2>2
<1>4. IsWriting(q, types, vals, k + 1)
    BY <1>3 DEF IsWriting
<1> HIDE DEF q
<1> QED BY <1>4 DEF WritingExists

AreBasicValues(types, vals, n) ==
    /\ n \in Nat /\ Len(types) = n
    /\ \A k \in 1 .. n : IsBasicValue(types[k], vals[k])

(* Each value is appended to what was written before, ... *)
LEMMA WrittenStep ==
    ASSUME NEW types, NEW vals, NEW n, AreBasicValues(types, vals, n)
    PROVE  /\ BufferAfter(types, vals, 0) = <<>>
           /\ \A k \in 1 .. n :
                 BufferAfter(types, vals, k) = PutBasic(BufferAfter(types, vals, k - 1), types[k], vals[k])
<1> DEFINE S == {k \in 0 .. n : WritingExists(types, vals, k)}
<1>1. n \in Nat /\ Len(types) = n
    BY DEF AreBasicValues
<1>2. 0 \in S
    BY <1>1, WritingBegins
<1>3. \A k \in 0 .. n - 1 : k \in S => k + 1 \in S
    BY <1>1, WritingGoesOn
<1> HIDE DEF S
<1>4. n \in S
    BY <1>1, <1>2, <1>3, SetInduction
<1>5. \E f : IsWriting(f, types, vals, n)
    BY <1>4 DEF S, WritingExists
<1> DEFINE f == Writing(types, vals)
<1>6. IsWriting(f, types, vals, n)
    BY <1>1, <1>5 DEF Writing
<1> HIDE DEF f
<1>7. \A k \in 0 .. n : f[k] = IF k = 0 THEN <<>> ELSE PutBasic(f[k - 1], types[k], vals[k])
    BY <1>6 DEF IsWriting
<1>8. f[0] = <<>>
    BY <1>1, <1>7
<1>9. \A k \in 1 .. n : k \in 0 .. n /\ k # 0
    OBVIOUS
<1>10. \A k \in 1 .. n : f[k] = PutBasic(f[k - 1], types[k], vals[k])
    BY <1>7, <1>9
<1> QED BY <1>8, <1>10 DEF f, BufferAfter

(* ... which stays. *)
LEMMA WrittenGrows ==
    ASSUME NEW types, NEW vals, NEW n, AreBasicValues(types, vals, n), NEW k \in 0 .. n
    PROVE  \A m \in 0 .. k :
              /\ BufferAfter(types, vals, m) \in Bytes
              /\ IsAfter(BufferAfter(types, vals, k), BufferAfter(types, vals, m))
<1> DEFINE W(m) == BufferAfter(types, vals, m)
           Grows(j) == \A m \in 0 .. j : W(m) \in Bytes /\ IsAfter(W(j), W(m))
           S == {j \in 0 .. k : Grows(j)}
<1>1. n \in Nat /\ k \in Nat /\ k <= n /\ \A m \in 1 .. n : IsBasicValue(types[m], vals[m])
    BY DEF AreBasicValues
<1>2. /\ W(0) = <<>>
      /\ \A m \in 1 .. n : W(m) = PutBasic(W(m - 1), types[m], vals[m])
    BY WrittenStep
<1>3. <<>> \in Bytes
    BY DEF Bytes
<1> HIDE DEF W
<1>4. 0 \in S
    <2>1. W(0) \in Bytes
        BY <1>2, <1>3
    <2>2. IsAfter(W(0), W(0))
        BY <2>1, AfterItself
    <2> QED BY <1>1, <2>1, <2>2
<1>5. ASSUME NEW j \in 0 .. k - 1, Grows(j)
      PROVE  Grows(j + 1)
    <2> DEFINE i == j + 1
    <2>1. i \in 1 .. n /\ i - 1 = j /\ j \in 0 .. j /\ \A m \in 0 .. i : m = i \/ m \in 0 .. j
        BY <1>1
    <2>2. W(i) = PutBasic(W(j), types[i], vals[i]) /\ IsBasicValue(types[i], vals[i])
        BY <1>1, <1>2, <2>1
    <2> HIDE DEF i
    <2>3. W(j) \in Bytes
        BY <1>5, <2>1
    <2>4. IsAfter(W(i), W(j))
        BY <2>2, <2>3, BasicAppended
    <2>5. W(i) \in Bytes
        BY <2>3, <2>4, BytesJoined DEF IsAfter
    <2>6. ASSUME NEW m \in 0 .. i
          PROVE  W(m) \in Bytes /\ IsAfter(W(i), W(m))
        <3>1. CASE m = i
            BY <2>5, <3>1, AfterItself
        <3>2. CASE m \in 0 .. j
            <4> DEFINE a == W(m)
                       b == W(j)
                       c == W(i)
            <4>1. a \in Bytes /\ IsAfter(b, a) /\ IsAfter(c, b)
                BY <1>5, <2>4, <3>2
            <4> HIDE DEF a, b, c
            <4>2. IsAfter(c, a)
                BY <4>1, AfterAnother
            <4> QED BY <4>1, <4>2 DEF a, c
        <3> QED BY <2>1, <3>1, <3>2
    <2>7. Grows(i)
        BY <2>6
    <2> QED BY <2>7 DEF i
<1>6. \A j \in 0 .. k - 1 : j \in S => j + 1 \in S
    <2> HIDE DEF Grows
    <2> SUFFICES ASSUME NEW j \in 0 .. k - 1, Grows(j)
                 PROVE  j + 1 \in 0 .. k /\ Grows(j + 1)
        OBVIOUS
    <2> QED BY <1>1, <1>5
<1> HIDE DEF S
<1>7. k \in S
    BY <1>1, <1>4, <1>6, SetInduction
<1> QED BY <1>7 DEF S, W

(* Every list of basic values that is appended to a message, of any length  *)
(* and in any order, is read back value by value, each from where the one   *)
(* before it ended: what Marshaling aligns, sizes and ends, Demarshaling    *)
(* skips by the same amount (marshaling.cpp, demarshaling.cpp).             *)
THEOREM BasicValuesReadBack ==
    ASSUME NEW types, NEW vals, NEW n, AreBasicValues(types, vals, n), NEW k \in 1 .. n,
           NEW ctx, ReadsFrom(ctx, BufferAfter(types, vals, n))
    PROVE  GetExact(ctx, types[k], Len(BufferAfter(types, vals, k - 1)))
           = Ok(vals[k], Len(BufferAfter(types, vals, k)))
<1> DEFINE a == BufferAfter(types, vals, k - 1)
           b == BufferAfter(types, vals, k)
           all == BufferAfter(types, vals, n)
           t == types[k]
           v == vals[k]
<1>1. n \in Nat /\ k - 1 \in 0 .. n /\ k \in 0 .. n /\ n \in 0 .. n /\ k - 1 \in 0 .. k
        /\ IsBasicValue(t, v)
    BY DEF AreBasicValues
<1>2. a \in Bytes
    BY <1>1, WrittenGrows
<1>3. b = PutBasic(a, t, v)
    BY WrittenStep
<1>4. IsAfter(all, b)
    BY <1>1, WrittenGrows
<1>5. ReadsFrom(ctx, all)
    OBVIOUS
<1> HIDE DEF a, b, all, t, v
<1>6. GetExact(ctx, t, Len(a)) = Ok(v, Len(PutBasic(a, t, v)))
    BY <1>1, <1>2, <1>3, <1>4, <1>5, BasicReadsBack
<1>7. GetExact(ctx, t, Len(a)) = Ok(v, Len(b))
    BY <1>3, <1>6
<1> QED BY <1>7 DEF a, b, t, v
=============================================================================
