---------------------------- MODULE MCMessages ----------------------------
(***************************************************************************)
(* What the library and its tools write and read again: messages, and the  *)
(* documents that describe objects.  A run takes one of the two.           *)
(***************************************************************************)
EXTENDS UnitTests, MCDocuments

VARIABLE part

y == Basic("y")
q == Basic("q")
x == Basic("x")
s == Basic("s")
Long == <<97, 98, 99, 100>>

BasicSamples ==
    {Arg(y, 7), Arg(q, 300), Arg(Basic("b"), 1), Arg(i, 66000), Arg(x, 9), Arg(s, Long),
     Arg(Basic("g"), Codes(<<"a", "i">>)), Arg(Basic("h"), 5)}
ArraySamples ==
    {Arg(ArrayOf(s), <<Long, Long>>),              \* read whole
     Arg(ArrayOf(y), <<1, 2, 3, 4, 5>>),           \* the end is not read
     Arg(ArrayOf(s), <<[k \in 1 .. MaxArray |-> 97]>>),   \* too long
     Arg(ArrayOf(x), <<>>),
     Arg(ArrayOf(ArrayOf(x)), <<<<1>>, <<2>>>>),   \* not aligned
     Arg(ArrayOf(StructOf(<<x, s>>)), <<<<1, Long>>, <<2, <<>>>>>>),
     Arg(ArrayOf(VariantType), <<Arg(s, Long), Arg(s, Long)>>)}
MapSamples ==
    {Arg(MapOf(i, s), <<<<1, Long>>, <<2, Long>>>>),
     Arg(MapOf(i, MapOf(i, x)), <<<<1, <<<<3, 5>>>>>>, <<2, <<<<4, 6>>>>>>>>),
     Arg(MapOf(s, VariantType), <<<<Long, Arg(x, 3)>>>>)}
StructSamples ==
    {Arg(StructOf(<<y, x, s>>), <<1, 2, Long>>),
     Arg(StructOf(<<i, StructOf(<<y, i>>)>>), <<1, <<2, 3>>>>),
     Arg(ArrayOf(StructOf(<<StructOf(<<i>>), i>>)), <<>>)}   \* the append divides by 0
VariantSamples ==
    {Arg(VariantType, Arg(x, 4)), Arg(VariantType, Arg(s, Long)),
     Arg(VariantType, Arg(ArrayOf(s), <<Long, Long>>)),
     Arg(VariantType, Arg(ArrayOf(x), <<1, 2>>)),
     Arg(VariantType, Arg(StructOf(<<i, y>>), <<1, 2>>)),
     Arg(VariantType, Arg(MapOf(i, s), <<<<1, Long>>>>))}
AllSamples == BasicSamples \cup ArraySamples \cup MapSamples \cup StructSamples \cup VariantSamples

(* The documents are checked with no message, and the messages with the     *)
(* empty document.                                                          *)
WireInit ==
    /\ part \in {"messages", "documents"}
    /\ IF part = "documents" THEN TRUE
       ELSE described = NoDocument /\ ignoreInterface = FALSE /\ toMake = {"proxy"}
    /\ Init /\ XmlInit
    /\ part = "documents" => described # NoDocument
WireNext ==
    \/ part = "messages" /\ Next /\ UNCHANGED <<xmlVars, part>>
    \/ part = "documents" /\ XmlNext /\ UNCHANGED <<vars, part>>
WireSpec == WireInit /\ [][WireNext]_<<vars, xmlVars, part>>
=============================================================================
