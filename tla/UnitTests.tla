----------------------------- MODULE UnitTests -----------------------------
(***************************************************************************)
(* The repository's own unit tests of messages, signatures, paths and bus  *)
(* names (src/unit-tests), as cases the models have to pass as the library *)
(* does.  A test that appends arguments to a message and reads them again  *)
(* is the sequence of the arguments: RunTest of Messages does the rest.    *)
(*                                                                         *)
(* Data is cut down: a string is a few codes, 35 random elements are five, *)
(* and a number is a natural number that fills the bytes which differ.     *)
(***************************************************************************)
EXTENDS Messages, Names

Arg(T, val) == [T |-> T, val |-> val]
Of(t, val) == Arg(Basic(t), val)
Hello == <<72, 101, 108, 108, 111, 32, 87, 111, 114, 108, 100>>
Sig == Codes(<<"a", "{", "i", "q", "}">>)
Random(n) == [k \in 1 .. n |-> (k * 7919) % 65536]
Named(n) == [k \in 1 .. n |-> <<115, 48 + k>>]
Map3 == <<<<1, 1001>>, <<2, 1002>>, <<3, 1003>>>>

(* messageiteratortests.cpp: single arguments, read with a conversion       *)
(* operator.                                                                *)
NumberTests ==
    {<<Of("b", 1)>>, <<Of("y", 67)>>, <<Of("n", 16782)>>, <<Of("q", 16794)>>, <<Of("i", 47892)>>,
     <<Of("u", 53938)>>, <<Of("x", 378983)>>, <<Of("t", 4924953)>>, <<Of("d", 3141592)>>}
StringTests == {<<Of("s", Hello)>>, <<Of("g", Sig)>>}
ArrayTests ==
    {<<Arg(ArrayOf(Int32), Random(5))>>, <<Arg(ArrayOf(Str), Named(5))>>,
     <<Arg(ArrayOf(ArrayOf(Str)), <<Named(3), Named(2)>>)>>}
DescriptorTests == {<<Of("h", 5)>>}
StructTests == {<<Arg(StructOf(<<Int32, Basic("y")>>), <<68, 111>>)>>}
VariantTests ==
    {<<Arg(VariantType, Of("i", 99))>>, <<Arg(VariantType, Arg(ArrayOf(Int32), <<5>>))>>,
     <<Arg(VariantType, Arg(MapOf(Basic("q"), Int32), Map3))>>,
     <<Arg(VariantType, Arg(StructOf(<<Int32, Str, Basic("q")>>), <<5, Hello, 66>>))>>}
(* The keys in the order in which std::map keeps them. *)
StringMapTests ==
    {<<Arg(MapOf(Str, Str), <<<<<<102>>, Hello>>, <<<<115>>, <<104>>>>>>)>>,
     <<Arg(MapOf(Str, Str), <<<<<<50>>, Hello>>, <<<<82>>, <<55>>>>, <<<<102>>, <<54>>>>,
                              <<<<102, 105>>, <<119>>>>, <<<<115>>, Hello>>>>)>>}
VariantMapTests ==
    {<<Arg(MapOf(Str, VariantType), <<<<<<111>>, Of("i", 305419)>>, <<<<120>>, Of("s", Hello)>>>>)>>,
     <<Arg(MapOf(Str, VariantType),
           <<<<<<97>>, Of("s", <<109>>)>>, <<<<97, 98>>, Of("d", 51234)>>,
             <<<<108>>, Of("q", 45)>>, <<<<111>>, Of("i", 305419)>>, <<<<120>>, Of("s", Hello)>>>>)>>}
Multiple ==
    <<Of("b", 0), Of("y", 67), Of("n", 16782), Of("q", 16794), Of("i", 47892), Of("u", 53938),
      Of("x", 378983), Of("t", 4924953), Of("d", 3141592), Of("s", Hello), Of("s", Hello)>>
MultipleTests ==
    {Multiple \o <<Of("g", Sig), Of("y", 97), Of("y", 119), Of("d", 22243),
                   Arg(ArrayOf(Basic("d")), Random(5))>>}

(* The second half of the file, with the operator >>. *)
InsertionTests ==
    NumberTests \cup StringTests
    \cup {<<Arg(VariantType, Of("i", 99))>>, <<Arg(ArrayOf(Str), Named(2))>>,
          <<Arg(ArrayOf(Int32), Random(5))>>}
InsertionMultipleTests == MultipleTests \cup StructTests

(* callmessagetests.cpp: the same with the operators of the message. *)
CallNumberTests == NumberTests \cup {<<Of("s", Hello)>>}
CallArrayTests == {<<Arg(ArrayOf(Basic("d")), Random(5))>>}
CallMultipleTests == {Multiple \o <<Arg(ArrayOf(Basic("d")), Random(5))>>}

(* datatests.cpp: the arguments of the calls a client makes.  A struct      *)
(* custom is two int32 arguments.                                           *)
DataTests ==
    {<<Of("i", 2), Of("i", 3)>>, <<>>, <<Of("i", 5), Of("i", 10)>>,
     <<Of("i", 10), Of("i", 5), Of("i", 10)>>,
     <<Arg(StructOf(<<Int32, Basic("d"), Str>>), <<26, 11, Hello>>)>>,
     <<Arg(VariantType, Arg(ArrayOf(Int32), <<5, 5248, 8888>>))>>,
     <<Arg(VariantType, Arg(MapOf(Basic("q"), Int32), Map3))>>,
     <<Arg(VariantType, Arg(StructOf(<<Basic("q"), Int32>>), <<5, 185453>>))>>}

MessageTests ==
    NumberTests \cup StringTests \cup ArrayTests \cup DescriptorTests \cup StructTests
    \cup VariantTests \cup StringMapTests \cup VariantMapTests \cup MultipleTests
    \cup InsertionTests \cup InsertionMultipleTests \cup CallNumberTests \cup CallArrayTests \cup CallMultipleTests \cup DataTests

-----------------------------------------------------------------------------
(* signaturetests.cpp: signatures and the nodes the iterators go through.   *)
i == Basic("i")
d == Basic("d")
TreeTests ==
    {[sig |-> <<"i">>, nodes |-> <<i>>],
     [sig |-> <<"a", "i">>, nodes |-> <<ArrayOf(i)>>],
     [sig |-> <<"a", "a", "i">>, nodes |-> <<ArrayOf(ArrayOf(i))>>],
     [sig |-> <<"i", "d", "y", "b">>, nodes |-> <<i, d, Basic("y"), Basic("b")>>],
     [sig |-> <<"a", "{", "y", "v", "}">>, nodes |-> <<MapOf(Basic("y"), VariantType)>>],
     [sig |-> <<"(", "b", "d", "i", ")">>, nodes |-> <<StructOf(<<Basic("b"), d, i>>)>>]}
SequelTests ==
    {[sig |-> <<"a", "a", "i", "d", "d">>, nodes |-> <<ArrayOf(ArrayOf(i)), d, d>>],
     [sig |-> <<"a", "{", "b", "s", "}", "i", "x">>,
      nodes |-> <<MapOf(Basic("b"), Basic("s")), i, Basic("x")>>],
     [sig |-> <<"(", "b", "s", ")", "i", "x">>,
      nodes |-> <<StructOf(<<Basic("b"), Basic("s")>>), i, Basic("x")>>]}
NestedTests ==
    {[sig |-> <<"(", "i", "(", "i", "d", ")", ")">>,
      nodes |-> <<StructOf(<<i, StructOf(<<i, d>>)>>)>>],
     [sig |-> <<"b">>, nodes |-> <<Basic("b")>>],
     [sig |-> Text(ArrayOf(StructOf(<<i, Basic("t")>>))),
      nodes |-> <<ArrayOf(StructOf(<<i, Basic("t")>>))>>]}
UnbalancedTest == <<"(", "b">>

(* The parser of signatures makes the trees the tests walk through. *)
ASSUME SignatureTestsPass ==
    /\ \A t \in TreeTests \cup SequelTests \cup NestedTests : Nodes(t.sig) = t.nodes
    /\ Text(ArrayOf(StructOf(<<i, Basic("t")>>))) = <<"a", "(", "i", "t", ")">>
    /\ ~IsValid(UnbalancedTest)

-----------------------------------------------------------------------------
(* pathclasstests.cpp and validationtests.cpp.  A word of a path is a letter. *)
Path1 == <<"/", "A", "/", "1", "/", "A">>
Path2 == <<"A", "/", "1", "/", "A", "/">>
PathTests ==
    {[path |-> Path1, valid |-> TRUE],
     [path |-> <<"/", "A", "-", "A", "/", "A">>, valid |-> FALSE],
     [path |-> Path1 \o <<"/">>, valid |-> FALSE], [path |-> <<>>, valid |-> FALSE],
     [path |-> <<"/", "A", "/", "/", "A", "/">>, valid |-> FALSE],
     [path |-> Path2, valid |-> FALSE]}
DecomposeTests ==
    {[path |-> Path1, parts |-> <<<<"A">>, <<"1">>, <<"A">>>>], [path |-> <<"/">>, parts |-> <<<<>>>>],
     [path |-> Path2, parts |-> <<>>], [path |-> <<>>, parts |-> <<>>]}
AppendTests ==
    {[element |-> <<"A">>, added |-> <<"/", "A">>],
     [element |-> <<"A", "/", "A">>, added |-> <<"/", "A", "/", "A">>],
     [element |-> <<"/", "A">>, added |-> <<"/", "A">>],
     [element |-> <<"A", "/">>, added |-> <<"/", "A">>],
     [element |-> <<"/", "A", "/">>, added |-> <<"/", "A">>]}
RefusedTests ==
    {[element |-> e, added |-> <<>>] :
        e \in {<<>>, <<"A", "-", "A">>, <<"A", "/", "/", "A">>, <<"/">>}}
BusNameTests ==
    {[name |-> <<"A">>, valid |-> FALSE], [name |-> <<"A", ".", "A">>, valid |-> TRUE],
     [name |-> <<"A", ".", "A", ".", "A">>, valid |-> TRUE]}

(* Paths are accepted, split and extended, and bus names accepted, as the   *)
(* tests expect.                                                            *)
ASSUME NameTestsPass ==
    /\ \A t \in PathTests : IsValidPath(t.path) = t.valid
    /\ \A t \in DecomposeTests : Decomposed(t.path) = t.parts
    /\ \A t \in AppendTests \cup RefusedTests :
          AppendElement(Path1, t.element) = Path1 \o t.added
    /\ \A t \in BusNameTests : ValidateBusName(t.name) = t.valid
=============================================================================
