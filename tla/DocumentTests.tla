--------------------------- MODULE DocumentTests ---------------------------
(***************************************************************************)
(* The repository's tests of introspection and of the code generator       *)
(* (src/unit-tests/introspection-test.cpp, src/unit-tests/tools-tests).    *)
(***************************************************************************)
EXTENDS CodeGenerator

Double == Basic("d")
WithMembers(name, methods, signals) ==
    [name |-> name, methods |-> methods, signals |-> signals, properties |-> <<>>]

(* The object the server of introspection-test.cpp exports. *)
TestObject ==
    [path |-> "/test", children |-> <<>>,
     interfaces |->
        <<WithMembers("foo.what", <<Function("add", Int32, <<Int32, Int32>>, <<"", "first", "second">>)>>, <<>>),
          WithMembers("sig.interface", <<>>, <<[name |-> "tim", args |-> <<Str>>, names |-> <<>>]>>),
          WithMembers("what.bob", <<Function("setBar", Void, <<Double>>, <<>>)>>, <<>>)>>]

(* The client's startElement: where it is in the document and what it has   *)
(* found there.                                                             *)
ScanStart == [interface |-> "", method |-> "", argNum |-> 0, found |-> {}]
Seen(st, what, condition) == IF condition THEN {what} ELSE {}
StartElement(st, tag) ==
    LET name == IF "name" \in DOMAIN tag.attrs THEN tag.attrs["name"] ELSE ""
        Look(what, condition) == [st EXCEPT !.found = @ \cup Seen(st, what, condition)]
        argument(k, n) == name = n /\ st.argNum = k /\ st.method = "add"
    IN  CASE ~tag.start -> st
          [] tag.start /\ tag.tag = "interface" ->
                [Look(name, name \in {"foo.what", "what.bob"}) EXCEPT !.interface = name]
          [] tag.start /\ tag.tag = "method" ->
                [Look("add", name = "add" /\ st.interface = "foo.what")
                    EXCEPT !.method = name, !.argNum = 0]
          [] tag.start /\ tag.tag = "arg" ->
                [Look(name, argument(1, "first") \/ argument(2, "second")) EXCEPT !.argNum = @ + 1]
          [] tag.start /\ tag.tag = "signal" ->
                [Look("tim", name = "tim" /\ st.interface = "sig.interface") EXCEPT !.argNum = 0]
          [] OTHER -> st
Scanned == FoldLeft(StartElement, ScanStart, [k \in DOMAIN IntrospectObject(TestObject) |->
    IF IntrospectObject(TestObject)[k].start THEN IntrospectObject(TestObject)[k]
    ELSE [attrs |-> <<>>] @@ IntrospectObject(TestObject)[k]])

(* The client finds both interfaces, the method and its named arguments,    *)
(* and the signal, each in its place.                                       *)
ASSUME IntrospectionTestPasses ==
    Scanned.found = {"foo.what", "what.bob", "add", "first", "second", "tim"}

-----------------------------------------------------------------------------
(* The documents the code generator is tested on, with what the programs    *)
(* that are compiled with its classes use of them.                          *)

ArgTag_(name, type, direction) ==
    Element("arg", Name(name) @@ [type |-> type, direction |-> direction], <<>>)
Document(attrs, interface, inner) ==
    Element("node", attrs, Element("interface", [name |-> interface], inner))
Test(document, uses) == [written |-> TRUE, doc |-> document, uses |-> uses]
Takes(name, args) == [name |-> name, ret |-> <<"void">>, args |-> args]
Emits(name, args) == [name |-> name, args |-> args]
CppString == <<"std::string">>
CppInt == <<"int32_t">>

SignalDocument ==
    Document([cppname |-> "signalName", dest |-> "some.dest", path |-> "/some/path"],
        "signal.name.interface",
        Element("signal", [name |-> "exampleSignal"],
                Element("arg", [type |-> <<"s">>, name |-> "signalArgument"], <<>>)))
SignalProxyUses ==
    {[class |-> <<"signalName", "Proxy">>, members |-> <<<<"signal_name_interface", "Proxy">>>>],
     [class |-> <<"signal_name_interface", "Proxy">>,
      signals |-> <<Emits("exampleSignal", <<CppString>>)>>]}
SignalAdapterUses ==
    {[class |-> <<"signalName", "Adapter">>, members |-> <<<<"signal_name_interface", "Interface">>>>],
     [class |-> <<"signal_name_interface", "">>],
     [class |-> <<"signal_name_interface", "Interface">>,
      signals |-> <<Emits("exampleSignal", <<CppString>>)>>]}

SimpleDocument ==
    Document([cppname |-> "SimpleTypes"], "test.simpletype.interface",
        Element("method", [name |-> "typesMethod"],
                ArgTag_("first", <<"i">>, "in") \o ArgTag_("second", <<"d">>, "in")))
SimpleAdapterUses ==
    {[class |-> <<"SimpleTypes", "Adapter">>],
     [class |-> <<"test_simpletype_interface", "Interface">>],
     [class |-> <<"test_simpletype_interface", "">>,
      methods |-> <<Takes("typesMethod", <<CppInt, <<"double">>>>)>>]}

StructDocument ==
    Document([cppname |-> "structtypes"], "test.struct.interface",
        Element("method", [name |-> "structMethod"],
                ArgTag_("struct1", Text(StructOf(<<Int32, Int32>>)), "in")
                \o ArgTag_("struct2", Text(StructOf(<<Int32, StructOf(<<Int32, Int32>>)>>)), "in"))
        \o Element("method", [name |-> "mapMethod"], ArgTag_("", Text(Dictionary), "in"))
        \o Element("method", [name |-> "arrayMethod"], ArgTag_("", Text(ArrayOf(Double)), "in"))
        \o Element("method", [name |-> "mapMethod2"], ArgTag_("", Text(MapOf(Str, Str)), "in")))
StructAdapterUses ==
    LET pair == <<"std::tuple", "<", "int32_t", ",", "int32_t", ">">>
        map(d) == <<"std::map", "<", "std::string", ",", d, ">">>
    IN  {[class |-> <<"structtypes", "Adapter">>],
         [class |-> <<"test_struct_interface", "Interface">>],
         [class |-> <<"test_struct_interface", "">>,
          methods |->
            <<Takes("structMethod",
                    <<pair, <<"std::tuple", "<", "int32_t", ",">> \o pair \o <<">">>>>),
              Takes("mapMethod", <<map("DBus::Variant")>>),
              Takes("arrayMethod", <<<<"std::vector", "<", "double", ">">>>>),
              Takes("mapMethod2", <<map("std::string")>>)>>]}

TacoName == "com.amazon.josharenson.TacoOrdererInterface"
TacoCppName == "com_amazon_josharenson_TacoOrdererInterface"
TacoDocument ==
    Document([cppname |-> "DbusTaco", path |-> "com/amazon/josharenson",
              name |-> "/com/amazon/josharenson/TacoOrderer"], TacoName,
        Element("method", [name |-> "OrderTaco"],
                ArgTag_("meatType", <<"s">>, "in") \o ArgTag_("tacoPlate", <<"s">>, "out")))
TacoProxyUses == {[class |-> <<"DbusTaco", "Proxy">>]}
TacoAdapterUses ==
    {[class |-> <<"DbusTaco", "Adapter">>], [class |-> <<TacoCppName, "Interface">>],
     [class |-> <<TacoCppName, "">>,
      methods |-> <<[name |-> "OrderTaco", ret |-> CppString, args |-> <<CppString>>]>>]}

SomeNameDocument ==
    Document([cppname |-> "some.name"], "some.interface",
        Element("method", [name |-> "some.method"],
                ArgTag_("map", Text(MapOf(Str, Str)), "out")
                \o ArgTag_("list", Text(ArrayOf(Str)), "in")))
SomeNameProxyUses ==
    {[class |-> <<"some_name", "Proxy">>], [class |-> <<"some_interface", "Proxy">>]}

TestDocuments ==
    {Test(SignalDocument, SignalProxyUses \cup SignalAdapterUses), Test(SimpleDocument, SimpleAdapterUses),
     Test(StructDocument, StructAdapterUses), Test(TacoDocument, TacoProxyUses \cup TacoAdapterUses),
     Test(SomeNameDocument, SomeNameProxyUses)}
TestDotted ==
    ("signal.name.interface" :> "signal_name_interface")
    @@ ("test.simpletype.interface" :> "test_simpletype_interface")
    @@ ("test.struct.interface" :> "test_struct_interface") @@ (TacoName :> TacoCppName)
    @@ ("some.name" :> "some_name") @@ ("some.interface" :> "some_interface")
    @@ ("some.method" :> "some_method")
=============================================================================
