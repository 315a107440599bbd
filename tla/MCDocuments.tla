---------------------------- MODULE MCDocuments ----------------------------
(***************************************************************************)
(* The objects and the written documents the code generator is checked on. *)
(***************************************************************************)
EXTENDS DocumentTests

Last_ == Function("g", Void, <<>>, <<>>)
Methods_ == {Function("f", Str, <<Dictionary, StructOf(<<Int32, Str>>)>>, <<"", "interface">>),
             Function("f", Void, <<ArrayOf(Str), Basic("d")>>, <<>>),
             Function("f", Void, <<StructOf(<<ArrayOf(Basic("b")), Str>>)>>, <<>>),
             Last_, Function("f", Basic("h"), <<ArrayOf(VariantType)>>, <<"r">>)}
Changed == [name |-> "sig", args |-> <<ArrayOf(Int32), MapOf(Str, ArrayOf(Str))>>, names |-> <<"", "n">>]
Level == [name |-> "level", type |-> StructOf(<<Int32, ArrayOf(Str)>>), access |-> "ReadWrite",
          update |-> "Updates"]
MCInterfaces == [name : {"a.b.c", "a.b_c", "a.d"}, methods : {<<m, Last_>> : m \in Methods_},
                 signals : {<<Changed>>}, properties : {<<>>, <<Level>>}]
MCObject(interfaces, children) ==
    [written |-> FALSE, path |-> "/p", children |-> children, interfaces |-> interfaces]
MCDescribedObjects ==
    LET other == {i \in MCInterfaces : i.properties # <<>> /\ i.methods = <<Last_, Last_>>
                                          /\ i.name # "a.b.c"}
    IN  {MCObject(<<i>>, <<"child">>) : i \in other}
          \cup {MCObject(<<i, j>>, <<>>) : i \in {i \in MCInterfaces : i.name # "a.b_c"}, j \in other}

(* What hands write: names left out, results that are several, annotations. *)
Written_(name, attrs, inner) == Element("interface", Name(name) @@ attrs, inner)
Named_(name) == [name |-> name, type |-> <<"y">>, access |-> "read"]
MCWrittenMembers ==
    {Element("method", Name(n),
         Element("arg", [type |-> <<"i">>, direction |-> "in"], <<>>)
         \o Element("annotation", [value |-> "true"], <<>>)
         \o Element("arg", [type |-> <<"s">>, direction |-> "out"], <<>>)
         \o Element("arg", [type |-> <<"u">>, direction |-> "out"], <<>>)) : n \in {"", "m"}}
    \cup {Element("signal", Name(n), Element("arg", [name |-> "interface"], <<>>)) : n \in {"", "s"}}
    \cup {Element("property", a, <<>>) \o Element("property", Named_("q"), <<>>) :
              a \in {[name |-> "r", type |-> <<"y">>], [Named_("r") EXCEPT !.type = <<>>],
                     [Named_("r") EXCEPT !.access = ""], Named_(""), Named_("r")}}
MCWrittenAttributes == {<<>>, [ignored |-> "true"], [ignored |-> "false", cppname |-> "X"]}
MCDocuments ==
    {[written |-> TRUE, uses |-> {},
      doc |-> Element("node", root, Written_(first, a, x) \o Written_("a.b", b, y))] :
        root \in {[path |-> "/p", dest |-> "d", cppname |-> "X"]}, first \in {"", "a.b.c"},
        a \in MCWrittenAttributes, b \in MCWrittenAttributes,
        x \in MCWrittenMembers,
        y \in {m \in MCWrittenMembers : m[1].tag # "property"}}
MCDotted == TestDotted @@ ("a.b.c" :> "a_b_c") @@ ("a.b_c" :> "a_b_c") @@ ("a.b" :> "a_b")
NoDocument == [written |-> TRUE, uses |-> {}, doc |-> <<>>]
MCDescribed == MCDescribedObjects \cup MCDocuments \cup TestDocuments
    \cup {NoDocument}
MCReadDocuments == {DocumentOf(thing) : thing \in MCDescribed}
=============================================================================
