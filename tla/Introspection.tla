--------------------------- MODULE Introspection ---------------------------
(***************************************************************************)
(* The description of an object as a document: Object::introspect and what *)
(* it calls, down to the names and signatures of arguments.  A document is *)
(* the sequence of the start and end tags of its elements, which is what   *)
(* its readers see of it.                                                  *)
(*                                                                         *)
(* A method is [name, ret, args, names]: ret is a type or Void, args are   *)
(* types, names is MethodBase::m_arg_names, the result's first.  A signal  *)
(* has no result; a property is [name, type, access, update].              *)
(***************************************************************************)
EXTENDS Signatures

Void == Basic("void")

Start(tag, attrs) == [start |-> TRUE, tag |-> tag, attrs |-> attrs]
End(tag) == [start |-> FALSE, tag |-> tag]
Element(tag, attrs, inner) == <<Start(tag, attrs)>> \o inner \o <<End(tag)>>
Inside(elements) == FlattenSeq(elements)

(* A name that is not set is not written. *)
Name(n) == IF n = "" THEN <<>> ELSE "name" :> n
NameAttr(names, k) == IF k \in DOMAIN names THEN Name(names[k]) ELSE <<>>
ArgElement(names, k, T, direction) ==
    Element("arg", NameAttr(names, k) @@ [type |-> Text(T), direction |-> direction], <<>>)

(* method_signature: the result's name comes first in names. *)
ArgsIn(args, names) == [k \in DOMAIN args |-> ArgElement(names, k + 1, args[k], "in")]
(* A function that returns void has no argument that is "out". *)
IntrospectMethod(m) ==
    LET result == IF m.ret = Void THEN <<>> ELSE ArgElement(m.names, 1, m.ret, "out")
    IN  Element("method", [name |-> m.name], result \o Inside(ArgsIn(m.args, m.names)))
IntrospectSignal(s) == Element("signal", [name |-> s.name], Inside(ArgsIn(s.args, s.names)))
AccessText == [ReadOnly |-> "read", WriteOnly |-> "write", ReadWrite |-> "readwrite"]
IntrospectProperty(p) ==
    Element("property", [name |-> p.name, type |-> Text(p.type), access |-> AccessText[p.access]],
            <<>>)

Each(Of(_), things) == Inside([k \in DOMAIN things |-> Of(things[k])])
IntrospectInterface(i) ==
    Element("interface", [name |-> i.name],
            Each(IntrospectMethod, i.methods) \o Each(IntrospectSignal, i.signals)
                \o Each(IntrospectProperty, i.properties))

-----------------------------------------------------------------------------
(* The interfaces every object has, which Object answers itself.           *)

Introspectable == "org.freedesktop.DBus.Introspectable"
Peer == "org.freedesktop.DBus.Peer"
Properties == "org.freedesktop.DBus.Properties"
Standard == {Introspectable, Peer, Properties}

Function(name, ret, args, names) == [name |-> name, ret |-> ret, args |-> args, names |-> names]
StringType == Basic("s")
Dictionary == MapOf(Basic("s"), VariantType)
StandardInterfaces ==
    LET Interface(name, methods, signals) ==
            [name |-> name, methods |-> methods, signals |-> signals, properties |-> <<>>]
    IN  <<Interface(Introspectable, <<Function("Introspect", StringType, <<>>, <<"data">>)>>, <<>>),
          Interface(Peer, <<Function("Ping", Void, <<>>, <<>>),
                            Function("GetMachineId", StringType, <<>>, <<"machine_uuid">>)>>, <<>>),
          Interface(Properties,
              <<Function("Get", VariantType, <<StringType, StringType>>,
                         <<"value", "interface_name", "property_name">>),
                Function("GetAll", Dictionary, <<StringType>>, <<"properties", "interface_name">>),
                Function("Set", Void, <<StringType, StringType, VariantType>>,
                         <<"", "interface_name", "property_name", "value">>)>>,
              <<[name |-> "PropertiesChanged", args |-> <<StringType, Dictionary, ArrayOf(StringType)>>,
                 names |-> <<"", "interface_name", "changed_properties",
                             "invalidated_properties">>]>>)>>

(* Children are named and not described. *)
Child(name) == Element("node", [name |-> name], <<>>)
IntrospectObject(o) ==
    Element("node", [name |-> o.path],
            Each(IntrospectInterface, StandardInterfaces \o o.interfaces) \o Each(Child, o.children))
=============================================================================
