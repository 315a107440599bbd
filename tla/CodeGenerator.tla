--------------------------- MODULE CodeGenerator ---------------------------
(***************************************************************************)
(* The writing half of xml2cpp: from a document that DocumentParser has     *)
(* read, written by hand or by Object::introspect, it makes the C++ classes *)
(* of the client's side (proxies) and of the owner's side (adapters).      *)
(*                                                                         *)
(* A C++ type is a sequence of its words.  A class is what it does with the *)
(* library: the interface it names, and the methods, signals and properties *)
(* it creates.  The includes and the text around are left out.  The name of *)
(* a class is <<the C++ name it is made from, the suffix>>.                 *)
(***************************************************************************)
EXTENDS Introspection, DocumentParser

CONSTANT Described  \* the objects and the written documents

VARIABLES
    described,          \* what the document is about
    toMake,             \* what xml2cpp was asked to make and has not made yet
    files               \* class name |-> the class in the file of that name

xmlVars == <<described, toMake, files, documentVars>>

DocumentOf(thing) == IF thing.written THEN thing.doc ELSE IntrospectObject(thing)

-----------------------------------------------------------------------------
(* The C++ type of a signature: getTemplateArgsFromSignature.              *)

CppName == ("y" :> "uint8_t") @@ ("b" :> "bool") @@ ("n" :> "int16_t") @@ ("q" :> "uint16_t")
    @@ ("i" :> "int32_t") @@ ("u" :> "uint32_t") @@ ("x" :> "int64_t") @@ ("t" :> "uint64_t")
    @@ ("d" :> "double") @@ ("s" :> "std::string") @@ ("o" :> "DBus::Path")
    @@ ("g" :> "DBus::Signature") @@ ("a" :> "std::vector") @@ ("v" :> "DBus::Variant")
    @@ ("(" :> "std::tuple") @@ ("{" :> "std::map") @@ ("h" :> "DBus::FileDescriptor")
IsTemplated(t) == t \in {"a", "(", "{"}
IsDictNode(n) == n.type = "a" /\ ElementTypeAt(<<n>>) = "{"

RECURSIVE CppTypes(_)
CppOne(n) ==
    CASE IsDictNode(n) -> CppTypes(RecurseAt(<<n>>))
      [] IsTemplated(n.type) /\ ~IsDictNode(n) ->
            <<CppName[n.type], "<">> \o CppTypes(RecurseAt(<<n>>)) \o <<">">>
      [] OTHER -> <<CppName[n.type]>>
(* A signature without a type gives one that is no type. *)
CppTypes(ns) ==
    IF ns = <<>> THEN <<"Invalid">>
    ELSE CppOne(Head(ns)) \o IF Len(ns) = 1 THEN <<>> ELSE <<",">> \o CppTypes(Tail(ns))
CppTypeOf(attrs) == CppTypes(Nodes(IF Has(attrs, "type") THEN attrs["type"] ELSE <<>>))

-----------------------------------------------------------------------------
(* The classes: generateProxyClasses and generateAdapterClasses.  Each is    *)
(* printed to the files named for it, over what is there.                  *)

Own(interfaces) == SelectSeq(interfaces, LAMBDA i : i.name \notin Standard)
PrintOver(printed, classes) ==
    FoldLeft(LAMBDA fs, c : (c.class :> c) @@ fs, printed, classes)

(* Mutant: create_method is printed without the result. *)
CreatedVoid(m) == [name |-> m.name, ret |-> <<>>, args |-> [k \in DOMAIN m.args |-> m.args[k].type]]
Created(m) == [name |-> m.name, ret |-> m.ret, args |-> [k \in DOMAIN m.args |-> m.args[k].type]]
GenerateMethods(methods) == [k \in DOMAIN methods |-> Created(methods[k])]
GenerateSignals(signals) ==
    [k \in DOMAIN signals |->
        [name |-> signals[k].name,
         args |-> [n \in DOMAIN signals[k].args |-> signals[k].args[n].type]]]
GenerateProxyProperties(properties) ==
    [k \in DOMAIN properties |-> [name |-> properties[k].name, type |-> properties[k].type]]

InterfaceClass(i, suffix, properties) ==
    [class |-> <<i.cppname, suffix>>, interface |-> i.name,
     methods |-> GenerateMethods(i.methods), signals |-> GenerateSignals(i.signals),
     properties |-> properties]
ProxyClass(i) == InterfaceClass(i, "Proxy", GenerateProxyProperties(i.properties))
(* An adapter has no properties. *)
AdapterClass(i) == InterfaceClass(i, "Interface", <<>>)
(* The class a user of the adapter derives from. *)
VirtualClass(i) == [class |-> <<i.cppname, "">>, methods |-> GenerateMethods(i.methods)]
MainClass(suffix, partSuffix) ==
    [class |-> <<rootNode.cppname, suffix>>, path |-> rootNode.path,
     members |-> [k \in DOMAIN Own(rootNode.interfaces) |->
                    <<Own(rootNode.interfaces)[k].cppname, partSuffix>>]]

GenerateProxyClasses ==
    /\ ~TagsLeft /\ "proxy" \in toMake
    /\ LET own == Own(rootNode.interfaces)
       IN  files' = PrintOver(files, Append([k \in DOMAIN own |-> ProxyClass(own[k])],
                                            MainClass("Proxy", "Proxy")))
    /\ toMake' = toMake \ {"proxy"}
    /\ UNCHANGED <<described, doc, parseVars>>
GenerateAdapterClasses ==
    /\ ~TagsLeft /\ toMake = {"adapter"}
    /\ LET own == Own(rootNode.interfaces)
           Both(i) == <<AdapterClass(i), VirtualClass(i)>>
       IN  files' = PrintOver(files, Append(FlattenSeq([k \in DOMAIN own |-> Both(own[k])]),
                                            MainClass("Adapter", "Interface")))
    /\ toMake' = {}
    /\ UNCHANGED <<described, doc, parseVars>>

XmlInit ==
    /\ described \in Described
    /\ doc = DocumentOf(described) /\ ReadInit
    /\ toMake \in SUBSET {"proxy", "adapter"} \ {{}}
    /\ files = <<>>
Read == ReadNext /\ UNCHANGED <<described, toMake, files>>
XmlNext == Read \/ GenerateProxyClasses \/ GenerateAdapterClasses
XmlSpec == XmlInit /\ [][XmlNext]_xmlVars

-----------------------------------------------------------------------------
(* The C++ type a value of a D-Bus type has in the library. *)
RECURSIVE CppOf(_)
Listed(Ts) ==
    FoldLeft(LAMBDA list, T : list \o (IF list = <<>> THEN <<>> ELSE <<",">>) \o CppOf(T), <<>>, Ts)
CppOf(T) ==
    CASE IsDictNode(T) -> <<"std::map", "<">> \o Listed(T.sub[1].sub) \o <<">">>
      [] T.type = "a" /\ ~IsDictNode(T) -> <<"std::vector", "<">> \o CppOf(T.sub[1]) \o <<">">>
      [] T.type = "(" -> <<"std::tuple", "<">> \o Listed(T.sub) \o <<">">>
      [] T = Void -> <<"void">>
      [] OTHER -> <<CppName[T.type]>>

(* The parser makes the right type of it, and it has a C++ type that the     *)
(* library takes (a descriptor is taken by shared_ptr).                    *)
RECURSIVE NoDescriptor(_)
NoDescriptor(T) == T.type # "h" /\ \A k \in DOMAIN T.sub : NoDescriptor(T.sub[k])
Spelled(T) == T = Void \/ (Tame(T) /\ NoDescriptor(T))
AllSpelled(f) == Spelled(f.ret) /\ \A k \in DOMAIN f.args : Spelled(f.args[k])

(* Two interfaces of one C++ name are written over each other, and a child  *)
(* node over the node it is in.                                            *)
Distinct(names) ==
    /\ \A k, n \in DOMAIN names : k # n => Underscored(names[k]) # Underscored(names[n])
    /\ \A k \in DOMAIN names : Underscored(names[k]) # rootNode.cppname
Usable(o) ==
    /\ o.children = <<>>
    /\ Distinct([k \in DOMAIN o.interfaces |-> o.interfaces[k].name])
    /\ \A k \in DOMAIN o.interfaces :
          LET i == o.interfaces[k]
          IN  /\ \A n \in DOMAIN i.methods : AllSpelled(i.methods[n])
              /\ \A n \in DOMAIN i.signals : AllSpelled(Function("", Void, i.signals[n].args, <<>>))
              /\ \A n \in DOMAIN i.properties : Spelled(i.properties[n].type)

Called(name, ret, args) ==
    [name |-> name, ret |-> CppOf(ret), args |-> [k \in DOMAIN args |-> CppOf(args[k])]]
Offers(class, i) ==
    /\ class.interface = i.name
    /\ class.methods = [n \in DOMAIN i.methods |->
            Called(i.methods[n].name, i.methods[n].ret, i.methods[n].args)]
    /\ [n \in DOMAIN class.signals |-> class.signals[n].args] =
            [n \in DOMAIN i.signals |-> Called("", Void, i.signals[n].args).args]
    /\ class.properties = [n \in DOMAIN i.properties |->
            [name |-> i.properties[n].name, type |-> CppOf(i.properties[n].type)]]

(* The classes of a side have been generated. *)
Made(suffix) ==
    \E main \in DOMAIN files :
        main = <<rootNode.cppname, IF suffix = "Proxy" THEN "Proxy" ELSE "Adapter">>

(* The proxies made from an object's own description are for its path, one  *)
(* for each of its interfaces, and call its methods, receive its signals and *)
(* read its properties with the C++ types the object was written with.  A   *)
(* document written by hand gives the classes that the programs written for *)
(* it use.                                                                 *)
ProxiesFitTheObject ==
    IF described.written THEN
        \A use \in described.uses :
            Made(use.class[2]) =>
                /\ use.class \in DOMAIN files
                /\ \A f \in DOMAIN use : files[use.class][f] = use[f]
    ELSE <<"NONAME", "Proxy">> \in DOMAIN files /\ Usable(described) =>
        LET main == files[<<"NONAME", "Proxy">>]
        IN  /\ main.path = described.path
            /\ Len(main.members) = Len(described.interfaces)
            /\ \A k \in DOMAIN main.members :
                  main.members[k] \in DOMAIN files
                    /\ Offers(files[main.members[k]], described.interfaces[k])

=============================================================================
