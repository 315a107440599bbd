--------------------------- MODULE DocumentParser ---------------------------
(***************************************************************************)
(* The reading half of xml2cpp's CodeGenerator: it is told of each tag of a *)
(* document by the XML parser, and remembers the interface, the method and *)
(* the signal it is in.                                                    *)
(***************************************************************************)
EXTENDS Integers, Sequences, SequencesExt

CONSTANTS
    Documents,  \* the documents that are read, sequences of tags
    Dotted,     \* a name with dots |-> the name with underscores instead
    TypeOf(_)   \* the C++ type that the attributes of an element give

ASSUME DocumentsAssumption ==
    \A d \in Documents : /\ Len(d) \in Nat /\ DOMAIN d = 1 .. Len(d)
                          /\ \A p \in DOMAIN d : d[p].start \in BOOLEAN

VARIABLES
    doc, at,            \* the document, and how many tags were read
    tagStack, currentInterface, currentMethodInfo, currentSignal, argNum,
    ignoreInterface, rootNode       \* the members of CodeGenerator

partsVars == <<currentInterface, currentMethodInfo, currentSignal, argNum>>
parseVars == <<at, tagStack, partsVars, ignoreInterface, rootNode>>
documentVars == <<doc, parseVars>>

Underscored(name) == IF name \in DOMAIN Dotted THEN Dotted[name] ELSE name
Has(attrs, key) == key \in DOMAIN attrs
(* operator[] of a std::map makes an empty value. *)
ValueOf(attrs, key) == IF Has(attrs, key) THEN attrs[key] ELSE ""

NoInterface == [name |-> "", cppname |-> "", methods |-> <<>>, signals |-> <<>>,
                properties |-> <<>>]
MethodInfo(name) == [name |-> name, ret |-> <<"void">>, args |-> <<>>]
SignalInfo(name) == [name |-> name, args |-> <<>>]
NodeInfo(path, dest, cppname) ==
    [path |-> path, dest |-> dest, cppname |-> cppname, interfaces |-> <<>>]

-----------------------------------------------------------------------------
(* The start of an element: start_element and the handle_*_tag functions.  *)

TagsLeft == at < Len(doc)
Tag == doc[at + 1]
Starts(tag) == TagsLeft /\ Tag.start /\ Tag.tag = tag
Parent == IF tagStack = <<>> THEN "" ELSE Last(tagStack)
PushTag ==
    /\ at' = at + 1
    /\ tagStack' = Append(tagStack, Tag.tag)
    /\ UNCHANGED doc

(* handle_node_tag starts the root node again, whichever node it is. *)
NodeTag ==
    /\ Starts("node") /\ PushTag
    /\ LET a == Tag.attrs
       IN  rootNode' = NodeInfo(IF Has(a, "name") THEN a["name"] ELSE ValueOf(a, "path"),
                                ValueOf(a, "dest"),
                                IF Has(a, "cppname") THEN Underscored(a["cppname"]) ELSE "NONAME")
    /\ UNCHANGED <<partsVars, ignoreInterface>>

(* Mutant: an ignored interface makes the generator ignore the next as well. *)
IgnoredBeforeToo(attrs, before) == before \/ ValueOf(attrs, "ignored") = "true"
Ignored(attrs, before) == ValueOf(attrs, "ignored") = "true"
(* An interface without a name leaves the one before it current. *)
InterfaceTag ==
    /\ Starts("interface") /\ PushTag
    /\ LET a == Tag.attrs
       IN  IF Has(a, "name")
           THEN /\ currentInterface' =
                    [NoInterface EXCEPT !.name = a["name"],
                        !.cppname = IF Has(a, "cppname") /\ a["cppname"] # ""
                                    THEN a["cppname"]
                                    ELSE IF Has(a, "cppname") THEN a["name"]
                                    ELSE Underscored(a["name"])]
                /\ ignoreInterface' = Ignored(a, ignoreInterface)
           ELSE UNCHANGED <<currentInterface, ignoreInterface>>
    /\ UNCHANGED <<currentMethodInfo, currentSignal, argNum, rootNode>>

(* A method or a signal without a name leaves the one before it current. *)
MethodTag ==
    /\ Starts("method") /\ PushTag
    /\ argNum' = 0
    /\ currentMethodInfo' = IF Has(Tag.attrs, "name")
                            THEN MethodInfo(Underscored(Tag.attrs["name"]))
                            ELSE currentMethodInfo
    /\ UNCHANGED <<currentInterface, currentSignal, ignoreInterface, rootNode>>
SignalTag ==
    /\ Starts("signal") /\ PushTag
    /\ argNum' = 0
    /\ currentSignal' = IF Has(Tag.attrs, "name")
                        THEN SignalInfo(Underscored(Tag.attrs["name"]))
                        ELSE currentSignal
    /\ UNCHANGED <<currentInterface, currentMethodInfo, ignoreInterface, rootNode>>

ArgName(attrs) ==
    CASE ValueOf(attrs, "name") = "" -> <<"arg", argNum>>
      [] ValueOf(attrs, "name") = "interface" -> <<"_interface">>
      [] OTHER -> <<attrs["name"]>>
(* The result of a method is the last argument that is "out". *)
ArgTag ==
    /\ Starts("arg") /\ PushTag
    /\ \E type \in {TypeOf(Tag.attrs)} :
          LET arg == [type |-> type, name |-> ArgName(Tag.attrs)]
              out == ValueOf(Tag.attrs, "direction") = "out"
          IN  /\ currentMethodInfo' =
                    CASE Parent = "method" /\ out -> [currentMethodInfo EXCEPT !.ret = type]
                      [] Parent = "method" /\ ~out ->
                            [currentMethodInfo EXCEPT !.args = Append(@, arg)]
                      [] OTHER -> currentMethodInfo
              /\ currentSignal' = IF Parent = "signal"
                                  THEN [currentSignal EXCEPT !.args = Append(@, arg)]
                                  ELSE currentSignal
    /\ argNum' = argNum + 1
    /\ UNCHANGED <<currentInterface, ignoreInterface, rootNode>>

(* A property that lacks one of these, or has an empty one, is ignored.  A *)
(* type is a sequence of codes.                                            *)
Empty(key) == IF key = "type" THEN <<>> ELSE ""
Complete(attrs) ==
    \A key \in {"name", "type", "access"} : Has(attrs, key) /\ attrs[key] # Empty(key)
PropertyTag ==
    /\ Starts("property") /\ PushTag
    /\ LET a == Tag.attrs
       IN  currentInterface' =
              IF Complete(a)
              THEN [currentInterface EXCEPT !.properties =
                      Append(@, [name |-> a["name"], type |-> TypeOf(a), access |-> a["access"]])]
              ELSE currentInterface
    /\ UNCHANGED <<currentMethodInfo, currentSignal, argNum, ignoreInterface, rootNode>>

(* annotation, doc and the like are passed over. *)
OtherTag ==
    /\ TagsLeft /\ Tag.start
    /\ Tag.tag \notin {"node", "interface", "method", "signal", "arg", "property"}
    /\ PushTag
    /\ UNCHANGED <<partsVars, ignoreInterface, rootNode>>

(* end_element *)
EndTag ==
    /\ TagsLeft /\ ~Tag.start
    /\ at' = at + 1
    /\ tagStack' = Front(tagStack)
    /\ currentInterface' =
          CASE Tag.tag = "method" ->
                  [currentInterface EXCEPT !.methods = Append(@, currentMethodInfo)]
            [] Tag.tag = "signal" ->
                  [currentInterface EXCEPT !.signals = Append(@, currentSignal)]
            [] OTHER -> currentInterface
    /\ rootNode' = IF Tag.tag = "interface" /\ ~ignoreInterface
                   THEN [rootNode EXCEPT !.interfaces = Append(@, currentInterface)]
                   ELSE rootNode
    /\ UNCHANGED <<doc, currentMethodInfo, currentSignal, argNum, ignoreInterface>>

(* m_ignoreInterface is not initialized. *)
ReadInit ==
    /\ doc \in Documents
    /\ at = 0 /\ tagStack = <<>> /\ argNum = 0
    /\ currentInterface = NoInterface
    /\ currentMethodInfo = [MethodInfo("") EXCEPT !.ret = <<>>] /\ currentSignal = SignalInfo("")
    /\ ignoreInterface \in BOOLEAN
    /\ rootNode = NodeInfo("", "", "")
ReadNext ==
    \/ NodeTag \/ InterfaceTag \/ MethodTag \/ SignalTag \/ ArgTag \/ PropertyTag
    \/ OtherTag \/ EndTag
ReadSpec == ReadInit /\ [][ReadNext]_documentVars

-----------------------------------------------------------------------------
(* The elements of a document, by what is inside what.                     *)

IsStart(d, p, tag) == d[p].start /\ d[p].tag = tag
(* n is the end of the element that starts at p. *)
Closes(d, p, n) ==
    /\ p < n /\ d[p].start /\ ~d[n].start /\ d[n].tag = d[p].tag
    /\ \A m \in p + 1 .. n - 1 : d[m].tag # d[p].tag

(* A document as the introspection format has it: one node, in which all    *)
(* else is; no interface, method or signal in another; every method and     *)
(* signal wholly in or out of an interface, and each with a name.           *)
Members == {"method", "signal"}
Readable(d) ==
    /\ \A p \in DOMAIN d : IsStart(d, p, "node") <=> p = 1
    /\ \A p \in DOMAIN d :
          d[p].tag \in Members \cup {"interface"} =>
             \E n \in DOMAIN d : IF d[p].start THEN Closes(d, p, n) ELSE Closes(d, n, p)
    /\ \A p, n \in DOMAIN d : IsStart(d, p, "interface") /\ Closes(d, p, n) =>
          \A q, m \in DOMAIN d : d[q].tag \in Members /\ Closes(d, q, m) =>
             (q \in p .. n <=> m \in p .. n)
    /\ \A p \in DOMAIN d :
          d[p].start /\ d[p].tag \in Members \cup {"interface"} => Has(d[p].attrs, "name")

NotIgnored(d) ==
    {p \in DOMAIN d : IsStart(d, p, "interface") /\ ValueOf(d[p].attrs, "ignored") # "true"}
(* The elements of this tag in the element that starts at p. *)
Within(d, tag, p) ==
    {q \in DOMAIN d : IsStart(d, q, tag) /\ \E n \in DOMAIN d : Closes(d, p, n) /\ q \in p .. n}
(* Of the properties, those with a name, a type and an access. *)
PropertiesIn(d, p) == {q \in Within(d, "property", p) : Complete(d[q].attrs)}

(* f counts the positions in S from the first to the last. *)
Enumerates(f, S) ==
    /\ \A k, n \in DOMAIN f : k < n => f[k] < f[n]
    /\ \A p \in S : \E k \in DOMAIN f : f[k] = p
NameOf(d, p) ==
    IF d[p].tag \in Members THEN Underscored(d[p].attrs["name"]) ELSE d[p].attrs["name"]
NamedAfter(infos, d, S) ==
    \E f \in [DOMAIN infos -> S] :
        Enumerates(f, S) /\ \A k \in DOMAIN infos : infos[k].name = NameOf(d, f[k])
Describes(i, d, p) ==
    /\ i.name = d[p].attrs["name"]
    /\ NamedAfter(i.methods, d, Within(d, "method", p))
    /\ NamedAfter(i.signals, d, Within(d, "signal", p))
    /\ NamedAfter(i.properties, d, PropertiesIn(d, p))

(* Whatever came before it in the document, an interface that is not ignored *)
(* is kept, once, with the methods and signals inside it and the properties *)
(* that are complete, and no others, in their order: nothing of what the    *)
(* generator remembers between tags leaks.                                  *)
MembersStayHome ==
    ~TagsLeft /\ Readable(doc) =>
        \E f \in [DOMAIN rootNode.interfaces -> NotIgnored(doc)] :
            /\ Enumerates(f, NotIgnored(doc))
            /\ \A k \in DOMAIN rootNode.interfaces : Describes(rootNode.interfaces[k], doc, f[k])
=============================================================================
