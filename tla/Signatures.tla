----------------------------- MODULE Signatures -----------------------------
(***************************************************************************)
(* D-Bus types, and the signatures that name them on the wire: DataType    *)
(* and TypeInfo (types.h, types.cpp), the signature() overloads that spell *)
(* the type of a C++ value (signature.h), and the parser of signatures,    *)
(* Signature::create_signature_tree, with the iterator over its result.    *)
(*                                                                         *)
(* A DataType is the character that stands for it; STRUCT is "(" and       *)
(* DICT_ENTRY is "{".  A type is a node of the tree the parser builds:     *)
(* [type |-> DataType, sub |-> the nodes inside a container].  A std::map   *)
(* is an array whose element is a DICT_ENTRY.                              *)
(***************************************************************************)
EXTENDS Marshal, SequencesExt

Basics == Numbers \cup Strings \cup {"g", "h"}

(* TypeInfo::is_basic leaves BOOLEAN and DOUBLE out. *)
IsBasic(t) == t \in Basics \ {"b", "d"}

IsContainer(t) == t \in {"a", "(", "v", "{"}

(* TypeInfo::alignment; 0 stands for no type at all. *)
Alignment(t) ==
    CASE t \in {"y", "g", "v"} -> 1
      [] t \in Fixed2 -> 2
      [] t \in Fixed4 \cup Strings \cup {"a"} -> 4
      [] t \in Fixed8 \cup {"(", "{"} -> 8
      [] OTHER -> 0

(* char_to_dbus_type: both brackets of a container name its type. *)
TypeOfChar(c) ==
    CASE c = ")" -> "("
      [] c = "}" -> "{"
      [] OTHER -> c

IsEnding(c) == c \in {")", "}"}

Node(t, sub) == [type |-> t, sub |-> sub]
Basic(t) == Node(t, <<>>)
Int32 == Basic("i")
Str == Basic("s")
ArrayOf(e) == Node("a", <<e>>)
StructOf(fields) == Node("(", fields)
MapOf(k, d) == ArrayOf(Node("{", <<k, d>>))
VariantType == Basic("v")

-----------------------------------------------------------------------------
(* signature( value ), for a value of type n. *)
RECURSIVE Text(_)
Texts(ns) == FlattenSeq([i \in DOMAIN ns |-> Text(ns[i])])
Text(n) ==
    CASE n.type = "a" -> <<"a">> \o Texts(n.sub)
      [] n.type = "(" -> <<"(">> \o Texts(n.sub) \o <<")">>
      [] n.type = "{" -> <<"{">> \o Texts(n.sub) \o <<"}">>
      [] OTHER -> <<n.type>>

-----------------------------------------------------------------------------
(* The parser.  Its three arguments passed by address are a position, the  *)
(* stack of open containers and a flag; the flag never becomes true again, *)
(* and a signature whose flag is false has no iterator, so a failure is    *)
(* carried straight out.                                                   *)

Failed == [ok |-> FALSE, nodes |-> <<>>, at |-> 0, open |-> <<>>]
Parsed(nodes, at, open) == [ok |-> TRUE, nodes |-> nodes, at |-> at, open |-> open]
AtEnd(sig, at) == at > Len(sig)
(* The character at the end of a std::string is NUL, which ends nothing. *)
EndingAt(sig, at) == ~AtEnd(sig, at) /\ IsEnding(sig[at])
TopIs(open, c) == open # <<>> /\ Last(open) = c
MaxDepth == 64

RECURSIVE Tree(_, _, _), Items(_, _, _, _)

Tree(sig, at, open) ==
    CASE Len(open) > MaxDepth -> Failed
      [] Len(open) <= MaxDepth /\ AtEnd(sig, at) -> Parsed(<<>>, at, open)
      [] OTHER -> Items(sig, <<>>, at, open)

(* The loop of create_signature_tree, from the character at "at". *)
Items(sig, nodes, at, open) ==
    LET c == sig[at]
        t == TypeOfChar(c)
        leaf == Append(nodes, Basic(t))
        (* The end of the loop: one character further, and again. *)
        Advance(ns, p, o) ==
            IF AtEnd(sig, p + 1) THEN Parsed(ns, p + 1, o) ELSE Items(sig, ns, p + 1, o)
        sub == Tree(sig, at + 1, Append(open, c))
        whole == Append(nodes, Node(t, sub.nodes))
        popped == Front(sub.open)
    IN
    CASE t \notin Basics \cup {"a", "(", "{", "v"} -> Failed
      [] IsEnding(c) ->
            IF TopIs(open, t) THEN Parsed(nodes, at, open) ELSE Failed
      [] ~IsEnding(c) /\ IsBasic(t) /\ TopIs(open, "a") -> Parsed(leaf, at + 1, open)
      [] c \in {"a", "(", "{"} ->
            CASE ~sub.ok \/ ~TopIs(sub.open, c) -> Failed
              [] c = "(" /\ EndingAt(sig, sub.at) ->
                    IF popped # <<>> THEN Parsed(whole, sub.at + 1, popped)
                    ELSE Advance(whole, sub.at, popped)
              [] c = "{" /\ EndingAt(sig, sub.at) -> Parsed(whole, sub.at + 1, popped)
              [] c = "a" /\ sub.nodes # <<>> ->
                    IF ~TopIs(popped, "a") /\ ~AtEnd(sig, sub.at)
                    THEN Items(sig, whole, sub.at, popped)
                    ELSE Parsed(whole, sub.at, popped)
              [] OTHER -> Failed
      [] OTHER -> Advance(leaf, at, open)

(* Signature::initialize; begin() of an invalid signature yields no node. *)
AllParsed(r, sig) == IF r.ok /\ r.open = <<>> /\ AtEnd(sig, r.at) THEN r ELSE Failed
Parse(sig) == AllParsed(Tree(sig, 1, <<>>), sig)
IsValid(sig) == Parse(sig).ok
Nodes(sig) == Parse(sig).nodes

(* SignatureIterator, as the nodes from the current one on. *)
TypeAt(ns) == IF ns = <<>> THEN "INVALID" ELSE Head(ns).type
ElementTypeAt(ns) == IF TypeAt(ns) = "a" THEN TypeAt(Head(ns).sub) ELSE "INVALID"
NextAt(ns) == IF ns = <<>> THEN ns ELSE Tail(ns)
RecurseAt(ns) == IF IsContainer(TypeAt(ns)) THEN Head(ns).sub ELSE <<>>
FirstType(sig) == TypeAt(Nodes(sig))

(* SignatureIterator::signature: spells nodes again, but a STRUCT has no    *)
(* character of its own, and a dict entry's braces are written by the level *)
(* inside the node that holds it.                                           *)
RECURSIVE Respell(_)
Respell(ns) ==
    LET own(t) == IF t \in {"(", "{"} THEN <<>> ELSE <<t>>
        inner(sub) == IF sub # <<>> /\ Head(sub).type = "{"
                      THEN <<"{">> \o Respell(sub) \o <<"}">> ELSE Respell(sub)
    IN  FlattenSeq([i \in DOMAIN ns |-> own(ns[i].type) \o inner(ns[i].sub)])

-----------------------------------------------------------------------------
(* The types of which the parser makes the right tree in any company.      *)

(* A struct inside a container has to be the last thing in it, and an array *)
(* element that IsBasic does not know swallows what follows the array.      *)
RECURSIVE Tame(_)
ElementTame(e) == IsBasic(e.type) \/ e.type \in {"a", "(", "{"}
Tame(n) ==
    /\ \A i \in DOMAIN n.sub : Tame(n.sub[i])
    /\ n.type = "a" => ElementTame(n.sub[1])
    /\ n.type \in {"(", "{"} =>
            \A i \in DOMAIN n.sub : i < Len(n.sub) => n.sub[i].type # "("
=============================================================================
