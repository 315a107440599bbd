------------------------------- MODULE Names -------------------------------
(***************************************************************************)
(* Object paths and names on the bus: Path (path.cpp) and Validator         *)
(* (validator.cpp).                                                         *)
(*                                                                         *)
(* A string is a sequence of characters, of which there is one of each kind *)
(* the code tells apart: "A" for a letter or an underscore, "1" for a digit,*)
(* "/", ".", ":" and "-" for everything no name may contain.                *)
(***************************************************************************)
EXTENDS Integers, Sequences, SequencesExt, FiniteSets

Allowable == {"A", "1"}
(* The limit of 255 characters, scaled. *)
MaxName == 6

DoubleSlash(s) == \E k \in 1 .. Len(s) - 1 : s[k] = "/" /\ s[k + 1] = "/"
PathCharacters(s) == ToSet(s) \subseteq Allowable \cup {"/"}

(* Path::is_valid. *)
IsValidPath(path) ==
    /\ path # <<>> /\ path[1] = "/"
    /\ PathCharacters(path) /\ ~DoubleSlash(path)
    /\ Len(path) > 1 => Last(path) # "/"

(* Path::decomposed: a step of the loop for each character after the first. *)
Segment(st, c) ==
    IF c = "/" THEN [done |-> Append(st.done, st.current), current |-> <<>>]
    ELSE [st EXCEPT !.current = Append(@, c)]
Decomposed(path) ==
    CASE ~IsValidPath(path) -> <<>>
      [] IsValidPath(path) /\ Len(path) = 1 -> <<<<>>>>
      [] OTHER -> LET st == FoldLeft(Segment, [done |-> <<>>, current |-> <<>>], Tail(path))
                  IN  Append(st.done, st.current)

(* Path::append_element: the path that results, and whether it says so. *)
CanAppend(element) ==
    element \notin {<<>>, <<"/">>} /\ PathCharacters(element) /\ ~DoubleSlash(element)
AppendElement(path, element) ==
    IF ~CanAppend(element) THEN path
    ELSE path \o (IF element[1] # "/" THEN <<"/">> ELSE <<>>)
              \o (IF Last(element) = "/" THEN Front(element) ELSE element)

-----------------------------------------------------------------------------
(* Validator.  The loop over the characters of a name counts an element at  *)
(* each character that follows a period.                                    *)
DigitAfterPeriod(s) == \E k \in 2 .. Len(s) : s[k - 1] = "." /\ s[k] = "1"
ElementCount(s) == 1 + Cardinality({k \in 2 .. Len(s) : s[k - 1] = "." /\ s[k] \in Allowable})
NameLength(s) == Len(s) \in 1 .. MaxName

IsUnique(s) == s[1] = ":"
ValidateBusName(s) ==
    /\ NameLength(s) /\ s[1] # "."
    /\ LET rest == IF IsUnique(s) THEN Tail(s) ELSE s
       IN  /\ ToSet(rest) \subseteq Allowable \cup {"."}
           /\ ~IsUnique(s) => ~DigitAfterPeriod(rest)
           /\ ElementCount(rest) >= 2
ValidateInterfaceName(s) ==
    /\ NameLength(s) /\ s[1] # "."
    /\ ToSet(s) \subseteq Allowable \cup {"."}
    /\ ~DigitAfterPeriod(s) /\ ElementCount(s) >= 2
ValidateErrorName(s) == ValidateInterfaceName(s)
(* A name that does not begin with a digit is refused, though the comment   *)
(* there says the opposite.                                                 *)
ValidateMemberName(s) == NameLength(s) /\ s[1] = "1" /\ ToSet(s) \subseteq Allowable

-----------------------------------------------------------------------------
(* References: what the D-Bus specification says, as validator.h quotes it. *)
Texts0(n, chars) == UNION {[1 .. k -> chars] : k \in 0 .. n}
Split(s) ==
    LET at == {k \in 1 .. Len(s) : s[k] = "."}
        From(k) == CHOOSE e \in k .. Len(s) : (e = Len(s) \/ s[e + 1] = ".")
                                 /\ \A j \in k .. e : s[j] # "."
    IN  {IF k > Len(s) \/ s[k] = "." THEN <<>> ELSE SubSeq(s, k, From(k)) :
            k \in {1} \cup {j + 1 : j \in at}}
LegalElement(e, digitFirst) ==
    e # <<>> /\ ToSet(e) \subseteq Allowable /\ (digitFirst \/ e[1] # "1")
LegalInterfaceName(s) ==
    /\ NameLength(s) /\ \E k \in 1 .. Len(s) : s[k] = "."
    /\ \A e \in Split(s) : LegalElement(e, FALSE)
LegalBusName(s) ==
    LET rest == IF s # <<>> /\ s[1] = ":" THEN Tail(s) ELSE s
    IN  /\ NameLength(s) /\ \E k \in 1 .. Len(rest) : rest[k] = "."
        /\ \A e \in Split(rest) : LegalElement(e, rest # s)

NameCharacters == {"A", "1", ".", ":", "-"}

(* Every name the D-Bus specification allows (without "-") is accepted; a   *)
(* name that is accepted and not allowed has an element that is empty or,   *)
(* the first one, begins with a digit.                                      *)
ASSUME LegalNamesAccepted ==
    \A s \in Texts0(MaxName, {"A", "1", ".", ":"}) :
        /\ LegalInterfaceName(s) => ValidateInterfaceName(s)
        /\ LegalBusName(s) => ValidateBusName(s)
        /\ (ValidateInterfaceName(s) /\ ~LegalInterfaceName(s))
                => (<<>> \in Split(s) \/ s[1] = "1")

(* Appending to a valid path gives a valid path with the segments of both,  *)
(* and nothing is appended otherwise.  The root, which ends in the slash    *)
(* that separates, is the exception: what it gives is not valid.            *)
ASSUME AppendedPathsAreValid ==
    \A path \in {t \in Texts0(4, {"A", "1", "/"}) : IsValidPath(t)},
       element \in Texts0(4, {"A", "/", "-"}) :
        LET appended == AppendElement(path, element)
            leading == element # <<>> /\ element[1] = "/"
            whole == IF leading THEN element ELSE <<"/">> \o element
            bare == IF Last(whole) = "/" THEN Front(whole) ELSE whole
        IN  IF ~CanAppend(element) THEN appended = path
            ELSE IF path = <<"/">> THEN ~IsValidPath(appended)
            ELSE /\ IsValidPath(appended)
                 /\ Decomposed(appended) = Decomposed(path) \o Decomposed(bare)
=============================================================================
