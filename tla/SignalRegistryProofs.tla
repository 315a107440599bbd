----------------------- MODULE SignalRegistryProofs -----------------------
(***************************************************************************)
(* What holds of the signal proxies of a connection for any number of      *)
(* proxies, rules, signals, operations and failures: each registered proxy *)
(* keeps a rule at the bus, a thread calls a proxy once for a signal and   *)
(* in order, and a removed proxy is not called.                            *)
(*                                                                         *)
(* A step of an application thread changes where proxies are registered, a *)
(* step of a signal changes where the signal is, and neither changes what  *)
(* the other does.  So the invariant has a part about each, and each part  *)
(* is proved for the steps that can disturb it.                            *)
(***************************************************************************)
EXTENDS SignalRegistry, FiniteSetTheorems, SequenceTheorems, TLAPS

Entry == [handler : FreeProxies, thread : Apps \cup {DispThread}]
Handled == [thread : {Looper, DispThread}, signal : Nat]
Todo == [at : Nat, proxy : SignalProxies]
OpSteps == {"push", "hand", "unmatch", "erase", "unhand"}
Operation == [pc : OpSteps \cup {"idle", "match"}, proxy : SignalProxies \cup {0},
              thread : Apps \cup {DispThread, 0}, adds : BOOLEAN]

PlacesType ==
    /\ free \in Seq(Entry) /\ handlers \in Seq(FreeProxies)
    /\ members \subseteq MemberProxies
    /\ rules \in [Rules -> Nat]
    /\ op \in [Apps -> Operation]
    /\ gone \subseteq FreeProxies
SignalsType ==
    /\ queue \in Seq(Nat) /\ inbox \in Seq(Nat) /\ rule \in Seq(Rules)
    /\ current \in [pc : {"idle", "free", "members"}, signal : Nat, todo : SUBSET Todo]
    /\ looping \in Nat
    /\ handled \in [SignalProxies -> Seq(Handled)]

(* An operation of a free proxy goes through the steps of the two           *)
(* functions, that of a member only asks for its rule; and two threads are  *)
(* not in operations of the same proxy.                                     *)
ProperOp(o) ==
    /\ o.pc = "idle" => o.proxy = 0
    /\ o.pc # "idle" => o.proxy \in SignalProxies
    /\ o.pc \in OpSteps => o.proxy \in FreeProxies /\ o.thread \in Apps \cup {DispThread}
    /\ o.pc \in {"push", "hand"} => o.adds = TRUE
    /\ o.pc = "match" => (o.adds = TRUE <=> o.proxy \in FreeProxies)
OpInv ==
    /\ \A t \in Apps : ProperOp(op[t])
    /\ \A t, u \in Apps : (op[t].pc # "idle" /\ op[u].proxy = op[t].proxy) => t = u

-----------------------------------------------------------------------------
(* What the operators on sequences give.                                    *)

(* Appending adds one element at the end. *)
LEMMA AppendElements ==
    ASSUME NEW S, NEW s \in Seq(S), NEW x \in S
    PROVE  /\ Append(s, x) \in Seq(S) /\ Len(Append(s, x)) = Len(s) + 1
           /\ DOMAIN Append(s, x) = 1 .. Len(s) + 1 /\ DOMAIN s = 1 .. Len(s) /\ Len(s) \in Nat
           /\ \A i \in DOMAIN s : Append(s, x)[i] = s[i]
           /\ Append(s, x)[Len(s) + 1] = x
  OBVIOUS

(* The tail has the elements but the first, which is the head. *)
LEMMA TailElements ==
    ASSUME NEW S, NEW s \in Seq(S), s # <<>>
    PROVE  /\ Tail(s) \in Seq(S) /\ Head(s) \in S /\ Head(s) = s[1]
           /\ 1 \in DOMAIN s /\ DOMAIN s = 1 .. Len(s) /\ Len(s) \in Nat
           /\ \A i \in DOMAIN Tail(s) :
                i \in Nat /\ i >= 1 /\ i + 1 \in DOMAIN s /\ Tail(s)[i] = s[i + 1]
  OBVIOUS

(* What is left when an element is taken out keeps its order. *)
LEMMA RemoveAtElements ==
    ASSUME NEW S, NEW s \in Seq(S), NEW k \in DOMAIN s
    PROVE  /\ RemoveAt(s, k) \in Seq(S) /\ Len(RemoveAt(s, k)) = Len(s) - 1
           /\ \A i \in DOMAIN RemoveAt(s, k) :
                /\ i < k => i \in DOMAIN s /\ RemoveAt(s, k)[i] = s[i]
                /\ i >= k => i + 1 \in DOMAIN s /\ RemoveAt(s, k)[i] = s[i + 1]
  <1> DEFINE a == SubSeq(s, 1, k - 1)
             b == SubSeq(s, k + 1, Len(s))
  <1>1. /\ DOMAIN s = 1 .. Len(s) /\ Len(s) \in Nat /\ k \in 1 .. Len(s)
    OBVIOUS
  <1>2. /\ a \in Seq(S) /\ Len(a) = k - 1 /\ \A i \in 1 .. k - 1 : a[i] = s[i]
    BY <1>1
  <1>3. /\ b \in Seq(S) /\ Len(b) = Len(s) - k /\ \A i \in 1 .. Len(s) - k : b[i] = s[k + i]
    BY <1>1
  <1>4. RemoveAt(s, k) = a \o b
    BY DEF RemoveAt
  <1> HIDE DEF a, b
  <1>5. /\ a \o b \in Seq(S) /\ Len(a \o b) = Len(a) + Len(b)
        /\ \A i \in 1 .. Len(a) + Len(b) : (a \o b)[i] = IF i <= Len(a) THEN a[i] ELSE b[i - Len(a)]
    <2>1. a \in Seq(S) /\ b \in Seq(S)
      BY <1>2, <1>3
    <2> QED
      BY <2>1, ConcatProperties, Zenon
  <1> DEFINE c == a \o b
  <1>6. c \in Seq(S) /\ Len(c) = Len(s) - 1
    BY <1>1, <1>2, <1>3, <1>5
  <1>7. \A i \in 1 .. Len(s) - 1 :
          /\ i < k => c[i] = s[i]
          /\ i >= k => c[i] = s[i + 1]
    <2> SUFFICES ASSUME NEW i \in 1 .. Len(s) - 1
                 PROVE  (i < k => c[i] = s[i]) /\ (i >= k => c[i] = s[i + 1])
      OBVIOUS
    <2>1. c[i] = IF i <= k - 1 THEN a[i] ELSE b[i - (k - 1)]
      BY <1>1, <1>2, <1>3, <1>5
    <2>2. CASE i < k
      BY <2>1, <2>2, <1>1, <1>2
    <2>3. CASE i >= k
      <3>1. c[i] = b[i - (k - 1)] /\ i - (k - 1) \in 1 .. Len(s) - k
        BY <2>1, <2>3, <1>1
      <3>2. b[i - (k - 1)] = s[k + (i - (k - 1))] /\ k + (i - (k - 1)) = i + 1
        BY <3>1, <1>3, <1>1
      <3> QED
        BY <3>1, <3>2, <2>3, <1>1
    <2> QED
      BY <2>2, <2>3, <1>1
  <1> HIDE DEF c
  <1>8. DOMAIN c = 1 .. Len(s) - 1
    BY <1>6
  <1>9. RemoveAt(s, k) = c
    BY <1>4 DEF c
  <1>10. /\ c \in Seq(S) /\ Len(c) = Len(s) - 1
         /\ \A i \in DOMAIN c :
              /\ i < k => i \in DOMAIN s /\ c[i] = s[i]
              /\ i >= k => i + 1 \in DOMAIN s /\ c[i] = s[i + 1]
    BY <1>1, <1>6, <1>7, <1>8
  <1> QED
    BY <1>9, <1>10

(* Each entry of rest is one of the list's own, and none of I if I names a  *)
(* single entry.                                                            *)
TakenFrom(rest, list, I) ==
    \E from \in [DOMAIN rest -> DOMAIN list] :
        /\ \A i \in DOMAIN rest : rest[i] = list[from[i]]
        /\ \A i, j \in DOMAIN rest : from[i] = from[j] => i = j
        /\ (\A i, j \in I : i = j) => \A i \in DOMAIN rest : from[i] \notin I

(* A list that loses the first entry at I keeps the others. *)
LEMMA LosesFirstElements ==
    ASSUME NEW S, NEW list \in Seq(S), NEW I \in SUBSET DOMAIN list, NEW rest,
           LosesFirst(list, I, rest)
    PROVE  rest \in Seq(S) /\ TakenFrom(rest, list, I)
  <1>1. CASE I = {} /\ rest = list
    <2> DEFINE f == [i \in DOMAIN rest |-> i]
    <2>1. /\ f \in [DOMAIN rest -> DOMAIN list]
          /\ \A i \in DOMAIN rest : rest[i] = list[f[i]] /\ f[i] \notin I
          /\ \A i, j \in DOMAIN rest : f[i] = f[j] => i = j
      BY <1>1
    <2> HIDE DEF f
    <2> QED
      BY <1>1, <2>1 DEF TakenFrom
  <1>2. ASSUME NEW k \in I, rest = RemoveAt(list, k)
        PROVE  rest \in Seq(S) /\ TakenFrom(rest, list, I)
    <2>1. k \in DOMAIN list /\ DOMAIN list = 1 .. Len(list) /\ Len(list) \in Nat
      OBVIOUS
    <2>2. /\ rest \in Seq(S) /\ Len(rest) = Len(list) - 1
          /\ \A i \in DOMAIN rest :
               /\ i < k => i \in DOMAIN list /\ rest[i] = list[i]
               /\ i >= k => i + 1 \in DOMAIN list /\ rest[i] = list[i + 1]
      BY <1>2, <2>1, RemoveAtElements
    <2>3. DOMAIN rest = 1 .. Len(list) - 1
      BY <2>1, <2>2
    <2> DEFINE f == [i \in DOMAIN rest |-> IF i < k THEN i ELSE i + 1]
    <2>4. f \in [DOMAIN rest -> DOMAIN list]
      BY <2>1, <2>2, <2>3
    <2>5. \A i \in DOMAIN rest : f[i] # k /\ rest[i] = list[f[i]]
      BY <2>1, <2>2, <2>3
    <2>6. \A i, j \in DOMAIN rest : f[i] = f[j] => i = j
      BY <2>1, <2>3
    <2>7. (\A i, j \in I : i = j) => \A i \in DOMAIN rest : f[i] \notin I
      BY <2>5
    <2> HIDE DEF f
    <2> QED
      BY <2>2, <2>4, <2>5, <2>6, <2>7 DEF TakenFrom
  <1>3. CASE \E k \in I : rest = RemoveAt(list, k)
    BY <1>2, <1>3
  <1> QED
    BY <1>1, <1>3 DEF LosesFirst

-----------------------------------------------------------------------------
(* The two kinds of steps.                                                  *)

AppSteps == \E t \in Apps : AppStep(t)
SignalSteps == (\E r \in Rules : BusSends(r)) \/ Dispatching \/ Looping

(* A step of an application thread leaves the signals where they are, and   *)
(* what it leaves half-done stays so.                                       *)
LEMMA AppFrame ==
    ASSUME AppSteps
    PROVE  UNCHANGED <<signalling, handled>> /\ unruly \subseteq unruly' /\ stray \subseteq stray'
  <1> PICK t \in Apps : AppStep(t)
    BY DEF AppSteps
  <1>1. CASE \E p \in FreeProxies, thread \in {t, DispThread} : BeginAdd(t, p, thread)
    BY <1>1 DEF BeginAdd, history
  <1>2. CASE \E p \in FreeProxies : BeginRemove(t, p)
    BY <1>2 DEF BeginRemove, history
  <1>3. CASE Push(t) \/ Hand(t)
    BY <1>3 DEF Push, Hand
  <1>4. CASE Match(t) \/ Unmatch(t)
    BY <1>4 DEF Match, Unmatch
  <1>5. CASE EraseFree(t) \/ EraseHandler(t)
    BY <1>5 DEF EraseFree, EraseHandler, history
  <1>6. CASE \E p \in MemberProxies : AddSignal(t, p) \/ RemoveSignal(t, p)
    BY <1>6 DEF AddSignal, RemoveSignal, history
  <1>7. CASE \E thread \in {t, DispThread} : ChangeThread(t, thread)
    BY <1>7 DEF ChangeThread, history
  <1> QED
    BY <1>1, <1>2, <1>3, <1>4, <1>5, <1>6, <1>7 DEF AppStep

(* A step of a signal leaves the registrations and the operations.          *)
LEMMA SignalFrame ==
    ASSUME SignalSteps
    PROVE  UNCHANGED <<registers, op, gone, unruly, stray, raced>>
  <1>1. CASE \E r \in Rules : BusSends(r)
    BY <1>1 DEF BusSends, history
  <1>2. CASE StartSignal \/ CallFree \/ CopyMembers \/ CallMember \/ Share
    BY <1>2 DEF StartSignal, CallFree, CallMember, CallNext, CopyMembers, Share, history
  <1>3. CASE LoopTake \/ LoopCall
    BY <1>3 DEF LoopTake, LoopCall, history
  <1> QED
    BY <1>1, <1>2, <1>3 DEF SignalSteps, Dispatching, Looping

(* Every step is of one of the two kinds. *)
LEMMA StepKinds ==
    [SignalNext]_signalVars => AppSteps \/ SignalSteps \/ UNCHANGED signalVars
  BY DEF SignalNext, AppSteps, SignalSteps

-----------------------------------------------------------------------------
(* The operations.                                                          *)

(* A proxy is free or a member, and has a rule.                             *)
LEMMA Proxies == 0 \notin SignalProxies /\ FreeProxies \subseteq SignalProxies
                 /\ MemberProxies \subseteq SignalProxies /\ FreeProxies \cap MemberProxies = {}
                 /\ RuleOf \in [SignalProxies -> Rules]
  BY SignalAssumption DEF SignalProxies

(* An operation that begins with a proxy nobody uses, or that goes on with  *)
(* its own, is the only one of that proxy.                                  *)
LEMMA SetOpKeeps ==
    ASSUME op \in [Apps -> Operation], OpInv, NEW t \in Apps, NEW o \in Operation, ProperOp(o),
           o.pc # "idle" => (o.proxy = op[t].proxy \/ ~InUse(o.proxy)), SetOp(t, o)
    PROVE  op' \in [Apps -> Operation] /\ OpInv'
  <1>1. op' \in [Apps -> Operation] /\ op'[t] = o /\ \A u \in Apps \ {t} : op'[u] = op[u]
    BY DEF SetOp
  <1>2. \A u \in Apps : ProperOp(op'[u])
    BY <1>1 DEF OpInv
  <1>3. ASSUME NEW u \in Apps, NEW v \in Apps, op'[u].pc # "idle", op'[v].proxy = op'[u].proxy, u # v
        PROVE  FALSE
    <2>1. op'[u].proxy # 0
      BY <1>2, <1>3, Proxies DEF ProperOp
    <2>2. CASE u = t
      BY <1>1, <1>3, <2>1, <2>2 DEF OpInv, ProperOp, InUse
    <2>3. CASE v = t
      BY <1>1, <1>3, <2>1, <2>3 DEF OpInv, ProperOp, InUse
    <2>4. CASE u # t /\ v # t
      BY <1>1, <1>3, <2>4 DEF OpInv
    <2> QED
      BY <2>2, <2>3, <2>4
  <1> QED
    BY <1>1, <1>2, <1>3 DEF OpInv, ProperOp

(* Each step of a thread takes its operation on as the functions do.       *)
LEMMA OpKept ==
    ASSUME PlacesType, OpInv, NEW t \in Apps, AppStep(t)
    PROVE  op' \in [Apps -> Operation] /\ OpInv'
  <1> DEFINE o == op[t]
  <1>1. o \in Operation /\ ProperOp(o) /\ op \in [Apps -> Operation]
    BY DEF PlacesType, OpInv
  <1>2. NoOp \in Operation /\ ProperOp(NoOp) /\ NoOp.pc = "idle"
    BY DEF NoOp, Operation, ProperOp, OpSteps
  <1>3. ASSUME NEW p \in FreeProxies, NEW thread \in {t, DispThread}, BeginAdd(t, p, thread)
        PROVE  op' \in [Apps -> Operation] /\ OpInv'
    <2> DEFINE n == [pc |-> IF p \in bound THEN "unmatch" ELSE "push", proxy |-> p,
                     thread |-> thread, adds |-> TRUE]
    <2>1. n \in Operation /\ ProperOp(n)
      BY Proxies DEF Operation, ProperOp, OpSteps
    <2>2. SetOp(t, n) /\ ~InUse(n.proxy)
      BY <1>3 DEF BeginAdd
    <2> HIDE DEF n
    <2> QED
      BY <2>1, <2>2, <1>1, SetOpKeeps
  <1>4. ASSUME NEW p \in FreeProxies, BeginRemove(t, p)
        PROVE  op' \in [Apps -> Operation] /\ OpInv'
    <2> DEFINE n == [pc |-> "unmatch", proxy |-> p, thread |-> t, adds |-> FALSE]
    <2>1. n \in Operation /\ ProperOp(n)
      BY Proxies DEF Operation, ProperOp, OpSteps
    <2>2. SetOp(t, n) /\ ~InUse(n.proxy)
      BY <1>4 DEF BeginRemove
    <2> HIDE DEF n
    <2> QED
      BY <2>1, <2>2, <1>1, SetOpKeeps
  <1>5. ASSUME NEW p \in MemberProxies, AddSignal(t, p)
        PROVE  op' \in [Apps -> Operation] /\ OpInv'
    <2> DEFINE n == [NoOp EXCEPT !.pc = "match", !.proxy = p]
    <2>1. n \in Operation /\ ProperOp(n)
      BY Proxies DEF Operation, ProperOp, OpSteps, NoOp
    <2>2. SetOp(t, n) /\ ~InUse(n.proxy)
      BY <1>5 DEF AddSignal, NoOp
    <2> HIDE DEF n
    <2> QED
      BY <2>1, <2>2, <1>1, SetOpKeeps
  <1>6. ASSUME NEW next \in OpSteps \cup {"match"}, o.pc \in OpSteps,
               next \in {"push", "hand", "match"} => o.adds = TRUE,
               SetOp(t, [o EXCEPT !.pc = next])
        PROVE  op' \in [Apps -> Operation] /\ OpInv'
    <2> DEFINE n == [o EXCEPT !.pc = next]
    <2>1. n \in Operation /\ n.pc = next /\ n.proxy = o.proxy /\ n.thread = o.thread /\ n.adds = o.adds
      BY <1>1 DEF Operation
    <2>2. ProperOp(n)
      BY <2>1, <1>1, <1>6, Proxies DEF ProperOp, OpSteps
    <2>3. SetOp(t, n)
      BY <1>6
    <2> HIDE DEF n
    <2> QED
      BY <2>1, <2>2, <2>3, <1>1, SetOpKeeps
  <1>7. ASSUME SetOp(t, NoOp)
        PROVE  op' \in [Apps -> Operation] /\ OpInv'
    BY <1>7, <1>1, <1>2, SetOpKeeps
  <1>8. CASE Push(t)
    BY <1>8, <1>1, <1>6 DEF Push, ProperOp, OpSteps
  <1>9. CASE Hand(t)
    BY <1>9, <1>1, <1>6, <1>7 DEF Hand, ProperOp, OpSteps
  <1>10. CASE Match(t)
    BY <1>10, <1>7 DEF Match
  <1>11. CASE Unmatch(t)
    BY <1>11, <1>6, <1>7 DEF Unmatch, OpSteps
  <1>12. CASE EraseFree(t)
    BY <1>12, <1>6 DEF EraseFree, OpSteps
  <1>13. CASE EraseHandler(t)
    BY <1>13, <1>1, <1>6, <1>7 DEF EraseHandler, OpSteps, Operation
  <1>14. CASE \E p \in MemberProxies : RemoveSignal(t, p)
    BY <1>14, <1>1 DEF RemoveSignal, OpInv, ProperOp
  <1>15. CASE \E thread \in {t, DispThread} : ChangeThread(t, thread)
    BY <1>15, <1>1 DEF ChangeThread, OpInv, ProperOp
  <1> QED
    BY <1>3, <1>4, <1>5, <1>8, <1>9, <1>10, <1>11, <1>12, <1>13, <1>14, <1>15 DEF AppStep

(* The places keep their types. *)
LEMMA PlacesKept ==
    ASSUME PlacesType, OpInv, NEW t \in Apps, AppStep(t)
    PROVE  PlacesType'
  <1>1. op' \in [Apps -> Operation]
    BY OpKept
  <1>2. op[t] \in Operation /\ ProperOp(op[t])
    BY DEF PlacesType, OpInv
  <1>3. CASE \E p \in FreeProxies, thread \in {t, DispThread} : BeginAdd(t, p, thread)
    BY <1>1, <1>3 DEF PlacesType, BeginAdd, registers, history
  <1>4. CASE \E p \in FreeProxies : BeginRemove(t, p)
    BY <1>1, <1>4 DEF PlacesType, BeginRemove, registers, history
  <1>5. CASE Push(t)
    <2>1. [handler |-> op[t].proxy, thread |-> op[t].thread] \in Entry
      BY <1>2, <1>5 DEF Push, ProperOp, OpSteps, Entry
    <2>2. free' \in Seq(Entry)
      BY <1>5, <2>1, AppendElements DEF Push, PlacesType
    <2> QED
      BY <1>1, <1>5, <2>2 DEF PlacesType, Push
  <1>6. CASE Hand(t)
    <2>1. op[t].proxy \in FreeProxies /\ handlers \in Seq(FreeProxies)
      BY <1>2, <1>6 DEF Hand, PlacesType, ProperOp, OpSteps
    <2>2. handlers' = handlers \/ handlers' = Append(handlers, op[t].proxy)
      BY <1>6 DEF Hand
    <2>3. handlers' \in Seq(FreeProxies)
      BY <2>1, <2>2, AppendElements
    <2> QED
      BY <1>1, <1>6, <2>3 DEF PlacesType, Hand
  <1>7. CASE Match(t)
    <2> DEFINE r == RuleOf[op[t].proxy]
    <2>1. r \in Rules /\ rules \in [Rules -> Nat]
      BY <1>2, <1>7, Proxies DEF Match, ProperOp, PlacesType
    <2>2. rules' = rules \/ rules' = [rules EXCEPT ![r] = @ + 1]
      BY <1>7 DEF Match
    <2> HIDE DEF r
    <2>3. rules' \in [Rules -> Nat]
      BY <2>1, <2>2
    <2> QED
      BY <1>1, <1>7, <2>3 DEF PlacesType, Match
  <1>8. CASE Unmatch(t)
    <2> DEFINE r == RuleOf[op[t].proxy]
    <2>1. r \in Rules /\ rules \in [Rules -> Nat]
      BY <1>2, <1>8, Proxies DEF Unmatch, ProperOp, PlacesType
    <2>2. rules' = rules \/ (rules[r] > 0 /\ rules' = [rules EXCEPT ![r] = @ - 1])
      BY <1>8 DEF Unmatch
    <2> HIDE DEF r
    <2>3. rules' \in [Rules -> Nat]
      BY <2>1, <2>2
    <2> QED
      BY <1>1, <1>8, <2>3 DEF PlacesType, Unmatch
  <1>9. CASE EraseFree(t)
    <2> DEFINE I == Entries(op[t].proxy)
    <2>1. I \in SUBSET DOMAIN free /\ LosesFirst(free, I, free')
      BY <1>9 DEF EraseFree, Entries
    <2> HIDE DEF I
    <2>2. free' \in Seq(Entry)
      BY <2>1, LosesFirstElements DEF PlacesType
    <2> QED
      BY <1>1, <1>9, <2>2 DEF PlacesType, EraseFree, history
  <1>10. CASE EraseHandler(t)
    <2> DEFINE I == {i \in DOMAIN handlers : handlers[i] = op[t].proxy}
    <2>1. I \in SUBSET DOMAIN handlers /\ LosesFirst(handlers, I, handlers')
      BY <1>10 DEF EraseHandler
    <2> HIDE DEF I
    <2>2. handlers' \in Seq(FreeProxies)
      BY <2>1, LosesFirstElements DEF PlacesType
    <2>3. gone' \subseteq FreeProxies
      BY <1>10, <1>2 DEF EraseHandler, PlacesType, ProperOp, OpSteps
    <2> QED
      BY <1>1, <1>10, <2>2, <2>3 DEF PlacesType, EraseHandler
  <1>11. CASE \E p \in MemberProxies : AddSignal(t, p) \/ RemoveSignal(t, p)
    BY <1>1, <1>11 DEF PlacesType, AddSignal, RemoveSignal, history
  <1>12. CASE \E thread \in {t, DispThread} : ChangeThread(t, thread)
    BY <1>1, <1>12 DEF PlacesType, ChangeThread, history
  <1> QED
    BY <1>3, <1>4, <1>5, <1>6, <1>7, <1>8, <1>9, <1>10, <1>11, <1>12 DEF AppStep

-----------------------------------------------------------------------------
(* The entries of m_freeProxySignals and the proxies that are gone.         *)

(* A proxy is listed once while none of its operations failed half-way: not *)
(* while it is about to be listed, not after its entry was erased, and not  *)
(* before it first had a connection.                                        *)
EntryInv ==
    /\ \A i, j \in DOMAIN free :
         (free[i].handler = free[j].handler /\ free[i].handler \notin unruly) => i = j
    /\ \A t \in Apps :
         (op[t].pc \in {"push", "unhand"} /\ op[t].proxy \notin unruly) => Entries(op[t].proxy) = {}
    /\ \A p \in FreeProxies \ unruly : (p \notin bound /\ ~InUse(p)) => Entries(p) = {}

(* A proxy that is gone is in no list, and nobody is about to list it.      *)
GoneInv ==
    /\ \A p \in gone : Entries(p) = {} /\ \A i \in DOMAIN handlers : handlers[i] # p
    /\ \A t \in Apps : op[t].pc = "hand" => op[t].proxy \notin gone

(* A step of a thread is about its own operation: the other threads go on   *)
(* with theirs, and a proxy that is not the thread's is used as before.     *)
LEMMA OthersGoOn ==
    ASSUME PlacesType, OpInv, NEW t \in Apps, AppStep(t)
    PROVE  /\ \A u \in Apps \ {t} : op'[u] = op[u]
           /\ \A p \in SignalProxies : (p # op[t].proxy /\ InUse(p)) => InUse(p)'
           /\ \A u \in Apps \ {t} : op[t].pc # "idle" => op[u].proxy # op[t].proxy
  <1>1. op \in [Apps -> Operation] /\ op' \in [Apps -> Operation]
    BY OpKept DEF PlacesType
  <1>2. (\E o : SetOp(t, o)) \/ op' = op
    <2>1. CASE (\E p \in FreeProxies, thread \in {t, DispThread} : BeginAdd(t, p, thread))
               \/ (\E p \in FreeProxies : BeginRemove(t, p))
               \/ (\E p \in MemberProxies : AddSignal(t, p) \/ RemoveSignal(t, p))
               \/ (\E thread \in {t, DispThread} : ChangeThread(t, thread))
      BY <2>1 DEF BeginAdd, BeginRemove, AddSignal, RemoveSignal, ChangeThread
    <2>2. CASE Push(t) \/ Hand(t) \/ Match(t)
      BY <2>2 DEF Push, Hand, Match
    <2>3. CASE Unmatch(t) \/ EraseFree(t) \/ EraseHandler(t)
      BY <2>3 DEF Unmatch, EraseFree, EraseHandler
    <2> QED
      BY <2>1, <2>2, <2>3 DEF AppStep
  <1>3. \A u \in Apps \ {t} : op'[u] = op[u]
    BY <1>1, <1>2 DEF SetOp
  <1> QED
    BY <1>1, <1>3 DEF InUse, OpInv

(* Each step of a thread lists a proxy at most once. *)
LEMMA EntryKept ==
    ASSUME PlacesType, OpInv, EntryInv, NEW t \in Apps, AppStep(t)
    PROVE  EntryInv'
  <1> PICK p : p = op[t].proxy
    OBVIOUS
  <1>1. /\ \A u \in Apps \ {t} : op'[u] = op[u]
        /\ \A x \in SignalProxies : (x # p /\ InUse(x)) => InUse(x)'
        /\ \A u \in Apps \ {t} : op[t].pc # "idle" => op[u].proxy # p
    BY OthersGoOn
  <1>2. ProperOp(op[t]) /\ OpInv' /\ op \in [Apps -> Operation] /\ op' \in [Apps -> Operation]
    BY OpKept DEF OpInv, PlacesType
  <1>3. unruly \subseteq unruly'
    BY AppFrame DEF AppSteps
  (* The entries stay, and an operation that ends leaves its proxy as the   *)
  (* invariant has it.                                                      *)
  <1>4. ASSUME free' = free, bound \subseteq bound',
               \/ op'[t].pc \notin {"push", "unhand"}
               \/ op'[t].proxy \in unruly'
               \/ Entries(op'[t].proxy) = {},
               \/ p \notin FreeProxies
               \/ InUse(p)' \/ p \in unruly' \/ p \in bound' \/ Entries(p) = {}
        PROVE  EntryInv'
    <2>1. \A x : Entries(x)' = Entries(x)
      BY <1>4 DEF Entries
    <2>2. \A i, j \in DOMAIN free' :
            (free'[i].handler = free'[j].handler /\ free'[i].handler \notin unruly') => i = j
      BY <1>3, <1>4 DEF EntryInv
    <2>3. \A u \in Apps :
            (op'[u].pc \in {"push", "unhand"} /\ op'[u].proxy \notin unruly') => Entries(op[u].proxy)' = {}
      BY <1>1, <1>3, <1>4 DEF EntryInv, Entries
    <2>4. \A x \in FreeProxies \ unruly' : (x \notin bound' /\ ~InUse(x)') => Entries(x)' = {}
      BY <1>1, <1>3, <1>4, <2>1, Proxies DEF EntryInv
    <2> QED
      BY <2>2, <2>3, <2>4 DEF EntryInv
  <1>5. op[t].pc = "idle" => p \notin FreeProxies
    BY <1>2, Proxies DEF ProperOp
  <1>6. ASSUME NEW x \in FreeProxies, NEW thread \in {t, DispThread}, BeginAdd(t, x, thread)
        PROVE  EntryInv'
    <2>1. op'[t] = [pc |-> IF x \in bound THEN "unmatch" ELSE "push", proxy |-> x,
                    thread |-> thread, adds |-> TRUE]
      BY <1>2, <1>6 DEF BeginAdd, SetOp
    <2>2. (op'[t].pc # "push" /\ op'[t].pc # "unhand") \/ op'[t].proxy \in unruly \/ Entries(op'[t].proxy) = {}
      BY <1>6, <2>1 DEF BeginAdd, EntryInv
    <2>3. free' = free /\ bound' = bound /\ op[t].pc = "idle"
      BY <1>6 DEF BeginAdd, registers
    <2> QED
      BY <1>3, <1>4, <1>5, <2>2, <2>3
  <1>7. ASSUME NEW x \in FreeProxies, BeginRemove(t, x)
        PROVE  EntryInv'
    <2>1. op'[t].pc = "unmatch" /\ free' = free /\ bound' = bound /\ op[t].pc = "idle"
      BY <1>2, <1>7 DEF BeginRemove, SetOp, registers
    <2> QED
      BY <1>4, <1>5, <2>1
  <1>8. CASE Push(t)
    <2>1. /\ free' = Append(free, [handler |-> p, thread |-> op[t].thread])
          /\ op[t].pc = "push" /\ op'[t].pc \notin {"push", "unhand"} /\ op'[t].proxy = p
          /\ unruly' = unruly /\ bound' = bound
      BY <1>2, <1>8 DEF Push, SetOp, Operation
    <2>2. [handler |-> p, thread |-> op[t].thread] \in Entry /\ p \in FreeProxies
      BY <1>2, <2>1 DEF ProperOp, OpSteps, Entry
    <2>3. /\ DOMAIN free' = 1 .. Len(free) + 1 /\ DOMAIN free = 1 .. Len(free) /\ Len(free) \in Nat
          /\ \A i \in DOMAIN free : free'[i] = free[i]
          /\ free'[Len(free) + 1].handler = p
      BY <2>1, <2>2, AppendElements DEF PlacesType
    <2>4. p \notin unruly => Entries(p) = {}
      BY <2>1 DEF EntryInv
    <2>5. \A x : x # p => Entries(x)' = Entries(x)
      BY <2>3 DEF Entries
    <2>6. \A i, j \in DOMAIN free' :
            (free'[i].handler = free'[j].handler /\ free'[i].handler \notin unruly') => i = j
      BY <2>1, <2>3, <2>4 DEF EntryInv, Entries
    <2>7. \A u \in Apps :
            (op'[u].pc \in {"push", "unhand"} /\ op'[u].proxy \notin unruly') => Entries(op[u].proxy)' = {}
      BY <1>1, <2>1, <2>5 DEF EntryInv, Entries
    <2>8. \A x \in FreeProxies \ unruly' : (x \notin bound' /\ ~InUse(x)') => Entries(x)' = {}
      BY <1>1, <2>1, <2>5, Proxies DEF EntryInv, InUse
    <2> QED
      BY <2>6, <2>7, <2>8 DEF EntryInv
  <1>9. CASE Hand(t)
    <2>1. free' = free /\ bound' = bound
      BY <1>9 DEF Hand
    <2>2. op'[t].pc \notin {"push", "unhand"}
      BY <1>2, <1>9 DEF Hand, SetOp, NoOp, Operation
    <2>3. p \in unruly' \/ InUse(p)'
      BY <1>2, <1>9 DEF Hand, SetOp, InUse, Operation
    <2> QED
      BY <1>4, <2>1, <2>2, <2>3
  <1>10. CASE Match(t)
    <2>1. free' = free /\ bound \subseteq bound' /\ op'[t].pc = "idle" /\ op[t].pc = "match"
      BY <1>2, <1>10 DEF Match, SetOp, NoOp
    <2>2. p \in FreeProxies => p \in unruly' \/ p \in bound'
      BY <1>2, <1>10 DEF Match, ProperOp
    <2> QED
      BY <1>4, <2>1, <2>2
  <1>11. CASE Unmatch(t)
    <2>1. free' = free /\ bound' = bound
      BY <1>11 DEF Unmatch
    <2>2. op'[t].pc \notin {"push", "unhand"}
      BY <1>2, <1>11 DEF Unmatch, SetOp, NoOp, Operation
    <2>3. p \in unruly' \/ InUse(p)'
      BY <1>2, <1>11 DEF Unmatch, SetOp, InUse, Operation
    <2> QED
      BY <1>4, <2>1, <2>2, <2>3
  <1>12. CASE EraseFree(t)
    <2>1. /\ op[t].pc = "erase" /\ op'[t].proxy = p /\ unruly' = unruly /\ bound' = bound
          /\ LosesFirst(free, Entries(p), free')
      BY <1>2, <1>12 DEF EraseFree, SetOp, Operation, registers, history
    <2> DEFINE I == Entries(p)
    <2>2. I \in SUBSET DOMAIN free /\ free \in Seq(Entry)
      BY DEF Entries, PlacesType
    <2>3. PICK from \in [DOMAIN free' -> DOMAIN free] :
             /\ \A i \in DOMAIN free' : free'[i] = free[from[i]]
             /\ \A i, j \in DOMAIN free' : from[i] = from[j] => i = j
             /\ (\A i, j \in I : i = j) => \A i \in DOMAIN free' : from[i] \notin I
      <3>1. LosesFirst(free, I, free')
        BY <2>1
      <3>2. TakenFrom(free', free, I)
        <4> HIDE DEF I
        <4> QED
          BY <3>1, <2>2, LosesFirstElements
      <3> QED
        BY <3>2 DEF TakenFrom
    <2>4. \A x : Entries(x) = {} => Entries(x)' = {}
      BY <2>3 DEF Entries
    <2>5. p \notin unruly => Entries(p)' = {}
      BY <2>1, <2>3 DEF EntryInv, Entries
    <2>6. \A i, j \in DOMAIN free' :
            (free'[i].handler = free'[j].handler /\ free'[i].handler \notin unruly') => i = j
      BY <2>1, <2>3 DEF EntryInv
    <2>7. \A u \in Apps :
            (op'[u].pc \in {"push", "unhand"} /\ op'[u].proxy \notin unruly') => Entries(op[u].proxy)' = {}
      BY <1>1, <2>1, <2>4, <2>5 DEF EntryInv, Entries
    <2>8. \A x \in FreeProxies \ unruly' : (x \notin bound' /\ ~InUse(x)') => Entries(x)' = {}
      BY <1>1, <2>1, <2>4, Proxies DEF EntryInv, InUse
    <2> QED
      BY <2>6, <2>7, <2>8 DEF EntryInv
  <1>13. CASE EraseHandler(t)
    <2>1. free' = free /\ bound' = bound /\ unruly' = unruly
      BY <1>13 DEF EraseHandler
    <2>2. p \in unruly \/ Entries(p) = {}
      BY <1>13 DEF EraseHandler, EntryInv
    <2>3. op'[t].pc # "idle" => op'[t].proxy = p
      BY <1>2, <1>13 DEF EraseHandler, SetOp, Operation, NoOp
    <2>4. op'[t].pc \in {"push", "unhand"} => op'[t].pc # "idle"
      OBVIOUS
    <2> QED
      BY <1>4, <2>1, <2>2, <2>3, <2>4
  <1>14. ASSUME NEW x \in MemberProxies, AddSignal(t, x) \/ RemoveSignal(t, x)
         PROVE  EntryInv'
    <2>1. free' = free /\ bound' = bound /\ op[t].pc = "idle" /\ op'[t].pc \notin {"push", "unhand"}
      BY <1>2, <1>14 DEF AddSignal, RemoveSignal, SetOp, NoOp
    <2> QED
      BY <1>4, <1>5, <2>1
  <1>15. ASSUME NEW thread \in {t, DispThread}, ChangeThread(t, thread)
         PROVE  EntryInv'
    <2>1. free' = free /\ bound' = bound /\ op[t].pc = "idle" /\ op'[t].pc \notin {"push", "unhand"}
      BY <1>2, <1>15 DEF ChangeThread
    <2> QED
      BY <1>4, <1>5, <2>1
  <1> QED
    BY <1>6, <1>7, <1>8, <1>9, <1>10, <1>11, <1>12, <1>13, <1>14, <1>15 DEF AppStep

(* Each step of a thread leaves the proxies that are gone out of the lists. *)
LEMMA GoneKept ==
    ASSUME PlacesType, OpInv, GoneInv, NEW t \in Apps, AppStep(t)
    PROVE  GoneInv'
  <1> PICK p : p = op[t].proxy
    OBVIOUS
  <1>1. /\ \A u \in Apps \ {t} : op'[u] = op[u]
        /\ \A u \in Apps \ {t} : op[t].pc # "idle" => op[u].proxy # p
    BY OthersGoOn
  <1>2. ProperOp(op[t]) /\ op \in [Apps -> Operation] /\ op' \in [Apps -> Operation]
    BY OpKept DEF OpInv, PlacesType
  (* The lists lose entries, and proxies come back. *)
  <1>3. ASSUME \A x : Entries(x) = {} => Entries(x)' = {},
               \A i \in DOMAIN handlers' : \E j \in DOMAIN handlers : handlers'[i] = handlers[j],
               gone' \subseteq gone, op'[t].pc # "hand" \/ op'[t] = op[t]
        PROVE  GoneInv'
    BY <1>1, <1>3 DEF GoneInv
  <1>4. ASSUME free' = free
        PROVE  \A x : Entries(x) = {} => Entries(x)' = {}
    BY <1>4 DEF Entries
  <1>5. ASSUME NEW x \in FreeProxies, NEW thread \in {t, DispThread}, BeginAdd(t, x, thread)
        PROVE  GoneInv'
    <2>1. op'[t].pc # "hand"
      BY <1>2, <1>5 DEF BeginAdd, SetOp
    <2> QED
      BY <1>3, <1>4, <1>5, <2>1 DEF BeginAdd, registers, history
  <1>6. ASSUME NEW x \in FreeProxies, BeginRemove(t, x)
        PROVE  GoneInv'
    <2>1. op'[t].pc # "hand"
      BY <1>2, <1>6 DEF BeginRemove, SetOp
    <2> QED
      BY <1>3, <1>4, <1>6, <2>1 DEF BeginRemove, registers, history
  <1>7. CASE Push(t)
    <2>1. /\ free' = Append(free, [handler |-> p, thread |-> op[t].thread])
          /\ op[t].pc = "push" /\ op'[t].proxy = p /\ gone' = gone \ {p} /\ handlers' = handlers
      BY <1>2, <1>7 DEF Push, SetOp, Operation
    <2>2. [handler |-> p, thread |-> op[t].thread] \in Entry
      BY <1>2, <2>1 DEF ProperOp, OpSteps, Entry
    <2>3. /\ DOMAIN free' = 1 .. Len(free) + 1 /\ DOMAIN free = 1 .. Len(free) /\ Len(free) \in Nat
          /\ \A i \in DOMAIN free : free'[i] = free[i]
          /\ free'[Len(free) + 1].handler = p
      BY <2>1, <2>2, AppendElements DEF PlacesType
    <2>4. \A x : x # p => Entries(x)' = Entries(x)
      BY <2>3 DEF Entries
    <2> QED
      BY <1>1, <2>1, <2>4 DEF GoneInv
  <1>8. CASE Hand(t)
    <2>1. op[t].pc = "hand" /\ gone' = gone /\ op'[t].pc # "hand" /\ free' = free
      BY <1>2, <1>8 DEF Hand, SetOp, NoOp, Operation
    <2>2. p \notin gone
      BY <2>1 DEF GoneInv
    <2>3. CASE handlers' = handlers
      BY <1>3, <1>4, <2>1, <2>3
    <2>4. CASE handlers' = Append(handlers, p)
      <3>1. p \in FreeProxies /\ handlers \in Seq(FreeProxies)
        BY <1>2, <2>1 DEF ProperOp, OpSteps, PlacesType
      <3>2. /\ DOMAIN handlers' = 1 .. Len(handlers) + 1 /\ DOMAIN handlers = 1 .. Len(handlers)
            /\ Len(handlers) \in Nat
            /\ \A i \in DOMAIN handlers : handlers'[i] = handlers[i]
            /\ handlers'[Len(handlers) + 1] = p
        BY <3>1, <2>4, AppendElements
      <3>3. \A i \in DOMAIN handlers' :
              handlers'[i] = p \/ (\E j \in DOMAIN handlers : handlers'[i] = handlers[j])
        BY <3>2
      <3> QED
        BY <1>1, <1>4, <2>1, <2>2, <3>3 DEF GoneInv
    <2> QED
      BY <1>8, <2>3, <2>4 DEF Hand
  <1>9. CASE Match(t) \/ Unmatch(t)
    <2>1. op'[t].pc # "hand"
      BY <1>2, <1>9 DEF Match, Unmatch, SetOp, NoOp, Operation
    <2>2. free' = free /\ handlers' = handlers /\ gone' = gone
      BY <1>9 DEF Match, Unmatch
    <2> QED
      BY <1>3, <1>4, <2>1, <2>2
  <1>10. CASE EraseFree(t)
    <2> DEFINE I == Entries(op[t].proxy)
    <2>1. I \in SUBSET DOMAIN free /\ free \in Seq(Entry) /\ LosesFirst(free, I, free')
      BY <1>10 DEF EraseFree, Entries, PlacesType
    <2>2. TakenFrom(free', free, I)
      <3> HIDE DEF I
      <3> QED
        BY <2>1, LosesFirstElements
    <2>3. \A x : Entries(x) = {} => Entries(x)' = {}
      BY <2>2 DEF TakenFrom, Entries
    <2>4. op'[t].pc # "hand" /\ handlers' = handlers /\ gone' = gone
      BY <1>2, <1>10 DEF EraseFree, SetOp, Operation, history
    <2> QED
      BY <1>3, <2>3, <2>4
  <1>11. CASE EraseHandler(t)
    <2> DEFINE I == {i \in DOMAIN handlers : handlers[i] = op[t].proxy}
    <2>1. I \in SUBSET DOMAIN handlers /\ handlers \in Seq(FreeProxies) /\ LosesFirst(handlers, I, handlers')
      BY <1>11 DEF EraseHandler, PlacesType
    <2>2. TakenFrom(handlers', handlers, I) /\ handlers' \in Seq(FreeProxies)
      <3> HIDE DEF I
      <3> QED
        BY <2>1, LosesFirstElements
    <2>3. \A i \in DOMAIN handlers' : \E j \in DOMAIN handlers : handlers'[i] = handlers[j]
      BY <2>2 DEF TakenFrom
    <2>4. /\ op[t].pc = "unhand" /\ op'[t].pc # "hand" /\ free' = free
          /\ \/ gone' = gone
             \/ gone' = gone \cup {p} /\ p \notin ToSet(handlers') /\ Entries(p) = {}
      <3>1. op[t].pc = "unhand" /\ free' = free
        BY <1>11 DEF EraseHandler
      <3>2. op'[t].pc # "hand"
        BY <1>2, <1>11 DEF EraseHandler, SetOp, NoOp, Operation
      <3>3. \/ gone' = gone
            \/ gone' = gone \cup {p} /\ p \notin ToSet(handlers') /\ Entries(p) = {}
        BY <1>11 DEF EraseHandler
      <3> QED
        BY <3>1, <3>2, <3>3
    <2>5. gone' # gone => \A i \in DOMAIN handlers' : handlers'[i] # p
      BY <2>4 DEF ToSet
    <2> QED
      BY <1>1, <1>4, <2>3, <2>4, <2>5 DEF GoneInv
  <1>12. ASSUME NEW x \in MemberProxies, AddSignal(t, x)
         PROVE  GoneInv'
    <2>1. op'[t].pc # "hand" /\ free' = free /\ handlers' = handlers /\ gone' \subseteq gone
      BY <1>2, <1>12 DEF AddSignal, SetOp, NoOp
    <2> QED
      BY <1>3, <1>4, <2>1
  <1>13. ASSUME NEW x \in MemberProxies, RemoveSignal(t, x)
         PROVE  GoneInv'
    BY <1>3, <1>4, <1>13 DEF RemoveSignal, history
  <1>14. ASSUME NEW thread \in {t, DispThread}, ChangeThread(t, thread)
         PROVE  GoneInv'
    BY <1>3, <1>4, <1>14 DEF ChangeThread, history
  <1> QED
    BY <1>5, <1>6, <1>7, <1>8, <1>9, <1>10, <1>11, <1>12, <1>13, <1>14 DEF AppStep

-----------------------------------------------------------------------------
(* The match rules.                                                         *)

(* A proxy has a rule of its own at the bus from the end of the step that   *)
(* asks for it to the step that takes it back.                              *)
HasRule(p) ==
    \/ p \in members /\ ~InUse(p)
    \/ p \in bound /\ Entries(p) # {} /\ \A t \in Apps : op[t].proxy = p => op[t].pc = "unmatch"
WithRule(r) == {p \in SignalProxies : HasRule(p) /\ RuleOf[p] = r}
Reliable(r) == r \notin stray /\ \A p \in unruly : RuleOf[p] # r
RuleInv == \A r \in Rules : Reliable(r) => rules[r] >= Cardinality(WithRule(r))

(* There are finitely many proxies. *)
LEMMA WithRuleFinite ==
    \A r : IsFiniteSet(WithRule(r)) /\ Cardinality(WithRule(r)) \in Nat
  <1>1. IsFiniteSet(SignalProxies)
    BY SignalAssumption DEF SignalProxies
  <1> QED
    BY <1>1, FS_Subset, FS_CardinalityType DEF WithRule

(* The bus has no fewer rules, and no other proxy has one. *)
LEMMA RulesStay ==
    ASSUME RuleInv, PlacesType, PlacesType', unruly \subseteq unruly', stray \subseteq stray',
           \A r \in Rules : Reliable(r)' => rules'[r] >= rules[r],
           \A x \in SignalProxies \ unruly' : HasRule(x)' => HasRule(x)
    PROVE  RuleInv'
  <1> SUFFICES ASSUME NEW r \in Rules, Reliable(r)'
               PROVE  rules'[r] >= Cardinality(WithRule(r)')
    BY DEF RuleInv
  <1> DEFINE A == WithRule(r)
             B == WithRule(r)'
  <1>1. B \subseteq A
    BY DEF WithRule, Reliable
  <1>2. Reliable(r)
    BY DEF Reliable
  <1>3. IsFiniteSet(A) /\ Cardinality(A) \in Nat
    BY WithRuleFinite
  <1>4. rules'[r] >= rules[r] /\ rules[r] >= Cardinality(A) /\ rules[r] \in Nat /\ rules'[r] \in Nat
    BY <1>2 DEF RuleInv, PlacesType
  <1> HIDE DEF A, B
  <1>5. Cardinality(B) <= Cardinality(A) /\ Cardinality(B) \in Nat
    BY <1>1, <1>3, FS_Subset, FS_CardinalityType
  <1>6. rules'[r] >= Cardinality(B)
    BY <1>3, <1>4, <1>5
  <1> QED
    BY <1>6 DEF B

(* A proxy asks for its rule, and then it has one. *)
LEMMA RuleAdded ==
    ASSUME RuleInv, PlacesType, PlacesType', unruly \subseteq unruly', stray \subseteq stray',
           NEW p \in SignalProxies, rules' = [rules EXCEPT ![RuleOf[p]] = @ + 1],
           \A x \in SignalProxies \ unruly' : x # p /\ HasRule(x)' => HasRule(x)
    PROVE  RuleInv'
  <1> SUFFICES ASSUME NEW r \in Rules, Reliable(r)'
               PROVE  rules'[r] >= Cardinality(WithRule(r)')
    BY DEF RuleInv
  <1> DEFINE A == WithRule(r)
             B == WithRule(r)'
  <1>1. Reliable(r)
    BY DEF Reliable
  <1>2. IsFiniteSet(A) /\ Cardinality(A) \in Nat
    BY WithRuleFinite
  <1>3. rules[r] >= Cardinality(A) /\ rules[r] \in Nat /\ rules \in [Rules -> Nat]
    BY <1>1 DEF RuleInv, PlacesType
  <1>4. B \subseteq A \cup {p} /\ (RuleOf[p] # r => B \subseteq A)
    BY DEF WithRule, Reliable
  <1> HIDE DEF A, B
  <1>5. IsFiniteSet(A \cup {p}) /\ Cardinality(A \cup {p}) <= Cardinality(A) + 1
    <2>1. /\ IsFiniteSet(A \cup {p})
          /\ Cardinality(A \cup {p}) = IF p \in A THEN Cardinality(A) ELSE Cardinality(A) + 1
      BY <1>2, FS_AddElement, Zenon
    <2> QED
      BY <1>2, <2>1
  <1>6. CASE RuleOf[p] = r
    <2>1. rules'[r] = rules[r] + 1
      BY <1>3, <1>6
    <2>2. Cardinality(B) <= Cardinality(A \cup {p}) /\ Cardinality(B) \in Nat
          /\ Cardinality(A \cup {p}) \in Nat
      BY <1>4, <1>5, FS_Subset, FS_CardinalityType
    <2>3. rules'[r] >= Cardinality(B)
      BY <1>2, <1>3, <1>5, <2>1, <2>2
    <2> QED
      BY <2>3 DEF B
  <1>7. CASE RuleOf[p] # r
    <2>1. rules'[r] = rules[r]
      BY <1>3, <1>7
    <2>2. Cardinality(B) <= Cardinality(A) /\ Cardinality(B) \in Nat
      BY <1>2, <1>4, <1>7, FS_Subset, FS_CardinalityType
    <2>3. rules'[r] >= Cardinality(B)
      BY <1>2, <1>3, <2>1, <2>2
    <2> QED
      BY <2>3 DEF B
  <1> QED
    BY <1>6, <1>7

(* The rule that a proxy had is taken back. *)
LEMMA RuleTakenBack ==
    ASSUME RuleInv, PlacesType, PlacesType', unruly \subseteq unruly', stray \subseteq stray',
           NEW p \in SignalProxies, rules' = [rules EXCEPT ![RuleOf[p]] = @ - 1],
           Reliable(RuleOf[p])' => HasRule(p) /\ ~HasRule(p)',
           \A x \in SignalProxies \ unruly' : HasRule(x)' => HasRule(x)
    PROVE  RuleInv'
  <1> SUFFICES ASSUME NEW r \in Rules, Reliable(r)'
               PROVE  rules'[r] >= Cardinality(WithRule(r)')
    BY DEF RuleInv
  <1> DEFINE A == WithRule(r)
             B == WithRule(r)'
  <1>1. Reliable(r)
    BY DEF Reliable
  <1>2. IsFiniteSet(A) /\ Cardinality(A) \in Nat
    BY WithRuleFinite
  <1>3. rules[r] >= Cardinality(A) /\ rules[r] \in Nat /\ rules \in [Rules -> Nat]
    BY <1>1 DEF RuleInv, PlacesType
  <1>4. B \subseteq A
    BY DEF WithRule, Reliable
  <1>5. RuleOf[p] = r => p \in A /\ p \notin B
    BY DEF WithRule, Reliable
  <1> HIDE DEF A, B
  <1>6. CASE RuleOf[p] = r
    <2>1. rules'[r] = rules[r] - 1
      BY <1>3, <1>6
    <2>2. IsFiniteSet(A \ {p}) /\ Cardinality(A \ {p}) = Cardinality(A) - 1
      BY <1>2, <1>5, <1>6, FS_RemoveElement
    <2>3. B \subseteq A \ {p}
      BY <1>4, <1>5, <1>6
    <2>4. Cardinality(B) <= Cardinality(A \ {p}) /\ Cardinality(B) \in Nat
      BY <2>2, <2>3, FS_Subset, FS_CardinalityType
    <2>5. rules'[r] >= Cardinality(B)
      BY <1>2, <1>3, <2>1, <2>2, <2>4
    <2> QED
      BY <2>5 DEF B
  <1>7. CASE RuleOf[p] # r
    <2>1. rules'[r] = rules[r]
      BY <1>3, <1>7
    <2>2. Cardinality(B) <= Cardinality(A) /\ Cardinality(B) \in Nat
      BY <1>2, <1>4, FS_Subset, FS_CardinalityType
    <2>3. rules'[r] >= Cardinality(B)
      BY <1>2, <1>3, <2>1, <2>2
    <2> QED
      BY <2>3 DEF B
  <1> QED
    BY <1>6, <1>7

(* Each step of a thread leaves the registered proxies their rules. *)
LEMMA RuleKept ==
    ASSUME PlacesType, OpInv, EntryInv, RuleInv, NEW t \in Apps, AppStep(t)
    PROVE  RuleInv'
  <1> PICK p : p = op[t].proxy
    OBVIOUS
  <1>1. /\ \A u \in Apps \ {t} : op'[u] = op[u]
        /\ \A x \in SignalProxies : (x # p /\ InUse(x)) => InUse(x)'
        /\ \A u \in Apps \ {t} : op[t].pc # "idle" => op[u].proxy # p
    BY OthersGoOn
  <1>2. ProperOp(op[t]) /\ op \in [Apps -> Operation] /\ op' \in [Apps -> Operation]
    BY OpKept DEF OpInv, PlacesType
  <1>3. unruly \subseteq unruly' /\ stray \subseteq stray'
    BY AppFrame DEF AppSteps
  <1>4. PlacesType' /\ rules \in [Rules -> Nat] /\ rules' \in [Rules -> Nat]
    BY PlacesKept DEF PlacesType
  <1>5. \A x \in MemberProxies : Entries(x) = {} /\ Entries(x)' = {}
    <2>1. \A e \in Entry : e.handler \in FreeProxies
      BY DEF Entry
    <2>2. /\ \A i \in DOMAIN free : free[i].handler \in FreeProxies
          /\ \A i \in DOMAIN free' : free'[i].handler \in FreeProxies
      BY <1>4, <2>1 DEF PlacesType
    <2> QED
      BY <2>2, Proxies DEF Entries
  <1>6. members \subseteq MemberProxies /\ members' \subseteq MemberProxies
    BY <1>4 DEF PlacesType
  (* Proxies that are not the thread's are where they were. *)
  <1>7. ASSUME NEW x \in SignalProxies, x # p, HasRule(x)',
               x \in members' => x \in members, x \in bound' => x \in bound,
               Entries(x) = {} => Entries(x)' = {},
               op'[t].proxy # x \/ op'[t].pc = "unmatch"
        PROVE  HasRule(x)
    <2>1. \A u \in Apps : op[u].proxy = x => op'[u] = op[u] /\ u # t
      BY <1>1, <1>7
    <2>2. \A u \in Apps : op[u].proxy = x => op'[u].proxy = x
      BY <2>1
    <2> QED
      BY <1>7, <2>1, <2>2 DEF HasRule, InUse
  <1>8. ASSUME free' = free
        PROVE  \A x : Entries(x)' = Entries(x)
    BY <1>8 DEF Entries
  <1>9. op[t].pc = "idle" => p \notin SignalProxies
    BY <1>2, Proxies DEF ProperOp
  <1>10. op[t].pc \in OpSteps => p \in FreeProxies /\ p \in SignalProxies /\ p \notin members /\ p \notin members'
    BY <1>2, <1>6, Proxies DEF ProperOp
  (* At any other step than "unmatch" the thread's proxy has no rule.       *)
  <1>11. ASSUME op[t].pc \in OpSteps, op'[t].proxy = p, op'[t].pc # "unmatch"
         PROVE  ~HasRule(p)'
    BY <1>10, <1>11 DEF HasRule
  <1>12. ASSUME \A x \in SignalProxies \ unruly' : HasRule(x)' => HasRule(x),
                \A r \in Rules : rules'[r] >= rules[r]
         PROVE  RuleInv'
    BY <1>3, <1>4, <1>12, RulesStay
  <1>13. rules' = rules => \A r \in Rules : rules'[r] >= rules[r]
    BY <1>4
  <1>14. ASSUME NEW y \in FreeProxies, SetOp(t, op'[t]), op[t].pc = "idle", op'[t].proxy = y,
                op'[t].pc = "unmatch" \/ y \notin bound,
                ~InUse(y), UNCHANGED registers
         PROVE  RuleInv'
    <2>1. free' = free /\ members' = members /\ bound' = bound /\ rules' = rules
      BY <1>14 DEF registers
    <2>2. ASSUME NEW x \in SignalProxies, HasRule(x)'
          PROVE  HasRule(x)
      <3>1. CASE x # y
        BY <1>7, <1>8, <1>9, <1>14, <2>1, <2>2, <3>1
      <3>2. CASE x = y
        BY <1>6, <1>8, <1>14, <2>1, <2>2, <3>2, Proxies DEF HasRule, InUse
      <3> QED
        BY <3>1, <3>2
    <2> QED
      BY <1>12, <1>13, <2>1, <2>2
  <1>15. ASSUME NEW y \in FreeProxies, NEW thread \in {t, DispThread}, BeginAdd(t, y, thread)
         PROVE  RuleInv'
    <2>1. op'[t] = [pc |-> IF y \in bound THEN "unmatch" ELSE "push", proxy |-> y,
                    thread |-> thread, adds |-> TRUE]
      BY <1>2, <1>15 DEF BeginAdd, SetOp
    <2>2. op'[t].proxy = y /\ (op'[t].pc = "unmatch" \/ y \notin bound)
      BY <2>1
    <2>3. SetOp(t, op'[t]) /\ op[t].pc = "idle" /\ ~InUse(y) /\ UNCHANGED registers
      BY <1>15, <2>1 DEF BeginAdd
    <2> QED
      BY <1>14, <2>2, <2>3
  <1>16. ASSUME NEW y \in FreeProxies, BeginRemove(t, y)
         PROVE  RuleInv'
    <2>1. op'[t] = [pc |-> "unmatch", proxy |-> y, thread |-> t, adds |-> FALSE]
      BY <1>2, <1>16 DEF BeginRemove, SetOp
    <2>2. op'[t].proxy = y /\ op'[t].pc = "unmatch"
      BY <2>1
    <2>3. SetOp(t, op'[t]) /\ op[t].pc = "idle" /\ ~InUse(y) /\ UNCHANGED registers
      BY <1>16, <2>1 DEF BeginRemove
    <2> QED
      BY <1>14, <2>2, <2>3
  <1>17. CASE Push(t)
    <2>1. /\ free' = Append(free, [handler |-> p, thread |-> op[t].thread])
          /\ op[t].pc = "push" /\ op'[t].proxy = p /\ op'[t].pc # "unmatch"
          /\ members' = members /\ bound' = bound /\ rules' = rules
      BY <1>2, <1>17 DEF Push, SetOp, Operation
    <2>2. [handler |-> p, thread |-> op[t].thread] \in Entry
      BY <1>2, <2>1 DEF ProperOp, OpSteps, Entry
    <2>3. /\ DOMAIN free' = 1 .. Len(free) + 1 /\ DOMAIN free = 1 .. Len(free) /\ Len(free) \in Nat
          /\ \A i \in DOMAIN free : free'[i] = free[i]
          /\ free'[Len(free) + 1].handler = p
      BY <2>1, <2>2, AppendElements DEF PlacesType
    <2>4. \A x : x # p => Entries(x)' = Entries(x)
      BY <2>3 DEF Entries
    <2>5. ~HasRule(p)'
      BY <1>11, <2>1 DEF OpSteps
    <2>6. \A x \in SignalProxies \ unruly' : HasRule(x)' => HasRule(x)
      BY <1>7, <2>1, <2>4, <2>5
    <2> QED
      BY <1>12, <1>13, <2>1, <2>6
  <1>18. CASE Hand(t)
    <2>1. /\ free' = free /\ members' = members /\ bound' = bound /\ rules' = rules
          /\ op[t].pc = "hand"
      BY <1>18 DEF Hand
    <2>2. \/ op'[t].proxy = p /\ op'[t].pc # "unmatch"
          \/ op'[t].proxy = 0 /\ p \in unruly'
      BY <1>2, <1>18 DEF Hand, SetOp, NoOp, Operation
    <2>3. p \notin unruly' => ~HasRule(p)'
      BY <1>11, <2>1, <2>2 DEF OpSteps
    <2>4. \A x \in SignalProxies \ unruly' : HasRule(x)' => HasRule(x)
      BY <1>7, <1>8, <2>1, <2>2, <2>3, Proxies
    <2> QED
      BY <1>12, <1>13, <2>1, <2>4
  <1>19. CASE Match(t)
    <2> DEFINE r == RuleOf[p]
               more == [rules EXCEPT ![r] = @ + 1]
    <2>1. free' = free /\ members' = members /\ op'[t] = NoOp /\ op[t].pc = "match"
      BY <1>2, <1>19 DEF Match, SetOp
    <2>2. op'[t].proxy = 0 /\ p \in SignalProxies /\ r \in Rules
      BY <1>2, <2>1, Proxies DEF ProperOp, NoOp
    <2>3. ASSUME bound' \subseteq bound \cup {p}
          PROVE  \A x \in SignalProxies \ unruly' : x # p /\ HasRule(x)' => HasRule(x)
      BY <1>7, <1>8, <2>1, <2>2, <2>3, Proxies
    <2>4. CASE rules' = more /\ bound' \subseteq bound \cup {p}
      BY <1>3, <1>4, <2>2, <2>3, <2>4, RuleAdded
    <2>5. CASE rules' \in {rules, more} /\ bound' = bound /\ p \in unruly'
      <3>1. \A r1 \in Rules : rules'[r1] >= rules[r1]
        BY <1>4, <2>2, <2>5
      <3>2. \A x \in SignalProxies \ unruly' : HasRule(x)' => HasRule(x)
        BY <2>3, <2>5
      <3> QED
        BY <1>12, <3>1, <3>2
    <2>6. \/ rules' = more /\ bound' \subseteq bound \cup {p}
          \/ rules' \in {rules, more} /\ bound' = bound /\ p \in unruly'
      BY <1>19 DEF Match
    <2> QED
      BY <2>4, <2>5, <2>6
  <1>20. CASE Unmatch(t)
    <2> DEFINE r == RuleOf[p]
               less == [rules EXCEPT ![r] = @ - 1]
    <2>1. free' = free /\ members' = members /\ bound' = bound /\ op[t].pc = "unmatch"
      BY <1>20 DEF Unmatch
    <2>2. \/ op'[t].proxy = p /\ op'[t].pc = "erase"
          \/ op'[t].proxy = 0 /\ p \in unruly'
      BY <1>2, <1>20 DEF Unmatch, SetOp, NoOp, Operation
    <2>3. r \in Rules /\ p \in SignalProxies
      BY <1>10, <2>1, Proxies DEF OpSteps
    <2>4. \A x \in SignalProxies \ unruly' : HasRule(x)' => HasRule(x) /\ x # p
      <3>1. p \notin unruly' => ~HasRule(p)'
        BY <1>11, <2>1, <2>2 DEF OpSteps
      <3> QED
        BY <1>7, <1>8, <2>1, <2>2, <3>1, Proxies
    <2>5. CASE rules' = rules
      BY <1>12, <1>13, <2>4, <2>5
    <2>6. CASE rules' = less
      <3>1. Reliable(r)' => p \notin unruly' /\ Entries(p) # {} /\ p \in bound
        BY <1>20, <2>3 DEF Unmatch, Reliable
      <3>2. Reliable(r)' => HasRule(p) /\ ~HasRule(p)'
        BY <1>1, <2>1, <2>3, <2>4, <3>1 DEF HasRule
      <3> HIDE DEF r
      <3> QED
        BY <1>3, <1>4, <2>3, <2>4, <2>6, <3>2, RuleTakenBack DEF r
    <2> QED
      BY <1>20, <2>5, <2>6 DEF Unmatch
  <1>21. CASE EraseFree(t)
    <2> DEFINE I == Entries(op[t].proxy)
    <2>1. I \in SUBSET DOMAIN free /\ free \in Seq(Entry) /\ LosesFirst(free, I, free')
      BY <1>21 DEF EraseFree, Entries, PlacesType
    <2>2. TakenFrom(free', free, I)
      <3> HIDE DEF I
      <3> QED
        BY <2>1, LosesFirstElements
    <2>3. \A x : Entries(x) = {} => Entries(x)' = {}
      BY <2>2 DEF TakenFrom, Entries
    <2>4. /\ op[t].pc = "erase" /\ op'[t].proxy = p /\ op'[t].pc = "unhand"
          /\ members' = members /\ bound' = bound /\ rules' = rules
      BY <1>2, <1>21 DEF EraseFree, SetOp, Operation
    <2>5. ~HasRule(p)'
      BY <1>11, <2>4 DEF OpSteps
    <2>6. \A x \in SignalProxies \ unruly' : HasRule(x)' => HasRule(x)
      BY <1>7, <2>3, <2>4, <2>5
    <2> QED
      BY <1>12, <1>13, <2>4, <2>6
  <1>22. CASE EraseHandler(t)
    <2>1. /\ free' = free /\ members' = members /\ bound' = bound /\ rules' = rules /\ unruly' = unruly
          /\ op[t].pc = "unhand"
      BY <1>22 DEF EraseHandler
    <2>2. op'[t].proxy \in {p, 0} /\ op'[t].pc # "unmatch"
      BY <1>2, <1>22 DEF EraseHandler, SetOp, NoOp, Operation
    <2>3. p \notin unruly => ~HasRule(p)'
      <3>1. p \notin unruly => Entries(p) = {}
        BY <2>1 DEF EntryInv
      <3> QED
        BY <1>8, <1>10, <2>1, <3>1 DEF HasRule, OpSteps
    <2>4. \A x \in SignalProxies \ unruly' : HasRule(x)' => HasRule(x)
      BY <1>7, <1>8, <2>1, <2>2, <2>3, Proxies
    <2> QED
      BY <1>12, <1>13, <2>1, <2>4
  <1>23. ASSUME NEW y \in MemberProxies, AddSignal(t, y)
         PROVE  RuleInv'
    <2>1. /\ free' = free /\ members' = members \cup {y} /\ bound' = bound /\ rules' = rules
          /\ op[t].pc = "idle" /\ op'[t].proxy = y
      BY <1>2, <1>23 DEF AddSignal, SetOp, NoOp
    <2>2. ~HasRule(y)'
      BY <1>5, <2>1 DEF HasRule, InUse
    <2>3. \A x \in SignalProxies \ unruly' : HasRule(x)' => HasRule(x)
      BY <1>7, <1>8, <1>9, <2>1, <2>2
    <2> QED
      BY <1>12, <1>13, <2>1, <2>3
  <1>24. ASSUME NEW y \in MemberProxies, RemoveSignal(t, y)
         PROVE  RuleInv'
    <2>1. /\ free' = free /\ members' \subseteq members /\ bound' = bound /\ rules' = rules /\ op' = op
      BY <1>24 DEF RemoveSignal
    <2>2. \A x \in SignalProxies \ unruly' : HasRule(x)' => HasRule(x)
      BY <1>8, <2>1 DEF HasRule, InUse
    <2> QED
      BY <1>12, <1>13, <2>1, <2>2
  <1>25. ASSUME NEW thread \in {t, DispThread}, ChangeThread(t, thread)
         PROVE  RuleInv'
    <2>1. /\ free' = free /\ members' = members /\ bound' = bound /\ rules' = rules /\ op' = op
      BY <1>25 DEF ChangeThread
    <2>2. \A x \in SignalProxies \ unruly' : HasRule(x)' => HasRule(x)
      BY <1>8, <2>1 DEF HasRule, InUse
    <2> QED
      BY <1>12, <1>13, <2>1, <2>2
  <1> QED
    BY <1>15, <1>16, <1>17, <1>18, <1>19, <1>20, <1>21, <1>22, <1>23, <1>24, <1>25 DEF AppStep

-----------------------------------------------------------------------------
(* The signals on their way.                                                *)

Processing == current.pc # "idle"

(* A signal goes from the inbox to the dispatching thread, from there to    *)
(* the queue of Looper's dispatcher, and then to Looper: those that are     *)
(* further on came earlier.                                                 *)
OrderInv ==
    /\ \A i, j \in DOMAIN inbox : i < j => inbox[i] < inbox[j]
    /\ \A i, j \in DOMAIN queue : i < j => queue[i] < queue[j]
    /\ \A i \in DOMAIN inbox : inbox[i] > 0 /\ inbox[i] <= Len(rule)
    /\ Processing =>
         /\ current.signal > 0 /\ current.signal <= Len(rule)
         /\ \A i \in DOMAIN inbox : current.signal < inbox[i]
    /\ \A k \in DOMAIN queue :
         /\ queue[k] > 0 /\ queue[k] <= Len(rule)
         /\ Processing => queue[k] < current.signal
         /\ \A i \in DOMAIN inbox : queue[k] < inbox[i]
    /\ looping # 0 =>
         /\ looping <= Len(rule)
         /\ Processing => looping < current.signal
         /\ \A i \in DOMAIN inbox : looping < inbox[i]
         /\ \A k \in DOMAIN queue : looping < queue[k]

(* The free proxies still to call are entries of m_freeProxySignals, which  *)
(* is locked; the members are a copy.                                       *)
TodoInv ==
    /\ current.pc = "idle" => current.todo = {}
    /\ current.pc = "free" =>
         \A c \in current.todo : c.at \in DOMAIN free /\ c.proxy = free[c.at].handler
    /\ current.pc = "members" => \A c \in current.todo : c.at = 0 /\ c.proxy \in MemberProxies

(* The threads leave the signals where they are ... *)
LEMMA OrderKeptByApps ==
    ASSUME SignalsType, OrderInv, AppSteps
    PROVE  SignalsType' /\ OrderInv'
  BY AppFrame DEF SignalsType, OrderInv, Processing, signalling

(* ... and the list of the free proxies, while it is gone through. *)
LEMMA TodoKeptByApps ==
    ASSUME TodoInv, AppSteps
    PROVE  TodoInv'
  <1>1. current' = current
    BY AppFrame DEF signalling
  <1>2. current.pc = "free" => free' = free
    <2> PICK t \in Apps : AppStep(t)
      BY DEF AppSteps
    <2>1. CASE (\E p \in FreeProxies, thread \in {t, DispThread} : BeginAdd(t, p, thread))
               \/ (\E p \in FreeProxies : BeginRemove(t, p))
      BY <2>1 DEF BeginAdd, BeginRemove, registers
    <2>2. CASE Push(t) \/ Hand(t) \/ Match(t)
      BY <2>2 DEF Push, Hand, Match
    <2>3. CASE Unmatch(t) \/ EraseFree(t) \/ EraseHandler(t)
      BY <2>3 DEF Unmatch, EraseFree, EraseHandler
    <2>4. CASE (\E p \in MemberProxies : AddSignal(t, p) \/ RemoveSignal(t, p))
               \/ (\E thread \in {t, DispThread} : ChangeThread(t, thread))
      BY <2>4 DEF AddSignal, RemoveSignal, ChangeThread
    <2> QED
      BY <2>1, <2>2, <2>3, <2>4 DEF AppStep
  <1> QED
    BY <1>1, <1>2 DEF TodoInv

(* What a proxy that is called has handled then. *)
LEMMA HandlingElements ==
    ASSUME SignalsType, NEW ps, NEW s \in Nat, NEW t \in {Looper, DispThread},
           handled' = Handling(ps, s, t)
    PROVE  /\ handled' \in [SignalProxies -> Seq(Handled)]
           /\ \A p \in SignalProxies :
                \/ handled'[p] = handled[p]
                \/ p \in ps /\ handled'[p] = Append(handled[p], [thread |-> t, signal |-> s])
  <1> DEFINE e == [thread |-> t, signal |-> s]
  <1>1. e \in Handled
    BY DEF Handled
  <1> HIDE DEF e
  <1>2. \A p \in SignalProxies :
          /\ handled'[p] \in Seq(Handled)
          /\ \/ handled'[p] = handled[p]
             \/ p \in ps /\ handled'[p] = Append(handled[p], e)
    <2> SUFFICES ASSUME NEW p \in SignalProxies
                 PROVE  /\ handled'[p] \in Seq(Handled)
                        /\ \/ handled'[p] = handled[p]
                           \/ p \in ps /\ handled'[p] = Append(handled[p], e)
      OBVIOUS
    <2>1. \/ handled'[p] = handled[p]
          \/ p \in ps /\ handled'[p] = Append(handled[p], e)
      BY DEF Handling, e
    <2>2. handled[p] \in Seq(Handled)
      BY DEF SignalsType
    <2>3. Append(handled[p], e) \in Seq(Handled)
      BY <1>1, <2>2, AppendElements
    <2> QED
      BY <2>1, <2>2, <2>3
  <1>3. handled' \in [SignalProxies -> Seq(Handled)]
    BY <1>2 DEF Handling
  <1> QED
    BY <1>2, <1>3 DEF e

(* Each step of a signal leaves the types, ... *)
LEMMA SignalTypesKept ==
    ASSUME PlacesType, SignalsType, SignalSteps
    PROVE  SignalsType'
  <1>1. current.signal \in Nat /\ looping \in Nat /\ Looper \in {Looper, DispThread}
        /\ DispThread \in {Looper, DispThread}
    BY DEF SignalsType
  <1>2. ASSUME NEW r \in Rules, BusSends(r)
        PROVE  SignalsType'
    <2>1. rule' = Append(rule, r) /\ inbox' = Append(inbox, Len(rule'))
          /\ UNCHANGED <<queue, current, looping, handled>>
      BY <1>2 DEF BusSends, history
    <2>2. rule' \in Seq(Rules) /\ Len(rule') \in Nat
      BY <2>1, AppendElements DEF SignalsType
    <2>3. inbox' \in Seq(Nat)
      BY <2>1, <2>2, AppendElements DEF SignalsType
    <2> QED
      BY <2>1, <2>2, <2>3 DEF SignalsType
  <1>3. CASE StartSignal
    <2>1. inbox' \in Seq(Nat) /\ Head(inbox) \in Nat
      BY <1>3, TailElements DEF StartSignal, SignalsType
    <2>2. {[at |-> i, proxy |-> free[i].handler] : i \in {j \in DOMAIN free : free[j].thread = DispThread}}
            \subseteq Todo
      <3>1. \A i \in DOMAIN free : i \in Nat /\ free[i] \in Entry
        BY DEF PlacesType
      <3>2. \A i \in DOMAIN free : i \in Nat /\ free[i].handler \in SignalProxies
        BY <3>1, Proxies DEF Entry
      <3> QED
        BY <3>2 DEF Todo
    <2>3. current' \in [pc : {"idle", "free", "members"}, signal : Nat, todo : SUBSET Todo]
      BY <1>3, <2>1, <2>2 DEF StartSignal
    <2> QED
      BY <1>3, <2>1, <2>3 DEF StartSignal, SignalsType, history
  <1>4. ASSUME NEW phase \in {"free", "members"}, CallNext(phase)
        PROVE  SignalsType'
    <2>1. PICK c \in current.todo :
             /\ handled' = Handling({c.proxy}, current.signal, DispThread)
             /\ current' = [current EXCEPT !.todo = @ \ {c}]
      BY <1>4 DEF CallNext
    <2>2. handled' \in [SignalProxies -> Seq(Handled)]
      BY <1>1, <2>1, HandlingElements
    <2>3. current' \in [pc : {"idle", "free", "members"}, signal : Nat, todo : SUBSET Todo]
      BY <2>1 DEF SignalsType
    <2> QED
      BY <1>4, <2>2, <2>3 DEF CallNext, SignalsType
  <1>5. CASE CopyMembers
    <2>1. [at : {0}, proxy : members] \subseteq Todo
      BY Proxies DEF PlacesType, Todo
    <2>2. current' \in [pc : {"idle", "free", "members"}, signal : Nat, todo : SUBSET Todo]
      BY <1>5, <2>1 DEF CopyMembers, SignalsType
    <2> QED
      BY <1>5, <2>2 DEF CopyMembers, SignalsType, history
  <1>6. CASE Share
    <2>1. queue' \in Seq(Nat)
      BY <1>1, <1>6, AppendElements DEF Share, SignalsType
    <2>2. current' \in [pc : {"idle", "free", "members"}, signal : Nat, todo : SUBSET Todo]
      BY <1>6 DEF Share, NotProcessing
    <2> QED
      BY <1>6, <2>1, <2>2 DEF Share, SignalsType, history
  <1>7. CASE LoopTake
    <2>1. queue' \in Seq(Nat) /\ looping' \in Nat
      BY <1>7, TailElements DEF LoopTake, SignalsType
    <2> QED
      BY <1>7, <2>1 DEF LoopTake, SignalsType, history
  <1>8. CASE LoopCall
    <2>1. handled' \in [SignalProxies -> Seq(Handled)]
      BY <1>1, <1>8, HandlingElements DEF LoopCall
    <2> QED
      BY <1>8, <2>1 DEF LoopCall, SignalsType
  <1> QED
    BY <1>2, <1>3, <1>4, <1>5, <1>6, <1>7, <1>8 DEF SignalSteps, Dispatching, Looping, CallFree, CallMember

(* ... the order ...                                                        *)
LEMMA OrderKept ==
    ASSUME SignalsType, OrderInv, SignalSteps
    PROVE  OrderInv'
  <1>1. current.signal \in Nat /\ looping \in Nat
    BY DEF SignalsType
  <1>2. ASSUME NEW r \in Rules, BusSends(r)
        PROVE  OrderInv'
    <2>1. rule' = Append(rule, r) /\ inbox' = Append(inbox, Len(rule'))
          /\ UNCHANGED <<queue, current, looping>>
      BY <1>2 DEF BusSends
    <2>2. Len(rule') = Len(rule) + 1 /\ Len(rule) \in Nat
      BY <2>1, AppendElements DEF SignalsType
    <2>3. /\ DOMAIN inbox' = 1 .. Len(inbox) + 1 /\ DOMAIN inbox = 1 .. Len(inbox) /\ Len(inbox) \in Nat
          /\ \A i \in DOMAIN inbox : inbox'[i] = inbox[i] /\ inbox[i] \in Nat
          /\ inbox'[Len(inbox) + 1] = Len(rule) + 1
      BY <2>1, <2>2, AppendElements DEF SignalsType
    <2>4. \A k \in DOMAIN queue : queue[k] \in Nat
      BY DEF SignalsType
    <2>5. /\ \A i, j \in DOMAIN inbox' : i < j => inbox'[i] < inbox'[j]
          /\ \A i \in DOMAIN inbox' : inbox'[i] > 0 /\ inbox'[i] <= Len(rule')
      <3>1. \A i \in DOMAIN inbox' : i \in DOMAIN inbox \/ i = Len(inbox) + 1
        BY <2>3
      <3>2. \A i \in DOMAIN inbox : inbox'[i] > 0 /\ inbox'[i] <= Len(rule)
        BY <2>3 DEF OrderInv
      <3>3. \A i, j \in DOMAIN inbox : i < j => inbox'[i] < inbox'[j]
        BY <2>3 DEF OrderInv
      <3>4. \A i \in DOMAIN inbox' : inbox'[i] > 0 /\ inbox'[i] <= Len(rule')
        BY <2>2, <2>3, <3>1, <3>2
      <3>5. \A i, j \in DOMAIN inbox' : i < j => inbox'[i] < inbox'[j]
        <4> SUFFICES ASSUME NEW i \in DOMAIN inbox', NEW j \in DOMAIN inbox', i < j
                     PROVE  inbox'[i] < inbox'[j]
          OBVIOUS
        <4>1. i \in DOMAIN inbox
          BY <2>3, <3>1
        <4>2. CASE j \in DOMAIN inbox
          BY <3>3, <4>1, <4>2
        <4>3. CASE j = Len(inbox) + 1
          BY <2>2, <2>3, <3>2, <4>1, <4>3
        <4> QED
          BY <3>1, <4>2, <4>3
      <3> QED
        BY <3>4, <3>5
    <2>6. \A n \in Nat : (n <= Len(rule) /\ \A i \in DOMAIN inbox : n < inbox[i])
            => n <= Len(rule') /\ \A i \in DOMAIN inbox' : n < inbox'[i]
      BY <2>2, <2>3
    <2> QED
      BY <1>1, <2>1, <2>4, <2>5, <2>6 DEF OrderInv, Processing
  <1>3. CASE StartSignal
    <2>1. /\ inbox' = Tail(inbox) /\ inbox # <<>> /\ ~Processing /\ Processing'
          /\ current'.signal = Head(inbox)
          /\ UNCHANGED <<queue, rule, looping>>
      BY <1>3 DEF StartSignal, Processing
    <2>2. /\ Head(inbox) = inbox[1] /\ 1 \in DOMAIN inbox
          /\ \A i \in DOMAIN inbox' : i \in Nat /\ i >= 1 /\ i + 1 \in DOMAIN inbox /\ inbox'[i] = inbox[i + 1]
      BY <2>1, TailElements DEF SignalsType
    <2>3. \A i, j \in DOMAIN inbox' : i < j => inbox'[i] < inbox'[j]
      BY <2>2 DEF OrderInv
    <2>4. \A i \in DOMAIN inbox' : inbox'[i] > 0 /\ inbox'[i] <= Len(rule) /\ inbox[1] < inbox'[i]
      BY <2>2 DEF OrderInv
    <2>5. /\ \A k \in DOMAIN queue : queue[k] < inbox[1] /\ \A i \in DOMAIN inbox' : queue[k] < inbox'[i]
          /\ looping # 0 => looping < inbox[1] /\ \A i \in DOMAIN inbox' : looping < inbox'[i]
          /\ inbox[1] > 0 /\ inbox[1] <= Len(rule)
      BY <2>2 DEF OrderInv
    <2> QED
      BY <2>1, <2>2, <2>3, <2>4, <2>5 DEF OrderInv
  <1>4. CASE CallFree \/ CallMember \/ CopyMembers
    <2>1. current'.signal = current.signal /\ Processing /\ Processing'
          /\ UNCHANGED <<queue, inbox, rule, looping>>
      BY <1>4 DEF CallFree, CallMember, CallNext, CopyMembers, Processing, SignalsType
    <2> QED
      BY <2>1 DEF OrderInv
  <1>5. CASE Share
    <2>1. /\ queue' = Append(queue, current.signal) /\ looping = 0 /\ Processing /\ ~Processing'
          /\ UNCHANGED <<inbox, rule, looping>>
      BY <1>5 DEF Share, Processing, NotProcessing
    <2>2. /\ DOMAIN queue' = 1 .. Len(queue) + 1 /\ DOMAIN queue = 1 .. Len(queue) /\ Len(queue) \in Nat
          /\ \A i \in DOMAIN queue : queue'[i] = queue[i]
          /\ queue'[Len(queue) + 1] = current.signal
      BY <1>1, <2>1, AppendElements DEF SignalsType
    <2>3. \A i, j \in DOMAIN queue' : i < j => queue'[i] < queue'[j]
      BY <2>1, <2>2 DEF OrderInv
    <2>4. \A k \in DOMAIN queue' :
            queue'[k] > 0 /\ queue'[k] <= Len(rule) /\ \A i \in DOMAIN inbox : queue'[k] < inbox[i]
      BY <2>1, <2>2 DEF OrderInv
    <2> QED
      BY <2>1, <2>3, <2>4 DEF OrderInv
  <1>6. CASE LoopTake
    <2>1. /\ queue' = Tail(queue) /\ queue # <<>> /\ looping' = Head(queue)
          /\ UNCHANGED <<inbox, rule, current>> /\ (Processing' <=> Processing)
      BY <1>6 DEF LoopTake, Processing
    <2>2. /\ Head(queue) = queue[1] /\ 1 \in DOMAIN queue
          /\ \A i \in DOMAIN queue' : i \in Nat /\ i >= 1 /\ i + 1 \in DOMAIN queue /\ queue'[i] = queue[i + 1]
      BY <2>1, TailElements DEF SignalsType
    <2>3. /\ \A i, j \in DOMAIN queue' : i < j => queue'[i] < queue'[j]
          /\ \A i \in DOMAIN queue' : looping' < queue'[i]
      BY <2>1, <2>2 DEF OrderInv
    <2> QED
      BY <2>1, <2>2, <2>3 DEF OrderInv
  <1>7. CASE LoopCall
    BY <1>7 DEF LoopCall, OrderInv, Processing
  <1> QED
    BY <1>2, <1>3, <1>4, <1>5, <1>6, <1>7 DEF SignalSteps, Dispatching, Looping

(* ... and the proxies still to call.                                       *)
LEMMA TodoKept ==
    ASSUME PlacesType, SignalsType, TodoInv, SignalSteps
    PROVE  TodoInv'
  <1>1. free' = free
    BY SignalFrame DEF registers
  <1>2. CASE (\E r \in Rules : BusSends(r)) \/ LoopTake \/ LoopCall
    BY <1>1, <1>2 DEF BusSends, LoopTake, LoopCall, TodoInv
  <1>3. CASE StartSignal
    <2>1. /\ current'.pc = "free"
          /\ current'.todo = {[at |-> i, proxy |-> free[i].handler] :
                                i \in {j \in DOMAIN free : free[j].thread = DispThread}}
      BY <1>3 DEF StartSignal
    <2> QED
      BY <1>1, <2>1 DEF TodoInv
  <1>4. CASE CallFree \/ CallMember
    <2>1. current'.pc = current.pc /\ current'.todo \subseteq current.todo
      BY <1>4 DEF CallFree, CallMember, CallNext, SignalsType
    <2> QED
      BY <1>1, <2>1 DEF TodoInv
  <1>5. CASE CopyMembers
    <2>1. current'.pc = "members" /\ \A c \in current'.todo : c.at = 0 /\ c.proxy \in members
      BY <1>5 DEF CopyMembers, SignalsType
    <2> QED
      BY <2>1 DEF TodoInv, PlacesType
  <1>6. CASE Share
    BY <1>6 DEF Share, NotProcessing, TodoInv
  <1> QED
    BY <1>2, <1>3, <1>4, <1>5, <1>6 DEF SignalSteps, Dispatching, Looping

-----------------------------------------------------------------------------
(* What the proxies have handled.                                           *)

(* The dispatching thread has this proxy still to call for its signal. *)
Pending(p) == (\E c \in current.todo : c.proxy = p) \/ (current.pc = "free" /\ p \in MemberProxies)

(* A signal that a proxy has handled came before those that are to come to  *)
(* it on the same thread.                                                   *)
Past(p, e) ==
    /\ e.signal <= Len(rule)
    /\ \A k \in DOMAIN inbox : e.signal < inbox[k]
    /\ Processing => e.signal <= current.signal
    /\ (Processing /\ Pending(p) /\ p \notin unruly /\ e.thread = DispThread) => e.signal < current.signal
    /\ e.thread = Looper =>
         /\ \A k \in DOMAIN queue : e.signal < queue[k]
         /\ looping # 0 => e.signal < looping
         /\ Processing => e.signal < current.signal
PastInv == \A p \in SignalProxies : \A i \in DOMAIN handled[p] : Past(p, handled[p][i])

(* The proxies are not called. *)
LEMMA NobodyCalled ==
    ASSUME SignalsType, PastInv, HandledOnceInOrder, handled' = handled, unruly \subseteq unruly',
           \A p \in SignalProxies, e \in Handled : Past(p, e) => Past(p, e)'
    PROVE  PastInv' /\ HandledOnceInOrder'
  <1>1. HandledOnceInOrder'
    BY DEF HandledOnceInOrder
  <1>2. ASSUME NEW p \in SignalProxies, NEW i \in DOMAIN handled'[p], NEW e, e = handled'[p][i]
        PROVE  Past(p, e)'
    <2>1. e \in Handled /\ i \in DOMAIN handled[p] /\ e = handled[p][i]
      BY <1>2 DEF SignalsType
    <2>2. Past(p, e)
      BY <2>1 DEF PastInv
    <2> QED
      BY <2>1, <2>2
  <1>3. PastInv'
    BY <1>2 DEF PastInv
  <1> QED
    BY <1>1, <1>3

(* Some of the proxies are called for a signal that they have not handled   *)
(* on this thread.                                                          *)
LEMMA SomeCalled ==
    ASSUME SignalsType, PastInv, HandledOnceInOrder, unruly \subseteq unruly',
           NEW ps, NEW s \in Nat, NEW t \in {Looper, DispThread}, handled' = Handling(ps, s, t),
           \A p \in SignalProxies, e \in Handled : Past(p, e) => Past(p, e)',
           \A p \in SignalProxies : p \in ps => Past(p, [thread |-> t, signal |-> s])',
           \A p \in SignalProxies \ unruly', e \in Handled :
               (p \in ps /\ Past(p, e) /\ e.thread = t) => e.signal < s
    PROVE  PastInv' /\ HandledOnceInOrder'
  <1> PICK new : new = [thread |-> t, signal |-> s]
    OBVIOUS
  <1>1. new \in Handled
    BY DEF Handled
  <1>2. ASSUME NEW p \in SignalProxies
        PROVE  \/ handled'[p] = handled[p]
               \/ /\ p \in ps
                  /\ DOMAIN handled'[p] = 1 .. Len(handled[p]) + 1
                  /\ DOMAIN handled[p] = 1 .. Len(handled[p]) /\ Len(handled[p]) \in Nat
                  /\ \A i \in DOMAIN handled[p] : handled'[p][i] = handled[p][i]
                  /\ handled'[p][Len(handled[p]) + 1] = new
    <2>1. \/ handled'[p] = handled[p]
          \/ p \in ps /\ handled'[p] = Append(handled[p], new)
      BY HandlingElements
    <2>2. handled[p] \in Seq(Handled)
      BY DEF SignalsType
    <2>3. /\ DOMAIN Append(handled[p], new) = 1 .. Len(handled[p]) + 1
          /\ DOMAIN handled[p] = 1 .. Len(handled[p]) /\ Len(handled[p]) \in Nat
          /\ \A i \in DOMAIN handled[p] : Append(handled[p], new)[i] = handled[p][i]
          /\ Append(handled[p], new)[Len(handled[p]) + 1] = new
      BY <1>1, <2>2, AppendElements
    <2> QED
      BY <2>1, <2>3
  <1>3. \A p \in SignalProxies : \A i \in DOMAIN handled[p] :
          handled[p][i] \in Handled /\ Past(p, handled[p][i])
    BY DEF SignalsType, PastInv
  <1>4. ASSUME NEW p \in SignalProxies, NEW i \in DOMAIN handled'[p], NEW e, e = handled'[p][i]
        PROVE  Past(p, e)'
    <2>1. CASE i \in DOMAIN handled[p] /\ e = handled[p][i]
      BY <1>3, <2>1
    <2>2. CASE p \in ps /\ e = new
      BY <2>2
    <2> QED
      BY <1>2, <1>4, <2>1, <2>2
  <1>5. PastInv'
    BY <1>4 DEF PastInv
  <1>6. ASSUME NEW p \in SignalProxies \ unruly', NEW i \in DOMAIN handled'[p], NEW j \in DOMAIN handled'[p],
               i < j, handled'[p][i].thread = handled'[p][j].thread
        PROVE  handled'[p][i].signal < handled'[p][j].signal
    <2>1. \A k, l \in DOMAIN handled[p] :
            (k < l /\ handled[p][k].thread = handled[p][l].thread) => handled[p][k].signal < handled[p][l].signal
      BY DEF HandledOnceInOrder
    <2>2. CASE handled'[p] = handled[p]
      BY <1>6, <2>1, <2>2
    <2>3. CASE handled'[p] # handled[p]
      <3>1. /\ p \in ps
            /\ DOMAIN handled'[p] = 1 .. Len(handled[p]) + 1
            /\ DOMAIN handled[p] = 1 .. Len(handled[p]) /\ Len(handled[p]) \in Nat
            /\ \A k \in DOMAIN handled[p] : handled'[p][k] = handled[p][k]
            /\ handled'[p][Len(handled[p]) + 1] = new
        BY <1>2, <2>3
      <3>2. i \in DOMAIN handled[p]
        BY <1>6, <3>1
      <3>3. CASE j \in DOMAIN handled[p]
        BY <1>6, <2>1, <3>1, <3>2, <3>3
      <3>4. CASE j = Len(handled[p]) + 1
        <4>1. handled'[p][i] = handled[p][i] /\ handled'[p][j] = new /\ new.thread = t /\ new.signal = s
          BY <3>1, <3>2, <3>4
        <4>2. handled[p][i] \in Handled /\ Past(p, handled[p][i]) /\ handled[p][i].thread = t
          BY <1>3, <1>6, <3>2, <4>1
        <4> QED
          BY <3>1, <4>1, <4>2
      <3> QED
        BY <3>1, <3>3, <3>4
    <2> QED
      BY <2>2, <2>3
  <1>7. HandledOnceInOrder'
    BY <1>6 DEF HandledOnceInOrder
  <1> QED
    BY <1>5, <1>7

LEMMA PastKeptByApps ==
    ASSUME SignalsType, PastInv, HandledOnceInOrder, AppSteps
    PROVE  PastInv' /\ HandledOnceInOrder'
  <1>1. /\ UNCHANGED <<queue, inbox, rule, current, looping, handled>>
        /\ unruly \subseteq unruly'
    BY AppFrame DEF signalling
  <1>2. \A p \in SignalProxies, e \in Handled : Past(p, e) => Past(p, e)'
    BY <1>1 DEF Past, Pending, Processing
  <1> QED
    BY <1>1, <1>2, NobodyCalled

LEMMA PastKept ==
    ASSUME PlacesType, SignalsType, EntryInv, OrderInv, TodoInv, PastInv, HandledOnceInOrder, SignalSteps
    PROVE  PastInv' /\ HandledOnceInOrder'
  <1>1. unruly' = unruly
    BY SignalFrame
  <1>2. current.signal \in Nat /\ looping \in Nat /\ \A e \in Handled : e.signal \in Nat
    BY DEF SignalsType, Handled
  <1>3. ASSUME NEW r \in Rules, BusSends(r)
        PROVE  PastInv' /\ HandledOnceInOrder'
    <2>1. rule' = Append(rule, r) /\ inbox' = Append(inbox, Len(rule'))
          /\ UNCHANGED <<queue, current, looping, handled>>
      BY <1>3 DEF BusSends, history
    <2>2. Len(rule') = Len(rule) + 1 /\ Len(rule) \in Nat
      BY <2>1, AppendElements DEF SignalsType
    <2>3. /\ DOMAIN inbox' = 1 .. Len(inbox) + 1 /\ DOMAIN inbox = 1 .. Len(inbox) /\ Len(inbox) \in Nat
          /\ \A i \in DOMAIN inbox : inbox'[i] = inbox[i]
          /\ inbox'[Len(inbox) + 1] = Len(rule) + 1
      BY <2>1, <2>2, AppendElements DEF SignalsType
    <2>4. \A n \in Nat : (n <= Len(rule) /\ \A i \in DOMAIN inbox : n < inbox[i])
            => n <= Len(rule') /\ \A i \in DOMAIN inbox' : n < inbox'[i]
      BY <2>2, <2>3
    <2>5. \A p \in SignalProxies, e \in Handled : Past(p, e) => Past(p, e)'
      BY <1>1, <1>2, <2>1, <2>4 DEF Past, Pending, Processing
    <2> QED
      BY <1>1, <2>1, <2>5, NobodyCalled
  <1>4. CASE StartSignal
    <2>1. /\ inbox' = Tail(inbox) /\ inbox # <<>> /\ current'.signal = Head(inbox)
          /\ UNCHANGED <<queue, rule, looping, handled>>
      BY <1>4 DEF StartSignal, history
    <2>2. /\ Head(inbox) = inbox[1] /\ 1 \in DOMAIN inbox /\ inbox[1] \in Nat
          /\ \A i \in DOMAIN inbox' : i + 1 \in DOMAIN inbox /\ inbox'[i] = inbox[i + 1]
      BY <2>1, TailElements DEF SignalsType
    <2>3. \A p \in SignalProxies, e \in Handled : Past(p, e) => Past(p, e)'
      BY <1>2, <2>1, <2>2 DEF Past
    <2> QED
      BY <1>1, <2>1, <2>3, NobodyCalled
  <1>5. ASSUME NEW phase \in {"free", "members"}, CallNext(phase)
        PROVE  PastInv' /\ HandledOnceInOrder'
    <2>1. PICK c \in current.todo :
             /\ handled' = Handling({c.proxy}, current.signal, DispThread)
             /\ current' = [current EXCEPT !.todo = @ \ {c}]
      BY <1>5 DEF CallNext
    <2>2. /\ current.pc = phase /\ current'.pc = phase /\ current'.signal = current.signal
          /\ current'.todo = current.todo \ {c} /\ Processing /\ Processing'
          /\ current.todo \subseteq Todo
          /\ UNCHANGED <<queue, inbox, rule, looping>>
      BY <1>5, <2>1 DEF CallNext, SignalsType, Processing
    <2>3. \A p : Pending(p)' => Pending(p)
      BY <2>2 DEF Pending
    <2>4. \A p \in SignalProxies, e \in Handled : Past(p, e) => Past(p, e)'
      BY <1>1, <2>2, <2>3 DEF Past
    (* Nobody else that is still to be called is this proxy. *)
    <2>5. c.proxy \notin unruly => ~Pending(c.proxy)'
      <3> SUFFICES ASSUME c.proxy \notin unruly, NEW d \in current.todo, d # c, d.proxy = c.proxy
                   PROVE  FALSE
        <4>1. phase = "free" => c.proxy \notin MemberProxies
          <5> SUFFICES ASSUME phase = "free"
                       PROVE  c.proxy \in FreeProxies
            BY Proxies
          <5>1. c.at \in DOMAIN free /\ c.proxy = free[c.at].handler
            BY <2>2 DEF TodoInv
          <5>2. free[c.at] \in Entry
            BY <5>1 DEF PlacesType
          <5> QED
            BY <5>1, <5>2 DEF Entry
        <4> QED
          BY <2>2, <4>1 DEF Pending
      <3>1. c = [at |-> c.at, proxy |-> c.proxy] /\ d = [at |-> d.at, proxy |-> d.proxy]
        BY <2>2 DEF Todo
      <3>2. c.at = d.at
        BY <2>2 DEF TodoInv, EntryInv
      <3> QED
        BY <3>1, <3>2
    <2>6. PICK n : n = current.signal
      OBVIOUS
    <2>7. Past(c.proxy, [thread |-> DispThread, signal |-> n])'
      BY <1>1, <1>2, <2>2, <2>5, <2>6, SignalAssumption DEF Past, OrderInv
    <2>8. \A p \in SignalProxies \ unruly', e \in Handled :
            (p \in {c.proxy} /\ Past(p, e) /\ e.thread = DispThread) => e.signal < n
      BY <1>1, <2>2, <2>6 DEF Past, Pending
    <2>9. n \in Nat /\ DispThread \in {Looper, DispThread} /\ handled' = Handling({c.proxy}, n, DispThread)
      BY <1>2, <2>1, <2>6
    <2>10. \A p \in SignalProxies : p \in {c.proxy} => Past(p, [thread |-> DispThread, signal |-> n])'
      BY <2>7
    <2>11. unruly \subseteq unruly'
      BY <1>1
    <2> QED
      BY <2>4, <2>8, <2>9, <2>10, <2>11, SomeCalled
  <1>6. CASE CopyMembers
    <2>1. /\ current'.signal = current.signal /\ Processing /\ Processing' /\ current.pc = "free"
          /\ current'.pc = "members" /\ \A c \in current'.todo : c.proxy \in members
          /\ UNCHANGED <<queue, inbox, rule, looping, handled>>
      BY <1>6 DEF CopyMembers, SignalsType, Processing, history
    <2>2. \A p : Pending(p)' => Pending(p)
      BY <2>1 DEF Pending, PlacesType
    <2>3. \A p \in SignalProxies, e \in Handled : Past(p, e) => Past(p, e)'
      BY <1>1, <2>1, <2>2 DEF Past
    <2> QED
      BY <1>1, <2>1, <2>3, NobodyCalled
  <1>7. CASE Share
    <2>1. /\ queue' = Append(queue, current.signal) /\ Processing /\ ~Processing'
          /\ UNCHANGED <<inbox, rule, looping, handled>>
      BY <1>7 DEF Share, Processing, NotProcessing, history
    <2>2. /\ DOMAIN queue' = 1 .. Len(queue) + 1 /\ DOMAIN queue = 1 .. Len(queue) /\ Len(queue) \in Nat
          /\ \A i \in DOMAIN queue : queue'[i] = queue[i]
          /\ queue'[Len(queue) + 1] = current.signal
      BY <1>2, <2>1, AppendElements DEF SignalsType
    <2>3. \A p \in SignalProxies, e \in Handled : Past(p, e) => Past(p, e)'
      BY <1>1, <1>2, <2>1, <2>2 DEF Past
    <2> QED
      BY <1>1, <2>1, <2>3, NobodyCalled
  <1>8. CASE LoopTake
    <2>1. /\ queue' = Tail(queue) /\ queue # <<>> /\ looping' = Head(queue)
          /\ UNCHANGED <<inbox, rule, current, handled>>
      BY <1>8 DEF LoopTake, history
    <2>2. /\ Head(queue) = queue[1] /\ 1 \in DOMAIN queue
          /\ \A i \in DOMAIN queue' : i + 1 \in DOMAIN queue /\ queue'[i] = queue[i + 1]
      BY <2>1, TailElements DEF SignalsType
    <2>3. \A p \in SignalProxies, e \in Handled : Past(p, e) => Past(p, e)'
      BY <1>1, <2>1, <2>2 DEF Past, Pending, Processing
    <2> QED
      BY <1>1, <2>1, <2>3, NobodyCalled
  <1>9. CASE LoopCall
    <2>1. /\ handled' = Handling(ToSet(handlers), looping, Looper) /\ looping # 0 /\ looping' = 0
          /\ UNCHANGED <<queue, inbox, rule, current>>
      BY <1>9 DEF LoopCall
    <2>2. \A p \in SignalProxies, e \in Handled : Past(p, e) => Past(p, e)'
      BY <1>1, <2>1 DEF Past, Pending, Processing
    <2>3. PICK n : n = looping
      OBVIOUS
    <2>4. \A p \in SignalProxies : Past(p, [thread |-> Looper, signal |-> n])'
      BY <1>1, <1>2, <2>1, <2>3, SignalAssumption DEF Past, OrderInv, Processing
    <2>5. \A p \in SignalProxies, e \in Handled : (Past(p, e) /\ e.thread = Looper) => e.signal < n
      BY <2>1, <2>3 DEF Past
    <2>6. n \in Nat /\ Looper \in {Looper, DispThread} /\ handled' = Handling(ToSet(handlers), n, Looper)
      BY <1>2, <2>1, <2>3
    <2>7. unruly \subseteq unruly'
      BY <1>1
    <2> QED
      BY <2>2, <2>4, <2>5, <2>6, <2>7, SomeCalled
  <1> QED
    BY <1>3, <1>4, <1>5, <1>6, <1>7, <1>8, <1>9 DEF SignalSteps, Dispatching, Looping, CallFree, CallMember

-----------------------------------------------------------------------------
(* The invariant.                                                           *)

RegistryInv == PlacesType /\ OpInv /\ EntryInv /\ GoneInv /\ RuleInv
SignalInv == SignalsType /\ OrderInv /\ TodoInv /\ PastInv /\ HandledOnceInOrder
Inv == RegistryInv /\ SignalInv

(* It holds at first: nothing is registered and no signal has been sent. *)
LEMMA InvInit == SignalInit => Inv
  <1> SUFFICES ASSUME SignalInit
               PROVE  Inv
    OBVIOUS
  <1>1. /\ free = <<>> /\ handlers = <<>> /\ members = {} /\ bound = {} /\ gone = {} /\ unruly = {}
        /\ rules = [r \in Rules |-> 0] /\ op = [t \in Apps |-> NoOp]
    BY DEF SignalInit
  <1>2. /\ queue = <<>> /\ inbox = <<>> /\ rule = <<>> /\ looping = 0 /\ current = NotProcessing
        /\ handled = [p \in SignalProxies |-> <<>>]
    BY DEF SignalInit
  <1>3. PlacesType
    BY <1>1 DEF PlacesType, Operation, NoOp, OpSteps
  <1>4. OpInv
    BY <1>1 DEF OpInv, ProperOp, NoOp, OpSteps
  <1>5. EntryInv /\ GoneInv
    BY <1>1 DEF EntryInv, GoneInv, NoOp, Entries
  <1>6. RuleInv
    <2>1. \A r \in Rules : WithRule(r) = {} /\ rules[r] = 0
      BY <1>1 DEF WithRule, HasRule
    <2> QED
      BY <2>1, FS_EmptySet DEF RuleInv
  <1>7. SignalsType /\ OrderInv /\ TodoInv
    BY <1>2 DEF SignalsType, OrderInv, TodoInv, NotProcessing, Processing
  <1>8. PastInv /\ HandledOnceInOrder
    BY <1>2 DEF PastInv, HandledOnceInOrder
  <1> QED
    BY <1>3, <1>4, <1>5, <1>6, <1>7, <1>8 DEF Inv, RegistryInv, SignalInv

(* Each step leaves it. *)
LEMMA InvStep == Inv /\ [SignalNext]_signalVars => Inv'
  <1> SUFFICES ASSUME Inv, [SignalNext]_signalVars
               PROVE  Inv'
    OBVIOUS
  <1>1. CASE AppSteps
    <2>1. PICK t \in Apps : AppStep(t)
      BY <1>1 DEF AppSteps
    <2>2. RegistryInv'
      BY <2>1, PlacesKept, OpKept, EntryKept, GoneKept, RuleKept DEF Inv, RegistryInv
    <2>3. SignalInv'
      BY <1>1, OrderKeptByApps, TodoKeptByApps, PastKeptByApps DEF Inv, SignalInv
    <2> QED
      BY <2>2, <2>3 DEF Inv
  <1>2. CASE SignalSteps
    <2>1. UNCHANGED <<free, handlers, members, bound, rules, op, gone, unruly, stray>>
      BY <1>2, SignalFrame DEF registers
    <2>2. PlacesType' /\ OpInv'
      BY <2>1 DEF Inv, RegistryInv, PlacesType, OpInv, ProperOp
    <2>3. EntryInv' /\ GoneInv'
      BY <2>1 DEF Inv, RegistryInv, EntryInv, GoneInv, Entries, InUse
    <2>4. RuleInv'
      <3>1. \A x : HasRule(x)' = HasRule(x)
        BY <2>1 DEF HasRule, Entries, InUse
      <3>2. \A r : WithRule(r)' = WithRule(r)
        BY <3>1 DEF WithRule
      <3> QED
        BY <2>1, <3>2 DEF Inv, RegistryInv, RuleInv, Reliable
    <2>5. SignalInv'
      BY <1>2, SignalTypesKept, OrderKept, TodoKept, PastKept DEF Inv, RegistryInv, SignalInv
    <2> QED
      BY <2>2, <2>3, <2>4, <2>5 DEF Inv, RegistryInv
  <1>3. CASE UNCHANGED signalVars
    <2>1. UNCHANGED <<free, handlers, members, bound, rules, op, gone, unruly, stray>>
          /\ UNCHANGED <<queue, inbox, rule, looping, current, handled>>
      BY <1>3 DEF signalVars
    <2>2. PlacesType' /\ OpInv'
      BY <2>1 DEF Inv, RegistryInv, PlacesType, OpInv, ProperOp
    <2>3. EntryInv' /\ GoneInv'
      BY <2>1 DEF Inv, RegistryInv, EntryInv, GoneInv, Entries, InUse
    <2>4. RuleInv'
      <3>1. \A x : HasRule(x)' = HasRule(x)
        BY <2>1 DEF HasRule, Entries, InUse
      <3>2. \A r : WithRule(r)' = WithRule(r)
        BY <3>1 DEF WithRule
      <3> QED
        BY <2>1, <3>2 DEF Inv, RegistryInv, RuleInv, Reliable
    <2>5. SignalsType' /\ OrderInv' /\ TodoInv'
      BY <2>1 DEF Inv, SignalInv, SignalsType, OrderInv, TodoInv, Processing
    <2>6. PastInv' /\ HandledOnceInOrder'
      BY <2>1 DEF Inv, SignalInv, PastInv, Past, Pending, Processing, HandledOnceInOrder
    <2> QED
      BY <2>2, <2>3, <2>4, <2>5, <2>6 DEF Inv, RegistryInv, SignalInv
  <1> QED
    BY <1>1, <1>2, <1>3, StepKinds

LEMMA Invariance == SignalSpec => []Inv
  BY InvInit, InvStep, PTL DEF SignalSpec

-----------------------------------------------------------------------------
(* Each registered proxy has a rule of its own at the bus, so removing one  *)
(* of several proxies with equal rules leaves the signals of the others     *)
(* (add_free_signal_proxy, remove_free_signal_proxy, add_signal).           *)
THEOREM RulesAreKept == SignalSpec => []RulesKept
  <1>1. Inv => RulesKept
    <2> SUFFICES ASSUME Inv, NEW r \in Rules \ stray, \A p \in unruly : RuleOf[p] # r
                 PROVE  rules[r] >= Cardinality({p \in SignalProxies : Registered(p) /\ RuleOf[p] = r})
      BY DEF RulesKept
    <2> DEFINE A == WithRule(r)
               B == {p \in SignalProxies : Registered(p) /\ RuleOf[p] = r}
    <2>1. B \subseteq A
      BY DEF WithRule, HasRule, Registered, InUse
    <2>2. rules[r] >= Cardinality(A) /\ rules[r] \in Nat
      BY DEF Inv, RegistryInv, RuleInv, Reliable, PlacesType
    <2>3. IsFiniteSet(A) /\ Cardinality(A) \in Nat
      BY WithRuleFinite
    <2> HIDE DEF A, B
    <2>4. Cardinality(B) <= Cardinality(A) /\ Cardinality(B) \in Nat
      BY <2>1, <2>3, FS_Subset, FS_CardinalityType
    <2>5. rules[r] >= Cardinality(B)
      BY <2>2, <2>3, <2>4
    <2> QED
      BY <2>5 DEF B
  <1> QED
    BY <1>1, Invariance, PTL

(* A thread calls a proxy once for a signal and in the order in which the   *)
(* signals came (process_signal_message and the thread dispatchers), while  *)
(* proxies are added, removed and moved.                                    *)
THEOREM SignalsHandledOnceInOrder == SignalSpec => []HandledOnceInOrder
  <1>1. Inv => HandledOnceInOrder
    BY DEF Inv, SignalInv
  <1> QED
    BY <1>1, Invariance, PTL

(* After remove_free_signal_proxy has removed a free proxy it is not        *)
(* called, also not for the signals that wait for a thread dispatcher.      *)
THEOREM RemovedProxiesStayQuiet == SignalSpec => RemovedStaysQuiet
  <1>1. ASSUME Inv, [SignalNext]_signalVars, NEW p \in FreeProxies, p \in gone
        PROVE  handled'[p] = handled[p]
    <2>1. Entries(p) = {} /\ p \notin ToSet(handlers) /\ p \in SignalProxies
      BY <1>1, Proxies DEF Inv, RegistryInv, GoneInv, ToSet
    <2>2. handled \in [SignalProxies -> Seq(Handled)]
      BY <1>1 DEF Inv, SignalInv, SignalsType
    <2>3. CASE AppSteps
      BY <2>3, AppFrame
    <2>4. ASSUME NEW phase \in {"free", "members"}, CallNext(phase)
          PROVE  handled'[p] = handled[p]
      <3>1. PICK c \in current.todo : handled' = Handling({c.proxy}, current.signal, DispThread)
        BY <2>4 DEF CallNext
      <3>2. c.proxy # p
        BY <1>1, <2>1, <2>4, Proxies DEF CallNext, Inv, SignalInv, TodoInv, Entries
      <3> QED
        BY <2>1, <3>1, <3>2 DEF Handling
    <2>5. CASE LoopCall
      BY <2>1, <2>5 DEF LoopCall, Handling
    <2>6. CASE (\E r \in Rules : BusSends(r)) \/ StartSignal \/ CopyMembers \/ Share \/ LoopTake
      BY <2>6 DEF BusSends, StartSignal, CopyMembers, Share, LoopTake, history
    <2>7. CASE UNCHANGED signalVars
      BY <2>7 DEF signalVars
    <2> QED
      BY <1>1, <2>3, <2>4, <2>5, <2>6, <2>7, StepKinds DEF SignalSteps, Dispatching, Looping, CallFree, CallMember
  <1>2. Inv /\ [SignalNext]_signalVars =>
          [\A p \in FreeProxies : (p \in gone /\ ~raced) => handled'[p] = handled[p]]_signalVars
    BY <1>1
  <1> QED
    BY <1>2, Invariance, PTL DEF SignalSpec, RemovedStaysQuiet
=============================================================================
