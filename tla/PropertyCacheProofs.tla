------------------------- MODULE PropertyCacheProofs -------------------------
(***************************************************************************)
(* Invariance proofs for PropertyCache, for any number of client threads   *)
(* and any bounds.  The strengthening RealInv follows a value on its way   *)
(* from the owner to the copy: what the handler, the messages, the ended   *)
(* calls and the update in progress carry are values that the property     *)
(* had, and a return to a Set is only sent once its value is stored - which *)
(* needs that requests match the calls that wait for them, and this that   *)
(* serials are given out once.                                             *)
(***************************************************************************)
EXTENDS PropertyCache, TLAPS

(* What is in the sets of records, so that they need not be opened again.  *)
LEMMA MessageFields ==
    /\ \A m \in ServerMessages : /\ m.kind \in {"changed", "return", "error", "none"}
                                 /\ m.serial \in 0 .. MaxCalls /\ m.val \in Values
                                 /\ m.stale \in BOOLEAN
    /\ \A k \in {"changed", "return", "error", "none"}, n \in 0 .. MaxCalls, v \in Values,
          b \in BOOLEAN :
          [kind |-> k, serial |-> n, val |-> v, stale |-> b] \in ServerMessages
  BY DEF ServerMessages

LEMMA RequestFields ==
    /\ \A r \in Requests : r.op \in Ops /\ r.serial \in 0 .. MaxCalls /\ r.val \in Values
    /\ \A o \in Ops, n \in 0 .. MaxCalls, v \in Values :
          [op |-> o, serial |-> n, val |-> v] \in Requests
  BY DEF Requests

LEMMA CallFields ==
    \A c \in CallStates :
        /\ c.pc \in {"idle", "wait", "got"} /\ c.op \in Ops /\ c.serial \in 0 .. MaxCalls
        /\ c.val \in Values /\ c.stale \in BOOLEAN /\ c.passed \in BOOLEAN
  BY DEF CallStates

LEMMA ServerFields ==
    /\ \A s \in ServerStates :
        s.pc \in {"idle", "stored", "built", "answer", "error", "done"} /\ s.val \in Values
    /\ \A p \in {"idle", "stored", "built", "answer", "error", "done"}, v \in Values :
        [pc |-> p, val |-> v] \in ServerStates
  BY DEF ServerStates

(* Each step keeps the types. *)
LEMMA CacheTypeStep == CacheTypeOK /\ [CacheNext]_cacheVars => CacheTypeOK'
<1> SUFFICES ASSUME CacheTypeOK, [CacheNext]_cacheVars PROVE CacheTypeOK'
  OBVIOUS
<1> USE CacheAssumption
<1>0. 0 \in Values /\ 0 \in 0 .. MaxCalls /\ "owner" \in Servers /\ "handler" \in Servers
  BY DEF Values, Servers
<1>1. CASE OwnerSet
  BY <1>0, <1>1, ServerFields DEF OwnerSet, CacheTypeOK, ServerStep, clientVars, Values
<1>2. CASE Handle
  <2>1. Head(toServer) \in Requests /\ Tail(toServer) \in Seq(Requests)
    BY <1>2 DEF Handle, CacheTypeOK
  <2>2. request' \in Requests /\ toServer' \in Seq(Requests) /\ request'.val \in Values
    BY <1>2, <2>1, RequestFields DEF Handle
  <2>3. value' \in Values /\ been' \subseteq Values
    BY <1>2, <2>2 DEF Handle, CacheTypeOK
  <2>4. \E pc \in {"answer", "error", "stored"}, v \in Values : ServerStep("handler", pc, v)
    BY <1>0, <1>2 DEF Handle, CacheTypeOK
  <2>5. server' \in [Servers -> ServerStates]
    BY <1>0, <2>4, ServerFields DEF ServerStep, CacheTypeOK
  <2> QED
    BY <1>2, <2>2, <2>3, <2>5 DEF Handle, CacheTypeOK, clientVars
<1>3. CASE Answer
  <2>1. server["handler"].val \in Values /\ request.serial \in 0 .. MaxCalls
    BY <1>0, ServerFields, RequestFields DEF CacheTypeOK
  <2>2. (server["handler"].pc = "answer" /\ server["handler"].val # value) \in BOOLEAN
    BY Zenon
  <2>3. toClient' \in Seq(ServerMessages)
    <3> DEFINE M == [kind |-> IF server["handler"].pc = "error" THEN "error" ELSE "return",
                     serial |-> request.serial, val |-> server["handler"].val,
                     stale |-> server["handler"].pc = "answer" /\ server["handler"].val # value]
    <3>1. M \in ServerMessages
      BY <2>1, <2>2, MessageFields
    <3>2. toClient' = Append(toClient, M)
      BY <1>3, Zenon DEF Answer
    <3> HIDE DEF M
    <3> QED
      BY <3>1, <3>2 DEF CacheTypeOK
  <2>4. server' \in [Servers -> ServerStates]
    BY <1>0, <1>3, ServerFields DEF Answer, ServerStep, CacheTypeOK
  <2> QED
    BY <1>3, <2>3, <2>4 DEF Answer, CacheTypeOK, clientVars
<1>4. ASSUME NEW s \in Servers, Build(s) PROVE CacheTypeOK'
  BY <1>0, <1>4, ServerFields DEF Build, CacheTypeOK, ServerStep, clientVars
<1>5. ASSUME NEW s \in Servers, Emit(s) PROVE CacheTypeOK'
  <2>1. server[s].val \in Values
    BY ServerFields DEF CacheTypeOK
  <2>2. Signal(server[s].val) \in ServerMessages
    BY <1>0, <2>1, MessageFields DEF Signal
  <2> QED
    BY <1>0, <1>5, <2>2, ServerFields DEF Emit, CacheTypeOK, ServerStep, clientVars
<1>6. ASSUME NEW t \in Threads, VariantValue(t) PROVE CacheTypeOK'
  <2>1. serial + 1 \in 0 .. MaxCalls
    BY <1>6 DEF VariantValue, Free, CacheTypeOK
  <2>2. call' \in [Threads -> CallStates]
    BY <1>0, <1>6, <2>1 DEF VariantValue, Ask, CacheTypeOK, CallStates, NoCall, Ops
  <2>3. toServer' \in Seq(Requests)
    BY <1>0, <1>6, <2>1, RequestFields DEF VariantValue, Ask, CacheTypeOK, Ops
  <2> QED
    BY <1>6, <2>1, <2>2, <2>3 DEF VariantValue, Ask, askVars, serverVars, CacheTypeOK
<1>7. ASSUME NEW t \in Threads, SetValue(t) PROVE CacheTypeOK'
  <2>1. serial + 1 \in 0 .. MaxCalls /\ made + 1 \in Values
    BY <1>7 DEF SetValue, Free, CacheTypeOK, Values
  <2>2. CASE known
    <3>0. Ask(t, "Set", made + 1) /\ UNCHANGED crashed
      BY <1>7, <2>2, Zenon DEF SetValue
    <3>1. call' \in [Threads -> CallStates]
      BY <1>0, <2>1, <3>0 DEF Ask, CacheTypeOK, CallStates, NoCall, Ops
    <3>2. toServer' \in Seq(Requests)
      BY <1>0, <2>1, <3>0, RequestFields DEF Ask, CacheTypeOK, Ops
    <3>3. serial' \in 0 .. MaxCalls
      BY <2>1, <3>0 DEF Ask
    <3>4. UNCHANGED askVars /\ made' = made + 1
      BY <1>7 DEF SetValue
    <3> QED
      BY <2>1, <3>0, <3>1, <3>2, <3>3, <3>4 DEF askVars, serverVars, CacheTypeOK
  <2>3. CASE ~known
    BY <1>7, <2>1, <2>3 DEF SetValue, askVars, serverVars, CacheTypeOK
  <2> QED
    BY <2>2, <2>3
<1>8. ASSUME NEW t \in Threads, CacheProperties(t) PROVE CacheTypeOK'
  <2>1. serial + 1 \in 0 .. MaxCalls
    BY <1>8 DEF CacheProperties, Free, CacheTypeOK
  <2>2. call' \in [Threads -> CallStates]
    BY <1>0, <1>8, <2>1 DEF CacheProperties, Ask, CacheTypeOK, CallStates, NoCall, Ops
  <2>3. toServer' \in Seq(Requests)
    BY <1>0, <1>8, <2>1, RequestFields DEF CacheProperties, Ask, CacheTypeOK, Ops
  <2> QED
    BY <1>8, <2>1, <2>2, <2>3 DEF CacheProperties, Ask, askVars, serverVars, CacheTypeOK
<1>9. NoCall \in CallStates
  BY <1>0 DEF NoCall, CallStates, Ops
<1>10. ASSUME NEW t \in Threads, TimeOut(t) PROVE CacheTypeOK'
  BY <1>9, <1>10 DEF TimeOut, serverVars, CacheTypeOK
<1>11. ASSUME NEW t \in Threads, Store(t) PROVE CacheTypeOK'
  <2>1. call[t].val \in Values /\ call[t].stale \in BOOLEAN /\ call[t].passed \in BOOLEAN
    BY CallFields DEF CacheTypeOK
  <2>2. (call[t].stale \/ call[t].passed) \in BOOLEAN
    BY Zenon
  <2>3. /\ cache' \in Values /\ valueSet' \in BOOLEAN /\ late' \in BOOLEAN
        /\ crashed' \in BOOLEAN
    <3>1. CASE call[t].op = "Get"
      BY <1>11, <2>1, <2>2, <3>1 DEF Store, Update, CacheTypeOK
    <3>2. CASE call[t].op = "Set"
      BY <1>11, <2>1, <3>2 DEF Store, Update, CacheTypeOK
    <3>3. CASE call[t].op = "GetAll"
      BY <1>11, <2>1, <2>2, <3>3 DEF Store, Update, CacheTypeOK
    <3> QED
      BY <1>11, <3>1, <3>2, <3>3 DEF Store
  <2> QED
    BY <1>9, <1>11, <2>3 DEF Store, serverVars, CacheTypeOK
<1>12. ASSUME NEW c \in CallStates, NEW m \in ServerMessages PROVE Received(c, m) \in CallStates
  <2>1. CASE m.kind = "error"
    BY <1>9, <2>1 DEF Received
  <2>2. CASE m.kind # "error"
    BY <2>2, MessageFields, CallFields DEF Received, CallStates
  <2> QED
    BY <2>1, <2>2
<1>13. CASE ReadUntilReply
  <2>1. Head(toClient) \in ServerMessages /\ Tail(toClient) \in Seq(ServerMessages)
    BY <1>13 DEF ReadUntilReply, CacheTypeOK
  <2>2. call' \in [Threads -> CallStates] /\ aside' \in Seq(ServerMessages)
    BY <1>12, <1>13, <2>1 DEF ReadUntilReply, CacheTypeOK, Threads
  <2> QED
    BY <1>13, <2>1, <2>2 DEF ReadUntilReply, serverVars, CacheTypeOK
<1>14. CASE Dispatch
  <2>1. /\ Head(aside \o toClient) \in ServerMessages
        /\ toClient' \in Seq(ServerMessages) /\ aside' \in Seq(ServerMessages)
    <3>0. aside \o toClient \in Seq(ServerMessages) /\ aside \o toClient # <<>>
      BY <1>14 DEF Dispatch, CacheTypeOK
    <3>1. CASE aside # <<>>
      <4>1. aside' = Tail(aside) /\ toClient' = toClient
        BY <1>14, <3>1, Zenon DEF Dispatch
      <4> QED
        BY <3>0, <3>1, <4>1 DEF CacheTypeOK
    <3>2. CASE aside = <<>>
      <4>1. aside \o toClient = toClient
        BY <3>2 DEF CacheTypeOK
      <4>2. toClient' = Tail(toClient) /\ aside' = aside
        BY <1>14, <3>2, Zenon DEF Dispatch
      <4> QED
        BY <3>0, <4>1, <4>2 DEF CacheTypeOK
    <3> QED
      BY <3>1, <3>2
  <2>2. call' \in [Threads -> CallStates]
    BY <1>12, <1>14, <2>1 DEF Dispatch, CacheTypeOK
  <2>3. updating' \in [pc : {"idle", "enter", "find", "apply"}, msg : ServerMessages]
    BY <1>14, <2>1 DEF Dispatch, CacheTypeOK
  <2> QED
    BY <1>14, <2>1, <2>2, <2>3 DEF Dispatch, serverVars, CacheTypeOK
<1>15. CASE Enter
  BY <1>15 DEF Enter, Goto, updateVars, serverVars, CacheTypeOK
<1>16. CASE Find
  BY <1>16 DEF Find, Goto, updateVars, serverVars, CacheTypeOK
<1>17. CASE Apply
  <2>1. updating.msg \in ServerMessages
    BY DEF CacheTypeOK
  <2>2. updating.msg.val \in Values /\ updating.msg.stale \in BOOLEAN
    BY <2>1, MessageFields
  <2>3. \A c \in CallStates, b \in BOOLEAN : [c EXCEPT !.passed = b] \in CallStates
    BY DEF CallStates
  <2>4. \A t \in Threads : [call[t] EXCEPT !.passed = Passes(updating.msg, call[t])] \in CallStates
    <3>1. \A t \in Threads : Passes(updating.msg, call[t]) \in BOOLEAN
      BY <2>2, Zenon DEF Passes
    <3> QED
      BY <2>3, <3>1, Zenon DEF CacheTypeOK
  <2>5. call' \in [Threads -> CallStates]
    BY <1>17, <2>4 DEF Apply, CacheTypeOK
  <2> QED
    BY <1>17, <2>2, <2>5 DEF Apply, Update, Goto, updateVars, serverVars, CacheTypeOK
<1>18. CASE AddProperty
  BY <1>18 DEF AddProperty, editVars, serverVars, CacheTypeOK
<1>19. CASE RemoveProperty
  BY <1>19 DEF RemoveProperty, editVars, serverVars, CacheTypeOK
<1>20. CASE WriterLock
  BY <1>20 DEF WriterLock, editVars, serverVars, CacheTypeOK
<1>21. CASE WriterUnlock
  BY <1>21 DEF WriterUnlock, editVars, serverVars, CacheTypeOK
<1>22. CASE UNCHANGED cacheVars
  BY <1>22 DEF cacheVars, serverVars, clientVars, CacheTypeOK
<1> HIDE CacheAssumption
<1> QED
  BY <1>1, <1>2, <1>3, <1>4, <1>5, <1>6, <1>7, <1>8, <1>10, <1>11, <1>13, <1>14, <1>15, <1>16,
     <1>17, <1>18, <1>19, <1>20, <1>21, <1>22
  DEF CacheNext, ServerNext, CallerNext, DispatcherNext, WriterNext

LEMMA CacheTypeInit == CacheInit => CacheTypeOK
<1> SUFFICES ASSUME CacheInit PROVE CacheTypeOK
  OBVIOUS
<1> USE CacheAssumption
<1>1. 0 \in Values /\ 0 \in 0 .. MaxCalls /\ 0 \in 0 .. MaxEdits
  BY DEF Values
<1>2. access \in {"ReadOnly", "ReadWrite", "WriteOnly"} /\ update \in {"Const", "Updates"}
  BY DEF CacheInit
<1>3. NoCall \in CallStates /\ NoMessage \in ServerMessages /\ Idle \in ServerStates
  BY <1>1 DEF NoCall, NoMessage, Idle, CallStates, ServerMessages, ServerStates, Ops
<1>4. request \in Requests
  BY <1>1, RequestFields DEF CacheInit, Ops
<1>5. /\ server \in [Servers -> ServerStates] /\ call \in [Threads -> CallStates]
      /\ updating \in [pc : {"idle", "enter", "find", "apply"}, msg : ServerMessages]
  BY <1>3 DEF CacheInit
<1>6. /\ toServer \in Seq(Requests) /\ toClient \in Seq(ServerMessages)
      /\ aside \in Seq(ServerMessages)
  BY DEF CacheInit
<1>7. /\ valueSet \in BOOLEAN /\ late \in BOOLEAN /\ known \in BOOLEAN /\ crashed \in BOOLEAN
      /\ writer = "idle" /\ edits = 0 /\ serial = 0 /\ made = 0 /\ cache = 0
      /\ value = 0 /\ been = {0}
  BY DEF CacheInit
<1> QED
  BY <1>1, <1>2, <1>4, <1>5, <1>6, <1>7 DEF CacheTypeOK

(* Type correctness of the property and its cached copy. *)
THEOREM CacheTypeCorrect == CacheSpec => []CacheTypeOK
  BY CacheTypeInit, CacheTypeStep, PTL DEF CacheSpec

-----------------------------------------------------------------------------
(* The copy is a value that the property had.                              *)

Items(s) == {s[i] : i \in DOMAIN s}

LEMMA AppendItems ==
    ASSUME NEW S, NEW s \in Seq(S), NEW e \in S
    PROVE  Items(Append(s, e)) = Items(s) \cup {e}
<1>1. Append(s, e) \in Seq(S) /\ DOMAIN Append(s, e) = 1 .. Len(s) + 1 /\ DOMAIN s = 1 .. Len(s)
  OBVIOUS
<1>2. \A i \in 1 .. Len(s) + 1 : Append(s, e)[i] = IF i <= Len(s) THEN s[i] ELSE e
  OBVIOUS
<1> QED
  BY <1>1, <1>2 DEF Items

LEMMA TailItems ==
    ASSUME NEW S, NEW s \in Seq(S), s # <<>>
    PROVE  Items(Tail(s)) \subseteq Items(s) /\ Head(s) \in Items(s)
<1>1. DOMAIN Tail(s) = 1 .. Len(s) - 1 /\ DOMAIN s = 1 .. Len(s) /\ Len(s) \in Nat \ {0}
  OBVIOUS
<1>2. \A i \in 1 .. Len(s) - 1 : Tail(s)[i] = s[i + 1]
  OBVIOUS
<1> QED
  BY <1>1, <1>2 DEF Items

InFlight == Items(toClient) \cup Items(aside)
Busy == server["handler"].pc # "idle"

(* No message has a serial that is still to be given out. *)
SerialsGiven ==
    /\ \A r \in Items(toServer) : r.serial <= serial
    /\ request.serial <= serial
    /\ \A m \in InFlight : m.serial <= serial
    /\ \A t \in Threads : call[t].serial <= serial

(* A request that is on its way is what the call that waits for it asks. *)
Asks(r) == \A t \in Threads :
    (call[t].pc = "wait" /\ call[t].serial = r.serial) => (call[t].op = r.op /\ call[t].val = r.val)
RequestsMatch ==
    /\ \A r \in Items(toServer) : Asks(r)
    /\ Busy => Asks(request)

(* The handler is past storing the value of a Set, or answers another call. *)
HandlerReal ==
    /\ server["handler"].pc \in {"stored", "built", "done"}
           => request.op = "Set" /\ request.val \in been
    /\ server["handler"].pc = "answer" => request.op # "Set"

(* A message has a value that the property had; if it returns from a Set    *)
(* that somebody waits for, so has the call.                                *)
Granted(m) == \A t \in Threads :
    (call[t].pc = "wait" /\ call[t].serial = m.serial /\ call[t].op = "Set") => call[t].val \in been
MessagesReal ==
    /\ \A m \in InFlight : m.val \in been /\ (m.kind = "return" => Granted(m))
    /\ updating.msg.val \in been

ValuesReal ==
    /\ 0 \in been /\ value \in been /\ cache \in been
    /\ \A s \in Servers : server[s].val \in been
    /\ \A t \in Threads : call[t].pc = "got" => call[t].val \in been

RealInv == SerialsGiven /\ RequestsMatch /\ HandlerReal /\ MessagesReal /\ ValuesReal

LEMMA RealInit == CacheInit => RealInv
<1> SUFFICES ASSUME CacheInit PROVE RealInv
  OBVIOUS
<1>1. Items(toServer) = {} /\ InFlight = {}
  BY DEF CacheInit, InFlight, Items
<1> QED
  BY <1>1 DEF CacheInit, RealInv, SerialsGiven, RequestsMatch, HandlerReal, MessagesReal, ValuesReal,
     Busy, Idle, NoCall, NoMessage, Servers

(* The steps of the owner's side. *)
LEMMA ServerReal == CacheTypeOK /\ CacheTypeOK' /\ RealInv /\ ServerNext => RealInv'
<1> SUFFICES ASSUME CacheTypeOK, CacheTypeOK', RealInv, ServerNext PROVE RealInv'
  OBVIOUS
<1> USE DEF RealInv
<1>0. "owner" \in Servers /\ "handler" \in Servers /\ "owner" # "handler"
  BY DEF Servers
<1>1. CASE OwnerSet
  <2>1. /\ been \subseteq been' /\ value' \in been'
        /\ UNCHANGED <<request, toServer, toClient, aside, call, serial, updating, cache>>
        /\ server'["handler"] = server["handler"]
        /\ \A s \in Servers : server'[s].val \in {server[s].val, 0}
    BY <1>0, <1>1 DEF OwnerSet, ServerStep, CacheTypeOK, clientVars
  <2> QED
    BY <1>0, <2>1 DEF SerialsGiven, RequestsMatch, HandlerReal, MessagesReal, ValuesReal, InFlight,
       Busy, Asks, Granted
<1>2. CASE Handle
  <2>1. Items(Tail(toServer)) \subseteq Items(toServer) /\ Head(toServer) \in Items(toServer)
    BY <1>2, TailItems DEF Handle, CacheTypeOK
  <2>2. /\ UNCHANGED <<toClient, aside, call, serial, updating, cache>>
        /\ request' = Head(toServer) /\ toServer' = Tail(toServer)
        /\ been \subseteq been' /\ value' \in been'
    BY <1>2 DEF Handle, clientVars, ValuesReal
  <2>3. \E pc \in {"answer", "error", "stored"}, v \in been :
            /\ ServerStep("handler", pc, v)
            /\ pc = "stored" => request'.op = "Set" /\ request'.val \in been'
            /\ pc = "answer" => request'.op # "Set"
    BY <1>2 DEF Handle, ValuesReal
  <2>4. /\ server'["handler"].pc \in {"answer", "error", "stored"}
        /\ server'["handler"].pc = "stored" => request'.op = "Set" /\ request'.val \in been'
        /\ server'["handler"].pc = "answer" => request'.op # "Set"
        /\ \A s \in Servers : server'[s].val \in been'
    BY <1>0, <2>2, <2>3 DEF ServerStep, CacheTypeOK, ValuesReal
  <2>5. SerialsGiven'
    BY <2>1, <2>2 DEF SerialsGiven, InFlight
  <2>6. RequestsMatch'
    BY <2>1, <2>2 DEF RequestsMatch, Asks
  <2>7. HandlerReal'
    BY <2>4 DEF HandlerReal
  <2>8. MessagesReal' /\ ValuesReal'
    BY <2>2, <2>4 DEF MessagesReal, ValuesReal, InFlight, Granted
  <2> QED
    BY <2>5, <2>6, <2>7, <2>8
<1>3. CASE Answer
  <2> DEFINE h == server["handler"]
             m == [kind |-> IF h.pc = "error" THEN "error" ELSE "return",
                   serial |-> request.serial, val |-> h.val,
                   stale |-> h.pc = "answer" /\ h.val # value]
  <2>1. toClient' = Append(toClient, m) /\ h.pc \in {"answer", "error", "done"}
    BY <1>3, Zenon DEF Answer
  <2>2. /\ UNCHANGED <<been, value, request, toServer, aside, call, serial, updating, cache>>
        /\ ServerStep("handler", "idle", 0)
    BY <1>3 DEF Answer, clientVars
  <2>3. /\ server'["handler"].pc = "idle"
        /\ \A s \in Servers : server'[s].val \in {server[s].val, 0}
    BY <1>0, <2>2 DEF ServerStep, CacheTypeOK
  <2>4. m.val \in been /\ m.serial <= serial /\ (m.kind = "return" => Granted(m))
    BY <1>0, <2>1 DEF SerialsGiven, RequestsMatch, HandlerReal, ValuesReal, Busy, Asks, Granted
  <2> HIDE DEF m
  <2>5. InFlight' = InFlight \cup {m}
    <3>1. m \in ServerMessages
      BY <2>1, MessageFields, ServerFields, RequestFields DEF CacheTypeOK
    <3> QED
      BY <2>1, <2>2, <3>1, AppendItems DEF InFlight, CacheTypeOK
  <2> QED
    BY <2>2, <2>3, <2>4, <2>5 DEF SerialsGiven, RequestsMatch, HandlerReal, MessagesReal, ValuesReal,
       Busy, Asks, Granted
<1>4. ASSUME NEW s \in Servers, Build(s) PROVE RealInv'
  <2>1. /\ UNCHANGED <<been, value, request, toServer, toClient, aside, call, serial, updating, cache>>
        /\ server[s].pc = "stored" /\ ServerStep(s, "built", value)
    BY <1>4 DEF Build, clientVars
  <2>2. /\ server'["handler"].pc \in {server["handler"].pc, "built"}
        /\ server'["handler"].pc # server["handler"].pc => server["handler"].pc = "stored"
        /\ \A u \in Servers : server'[u].val \in {server[u].val, value}
    BY <1>0, <2>1 DEF ServerStep, CacheTypeOK
  <2> QED
    BY <2>1, <2>2 DEF SerialsGiven, RequestsMatch, HandlerReal, MessagesReal, ValuesReal, InFlight,
       Busy, Asks, Granted
<1>5. ASSUME NEW s \in Servers, Emit(s) PROVE RealInv'
  <2> DEFINE m == Signal(server[s].val)
  <2>1. /\ UNCHANGED <<been, value, request, toServer, aside, call, serial, updating, cache>>
        /\ toClient' = Append(toClient, m) /\ server[s].pc = "built"
        /\ ServerStep(s, IF s = "owner" THEN "idle" ELSE "done", 0)
    BY <1>5 DEF Emit, clientVars
  <2>2. m.val \in been /\ m.kind = "changed" /\ m.serial = 0
    BY DEF ValuesReal, Signal
  <2>3. m \in ServerMessages
    <3>1. 0 \in 0 .. MaxCalls
      BY CacheAssumption
    <3> QED
      BY <3>1, MessageFields, ServerFields DEF Signal, CacheTypeOK
  <2> HIDE DEF m
  <2>4. InFlight' = InFlight \cup {m}
    BY <2>1, <2>3, AppendItems DEF InFlight, CacheTypeOK
  <2>5. /\ server'["handler"].pc \in {server["handler"].pc, "done"}
        /\ server'["handler"].pc # server["handler"].pc => server["handler"].pc = "built"
        /\ \A u \in Servers : server'[u].val \in {server[u].val, 0}
    BY <1>0, <2>1 DEF ServerStep, CacheTypeOK, Servers
  <2>6. 0 <= serial
    BY DEF CacheTypeOK
  <2> QED
    BY <2>1, <2>2, <2>4, <2>5, <2>6 DEF SerialsGiven, RequestsMatch, HandlerReal, MessagesReal,
       ValuesReal, Busy, Asks, Granted
<1> QED
  BY <1>1, <1>2, <1>3, <1>4, <1>5 DEF ServerNext

(* A new call has a serial of its own. *)
LEMMA AskReal ==
    ASSUME CacheTypeOK, CacheTypeOK', RealInv, NEW t \in Threads, NEW op \in Ops, NEW val \in Values,
           Ask(t, op, val), UNCHANGED askVars
    PROVE  RealInv'
<1> USE DEF RealInv
<1> DEFINE r == [op |-> op, serial |-> serial + 1, val |-> val]
           c == [NoCall EXCEPT !.pc = "wait", !.op = op, !.serial = serial + 1, !.val = val]
<1>1. /\ toServer' = Append(toServer, r) /\ serial' = serial + 1
      /\ call' = [call EXCEPT ![t] = c]
      /\ UNCHANGED <<value, been, server, request, toClient, cache, aside, updating>>
  BY DEF Ask, askVars, serverVars
<1>2. r \in Requests /\ serial \in Nat
  BY <1>1, RequestFields DEF CacheTypeOK
<1>3. Items(toServer)' = Items(toServer) \cup {r}
  BY <1>1, <1>2, AppendItems DEF CacheTypeOK
<1>4. c.pc = "wait" /\ c.op = op /\ c.serial = serial + 1 /\ c.val = val
  BY DEF NoCall
<1>5. r.op = op /\ r.serial = serial + 1 /\ r.val = val
  OBVIOUS
<1> HIDE DEF r, c
<1>6. call'[t] = c /\ \A u \in Threads \ {t} : call'[u] = call[u]
  BY <1>1 DEF CacheTypeOK
<1>7. /\ \A q \in Items(toServer) : q.serial \in Int /\ q.serial < serial + 1
      /\ \A m \in InFlight : m.serial \in Int /\ m.serial < serial + 1
      /\ request.serial \in Int /\ request.serial < serial + 1
      /\ \A u \in Threads : call[u].serial \in Int /\ call[u].serial < serial + 1
  <2>1. /\ \A q \in Items(toServer) : q.serial \in Int
        /\ \A m \in InFlight : m.serial \in Int
    BY RequestFields, MessageFields DEF CacheTypeOK, Items, InFlight
  <2>2. request.serial \in Int /\ \A u \in Threads : call[u].serial \in Int
    BY RequestFields, CallFields DEF CacheTypeOK
  <2> QED
    BY <1>2, <2>1, <2>2 DEF SerialsGiven
<1>8. SerialsGiven'
  BY <1>1, <1>2, <1>3, <1>4, <1>5, <1>6, <1>7 DEF SerialsGiven, InFlight
<1>9. RequestsMatch'
  BY <1>1, <1>2, <1>3, <1>4, <1>5, <1>6, <1>7 DEF RequestsMatch, Asks, Busy
<1>10. HandlerReal'
  BY <1>1 DEF HandlerReal
<1>11. MessagesReal'
  BY <1>1, <1>2, <1>4, <1>6, <1>7 DEF MessagesReal, Granted, InFlight
<1>12. ValuesReal'
  BY <1>1, <1>4, <1>6 DEF ValuesReal
<1> QED
  BY <1>8, <1>9, <1>10, <1>11, <1>12

(* A call that stops waiting, or goes on with a value that is real. *)
Ends(t) ==
    \/ call'[t] = call[t]
    \/ /\ call'[t].pc # "wait" /\ call'[t].serial <= serial
       /\ call'[t].pc = "got" => call'[t].val \in been

LEMMA EndsReal ==
    ASSUME CacheTypeOK, RealInv, \A t \in Threads : Ends(t),
           UNCHANGED <<value, been, server, request, toServer, serial>>,
           InFlight' \subseteq InFlight, updating'.msg.val \in been, cache' \in been
    PROVE  RealInv'
<1> USE DEF RealInv
<1>1. SerialsGiven'
  BY DEF SerialsGiven, Ends
<1>2. RequestsMatch'
  BY DEF RequestsMatch, Asks, Ends, Busy
<1>3. HandlerReal'
  BY DEF HandlerReal
<1>4. MessagesReal'
  BY DEF MessagesReal, Granted, Ends
<1>5. ValuesReal'
  BY DEF ValuesReal, Ends
<1> QED
  BY <1>1, <1>2, <1>3, <1>4, <1>5

(* The reply to a call ends it with a real value, or with an exception.     *)
LEMMA ReceivedReal ==
    ASSUME CacheTypeOK, RealInv, NEW t \in Threads, NEW m \in InFlight, IsReply(m),
           call[t].pc = "wait", call[t].serial = m.serial
    PROVE  LET c == Received(call[t], m) IN
           c.pc # "wait" /\ c.serial <= serial /\ (c.pc = "got" => c.val \in been)
<1> USE DEF RealInv
<1>1. CASE m.kind = "error"
  <2>1. Received(call[t], m) = NoCall
    BY <1>1 DEF Received
  <2> QED
    BY <2>1 DEF NoCall, CacheTypeOK
<1>2. CASE m.kind # "error"
  <2> DEFINE c == [call[t] EXCEPT !.pc = "got", !.val = IF call[t].op = "Set" THEN @ ELSE m.val,
                                  !.stale = m.stale]
  <2>1. Received(call[t], m) = c
    BY <1>2 DEF Received
  <2>2. c.pc = "got" /\ c.serial = call[t].serial
        /\ c.val = IF call[t].op = "Set" THEN call[t].val ELSE m.val
    BY DEF CacheTypeOK, CallStates
  <2>3. m.val \in been /\ Granted(m)
    BY <1>2 DEF MessagesReal, IsReply
  <2>4. c.val \in been
    BY <2>2, <2>3 DEF Granted
  <2>5. call[t].serial <= serial
    BY DEF SerialsGiven
  <2> HIDE DEF c
  <2> QED
    BY <2>1, <2>2, <2>4, <2>5
<1> QED
  BY <1>1, <1>2

LEMMA NoCallEnds ==
    ASSUME CacheTypeOK, NEW t \in Threads, call'[t] = NoCall PROVE Ends(t)
  BY DEF Ends, NoCall, CacheTypeOK

(* The steps of the client's calls. *)
LEMMA CallerReal ==
    ASSUME CacheTypeOK, CacheTypeOK', RealInv, NEW t \in Threads, CallerNext(t) PROVE RealInv'
<1>1. CASE VariantValue(t)
  <2>1. Ask(t, "Get", 0) /\ UNCHANGED askVars /\ "Get" \in Ops /\ 0 \in Values
    BY <1>1, CacheAssumption DEF VariantValue, Ops, Values
  <2> QED
    BY <2>1, AskReal
<1>2. CASE CacheProperties(t)
  <2>1. Ask(t, "GetAll", 0) /\ UNCHANGED askVars /\ "GetAll" \in Ops /\ 0 \in Values
    BY <1>2, CacheAssumption DEF CacheProperties, Ops, Values
  <2> QED
    BY <2>1, AskReal
<1>3. CASE SetValue(t) /\ known
  <2>1. Ask(t, "Set", made + 1)
    BY <1>3, Zenon DEF SetValue
  <2>2. UNCHANGED askVars /\ "Set" \in Ops /\ made + 1 \in Values
    BY <1>3 DEF SetValue, Ops, CacheTypeOK
  <2> QED
    BY <2>1, <2>2, AskReal
<1>4. CASE SetValue(t) /\ ~known
  <2>1. UNCHANGED <<value, been, server, request, toServer, serial, call, toClient, aside, updating,
                    cache>>
    BY <1>4 DEF SetValue, askVars, serverVars
  <2> QED
    BY <2>1, EndsReal DEF Ends, InFlight, RealInv, MessagesReal, ValuesReal
<1>5. CASE TimeOut(t)
  <2>1. /\ UNCHANGED <<value, been, server, request, toServer, serial, toClient, aside, updating, cache>>
        /\ call' = [call EXCEPT ![t] = NoCall]
    BY <1>5 DEF TimeOut, serverVars
  <2>2. \A u \in Threads : Ends(u)
    BY <2>1, NoCallEnds DEF CacheTypeOK, Ends
  <2> QED
    BY <2>1, <2>2, EndsReal DEF InFlight, RealInv, MessagesReal, ValuesReal
<1>6. CASE Store(t)
  <2>1. /\ UNCHANGED <<value, been, server, request, toServer, serial, toClient, aside, updating>>
        /\ call' = [call EXCEPT ![t] = NoCall] /\ call[t].pc = "got"
    BY <1>6 DEF Store, serverVars
  <2>2. cache' \in {cache, call[t].val}
    BY <1>6 DEF Store, Update
  <2>3. \A u \in Threads : Ends(u)
    BY <2>1, NoCallEnds DEF CacheTypeOK, Ends
  <2> QED
    BY <2>1, <2>2, <2>3, EndsReal DEF InFlight, RealInv, MessagesReal, ValuesReal
<1> QED
  BY <1>1, <1>2, <1>3, <1>4, <1>5, <1>6 DEF CallerNext

(* The steps of the dispatching thread. *)
LEMMA DispatcherReal ==
    ASSUME CacheTypeOK, CacheTypeOK', RealInv, DispatcherNext PROVE RealInv'
<1>1. CASE ReadUntilReply
  <2> DEFINE m == Head(toClient)
             mine == IsReply(m) /\ m.serial = call[Dispatcher].serial
  <2>1. /\ UNCHANGED <<value, been, server, request, toServer, serial, updating, cache>>
        /\ toClient # <<>> /\ toClient' = Tail(toClient) /\ call[Dispatcher].pc = "wait"
        /\ Dispatcher \in Threads
    BY <1>1 DEF ReadUntilReply, serverVars, Threads
  <2>2. Items(toClient') \subseteq Items(toClient) /\ m \in Items(toClient)
    BY <2>1, TailItems DEF CacheTypeOK
  <2>3. m \in InFlight /\ m \in ServerMessages
    BY <2>1, <2>2 DEF InFlight, CacheTypeOK
  <2> HIDE DEF m
  <2>4. CASE mine
    <3>1. call' = [call EXCEPT ![Dispatcher] = Received(call[Dispatcher], m)] /\ aside' = aside
      BY <1>1, <2>4, Zenon DEF ReadUntilReply, m
    <3>2. \A t \in Threads : Ends(t)
      BY <2>1, <2>3, <2>4, <3>1, ReceivedReal DEF CacheTypeOK, Ends
    <3> QED
      BY <2>1, <2>2, <3>1, <3>2, EndsReal DEF InFlight, RealInv, MessagesReal, ValuesReal
  <2>5. CASE ~mine
    <3>1. call' = call /\ aside' = Append(aside, m)
      BY <1>1, <2>5, Zenon DEF ReadUntilReply, m
    <3>2. Items(aside') = Items(aside) \cup {m}
      BY <2>3, <3>1, AppendItems DEF CacheTypeOK
    <3>3. InFlight' \subseteq InFlight
      BY <2>2, <3>2 DEF InFlight
    <3> QED
      BY <2>1, <3>1, <3>3, EndsReal DEF Ends, RealInv, MessagesReal, ValuesReal
  <2> QED
    BY <2>4, <2>5
<1>2. CASE Dispatch
  <2> DEFINE m == Head(aside \o toClient)
             asked(t) == IsReply(m) /\ call[t].pc = "wait" /\ call[t].serial = m.serial
  <2>1. /\ UNCHANGED <<value, been, server, request, toServer, serial, cache>>
        /\ call' = [t \in Threads |-> IF asked(t) THEN Received(call[t], m) ELSE call[t]]
        /\ updating' = IF IsReply(m) THEN updating ELSE [pc |-> "enter", msg |-> m]
        /\ aside \o toClient # <<>>
    BY <1>2 DEF Dispatch, serverVars
  <2>2. InFlight' \subseteq InFlight /\ m \in InFlight
    <3>1. CASE aside # <<>>
      <4>1. aside' = Tail(aside) /\ toClient' = toClient
        BY <1>2, <3>1, Zenon DEF Dispatch
      <4>2. m = Head(aside)
        BY <3>1 DEF CacheTypeOK
      <4> QED
        BY <3>1, <4>1, <4>2, TailItems DEF InFlight, CacheTypeOK
    <3>2. CASE aside = <<>>
      <4>1. aside' = aside /\ toClient' = Tail(toClient)
        BY <1>2, <3>2, Zenon DEF Dispatch
      <4>2. aside \o toClient = toClient
        BY <3>2 DEF CacheTypeOK
      <4> QED
        BY <2>1, <4>1, <4>2, TailItems DEF InFlight, CacheTypeOK
    <3> QED
      BY <3>1, <3>2
  <2> HIDE DEF m
  <2>3. \A t \in Threads : Ends(t)
    <3> SUFFICES ASSUME NEW t \in Threads PROVE Ends(t)
      OBVIOUS
    <3>1. CASE asked(t)
      BY <2>1, <2>2, <3>1, ReceivedReal DEF Ends
    <3>2. CASE ~asked(t)
      BY <2>1, <3>2 DEF Ends
    <3> QED
      BY <3>1, <3>2
  <2>4. updating'.msg.val \in been
    BY <2>1, <2>2 DEF RealInv, MessagesReal
  <2> QED
    BY <2>1, <2>2, <2>3, <2>4, EndsReal DEF RealInv, ValuesReal
<1>3. CASE Enter \/ Find
  <2>1. /\ UNCHANGED <<value, been, server, request, toServer, serial, toClient, aside, cache, call>>
        /\ updating'.msg = updating.msg
    BY <1>3 DEF Enter, Find, Goto, updateVars, serverVars, CacheTypeOK
  <2> QED
    BY <2>1, EndsReal DEF Ends, InFlight, RealInv, MessagesReal, ValuesReal
<1>4. CASE Apply
  <2>1. /\ UNCHANGED <<value, been, server, request, toServer, serial, toClient, aside>>
        /\ updating'.msg = updating.msg /\ cache' = updating.msg.val
    BY <1>4 DEF Apply, Update, Goto, updateVars, serverVars, CacheTypeOK
  <2>2. \A t \in Threads : call'[t] = call[t]
                            \/ call'[t] = [call[t] EXCEPT !.passed = Passes(updating.msg, call[t])]
    BY <1>4 DEF Apply
  <2>3. \A t \in Threads : /\ call'[t].pc = call[t].pc /\ call'[t].serial = call[t].serial
                            /\ call'[t].val = call[t].val /\ call'[t].op = call[t].op
    <3> SUFFICES ASSUME NEW t \in Threads
                 PROVE  /\ call'[t].pc = call[t].pc /\ call'[t].serial = call[t].serial
                        /\ call'[t].val = call[t].val /\ call'[t].op = call[t].op
      OBVIOUS
    <3>1. PICK b : b = Passes(updating.msg, call[t])
      OBVIOUS
    <3> DEFINE d == [call[t] EXCEPT !.passed = b]
    <3>2. call'[t] = call[t] \/ call'[t] = d
      BY <2>2, <3>1
    <3>3. d.pc = call[t].pc /\ d.serial = call[t].serial /\ d.val = call[t].val /\ d.op = call[t].op
      BY DEF CacheTypeOK, CallStates
    <3> HIDE DEF d
    <3> QED
      BY <3>2, <3>3
  <2> QED
    BY <2>1, <2>3 DEF RealInv, SerialsGiven, RequestsMatch, HandlerReal, MessagesReal, ValuesReal,
       InFlight, Asks, Granted, Busy
<1> QED
  BY <1>1, <1>2, <1>3, <1>4 DEF DispatcherNext

LEMMA RealStep == CacheTypeOK /\ CacheTypeOK' /\ RealInv /\ [CacheNext]_cacheVars => RealInv'
<1> SUFFICES ASSUME CacheTypeOK, CacheTypeOK', RealInv, [CacheNext]_cacheVars PROVE RealInv'
  OBVIOUS
<1>1. CASE WriterNext \/ UNCHANGED cacheVars
  <2>1. UNCHANGED <<value, been, server, request, toServer, serial, toClient, aside, updating,
                    cache, call>>
    BY <1>1 DEF WriterNext, AddProperty, RemoveProperty, WriterLock, WriterUnlock, editVars,
       cacheVars, serverVars, clientVars
  <2> QED
    BY <2>1, EndsReal DEF Ends, InFlight, RealInv, MessagesReal, ValuesReal
<1> QED
  BY <1>1, ServerReal, CallerReal, DispatcherReal DEF CacheNext

(* The cached value is one the property had, however the dispatching        *)
(* thread's updates, the replies and the time-outs of the calling threads   *)
(* are interleaved.                                                         *)
THEOREM CacheHoldsRealValues == CacheSpec => []CacheWasReal
<1>1. RealInv => CacheWasReal
  BY DEF RealInv, ValuesReal, CacheWasReal
<1> QED
  BY <1>1, RealInit, RealStep, CacheTypeCorrect, PTL DEF CacheSpec

-----------------------------------------------------------------------------
(* When nothing is under way the copy is the property's value.             *)

(* A value that is the property's, or that was sent too late to be.        *)
Fresh(val, stale, v) == val = v \/ stale = TRUE
HasNews(s) == \E i \in DOMAIN s : ~IsReply(s[i])
LastIsFresh(s, v) == \A i \in DOMAIN s :
    (~IsReply(s[i]) /\ \A j \in DOMAIN s : j > i => IsReply(s[j])) => Fresh(s[i].val, s[i].stale, v)

(* The property's value is still to be announced, or an announcement is    *)
(* still to reach the proxy.                                               *)
Unsent == \E s \in Servers :
    server[s].pc = "stored" \/ (server[s].pc = "built" /\ server[s].val = value)
Unsettled == Unsent \/ HasNews(toClient) \/ HasNews(aside) \/ updating.pc # "idle"

(* Unless the value is still to be announced, the last announcement under  *)
(* way is of the value, and if there is none the copy is the value.        *)
NewsInv ==
    ~Unsent =>
        /\ LastIsFresh(toClient, value)
        /\ ~HasNews(toClient) =>
             /\ LastIsFresh(aside, value)
             /\ ~HasNews(aside) =>
                  /\ updating.pc # "idle" => Fresh(updating.msg.val, updating.msg.stale, value)
                  /\ (updating.pc = "idle" /\ valueSet = TRUE /\ late # TRUE) => cache = value

(* What the call t stores is the value, unless an announcement is still to *)
(* come, or has come while the call was waiting.                           *)
Fits(t, val, stale) ==
    \/ Unsettled
    \/ call[t].passed = TRUE
    \/ call[t].op = "Set" /\ call[t].val = value
    \/ call[t].op # "Set" /\ Fresh(val, stale, value)
WaitsFor(t, n) == call[t].pc = "wait" /\ call[t].serial = n
Storing == server["handler"].pc \in {"stored", "built", "done"}
RepliesInv == \A t \in Threads :
    /\ \A m \in InFlight : (m.kind = "return" /\ WaitsFor(t, m.serial)) => Fits(t, m.val, m.stale)
    /\ (Storing /\ WaitsFor(t, request.serial)) => Fits(t, 0, TRUE)
    /\ call[t].pc = "got" => Fits(t, call[t].val, call[t].stale)

Unedited == edits = 0 => known = TRUE /\ writer = "idle"
CurrentInv == Unedited /\ (edits = 0 => NewsInv /\ RepliesInv)

(* What is appended comes last. *)
LEMMA AppendLast ==
    ASSUME NEW s \in Seq(ServerMessages), NEW m \in ServerMessages, NEW v
    PROVE  /\ HasNews(Append(s, m)) <=> (HasNews(s) \/ ~IsReply(m))
           /\ ~IsReply(m) => (LastIsFresh(Append(s, m), v) <=> Fresh(m.val, m.stale, v))
           /\ IsReply(m) /\ LastIsFresh(s, v) => LastIsFresh(Append(s, m), v)
<1> DEFINE a == Append(s, m)
<1>1. /\ DOMAIN a = 1 .. Len(s) + 1 /\ DOMAIN s = 1 .. Len(s) /\ Len(s) \in Nat
      /\ \A i \in DOMAIN s : a[i] = s[i]
      /\ a[Len(s) + 1] = m
  OBVIOUS
<1> HIDE DEF a
<1>2. HasNews(a) <=> (HasNews(s) \/ ~IsReply(m))
  BY <1>1 DEF HasNews
<1>3. ASSUME ~IsReply(m)
      PROVE  LastIsFresh(a, v) <=> Fresh(m.val, m.stale, v)
  BY <1>1, <1>3 DEF LastIsFresh
<1>4. ASSUME IsReply(m), LastIsFresh(s, v)
      PROVE  LastIsFresh(a, v)
  <2> SUFFICES ASSUME NEW i \in DOMAIN a, ~IsReply(a[i]), \A j \in DOMAIN a : j > i => IsReply(a[j])
               PROVE  Fresh(a[i].val, a[i].stale, v)
    BY DEF LastIsFresh
  <2>1. i \in DOMAIN s /\ a[i] = s[i]
    BY <1>1, <1>4
  <2>2. \A j \in DOMAIN s : j > i => IsReply(s[j])
    BY <1>1
  <2> QED
    BY <1>4, <2>1, <2>2 DEF LastIsFresh
<1> QED
  BY <1>2, <1>3, <1>4 DEF a

(* What is taken from the front came first. *)
LEMMA TailLast ==
    ASSUME NEW s \in Seq(ServerMessages), s # <<>>, NEW v
    PROVE  /\ HasNews(s) <=> (HasNews(Tail(s)) \/ ~IsReply(Head(s)))
           /\ LastIsFresh(s, v) => LastIsFresh(Tail(s), v)
           /\ (LastIsFresh(s, v) /\ ~IsReply(Head(s)) /\ ~HasNews(Tail(s)))
                 => Fresh(Head(s).val, Head(s).stale, v)
<1> DEFINE r == Tail(s)
<1>1. /\ DOMAIN s = 1 .. Len(s) /\ Len(s) \in Nat /\ Len(s) >= 1 /\ DOMAIN r = 1 .. Len(s) - 1
      /\ \A i \in DOMAIN r : r[i] = s[i + 1]
      /\ Head(s) = s[1]
  OBVIOUS
<1> HIDE DEF r
<1>2. \A i \in DOMAIN s : i = 1 \/ (i - 1 \in DOMAIN r /\ s[i] = r[i - 1])
  BY <1>1
<1>3. HasNews(s) <=> (HasNews(r) \/ ~IsReply(Head(s)))
  <2>1. HasNews(s) => (HasNews(r) \/ ~IsReply(Head(s)))
    BY <1>1, <1>2 DEF HasNews
  <2>2. 1 \in DOMAIN s /\ \A i \in DOMAIN r : i + 1 \in DOMAIN s
    BY <1>1
  <2>3. (HasNews(r) \/ ~IsReply(Head(s))) => HasNews(s)
    BY <1>1, <2>2 DEF HasNews
  <2> QED
    BY <2>1, <2>3
<1>4. ASSUME LastIsFresh(s, v), NEW i \in DOMAIN r, ~IsReply(r[i]), \A j \in DOMAIN r : j > i => IsReply(r[j])
      PROVE  Fresh(r[i].val, r[i].stale, v)
  <2>1. i + 1 \in DOMAIN s /\ r[i] = s[i + 1]
    BY <1>1
  <2>2. \A j \in DOMAIN s : j > i + 1 => IsReply(s[j])
    BY <1>1, <1>2, <1>4
  <2> QED
    BY <1>4, <2>1, <2>2 DEF LastIsFresh
<1>5. ASSUME LastIsFresh(s, v), ~IsReply(Head(s)), ~HasNews(r)
      PROVE  Fresh(Head(s).val, Head(s).stale, v)
  <2>1. \A j \in DOMAIN s : j > 1 => IsReply(s[j])
    BY <1>1, <1>2, <1>5 DEF HasNews
  <2> QED
    BY <1>1, <1>5, <2>1 DEF LastIsFresh
<1> QED
  BY <1>3, <1>4, <1>5 DEF r, LastIsFresh

LEMMA ServerCurrent ==
    ASSUME CacheTypeOK, CacheTypeOK', RealInv, NewsInv, RepliesInv, ServerNext
    PROVE  NewsInv' /\ RepliesInv'
<1>1. Unsettled' => RepliesInv'
  BY DEF RepliesInv, Fits
<1>2. Unsent' => NewsInv' /\ RepliesInv'
  BY <1>1 DEF NewsInv, Unsettled
<1>3. server \in [Servers -> ServerStates] /\ server' \in [Servers -> ServerStates]
      /\ "owner" \in Servers /\ "handler" \in Servers /\ \A s \in Servers : s = "owner" \/ s = "handler"
  BY DEF CacheTypeOK, Servers
<1>4. CASE OwnerSet
  <2>1. server'["owner"].pc = "stored"
    BY <1>3, <1>4 DEF OwnerSet, ServerStep
  <2> QED
    BY <1>2, <1>3, <2>1 DEF Unsent
<1>5. ASSUME NEW s \in Servers, Build(s)
      PROVE  NewsInv' /\ RepliesInv'
  <2>1. server'[s].pc = "built" /\ server'[s].val = value'
    BY <1>3, <1>5 DEF Build, ServerStep
  <2> QED
    BY <1>2, <2>1 DEF Unsent
<1>6. ASSUME NEW s \in Servers, Emit(s)
      PROVE  NewsInv' /\ RepliesInv'
  <2> DEFINE m == Signal(server[s].val)
  <2>1. toClient' = Append(toClient, m) /\ value' = value
    BY <1>6 DEF Emit
  <2>2. m \in ServerMessages
    BY <1>3, CacheAssumption DEF Signal, ServerMessages, ServerStates, Values
  <2>3. ~IsReply(m) /\ Fresh(m.val, m.stale, value)
    BY DEF IsReply, Signal, Fresh
  <2> HIDE DEF m
  <2>4. HasNews(toClient') /\ LastIsFresh(toClient', value)
    BY <2>1, <2>2, <2>3, AppendLast DEF CacheTypeOK
  <2>5. NewsInv'
    BY <2>1, <2>4 DEF NewsInv
  <2> QED
    BY <1>1, <2>4, <2>5 DEF Unsettled
<1>7. CASE Handle
  <2>1. CASE server'["handler"].pc = "stored"
    BY <1>2, <1>3, <2>1 DEF Unsent
  <2>2. CASE server'["handler"].pc # "stored"
    <3>1. value' = value /\ server["handler"].pc = "idle" /\ server'["handler"].pc \in {"answer", "error"}
          /\ server'["owner"] = server["owner"]
      BY <1>3, <1>7, <2>2 DEF Handle, ServerStep
    <3>2. UNCHANGED <<toClient, aside, updating, call, cache, valueSet, late>>
      BY <1>7 DEF Handle, clientVars
    <3>3. Unsent' <=> Unsent
      BY <1>3, <3>1 DEF Unsent
    <3>4. NewsInv'
      BY <3>1, <3>2, <3>3 DEF NewsInv
    <3>5. Unsettled' <=> Unsettled
      BY <3>2, <3>3 DEF Unsettled
    <3>6. RepliesInv'
      BY <3>1, <3>2, <3>5 DEF RepliesInv, Fits, WaitsFor, Storing, InFlight
    <3> QED
      BY <3>4, <3>6
  <2> QED
    BY <2>1, <2>2
<1>8. CASE Answer
  <2> DEFINE h == server["handler"]
             m == [kind |-> IF h.pc = "error" THEN "error" ELSE "return",
                   serial |-> request.serial, val |-> h.val,
                   stale |-> h.pc = "answer" /\ h.val # value]
  <2>1. /\ toClient' = Append(toClient, m) /\ h.pc \in {"answer", "error", "done"}
        /\ server' = [server EXCEPT !["handler"] = [pc |-> "idle", val |-> 0]]
        /\ UNCHANGED <<value, request, aside, updating, call, cache, valueSet, late>>
    BY <1>8 DEF Answer, ServerStep, clientVars
  <2>2. m \in ServerMessages
    BY <1>3, <2>1 DEF ServerMessages, ServerStates, CacheTypeOK, Requests
  <2>3. /\ IsReply(m) /\ m.serial = request.serial /\ (m.kind = "return" => h.pc \in {"answer", "done"})
        /\ h.pc = "answer" => Fresh(m.val, m.stale, value)
    BY <2>1 DEF IsReply, Fresh
  <2> HIDE DEF m
  <2>4. Unsent' <=> Unsent
    BY <1>3, <2>1 DEF Unsent
  <2>5. (HasNews(toClient') <=> HasNews(toClient))
        /\ (LastIsFresh(toClient, value) => LastIsFresh(toClient', value))
    BY <2>1, <2>2, <2>3, AppendLast DEF CacheTypeOK
  <2>6. NewsInv'
    BY <2>1, <2>4, <2>5 DEF NewsInv
  <2>7. Unsettled' <=> Unsettled
    BY <2>1, <2>4, <2>5 DEF Unsettled
  <2>8. InFlight' = InFlight \cup {m}
    BY <2>1, <2>2, AppendItems DEF InFlight, CacheTypeOK
  <2>9. \A t \in Threads : \A val, stale : Fits(t, val, stale)' <=> Fits(t, val, stale)
    BY <2>1, <2>7 DEF Fits
  <2>10. ASSUME NEW t \in Threads, m.kind = "return", WaitsFor(t, m.serial)
         PROVE  Fits(t, m.val, m.stale)
    <3>1. call[t].op = request.op
      BY <2>1, <2>3, <2>10 DEF RealInv, RequestsMatch, Asks, Busy, WaitsFor
    <3>2. CASE h.pc = "answer"
      BY <2>3, <3>1, <3>2 DEF RealInv, HandlerReal, Fits
    <3>3. CASE h.pc = "done"
      <4>1. Fits(t, 0, TRUE)
        BY <2>3, <2>10, <3>3 DEF RepliesInv, Storing
      <4> QED
        BY <3>1, <3>3, <4>1 DEF RealInv, HandlerReal, Fits
    <3> QED
      BY <2>3, <2>10, <3>2, <3>3
  <2>11. ~Storing'
    BY <1>3, <2>1 DEF Storing
  <2>12. \A t \in Threads : \A k \in InFlight' :
           (k.kind = "return" /\ WaitsFor(t, k.serial)) => Fits(t, k.val, k.stale)
    BY <2>8, <2>10 DEF RepliesInv
  <2>13. \A t \in Threads : \A n : WaitsFor(t, n)' <=> WaitsFor(t, n)
    BY <2>1 DEF WaitsFor
  <2>14. \A t \in Threads : call'[t].pc = "got" => Fits(t, call'[t].val, call'[t].stale)
    BY <2>1 DEF RepliesInv
  <2>15. RepliesInv'
    BY <2>1, <2>9, <2>11, <2>12, <2>13, <2>14 DEF RepliesInv
  <2> QED
    BY <2>6, <2>15
<1> QED
  BY <1>4, <1>5, <1>6, <1>7, <1>8 DEF ServerNext

(* A step that only ends calls, with a value that fits, or starts new ones, *)
(* while the messages lose some at most.                                   *)
Goes(t) ==
    \/ call'[t] = call[t]
    \/ call'[t].pc = "idle"
    \/ call'[t].pc = "wait" /\ call'[t].serial = serial + 1
    \/ call'[t].pc = "got" /\ Fits(t, call[t].val, call[t].stale)'

LEMMA RepliesFrame ==
    ASSUME CacheTypeOK, RealInv, RepliesInv, UNCHANGED <<value, server, request>>,
           InFlight' \subseteq InFlight, Unsettled => Unsettled', \A t \in Threads : Goes(t)
    PROVE  RepliesInv'
<1> SUFFICES ASSUME NEW t \in Threads
             PROVE  /\ \A m \in InFlight' : (m.kind = "return" /\ WaitsFor(t, m.serial)')
                           => Fits(t, m.val, m.stale)'
                    /\ (Storing' /\ WaitsFor(t, request.serial)') => Fits(t, 0, TRUE)'
                    /\ call'[t].pc = "got" => Fits(t, call[t].val, call[t].stale)'
  BY DEF RepliesInv, WaitsFor, Storing, Fits
<1>1. CASE call'[t] = call[t]
  <2>1. \A n : WaitsFor(t, n)' <=> WaitsFor(t, n)
    BY <1>1 DEF WaitsFor
  <2>2. \A v, b : Fits(t, v, b) => Fits(t, v, b)'
    BY <1>1 DEF Fits
  <2>3. Storing' <=> Storing
    BY DEF Storing
  <2>4. call'[t].pc = "got" => Fits(t, call[t].val, call[t].stale)'
    BY <1>1 DEF Fits, RepliesInv
  <2> QED
    BY <2>1, <2>2, <2>3, <2>4 DEF RepliesInv
<1>2. CASE call'[t].pc = "idle"
  BY <1>2 DEF WaitsFor
<1>3. CASE call'[t].pc = "wait" /\ call'[t].serial = serial + 1
  <2>1. serial \in Int /\ request.serial \in Int /\ \A m \in InFlight : m.serial \in Int
    <3>1. \A m \in InFlight : m \in ServerMessages
      BY DEF CacheTypeOK, InFlight, Items
    <3> QED
      BY <3>1, MessageFields, RequestFields DEF CacheTypeOK
  <2>2. \A m \in InFlight : ~WaitsFor(t, m.serial)'
    BY <1>3, <2>1 DEF RealInv, SerialsGiven, WaitsFor
  <2>3. ~WaitsFor(t, request.serial)'
    BY <1>3, <2>1 DEF RealInv, SerialsGiven, WaitsFor
  <2> QED
    BY <1>3, <2>2, <2>3
<1>4. CASE call'[t].pc = "got" /\ Fits(t, call[t].val, call[t].stale)'
  BY <1>4 DEF WaitsFor
<1> QED
  BY <1>1, <1>2, <1>3, <1>4 DEF Goes

(* Nothing but calls change. *)
LEMMA CallsOnly ==
    ASSUME CacheTypeOK, RealInv, NewsInv, RepliesInv,
           UNCHANGED <<value, server, request, toClient, aside, updating, cache, valueSet, late>>,
           \A t \in Threads : Goes(t)
    PROVE  NewsInv' /\ RepliesInv'
<1>1. Unsent' <=> Unsent
  BY DEF Unsent
<1>2. NewsInv'
  BY <1>1 DEF NewsInv
<1>3. Unsettled' <=> Unsettled
  BY <1>1 DEF Unsettled
<1>4. InFlight' \subseteq InFlight
  BY DEF InFlight
<1> QED
  BY <1>2, <1>3, <1>4, RepliesFrame

LEMMA CallerCurrent ==
    ASSUME CacheTypeOK, RealInv, NewsInv, RepliesInv, NEW t \in Threads, CallerNext(t)
    PROVE  NewsInv' /\ RepliesInv'
<1> USE DEF serverVars
<1>1. ASSUME NEW op, NEW v, Ask(t, op, v), UNCHANGED askVars PROVE NewsInv' /\ RepliesInv'
  <2>1. UNCHANGED <<value, server, request, toClient, aside, updating, cache, valueSet, late>>
    BY <1>1 DEF askVars
  <2>2. \A u \in Threads : Goes(u)
    BY <1>1 DEF Ask, Goes, CacheTypeOK, NoCall
  <2> QED
    BY <2>1, <2>2, CallsOnly
<1>2. CASE VariantValue(t)
  BY <1>1, <1>2 DEF VariantValue
<1>3. CASE CacheProperties(t)
  BY <1>1, <1>3 DEF CacheProperties
<1>4. CASE SetValue(t)
  <2>1. CASE known
    <3>1. Ask(t, "Set", made + 1) /\ UNCHANGED askVars
      BY <1>4, <2>1, Zenon DEF SetValue
    <3> QED
      BY <1>1, <3>1
  <2>2. CASE ~known
    <3>1. UNCHANGED <<value, server, request, toClient, aside, updating, cache, valueSet, late, call>>
      BY <1>4, <2>2 DEF SetValue, askVars
    <3> QED
      BY <3>1, CallsOnly DEF Goes
  <2> QED
    BY <2>1, <2>2
<1>5. ASSUME call' = [call EXCEPT ![t] = NoCall] PROVE \A u \in Threads : Goes(u)
  BY <1>5 DEF Goes, CacheTypeOK, NoCall
<1>6. CASE TimeOut(t)
  <2>1. UNCHANGED <<value, server, request, toClient, aside, updating, cache, valueSet, late>>
        /\ call' = [call EXCEPT ![t] = NoCall]
    BY <1>6 DEF TimeOut
  <2> QED
    BY <1>5, <2>1, CallsOnly
<1>7. CASE Store(t)
  <2>1. /\ UNCHANGED <<value, server, request, toClient, aside, updating>>
        /\ call' = [call EXCEPT ![t] = NoCall] /\ call[t].pc = "got"
    BY <1>7 DEF Store
  <2>2. Unsent' <=> Unsent
    BY <2>1 DEF Unsent
  <2>3. Unsettled' <=> Unsettled
    BY <2>1, <2>2 DEF Unsettled
  <2>4. InFlight' \subseteq InFlight
    BY <2>1 DEF InFlight
  <2>5. RepliesInv'
    BY <1>5, <2>1, <2>3, <2>4, RepliesFrame
  <2>6. \/ cache' = cache /\ valueSet' = valueSet /\ late' = late
        \/ cache' = call[t].val /\ (Unsettled \/ late' = TRUE \/ call[t].val = value)
    <3>1. Fits(t, call[t].val, call[t].stale)
      BY <2>1 DEF RepliesInv
    <3>2. CASE call[t].op = "Set"
      <4>1. cache' = call[t].val /\ late' = call[t].passed
        BY <1>7, <3>2 DEF Store
      <4> QED
        BY <3>1, <3>2, <4>1 DEF Fits
    <3>3. CASE call[t].op # "Set" /\ ~(cache' = cache /\ valueSet' = valueSet /\ late' = late)
      <4>1. cache' = call[t].val /\ late' = (call[t].stale \/ call[t].passed)
        BY <1>7, <3>3, Zenon DEF Store, Update
      <4>2. late' = TRUE \/ (call[t].stale # TRUE /\ call[t].passed # TRUE)
        BY <4>1, Zenon
      <4> QED
        BY <3>1, <3>3, <4>1, <4>2 DEF Fits, Fresh
    <3> QED
      BY <3>2, <3>3
  <2>7. NewsInv'
    BY <2>1, <2>2, <2>6 DEF NewsInv, Unsettled
  <2> QED
    BY <2>5, <2>7
<1> QED
  BY <1>2, <1>3, <1>4, <1>6, <1>7 DEF CallerNext

(* A reply that ends a call fits. *)
LEMMA ReplyGoes ==
    ASSUME CacheTypeOK, RepliesInv, UNCHANGED value, Unsettled => Unsettled',
           NEW t \in Threads, NEW m \in InFlight, IsReply(m), WaitsFor(t, m.serial),
           call'[t] = Received(call[t], m)
    PROVE  Goes(t)
<1>1. CASE m.kind = "error"
  BY <1>1 DEF Received, NoCall, Goes
<1>2. CASE m.kind # "error"
  <2> DEFINE c == [call[t] EXCEPT !.pc = "got", !.val = IF call[t].op = "Set" THEN @ ELSE m.val,
                                  !.stale = m.stale]
  <2>1. call'[t] = c
    BY <1>2 DEF Received
  <2>2. /\ c.pc = "got" /\ c.op = call[t].op /\ c.passed = call[t].passed /\ c.stale = m.stale
        /\ c.val = IF call[t].op = "Set" THEN call[t].val ELSE m.val
    BY DEF CacheTypeOK, CallStates
  <2> HIDE DEF c
  <2>3. Fits(t, m.val, m.stale)
    BY <1>2 DEF RepliesInv, IsReply
  <2>4. Fits(t, call[t].val, call[t].stale)'
    BY <2>1, <2>2, <2>3 DEF Fits
  <2> QED
    BY <2>1, <2>2, <2>4 DEF Goes
<1> QED
  BY <1>1, <1>2

LEMMA DispatcherCurrent ==
    ASSUME CacheTypeOK, RealInv, NewsInv, RepliesInv, known = TRUE, DispatcherNext
    PROVE  NewsInv' /\ RepliesInv'
<1>1. Unsettled' => RepliesInv'
  BY DEF RepliesInv, Fits
<1>2. CASE ReadUntilReply
  <2> DEFINE m == Head(toClient)
             mine == IsReply(m) /\ m.serial = call[Dispatcher].serial
  <2>1. /\ UNCHANGED <<value, server, request, updating, cache, valueSet, late>>
        /\ toClient # <<>> /\ toClient' = Tail(toClient) /\ call[Dispatcher].pc = "wait"
        /\ Dispatcher \in Threads
    BY <1>2 DEF ReadUntilReply, serverVars, Threads
  <2>2. Items(toClient') \subseteq Items(toClient) /\ m \in Items(toClient)
    BY <2>1, TailItems DEF CacheTypeOK
  <2>3. m \in InFlight /\ m \in ServerMessages
    BY <2>1, <2>2 DEF InFlight, CacheTypeOK
  <2>4. /\ HasNews(toClient) <=> (HasNews(toClient') \/ ~IsReply(m))
        /\ LastIsFresh(toClient, value) => LastIsFresh(toClient', value)
        /\ (LastIsFresh(toClient, value) /\ ~IsReply(m) /\ ~HasNews(toClient'))
              => Fresh(m.val, m.stale, value)
    BY <2>1, TailLast DEF CacheTypeOK
  <2>5. Unsent' <=> Unsent
    BY <2>1 DEF Unsent
  <2> HIDE DEF m
  <2>6. CASE mine
    <3>1. call' = [call EXCEPT ![Dispatcher] = Received(call[Dispatcher], m)] /\ aside' = aside
      BY <1>2, <2>6, Zenon DEF ReadUntilReply, m
    <3>2. Unsettled' <=> Unsettled
      BY <2>1, <2>4, <2>5, <2>6, <3>1 DEF Unsettled
    <3>3. WaitsFor(Dispatcher, m.serial)
      BY <2>1, <2>6 DEF WaitsFor
    <3>4. call'[Dispatcher] = Received(call[Dispatcher], m)
          /\ \A t \in Threads \ {Dispatcher} : call'[t] = call[t]
      BY <2>1, <3>1 DEF CacheTypeOK
    <3>5. \A t \in Threads : Goes(t)
      BY <2>1, <2>3, <2>6, <3>2, <3>3, <3>4, ReplyGoes DEF Goes
    <3>6. InFlight' \subseteq InFlight
      BY <2>2, <3>1 DEF InFlight
    <3>7. RepliesInv'
      BY <2>1, <3>2, <3>5, <3>6, RepliesFrame
    <3>8. NewsInv'
      BY <2>1, <2>4, <2>5, <2>6, <3>1 DEF NewsInv
    <3> QED
      BY <3>7, <3>8
  <2>7. CASE ~mine
    <3>1. call' = call /\ aside' = Append(aside, m)
      BY <1>2, <2>7, Zenon DEF ReadUntilReply, m
    <3>2. /\ HasNews(aside') <=> (HasNews(aside) \/ ~IsReply(m))
          /\ ~IsReply(m) => (LastIsFresh(aside', value) <=> Fresh(m.val, m.stale, value))
          /\ IsReply(m) /\ LastIsFresh(aside, value) => LastIsFresh(aside', value)
      BY <2>3, <3>1, AppendLast DEF CacheTypeOK
    <3>3. Unsettled' <=> Unsettled
      BY <2>1, <2>4, <2>5, <3>2 DEF Unsettled
    <3>4. InFlight' \subseteq InFlight
      <4>1. Items(aside') = Items(aside) \cup {m}
        BY <2>3, <3>1, AppendItems DEF CacheTypeOK
      <4> QED
        BY <2>2, <4>1 DEF InFlight
    <3>5. RepliesInv'
      BY <2>1, <3>1, <3>3, <3>4, RepliesFrame DEF Goes
    <3>6. NewsInv'
      BY <2>1, <2>4, <2>5, <3>2 DEF NewsInv
    <3> QED
      BY <3>5, <3>6
  <2> QED
    BY <2>6, <2>7
<1>3. CASE Dispatch
  <2> DEFINE m == Head(aside \o toClient)
             asked(t) == IsReply(m) /\ call[t].pc = "wait" /\ call[t].serial = m.serial
  <2>1. /\ UNCHANGED <<value, server, request, cache, valueSet, late>> /\ updating.pc = "idle"
        /\ call' = [t \in Threads |-> IF asked(t) THEN Received(call[t], m) ELSE call[t]]
        /\ updating' = IF IsReply(m) THEN updating ELSE [pc |-> "enter", msg |-> m]
        /\ aside \o toClient # <<>>
    BY <1>3 DEF Dispatch, serverVars
  <2>2. Unsent' <=> Unsent
    BY <2>1 DEF Unsent
  <2>3. \/ /\ aside' = Tail(aside) /\ toClient' = toClient /\ m = Head(aside) /\ aside # <<>>
        \/ /\ aside' = aside /\ aside = <<>> /\ toClient' = Tail(toClient) /\ m = Head(toClient)
           /\ toClient # <<>>
    <3>1. CASE aside # <<>>
      <4>1. aside' = Tail(aside) /\ toClient' = toClient
        BY <1>3, <3>1, Zenon DEF Dispatch
      <4>2. m = Head(aside)
        BY <3>1 DEF CacheTypeOK
      <4> QED
        BY <3>1, <4>1, <4>2
    <3>2. CASE aside = <<>>
      <4>1. aside' = aside /\ toClient' = Tail(toClient)
        BY <1>3, <3>2, Zenon DEF Dispatch
      <4>2. aside \o toClient = toClient
        BY <3>2 DEF CacheTypeOK
      <4> QED
        BY <2>1, <3>2, <4>1, <4>2
    <3> QED
      BY <3>1, <3>2
  <2> HIDE DEF m
  <2>4. InFlight' \subseteq InFlight /\ m \in InFlight
    <3>1. CASE aside # <<>>
      <4>1. aside' = Tail(aside) /\ toClient' = toClient /\ m = Head(aside)
        BY <2>3, <3>1
      <4>2. Items(Tail(aside)) \subseteq Items(aside) /\ Head(aside) \in Items(aside)
        BY <3>1, TailItems DEF CacheTypeOK
      <4> QED
        BY <4>1, <4>2 DEF InFlight
    <3>2. CASE aside = <<>>
      <4>1. aside' = aside /\ toClient' = Tail(toClient) /\ m = Head(toClient) /\ toClient # <<>>
        BY <2>3, <3>2
      <4>2. Items(Tail(toClient)) \subseteq Items(toClient) /\ Head(toClient) \in Items(toClient)
        BY <4>1, TailItems DEF CacheTypeOK
      <4> QED
        BY <4>1, <4>2 DEF InFlight
    <3> QED
      BY <3>1, <3>2
  <2>5. /\ (HasNews(toClient) \/ HasNews(aside))
              <=> (HasNews(toClient') \/ HasNews(aside') \/ ~IsReply(m))
        /\ (LastIsFresh(toClient, value) /\ (~HasNews(toClient) => LastIsFresh(aside, value)))
              => /\ LastIsFresh(toClient', value)
                 /\ ~HasNews(toClient') =>
                      /\ LastIsFresh(aside', value)
                      /\ (~HasNews(aside') /\ ~IsReply(m)) => Fresh(m.val, m.stale, value)
    <3>1. CASE aside # <<>>
      <4>1. aside' = Tail(aside) /\ toClient' = toClient /\ m = Head(aside)
        BY <2>3, <3>1
      <4>2. /\ HasNews(aside) <=> (HasNews(aside') \/ ~IsReply(m))
            /\ LastIsFresh(aside, value) => LastIsFresh(aside', value)
            /\ (LastIsFresh(aside, value) /\ ~IsReply(m) /\ ~HasNews(aside'))
                  => Fresh(m.val, m.stale, value)
        BY <3>1, <4>1, TailLast DEF CacheTypeOK
      <4> QED
        BY <4>1, <4>2
    <3>2. CASE aside = <<>>
      <4>1. aside' = aside /\ toClient' = Tail(toClient) /\ m = Head(toClient) /\ toClient # <<>>
        BY <2>3, <3>2
      <4>2. /\ HasNews(toClient) <=> (HasNews(toClient') \/ ~IsReply(m))
            /\ LastIsFresh(toClient, value) => LastIsFresh(toClient', value)
            /\ (LastIsFresh(toClient, value) /\ ~IsReply(m) /\ ~HasNews(toClient'))
                  => Fresh(m.val, m.stale, value)
        BY <4>1, TailLast DEF CacheTypeOK
      <4>3. ~HasNews(aside) /\ LastIsFresh(aside, value)
        BY <3>2 DEF HasNews, LastIsFresh
      <4> QED
        BY <4>1, <4>2, <4>3
    <3> QED
      BY <3>1, <3>2
  <2>6. NewsInv'
    <3>1. CASE IsReply(m)
      BY <2>1, <2>2, <2>5, <3>1 DEF NewsInv
    <3>2. CASE ~IsReply(m)
      <4>1. updating'.pc = "enter" /\ updating'.msg = m
        BY <2>1, <3>2
      <4> QED
        BY <2>1, <2>2, <2>5, <3>2, <4>1 DEF NewsInv
    <3> QED
      BY <3>1, <3>2
  <2>7. CASE ~IsReply(m)
    <3>1. Unsettled'
      BY <2>1, <2>7 DEF Unsettled
    <3> QED
      BY <1>1, <2>6, <3>1
  <2>8. CASE IsReply(m)
    <3>1. Unsettled' <=> Unsettled
      BY <2>1, <2>2, <2>5, <2>8 DEF Unsettled
    <3>2. \A t \in Threads : Goes(t)
      <4> SUFFICES ASSUME NEW t \in Threads PROVE Goes(t)
        OBVIOUS
      <4>1. CASE asked(t)
        BY <2>1, <2>4, <3>1, <4>1, ReplyGoes DEF WaitsFor
      <4>2. CASE ~asked(t)
        BY <2>1, <4>2 DEF Goes
      <4> QED
        BY <4>1, <4>2
    <3>3. RepliesInv'
      BY <2>1, <2>4, <3>1, <3>2, RepliesFrame
    <3> QED
      BY <2>6, <3>3
  <2> QED
    BY <2>7, <2>8
<1>4. CASE Enter \/ Find
  <2>1. /\ UNCHANGED <<value, server, toClient, aside, cache, valueSet, late>>
        /\ updating'.msg = updating.msg /\ updating'.pc # "idle" /\ updating.pc # "idle"
    BY <1>4 DEF Enter, Find, Goto, updateVars, serverVars, CacheTypeOK
  <2>2. Unsent' <=> Unsent
    BY <2>1 DEF Unsent
  <2>3. NewsInv'
    BY <2>1, <2>2 DEF NewsInv
  <2> QED
    BY <1>1, <2>1, <2>3 DEF Unsettled
<1>5. CASE Apply
  <2>1. /\ UNCHANGED <<value, server, request, toClient, aside>> /\ updating.pc = "apply"
        /\ updating'.pc = "idle" /\ cache' = updating.msg.val /\ late' = updating.msg.stale
    BY <1>5 DEF Apply, Update, Goto, updateVars, serverVars, CacheTypeOK
  <2>2. Unsent' <=> Unsent
    BY <2>1 DEF Unsent
  <2>3. NewsInv'
    BY <2>1, <2>2 DEF NewsInv, Fresh
  <2>4. CASE Unsettled'
    BY <1>1, <2>3, <2>4
  <2>5. CASE ~Unsettled'
    <3>1. Fresh(updating.msg.val, updating.msg.stale, value)
      BY <2>1, <2>2, <2>5 DEF NewsInv, Unsettled
    <3>2. ASSUME NEW t \in Threads, call'[t].pc # "idle", NEW v, NEW b
          PROVE  Fits(t, v, b)'
      <4>1. PICK p : p = Passes(updating.msg, call[t])
        OBVIOUS
      <4> DEFINE c == [call[t] EXCEPT !.passed = p]
      <4>2. call'[t] = IF call[t].pc = "idle" THEN call[t] ELSE c
        BY <1>5, <4>1 DEF Apply
      <4>3. c.passed = p /\ c.op = call[t].op /\ c.val = call[t].val
        BY DEF CacheTypeOK, CallStates
      <4> HIDE DEF c
      <4>4. call'[t].passed = p /\ call'[t].op = call[t].op /\ call'[t].val = call[t].val
        BY <3>2, <4>2, <4>3
      <4>5. p = TRUE \/ (call[t].op = "Set" /\ call[t].val = updating.msg.val /\ updating.msg.stale # TRUE)
        BY <4>1, Zenon DEF Passes
      <4> QED
        BY <2>1, <3>1, <4>4, <4>5 DEF Fits, Fresh
    <3>3. RepliesInv'
      BY <3>2 DEF RepliesInv, WaitsFor
    <3> QED
      BY <2>3, <3>3
  <2> QED
    BY <2>4, <2>5
<1> QED
  BY <1>2, <1>3, <1>4, <1>5 DEF DispatcherNext

(* When nothing is on its way the proxy holds the property's value, however *)
(* the announcements, the replies and the stores of the calling threads     *)
(* were interleaved, with the two exceptions that "late" records.           *)
THEOREM CacheIsCurrent == CacheSpec => []CurrentWhenQuiet
<1>1. CacheInit => CurrentInv
  <2> SUFFICES ASSUME CacheInit PROVE CurrentInv
    OBVIOUS
  <2>1. InFlight = {} /\ ~HasNews(toClient) /\ LastIsFresh(toClient, value) /\ LastIsFresh(aside, value)
    BY DEF CacheInit, InFlight, Items, HasNews, LastIsFresh
  <2>2. NewsInv
    BY <2>1 DEF CacheInit, NewsInv
  <2>3. RepliesInv
    BY <2>1 DEF CacheInit, RepliesInv, WaitsFor, NoCall
  <2>4. Unedited
    BY DEF CacheInit, Unedited
  <2> QED
    BY <2>2, <2>3, <2>4 DEF CurrentInv
<1>2. CacheTypeOK /\ CacheTypeOK' /\ RealInv /\ CurrentInv /\ [CacheNext]_cacheVars => CurrentInv'
  <2> SUFFICES ASSUME CacheTypeOK, CacheTypeOK', RealInv, CurrentInv, [CacheNext]_cacheVars
               PROVE  CurrentInv'
    OBVIOUS
  <2> USE DEF CurrentInv
  <2>1. CASE WriterNext
    <3>1. edits \in Nat
      BY CacheAssumption DEF CacheTypeOK
    <3>2. CASE AddProperty \/ RemoveProperty
      BY <3>1, <3>2 DEF AddProperty, RemoveProperty, Unedited
    <3>3. CASE WriterLock \/ WriterUnlock
      <4>1. writer # "idle" /\ edits' = edits
        BY <3>3 DEF WriterLock, WriterUnlock, editVars
      <4> QED
        BY <4>1 DEF Unedited
    <3> QED
      BY <2>1, <3>2, <3>3 DEF WriterNext
  <2>2. ASSUME UNCHANGED <<edits, known, writer>>,
               NewsInv /\ RepliesInv /\ known = TRUE => NewsInv' /\ RepliesInv'
        PROVE  CurrentInv'
    BY <2>2 DEF Unedited
  <2>3. CASE ServerNext
    <3>1. UNCHANGED <<edits, known, writer>>
      BY <2>3 DEF ServerNext, OwnerSet, Handle, Answer, Build, Emit, clientVars
    <3> QED
      BY <2>2, <2>3, <3>1, ServerCurrent
  <2>4. ASSUME NEW t \in Threads, CallerNext(t) PROVE CurrentInv'
    <3>1. UNCHANGED <<edits, known, writer>>
      BY <2>4 DEF CallerNext, VariantValue, SetValue, CacheProperties, TimeOut, Store, askVars
    <3> QED
      BY <2>2, <2>4, <3>1, CallerCurrent
  <2>5. CASE DispatcherNext
    <3>1. UNCHANGED <<edits, known, writer>>
      BY <2>5 DEF DispatcherNext, ReadUntilReply, Dispatch, Enter, Find, Apply, updateVars
    <3> QED
      BY <2>2, <2>5, <3>1, DispatcherCurrent
  <2>6. CASE UNCHANGED cacheVars
    <3>1. UNCHANGED <<value, server, request, toClient, aside, updating, cache, valueSet, late, call,
                      edits, known, writer>>
      BY <2>6 DEF cacheVars, serverVars, clientVars
    <3> QED
      BY <2>2, <3>1, CallsOnly DEF Goes
  <2> QED
    BY <2>1, <2>3, <2>4, <2>5, <2>6 DEF CacheNext
<1>3. CurrentInv => CurrentWhenQuiet
  <2> SUFFICES ASSUME CurrentInv, Quiet, valueSet, ~late, edits = 0 PROVE cache = value
    BY DEF CurrentWhenQuiet
  <2>1. ~Unsent
    BY DEF Quiet, Unsent
  <2>2. ~HasNews(toClient) /\ ~HasNews(aside) /\ updating.pc = "idle"
    BY DEF Quiet, HasNews
  <2> QED
    BY <2>1, <2>2 DEF CurrentInv, NewsInv
<1> QED
  BY <1>1, <1>2, <1>3, RealInit, RealStep, CacheTypeCorrect, PTL DEF CacheSpec
=============================================================================
