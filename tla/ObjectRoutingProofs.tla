------------------------ MODULE ObjectRoutingProofs ------------------------
(***************************************************************************)
(* Invariance proofs for ObjectRouting, for any threads, paths and bound.  *)
(* TypeOK needs to know what the dispatching thread holds while it routes  *)
(* a call (RouteInv).  LiveObjectsStay rests on SweepInv: an expired entry *)
(* of m_threadDispatchers belongs to a thread that has ended, which stays  *)
(* true in spite of the empty entries operator[] makes, because an object  *)
(* is never left registered for a thread without an entry.                 *)
(***************************************************************************)
EXTENDS ObjectRouting, TLAPS

(* The dispatching thread has a call and, past the lookup, a thread. *)
RouteInv ==
    /\ dpc # "idle" => call \in Calls
    /\ dpc \in {"find", "push"} => target \in Threads

TypeInv == TypeOK /\ RouteInv

(* A thread that has ended has no dispatcher; an expired one, or one that a *)
(* sweep has taken out, is that of a thread that has ended; an exported     *)
(* object's thread, and the one whose dispatcher is looked up, has an entry *)
(* unless the sweep has just taken it out.                                  *)
SweepInv ==
    /\ \A t \in Threads :
          /\ disp[t] = "expired" => tpc[t].at = "ended"
          /\ tpc[t].at = "ended" => disp[t] # "live"
    /\ \A t \in invalid : tpc[t].at = "ended"
    /\ \A p \in Paths : handler[p] \in Threads =>
          disp[handler[p]] # "absent" \/ (dpc = "sweepPaths" /\ handler[p] \in invalid)
    /\ dpc = "find" => disp[target] # "absent"
    /\ dpc # "sweepPaths" => invalid = {}

(* Members of Calls and of ThreadStates. *)
LEMMA CallFacts ==
    /\ \A c \in Calls : c.id \in Ids /\ c.path \in Paths
    /\ \A i \in Ids, p \in Paths : [id |-> i, path |-> p] \in Calls
BY DEF Calls

LEMMA StateFacts ==
    /\ \A a \in {"run", "drain", "relock", "ended"} : At(a) \in ThreadStates
    /\ \A a \in {"handling", "blocked"}, c \in Calls :
          [at |-> a, call |-> c] \in ThreadStates
    /\ \A s \in ThreadStates : s.at \in {"handling", "blocked"} => s.call \in Calls
    /\ \A a : At(a).at = a
BY DEF ThreadStates, At

(* Every step of an application thread, of a thread dispatcher or of the    *)
(* dispatching thread keeps the types.                                      *)
LEMMA TypeStep == TypeInv /\ [Next]_vars => TypeInv'
<1> SUFFICES ASSUME TypeOK, RouteInv, [Next]_vars PROVE TypeOK' /\ RouteInv'
  BY DEF TypeInv
<1> USE RoutingAssumption, CallFacts, StateFacts
        DEF TypeOK, RouteInv, Goto, Running, threadVars, routeVars
<1>1. ASSUME NEW t \in Threads, AddThreadDispatcher(t) PROVE TypeOK' /\ RouteInv'
  BY <1>1 DEF AddThreadDispatcher
<1>2. ASSUME NEW t \in Threads, NEW p \in Paths, NEW u \in CallingThreads(t),
             RegisterObject(t, p, u)
      PROVE  TypeOK' /\ RouteInv'
  <2>1. bound' \in [Paths -> BOOLEAN]
    BY <1>2, Zenon DEF RegisterObject
  <2>2. handler' \in [Paths -> Threads \cup {Dispatcher, None}]
    BY <1>2 DEF RegisterObject, CallingThreads
  <2>3. pathLock' \in Threads \cup {None} /\ tpc' \in [Threads -> ThreadStates]
    <3>1. CASE bound[p]
      <4>1. pathLock' = t /\ Goto(t, "relock")
        BY <1>2, <3>1, Zenon DEF RegisterObject
      <4> QED
        BY <4>1
    <3>2. CASE ~bound[p]
      BY <1>2, <3>2 DEF RegisterObject
    <3> QED
      BY <3>1, <3>2
  <2>4. UNCHANGED <<disp, queue, busy, dpc, call, target, orphan, invalid, fate, calls>>
    BY <1>2 DEF RegisterObject
  <2> QED
    BY <2>1, <2>2, <2>3, <2>4
<1>3. ASSUME NEW t \in Threads, NEW p \in Paths, UnregisterObject(t, p)
      PROVE  TypeOK' /\ RouteInv'
  BY <1>3 DEF UnregisterObject
<1>4. ASSUME NEW t \in Threads, NEW p \in Paths, NEW u \in CallingThreads(t),
             ChangeObjectCallingThread(t, p, u)
      PROVE  TypeOK' /\ RouteInv'
  BY <1>4 DEF ChangeObjectCallingThread, CallingThreads
<1>5. ASSUME NEW t \in Threads, EndThread(t) PROVE TypeOK' /\ RouteInv'
  BY <1>5 DEF EndThread
<1>6. ASSUME NEW t \in Threads, SendMessages(t) PROVE TypeOK' /\ RouteInv'
  BY <1>6 DEF SendMessages
<1>7. ASSUME NEW t \in Threads, HandleMessage(t) PROVE TypeOK' /\ RouteInv'
  BY <1>7 DEF HandleMessage
<1>8. ASSUME NEW t \in Threads, MethodCallsBus(t) PROVE TypeOK' /\ RouteInv'
  BY <1>8 DEF MethodCallsBus
<1>9. ASSUME NEW t \in Threads, MethodResumes(t) PROVE TypeOK' /\ RouteInv'
  BY <1>9 DEF MethodResumes
<1>10. ASSUME NEW t \in Threads, MethodDone(t) PROVE TypeOK' /\ RouteInv'
  BY <1>10 DEF MethodDone
<1>11. ASSUME NEW t \in Threads, DrainDone(t) PROVE TypeOK' /\ RouteInv'
  BY <1>11 DEF DrainDone
<1>12. ASSUME NEW p \in Paths, CallArrives(p) PROVE TypeOK' /\ RouteInv'
  BY <1>12 DEF CallArrives, Route, Ids
<1>13. ASSUME Lookup PROVE TypeOK' /\ RouteInv'
  BY <1>13 DEF Lookup, Route, Settle, EndRoute
<1>14. ASSUME HandledHere PROVE TypeOK' /\ RouteInv'
  BY <1>14 DEF HandledHere, Route, Settle, EndRoute
<1>15. ASSUME FindDispatcher PROVE TypeOK' /\ RouteInv'
  BY <1>15 DEF FindDispatcher, Route
<1>16. ASSUME AddMessage PROVE TypeOK' /\ RouteInv'
  <2>1. target \in Threads /\ call \in Calls
    BY <1>16 DEF AddMessage
  <2>2. queue' \in [Threads -> Seq(Calls)]
    <3>1. Append(queue[target], call) \in Seq(Calls)
      BY <2>1
    <3> QED
      BY <1>16, <3>1 DEF AddMessage
  <2>3. fate' \in [Ids -> {"none", "routing", "queued", "answered", "ignored", "lost"}]
    BY <1>16, <2>1 DEF AddMessage, Settle
  <2>4. /\ dpc' = "idle" /\ call' = NoCall /\ target' = None /\ orphan' = FALSE
        /\ invalid' = {}
        /\ UNCHANGED <<handler, bound, pathLock, disp, busy, tpc, calls>>
    BY <1>16 DEF AddMessage, EndRoute, Route
  <2> QED
    BY <2>2, <2>3, <2>4
<1>17. ASSUME SweepDispatchers PROVE TypeOK' /\ RouteInv'
  BY <1>17 DEF SweepDispatchers, Route
<1>18. ASSUME SweepPaths PROVE TypeOK' /\ RouteInv'
  BY <1>18 DEF SweepPaths, Route, Settle, EndRoute
<1>19. ASSUME UNCHANGED vars PROVE TypeOK' /\ RouteInv'
  BY <1>19 DEF vars
<1> HIDE CallFacts, StateFacts DEF TypeOK, RouteInv
<1> QED
  BY <1>1, <1>2, <1>3, <1>4, <1>5, <1>6, <1>7, <1>8, <1>9, <1>10, <1>11, <1>12, <1>13,
     <1>14, <1>15, <1>16, <1>17, <1>18, <1>19
     DEF Next, ThreadStep, DrainStep, RouteStep

(* The initial state is well typed. *)
LEMMA InitType == Init => TypeInv
<1> SUFFICES ASSUME Init PROVE TypeOK /\ RouteInv
  BY DEF TypeInv
<1>1. bound \in [Paths -> BOOLEAN] /\ busy \in [Threads -> BOOLEAN]
  BY Zenon DEF Init
<1>2. queue \in [Threads -> Seq(Calls)] /\ tpc \in [Threads -> ThreadStates]
  BY StateFacts DEF Init
<1>3. fate \in [Ids -> {"none", "routing", "queued", "answered", "ignored", "lost"}]
  BY DEF Init
<1>4. /\ handler \in [Paths -> Threads \cup {Dispatcher, None}]
      /\ disp \in [Threads -> {"absent", "live", "expired"}]
      /\ calls \in 0..MaxCalls
  BY RoutingAssumption DEF Init
<1>5. /\ pathLock = None /\ target = None /\ dpc = "idle" /\ call = NoCall
      /\ orphan = FALSE /\ invalid = {}
  BY DEF Init
<1> QED
  BY <1>1, <1>2, <1>3, <1>4, <1>5 DEF TypeOK, RouteInv

(* The registry, the thread dispatchers' queues and the routing of calls    *)
(* keep their types.                                                        *)
THEOREM TypeCorrect == Spec => []TypeOK
<1>1. TypeInv => TypeOK
  BY DEF TypeInv
<1> QED
  BY <1>1, InitType, TypeStep, PTL DEF Spec

-----------------------------------------------------------------------------
(* Every step keeps expired and swept entries tied to ended threads. *)
LEMMA SweepStep == TypeInv /\ SweepInv /\ [Next]_vars => SweepInv'
<1> SUFFICES ASSUME TypeOK, RouteInv, SweepInv, [Next]_vars PROVE SweepInv'
  BY DEF TypeInv
<1> USE RoutingAssumption, StateFacts
        DEF TypeOK, RouteInv, SweepInv, Goto, Running, threadVars, routeVars
<1>1. ASSUME NEW t \in Threads, AddThreadDispatcher(t) PROVE SweepInv'
  BY <1>1 DEF AddThreadDispatcher
<1>2. ASSUME NEW t \in Threads, NEW p \in Paths, NEW u \in CallingThreads(t),
             RegisterObject(t, p, u)
      PROVE  SweepInv'
  <2>1. Running(t) /\ disp[t] = "live"
    BY <1>2 DEF RegisterObject
  <2>2. tpc' = tpc \/ tpc' = [tpc EXCEPT ![t] = At("relock")]
    <3>1. CASE bound[p]
      BY <1>2, <3>1, Zenon DEF RegisterObject
    <3>2. CASE ~bound[p]
      BY <1>2, <3>2 DEF RegisterObject
    <3> QED
      BY <3>1, <3>2
  <2>3. /\ handler' = [handler EXCEPT ![p] = u]
        /\ UNCHANGED <<disp, dpc, target, invalid>>
    BY <1>2 DEF RegisterObject
  <2>4. \A x \in Threads : tpc'[x].at = "ended" <=> tpc[x].at = "ended"
    <3>1. At("relock").at = "relock"
      BY DEF At
    <3>2. CASE tpc' = tpc
      BY <3>2
    <3>3. CASE tpc' = [tpc EXCEPT ![t] = At("relock")]
      BY <2>1, <3>1, <3>3
    <3> QED
      BY <2>2, <3>2, <3>3
  <2>5. \A q \in Paths : handler'[q] = handler[q] \/ handler'[q] \in {t, Dispatcher}
    BY <2>3 DEF CallingThreads
  <2>6. \A q \in Paths : handler'[q] \in Threads =>
          disp[handler'[q]] # "absent"
            \/ (dpc = "sweepPaths" /\ handler'[q] \in invalid)
    BY <2>1, <2>5
  <2> QED
    BY <2>3, <2>4, <2>6
<1>3. ASSUME NEW t \in Threads, NEW p \in Paths, UnregisterObject(t, p) PROVE SweepInv'
  BY <1>3 DEF UnregisterObject
<1>4. ASSUME NEW t \in Threads, NEW p \in Paths, NEW u \in CallingThreads(t),
             ChangeObjectCallingThread(t, p, u)
      PROVE  SweepInv'
  BY <1>4 DEF ChangeObjectCallingThread, CallingThreads
<1>5. ASSUME NEW t \in Threads, EndThread(t) PROVE SweepInv'
  BY <1>5 DEF EndThread
<1>6. ASSUME NEW t \in Threads, SendMessages(t) PROVE SweepInv'
  BY <1>6 DEF SendMessages
<1>7. ASSUME NEW t \in Threads, HandleMessage(t) PROVE SweepInv'
  BY <1>7 DEF HandleMessage
<1>8. ASSUME NEW t \in Threads, MethodCallsBus(t) PROVE SweepInv'
  BY <1>8 DEF MethodCallsBus
<1>9. ASSUME NEW t \in Threads, MethodResumes(t) PROVE SweepInv'
  BY <1>9 DEF MethodResumes
<1>10. ASSUME NEW t \in Threads, MethodDone(t) PROVE SweepInv'
  BY <1>10 DEF MethodDone
<1>11. ASSUME NEW t \in Threads, DrainDone(t) PROVE SweepInv'
  BY <1>11 DEF DrainDone
<1>12. ASSUME NEW p \in Paths, CallArrives(p) PROVE SweepInv'
  BY <1>12 DEF CallArrives, Route
<1>13. ASSUME Lookup PROVE SweepInv'
  BY <1>13, CallFacts DEF Lookup, Route, Settle, EndRoute
<1>14. ASSUME HandledHere PROVE SweepInv'
  BY <1>14 DEF HandledHere, Route, Settle, EndRoute
<1>15. ASSUME FindDispatcher PROVE SweepInv'
  BY <1>15 DEF FindDispatcher, Route
<1>16. ASSUME AddMessage PROVE SweepInv'
  <2>1. /\ dpc = "push" /\ dpc' = "idle" /\ invalid' = {}
        /\ UNCHANGED <<handler, disp, tpc>>
    BY <1>16 DEF AddMessage, Route, EndRoute
  <2> QED
    BY <2>1
<1>17. ASSUME SweepDispatchers PROVE SweepInv'
  BY <1>17 DEF SweepDispatchers, Route
<1>18. ASSUME SweepPaths PROVE SweepInv'
  BY <1>18 DEF SweepPaths, Route, EndRoute
<1>19. ASSUME UNCHANGED vars PROVE SweepInv'
  BY <1>19 DEF vars
<1> HIDE StateFacts DEF TypeOK, RouteInv, SweepInv
<1> QED
  BY <1>1, <1>2, <1>3, <1>4, <1>5, <1>6, <1>7, <1>8, <1>9, <1>10, <1>11, <1>12, <1>13,
     <1>14, <1>15, <1>16, <1>17, <1>18, <1>19
     DEF Next, ThreadStep, DrainStep, RouteStep

(* The sweep that follows a call to a thread without dispatcher unexports   *)
(* no object of a running thread that has its dispatcher in place.          *)
THEOREM LiveObjectsSafe == Spec => LiveObjectsStay
<1>1. Init => SweepInv
  BY RoutingAssumption, StateFacts DEF Init, SweepInv
<1>2. TypeInv /\ SweepInv /\ [Next]_vars =>
        [SweepPaths => \A p \in Paths :
           handler'[p] # handler[p] => disp[handler[p]] # "live"]_vars
  BY DEF TypeInv, TypeOK, SweepInv, SweepPaths
<1> QED
  BY <1>1, <1>2, InitType, TypeStep, SweepStep, PTL DEF Spec, LiveObjectsStay
=============================================================================
