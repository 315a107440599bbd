-------------------------- MODULE SignalRegistry --------------------------
(***************************************************************************)
(* The signal proxies of a connection.  A free signal proxy is in          *)
(* m_freeProxySignals with the thread that handles it and, when that is    *)
(* not the dispatching thread, in the handlers of that thread's            *)
(* dispatcher; a signal proxy of an InterfaceProxy is in its m_signals.    *)
(* The bus has the match rules, and sends the connection each signal that  *)
(* one of them selects once.                                               *)
(*                                                                         *)
(* add_free_signal_proxy and remove_free_signal_proxy change these places  *)
(* one after the other, and the call to the bus can fail: between two      *)
(* steps the dispatching thread may process a signal.                      *)
(***************************************************************************)
EXTENDS Integers, Sequences, FiniteSets, SequencesExt

CONSTANTS Looper,       \* a thread that has a thread dispatcher
          Plain,        \* a thread that has none
          DispThread,   \* the dispatching thread
          FreeProxies, MemberProxies,
          Rules,        \* match rules
          RuleOf,       \* the rule of each proxy: it is chosen when it is made
          MaxSignals,   \* signals that the bus sends
          MaxOps,       \* operations of the application
          MaxFailures   \* calls to the bus that fail

ASSUME SignalAssumption ==
    /\ FreeProxies \cap MemberProxies = {} /\ IsFiniteSet(FreeProxies \cup MemberProxies)
    /\ 0 \notin FreeProxies \cup MemberProxies
    /\ RuleOf \in [FreeProxies \cup MemberProxies -> Rules]
    /\ DispThread # Looper
    /\ {MaxSignals, MaxOps, MaxFailures} \subseteq Nat

Apps == {Looper, Plain}
SignalProxies == FreeProxies \cup MemberProxies
SignalIds == 1 .. MaxSignals

VARIABLES
    free,          \* m_freeProxySignals, with the handling threads
    handlers,      \* the signal proxies of Looper's dispatcher
    queue,         \* the signals of Looper's dispatcher
    members,       \* m_signals of the interface proxy
    memberThread,  \* the handling thread of its object proxy
    bound,         \* the proxies whose connection is set
    rules,         \* how often the bus has each match rule
    inbox,         \* signals the connection has received
    rule,          \* the rule that each signal sent meets
    current,       \* process_signal_message: step, signal, proxies still to call
                   \* and their places in the list
    looping,       \* the signal Looper's dispatcher is handling, 0 if none
    op,            \* the operation of each application thread
    ops, failures, \* operations begun, calls to the bus that failed
    handled,       \* the signals each proxy handled, and on which thread
    \* What happened before, for the properties.
    gone,          \* proxies whose removal has succeeded
    unruly,        \* proxies with an operation that failed half-way
    stray,         \* rules whose removal was asked for without need
    raced          \* Looper's handlers were changed while it went through them

signalVars == <<free, handlers, queue, members, memberThread, bound, rules, inbox, rule, current,
                looping, op, ops, failures, handled, gone, unruly, stray, raced>>
history == <<failures, handled, gone, unruly, stray, raced>>

NoOp == [pc |-> "idle", proxy |-> 0, thread |-> 0, adds |-> FALSE]
NotProcessing == [pc |-> "idle", signal |-> 0, todo |-> {}]

SignalInit ==
    /\ free = <<>> /\ handlers = <<>> /\ queue = <<>> /\ members = {}
    /\ memberThread = DispThread /\ bound = {}
    /\ rules = [r \in Rules |-> 0]
    /\ inbox = <<>> /\ rule = <<>>
    /\ current = NotProcessing /\ looping = 0
    /\ op = [t \in Apps |-> NoOp] /\ ops = 0 /\ failures = 0
    /\ handled = [p \in SignalProxies |-> <<>>]
    /\ gone = {} /\ unruly = {} /\ stray = {} /\ raced = FALSE

-----------------------------------------------------------------------------
(* add_free_signal_proxy and remove_free_signal_proxy.                     *)

SetOp(t, o) == op' = [op EXCEPT ![t] = o]
InUse(p) == \E t \in Apps : op[t].proxy = p
Entries(p) == {i \in DOMAIN free : free[i].handler = p}
(* rest is list without the first of the entries at I. *)
LosesFirst(list, I, rest) ==
    \/ I = {} /\ rest = list
    \/ \E i \in I : (\A j \in I : i <= j) /\ rest = RemoveAt(list, i)

registers == <<free, handlers, members, memberThread, bound, rules>>
signalling == <<queue, inbox, rule, current, looping>>

(* Mutant: the connection that the proxy already has is not looked at. *)
BeginAddAgain(t, p, thread) ==
    /\ op[t].pc = "idle" /\ ops < MaxOps /\ ~InUse(p)
    /\ t = Looper => looping = 0
    /\ thread \in {t, DispThread}
    /\ ops' = ops + 1
    /\ SetOp(t, [pc |-> "push", proxy |-> p, thread |-> thread, adds |-> TRUE])
    /\ UNCHANGED <<registers, signalling, history>>

(* A proxy that has a connection is removed from it first. *)
BeginAdd(t, p, thread) ==
    /\ op[t].pc = "idle" /\ ops < MaxOps /\ ~InUse(p)
    /\ t = Looper => looping = 0
    /\ thread \in {t, DispThread}
    /\ ops' = ops + 1
    /\ SetOp(t, [pc |-> IF p \in bound THEN "unmatch" ELSE "push", proxy |-> p,
                 thread |-> thread, adds |-> TRUE])
    /\ UNCHANGED <<registers, signalling, history>>
BeginRemove(t, p) ==
    /\ op[t].pc = "idle" /\ ops < MaxOps /\ ~InUse(p)
    /\ t = Looper => looping = 0
    /\ ops' = ops + 1
    /\ SetOp(t, [pc |-> "unmatch", proxy |-> p, thread |-> t, adds |-> FALSE])
    /\ UNCHANGED <<registers, signalling, history>>

Push(t) ==
    LET o == op[t] IN
    /\ o.pc = "push" /\ current.pc # "free"
    /\ free' = Append(free, [handler |-> o.proxy, thread |-> o.thread])
    /\ SetOp(t, [o EXCEPT !.pc = IF o.thread = DispThread THEN "match" ELSE "hand"])
    /\ gone' = gone \ {o.proxy}
    /\ UNCHANGED <<handlers, members, memberThread, bound, rules, signalling, ops, failures, handled,
                   unruly, stray, raced>>

(* The proxy is given to the dispatcher of the calling thread.  Without one *)
(* the call returns null, and leaves the proxy in m_freeProxySignals.       *)
Hand(t) ==
    LET o == op[t] IN
    /\ o.pc = "hand"
    /\ IF t = Looper
       THEN /\ handlers' = Append(handlers, o.proxy)
            /\ SetOp(t, [o EXCEPT !.pc = "match"])
            /\ UNCHANGED unruly
       ELSE /\ SetOp(t, NoOp)
            /\ unruly' = unruly \cup {o.proxy}
            /\ UNCHANGED handlers
    /\ UNCHANGED <<free, members, memberThread, bound, rules, signalling, ops, failures, handled, gone,
                   stray, raced>>

(* Mutant: a rule that the bus already has is not added again. *)
MatchOnce(t) ==
    LET o == op[t]
        r == RuleOf[o.proxy] IN
    /\ o.pc = "match"
    /\ SetOp(t, NoOp)
    /\ rules' = [rules EXCEPT ![r] = 1]
    /\ bound' = IF o.adds THEN bound \cup {o.proxy} ELSE bound
    /\ UNCHANGED <<free, handlers, members, memberThread, signalling, ops, failures, handled, gone,
                   unruly, stray, raced>>

(* Connection::add_match is a blocking call.  It throws when the bus        *)
(* refuses the rule, and also when its answer does not come in time.        *)
Match(t) ==
    LET o == op[t]
        r == RuleOf[o.proxy] IN
    /\ o.pc = "match"
    /\ SetOp(t, NoOp)
    /\ \/ /\ rules' = [rules EXCEPT ![r] = @ + 1]
          /\ bound' = IF o.adds THEN bound \cup {o.proxy} ELSE bound
          /\ UNCHANGED <<unruly, failures>>
       \/ /\ failures < MaxFailures /\ failures' = failures + 1
          /\ rules' \in {rules, [rules EXCEPT ![r] = @ + 1]}
          /\ unruly' = unruly \cup {o.proxy}
          /\ UNCHANGED bound
    /\ UNCHANGED <<free, handlers, members, memberThread, signalling, ops, handled, gone, stray,
                   raced>>

(* Connection::remove_match, which throws when the bus has no such rule and *)
(* when its answer does not come in time.                                   *)
Unmatch(t) ==
    LET o == op[t]
        r == RuleOf[o.proxy]
        less == [rules EXCEPT ![r] = @ - 1]
    IN
    /\ o.pc = "unmatch"
    /\ \/ /\ rules[r] > 0 /\ rules' = less
          /\ SetOp(t, [o EXCEPT !.pc = "erase"])
          /\ UNCHANGED <<unruly, failures>>
       \/ /\ rules[r] > 0 /\ failures < MaxFailures /\ failures' = failures + 1
          /\ rules' \in {rules, less}
          /\ SetOp(t, NoOp)
          /\ unruly' = unruly \cup {o.proxy}
       \/ /\ rules[r] = 0
          /\ UNCHANGED <<rules, failures>>
          /\ SetOp(t, NoOp)
          /\ unruly' = unruly \cup {o.proxy}
    /\ stray' = IF Entries(o.proxy) = {} \/ o.proxy \in unruly \/ o.proxy \notin bound
                THEN stray \cup {r} ELSE stray
    /\ UNCHANGED <<free, handlers, members, memberThread, bound, signalling, ops, handled, gone,
                   raced>>

(* Mutant: without m_freeProxySignalsLock. *)
EraseFreeUnlocked(t) ==
    LET o == op[t] IN
    /\ o.pc = "erase"
    /\ free' = SelectSeq(free, LAMBDA e : e.handler # o.proxy)
    /\ SetOp(t, [o EXCEPT !.pc = "unhand"])
    /\ UNCHANGED <<handlers, members, memberThread, bound, rules, signalling, ops, history>>

(* Both lists lose the first entry of the proxy. *)
EraseFree(t) ==
    LET o == op[t] IN
    /\ o.pc = "erase" /\ current.pc # "free"
    /\ LosesFirst(free, Entries(o.proxy), free')
    /\ SetOp(t, [o EXCEPT !.pc = "unhand"])
    /\ UNCHANGED <<handlers, members, memberThread, bound, rules, signalling, ops, history>>
EraseHandler(t) ==
    LET o == op[t] IN
    /\ o.pc = "unhand"
    /\ LosesFirst(handlers, {i \in DOMAIN handlers : handlers[i] = o.proxy}, handlers')
    /\ SetOp(t, IF o.adds THEN [o EXCEPT !.pc = "push"] ELSE NoOp)
    /\ raced' = (raced \/ (looping # 0 /\ handlers' # handlers))
    /\ gone' = IF o.adds \/ o.proxy \in ToSet(handlers') \/ Entries(o.proxy) # {} THEN gone
               ELSE gone \cup {o.proxy}
    /\ UNCHANGED <<free, members, memberThread, bound, rules, signalling, ops, failures, handled, unruly,
                   stray>>

-----------------------------------------------------------------------------
(* The signals of an interface proxy.                                      *)

(* InterfaceProxy::add_signal. *)
AddSignal(t, p) ==
    /\ op[t].pc = "idle" /\ ops < MaxOps /\ ~InUse(p) /\ p \notin members
    /\ t = Looper => looping = 0
    /\ ops' = ops + 1
    /\ members' = members \cup {p} /\ gone' = gone \ {p}
    /\ SetOp(t, [NoOp EXCEPT !.pc = "match", !.proxy = p])
    /\ UNCHANGED <<free, handlers, memberThread, bound, rules, signalling, failures, handled, unruly,
                   stray, raced>>

(* InterfaceProxy::remove_signal: the rule stays. *)
RemoveSignal(t, p) ==
    /\ op[t].pc = "idle" /\ ops < MaxOps /\ ~InUse(p) /\ p \in members
    /\ t = Looper => looping = 0
    /\ ops' = ops + 1
    /\ members' = members \ {p}
    /\ UNCHANGED <<free, handlers, memberThread, bound, rules, signalling, op, history>>

(* change_object_proxy_calling_thread. *)
ChangeThread(t, thread) ==
    /\ op[t].pc = "idle" /\ ops < MaxOps
    /\ t = Looper => looping = 0
    /\ thread \in {t, DispThread} /\ thread # memberThread
    /\ ops' = ops + 1
    /\ memberThread' = thread
    /\ UNCHANGED <<free, handlers, members, bound, rules, signalling, op, history>>

-----------------------------------------------------------------------------
(* Signals come in.                                                        *)

(* The bus sends a signal to a connection that has a rule for it. *)
BusSends(r) ==
    /\ Len(rule) < MaxSignals /\ rules[r] > 0
    /\ rule' = Append(rule, r)
    /\ inbox' = Append(inbox, Len(rule'))
    /\ UNCHANGED <<registers, queue, current, looping, op, ops, history>>

(* SignalProxyBase::handle_signal, with matches. *)
Handling(ps, s, t) == [p \in SignalProxies |->
    IF p \in ps /\ RuleOf[p] = rule[s] THEN Append(handled[p], [thread |-> t, signal |-> s])
    ELSE handled[p]]

CallNext(phase) ==
    /\ current.pc = phase
    /\ \E c \in current.todo :
          /\ \A d \in current.todo : c.at <= d.at
          /\ handled' = Handling({c.proxy}, current.signal, DispThread)
          /\ current' = [current EXCEPT !.todo = @ \ {c}]
    /\ UNCHANGED <<registers, queue, inbox, rule, looping, op, ops, failures, gone, unruly, stray, raced>>

(* process_signal_message.  It calls the free proxies of its own thread     *)
(* with m_freeProxySignalsLock held, one after the other ...                *)
StartSignal ==
    /\ current.pc = "idle" /\ inbox # <<>>
    /\ inbox' = Tail(inbox)
    /\ current' = [pc |-> "free", signal |-> Head(inbox),
                   todo |-> {[at |-> i, proxy |-> free[i].handler] :
                                i \in {j \in DOMAIN free : free[j].thread = DispThread}}]
    /\ UNCHANGED <<registers, queue, rule, looping, op, ops, history>>
CallFree == CallNext("free")

(* ... copies the proxies of the object proxies of its thread, which are in *)
(* no order, and calls them without a lock ...                              *)
CopyMembers ==
    /\ current.pc = "free" /\ current.todo = {}
    /\ current' = [current EXCEPT !.pc = "members",
                     !.todo = IF memberThread = DispThread
                              THEN [at : {0}, proxy : members] ELSE {}]
    /\ UNCHANGED <<registers, queue, inbox, rule, looping, op, ops, history>>
CallMember == CallNext("members")

(* ... and gives the signal to the thread dispatchers.  add_signal waits    *)
(* for Looper's m_signalsMutex.                                             *)
Share ==
    /\ current.pc = "members" /\ current.todo = {} /\ looping = 0
    /\ queue' = Append(queue, current.signal)
    /\ current' = NotProcessing
    /\ UNCHANGED <<registers, inbox, rule, looping, op, ops, history>>

(* Mutant: the queue is emptied for one signal. *)
LoopTakeAll ==
    /\ looping = 0 /\ queue # <<>> /\ op[Looper].pc = "idle"
    /\ looping' = Head(queue) /\ queue' = <<>>
    /\ UNCHANGED <<registers, inbox, rule, current, op, ops, history>>

(* QtThreadDispatcher::sendMessages, on Looper, with m_signalsMutex held. *)
LoopTake ==
    /\ looping = 0 /\ queue # <<>> /\ op[Looper].pc = "idle"
    /\ looping' = Head(queue) /\ queue' = Tail(queue)
    /\ UNCHANGED <<registers, inbox, rule, current, op, ops, history>>
LoopCall ==
    /\ looping # 0
    /\ handled' = Handling(ToSet(handlers), looping, Looper)
    /\ looping' = 0
    /\ UNCHANGED <<registers, queue, inbox, rule, current, op, ops, failures, gone, unruly, stray, raced>>

-----------------------------------------------------------------------------
AppStep(t) ==
    \/ \E p \in FreeProxies, thread \in {t, DispThread} : BeginAdd(t, p, thread)
    \/ \E p \in FreeProxies : BeginRemove(t, p)
    \/ Push(t) \/ Hand(t) \/ Match(t) \/ Unmatch(t) \/ EraseFree(t) \/ EraseHandler(t)
    \/ \E p \in MemberProxies : AddSignal(t, p) \/ RemoveSignal(t, p)
    \/ \E thread \in {t, DispThread} : ChangeThread(t, thread)
Dispatching == StartSignal \/ CallFree \/ CopyMembers \/ CallMember \/ Share
Looping == LoopTake \/ LoopCall
SignalNext ==
    (\E t \in Apps : AppStep(t)) \/ (\E r \in Rules : BusSends(r)) \/ Dispatching \/ Looping

(* The dispatching thread and Looper's event loop run, and an operation     *)
(* that was begun goes on.                                                  *)
SignalFairness ==
    /\ WF_signalVars(Dispatching) /\ WF_signalVars(Looping)
    /\ \A t \in Apps : WF_signalVars(Push(t) \/ Hand(t) \/ Match(t) \/ Unmatch(t)
                                     \/ EraseFree(t) \/ EraseHandler(t))
SignalSpec == SignalInit /\ [][SignalNext]_signalVars /\ SignalFairness

-----------------------------------------------------------------------------
(* A thread calls a proxy at most once for a signal, and for signals in the *)
(* order in which they came, while proxies are added, removed or moved to   *)
(* another thread.  (A proxy that is moved while a signal is processed can  *)
(* be called by both threads.)  The exception is a proxy whose registration *)
(* failed half-way: it is left in m_freeProxySignals.                       *)
HandledOnceInOrder ==
    \A p \in SignalProxies \ unruly :
        \A i, j \in DOMAIN handled[p] :
            (i < j /\ handled[p][i].thread = handled[p][j].thread)
                => handled[p][i].signal < handled[p][j].signal

(* Each proxy that is registered has a rule of its own at the bus, so       *)
(* removing one of several proxies with equal rules leaves the signals of   *)
(* the others.  It is so until an operation on a proxy with that rule fails *)
(* half-way, or somebody removes a proxy that is not registered.            *)
Registered(p) == ~InUse(p) /\ ((p \in bound /\ Entries(p) # {}) \/ p \in members)
RulesKept ==
    \A r \in Rules \ stray :
        (\A p \in unruly : RuleOf[p] # r)
            => rules[r] >= Cardinality({p \in SignalProxies : Registered(p) /\ RuleOf[p] = r})

(* A free proxy is not called after remove_free_signal_proxy has removed    *)
(* it: in particular the signals that wait for the thread's event loop at   *)
(* that time do not reach it.                                               *)
RemovedStaysQuiet ==
    [][\A p \in FreeProxies : (p \in gone /\ ~raced) => handled'[p] = handled[p]]_signalVars

(* A signal that the dispatching thread takes reaches each free proxy that  *)
(* is registered for it, on either thread.                                  *)
Settled(p) == p \notin unruly /\ Registered(p)
SignalsReachProxies ==
    \A p \in FreeProxies, s \in SignalIds :
        (current.pc = "free" /\ current.signal = s /\ RuleOf[p] = rule[s] /\ Settled(p))
            ~> ((\E e \in ToSet(handled[p]) : e.signal = s) \/ ~Settled(p) \/ raced)
=============================================================================
