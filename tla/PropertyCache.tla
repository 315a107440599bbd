--------------------------- MODULE PropertyCache ---------------------------
(***************************************************************************)
(* One D-Bus property, on both sides of the bus.  The owner keeps it in a  *)
(* Property of an Interface: set_value stores it and announces it with a   *)
(* PropertiesChanged signal, and handle_properties_message answers Get,    *)
(* GetAll and Set.  The client keeps a copy in a PropertyProxy of an       *)
(* InterfaceProxy, filled by three parties that know nothing of each       *)
(* other: the handler of PropertiesChanged on the dispatching thread, and  *)
(* the threads that call variant_value, set_value and cache_properties.    *)
(*                                                                         *)
(* Values are numbered in the order in which somebody first uses them; 0   *)
(* is the INVALID value of a property that was never set.                  *)
(***************************************************************************)
EXTENDS Integers, Sequences, FiniteSets

CONSTANTS Callers,      \* client threads other than the dispatching one
          Dispatcher,   \* the client's dispatching thread
          MaxValue,     \* values used
          MaxCalls,     \* calls and edits the client makes
          MaxEdits,     \* times it adds or removes the property
          Kinds         \* PropertyAccess and PropertyUpdateType of the property

ASSUME CacheAssumption ==
    /\ MaxValue \in Nat /\ MaxCalls \in Nat /\ MaxEdits \in Nat
    /\ Kinds \subseteq [access : {"ReadOnly", "ReadWrite", "WriteOnly"},
                        update : {"Const", "Updates"}]

Threads == Callers \cup {Dispatcher}
Servers == {"owner", "handler"}
Ops == {"Get", "GetAll", "Set"}

VARIABLES
    value, been,      \* the property's m_value, and every value it had
    made,             \* the values used so far
    access,           \* the property's PropertyAccess
    server,           \* Property::set_value on either thread, and the handler
    request,          \* the call the handler answers
    toServer, toClient,
    update,           \* the proxy's PropertyUpdateType
    cache, valueSet,  \* the proxy's m_value and m_valueSet
    late,             \* the last store came after a newer value had been seen
    known,            \* the proxy is in m_properties and has its interface
    call,             \* the calls in progress, one per thread
    serial,           \* calls made
    aside,            \* m_incomingMessages of the client's connection
    updating,         \* property_updated on the dispatching thread
    writer, edits,    \* a thread that adds or removes the property
    crashed
serverVars == <<value, been, access, server, request>>
clientVars == <<update, cache, valueSet, late, known, call, serial, aside, updating, writer,
                edits, crashed>>
cacheVars == <<serverVars, made, toServer, toClient, clientVars>>

Idle == [pc |-> "idle", val |-> 0]
NoCall == [pc |-> "idle", op |-> "Get", serial |-> 0, val |-> 0, stale |-> FALSE,
           passed |-> FALSE]
NoMessage == [kind |-> "none", serial |-> 0, val |-> 0, stale |-> FALSE]

CacheInit ==
    /\ value = 0 /\ been = {0} /\ made = 0
    /\ \E kind \in Kinds : access = kind.access /\ update = kind.update
    /\ server = [s \in Servers |-> Idle]
    /\ request = [op |-> "Get", serial |-> 0, val |-> 0]
    /\ toServer = <<>> /\ toClient = <<>>
    /\ cache = 0 /\ valueSet = FALSE /\ late = FALSE /\ known = TRUE
    /\ call = [t \in Threads |-> NoCall] /\ serial = 0 /\ aside = <<>>
    /\ updating = [pc |-> "idle", msg |-> NoMessage]
    /\ writer = "idle" /\ edits = 0 /\ crashed = FALSE

-----------------------------------------------------------------------------
(* The owner's side.                                                       *)

ServerStep(s, pc, val) == server' = [server EXCEPT ![s] = [pc |-> pc, val |-> val]]

(* PropertyBase::set_value, by the application; the Set handler does the    *)
(* same.                                                                   *)
OwnerSet ==
    /\ server["owner"].pc = "idle" /\ made < MaxValue
    /\ made' = made + 1 /\ value' = made + 1 /\ been' = been \cup {made + 1}
    /\ ServerStep("owner", "stored", 0)
    /\ UNCHANGED <<access, request, toServer, toClient, clientVars>>

(* Interface::property_updated reads the value again ... *)
Build(s) ==
    /\ server[s].pc = "stored"
    /\ ServerStep(s, "built", value)
    /\ UNCHANGED <<value, been, access, request, made, toServer, toClient, clientVars>>

(* ... and sends it, by then perhaps not the newest.                        *)
Signal(val) == [kind |-> "changed", serial |-> 0, val |-> val, stale |-> val # value]
Emit(s) ==
    /\ server[s].pc = "built"
    /\ toClient' = Append(toClient, Signal(server[s].val))
    /\ ServerStep(s, IF s = "owner" THEN "idle" ELSE "done", 0)
    /\ UNCHANGED <<value, been, access, request, made, toServer, clientVars>>

Readable == value # 0 /\ access # "WriteOnly"
Writable == value # 0 /\ access # "ReadOnly"
(* Mutant: Set stores the value and does not announce it. *)
HandleQuietly ==
    /\ server["handler"].pc = "idle" /\ toServer # <<>>
    /\ request' = Head(toServer) /\ toServer' = Tail(toServer)
    /\ IF request'.op = "Set"
       THEN /\ Writable /\ value' = request'.val /\ been' = been \cup {request'.val}
            /\ ServerStep("handler", "done", 0)
       ELSE /\ ServerStep("handler", IF Readable THEN "answer" ELSE "error", value)
            /\ UNCHANGED <<value, been>>
    /\ UNCHANGED <<access, made, toClient, clientVars>>
(* Interface::handle_properties_message. *)
Handle ==
    /\ server["handler"].pc = "idle" /\ toServer # <<>>
    /\ request' = Head(toServer) /\ toServer' = Tail(toServer)
    /\ \/ /\ request'.op = "Get"
          /\ ServerStep("handler", IF Readable THEN "answer" ELSE "error", value)
          /\ UNCHANGED <<value, been>>
       \/ /\ request'.op = "GetAll"
          /\ ServerStep("handler", "answer", IF Readable THEN value ELSE 0)
          /\ UNCHANGED <<value, been>>
       \/ /\ request'.op = "Set" /\ Writable
          /\ value' = request'.val /\ been' = been \cup {request'.val}
          /\ ServerStep("handler", "stored", 0)
       \/ /\ request'.op = "Set" /\ ~Writable
          /\ ServerStep("handler", "error", 0)
          /\ UNCHANGED <<value, been>>
    /\ UNCHANGED <<access, made, toClient, clientVars>>

Answer ==
    LET h == server["handler"] IN
    /\ h.pc \in {"answer", "error", "done"}
    /\ toClient' = Append(toClient,
            [kind |-> IF h.pc = "error" THEN "error" ELSE "return",
             serial |-> request.serial, val |-> h.val,
             stale |-> h.pc = "answer" /\ h.val # value])
    /\ ServerStep("handler", "idle", 0)
    /\ UNCHANGED <<value, been, access, request, made, toServer, clientVars>>

-----------------------------------------------------------------------------
(* The client's calls.                                                     *)

Free(t) ==
    /\ ~crashed /\ call[t].pc = "idle" /\ serial + edits < MaxCalls
    /\ t = Dispatcher => updating.pc = "idle"
Ask(t, op, val) ==
    /\ serial' = serial + 1
    /\ toServer' = Append(toServer, [op |-> op, serial |-> serial + 1, val |-> val])
    /\ call' = [call EXCEPT ![t] = [NoCall EXCEPT !.pc = "wait", !.op = op,
                                                  !.serial = serial + 1, !.val = val]]
askVars == <<serverVars, toClient, update, cache, valueSet, late, known, aside, updating, writer,
             edits>>

(* PropertyProxyBase::variant_value, when it has to ask. *)
VariantValue(t) ==
    /\ Free(t) /\ ~valueSet /\ known
    /\ Ask(t, "Get", 0)
    /\ UNCHANGED <<askVars, made, crashed>>

(* PropertyProxyBase::set_value: without an interface it is a null pointer. *)
SetValue(t) ==
    /\ Free(t) /\ update # "Const" /\ made < MaxValue
    /\ made' = made + 1
    /\ IF known THEN Ask(t, "Set", made + 1) /\ UNCHANGED crashed
       ELSE crashed' = TRUE /\ UNCHANGED <<serial, toServer, call>>
    /\ UNCHANGED askVars

(* InterfaceProxy::cache_properties. *)
CacheProperties(t) ==
    /\ Free(t)
    /\ Ask(t, "GetAll", 0)
    /\ UNCHANGED <<askVars, made, crashed>>

(* The call throws: no reply in time. *)
TimeOut(t) ==
    /\ ~crashed /\ call[t].pc = "wait"
    /\ call' = [call EXCEPT ![t] = NoCall]
    /\ UNCHANGED <<serverVars, made, toServer, toClient, update, cache, valueSet, late, known,
                   serial, aside, updating, writer, edits, crashed>>

(* When the shared lock of m_properties_rwlock is granted.  This is the     *)
(* platform's rule, not this code's: the rwlock of glibc, which             *)
(* std::shared_mutex is made of, prefers readers.  With one that lets a     *)
(* waiting writer go first, property_updated's second shared lock (in       *)
(* property()) would wait for the writer, and the writer for it.            *)
SharedFree == writer \notin {"adding", "removing"}

(* updated_value. *)
Update(val, isLate) == cache' = val /\ valueSet' = TRUE /\ late' = isLate

(* What the three callers do with the reply. *)
Store(t) ==
    LET c == call[t] IN
    /\ ~crashed /\ c.pc = "got"
    /\ call' = [call EXCEPT ![t] = NoCall]
    /\ \/ /\ c.op = "Get"
          /\ Update(c.val, c.stale \/ c.passed)
          /\ UNCHANGED crashed
       \/ /\ c.op = "Set"
          /\ cache' = c.val /\ late' = c.passed
          /\ UNCHANGED <<valueSet, crashed>>
       \/ /\ c.op = "GetAll" /\ SharedFree
          /\ IF c.val # 0 /\ known THEN Update(c.val, c.stale \/ c.passed)
             ELSE UNCHANGED <<cache, valueSet, late>>
          /\ crashed' = (c.val # 0 /\ ~known)
    /\ UNCHANGED <<serverVars, made, toServer, toClient, update, known, serial, aside, updating,
                   writer, edits>>

-----------------------------------------------------------------------------
(* The client's dispatching thread.                                        *)

IsReply(m) == m.kind \in {"return", "error"}
(* Mutant: an error ends the call like an answer. *)
ReceivedAny(c, m) ==
    [c EXCEPT !.pc = "got", !.val = IF c.op = "Set" THEN @ ELSE m.val, !.stale = m.stale]
(* A reply ends the call: an error is thrown. *)
Received(c, m) ==
    IF m.kind = "error" THEN NoCall
    ELSE [c EXCEPT !.pc = "got", !.val = IF c.op = "Set" THEN @ ELSE m.val, !.stale = m.stale]

(* A blocking call on this thread reads until its reply comes, and sets the *)
(* other messages aside.                                                    *)
ReadUntilReply ==
    LET c == call[Dispatcher]
        m == Head(toClient)
        mine == IsReply(m) /\ m.serial = c.serial
    IN
    /\ ~crashed /\ c.pc = "wait" /\ toClient # <<>>
    /\ toClient' = Tail(toClient)
    /\ call' = IF mine THEN [call EXCEPT ![Dispatcher] = Received(c, m)] ELSE call
    /\ aside' = IF mine THEN aside ELSE Append(aside, m)
    /\ UNCHANGED <<serverVars, made, toServer, update, cache, valueSet, late, known, serial,
                   updating, writer, edits, crashed>>

(* Connection::dispatch takes one message, older ones first. *)
Dispatch ==
    LET m == Head(aside \o toClient)
        asked(t) == IsReply(m) /\ call[t].pc = "wait" /\ call[t].serial = m.serial
    IN
    /\ ~crashed /\ updating.pc = "idle" /\ call[Dispatcher].pc = "idle"
    /\ aside \o toClient # <<>>
    /\ IF aside # <<>> THEN aside' = Tail(aside) /\ UNCHANGED toClient
       ELSE toClient' = Tail(toClient) /\ UNCHANGED aside
    /\ call' = [t \in Threads |-> IF asked(t) THEN Received(call[t], m) ELSE call[t]]
    /\ updating' = IF IsReply(m) THEN updating ELSE [pc |-> "enter", msg |-> m]
    /\ UNCHANGED <<serverVars, made, toServer, update, cache, valueSet, late, known, serial,
                   writer, edits, crashed>>

updateVars == <<serverVars, made, toServer, toClient, update, known, serial, aside, writer,
                edits, crashed>>
Goto(pc) == updating' = [updating EXCEPT !.pc = pc]
(* The signal has another value than the one that the call sets, or an old one. *)
Passes(m, c) == c.op # "Set" \/ c.val # m.val \/ m.stale

(* InterfaceProxy::property_updated locks m_properties_rwlock, and so does *)
(* property(), which it calls.                                             *)
Enter ==
    /\ updating.pc = "enter" /\ SharedFree
    /\ Goto("find")
    /\ UNCHANGED <<updateVars, cache, valueSet, late, call>>
Find ==
    /\ updating.pc = "find" /\ SharedFree
    /\ Goto(IF known THEN "apply" ELSE "idle")
    /\ UNCHANGED <<updateVars, cache, valueSet, late, call>>
Apply ==
    /\ updating.pc = "apply"
    /\ Update(updating.msg.val, updating.msg.stale)
    /\ call' = [t \in Threads |-> IF call[t].pc = "idle" THEN call[t]
                                  ELSE [call[t] EXCEPT !.passed = Passes(updating.msg, call[t])]]
    /\ Goto("idle")
    /\ UNCHANGED updateVars

-----------------------------------------------------------------------------
(* add_property and remove_property( name ) on another thread.              *)

editVars == <<serverVars, made, toServer, toClient, update, cache, valueSet, late, call, serial,
              aside, updating, crashed>>
Reading == updating.pc \in {"find", "apply"}
AddProperty ==
    /\ writer = "idle" /\ ~known /\ edits < MaxEdits /\ serial + edits < MaxCalls
    /\ writer' = "add" /\ edits' = edits + 1
    /\ UNCHANGED <<editVars, known>>
RemoveProperty ==
    /\ writer = "idle" /\ known /\ edits < MaxEdits /\ serial + edits < MaxCalls
    /\ writer' = "remove" /\ edits' = edits + 1
    /\ UNCHANGED <<editVars, known>>
WriterLock ==
    /\ writer \in {"add", "remove"} /\ ~Reading
    /\ writer' = IF writer = "add" THEN "adding" ELSE "removing"
    /\ UNCHANGED <<editVars, known, edits>>
WriterUnlock ==
    /\ writer \in {"adding", "removing"}
    /\ known' = (writer = "adding")
    /\ writer' = "idle"
    /\ UNCHANGED <<editVars, edits>>

-----------------------------------------------------------------------------
ServerNext == OwnerSet \/ Handle \/ Answer \/ \E s \in Servers : Build(s) \/ Emit(s)
CallerNext(t) ==
    VariantValue(t) \/ SetValue(t) \/ CacheProperties(t) \/ TimeOut(t) \/ Store(t)
DispatcherNext == ReadUntilReply \/ Dispatch \/ Enter \/ Find \/ Apply
WriterNext == AddProperty \/ RemoveProperty \/ WriterLock \/ WriterUnlock
CacheNext == ServerNext \/ (\E t \in Threads : CallerNext(t)) \/ DispatcherNext \/ WriterNext

CacheSpec == CacheInit /\ [][CacheNext]_cacheVars

-----------------------------------------------------------------------------
Values == 0 .. MaxValue
ServerMessages == [kind : {"changed", "return", "error", "none"}, serial : 0 .. MaxCalls,
                   val : Values, stale : BOOLEAN]
Requests == [op : Ops, serial : 0 .. MaxCalls, val : Values]
CallStates == [pc : {"idle", "wait", "got"}, op : Ops, serial : 0 .. MaxCalls, val : Values,
               stale : BOOLEAN, passed : BOOLEAN]
ServerStates == [pc : {"idle", "stored", "built", "answer", "error", "done"}, val : Values]
CacheTypeOK ==
    /\ value \in Values /\ been \subseteq Values /\ made \in Values
    /\ access \in {"ReadOnly", "ReadWrite", "WriteOnly"}
    /\ server \in [Servers -> ServerStates]
    /\ request \in Requests /\ toServer \in Seq(Requests)
    /\ toClient \in Seq(ServerMessages) /\ aside \in Seq(ServerMessages)
    /\ update \in {"Const", "Updates"}
    /\ cache \in Values /\ valueSet \in BOOLEAN /\ late \in BOOLEAN /\ known \in BOOLEAN
    /\ call \in [Threads -> CallStates] /\ serial \in 0 .. MaxCalls
    /\ updating \in [pc : {"idle", "enter", "find", "apply"}, msg : ServerMessages]
    /\ writer \in {"idle", "add", "remove", "adding", "removing"}
    /\ edits \in 0 .. MaxEdits /\ crashed \in BOOLEAN

(* The proxy never holds a value the property did not have: not that of a   *)
(* Set that was refused or that had no reply, and not that of a call that   *)
(* another thread made.                                                     *)
CacheWasReal == cache \in been

(* When nothing is on its way the proxy holds the value of the property,    *)
(* however the signals, the replies and the stores of the calling threads   *)
(* were interleaved, with two exceptions, which "late" records: the owner   *)
(* sent a value when another of its threads had stored a newer one, or a    *)
(* thread of the client stored the reply to a call during which the         *)
(* dispatching thread stored a signal's value, other than the one that the  *)
(* call had set.                                                            *)
Quiet ==
    /\ \A s \in Servers : server[s].pc = "idle"
    /\ toServer = <<>> /\ toClient = <<>> /\ aside = <<>>
    /\ \A t \in Threads : call[t].pc = "idle"
    /\ updating.pc = "idle"
CurrentWhenQuiet == (Quiet /\ valueSet /\ ~late /\ edits = 0) => cache = value
=============================================================================
