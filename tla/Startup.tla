----------------------------- MODULE Startup -----------------------------
(***************************************************************************)
(* From a bus address to a connection that sends: the address is parsed,   *)
(* its transports are tried in order, the socket is authenticated line by  *)
(* line, the connection says Hello, and messages are written to a socket   *)
(* that takes all of a message, a part of it or nothing.                   *)
(*                                                                         *)
(* An address is a sequence of tokens: the separators, and words.          *)
(***************************************************************************)
EXTENDS Integers, Sequences, FiniteSets, SequencesExt

CONSTANTS Addresses,    \* addresses that are tried
          MaxMessages,  \* messages written
          MaxHellos     \* calls of bus_register

(* A name ends at the first colon, a key at the first equals sign, a value   *)
(* at a comma or semicolon.  The parser reads over the end of a transport   *)
(* that has no key, so only the last one may be such.                       *)
Tokens == STRING \ {""}
Pairs == [key : Tokens \ {"="}, value : Tokens \ {",", ";"}]
Transports == [name : Tokens \ {":"}, pairs : Seq(Pairs)]
IsAddress(ts) == ts \in Seq(Transports) /\ \A i \in 1 .. Len(ts) - 1 : ts[i].pairs # <<>>
ASSUME AddressAssumption == \A a \in Addresses : IsAddress(a)

-----------------------------------------------------------------------------
(* parseTransports: one state machine step per character.                  *)

NoConfig == [w \in {} |-> <<>>]
With(config, key, value) ==
    [w \in DOMAIN config \cup {key} |-> IF w = key THEN value ELSE config[w]]
Lookup(config, key) == IF key \in DOMAIN config THEN config[key] ELSE <<>>
AtName(out) == [state |-> "name", name |-> <<>>, key |-> <<>>, value |-> <<>>,
                config |-> NoConfig, out |-> out]
Finished(p) == [name |-> p.name, config |-> With(p.config, p.key, p.value)]

ParseStep(c, p) ==
    IF p.state = "name" THEN
        IF c = ":" THEN [p EXCEPT !.state = "key"] ELSE [p EXCEPT !.name = Append(@, c)]
    ELSE IF p.state = "key" THEN
        IF c = "=" THEN [p EXCEPT !.state = "value"] ELSE [p EXCEPT !.key = Append(@, c)]
    ELSE IF c = "," THEN
        [p EXCEPT !.state = "key", !.config = With(@, p.key, p.value),
                  !.key = <<>>, !.value = <<>>]
    ELSE IF c = ";" THEN AtName(Append(p.out, Finished(p)))
    ELSE [p EXCEPT !.value = Append(@, c)]
Parsing(address) ==
    LET p[n \in 0 .. Len(address)] ==
            IF n = 0 THEN AtName(<<>>) ELSE ParseStep(address[n], p[n - 1])
    IN  p
ParseTransports(address) ==
    LET p == Parsing(address)[Len(address)]
    IN  IF p.name = <<>> THEN p.out ELSE Append(p.out, Finished(p))

-----------------------------------------------------------------------------
VARIABLES
    address,       \* the transports of the address, as it was written
    todo, tried,   \* the sockets still to try, and those before them, with what came of each
    pc,            \* where open_transport, bus_register or flush is
    chosen,        \* the socket that was opened
    valid,         \* the transport's m_ok
    linesOut,      \* lines to the server
    linesIn,      \* pieces of lines from the server, not yet read
    pending,       \* the rest of a line the server is sending
    authorised,    \* the server has said OK
    agreed,        \* the server will take file descriptors
    split,         \* the server sent a line in two pieces
    negotiated,    \* authenticate()'s negotiatedFD
    unique,        \* m_uniqueName is set
    greeted,       \* the bus has had a Hello
    hellos,        \* calls of bus_register
    queued, sent,  \* messages in m_outgoingMessages, messages given to writeMessage
    unserializable,  \* of all these, those that cannot be serialized
    stream         \* what the bus gets of them, each whole or cut

saslVars == <<linesOut, linesIn, pending, authorised, agreed, split, negotiated>>
openVars == <<address, todo, tried, chosen>>
busVars == <<unique, greeted, hellos>>
writeVars == <<queued, sent, unserializable, stream>>
startVars == <<openVars, pc, valid, saslVars, busVars, writeVars>>

(* A socket of the i-th transport. *)
Socket(key, where, i) == [key |-> key, where |-> where, of |-> i]
NoSocket == Socket("path", <<>>, 0)
(* The order in which open_transport tries the sockets: the path of a unix  *)
(* transport, then its abstract name.                                       *)
SocketAt(t, key, i) ==
    LET where == Lookup(t.config, <<key>>)
    IN  IF where = <<>> THEN <<>> ELSE <<Socket(key, where, i)>>
SocketsOf(t, i) ==
    IF t.name = <<"unix">> THEN SocketAt(t, "path", i) \o SocketAt(t, "abstract", i) ELSE <<>>
Sockets(transports) == FlattenSeq([i \in DOMAIN transports |-> SocketsOf(transports[i], i)])
Tried(socket, outcome) == [socket |-> socket, outcome |-> outcome]

(* An address as it is written. *)
Joined(parts, separator) ==
    FlattenSeq([i \in DOMAIN parts |-> (IF i = 1 THEN <<>> ELSE <<separator>>) \o parts[i]])
WrittenPairs(pairs) == [i \in DOMAIN pairs |-> <<pairs[i].key, "=", pairs[i].value>>]
WrittenTransport(t) == <<t.name, ":">> \o Joined(WrittenPairs(t.pairs), ",")
Written(transports) ==
    Joined([i \in DOMAIN transports |-> WrittenTransport(transports[i])], ";")

StartInit ==
    /\ address \in Addresses
    /\ todo = Sockets(ParseTransports(Written(address))) /\ tried = <<>>
    /\ pc = "open" /\ chosen = NoSocket /\ valid = FALSE
    /\ linesOut = <<>> /\ linesIn = <<>> /\ pending = <<>>
    /\ authorised = FALSE /\ agreed = FALSE /\ split = FALSE /\ negotiated = FALSE
    /\ unique = FALSE /\ greeted = FALSE /\ hellos = 0
    /\ queued = 0 /\ sent = 0 /\ unserializable = {} /\ stream = <<>>

-----------------------------------------------------------------------------
(* Transport::open_transport.                                              *)

(* socket, connect or setsockopt fails. *)
OpenFails ==
    /\ pc = "open" /\ todo # <<>>
    /\ tried' = Append(tried, Tried(Head(todo), "failed")) /\ todo' = Tail(todo)
    /\ UNCHANGED <<address, chosen, pc, valid, saslVars, busVars, writeVars>>
(* The socket is opened, but its transport is not valid, as the nul byte     *)
(* could not be written: the search goes on with the next transport, and the *)
(* abstract name that this one may have is passed over.                     *)
OpenInvalid ==
    /\ pc = "open" /\ todo # <<>>
    /\ LET rest == Tail(todo)
           passesOver == rest # <<>> /\ Head(rest).of = Head(todo).of
           invalid == Append(tried, Tried(Head(todo), "invalid"))
       IN  /\ tried' = IF passesOver THEN Append(invalid, Tried(Head(rest), "passed"))
                       ELSE invalid
           /\ todo' = IF passesOver THEN Tail(rest) ELSE rest
    /\ UNCHANGED <<address, chosen, pc, valid, saslVars, busVars, writeVars>>
(* The transport writes its nul byte, and SASL its first line. *)
OpenUnixSocket ==
    /\ pc = "open" /\ todo # <<>>
    /\ chosen' = Head(todo) /\ todo' = Tail(todo)
    /\ linesOut' = <<"AUTH">>
    /\ pc' = "authenticate"
    /\ UNCHANGED <<address, tried, valid, linesIn, pending, authorised, agreed, split, negotiated,
                   busVars, writeVars>>
NoTransport ==
    /\ pc = "open" /\ todo = <<>>
    /\ pc' = "closed"
    /\ UNCHANGED <<openVars, valid, saslVars, busVars, writeVars>>

(* The server answers a line with one of its own, which may come in two     *)
(* pieces, or closes the socket.                                            *)
Whole(line) == [line |-> line, part |-> "whole"]
Send(line) ==
    \/ /\ linesIn' = Append(linesIn, Whole(line))
       /\ UNCHANGED <<pending, split>>
    \/ /\ linesIn' = Append(linesIn, [line |-> line, part |-> "first"])
       /\ pending' = <<[line |-> line, part |-> "rest"]>>
       /\ split' = TRUE
ServerAnswers(line) ==
    /\ linesOut # <<>> /\ pending = <<>>
    /\ linesOut' = Tail(linesOut)
    /\ \/ Head(linesOut) = "AUTH" /\ line \in {"OK", "REJECTED", "ERROR", "DATA", "EOF"}
       \/ Head(linesOut) = "NEGOTIATE_UNIX_FD" /\ line \in {"AGREE_UNIX_FD", "ERROR", "EOF"}
    /\ Send(line)
    /\ authorised' = (authorised \/ line = "OK")
    /\ agreed' = (agreed \/ line = "AGREE_UNIX_FD")
    /\ UNCHANGED <<openVars, pc, valid, negotiated, busVars, writeVars>>
ServerGoesOn ==
    /\ pending # <<>>
    /\ linesIn' = linesIn \o pending /\ pending' = <<>>
    /\ UNCHANGED <<openVars, pc, valid, linesOut, authorised, agreed, split, negotiated, busVars,
                   writeVars>>

(* SASL::read_data takes what there is, up to 512 bytes.  regex_search      *)
(* finds a line in it, and OK with the beginning of its GUID too.           *)
Found(line) ==
    \E i \in DOMAIN linesIn :
        /\ linesIn[i].line = line
        /\ \/ linesIn[i].part = "whole"
           \/ linesIn[i].part = "first"
              /\ (line = "OK" \/ (i + 1 \in DOMAIN linesIn /\ linesIn[i + 1].part = "rest"))

(* Mutant: BEGIN follows at once. *)
AuthenticateAndBegin ==
    /\ pc = "authenticate" /\ linesIn # <<>>
    /\ linesIn' = <<>>
    /\ IF Found("OK") THEN /\ linesOut' = linesOut \o <<"NEGOTIATE_UNIX_FD", "BEGIN">>
                           /\ pc' = "hello" /\ valid' = TRUE
       ELSE UNCHANGED linesOut /\ pc' = "closed" /\ UNCHANGED valid
    /\ UNCHANGED <<openVars, pending, authorised, agreed, split, negotiated, busVars, writeVars>>
(* SASL::authenticate, first answer: without OK it is over, and the other   *)
(* addresses are not tried.                                                 *)
Authenticate ==
    /\ pc = "authenticate" /\ linesIn # <<>>
    /\ linesIn' = <<>>
    /\ \/ /\ Found("OK")
          /\ linesOut' = Append(linesOut, "NEGOTIATE_UNIX_FD") /\ pc' = "negotiate"
       \/ /\ ~Found("OK") /\ (Found("ERROR") \/ Found("REJECTED") \/ Found("EOF"))
          /\ UNCHANGED linesOut /\ pc' = "closed"
       \/ /\ \A line \in {"OK", "ERROR", "REJECTED", "EOF"} : ~Found(line)
          /\ linesOut' = Append(linesOut, "ERROR") /\ pc' = "closed"
    /\ UNCHANGED <<openVars, valid, pending, authorised, agreed, split, negotiated, busVars,
                   writeVars>>
(* Second answer: whatever it is, unless it is empty, BEGIN follows. *)
Negotiate ==
    /\ pc = "negotiate" /\ linesIn # <<>>
    /\ linesIn' = <<>>
    /\ negotiated' = Found("AGREE_UNIX_FD")
    /\ IF Head(linesIn).line = "EOF" THEN pc' = "closed" /\ UNCHANGED <<linesOut, valid>>
       ELSE linesOut' = Append(linesOut, "BEGIN") /\ pc' = "hello" /\ valid' = TRUE
    /\ UNCHANGED <<openVars, pending, authorised, agreed, split, busVars, writeVars>>

-----------------------------------------------------------------------------
(* Connection::bus_register: when the answer to Hello does not come in      *)
(* time the bus has it all the same, and refuses the next one.              *)
BusRegister ==
    /\ pc = "hello" /\ valid /\ hellos < MaxHellos
    /\ hellos' = hellos + 1 /\ greeted' = TRUE
    /\ \/ unique' = ~greeted /\ pc' = (IF greeted THEN "hello" ELSE "ready")
       \/ UNCHANGED <<unique, pc>>
    /\ UNCHANGED <<openVars, valid, saslVars, writeVars>>

(* Connection::flush looks at is_valid once, and then writes the queue. *)
Enqueue ==
    /\ pc = "ready" /\ sent + queued < MaxMessages
    /\ queued' = queued + 1
    /\ \/ UNCHANGED unserializable
       \/ unserializable' = unserializable \cup {sent + queued + 1}
    /\ UNCHANGED <<openVars, pc, valid, saslVars, busVars, sent, stream>>
Flush ==
    /\ pc = "ready" /\ valid /\ queued > 0
    /\ pc' = "flush"
    /\ UNCHANGED <<openVars, valid, saslVars, busVars, writeVars>>
FlushEnds ==
    /\ pc = "flush" /\ queued = 0
    /\ pc' = "ready"
    /\ UNCHANGED <<openVars, valid, saslVars, busVars, writeVars>>
(* SendmsgTransport::writeMessage, for the message that flush has taken.   *)
(* The socket is non-blocking: it takes the message, or a part of it, after *)
(* which the bus cannot find the next one, or nothing.                      *)
Write ==
    /\ pc = "flush" /\ queued > 0
    /\ queued' = queued - 1 /\ sent' = sent + 1
    /\ UNCHANGED <<openVars, pc, saslVars, busVars, unserializable>>
WriteMessage ==
    /\ Write /\ sent' \notin unserializable
    /\ \E cut \in BOOLEAN : stream' = Append(stream, [message |-> sent', cut |-> cut])
    /\ UNCHANGED valid
(* Mutant: the error is returned and not remembered. *)
WriteFailsQuietly == Write /\ sent' \notin unserializable /\ UNCHANGED <<valid, stream>>
WriteFails ==
    /\ Write /\ sent' \notin unserializable
    /\ valid' = FALSE
    /\ UNCHANGED stream
(* serialize_to_vector refuses a reply without a reply serial, and a message *)
(* that is too long: nothing is written, and nobody is told.                *)
WriteUnserializable == Write /\ sent' \in unserializable /\ UNCHANGED <<valid, stream>>

-----------------------------------------------------------------------------
Lines == {"OK", "REJECTED", "ERROR", "DATA", "EOF", "AGREE_UNIX_FD"}
StartNext ==
    \/ OpenFails \/ OpenInvalid \/ OpenUnixSocket \/ NoTransport \/ Authenticate \/ Negotiate
    \/ (\E line \in Lines : ServerAnswers(line)) \/ ServerGoesOn
    \/ BusRegister \/ Enqueue \/ Flush \/ FlushEnds \/ WriteMessage \/ WriteFails
    \/ WriteUnserializable
StartSpec == StartInit /\ [][StartNext]_startVars

-----------------------------------------------------------------------------
(* open_transport leaves nothing behind on its way to a connection: the      *)
(* sockets it comes to are those of the address as it was written, in its   *)
(* order, so that no transport's configuration reaches another, and each one *)
(* before the chosen one was tried, but for the abstract name of a transport *)
(* whose path has just opened a transport that is not valid; and ...        *)
MeantAt(t, key, i) ==
    LET given == {j \in DOMAIN t.pairs : t.pairs[j].key = key}
        newest == CHOOSE j \in given : \A l \in given : l <= j
    IN  IF given = {} THEN <<>> ELSE <<Socket(key, <<t.pairs[newest].value>>, i)>>
MeantBy(t, i) ==
    IF t.name = "unix" THEN MeantAt(t, "path", i) \o MeantAt(t, "abstract", i) ELSE <<>>
Meant(ts) == FlattenSeq([i \in DOMAIN ts |-> MeantBy(ts[i], i)])
SocketsInOrder ==
    /\ [i \in DOMAIN tried |-> tried[i].socket]
           \o (IF chosen.where = <<>> THEN <<>> ELSE <<chosen>>) \o todo = Meant(address)
    /\ \A i \in DOMAIN tried :
          tried[i].outcome = "passed" =>
             /\ i > 1 /\ tried[i - 1].outcome = "invalid"
             /\ tried[i - 1].socket.of = tried[i].socket.of

(* ... when the handshake is over nothing of it is left in the socket for the *)
(* transport to read as a message, the server has let the client in, and    *)
(* both sides know the same of file descriptors.  It takes a server that    *)
(* sends each line at once, which read_data's comment assumes.              *)
HandshakeClean ==
    (valid /\ ~split) =>
        /\ linesIn = <<>> /\ pending = <<>> /\ authorised
        /\ negotiated = agreed
        /\ linesOut \in {<<>>, <<"BEGIN">>}
OpensCleanly == SocketsInOrder /\ HandshakeClean

(* As long as the transport calls itself valid the bus has got, in order,   *)
(* every message that was written and can be serialized, up to one that was *)
(* cut: a message that the socket did not take is never left out silently.  *)
(* One that cannot be serialized is.                                        *)
NoGapWhileValid ==
    valid =>
        /\ \A i, j \in DOMAIN stream : i < j => stream[i].message < stream[j].message
        /\ {stream[i].message : i \in DOMAIN stream} = (1 .. sent) \ unserializable
=============================================================================
