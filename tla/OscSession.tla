----------------------------- MODULE OscSession -----------------------------
(***************************************************************************)
(* psynth::osc_server and psynth::osc_client: hosts that share a world     *)
(* over a network that may lose, reorder and duplicate what it carries.    *)
(* Each host handles one message, one update () or one command of its user *)
(* at a time.                                                              *)
(*                                                                         *)
(* Time: update (1) is a step of a host's own clock, and the clocks need   *)
(* not agree.  A client always uses the same port: what was sent to its    *)
(* socket before it closed it may reach the next one.                      *)
(***************************************************************************)
EXTENDS OscController

CONSTANTS
    MaxAlive,      \* MAX_ALIVE_DELAY
    MinAlive,      \* MIN_ALIVE_DELAY
    MaxInFlight,   \* bound: messages on a link before another is sent
    Within(_),     \* bound: on commands, faults and crashes, by host
    MaxFaults      \* bound: kinds of faults and hosts that die

ASSUME TimesAssumption == MaxAlive \in Nat /\ MinAlive \in Nat

VARIABLES
    host,       \* the controller and the world of every host
    client,     \* osc_client
    server,     \* osc_server
    link,       \* what is under way from one host to another
    events,     \* how many of those each host has had
    old,        \* history: the nodes the server knew when it accepted a client
    conflicts,  \* history: the nodes two hosts changed at the same time
    faults,     \* history: what the network did to messages
    hasty,      \* history: the clients that took the answer to an attempt given up
    reborn,     \* history: the hosts that died and started again
    again       \* history: the server listened once more before a session was over

net     == <<link, faults>>
history == <<old, conflicts, hasty>>
restarts == <<reborn, again>>
vars == <<host, client, server, net, events, history, restarts>>

Links == {<<c, Server>> : c \in Clients} \cup {<<Server, c>> : c \in Clients}

NewClient == [state |-> "IDLE", recv |-> 0, sent |-> 0, countNext |-> FALSE]
NewSlot(id) == [id |-> id, recv |-> 0, sent |-> 0]

\* The server has begun to listen.
Init ==
    /\ host = [h \in Hosts |-> [NewHost EXCEPT !.on = (h = Server)]]
    /\ client = [c \in Clients |-> NewClient]
    /\ server = [state |-> "LISTENING", slots |-> <<>>, nextId |-> 1]
    /\ link = [l \in Links |-> <<>>]
    /\ events = [h \in Hosts |-> 0]
    /\ old = [c \in Clients |-> {}]
    /\ conflicts = {} /\ hasty = {} /\ faults = {} /\ reborn = {} /\ again = FALSE

-----------------------------------------------------------------------------
(* Messages.                                                               *)

Msg(type) == [type |-> type]
Accept(id) == [type |-> "ACCEPT", id |-> id]

IsOp(m) == m.type \in {"add", "delete", "param", "activate", "deactivate"}

UnderWay(messages, type) == \E i \in DOMAIN messages : messages[i].type = type

\* broadcast_message and broadcast_message_from: the links after m went to dest.
Sent(links, h, dest, m) ==
    [l \in Links |-> IF l[1] = h /\ l[2] \in dest THEN Append(links[l], m) ELSE links[l]]

\* The bound on the links, for what is not an answer.
Fits == \A l \in Links : Len(link'[l]) <= MaxInFlight

\* Mutant: one unit later.
ExpiredLate(msec) == msec > MaxAlive + 1
Expired(msec) == msec > MaxAlive

-----------------------------------------------------------------------------
(* The client.                                                             *)

Connect(c) ==
    /\ client[c].state = "IDLE"
    /\ client' = [client EXCEPT ![c] = [state |-> "PENDING", recv |-> 0, sent |-> 0,
                                        countNext |-> TRUE]]
    /\ link' = Sent(link, c, {Server}, Msg("CONNECT"))
    /\ UNCHANGED <<host, server, faults, history, restarts>>

\* close ().  Until connect () sets them again the clocks are of no use.
Close(c) ==
    /\ client' = [client EXCEPT ![c] = NewClient]
    /\ host' = [host EXCEPT ![c] = Cleared(@)]

\* A client that waits for the answer has no target to say DISCONNECT to.
Disconnect(c) ==
    /\ client[c].state # "IDLE"
    /\ link' = Sent(link, c, host[c].targets, Msg("DISCONNECT"))
    /\ Close(c)
    /\ UNCHANGED <<server, faults, history, restarts>>

\* Mutant: the clock stands still.
PassedNever(me) == 0

\* The first update after connect () does not count.
Passed(me) == IF me.countNext THEN 0 ELSE 1

\* update (1)
UpdateClient(c) ==
    LET me      == client[c]
        passed  == Passed(me)
        alive   == me.sent + passed > MinAlive
        expired == Expired(me.recv + passed)
    IN  /\ me.state # "IDLE"
        /\ link' = IF alive THEN Sent(link, c, host[c].targets, Msg("ALIVE")) ELSE link
        /\ IF expired \/ me.state = "CLOSING"
           THEN Close(c)
           ELSE /\ client' = [client EXCEPT ![c] =
                        [me EXCEPT !.countNext = FALSE, !.recv = @ + passed,
                                  !.sent = IF alive THEN 0 ELSE @ + passed]]
                /\ UNCHANGED host
        /\ UNCHANGED <<server, faults, history, restarts>>

\* The process dies and is started again, with an empty world.
Crash(c) ==
    /\ client[c].state # "IDLE"
    /\ client' = [client EXCEPT ![c] = NewClient]
    /\ host' = [host EXCEPT ![c] = NewHost]
    /\ reborn' = reborn \cup {c}
    /\ UNCHANGED <<server, net, history, again>>

\* _drop_cb and _alive_cb; a closed client has no socket.
ClientDrop(c) == client' = [client EXCEPT ![c].state = "CLOSING"]
ClientAlive(c) == client' = [client EXCEPT ![c].recv = 0]

\* Mutant: the identifier is not taken.
AcceptedNoId(me, id) == [Emptied(me) EXCEPT !.on = TRUE, !.targets = {Server}]

\* The world becomes that of the session.
Accepted(me, id) == [Emptied(me) EXCEPT !.id = id, !.on = TRUE, !.targets = {Server}]

\* _accept_cb.  The answer may be one to an attempt the client gave up: the last
\* one is then still under way.
ClientAccept(c, m, rest) ==
    IF client[c].state # "PENDING"
    THEN link' = rest /\ UNCHANGED <<client, host, hasty>>
    ELSE /\ client' = [client EXCEPT ![c].state = "CONNECTED"]
         /\ host' = [host EXCEPT ![c] = Accepted(@, m.id)]
         /\ link' = Sent(rest, c, {Server}, Msg("GET_STATE"))
         /\ hasty' = IF UnderWay(rest[<<c, Server>>], "CONNECT")
                        \/ UnderWay(rest[<<Server, c>>], "ACCEPT")
                     THEN hasty \cup {c} ELSE hasty \ {c}

-----------------------------------------------------------------------------
(* The server.                                                             *)

\* Nobody is in a session, and nothing of one is under way.
Over ==
    /\ \A c \in Clients : client[c].state = "IDLE"
    /\ \A l \in Links : link[l] = <<>>

Listen ==
    /\ server.state = "IDLE"
    /\ server' = [server EXCEPT !.state = "LISTENING", !.nextId = 1]
    /\ host' = [host EXCEPT ![Server].id = 0, ![Server].on = TRUE]
    /\ again' = (again \/ ~Over)
    /\ UNCHANGED <<client, net, history, reborn>>

Stop ==
    /\ server.state = "LISTENING"
    /\ link' = Sent(link, Server, host[Server].targets, Msg("DROP"))
    /\ server' = [server EXCEPT !.state = "IDLE", !.slots = <<>>]
    /\ host' = [host EXCEPT ![Server] = Cleared(@)]
    /\ UNCHANGED <<client, faults, history, restarts>>

\* update (1)
UpdateServer ==
    LET slots   == server.slots
        expired == {c \in DOMAIN slots : Expired(slots[c].recv + 1)}
        stay    == DOMAIN slots \ expired
        alive   == {c \in stay : slots[c].sent + 1 > MinAlive}
    IN  /\ server.state = "LISTENING" /\ slots # <<>>
        /\ link' = Sent(Sent(link, Server, expired, Msg("DROP")),
                        Server, alive, Msg("ALIVE"))
        /\ server' = [server EXCEPT !.slots =
                [c \in stay |-> [slots[c] EXCEPT !.recv = @ + 1,
                                     !.sent = IF c \in alive THEN 0 ELSE @ + 1]]]
        /\ host' = [host EXCEPT ![Server].targets = @ \ expired]
        /\ UNCHANGED <<client, faults, history, restarts>>

CrashServer ==
    /\ server.state = "LISTENING"
    /\ server' = [state |-> "IDLE", slots |-> <<>>, nextId |-> 0]
    /\ host' = [host EXCEPT ![Server] = NewHost]
    /\ reborn' = reborn \cup {Server}
    /\ UNCHANGED <<client, net, history, again>>

\* Mutant: the next client gets the same identifier.
ServerConnectSameId(c, rest) ==
    /\ server' = [server EXCEPT !.slots = With(@, c, NewSlot(server.nextId))]
    /\ host' = [host EXCEPT ![Server].targets = @ \cup {c}]
    /\ link' = Sent(rest, Server, {c}, Accept(server.nextId))
    /\ old' = [old EXCEPT ![c] = DOMAIN host[Server].localId]

\* _connect_cb: a client the server still knows keeps its identifier.
ServerConnect(c, rest) ==
    LET known == c \in host[Server].targets
        id    == IF known THEN server.slots[c].id ELSE server.nextId
    IN  /\ server' = [server EXCEPT !.slots = With(@, c, NewSlot(id)),
                                    !.nextId = IF known THEN @ ELSE @ + 1]
        /\ host' = [host EXCEPT ![Server].targets = @ \cup {c}]
        /\ link' = Sent(rest, Server, {c}, Accept(id))
        /\ old' = [old EXCEPT ![c] = DOMAIN host[Server].localId]

\* _disconnect_cb
ServerDisconnect(c) ==
    /\ server' = [server EXCEPT !.slots = Without(@, c)]
    /\ host' = [host EXCEPT ![Server].targets = @ \ {c}]

\* _alive_cb
ServerAlive(c) ==
    server' = IF c \in DOMAIN server.slots
              THEN [server EXCEPT !.slots[c].recv = 0] ELSE server

-----------------------------------------------------------------------------
(* The users.  A host that is not in the session is not listened to, and   *)
(* what its user does then is left out: a client forgets its nodes when it *)
(* is accepted, and a server that stops and starts again has, as one that  *)
(* was used before it listened, nodes without a name in the session.       *)

AddNode(h) ==
    LET node == host[h].lastId
        made == HandleAdd(WithNode(host[h]), node)
    IN  /\ host[h].on
        /\ host' = [host EXCEPT ![h] = made]
        /\ link' = Sent(link, h, made.targets, Op("add", <<made.id, node>>, 0, h))
        /\ UNCHANGED <<client, server, faults, history, restarts>>

\* A change that changes nothing is left out.
ChangeNode(h, node, type, value) ==
    LET op == Op(type, NetOf(host[h], node), value, h)
    IN  /\ host[h].on
        /\ Changed(host[h], node, op) # host[h]
        /\ host' = [host EXCEPT ![h] = HandleOther(Changed(@, node, op), op, node)]
        /\ link' = Sent(link, h, host[h].targets, op)
        /\ UNCHANGED <<client, server, faults, history, restarts>>

-----------------------------------------------------------------------------
(* The network and what the hosts do with what it brings.                  *)

\* The other end has an operation on the same node under way.
Crosses(from, to, op) ==
    /\ op.type # "add"
    /\ \E i \in 1 .. Len(link[<<to, from>>]) :
          LET m == link[<<to, from>>][i] IN IsOp(m) /\ m.net = op.net

\* Mutants: the sender hears itself; nobody is told.
OthersAll(me, from) == me.targets
OthersNone(me, from) == {}

\* broadcast_message_from
Others(me, from) == me.targets \ {from}

\* Only targets are listened to, and the server tells the other targets.
Receive(from, to, op, rest) ==
    LET me == host[to]
        relayed == IF to = Server THEN Sent(rest, to, Others(me, from), op) ELSE rest
    IN  /\ IF from \notin me.targets \/ (op.type # "add" /\ ~Known(me, op.net))
           THEN link' = rest /\ UNCHANGED host
           ELSE /\ link' = relayed
                /\ \E after \in IF op.type = "add" THEN {AddCallback(me, op)}
                                ELSE OtherCallbacks(me, op) :
                      host' = [host EXCEPT ![to] = after]
        /\ conflicts' = IF Crosses(from, to, op) THEN conflicts \cup {op.net}
                        ELSE conflicts

DeliverToClient(c) ==
    LET l == <<Server, c>>  m == Head(link[l])  rest == [link EXCEPT ![l] = Tail(@)]
    IN  /\ link[l] # <<>>
        /\ IF client[c].state = "IDLE"
           THEN link' = rest /\ UNCHANGED <<client, host, conflicts, hasty>>
           ELSE \/ /\ m.type = "DROP" /\ ClientDrop(c)
                   /\ link' = rest /\ UNCHANGED <<host, conflicts, hasty>>
                \/ /\ m.type = "ALIVE" /\ ClientAlive(c)
                   /\ link' = rest /\ UNCHANGED <<host, conflicts, hasty>>
                \/ /\ m.type = "ACCEPT" /\ ClientAccept(c, m, rest)
                   /\ UNCHANGED conflicts
                \/ /\ IsOp(m) /\ Receive(Server, c, m, rest)
                   /\ UNCHANGED <<client, hasty>>
        /\ UNCHANGED <<server, faults, old, restarts>>

DeliverToServer(c) ==
    LET l == <<c, Server>>  m == Head(link[l])  rest == [link EXCEPT ![l] = Tail(@)]
    IN  /\ link[l] # <<>>
        /\ IF \/ server.state = "IDLE"
              \/ m.type = "GET_STATE"
              \/ m.type = "DISCONNECT" /\ c \notin host[Server].targets
           THEN link' = rest /\ UNCHANGED <<server, host, history>>
           ELSE \/ /\ m.type = "CONNECT" /\ ServerConnect(c, rest)
                   /\ UNCHANGED <<conflicts, hasty>>
                \/ /\ m.type = "DISCONNECT" /\ ServerDisconnect(c)
                   /\ link' = rest /\ UNCHANGED history
                \/ /\ m.type = "ALIVE" /\ ServerAlive(c)
                   /\ link' = rest /\ UNCHANGED <<host, history>>
                \/ /\ IsOp(m) /\ Receive(c, Server, m, rest)
                   /\ UNCHANGED <<server, old, hasty>>
        /\ UNCHANGED <<client, faults, restarts>>

\* What UDP may do to the messages of a link.
Fault(l, kind, carried) ==
    /\ faults' = faults \cup {kind}
    /\ link' = [link EXCEPT ![l] = carried]
    /\ UNCHANGED <<host, client, server, history, restarts>>

Lose(l) == link[l] # <<>> /\ Fault(l, "lost", Tail(link[l]))
Swap(l) ==
    Len(link[l]) > 1 /\ Fault(l, "swapped", <<link[l][2], link[l][1]>> \o
                                            SubSeq(link[l], 3, Len(link[l])))
Duplicate(l) == link[l] # <<>> /\ Fault(l, "duplicated", <<Head(link[l])>> \o link[l])

\* What the user of a host does.
Command(h) ==
    \/ h \in Clients /\ (Connect(h) \/ Disconnect(h))
    \/ h = Server /\ (Listen \/ Stop)
    \/ AddNode(h)
    \/ \E node \in DOMAIN host[h].nodes :
          \/ \E v \in Values : ChangeNode(h, node, "param", v)
          \/ \E t \in {"delete", "activate", "deactivate"} : ChangeNode(h, node, t, 0)

\* What happens to a host or to what it sent.
Failure(h) ==
    /\ Cardinality(faults) + Cardinality(reborn) < MaxFaults
    /\ \/ \E l \in Links : l[1] = h /\ (Lose(l) \/ Swap(l) \/ Duplicate(l))
       \/ h = Server /\ CrashServer
       \/ h \in Clients /\ Crash(h)

Update == UpdateServer \/ \E c \in Clients : UpdateClient(c)

Deliver == \E c \in Clients : DeliverToClient(c) \/ DeliverToServer(c)

Next ==
    \/ \E h \in Hosts :
          /\ events' = [events EXCEPT ![h] = @ + 1] /\ Within(events')
          /\ (Command(h) /\ Fits) \/ Failure(h)
    \/ /\ UNCHANGED events
       /\ (Update /\ Fits) \/ Deliver

\* The main loop of every host receives and updates for ever.
Spec == Init /\ [][Next]_vars
        /\ WF_vars(UpdateServer /\ Fits /\ UNCHANGED events)
        /\ \A c \in Clients :
              /\ WF_vars(UpdateClient(c) /\ Fits /\ UNCHANGED events)
              /\ WF_vars(DeliverToClient(c) /\ UNCHANGED events)
              /\ WF_vars(DeliverToServer(c) /\ UNCHANGED events)

-----------------------------------------------------------------------------
(* Properties.                                                             *)

Nets == (Nat \X Nat)
Ops == [type: {"add", "delete", "param", "activate", "deactivate"},
        net: Nets, value: Values \cup {0}, by: Hosts]
Messages ==
    Ops \cup [type: {"ACCEPT"}, id: Nat]
        \cup [type: {"CONNECT", "DISCONNECT", "ALIVE", "DROP", "GET_STATE"}]

\* Types.  No clock runs past the delay after which the other end is dropped.
TypeOK ==
    /\ \A h \in Hosts :
          /\ host[h].on \in BOOLEAN /\ host[h].id \in Nat /\ host[h].lastId \in Nat
          /\ host[h].targets \subseteq (IF h = Server THEN Clients ELSE {Server})
          /\ \A n \in DOMAIN host[h].nodes : n \in Nat /\ host[h].nodes[n] \in Nodes
          /\ \A n \in DOMAIN host[h].netId : n \in Nat /\ host[h].netId[n] \in Nets
          /\ \A n \in DOMAIN host[h].localId : n \in Nets /\ host[h].localId[n] \in Nat
    /\ client \in [Clients -> [state: {"IDLE", "PENDING", "CONNECTED", "CLOSING"},
                               recv: 0 .. MaxAlive, sent: 0 .. MinAlive,
                               countNext: BOOLEAN]]
    /\ server.state \in {"IDLE", "LISTENING"} /\ server.nextId \in Nat
    /\ \A c \in DOMAIN server.slots :
          c \in Clients /\ server.slots[c] \in [id: Nat, recv: 0 .. MaxAlive,
                                               sent: 0 .. MinAlive]
    /\ \A l \in Links : link[l] \in Seq(Messages)
    /\ faults \subseteq {"lost", "swapped", "duplicated"} /\ reborn \subseteq Hosts
    /\ again \in BOOLEAN

\* The server keeps its clients twice, in m_slots and in the list of targets of
\* osc_broadcast, and four handlers change both: a client it answers to is one it
\* watches, and no two of them have the same identifier.
SlotsAreTargets ==
    /\ DOMAIN server.slots = host[Server].targets
    /\ \A c, d \in DOMAIN server.slots :
          server.slots[c].id = server.slots[d].id => c = d

\* A client and the server that think they are connected agree on the identifier
\* of the client, unless _accept_cb, which takes any ACCEPT while it waits
\* for one, took that of an attempt the user had given up, or the network changed
\* the order of two messages.  Neither a lost or repeated message nor a host that
\* dies is enough.
IdsAgree ==
    \A c \in DOMAIN server.slots :
        client[c].state = "CONNECTED" =>
            \/ host[c].id = server.slots[c].id
            \/ c \in hasty \/ "swapped" \in faults

\* On every host, m_local_id and m_net_id are inverse: a name of the session is
\* the name of one node.  A client that dies and comes back before the server has
\* missed it gets its identifier again and counts its nodes from the start, a
\* server that listens again before a session is over gives identifiers that its
\* names still have, and a duplicated ADD makes two nodes.
NetIdsNameOneNode ==
    \A h \in Hosts :
        LET me == host[h] IN
        /\ \A n \in DOMAIN me.localId :
              me.localId[n] \in DOMAIN me.nodes /\ me.netId[me.localId[n]] = n
        /\ \A k \in DOMAIN me.nodes \cap DOMAIN me.netId :
              me.netId[k] # NoNet =>
                  me.netId[k] \in DOMAIN me.localId /\ me.localId[me.netId[k]] = k
NamesAreSound ==
    NetIdsNameOneNode \/ reborn # {} \/ again \/ "duplicated" \in faults

\* What a host did never comes back to it: the server tells the other targets
\* only, and m_skip keeps a host from passing on what it is told.
NoEcho ==
    \A l \in Links : \A i \in DOMAIN link[l] :
        IsOp(link[l][i]) => /\ link[l][i].by # l[2]
                            /\ l[1] # Server => link[l][i].by = l[1]

Quiet == \A l \in Links : link[l] = <<>>

SameNode(net1, h, g) ==
    host[h].nodes[host[h].localId[net1]] = host[g].nodes[host[g].localId[net1]]

\* When nothing is under way, a connected client and the server have the same
\* nodes, but for those the server had before, and they look the same, but for
\* those that two hosts changed at the same time (nothing decides who wins), if
\* the network was in order, no host died, every session was over before the next
\* began, and the client did not take the answer to an attempt given up: it may
\* then be told of a node and never of its end.
Converged ==
    Quiet /\ faults = {} /\ reborn = {} /\ ~again =>
      \A c \in DOMAIN server.slots \ hasty : client[c].state = "CONNECTED" =>
        LET mine == DOMAIN host[c].localId  its == DOMAIN host[Server].localId
        IN  /\ mine \subseteq its /\ its \subseteq mine \cup old[c]
            /\ \A n \in mine \ conflicts : SameNode(n, c, Server)

\* One end that thinks it is connected when the other does not finds out by its
\* clock, whatever was lost, and whoever died: when the users are content, the
\* time comes when no connection is half open.
HalfOpen(c) ==
    \/ client[c].state = "CONNECTED" /\ c \notin DOMAIN server.slots
    \/ client[c].state = "IDLE" /\ c \in DOMAIN server.slots
HalfOpenEnds == []<>(\A c \in Clients : ~HalfOpen(c))
=============================================================================
