---------------------------- MODULE SessionProofs ----------------------------
(***************************************************************************)
(* Proofs about OscSession, for any number of clients, any delays and any  *)
(* number of commands, faults and crashes.                                 *)
(***************************************************************************)
EXTENDS OscSession, TLAPS

-----------------------------------------------------------------------------
(* What is under way.                                                      *)

\* The messages that may be on the link l: no operation goes back to where it
\* comes from, and a client only sends its own.
On(l) == {m \in Messages : IsOp(m) => m.by # l[2] /\ (l[1] # Server => m.by = l[1])}

RightLinks(L) == DOMAIN L = Links /\ \A l \in Links : L[l] \in Seq(On(l))

\* A link goes from a client to the server, or back.
LEMMA LinkEnds ==
  ASSUME NEW l \in Links
  PROVE  /\ l[1] \in Hosts /\ l[2] \in Hosts /\ l[1] # l[2]
         /\ l[1] # Server => l[1] \in Clients
         /\ l = <<l[1], l[2]>>
  BY HostsAssumption DEF Links, Hosts

\* A message that may be on all the links it is sent on.
LEMMA SentRight ==
  ASSUME NEW L, RightLinks(L), NEW h, NEW dest, NEW m,
         \A l \in Links : l[1] = h /\ l[2] \in dest => m \in On(l)
  PROVE  RightLinks(Sent(L, h, dest, m))
<1>1. ASSUME NEW l \in Links PROVE Sent(L, h, dest, m)[l] \in Seq(On(l))
  <2>1. L[l] \in Seq(On(l))
    BY DEF RightLinks
  <2>2. CASE l[1] = h /\ l[2] \in dest
    <3>1. m \in On(l)
      BY <2>2
    <3>2. Append(L[l], m) \in Seq(On(l))
      BY <2>1, <3>1
    <3> QED  BY <2>2, <3>2 DEF Sent
  <2>3. CASE ~ (l[1] = h /\ l[2] \in dest)
    BY <2>1, <2>3 DEF Sent
  <2> QED  BY <2>2, <2>3
<1>2. DOMAIN Sent(L, h, dest, m) = Links
  BY DEF Sent
<1> QED  BY <1>1, <1>2 DEF RightLinks

\* What is not an operation may be everywhere.
LEMMA SentOther ==
  ASSUME NEW L, RightLinks(L), NEW h, NEW dest, NEW m \in Messages, ~ IsOp(m)
  PROVE  RightLinks(Sent(L, h, dest, m))
  BY SentRight DEF On

\* The messages of the session are no operations.
LEMMA Signals ==
  /\ \A t \in {"CONNECT", "DISCONNECT", "ALIVE", "DROP", "GET_STATE"} :
        Msg(t) \in Messages /\ ~ IsOp(Msg(t))
  /\ \A id \in Nat : Accept(id) \in Messages /\ ~ IsOp(Accept(id))
  BY DEF IsOp, Msg, Accept, Messages

\* An operation is a message, and no other message is one.
LEMMA Operations ==
  /\ \A t \in {"add", "delete", "param", "activate", "deactivate"}, n \in Nets,
       v \in Values \cup {0}, h \in Hosts :
        Op(t, n, v, h) \in Messages /\ IsOp(Op(t, n, v, h)) /\ Op(t, n, v, h).by = h
  /\ \A m \in Messages : IsOp(m) => m \in Ops
  /\ \A m \in Messages : m.type = "ACCEPT" => m.id \in Nat
  BY DEF IsOp, Op, Ops, Messages

\* Replacing what a link carries.
LEMMA ReplacedRight ==
  ASSUME NEW L, RightLinks(L), NEW l \in Links, NEW s \in Seq(On(l))
  PROVE  RightLinks([L EXCEPT ![l] = s])
  BY DEF RightLinks

\* Taking the first message from a link.
LEMMA TailRight ==
  ASSUME RightLinks(link), NEW l \in Links, link[l] # <<>>
  PROVE  /\ RightLinks([link EXCEPT ![l] = Tail(@)])
         /\ Head(link[l]) \in On(l)
<1>1. link[l] \in Seq(On(l))
  BY DEF RightLinks
<1>2. Head(link[l]) \in On(l) /\ Tail(link[l]) \in Seq(On(l))
  BY <1>1
<1> QED  BY <1>2, ReplacedRight

\* Nothing is under way in the beginning.
LEMMA RightInit == Init => RightLinks(link)
  BY DEF Init, RightLinks

-----------------------------------------------------------------------------
(* The hosts.                                                              *)

Fields == {"on", "id", "targets", "nodes", "lastId", "netId", "localId"}

\* A controller and its world, but for its targets.
WellTyped(x) ==
    /\ DOMAIN x = Fields
    /\ x.on \in BOOLEAN /\ x.id \in Nat /\ x.lastId \in Nat
    /\ \A n \in DOMAIN x.nodes : n \in Nat /\ x.nodes[n] \in Nodes
    /\ \A n \in DOMAIN x.netId : n \in Nat /\ x.netId[n] \in Nets
    /\ \A n \in DOMAIN x.localId : n \in Nets /\ x.localId[n] \in Nat

OtherEnds(h) == IF h = Server THEN Clients ELSE {Server}

HostsTyped(H) ==
    DOMAIN H = Hosts /\ \A h \in Hosts : WellTyped(H[h]) /\ H[h].targets \subseteq OtherEnds(h)

-----------------------------------------------------------------------------
(* The clients of the server.                                              *)

\* No identifier has been given that is still to be given.
SlotIds ==
    /\ DOMAIN server = {"state", "slots", "nextId"} /\ server.nextId \in Nat
    /\ server.state \in {"IDLE", "LISTENING"}
    /\ server.state = "IDLE" => DOMAIN server.slots = {}
    /\ \A c \in DOMAIN server.slots :
          /\ DOMAIN server.slots[c] = {"id", "recv", "sent"}
          /\ server.slots[c].id \in Nat /\ server.slots[c].id < server.nextId
    /\ \A c, d \in DOMAIN server.slots :
          server.slots[c].id = server.slots[d].id => c = d

SlotsInv ==
    /\ DOMAIN host = Hosts /\ \A h \in Hosts : DOMAIN host[h] = Fields
    /\ SlotIds
    /\ DOMAIN server.slots = host[Server].targets

\* The server and the clients are hosts.
LEMMA ServerHost == Server \in Hosts /\ Clients \subseteq Hosts
  BY DEF Hosts

\* What happens to the world and to the names of a host leaves its targets.
SameTargets(x, y) == DOMAIN y = Fields /\ y.targets = x.targets

LEMMA WorldKeepsTargets ==
  ASSUME NEW x, DOMAIN x = Fields
  PROVE  /\ SameTargets(x, WithNode(x))
         /\ \A n, k : SameTargets(x, Named(x, n, k)) /\ SameTargets(x, Forgotten(x, n, k))
         /\ \A f : SameTargets(x, [x EXCEPT !.nodes = f])
         /\ \A f : SameTargets(x, [x EXCEPT !.netId = f])
         /\ \A f : SameTargets(x, [x EXCEPT !.localId = f])
  BY DEF SameTargets, Fields, WithNode, Named, Forgotten

\* An operation on a node leaves the targets.
LEMMA ChangedKeepsTargets ==
  ASSUME NEW x, DOMAIN x = Fields, NEW n, NEW op,
         op.type \in {"delete", "param", "activate", "deactivate"}
  PROVE  SameTargets(x, Changed(x, n, op))
  BY DEF SameTargets, Fields, Changed

\* The callbacks leave the targets.
LEMMA CallbacksKeepTargets ==
  ASSUME NEW x, DOMAIN x = Fields, NEW op, IsOp(op),
         NEW y \in (IF op.type = "add" THEN {AddCallback(x, op)} ELSE OtherCallbacks(x, op))
  PROVE  SameTargets(x, y)
<1>1. CASE op.type = "add"
  <2>1. y = Named(WithNode(x), op.net, x.lastId)
    BY <1>1 DEF AddCallback
  <2>2. SameTargets(x, WithNode(x))
    BY WorldKeepsTargets
  <2>3. SameTargets(WithNode(x), y)
    BY <2>1, <2>2, WorldKeepsTargets DEF SameTargets
  <2> QED  BY <2>2, <2>3 DEF SameTargets
<1>2. CASE op.type # "add"
  <2> DEFINE z == Changed(x, x.localId[op.net], op)
  <2>1. SameTargets(x, z)
    BY <1>2, ChangedKeepsTargets DEF IsOp
  <2> HIDE DEF z
  <2>2. \/ y = z
        \/ \E n, k : y = Forgotten(z, n, k)
        \/ \E f : y = [z EXCEPT !.localId = f]
    BY <1>2 DEF OtherCallbacks, z
  <2>3. DOMAIN z = Fields /\ z.targets = x.targets
    BY <2>1 DEF SameTargets
  <2>4. CASE \E n, k : y = Forgotten(z, n, k)
    BY <2>3, <2>4, WorldKeepsTargets DEF SameTargets
  <2>5. CASE \E f : y = [z EXCEPT !.localId = f]
    BY <2>3, <2>5, WorldKeepsTargets DEF SameTargets
  <2> QED  BY <2>1, <2>2, <2>4, <2>5
<1> QED  BY <1>1, <1>2

\* The server begins without clients.
LEMMA SlotsInit == Init => SlotsInv
  BY ServerHost DEF Init, SlotsInv, SlotIds, NewHost, Fields

\* The server stays, and a host changes all but its targets.
LEMMA SlotsSame ==
  ASSUME SlotsInv, server' = server, NEW h \in Hosts, NEW y, DOMAIN y = Fields,
         host' = [host EXCEPT ![h] = y], h = Server => y.targets = host[h].targets
  PROVE  SlotsInv'
<1>1. SlotIds'
  BY DEF SlotsInv, SlotIds
<1>2. DOMAIN host' = Hosts /\ \A g \in Hosts : DOMAIN host'[g] = Fields
  BY DEF SlotsInv
<1>3. host'[Server].targets = host[Server].targets
  BY ServerHost DEF SlotsInv
<1> QED  BY <1>1, <1>2, <1>3 DEF SlotsInv

\* A step that changes no host.
LEMMA SlotsUnchanged ==
  ASSUME SlotsInv, UNCHANGED <<server, host>>
  PROVE  SlotsInv'
  BY DEF SlotsInv, SlotIds

\* The steps of a client only change the client.
LEMMA SlotsClient ==
  ASSUME SlotsInv, NEW c \in Clients,
         Connect(c) \/ Disconnect(c) \/ UpdateClient(c) \/ Crash(c)
  PROVE  SlotsInv'
<1>1. c \in Hosts /\ c # Server
  BY HostsAssumption, ServerHost
<1>2. /\ server' = server
      /\ host' = host \/ host' = [host EXCEPT ![c] = Cleared(host[c])]
                      \/ host' = [host EXCEPT ![c] = NewHost]
  BY DEF Connect, Disconnect, UpdateClient, Crash, Close
<1>3. DOMAIN Cleared(host[c]) = Fields /\ DOMAIN NewHost = Fields
  BY <1>1 DEF SlotsInv, Cleared, NewHost, Fields
<1> QED  BY <1>1, <1>2, <1>3, SlotsSame, SlotsUnchanged

\* What a user does to the nodes.
LEMMA SlotsUser ==
  ASSUME SlotsInv, NEW h \in Hosts,
         AddNode(h) \/ \E n, t, v : /\ t \in {"delete", "param", "activate", "deactivate"}
                                    /\ ChangeNode(h, n, t, v)
  PROVE  SlotsInv'
<1>1. DOMAIN host[h] = Fields
  BY DEF SlotsInv
<1>2. CASE AddNode(h)
  <2> DEFINE w == WithNode(host[h])
             y == HandleAdd(w, host[h].lastId)
  <2>1. server' = server /\ host' = [host EXCEPT ![h] = y]
    BY <1>2 DEF AddNode
  <2>2. SameTargets(host[h], w)
    BY <1>1, WorldKeepsTargets
  <2> HIDE DEF w
  <2>3. SameTargets(w, y)
    BY <2>2, WorldKeepsTargets DEF HandleAdd, SameTargets
  <2> QED  BY <2>1, <2>2, <2>3, SlotsSame DEF SameTargets
<1>3. ASSUME NEW n, NEW t \in {"delete", "param", "activate", "deactivate"}, NEW v,
             ChangeNode(h, n, t, v)
      PROVE  SlotsInv'
  <2> DEFINE op == Op(t, NetOf(host[h], n), v, h)
             w == Changed(host[h], n, op)
             y == HandleOther(w, op, n)
  <2>1. server' = server /\ host' = [host EXCEPT ![h] = y]
    BY <1>3 DEF ChangeNode
  <2>2. op.type = t
    BY DEF Op
  <2> HIDE DEF op
  <2>3. SameTargets(host[h], w)
    BY <1>1, <2>2, ChangedKeepsTargets
  <2> HIDE DEF w
  <2>4. SameTargets(w, y)
    BY <2>3, WorldKeepsTargets DEF HandleOther, SameTargets
  <2> QED  BY <2>1, <2>3, <2>4, SlotsSame DEF SameTargets
<1> QED  BY <1>2, <1>3

-----------------------------------------------------------------------------
(* The server.                                                             *)

\* listen () finds the list of targets empty, since stop () has cleared it.
LEMMA SlotsListen ==
  ASSUME SlotsInv, Listen
  PROVE  SlotsInv'
<1>1. /\ server.state = "IDLE"
      /\ server' = [server EXCEPT !.state = "LISTENING", !.nextId = 1]
      /\ host' = [host EXCEPT ![Server].id = 0, ![Server].on = TRUE]
  BY DEF Listen
<1>2. /\ DOMAIN server' = {"state", "slots", "nextId"} /\ server'.slots = server.slots
      /\ server'.nextId = 1 /\ server'.state = "LISTENING"
  BY <1>1 DEF SlotsInv, SlotIds
<1>3. DOMAIN server.slots = {}
  BY <1>1 DEF SlotsInv, SlotIds
<1>4. SlotIds'
  BY <1>2, <1>3 DEF SlotIds
<1>5. /\ DOMAIN host' = Hosts /\ \A g \in Hosts : DOMAIN host'[g] = Fields
      /\ host'[Server].targets = host[Server].targets
  BY <1>1, ServerHost DEF SlotsInv, Fields
<1> QED  BY <1>2, <1>4, <1>5 DEF SlotsInv

\* stop () and a crash forget the clients on both sides.
LEMMA SlotsStop ==
  ASSUME SlotsInv, Stop \/ CrashServer
  PROVE  SlotsInv'
<1>1. CASE Stop
  <2>1. /\ server' = [server EXCEPT !.state = "IDLE", !.slots = <<>>]
        /\ host' = [host EXCEPT ![Server] = Cleared(host[Server])]
    BY <1>1 DEF Stop
  <2>2. /\ DOMAIN server' = {"state", "slots", "nextId"} /\ DOMAIN server'.slots = {}
        /\ server'.nextId = server.nextId /\ server'.state = "IDLE"
    BY <2>1 DEF SlotsInv, SlotIds
  <2>3. SlotIds'
    BY <2>2 DEF SlotsInv, SlotIds
  <2>4. DOMAIN Cleared(host[Server]) = Fields /\ Cleared(host[Server]).targets = {}
    BY ServerHost DEF SlotsInv, Cleared, Fields
  <2> QED  BY <2>1, <2>2, <2>3, <2>4, ServerHost DEF SlotsInv
<1>2. CASE CrashServer
  <2>1. /\ server' = [state |-> "IDLE", slots |-> <<>>, nextId |-> 0]
        /\ host' = [host EXCEPT ![Server] = NewHost]
    BY <1>2 DEF CrashServer
  <2>2. DOMAIN NewHost = Fields /\ NewHost.targets = {}
    BY DEF NewHost, Fields
  <2>3. DOMAIN server'.slots = {} /\ SlotIds'
    BY <2>1 DEF SlotIds
  <2> QED  BY <2>1, <2>2, <2>3, ServerHost DEF SlotsInv
<1> QED  BY <1>1, <1>2

\* The targets of the server become those of a set of slots.
LEMMA SlotsBecome ==
  ASSUME SlotsInv, SlotIds', NEW T, DOMAIN server'.slots = T,
         host' = [host EXCEPT ![Server].targets = T]
  PROVE  SlotsInv'
<1>1. DOMAIN host' = Hosts /\ \A g \in Hosts : DOMAIN host'[g] = Fields
  BY DEF SlotsInv
<1>2. host'[Server].targets = T
  BY ServerHost DEF SlotsInv, Fields
<1> QED  BY <1>1, <1>2 DEF SlotsInv

\* A client that is dropped leaves the slots and the targets.
LEMMA SlotsUpdate ==
  ASSUME SlotsInv, UpdateServer
  PROVE  SlotsInv'
<1> DEFINE slots == server.slots
           expired == {c \in DOMAIN slots : Expired(slots[c].recv + 1)}
           stay == DOMAIN slots \ expired
           alive == {c \in stay : slots[c].sent + 1 > MinAlive}
           New(c) == [slots[c] EXCEPT !.recv = @ + 1, !.sent = IF c \in alive THEN 0 ELSE @ + 1]
<1>1. /\ server.state = "LISTENING" /\ server' = [server EXCEPT !.slots = [c \in stay |-> New(c)]]
      /\ host' = [host EXCEPT ![Server].targets = @ \ expired]
  BY DEF UpdateServer
<1>2. ASSUME NEW c \in stay
      PROVE  DOMAIN New(c) = {"id", "recv", "sent"} /\ New(c).id = slots[c].id
  BY DEF SlotsInv, SlotIds
<1> HIDE DEF New
<1>3. /\ DOMAIN server' = {"state", "slots", "nextId"} /\ server'.state = "LISTENING"
      /\ server'.nextId = server.nextId /\ server'.slots = [c \in stay |-> New(c)]
  BY <1>1 DEF SlotsInv, SlotIds
<1>4. stay \subseteq DOMAIN slots
  OBVIOUS
<1>5. DOMAIN host[Server] = Fields /\ host[Server].targets \ expired = stay
  BY ServerHost DEF SlotsInv
<1> HIDE DEF expired, stay, alive
<1>6. SlotIds'
  BY <1>2, <1>3, <1>4 DEF SlotsInv, SlotIds
<1>7. host' = [host EXCEPT ![Server].targets = stay]
  BY <1>1, <1>5, ServerHost DEF SlotsInv, Fields
<1> QED  BY <1>3, <1>6, <1>7, SlotsBecome

\* A new client gets an identifier above all others.
LEMMA SlotsConnect ==
  ASSUME SlotsInv, server.state # "IDLE", NEW c \in Clients, NEW rest, ServerConnect(c, rest)
  PROVE  SlotsInv'
<1> DEFINE known == c \in host[Server].targets
           id == IF known THEN server.slots[c].id ELSE server.nextId
           next == IF known THEN server.nextId ELSE server.nextId + 1
           slots == With(server.slots, c, NewSlot(id))
<1>1. /\ server' = [server EXCEPT !.slots = slots, !.nextId = next]
      /\ host' = [host EXCEPT ![Server].targets = @ \cup {c}]
  BY DEF ServerConnect
<1>2. /\ DOMAIN slots = {c} \cup DOMAIN server.slots
      /\ slots[c] = NewSlot(id) /\ \A d \in DOMAIN server.slots \ {c} : slots[d] = server.slots[d]
  BY DEF With
<1>3. /\ id \in Nat /\ next \in Nat /\ id < next /\ server.nextId <= next
      /\ \A d \in DOMAIN server.slots \ {c} : server.slots[d].id # id
  BY DEF SlotsInv, SlotIds
<1>4. DOMAIN NewSlot(id) = {"id", "recv", "sent"} /\ NewSlot(id).id = id
  BY DEF NewSlot
<1> HIDE DEF id, next, slots
<1>5. /\ DOMAIN server' = {"state", "slots", "nextId"} /\ server'.state = server.state
      /\ server'.nextId = next /\ server'.slots = slots
  BY <1>1 DEF SlotsInv, SlotIds
<1>6. SlotIds'
  <2>1. \A d \in DOMAIN slots :
           /\ DOMAIN slots[d] = {"id", "recv", "sent"}
           /\ slots[d].id \in Nat /\ slots[d].id < next
    BY <1>2, <1>3, <1>4 DEF SlotsInv, SlotIds
  <2>2. \A d, e \in DOMAIN slots : slots[d].id = slots[e].id => d = e
    BY <1>2, <1>3, <1>4 DEF SlotsInv, SlotIds
  <2> QED  BY <1>3, <1>5, <2>1, <2>2 DEF SlotsInv, SlotIds
<1>7. host' = [host EXCEPT ![Server].targets = {c} \cup DOMAIN server.slots]
  BY <1>1, ServerHost DEF SlotsInv, Fields
<1> QED  BY <1>2, <1>5, <1>6, <1>7, SlotsBecome

\* A client that says goodbye leaves both.
LEMMA SlotsDisconnect ==
  ASSUME SlotsInv, NEW c \in Clients, ServerDisconnect(c)
  PROVE  SlotsInv'
<1> DEFINE slots == Without(server.slots, c)
<1>1. /\ server' = [server EXCEPT !.slots = slots]
      /\ host' = [host EXCEPT ![Server].targets = @ \ {c}]
  BY DEF ServerDisconnect
<1>2. /\ DOMAIN slots = DOMAIN server.slots \ {c}
      /\ \A d \in DOMAIN slots : slots[d] = server.slots[d]
  BY DEF Without
<1> HIDE DEF slots
<1>3. /\ DOMAIN server' = {"state", "slots", "nextId"} /\ server'.state = server.state
      /\ server'.nextId = server.nextId /\ server'.slots = slots
  BY <1>1 DEF SlotsInv, SlotIds
<1>4. SlotIds'
  <2>1. \A d \in DOMAIN slots : d \in DOMAIN server.slots /\ slots[d] = server.slots[d]
    BY <1>2
  <2>2. server.state = "IDLE" => DOMAIN slots = {}
    BY <1>2 DEF SlotsInv, SlotIds
  <2>3. \A d \in DOMAIN slots : /\ DOMAIN slots[d] = {"id", "recv", "sent"}
                               /\ slots[d].id \in Nat /\ slots[d].id < server.nextId
    BY <2>1 DEF SlotsInv, SlotIds
  <2>4. \A d, e \in DOMAIN slots : slots[d].id = slots[e].id => d = e
    BY <2>1 DEF SlotsInv, SlotIds
  <2> QED  BY <1>3, <2>2, <2>3, <2>4 DEF SlotsInv, SlotIds
<1>5. host' = [host EXCEPT ![Server].targets = DOMAIN slots]
  BY <1>1, <1>2, ServerHost DEF SlotsInv, Fields
<1> QED  BY <1>3, <1>4, <1>5, SlotsBecome

\* An ALIVE only sets a clock.
LEMMA SlotsAlive ==
  ASSUME SlotsInv, NEW c \in Clients, ServerAlive(c), host' = host
  PROVE  SlotsInv'
<1>1. CASE c \in DOMAIN server.slots
  <2>1. server' = [server EXCEPT !.slots[c].recv = 0]
    BY <1>1 DEF ServerAlive
  <2>2. /\ DOMAIN server' = {"state", "slots", "nextId"} /\ server'.state = server.state
        /\ server'.nextId = server.nextId /\ DOMAIN server'.slots = DOMAIN server.slots
    BY <2>1 DEF SlotsInv, SlotIds
  <2>3. \A d \in DOMAIN server.slots : /\ DOMAIN server'.slots[d] = {"id", "recv", "sent"}
                                       /\ server'.slots[d].id = server.slots[d].id
    BY <2>1 DEF SlotsInv, SlotIds
  <2>4. SlotIds'
    BY <2>2, <2>3 DEF SlotsInv, SlotIds
  <2> QED  BY <2>2, <2>4 DEF SlotsInv
<1>2. CASE c \notin DOMAIN server.slots
  BY <1>2, SlotsUnchanged DEF ServerAlive
<1> QED  BY <1>1, <1>2

-----------------------------------------------------------------------------
(* Messages.                                                               *)

\* An operation changes the nodes only.
LEMMA SlotsReceive ==
  ASSUME SlotsInv, server' = server, NEW from, NEW to \in Hosts, NEW op, IsOp(op), NEW rest,
         Receive(from, to, op, rest)
  PROVE  SlotsInv'
<1>1. \/ host' = host
      \/ \E y \in (IF op.type = "add" THEN {AddCallback(host[to], op)}
                   ELSE OtherCallbacks(host[to], op)) : host' = [host EXCEPT ![to] = y]
  BY DEF Receive
<1>2. DOMAIN host[to] = Fields
  BY DEF SlotsInv
<1>3. ASSUME NEW y \in (IF op.type = "add" THEN {AddCallback(host[to], op)}
                        ELSE OtherCallbacks(host[to], op)), host' = [host EXCEPT ![to] = y]
      PROVE  SlotsInv'
  <2>1. SameTargets(host[to], y)
    BY <1>2, CallbacksKeepTargets
  <2> QED  BY <1>3, <2>1, SlotsSame DEF SameTargets
<1> QED  BY <1>1, <1>3, SlotsUnchanged

\* Whatever arrives.
LEMMA SlotsDeliver ==
  ASSUME SlotsInv, Deliver
  PROVE  SlotsInv'
<1>1. ASSUME NEW c \in Clients, DeliverToClient(c) PROVE SlotsInv'
  <2>1. c \in Hosts /\ c # Server
    BY HostsAssumption, ServerHost
  <2>2. PICK m, rest : \/ host' = host
                       \/ ClientAccept(c, m, rest)
                       \/ IsOp(m) /\ Receive(Server, c, m, rest)
    BY <1>1 DEF DeliverToClient
  <2>3. server' = server
    BY <1>1 DEF DeliverToClient
  <2>4. CASE ClientAccept(c, m, rest)
    <3>1. host' = host \/ host' = [host EXCEPT ![c] = Accepted(host[c], m.id)]
      BY <2>4 DEF ClientAccept
    <3>2. DOMAIN Accepted(host[c], m.id) = Fields
      BY <2>1 DEF SlotsInv, Accepted, Emptied, Fields
    <3> QED  BY <2>1, <2>3, <3>1, <3>2, SlotsSame, SlotsUnchanged
  <2> QED  BY <2>1, <2>2, <2>3, <2>4, SlotsReceive, SlotsUnchanged
<1>2. ASSUME NEW c \in Clients, DeliverToServer(c) PROVE SlotsInv'
  <2>1. PICK m, rest : \/ UNCHANGED <<server, host>>
                       \/ server.state # "IDLE" /\ ServerConnect(c, rest)
                       \/ ServerDisconnect(c)
                       \/ ServerAlive(c) /\ UNCHANGED host
                       \/ IsOp(m) /\ Receive(c, Server, m, rest) /\ UNCHANGED server
    BY <1>2 DEF DeliverToServer
  <2> QED  BY <2>1, ServerHost, SlotsUnchanged, SlotsConnect, SlotsDisconnect, SlotsAlive,
              SlotsReceive
<1> QED  BY <1>1, <1>2 DEF Deliver

\* The invariant is inductive.
LEMMA SlotsNext == SlotsInv /\ [Next]_vars => SlotsInv'
<1> SUFFICES ASSUME SlotsInv, [Next]_vars PROVE SlotsInv'
  OBVIOUS
<1>1. ASSUME NEW u \in Hosts, Command(u) PROVE SlotsInv'
  <2>1. CASE \E c \in Clients : Connect(c) \/ Disconnect(c)
    BY <2>1, SlotsClient
  <2>2. CASE \E h \in Hosts :
                AddNode(h) \/ \E n, t, v : /\ t \in {"delete", "param", "activate", "deactivate"}
                                           /\ ChangeNode(h, n, t, v)
    BY <2>2, SlotsUser
  <2>3. \/ \E c \in Clients : Connect(c) \/ Disconnect(c)
        \/ Listen \/ Stop
        \/ \E h \in Hosts :
              AddNode(h) \/ \E n, t, v : /\ t \in {"delete", "param", "activate", "deactivate"}
                                         /\ ChangeNode(h, n, t, v)
    BY <1>1 DEF Command
  <2> QED  BY <2>1, <2>2, <2>3, SlotsListen, SlotsStop
<1>2. ASSUME NEW u \in Hosts, Failure(u) PROVE SlotsInv'
  <2>1. CASE \E l \in Links : Lose(l) \/ Swap(l) \/ Duplicate(l)
    BY <2>1, SlotsUnchanged DEF Lose, Swap, Duplicate, Fault
  <2> QED  BY <1>2, <2>1, SlotsStop, SlotsClient DEF Failure
<1>3. CASE Update
  BY <1>3, SlotsUpdate, SlotsClient DEF Update
<1>4. CASE Deliver
  BY <1>4, SlotsDeliver
<1>5. CASE UNCHANGED vars
  BY <1>5, SlotsUnchanged DEF vars
<1> QED  BY <1>1, <1>2, <1>3, <1>4, <1>5 DEF Next

\* The server watches exactly the clients it answers to, and no two of them have
\* the same identifier, for any number of clients, whatever is lost, duplicated
\* or reordered and whoever dies.
THEOREM ClientsKeptTwice == Spec => []SlotsAreTargets
<1>1. SlotsInv => SlotsAreTargets
  BY DEF SlotsInv, SlotIds, SlotsAreTargets
<1> QED  BY <1>1, SlotsInit, SlotsNext, PTL DEF Spec

\* What an operation of the controller or of the world leaves as it was.
Kept(x, y) == WellTyped(y) /\ y.on = x.on /\ y.id = x.id /\ y.targets = x.targets

\* The operators on a host.
LEMMA OperatorsKeep ==
  ASSUME NEW x, WellTyped(x)
  PROVE  /\ Kept(x, WithNode(x)) /\ x.lastId \in DOMAIN WithNode(x).nodes
         /\ \A n \in Nets, k \in Nat : Kept(x, Named(x, n, k))
         /\ \A n, k : Kept(x, Forgotten(x, n, k))
         /\ \A n : Kept(x, [x EXCEPT !.localId = Without(@, n)])
         /\ \A n \in Nets, k \in Nat : Kept(x, [x EXCEPT !.netId = With(@, k, n)])
         /\ \A k : Kept(x, [x EXCEPT !.nodes = Without(@, k)])
<1>1. Kept(x, WithNode(x)) /\ x.lastId \in DOMAIN WithNode(x).nodes
  <2>1. NewNode \in Nodes
    BY DEF NewNode, Nodes
  <2> QED  BY <2>1 DEF Kept, WellTyped, Fields, WithNode, With
<1>2. \A n \in Nets, k \in Nat : Kept(x, Named(x, n, k))
  BY DEF Kept, WellTyped, Fields, Named, With
<1>3. \A n, k : Kept(x, Forgotten(x, n, k))
  BY DEF Kept, WellTyped, Fields, Forgotten, Without
<1>4. \A n : Kept(x, [x EXCEPT !.localId = Without(@, n)])
  BY DEF Kept, WellTyped, Fields, Without
<1>5. \A n \in Nets, k \in Nat : Kept(x, [x EXCEPT !.netId = With(@, k, n)])
  BY DEF Kept, WellTyped, Fields, With
<1>6. \A k : Kept(x, [x EXCEPT !.nodes = Without(@, k)])
  BY DEF Kept, WellTyped, Fields, Without
<1> QED  BY <1>1, <1>2, <1>3, <1>4, <1>5, <1>6

\* An operation on a node that exists.
LEMMA ChangedKeeps ==
  ASSUME NEW x, WellTyped(x), NEW k \in DOMAIN x.nodes, NEW op \in Ops, op.type # "add"
  PROVE  Kept(x, Changed(x, k, op)) /\ (op.type # "delete" => DOMAIN Changed(x, k, op).nodes = DOMAIN x.nodes)
<1>1. op.type \in {"delete", "param", "activate", "deactivate"} /\ op.value \in Values \cup {0}
  BY DEF Ops
<1>2. k \in Nat /\ x.nodes[k] \in Nodes
  BY DEF WellTyped
<1>3. CASE op.type = "delete"
  BY <1>3, OperatorsKeep DEF Changed
<1>4. ASSUME NEW v \in Nodes
      PROVE  /\ Kept(x, [x EXCEPT !.nodes[k] = v])
             /\ DOMAIN [x EXCEPT !.nodes[k] = v].nodes = DOMAIN x.nodes
  BY DEF Kept, WellTyped, Fields
<1>5. CASE op.type = "param"
  <2>1. [x.nodes[k] EXCEPT !.value = op.value] \in Nodes
    BY <1>1, <1>2 DEF Nodes
  <2>2. Changed(x, k, op) = [x EXCEPT !.nodes[k] = [x.nodes[k] EXCEPT !.value = op.value]]
    BY <1>5 DEF Changed, WellTyped, Fields
  <2> QED  BY <1>4, <2>1, <2>2
<1>6. CASE op.type = "activate"
  <2>1. [x.nodes[k] EXCEPT !.active = TRUE] \in Nodes
    BY <1>2 DEF Nodes
  <2>2. Changed(x, k, op) = [x EXCEPT !.nodes[k] = [x.nodes[k] EXCEPT !.active = TRUE]]
    BY <1>6 DEF Changed, WellTyped, Fields
  <2> QED  BY <1>4, <2>1, <2>2
<1>7. CASE op.type = "deactivate"
  <2>1. [x.nodes[k] EXCEPT !.active = FALSE] \in Nodes
    BY <1>2 DEF Nodes
  <2>2. Changed(x, k, op) = [x EXCEPT !.nodes[k] = [x.nodes[k] EXCEPT !.active = FALSE]]
    BY <1>7 DEF Changed, WellTyped, Fields
  <2> QED  BY <1>4, <2>1, <2>2
<1> QED  BY <1>1, <1>3, <1>5, <1>6, <1>7

\* The callbacks.
LEMMA CallbacksKeep ==
  ASSUME NEW x, WellTyped(x), NEW op \in Ops, op.type # "add" => Known(x, op.net),
         NEW y \in (IF op.type = "add" THEN {AddCallback(x, op)} ELSE OtherCallbacks(x, op))
  PROVE  Kept(x, y)
<1>1. op.net \in Nets
  BY DEF Ops
<1>2. CASE op.type = "add"
  <2> DEFINE w == WithNode(x)
  <2>1. y = Named(w, op.net, x.lastId) /\ x.lastId \in Nat
    BY <1>2 DEF AddCallback, WellTyped
  <2>2. Kept(x, w)
    BY OperatorsKeep
  <2> HIDE DEF w
  <2>3. Kept(w, y)
    BY <1>1, <2>1, <2>2, OperatorsKeep DEF Kept
  <2> QED  BY <2>2, <2>3 DEF Kept
<1>3. CASE op.type # "add"
  <2> DEFINE k == x.localId[op.net]
             w == Changed(x, k, op)
  <2>1. Kept(x, w)
    BY <1>3, ChangedKeeps DEF Known
  <2> HIDE DEF w
  <2>2. \/ y = w
        \/ y = Forgotten(w, op.net, k)
        \/ y = [w EXCEPT !.localId = Without(@, op.net)]
    BY <1>3 DEF OtherCallbacks, w
  <2> HIDE DEF k
  <2> DEFINE n == op.net
  <2> HIDE DEF n
  <2>3. y = w \/ Kept(w, y)
    <3>1. WellTyped(w)
      BY <2>1 DEF Kept
    <3>2. Kept(w, Forgotten(w, n, k)) /\ Kept(w, [w EXCEPT !.localId = Without(@, n)])
      BY <3>1, OperatorsKeep
    <3> QED  BY <2>2, <3>2 DEF n
  <2> QED  BY <2>1, <2>3 DEF Kept
<1> QED  BY <1>2, <1>3

\* The handlers, after what the user did.
LEMMA HandlersKeep ==
  ASSUME NEW x, WellTyped(x)
  PROVE  /\ Kept(x, HandleAdd(WithNode(x), x.lastId))
         /\ \A k \in DOMAIN x.nodes : NetOf(x, k) \in Nets
         /\ \A k \in DOMAIN x.nodes, op \in Ops :
               op.type # "add" => Kept(x, HandleOther(Changed(x, k, op), op, k))
<1>1. Kept(x, HandleAdd(WithNode(x), x.lastId))
  <2> DEFINE w == WithNode(x)
  <2>1. Kept(x, w)
    BY OperatorsKeep
  <2>2. x.lastId \in Nat
    BY DEF WellTyped
  <2> HIDE DEF w
  <2>3. <<w.id, x.lastId>> \in Nets /\ WellTyped(w)
    BY <2>1, <2>2 DEF Kept, WellTyped, Nets
  <2>4. Kept(w, HandleAdd(w, x.lastId))
    BY <2>2, <2>3, OperatorsKeep DEF HandleAdd
  <2> QED  BY <2>1, <2>4 DEF Kept, w
<1>2. \A k \in DOMAIN x.nodes : NetOf(x, k) \in Nets
  BY DEF NetOf, NoNet, Nets, WellTyped
<1>3. ASSUME NEW k \in DOMAIN x.nodes, NEW op \in Ops, op.type # "add"
      PROVE  Kept(x, HandleOther(Changed(x, k, op), op, k))
  <2> DEFINE w == Changed(x, k, op)
  <2>1. Kept(x, w)
    BY <1>3, ChangedKeeps
  <2>2. k \in Nat /\ op.net \in Nets
    BY DEF WellTyped, Ops
  <2> HIDE DEF w
  <2>3. WellTyped(w)
    BY <2>1 DEF Kept
  <2>4. Kept(w, [w EXCEPT !.netId = With(@, k, op.net)]) /\ Kept(w, Forgotten(w, op.net, k))
    BY <2>2, <2>3, OperatorsKeep
  <2>6. Kept(w, HandleOther(w, op, k))
    BY <2>4 DEF HandleOther
  <2> QED  BY <2>1, <2>6 DEF Kept, w
<1> QED  BY <1>1, <1>2, <1>3

-----------------------------------------------------------------------------
(* The types.                                                              *)

ClientType == [state: {"IDLE", "PENDING", "CONNECTED", "CLOSING"},
               recv: 0 .. MaxAlive, sent: 0 .. MinAlive, countNext: BOOLEAN]
SlotType == [id: Nat, recv: 0 .. MaxAlive, sent: 0 .. MinAlive]

SlotsTyped == \A c \in DOMAIN server.slots : c \in Clients /\ server.slots[c] \in SlotType

HistoryTyped ==
    /\ faults \subseteq {"lost", "swapped", "duplicated"} /\ reborn \subseteq Hosts
    /\ again \in BOOLEAN

TypesInv ==
    /\ HostsTyped(host) /\ client \in [Clients -> ClientType]
    /\ SlotsInv /\ SlotsTyped /\ RightLinks(link) /\ HistoryTyped

\* One host changes.
LEMMA HostsSet ==
  ASSUME HostsTyped(host), NEW h \in Hosts, NEW y, WellTyped(y), y.targets \subseteq OtherEnds(h),
         host' = [host EXCEPT ![h] = y]
  PROVE  HostsTyped(host')
  BY DEF HostsTyped

\* One host changes, but for its targets.
LEMMA HostsKept ==
  ASSUME HostsTyped(host), NEW h \in Hosts, NEW y, Kept(host[h], y), host' = [host EXCEPT ![h] = y]
  PROVE  HostsTyped(host')
  BY HostsSet DEF HostsTyped, Kept

\* A host as new, or cleared.
LEMMA ClearedTyped ==
  /\ WellTyped(NewHost) /\ NewHost.targets = {}
  /\ \A x : WellTyped(x) => WellTyped(Cleared(x)) /\ Cleared(x).targets = {}
  /\ \A x, id : WellTyped(x) /\ id \in Nat =>
        WellTyped(Accepted(x, id)) /\ Accepted(x, id).targets = {Server}
<1>1. WellTyped(NewHost) /\ NewHost.targets = {}
  BY DEF NewHost, WellTyped, Fields, MinUserId
<1>2. \A x : WellTyped(x) => WellTyped(Cleared(x)) /\ Cleared(x).targets = {}
  BY DEF Cleared, WellTyped, Fields
<1>3. \A x, id : WellTyped(x) /\ id \in Nat =>
        WellTyped(Accepted(x, id)) /\ Accepted(x, id).targets = {Server}
  BY DEF Accepted, Emptied, WellTyped, Fields
<1> QED  BY <1>1, <1>2, <1>3

\* What the users do to the hosts.
LEMMA HostsUser ==
  ASSUME HostsTyped(host), NEW h \in Hosts,
         AddNode(h) \/ \E n \in DOMAIN host[h].nodes, v \in Values \cup {0},
                          t \in {"delete", "param", "activate", "deactivate"} : ChangeNode(h, n, t, v)
  PROVE  HostsTyped(host') /\ (RightLinks(link) => RightLinks(link'))
<1>1. WellTyped(host[h])
  BY DEF HostsTyped
<1>2. CASE AddNode(h)
  <2> DEFINE op == Op("add", <<HandleAdd(WithNode(host[h]), host[h].lastId).id, host[h].lastId>>, 0, h)
  <2>1. HostsTyped(host')
    BY <1>1, <1>2, HandlersKeep, HostsKept DEF AddNode
  <2>2. Kept(host[h], HandleAdd(WithNode(host[h]), host[h].lastId)) /\ host[h].lastId \in Nat
    BY <1>1, HandlersKeep DEF WellTyped
  <2>3. op \in Messages /\ op.by = h
    BY <2>2, Operations DEF Kept, WellTyped, Nets
  <2>4. \A l \in Links : l[1] = h => op \in On(l)
    BY <2>3, LinkEnds DEF On
  <2>5. \E d : link' = Sent(link, h, d, op)
    BY <1>2 DEF AddNode
  <2> HIDE DEF op
  <2> QED  BY <2>1, <2>4, <2>5, SentRight
<1>3. ASSUME NEW n \in DOMAIN host[h].nodes, NEW v \in Values \cup {0},
             NEW t \in {"delete", "param", "activate", "deactivate"}, ChangeNode(h, n, t, v)
      PROVE  HostsTyped(host') /\ (RightLinks(link) => RightLinks(link'))
  <2> DEFINE op == Op(t, NetOf(host[h], n), v, h)
  <2>1. NetOf(host[h], n) \in Nets
    BY <1>1, HandlersKeep
  <2>2. op \in Messages /\ IsOp(op) /\ op.by = h /\ op.type = t
    BY <2>1, Operations DEF Op
  <2>3. op \in Ops /\ op.type # "add"
    BY <2>2, Operations
  <2>4. /\ host' = [host EXCEPT ![h] = HandleOther(Changed(host[h], n, op), op, n)]
        /\ link' = Sent(link, h, host[h].targets, op)
    BY <1>3 DEF ChangeNode
  <2> HIDE DEF op
  <2>5. HostsTyped(host')
    BY <1>1, <2>3, <2>4, HandlersKeep, HostsKept
  <2>6. \A l \in Links : l[1] = h => op \in On(l)
    BY <2>2, LinkEnds DEF On
  <2> QED  BY <2>4, <2>5, <2>6, SentRight
<1> QED  BY <1>2, <1>3

\* What the users, the clocks and a crash do to the hosts.
LEMMA HostsCommand ==
  ASSUME HostsTyped(host), RightLinks(link), NEW u \in Hosts, Command(u)
  PROVE  HostsTyped(host') /\ RightLinks(link')
<1>1. ASSUME NEW c \in Clients, Connect(c)
      PROVE  HostsTyped(host') /\ RightLinks(link')
  BY <1>1, Signals, SentOther DEF Connect
<1>2. ASSUME NEW c \in Clients, Disconnect(c)
      PROVE  HostsTyped(host') /\ RightLinks(link')
  <2>1. WellTyped(host[c]) /\ c \in Hosts
    BY ServerHost DEF HostsTyped
  <2>2. HostsTyped(host')
    BY <1>2, <2>1, ClearedTyped, HostsSet DEF Disconnect, Close
  <2> QED  BY <1>2, <2>2, Signals, SentOther DEF Disconnect
<1>3. CASE Listen
  <2> DEFINE y == [host[Server] EXCEPT !.id = 0, !.on = TRUE]
  <2>1. host' = [host EXCEPT ![Server] = y]
    BY <1>3, ServerHost DEF Listen, HostsTyped
  <2>2. WellTyped(y) /\ y.targets \subseteq OtherEnds(Server)
    BY ServerHost DEF HostsTyped, WellTyped, Fields
  <2> QED  BY <1>3, <2>1, <2>2, ServerHost, HostsSet DEF Listen, net
<1>4. CASE Stop
  <2>1. WellTyped(host[Server])
    BY ServerHost DEF HostsTyped
  <2>2. HostsTyped(host')
    BY <1>4, <2>1, ServerHost, ClearedTyped, HostsSet DEF Stop
  <2> QED  BY <1>4, <2>2, Signals, SentOther DEF Stop
<1>5. \/ \E c \in Clients : Connect(c) \/ Disconnect(c)
      \/ Listen \/ Stop
      \/ AddNode(u) \/ \E n \in DOMAIN host[u].nodes, v \in Values \cup {0},
                          t \in {"delete", "param", "activate", "deactivate"} : ChangeNode(u, n, t, v)
  BY DEF Command
<1> QED  BY <1>1, <1>2, <1>3, <1>4, <1>5, HostsUser

\* Clocks send no operations, and close clients and drop targets.
LEMMA HostsUpdate ==
  ASSUME HostsTyped(host), RightLinks(link), Update
  PROVE  HostsTyped(host') /\ RightLinks(link')
<1>1. CASE UpdateServer
  <2>1. PICK e, a : /\ link' = Sent(Sent(link, Server, e, Msg("DROP")), Server, a, Msg("ALIVE"))
                    /\ host' = [host EXCEPT ![Server].targets = @ \ e]
    BY <1>1 DEF UpdateServer
  <2>2. RightLinks(Sent(link, Server, e, Msg("DROP")))
    BY Signals, SentOther
  <2>3. RightLinks(link')
    BY <2>1, <2>2, Signals, SentOther
  <2> DEFINE y == [host[Server] EXCEPT !.targets = @ \ e]
  <2>4. WellTyped(y) /\ y.targets \subseteq OtherEnds(Server)
    BY ServerHost DEF HostsTyped, WellTyped, Fields, OtherEnds
  <2>5. host' = [host EXCEPT ![Server] = y]
    BY <2>1, ServerHost DEF HostsTyped
  <2> HIDE DEF y
  <2> QED  BY <2>3, <2>4, <2>5, ServerHost, HostsSet
<1>2. ASSUME NEW c \in Clients, UpdateClient(c)
      PROVE  HostsTyped(host') /\ RightLinks(link')
  <2>1. c \in Hosts /\ WellTyped(host[c])
    BY ServerHost DEF HostsTyped
  <2>2. host' = host \/ host' = [host EXCEPT ![c] = Cleared(host[c])]
    BY <1>2 DEF UpdateClient, Close
  <2>3. HostsTyped(host')
    BY <2>1, <2>2, ClearedTyped, HostsSet
  <2>4. RightLinks(link')
    BY <1>2, Signals, SentOther DEF UpdateClient
  <2> QED  BY <2>3, <2>4
<1> QED  BY <1>1, <1>2 DEF Update

\* The network makes no message of its own.
LEMMA HostsFailure ==
  ASSUME HostsTyped(host), RightLinks(link), NEW u \in Hosts, Failure(u)
  PROVE  HostsTyped(host') /\ RightLinks(link')
<1>1. ASSUME NEW c \in Hosts, host' = [host EXCEPT ![c] = NewHost], UNCHANGED net
      PROVE  HostsTyped(host') /\ RightLinks(link')
  BY <1>1, ClearedTyped, HostsSet DEF net
<1>2. ASSUME NEW l \in Links, NEW s, link[l] # <<>>, link' = [link EXCEPT ![l] = s], UNCHANGED host,
             \A S : link[l] \in Seq(S) => s \in Seq(S)
      PROVE  HostsTyped(host') /\ RightLinks(link')
  <2>1. s \in Seq(On(l))
    BY <1>2 DEF RightLinks
  <2> QED  BY <1>2, <2>1, ReplacedRight
<1>3. ASSUME NEW l \in Links, Lose(l) PROVE HostsTyped(host') /\ RightLinks(link')
  <2>1. \A S : link[l] \in Seq(S) => Tail(link[l]) \in Seq(S)
    BY <1>3 DEF Lose
  <2> QED  BY <1>2, <1>3, <2>1 DEF Lose, Fault
<1>4. ASSUME NEW l \in Links, Swap(l) PROVE HostsTyped(host') /\ RightLinks(link')
  <2> DEFINE t == <<link[l][2], link[l][1]>> \o SubSeq(link[l], 3, Len(link[l]))
  <2>1. ASSUME NEW S, link[l] \in Seq(S) PROVE t \in Seq(S) /\ link[l] # <<>>
    <3>1. Len(link[l]) > 1
      BY <1>4 DEF Swap
    <3>2. link[l][1] \in S /\ link[l][2] \in S /\ link[l] # <<>>
      BY <2>1, <3>1
    <3>3. <<link[l][2], link[l][1]>> \in Seq(S)
      BY <3>2
    <3>4. SubSeq(link[l], 3, Len(link[l])) \in Seq(S)
      BY <2>1
    <3> QED  BY <3>2, <3>3, <3>4
  <2>2. link[l] # <<>>
    BY <2>1 DEF RightLinks
  <2> QED  BY <1>2, <1>4, <2>1, <2>2 DEF Swap, Fault
<1>5. ASSUME NEW l \in Links, Duplicate(l) PROVE HostsTyped(host') /\ RightLinks(link')
  <2> DEFINE t == <<Head(link[l])>> \o link[l]
  <2>1. ASSUME NEW S, link[l] \in Seq(S) PROVE t \in Seq(S)
    <3>1. Head(link[l]) \in S
      BY <1>5, <2>1 DEF Duplicate
    <3> QED  BY <2>1, <3>1
  <2> QED  BY <1>2, <1>5, <2>1 DEF Duplicate, Fault
<1> QED  BY <1>1, <1>3, <1>4, <1>5, ServerHost DEF Failure, Crash, CrashServer

\* The server tells a client what another one did.
LEMMA HostsReceive ==
  ASSUME HostsTyped(host), NEW from, NEW to, <<from, to>> \in Links, NEW rest, RightLinks(rest),
         NEW op \in On(<<from, to>>), IsOp(op), Receive(from, to, op, rest)
  PROVE  HostsTyped(host') /\ RightLinks(link')
<1>1. to \in Hosts /\ op \in Ops /\ op \in Messages
  BY LinkEnds, Operations DEF On
<1>2. \/ link' = rest
      \/ to = Server /\ link' = Sent(rest, Server, Others(host[to], from), op)
  BY DEF Receive
<1>3. CASE to = Server /\ link' = Sent(rest, Server, Others(host[to], from), op)
  <2>1. op.by = from
    BY <1>3, LinkEnds DEF On
  <2>2. \A l \in Links : l[1] = Server /\ l[2] \in Others(host[to], from) => op \in On(l)
    BY <1>1, <2>1 DEF On, Others
  <2> QED  BY <1>3, <2>2, SentRight, HostsKept, CallbacksKeep, <1>1 DEF Receive, HostsTyped
<1>4. HostsTyped(host')
  <2>1. \/ host' = host
        \/ /\ op.type # "add" => Known(host[to], op.net)
           /\ \E y \in (IF op.type = "add" THEN {AddCallback(host[to], op)}
                        ELSE OtherCallbacks(host[to], op)) : host' = [host EXCEPT ![to] = y]
    BY DEF Receive
  <2>2. ASSUME op.type # "add" => Known(host[to], op.net),
               NEW y \in (IF op.type = "add" THEN {AddCallback(host[to], op)}
                          ELSE OtherCallbacks(host[to], op))
        PROVE  Kept(host[to], y)
    BY <1>1, <2>2, CallbacksKeep DEF HostsTyped
  <2> QED  BY <1>1, <2>1, <2>2, HostsKept
<1> QED  BY <1>2, <1>3, <1>4

\* Whatever a host answers or passes on.
LEMMA HostsDeliver ==
  ASSUME HostsTyped(host), RightLinks(link), SlotsInv, Deliver
  PROVE  HostsTyped(host') /\ RightLinks(link')
<1>1. ASSUME NEW c \in Clients, DeliverToClient(c) PROVE HostsTyped(host') /\ RightLinks(link')
  <2> DEFINE l == <<Server, c>>
             m == Head(link[l])
             rest == [link EXCEPT ![l] = Tail(@)]
  <2>1. l \in Links /\ link[l] # <<>> /\ c \in Hosts
    BY <1>1, ServerHost DEF DeliverToClient, Links
  <2>2. RightLinks(rest) /\ m \in On(l)
    BY <2>1, TailRight
  <2>3. \/ link' = rest /\ UNCHANGED host
        \/ m.type = "ACCEPT" /\ ClientAccept(c, m, rest)
        \/ IsOp(m) /\ Receive(Server, c, m, rest)
    BY <1>1 DEF DeliverToClient, ClientAccept
  <2> HIDE DEF rest
  <2>4. CASE m.type = "ACCEPT" /\ ClientAccept(c, m, rest)
    <3>1. \/ link' = rest /\ UNCHANGED host
          \/ /\ link' = Sent(rest, c, {Server}, Msg("GET_STATE"))
             /\ host' = [host EXCEPT ![c] = Accepted(host[c], m.id)]
      BY <2>4 DEF ClientAccept
    <3>2. m.id \in Nat
      BY <2>2, <2>4, Operations DEF On
    <3>3. WellTyped(Accepted(host[c], m.id)) /\ Accepted(host[c], m.id).targets \subseteq OtherEnds(c)
      BY <2>1, <3>2, ClearedTyped, HostsAssumption DEF HostsTyped, OtherEnds
    <3> QED  BY <2>1, <2>2, <3>1, <3>3, Signals, SentOther, HostsSet
  <2> QED  BY <2>1, <2>2, <2>3, <2>4, HostsReceive
<1>2. ASSUME NEW c \in Clients, DeliverToServer(c) PROVE HostsTyped(host') /\ RightLinks(link')
  <2> DEFINE l == <<c, Server>>
             m == Head(link[l])
             rest == [link EXCEPT ![l] = Tail(@)]
  <2>1. l \in Links /\ link[l] # <<>>
    BY <1>2 DEF DeliverToServer, Links
  <2>2. RightLinks(rest) /\ m \in On(l)
    BY <2>1, TailRight
  <2>3. \/ link' = rest /\ UNCHANGED host
        \/ ServerConnect(c, rest)
        \/ ServerDisconnect(c) /\ link' = rest
        \/ IsOp(m) /\ Receive(c, Server, m, rest)
    BY <1>2 DEF DeliverToServer
  <2> HIDE DEF rest
  <2>4. ASSUME NEW T \in SUBSET Clients, host' = [host EXCEPT ![Server].targets = T]
        PROVE  HostsTyped(host')
    <3> DEFINE y == [host[Server] EXCEPT !.targets = T]
    <3>1. WellTyped(y) /\ y.targets \subseteq OtherEnds(Server)
      BY ServerHost DEF HostsTyped, WellTyped, Fields, OtherEnds
    <3>2. host' = [host EXCEPT ![Server] = y]
      BY <2>4, ServerHost DEF HostsTyped
    <3> HIDE DEF y
    <3> QED  BY <3>1, <3>2, ServerHost, HostsSet
  <2>5. host[Server].targets \subseteq Clients /\ DOMAIN host[Server] = Fields
    BY ServerHost DEF HostsTyped, OtherEnds, WellTyped
  <2>6. CASE ServerConnect(c, rest)
    <3>1. PICK id : link' = Sent(rest, Server, {c}, Accept(id)) /\ id \in Nat
      <4>1. server.nextId \in Nat /\ (c \in host[Server].targets => server.slots[c].id \in Nat)
        BY DEF SlotsInv, SlotIds
      <4> QED  BY <2>6, <4>1 DEF ServerConnect
    <3>2. host' = [host EXCEPT ![Server].targets = host[Server].targets \cup {c}]
      BY <2>6 DEF ServerConnect
    <3> QED  BY <2>2, <2>4, <2>5, <3>1, <3>2, Signals, SentOther
  <2>7. CASE ServerDisconnect(c) /\ link' = rest
    <3>1. host' = [host EXCEPT ![Server].targets = host[Server].targets \ {c}]
      BY <2>7 DEF ServerDisconnect
    <3> QED  BY <2>2, <2>4, <2>5, <2>7, <3>1
  <2> QED  BY <2>1, <2>2, <2>3, <2>6, <2>7, HostsReceive
<1> QED  BY <1>1, <1>2 DEF Deliver

-----------------------------------------------------------------------------
(* The clocks.                                                             *)

\* No clock of a client runs past its delay.
LEMMA ClientsTyped ==
  ASSUME client \in [Clients -> ClientType], [Next]_vars
  PROVE  client' \in [Clients -> ClientType]
<1>1. ASSUME NEW c \in Clients, NEW v \in ClientType, client' = [client EXCEPT ![c] = v]
      PROVE  client' \in [Clients -> ClientType]
  BY <1>1
<1>2. NewClient \in ClientType
  BY TimesAssumption DEF NewClient, ClientType
<1>3. ASSUME NEW c \in Clients, Connect(c) PROVE client' \in [Clients -> ClientType]
  <2>1. [state |-> "PENDING", recv |-> 0, sent |-> 0, countNext |-> TRUE] \in ClientType
    BY TimesAssumption DEF ClientType
  <2> QED  BY <1>1, <1>3, <2>1 DEF Connect
<1>4. ASSUME NEW c \in Clients, Disconnect(c) \/ Crash(c) PROVE client' \in [Clients -> ClientType]
  BY <1>1, <1>2, <1>4 DEF Disconnect, Close, Crash
<1>5. ASSUME NEW c \in Clients, UpdateClient(c) PROVE client' \in [Clients -> ClientType]
  <2> DEFINE passed == Passed(client[c])
             alive == client[c].sent + passed > MinAlive
             v == [client[c] EXCEPT !.countNext = FALSE, !.recv = @ + passed,
                                    !.sent = IF alive THEN 0 ELSE @ + passed]
  <2>1. \/ Close(c)
        \/ ~ Expired(client[c].recv + passed) /\ client' = [client EXCEPT ![c] = v]
    <3>1. CASE Expired(client[c].recv + passed) \/ client[c].state = "CLOSING"
      BY <1>5, <3>1 DEF UpdateClient
    <3>2. CASE ~ (Expired(client[c].recv + passed) \/ client[c].state = "CLOSING")
      <4>1. client' = [client EXCEPT ![c] = v]
        BY <1>5, <3>2 DEF UpdateClient
      <4> QED  BY <3>2, <4>1
    <3> QED  BY <3>1, <3>2
  <2>2. ASSUME ~ Expired(client[c].recv + passed) PROVE v \in ClientType
    <3>1. passed \in Nat /\ client[c] \in ClientType
      BY DEF Passed
    <3>2. client[c].recv + passed \in 0 .. MaxAlive
      BY <2>2, <3>1, TimesAssumption DEF Expired, ClientType
    <3>3. ~ alive => client[c].sent + passed \in 0 .. MinAlive
      BY <3>1, TimesAssumption DEF ClientType
    <3>4. 0 \in 0 .. MinAlive
      BY TimesAssumption
    <3> HIDE DEF passed
    <3> QED  BY <3>1, <3>2, <3>3, <3>4 DEF ClientType
  <2> HIDE DEF v
  <2> QED  BY <1>1, <1>2, <2>1, <2>2 DEF Close
<1>6. ASSUME NEW c \in Clients, DeliverToClient(c) PROVE client' \in [Clients -> ClientType]
  <2>1. client[c] \in ClientType
    OBVIOUS
  <2>2. \A s \in {"CLOSING", "CONNECTED"} : [client[c] EXCEPT !.state = s] \in ClientType
    BY <2>1 DEF ClientType
  <2>3. [client[c] EXCEPT !.recv = 0] \in ClientType
    BY <2>1, TimesAssumption DEF ClientType
  <2>4. PICK m, rest : ClientDrop(c) \/ ClientAlive(c) \/ ClientAccept(c, m, rest) \/ UNCHANGED client
    BY <1>6 DEF DeliverToClient
  <2> QED  BY <1>1, <2>2, <2>3, <2>4 DEF ClientDrop, ClientAlive, ClientAccept
<1>7. \/ UNCHANGED client
      \/ \E c \in Clients : \/ Connect(c) \/ Disconnect(c) \/ Crash(c) \/ UpdateClient(c)
                            \/ DeliverToClient(c)
  <2>1. CASE \E u \in Hosts : Command(u)
    BY <2>1 DEF Command, Listen, Stop, AddNode, ChangeNode
  <2>2. CASE \E u \in Hosts : Failure(u)
    BY <2>2 DEF Failure, CrashServer, Lose, Swap, Duplicate, Fault
  <2>3. CASE Update \/ Deliver
    BY <2>3 DEF Update, UpdateServer, Deliver, DeliverToServer
  <2>4. CASE UNCHANGED vars
    BY <2>4 DEF vars
  <2> QED  BY <2>1, <2>2, <2>3, <2>4 DEF Next
<1> QED  BY <1>3, <1>4, <1>5, <1>6, <1>7

\* The slots change.
LEMMA SlotsSet ==
  ASSUME SlotsTyped, DOMAIN server'.slots \subseteq Clients,
         \A c \in DOMAIN server'.slots :
            server'.slots[c] \in SlotType \/ (c \in DOMAIN server.slots /\ server'.slots[c] = server.slots[c])
  PROVE  SlotsTyped'
  BY DEF SlotsTyped

\* Nor does one of the server.
LEMMA SlotsClocks ==
  ASSUME SlotsInv, SlotsTyped, [Next]_vars
  PROVE  SlotsTyped'
<1> USE DEF SlotType
<1>1. DOMAIN server = {"state", "slots", "nextId"} /\ server.nextId \in Nat
  BY DEF SlotsInv, SlotIds
<1>2. CASE UpdateServer
  <2> DEFINE slots == server.slots
             expired == {c \in DOMAIN slots : Expired(slots[c].recv + 1)}
             stay == DOMAIN slots \ expired
             alive == {c \in stay : slots[c].sent + 1 > MinAlive}
             New(c) == [slots[c] EXCEPT !.recv = @ + 1, !.sent = IF c \in alive THEN 0 ELSE @ + 1]
  <2>1. server' = [server EXCEPT !.slots = [c \in stay |-> New(c)]]
    BY <1>2 DEF UpdateServer
  <2>2. ASSUME NEW c \in stay PROVE New(c) \in SlotType
    <3>1. slots[c] \in SlotType /\ slots[c].recv + 1 <= MaxAlive
      BY TimesAssumption DEF SlotsTyped, Expired
    <3>2. slots[c].recv + 1 \in 0 .. MaxAlive
      BY <3>1, TimesAssumption
    <3>3. c \notin alive => slots[c].sent + 1 \in 0 .. MinAlive
      BY <3>1, TimesAssumption
    <3>4. 0 \in 0 .. MinAlive
      BY TimesAssumption
    <3> QED  BY <3>1, <3>2, <3>3, <3>4
  <2> HIDE DEF New
  <2>3. server'.slots = [c \in stay |-> New(c)]
    BY <1>1, <2>1
  <2>4. stay \subseteq Clients
    BY DEF SlotsTyped
  <2> QED  BY <2>2, <2>3, <2>4, SlotsSet
<1>3. ASSUME NEW c \in Clients, DeliverToServer(c) PROVE SlotsTyped'
  <2>1. PICK rest : \/ UNCHANGED server
                    \/ ServerConnect(c, rest) \/ ServerDisconnect(c) \/ ServerAlive(c)
    BY <1>3 DEF DeliverToServer
  <2>2. CASE ServerConnect(c, rest)
    <3> DEFINE id == IF c \in host[Server].targets THEN server.slots[c].id ELSE server.nextId
    <3>1. server'.slots = With(server.slots, c, NewSlot(id))
      BY <1>1, <2>2 DEF ServerConnect
    <3>2. id \in Nat
      BY <1>1 DEF SlotsInv, SlotIds
    <3>3. NewSlot(id) \in SlotType
      BY <3>2, TimesAssumption DEF NewSlot
    <3> HIDE DEF id
    <3> QED  BY <3>1, <3>3, SlotsSet DEF With, SlotsTyped
  <2>3. CASE ServerDisconnect(c)
    <3>1. server'.slots = Without(server.slots, c)
      BY <1>1, <2>3 DEF ServerDisconnect
    <3> QED  BY <3>1, SlotsSet DEF Without, SlotsTyped
  <2>4. CASE ServerAlive(c) /\ c \in DOMAIN server.slots
    <3>1. server'.slots = [server.slots EXCEPT ![c] = [server.slots[c] EXCEPT !.recv = 0]]
      BY <1>1, <2>4 DEF ServerAlive
    <3>2. [server.slots[c] EXCEPT !.recv = 0] \in SlotType
      BY <2>4, TimesAssumption DEF SlotsTyped
    <3> QED  BY <3>1, <3>2, SlotsSet DEF SlotsTyped
  <2>5. CASE UNCHANGED server \/ (ServerAlive(c) /\ c \notin DOMAIN server.slots)
    BY <2>5 DEF ServerAlive, SlotsTyped
  <2> QED  BY <2>1, <2>2, <2>3, <2>4, <2>5
<1>4. CASE Stop \/ CrashServer
  <2>1. DOMAIN server'.slots = {}
    <3>1. CASE Stop
      BY <1>1, <3>1 DEF Stop
    <3>2. CASE CrashServer
      BY <3>2 DEF CrashServer
    <3> QED  BY <1>4, <3>1, <3>2
  <2> QED  BY <2>1 DEF SlotsTyped
<1>5. CASE Listen
  <2>1. server'.slots = server.slots
    BY <1>1, <1>5 DEF Listen
  <2> QED  BY <2>1 DEF SlotsTyped
<1>6. CASE UNCHANGED server
  BY <1>6 DEF SlotsTyped
<1>7. \/ UNCHANGED server \/ UpdateServer \/ Stop \/ CrashServer \/ Listen
      \/ \E c \in Clients : DeliverToServer(c)
  <2>1. CASE \E u \in Hosts : Command(u)
    BY <2>1 DEF Command, Connect, Disconnect, AddNode, ChangeNode
  <2>2. CASE \E u \in Hosts : Failure(u)
    BY <2>2 DEF Failure, Crash, Lose, Swap, Duplicate, Fault
  <2>3. CASE Update \/ Deliver
    BY <2>3 DEF Update, UpdateClient, Deliver, DeliverToClient
  <2>4. CASE UNCHANGED vars
    BY <2>4 DEF vars
  <2> QED  BY <2>1, <2>2, <2>3, <2>4 DEF Next
<1> QED  BY <1>2, <1>3, <1>4, <1>5, <1>6, <1>7

\* What is noted of the past.
LEMMA HistoryNext ==
  ASSUME HistoryTyped, [Next]_vars
  PROVE  HistoryTyped'
<1> USE DEF HistoryTyped
<1>1. ASSUME NEW u \in Hosts, Command(u) PROVE HistoryTyped'
  <2>1. CASE u \in Clients /\ (Connect(u) \/ Disconnect(u))
    <3>1. faults' = faults /\ again' = again /\ (reborn' = reborn \/ reborn' = reborn \cup {u})
      BY <2>1 DEF Connect, Disconnect, restarts
    <3> QED  BY <3>1
  <2>2. CASE Listen
    <3>1. faults' = faults /\ again' \in BOOLEAN /\ reborn' = reborn
      BY <2>2 DEF Listen, net
    <3> QED  BY <3>1
  <2>3. CASE Stop
    BY <2>3 DEF Stop, restarts
  <2>4. CASE AddNode(u)
    BY <2>4 DEF AddNode, restarts
  <2>5. ASSUME NEW n, NEW t, NEW v, ChangeNode(u, n, t, v) PROVE HistoryTyped'
    BY <2>5 DEF ChangeNode, restarts
  <2> QED  BY <1>1, <2>1, <2>2, <2>3, <2>4, <2>5 DEF Command
<1>2. ASSUME NEW u \in Hosts, Failure(u) PROVE HistoryTyped'
  <2>1. ASSUME NEW l, Lose(l) \/ Swap(l) \/ Duplicate(l) PROVE HistoryTyped'
    BY <2>1 DEF Lose, Swap, Duplicate, Fault, restarts
  <2>2. CASE CrashServer
    <3>1. faults' = faults /\ again' = again /\ reborn' = reborn \cup {Server}
      BY <2>2 DEF CrashServer, net
    <3> QED  BY <3>1, ServerHost
  <2>3. CASE Crash(u)
    <3>1. faults' = faults /\ again' = again /\ reborn' = reborn \cup {u}
      BY <2>3 DEF Crash, net
    <3> QED  BY <3>1
  <2> QED  BY <1>2, <2>1, <2>2, <2>3 DEF Failure
<1>3. CASE Update
  BY <1>3 DEF Update, UpdateServer, UpdateClient, restarts
<1>4. CASE Deliver
  BY <1>4 DEF Deliver, DeliverToClient, DeliverToServer, restarts
<1>5. CASE UNCHANGED vars
  BY <1>5 DEF vars, net, restarts
<1> QED  BY <1>1, <1>2, <1>3, <1>4, <1>5 DEF Next

\* The invariant is inductive.
LEMMA TypesInit == Init => TypesInv
<1> SUFFICES ASSUME Init PROVE TypesInv
  OBVIOUS
<1>1. HostsTyped(host)
  <2>1. DOMAIN host = Hosts /\ \A h \in Hosts : host[h] = [NewHost EXCEPT !.on = (h = Server)]
    BY DEF Init
  <2>2. \A b \in BOOLEAN : /\ WellTyped([NewHost EXCEPT !.on = b])
                           /\ [NewHost EXCEPT !.on = b].targets = {}
    BY DEF NewHost, WellTyped, Fields, MinUserId
  <2> QED  BY <2>1, <2>2 DEF HostsTyped
<1>2. client \in [Clients -> ClientType]
  BY TimesAssumption DEF Init, NewClient, ClientType
<1>3. SlotsTyped
  BY DEF Init, SlotsTyped
<1>4. HistoryTyped
  BY DEF Init, HistoryTyped
<1> QED  BY <1>1, <1>2, <1>3, <1>4, RightInit, SlotsInit DEF TypesInv

\* A step keeps the types of the hosts and of the links.
LEMMA TypesNext == TypesInv /\ [Next]_vars => TypesInv'
<1> SUFFICES ASSUME TypesInv, [Next]_vars PROVE TypesInv'
  OBVIOUS
<1>1. HostsTyped(host) /\ RightLinks(link) /\ SlotsInv
  BY DEF TypesInv
<1>2. HostsTyped(host') /\ RightLinks(link')
  <2>1. CASE UNCHANGED vars
    BY <1>1, <2>1 DEF vars, net
  <2> QED  BY <1>1, <2>1, HostsCommand, HostsFailure, HostsUpdate, HostsDeliver DEF Next
<1> QED  BY <1>1, <1>2, ClientsTyped, SlotsClocks, SlotsNext, HistoryNext DEF TypesInv

-----------------------------------------------------------------------------
(* The theorems.                                                           *)

\* The types hold in every session.
LEMMA TypesAlways == Spec => []TypesInv
  BY TypesInit, TypesNext, PTL DEF Spec

\* Types, for any number of clients: every host only has targets it may have and
\* nodes of the session, every message is well formed, and no clock runs past the
\* delay after which the other end is dropped.
THEOREM SessionTypes == Spec => []TypeOK
<1>1. TypesInv => TypeOK
  <2> SUFFICES ASSUME TypesInv PROVE TypeOK
    OBVIOUS
  <2>1. \A l \in Links : link[l] \in Seq(Messages)
    <3> SUFFICES ASSUME NEW l \in Links PROVE link[l] \in Seq(Messages)
      OBVIOUS
    <3>1. link[l] \in Seq(On(l)) /\ On(l) \subseteq Messages
      BY DEF TypesInv, RightLinks, On
    <3>2. link[l] \in [1 .. Len(link[l]) -> On(l)] /\ Len(link[l]) \in Nat
      BY <3>1
    <3>3. link[l] \in [1 .. Len(link[l]) -> Messages]
      BY <3>1, <3>2
    <3> QED  BY <3>2, <3>3
  <2>2. client \in [Clients -> [state: {"IDLE", "PENDING", "CONNECTED", "CLOSING"},
                                recv: 0 .. MaxAlive, sent: 0 .. MinAlive, countNext: BOOLEAN]]
    BY DEF TypesInv, ClientType
  <2>3. /\ server.state \in {"IDLE", "LISTENING"} /\ server.nextId \in Nat
        /\ \A c \in DOMAIN server.slots :
              c \in Clients /\ server.slots[c] \in [id: Nat, recv: 0 .. MaxAlive, sent: 0 .. MinAlive]
    BY DEF TypesInv, SlotsInv, SlotIds, SlotsTyped, SlotType
  <2>4. \A h \in Hosts :
          /\ host[h].on \in BOOLEAN /\ host[h].id \in Nat /\ host[h].lastId \in Nat
          /\ host[h].targets \subseteq (IF h = Server THEN Clients ELSE {Server})
          /\ \A n \in DOMAIN host[h].nodes : n \in Nat /\ host[h].nodes[n] \in Nodes
          /\ \A n \in DOMAIN host[h].netId : n \in Nat /\ host[h].netId[n] \in Nets
          /\ \A n \in DOMAIN host[h].localId : n \in Nets /\ host[h].localId[n] \in Nat
    BY DEF TypesInv, HostsTyped, WellTyped, OtherEnds
  <2> QED  BY <2>1, <2>2, <2>3, <2>4 DEF TypeOK, TypesInv, HistoryTyped
<1> QED  BY <1>1, TypesAlways, PTL

\* What a host did never comes back to it, and a client only sends what it did
\* itself, for any number of clients: a server tells the others, and only them.
THEOREM NothingComesBack == Spec => []NoEcho
<1>1. TypesInv => NoEcho
  <2> SUFFICES ASSUME TypesInv, NEW l \in Links, NEW i \in DOMAIN link[l], IsOp(link[l][i])
               PROVE  link[l][i].by # l[2] /\ (l[1] # Server => link[l][i].by = l[1])
    BY DEF NoEcho
  <2>1. link[l] \in Seq(On(l))
    BY DEF TypesInv, RightLinks
  <2>2. link[l][i] \in On(l)
    BY <2>1
  <2> QED  BY <2>2 DEF On
<1> QED  BY <1>1, TypesAlways, PTL

-----------------------------------------------------------------------------
(* Identifiers.  The last ACCEPT on the way to a client that the server      *)
(* watches is that of its slot, as long as the network keeps the order.  A   *)
(* client that is not hasty took the only one.                               *)

LastAccept(s, id) ==
    \A i \in 1 .. Len(s) :
        s[i].type = "ACCEPT" =>
            \E j \in i .. Len(s) : s[j].type = "ACCEPT" /\ s[j].id = id

In(c) == link[<<Server, c>>]
Out(c) == link[<<c, Server>>]

IdsOf(c) ==
    /\ c \in DOMAIN server.slots => LastAccept(In(c), server.slots[c].id)
    /\ client[c].state = "CONNECTED" /\ c \notin hasty =>
          /\ ~ UnderWay(In(c), "ACCEPT") /\ ~ UnderWay(Out(c), "CONNECT")
          /\ c \in DOMAIN server.slots => host[c].id = server.slots[c].id

IdsInv == "swapped" \in faults \/ \A c \in Clients : IdsOf(c)

\* After s, t still ends with the same ACCEPT, and has no new kind of message.
Milder(s, t) ==
    /\ \A id : LastAccept(s, id) => LastAccept(t, id)
    /\ \A type \in {"ACCEPT", "CONNECT"} : UnderWay(t, type) => UnderWay(s, type)

MilderLinks(L, M) == \A l \in Links : Milder(L[l], M[l])

\* A link without its first message, with one more that opens no connection, or
\* with its first message twice.
LEMMA MilderSequences ==
  ASSUME NEW S, NEW s \in Seq(S)
  PROVE  /\ s # <<>> => Milder(s, Tail(s)) /\ Milder(s, <<Head(s)>> \o s)
         /\ \A m : m.type \notin {"ACCEPT", "CONNECT"} => Milder(s, Append(s, m))
<1>1. ASSUME s # <<>> PROVE Milder(s, Tail(s))
  <2> DEFINE t == Tail(s)
  <2>1. Len(s) \in Nat /\ Len(t) = Len(s) - 1 /\ \A i \in 1 .. Len(t) : t[i] = s[i + 1]
    BY <1>1
  <2>2. \A i \in DOMAIN t : i + 1 \in DOMAIN s /\ t[i] = s[i + 1]
    BY <1>1, <2>1
  <2> HIDE DEF t
  <2>3. ASSUME NEW id, LastAccept(s, id), NEW i \in 1 .. Len(t), t[i].type = "ACCEPT"
        PROVE  \E j \in i .. Len(t) : t[j].type = "ACCEPT" /\ t[j].id = id
    <3>1. i + 1 \in 1 .. Len(s) /\ s[i + 1].type = "ACCEPT"
      BY <2>1, <2>3
    <3>2. PICK j \in i + 1 .. Len(s) : s[j].type = "ACCEPT" /\ s[j].id = id
      BY <2>3, <3>1 DEF LastAccept
    <3>3. j - 1 \in i .. Len(t) /\ t[j - 1] = s[j]
      BY <2>1
    <3> QED  BY <3>2, <3>3
  <2>4. \A id : LastAccept(s, id) => LastAccept(t, id)
    BY <2>3 DEF LastAccept
  <2> QED  BY <2>2, <2>4 DEF Milder, UnderWay, t
<1>2. ASSUME s # <<>> PROVE Milder(s, <<Head(s)>> \o s)
  <2> DEFINE t == <<Head(s)>> \o s
  <2>1. /\ Len(s) \in Nat /\ Len(t) = Len(s) + 1 /\ t[1] = s[1] /\ 1 \in 1 .. Len(s)
        /\ \A i \in 1 .. Len(s) : t[i + 1] = s[i]
    BY <1>2
  <2>2. DOMAIN t = 1 .. Len(s) + 1 /\ DOMAIN s = 1 .. Len(s)
    BY <1>2
  <2> HIDE DEF t
  <2>3. ASSUME NEW i \in 1 .. Len(t)
        PROVE  \E k \in 1 .. Len(s) : k + 1 >= i /\ t[i] = s[k]
    <3>1. CASE i = 1
      BY <2>1, <3>1
    <3>2. CASE i # 1
      <4>1. PICK k \in 1 .. Len(s) : k + 1 = i
        <5>1. i - 1 \in 1 .. Len(s) /\ (i - 1) + 1 = i
          BY <2>1, <3>2
        <5> QED  BY <5>1
      <4>2. t[i] = s[k] /\ k + 1 >= i
        BY <2>1, <4>1
      <4> QED  BY <4>2
    <3> QED  BY <3>1, <3>2
  <2>4. ASSUME NEW id, LastAccept(s, id), NEW i \in 1 .. Len(t), t[i].type = "ACCEPT"
        PROVE  \E j \in i .. Len(t) : t[j].type = "ACCEPT" /\ t[j].id = id
    <3>1. PICK k \in 1 .. Len(s) : k + 1 >= i /\ t[i] = s[k]
      BY <2>3
    <3>2. PICK j \in k .. Len(s) : s[j].type = "ACCEPT" /\ s[j].id = id
      BY <2>4, <3>1 DEF LastAccept
    <3>3. j + 1 \in i .. Len(t) /\ t[j + 1] = s[j]
      BY <2>1, <3>1
    <3> QED  BY <3>2, <3>3
  <2>5. \A type : UnderWay(t, type) => UnderWay(s, type)
    <3>1. DOMAIN t = 1 .. Len(t)
      BY <2>1, <2>2
    <3> QED  BY <2>2, <2>3, <3>1 DEF UnderWay
  <2> QED  BY <2>4, <2>5 DEF Milder, LastAccept, t
<1>3. ASSUME NEW m, m.type \notin {"ACCEPT", "CONNECT"} PROVE Milder(s, Append(s, m))
  <2> DEFINE t == Append(s, m)
  <2>1. /\ Len(s) \in Nat /\ Len(t) = Len(s) + 1 /\ t[Len(s) + 1] = m
        /\ \A i \in 1 .. Len(s) : t[i] = s[i]
    OBVIOUS
  <2>2. DOMAIN t = 1 .. Len(s) + 1 /\ DOMAIN s = 1 .. Len(s)
    OBVIOUS
  <2> HIDE DEF t
  <2>3. ASSUME NEW i \in 1 .. Len(t), t[i].type \in {"ACCEPT", "CONNECT"} PROVE i \in 1 .. Len(s)
    BY <1>3, <2>1, <2>3
  <2>4. ASSUME NEW id, LastAccept(s, id), NEW i \in 1 .. Len(t), t[i].type = "ACCEPT"
        PROVE  \E j \in i .. Len(t) : t[j].type = "ACCEPT" /\ t[j].id = id
    <3>1. i \in 1 .. Len(s) /\ s[i].type = "ACCEPT"
      BY <2>1, <2>3, <2>4
    <3>2. PICK j \in i .. Len(s) : s[j].type = "ACCEPT" /\ s[j].id = id
      BY <2>4, <3>1 DEF LastAccept
    <3>3. j \in i .. Len(t) /\ t[j] = s[j]
      BY <2>1, <3>1
    <3> QED  BY <3>2, <3>3
  <2>5. \A type \in {"ACCEPT", "CONNECT"} : UnderWay(t, type) => UnderWay(s, type)
    BY <2>1, <2>2, <2>3 DEF UnderWay
  <2> QED  BY <2>4, <2>5 DEF Milder, LastAccept, t
<1> QED  BY <1>1, <1>2, <1>3

\* The same of all the links.
LEMMA MilderSame == \A L : MilderLinks(L, L)
  BY DEF MilderLinks, Milder

LEMMA MilderAfter ==
  ASSUME NEW L, NEW M, NEW N, MilderLinks(L, M), MilderLinks(M, N)
  PROVE  MilderLinks(L, N)
  BY DEF MilderLinks, Milder

LEMMA MilderSent ==
  ASSUME NEW L, RightLinks(L), NEW h, NEW dest, NEW m, m.type \notin {"ACCEPT", "CONNECT"}
  PROVE  MilderLinks(L, Sent(L, h, dest, m))
<1> SUFFICES ASSUME NEW l \in Links PROVE Milder(L[l], Sent(L, h, dest, m)[l])
  BY DEF MilderLinks
<1>1. L[l] \in Seq(On(l))
  BY DEF RightLinks
<1>2. Milder(L[l], Append(L[l], m)) /\ Milder(L[l], L[l])
  BY <1>1, MilderSequences DEF Milder
<1>3. Sent(L, h, dest, m)[l] \in {L[l], Append(L[l], m)}
  BY DEF Sent
<1> QED  BY <1>2, <1>3

LEMMA MilderTaken ==
  ASSUME RightLinks(link), NEW l \in Links, link[l] # <<>>
  PROVE  /\ MilderLinks(link, [link EXCEPT ![l] = Tail(@)])
         /\ MilderLinks(link, [link EXCEPT ![l] = <<Head(link[l])>> \o link[l]])
<1>1. link[l] \in Seq(On(l)) /\ DOMAIN link = Links
  BY DEF RightLinks
<1>2. Milder(link[l], Tail(link[l])) /\ Milder(link[l], <<Head(link[l])>> \o link[l])
  BY <1>1, MilderSequences
<1>3. \A k \in Links : Milder(link[k], link[k])
  BY DEF Milder
<1> QED  BY <1>1, <1>2, <1>3 DEF MilderLinks

\* A step after which no client is newly connected, no slot is new and no link
\* has a new kind of message.
CalmStep ==
    /\ MilderLinks(link, link') /\ hasty \subseteq hasty'
    /\ \A c \in DOMAIN server'.slots :
          c \in DOMAIN server.slots /\ server'.slots[c].id = server.slots[c].id
    /\ \A c \in Clients : client'[c].state = "CONNECTED" =>
          client[c].state = "CONNECTED" /\ host'[c].id = host[c].id

LEMMA CalmKeeps ==
  ASSUME CalmStep, NEW c \in Clients, IdsOf(c)
  PROVE  IdsOf(c)'
<1>1. <<Server, c>> \in Links /\ <<c, Server>> \in Links
  BY DEF Links
<1>2. Milder(In(c), In(c)') /\ Milder(Out(c), Out(c)')
  BY <1>1 DEF CalmStep, MilderLinks, In, Out
<1>3. (c \in DOMAIN server.slots => LastAccept(In(c), server.slots[c].id))'
  BY <1>2 DEF CalmStep, IdsOf, Milder
<1>4. ASSUME client'[c].state = "CONNECTED", c \notin hasty'
      PROVE  /\ ~ UnderWay(In(c)', "ACCEPT") /\ ~ UnderWay(Out(c)', "CONNECT")
             /\ c \in DOMAIN server'.slots => host'[c].id = server'.slots[c].id
  BY <1>2, <1>4 DEF CalmStep, IdsOf, Milder
<1> QED  BY <1>3, <1>4 DEF IdsOf

\* The steps of the users.
LEMMA CalmCommand ==
  ASSUME TypesInv, NEW u \in Hosts, Command(u), ~ \E c \in Clients : Connect(c)
  PROVE  CalmStep
<1> USE DEF CalmStep
<1>1. /\ RightLinks(link) /\ DOMAIN host = Hosts /\ DOMAIN client = Clients
      /\ \A h \in Hosts : WellTyped(host[h])
  BY DEF TypesInv, HostsTyped
<1>2. ASSUME NEW c \in Clients, Disconnect(c) PROVE CalmStep
  <2>1. /\ UNCHANGED <<server, hasty>> /\ host' = [host EXCEPT ![c] = Cleared(@)]
        /\ client' = [client EXCEPT ![c] = NewClient]
        /\ link' = Sent(link, c, host[c].targets, Msg("DISCONNECT"))
    BY <1>2 DEF Disconnect, Close, history
  <2>2. MilderLinks(link, link')
    BY <1>1, <2>1, MilderSent DEF Msg
  <2> QED  BY <1>1, <2>1, <2>2, ServerHost DEF NewClient
<1>3. CASE Listen
  <2>1. MilderLinks(link, link')
    BY <1>3, MilderSame DEF Listen, net
  <2>2. UNCHANGED <<client, hasty>> /\ server'.slots = server.slots
    BY <1>3 DEF Listen, history, TypesInv, SlotsInv, SlotIds
  <2>3. \A c \in Clients : host'[c].id = host[c].id
    BY <1>1, <1>3, ServerHost, HostsAssumption DEF Listen
  <2> QED  BY <2>1, <2>2, <2>3
<1>4. CASE Stop
  <2>1. MilderLinks(link, link')
    BY <1>1, <1>4, MilderSent DEF Stop, Msg
  <2>2. UNCHANGED <<client, hasty>> /\ server'.slots = <<>>
    BY <1>4 DEF Stop, history, TypesInv, SlotsInv, SlotIds
  <2>3. \A c \in Clients : host'[c].id = host[c].id
    BY <1>1, <1>4, ServerHost, HostsAssumption DEF Stop
  <2> QED  BY <2>1, <2>2, <2>3
<1>5. ASSUME UNCHANGED <<client, server, hasty>>, NEW y, Kept(host[u], y),
             host' = [host EXCEPT ![u] = y], NEW d, NEW op, op.type \notin {"ACCEPT", "CONNECT"},
             link' = Sent(link, u, d, op)
      PROVE  CalmStep
  <2>1. MilderLinks(link, link')
    BY <1>1, <1>5, MilderSent
  <2>2. \A c \in Clients : host'[c].id = host[c].id
    BY <1>1, <1>5, ServerHost DEF Kept
  <2> QED  BY <1>5, <2>1, <2>2
<1>6. CASE AddNode(u)
  <2>1. PICK n, d : link' = Sent(link, u, d, Op("add", n, 0, u))
    BY <1>6 DEF AddNode
  <2>2. /\ host' = [host EXCEPT ![u] = HandleAdd(WithNode(host[u]), host[u].lastId)]
        /\ UNCHANGED <<client, server, hasty>>
    BY <1>6 DEF AddNode, history
  <2>3. Kept(host[u], HandleAdd(WithNode(host[u]), host[u].lastId))
    BY <1>1, HandlersKeep
  <2>4. Op("add", n, 0, u).type \notin {"ACCEPT", "CONNECT"}
    BY DEF Op
  <2> QED  BY <1>5, <2>1, <2>2, <2>3, <2>4
<1>7. ASSUME NEW n \in DOMAIN host[u].nodes, NEW v \in Values \cup {0},
             NEW t \in {"delete", "param", "activate", "deactivate"}, ChangeNode(u, n, t, v)
      PROVE  CalmStep
  <2> DEFINE op == Op(t, NetOf(host[u], n), v, u)
  <2>1. NetOf(host[u], n) \in Nets
    BY <1>1, HandlersKeep
  <2>2. op \in Ops /\ op.type = t
    BY <2>1 DEF Op, Ops
  <2>3. /\ host' = [host EXCEPT ![u] = HandleOther(Changed(host[u], n, op), op, n)]
        /\ link' = Sent(link, u, host[u].targets, op) /\ UNCHANGED <<client, server, hasty>>
    BY <1>7 DEF ChangeNode, history
  <2> HIDE DEF op
  <2>4. Kept(host[u], HandleOther(Changed(host[u], n, op), op, n))
    BY <1>1, <2>2, HandlersKeep
  <2> QED  BY <1>5, <2>2, <2>3, <2>4
<1>8. \/ \E c \in Clients : Disconnect(c)
      \/ Listen \/ Stop
      \/ AddNode(u) \/ \E n \in DOMAIN host[u].nodes, v \in Values \cup {0},
                          t \in {"delete", "param", "activate", "deactivate"} : ChangeNode(u, n, t, v)
  BY DEF Command
<1> QED  BY <1>2, <1>3, <1>4, <1>6, <1>7, <1>8

\* A client that connects waits, and its answer is still to come.
LEMMA IdsConnect ==
  ASSUME TypesInv, NEW c \in Clients, Connect(c), NEW d \in Clients, IdsOf(d)
  PROVE  IdsOf(d)'
<1>1. /\ DOMAIN link = Links /\ DOMAIN client = Clients
  BY DEF TypesInv, RightLinks
<1>2. /\ <<Server, d>> \in Links /\ <<d, Server>> \in Links
      /\ d # Server /\ c # Server
  BY HostsAssumption DEF Links
<1>3. In(d)' = In(d) /\ (c # d => Out(d)' = Out(d))
  BY <1>2 DEF Connect, Sent, In, Out
<1>4. UNCHANGED <<host, server, hasty>>
  BY DEF Connect, history
<1>5. client'[c].state = "PENDING" /\ (c # d => client'[d] = client[d])
  BY <1>1 DEF Connect
<1> QED  BY <1>3, <1>4, <1>5 DEF IdsOf

\* The clocks.
LEMMA CalmUpdate ==
  ASSUME TypesInv, Update
  PROVE  CalmStep
<1> USE DEF CalmStep
<1>1. /\ RightLinks(link) /\ DOMAIN host = Hosts /\ DOMAIN client = Clients
      /\ \A h \in Hosts : DOMAIN host[h] = Fields
      /\ \A c \in Clients : client[c] \in ClientType
  BY DEF TypesInv, HostsTyped, WellTyped
<1>2. CASE UpdateServer
  <2>1. PICK e, a : link' = Sent(Sent(link, Server, e, Msg("DROP")), Server, a, Msg("ALIVE"))
    BY <1>2 DEF UpdateServer
  <2>2. RightLinks(Sent(link, Server, e, Msg("DROP")))
    BY <1>1, Signals, SentOther
  <2>3. MilderLinks(link, link')
    <3>1. MilderLinks(link, Sent(link, Server, e, Msg("DROP")))
      BY <1>1, MilderSent DEF Msg
    <3>2. MilderLinks(Sent(link, Server, e, Msg("DROP")), link')
      BY <2>1, <2>2, MilderSent DEF Msg
    <3> QED  BY <3>1, <3>2, MilderAfter
  <2>4. UNCHANGED <<client, hasty>> /\ \A c \in Clients : host'[c].id = host[c].id
    BY <1>1, <1>2, ServerHost, HostsAssumption DEF UpdateServer, history
  <2>5. \A c \in DOMAIN server'.slots :
          c \in DOMAIN server.slots /\ server'.slots[c].id = server.slots[c].id
    <3> DEFINE slots == server.slots
               expired == {c \in DOMAIN slots : Expired(slots[c].recv + 1)}
               stay == DOMAIN slots \ expired
               alive == {c \in stay : slots[c].sent + 1 > MinAlive}
               New(c) == [slots[c] EXCEPT !.recv = @ + 1, !.sent = IF c \in alive THEN 0 ELSE @ + 1]
    <3>1. server' = [server EXCEPT !.slots = [c \in stay |-> New(c)]]
      BY <1>2 DEF UpdateServer
    <3>2. \A c \in stay : New(c).id = slots[c].id
      BY DEF TypesInv, SlotsTyped, SlotType
    <3> HIDE DEF New
    <3>3. server'.slots = [c \in stay |-> New(c)]
      BY <3>1 DEF TypesInv, SlotsInv, SlotIds
    <3> QED  BY <3>2, <3>3
  <2> QED  BY <2>3, <2>4, <2>5
<1>3. ASSUME NEW c \in Clients, UpdateClient(c) PROVE CalmStep
  <2>1. link' = link \/ link' = Sent(link, c, host[c].targets, Msg("ALIVE"))
    BY <1>3 DEF UpdateClient
  <2>2. MilderLinks(link, link')
    BY <1>1, <2>1, MilderSent, MilderSame DEF Msg
  <2>3. UNCHANGED <<server, hasty>>
    BY <1>3 DEF UpdateClient, history
  <2>4. \/ Close(c)
        \/ /\ host' = host
           /\ \E r, s : client' = [client EXCEPT ![c] =
                 [client[c] EXCEPT !.countNext = FALSE, !.recv = r, !.sent = s]]
    <3>1. CASE Expired(client[c].recv + Passed(client[c])) \/ client[c].state = "CLOSING"
      BY <1>3, <3>1 DEF UpdateClient
    <3>2. CASE ~ (Expired(client[c].recv + Passed(client[c])) \/ client[c].state = "CLOSING")
      BY <1>3, <3>2 DEF UpdateClient
    <3> QED  BY <3>1, <3>2
  <2>5. \A r, s : [client[c] EXCEPT !.countNext = FALSE, !.recv = r, !.sent = s].state = client[c].state
    BY <1>1 DEF ClientType
  <2>6. \A d \in Clients : client'[d].state = "CONNECTED" =>
          client[d].state = "CONNECTED" /\ host'[d].id = host[d].id
    <3>1. CASE Close(c)
      BY <1>1, <3>1, ServerHost DEF Close, NewClient
    <3>2. CASE ~ Close(c)
      <4>1. PICK r, s : client' = [client EXCEPT ![c] =
                           [client[c] EXCEPT !.countNext = FALSE, !.recv = r, !.sent = s]]
        BY <2>4, <3>2
      <4>2. \A d \in Clients : client'[d].state = client[d].state
        BY <1>1, <2>5, <4>1
      <4> QED  BY <2>4, <3>2, <4>2
    <3> QED  BY <3>1, <3>2
  <2> QED  BY <2>2, <2>3, <2>6
<1> QED  BY <1>2, <1>3 DEF Update

\* What may go wrong, as long as the network keeps the order.
LEMMA CalmFailure ==
  ASSUME TypesInv, NEW u \in Hosts, Failure(u), "swapped" \notin faults'
  PROVE  CalmStep
<1> USE DEF CalmStep
<1>1. /\ RightLinks(link) /\ DOMAIN host = Hosts /\ DOMAIN client = Clients
  BY DEF TypesInv, HostsTyped
<1>2. ASSUME NEW l \in Links, Lose(l) \/ Duplicate(l) PROVE CalmStep
  <2>1. MilderLinks(link, link')
    BY <1>1, <1>2, MilderTaken DEF Lose, Duplicate, Fault
  <2>2. UNCHANGED <<client, server, host, hasty>>
    BY <1>2 DEF Lose, Duplicate, Fault, history
  <2> QED  BY <2>1, <2>2
<1>3. ASSUME NEW l \in Links, Swap(l) PROVE FALSE
  BY <1>3 DEF Swap, Fault
<1>4. ASSUME NEW h \in Hosts, UNCHANGED <<link, hasty>>, host' = [host EXCEPT ![h] = NewHost],
             \/ h # Server /\ client' = [client EXCEPT ![h] = NewClient] /\ UNCHANGED server
             \/ h = Server /\ client' = client /\ server'.slots = <<>>
      PROVE  CalmStep
  <2>1. MilderLinks(link, link')
    BY <1>4, MilderSame
  <2>2. \A d \in Clients : client'[d].state = "CONNECTED" =>
          client[d].state = "CONNECTED" /\ host'[d].id = host[d].id
    BY <1>1, <1>4, HostsAssumption, ServerHost DEF NewClient
  <2> QED  BY <1>4, <2>1, <2>2
<1>5. CASE CrashServer
  <2>1. server'.slots = <<>>
    BY <1>5 DEF CrashServer
  <2> QED  BY <1>4, <1>5, <2>1, ServerHost DEF CrashServer, net, history
<1>6. ASSUME NEW c \in Clients, Crash(c) PROVE CalmStep
  BY <1>4, <1>6, ServerHost, HostsAssumption DEF Crash, net, history
<1> QED  BY <1>2, <1>3, <1>5, <1>6 DEF Failure

\* What comes to a client.
LEMMA IdsToClient ==
  ASSUME TypesInv, NEW c \in Clients, DeliverToClient(c), NEW d \in Clients, IdsOf(d)
  PROVE  IdsOf(d)'
<1> DEFINE l == <<Server, c>>
           m == Head(link[l])
           rest == [link EXCEPT ![l] = Tail(@)]
<1>1. /\ RightLinks(link) /\ DOMAIN host = Hosts /\ DOMAIN client = Clients /\ DOMAIN link = Links
      /\ \A h \in Hosts : WellTyped(host[h])
      /\ l \in Links /\ link[l] # <<>> /\ UNCHANGED server
      /\ \A b \in Clients : client[b] \in ClientType
  BY DEF TypesInv, HostsTyped, RightLinks, DeliverToClient, Links
<1>2. MilderLinks(link, rest) /\ RightLinks(rest) /\ m \in On(l)
  BY <1>1, MilderTaken, TailRight
<1>3. ASSUME link' = rest, hasty' = hasty,
             \A b \in Clients : client'[b].state = "CONNECTED" =>
                client[b].state = "CONNECTED" /\ host'[b].id = host[b].id
      PROVE  IdsOf(d)'
  BY <1>1, <1>2, <1>3, CalmKeeps DEF CalmStep
<1>4. \/ link' = rest /\ UNCHANGED <<client, host, hasty>>
      \/ (ClientDrop(c) \/ ClientAlive(c)) /\ link' = rest /\ UNCHANGED <<host, hasty>>
      \/ m.type = "ACCEPT" /\ ClientAccept(c, m, rest)
      \/ IsOp(m) /\ Receive(Server, c, m, rest) /\ UNCHANGED <<client, hasty>>
  BY DEF DeliverToClient
<1>5. CASE (ClientDrop(c) \/ ClientAlive(c)) /\ link' = rest /\ UNCHANGED <<host, hasty>>
  <2>1. [client[c] EXCEPT !.recv = 0].state = client[c].state
    BY <1>1 DEF ClientType
  <2>2. [client[c] EXCEPT !.state = "CLOSING"].state = "CLOSING"
    BY <1>1 DEF ClientType
  <2>3. \A b \in Clients : client'[b].state = "CONNECTED" => client[b].state = "CONNECTED"
    BY <1>1, <1>5, <2>1, <2>2 DEF ClientDrop, ClientAlive
  <2> QED  BY <1>3, <1>5, <2>3
<1>6. CASE IsOp(m) /\ Receive(Server, c, m, rest) /\ UNCHANGED <<client, hasty>>
  <2>1. link' = rest
    BY <1>6, HostsAssumption DEF Receive
  <2>2. m \in Ops
    BY <1>2, <1>6, Operations DEF On
  <2>3. \/ host' = host
        \/ /\ m.type # "add" => Known(host[c], m.net)
           /\ \E y \in (IF m.type = "add" THEN {AddCallback(host[c], m)}
                        ELSE OtherCallbacks(host[c], m)) : host' = [host EXCEPT ![c] = y]
    BY <1>6 DEF Receive
  <2> HIDE DEF m
  <2>4. host' = host \/ \E y : Kept(host[c], y) /\ host' = [host EXCEPT ![c] = y]
    BY <1>1, <2>2, <2>3, CallbacksKeep, ServerHost
  <2>5. \A b \in Clients : host'[b].id = host[b].id
    BY <1>1, <2>4, ServerHost DEF Kept
  <2> QED  BY <1>3, <1>6, <2>1, <2>5
<1>7. CASE m.type = "ACCEPT" /\ ClientAccept(c, m, rest)
  <2>1. CASE client[c].state # "PENDING"
    <3>1. link' = rest /\ UNCHANGED <<client, host, hasty>>
      BY <1>7, <2>1 DEF ClientAccept
    <3> QED  BY <1>3, <3>1
  <2>2. CASE client[c].state = "PENDING"
    <3>1. /\ client' = [client EXCEPT ![c].state = "CONNECTED"]
          /\ host' = [host EXCEPT ![c] = Accepted(host[c], m.id)]
          /\ link' = Sent(rest, c, {Server}, Msg("GET_STATE"))
          /\ hasty' = IF UnderWay(rest[<<c, Server>>], "CONNECT")
                         \/ UnderWay(rest[<<Server, c>>], "ACCEPT")
                      THEN hasty \cup {c} ELSE hasty \ {c}
      BY <1>7, <2>2 DEF ClientAccept
    <3>2. MilderLinks(rest, link')
      BY <1>2, <3>1, MilderSent DEF Msg
    <3>3. MilderLinks(link, link')
      BY <1>2, <3>2, MilderAfter
    <3>4. <<Server, d>> \in Links /\ <<d, Server>> \in Links
      BY DEF Links
    <3>5. Milder(In(d), In(d)') /\ Milder(Out(d), Out(d)')
      BY <3>3, <3>4 DEF MilderLinks, In, Out
    <3>6. (d \in DOMAIN server.slots => LastAccept(In(d), server.slots[d].id))'
      BY <1>1, <3>5 DEF IdsOf, Milder
    <3>7. CASE d # c
      <4>1. client'[d] = client[d] /\ host'[d] = host[d] /\ (d \in hasty' <=> d \in hasty)
        BY <1>1, <3>1, <3>7
      <4> QED  BY <1>1, <3>5, <3>6, <4>1 DEF IdsOf, Milder
    <3>8. ASSUME d = c, c \notin hasty'
          PROVE  /\ ~ UnderWay(In(c)', "ACCEPT") /\ ~ UnderWay(Out(c)', "CONNECT")
                 /\ c \in DOMAIN server'.slots => host'[c].id = server'.slots[c].id
      <4>1. ~ UnderWay(rest[<<c, Server>>], "CONNECT") /\ ~ UnderWay(rest[l], "ACCEPT")
        BY <3>1, <3>8
      <4>2. ~ UnderWay(In(c)', "ACCEPT") /\ ~ UnderWay(Out(c)', "CONNECT")
        BY <3>2, <3>4, <3>8, <4>1 DEF MilderLinks, Milder, In, Out
      <4>3. ASSUME c \in DOMAIN server.slots PROVE m.id = server.slots[c].id
        <5>1. LastAccept(link[l], server.slots[c].id)
          BY <3>8, <4>3 DEF IdsOf, In
        <5>2. /\ link[l] \in Seq(On(l)) /\ link[l][1] = m /\ Len(link[l]) \in Nat
              /\ 1 \in 1 .. Len(link[l]) /\ rest[l] = Tail(link[l])
          BY <1>1 DEF RightLinks
        <5>3. PICK j \in 1 .. Len(link[l]) :
                 link[l][j].type = "ACCEPT" /\ link[l][j].id = server.slots[c].id
          BY <1>7, <5>1, <5>2 DEF LastAccept
        <5>4. CASE j # 1
          <6>1. j - 1 \in 1 .. Len(rest[l]) /\ rest[l][j - 1] = link[l][j]
            <7>1. rest[l] = Tail(link[l])
              BY <5>2
            <7>2. /\ Len(Tail(link[l])) = Len(link[l]) - 1
                  /\ \A i \in 1 .. Len(link[l]) - 1 : Tail(link[l])[i] = link[l][i + 1]
              BY <5>2, <1>1
            <7>3. j - 1 \in 1 .. Len(link[l]) - 1 /\ (j - 1) + 1 = j
              BY <5>2, <5>4
            <7> QED  BY <7>1, <7>2, <7>3
          <6>2. DOMAIN rest[l] = 1 .. Len(rest[l])
            BY <5>2
          <6> QED  BY <4>1, <5>3, <6>1, <6>2 DEF UnderWay
        <5> QED  BY <5>2, <5>3, <5>4
      <4>4. host'[c].id = m.id
        <5>1. host'[c] = Accepted(host[c], m.id) /\ DOMAIN host[c] = Fields
          BY <1>1, <3>1, ServerHost DEF WellTyped
        <5> QED  BY <5>1 DEF Accepted, Emptied, Fields
      <4> QED  BY <1>1, <4>2, <4>3, <4>4
    <3> QED  BY <3>6, <3>7, <3>8 DEF IdsOf
  <2> QED  BY <2>1, <2>2
<1> QED  BY <1>3, <1>4, <1>5, <1>6, <1>7

\* The answer to a client is the last one on its way.
LEMMA LastAppended ==
  ASSUME NEW S, NEW s \in Seq(S), NEW id
  PROVE  LastAccept(Append(s, Accept(id)), id)
<1> DEFINE t == Append(s, Accept(id))
<1>1. Len(s) \in Nat /\ Len(t) = Len(s) + 1 /\ t[Len(s) + 1] = Accept(id)
  OBVIOUS
<1>2. Accept(id).type = "ACCEPT" /\ Accept(id).id = id
  BY DEF Accept
<1> HIDE DEF t
<1>3. \A i \in 1 .. Len(t) : Len(t) \in i .. Len(t)
  BY <1>1
<1> QED  BY <1>1, <1>2, <1>3 DEF LastAccept, t

\* What comes to the server.
LEMMA IdsToServer ==
  ASSUME TypesInv, NEW c \in Clients, DeliverToServer(c), NEW d \in Clients, IdsOf(d)
  PROVE  IdsOf(d)'
<1> DEFINE l == <<c, Server>>
           m == Head(link[l])
           rest == [link EXCEPT ![l] = Tail(@)]
<1>1. /\ RightLinks(link) /\ DOMAIN host = Hosts /\ DOMAIN link = Links
      /\ l \in Links /\ link[l] # <<>> /\ UNCHANGED <<client, hasty>>
      /\ DOMAIN server = {"state", "slots", "nextId"}
  BY DEF TypesInv, HostsTyped, RightLinks, DeliverToServer, Links, SlotsInv, SlotIds,
         ServerConnect, history
<1>2. MilderLinks(link, rest) /\ RightLinks(rest) /\ m \in On(l)
  BY <1>1, MilderTaken, TailRight
<1>3. \A b \in Clients : host'[b] = host[b]
  <2>1. host' = host \/ \E y : host' = [host EXCEPT ![Server] = y]
    BY <1>1, ServerHost DEF DeliverToServer, ServerConnect, ServerDisconnect, Receive
  <2> QED  BY <1>1, <2>1, HostsAssumption, ServerHost
<1>4. ASSUME MilderLinks(rest, link'), \A b \in DOMAIN server'.slots :
                b \in DOMAIN server.slots /\ server'.slots[b].id = server.slots[b].id
      PROVE  IdsOf(d)'
  <2>1. MilderLinks(link, link')
    BY <1>2, <1>4, MilderAfter
  <2> QED  BY <1>1, <1>3, <1>4, <2>1, CalmKeeps DEF CalmStep
<1>5. MilderLinks(rest, rest)
  BY MilderSame
<1>6. \/ link' = rest /\ UNCHANGED server
      \/ m.type = "CONNECT" /\ ServerConnect(c, rest)
      \/ ServerDisconnect(c) /\ link' = rest
      \/ ServerAlive(c) /\ link' = rest
      \/ IsOp(m) /\ Receive(c, Server, m, rest) /\ UNCHANGED server
  BY DEF DeliverToServer
<1>7. CASE ServerDisconnect(c) /\ link' = rest
  <2>1. server'.slots = Without(server.slots, c)
    BY <1>1, <1>7 DEF ServerDisconnect
  <2> QED  BY <1>4, <1>5, <1>7, <2>1 DEF Without
<1>8. CASE ServerAlive(c) /\ link' = rest
  <2>1. CASE c \in DOMAIN server.slots
    <3>1. server'.slots = [server.slots EXCEPT ![c] = [server.slots[c] EXCEPT !.recv = 0]]
      BY <1>1, <1>8, <2>1 DEF ServerAlive
    <3>2. [server.slots[c] EXCEPT !.recv = 0].id = server.slots[c].id
      BY <2>1 DEF TypesInv, SlotsTyped, SlotType
    <3> QED  BY <1>4, <1>5, <1>8, <3>1, <3>2
  <2>2. CASE c \notin DOMAIN server.slots
    BY <1>4, <1>5, <1>8, <2>2 DEF ServerAlive
  <2> QED  BY <2>1, <2>2
<1>9. CASE IsOp(m) /\ Receive(c, Server, m, rest) /\ UNCHANGED server
  <2>1. link' = rest \/ link' = Sent(rest, Server, Others(host[Server], c), m)
    BY <1>9 DEF Receive
  <2>2. MilderLinks(rest, link')
    BY <1>2, <1>5, <1>9, <2>1, MilderSent DEF IsOp
  <2> QED  BY <1>4, <1>9, <2>2
<1>10. CASE m.type = "CONNECT" /\ ServerConnect(c, rest)
  <2> DEFINE id == IF c \in host[Server].targets THEN server.slots[c].id ELSE server.nextId
  <2>1. /\ server'.slots = With(server.slots, c, NewSlot(id))
        /\ link' = Sent(rest, Server, {c}, Accept(id))
    BY <1>1, <1>10 DEF ServerConnect
  <2> HIDE DEF id
  <2>2. /\ <<Server, d>> \in Links /\ <<d, Server>> \in Links /\ <<Server, c>> \in Links
        /\ d # Server /\ c # Server
    BY HostsAssumption DEF Links
  <2>3. Out(d)' = rest[<<d, Server>>] /\ (c # d => In(d)' = rest[<<Server, d>>])
    BY <2>1, <2>2 DEF Sent, In, Out
  <2>4. Milder(Out(d), Out(d)') /\ (c # d => Milder(In(d), In(d)'))
    BY <1>2, <2>2, <2>3 DEF MilderLinks, In, Out
  <2>5. CASE c # d
    <3>1. /\ d \in DOMAIN server'.slots <=> d \in DOMAIN server.slots
          /\ server'.slots[d] = server.slots[d] \/ d \notin DOMAIN server.slots
      BY <2>1, <2>5 DEF With
    <3> QED  BY <1>1, <1>3, <2>4, <2>5, <3>1 DEF IdsOf, Milder
  <2>6. CASE c = d
    <3>1. In(c)' = Append(rest[<<Server, c>>], Accept(id))
      BY <2>1, <2>2 DEF Sent, In
    <3>2. rest[<<Server, c>>] \in Seq(On(<<Server, c>>))
      BY <1>2, <2>2 DEF RightLinks
    <3>3. LastAccept(In(c)', id)
      BY <3>1, <3>2, LastAppended
    <3>4. server'.slots[c].id = id
      BY <2>1 DEF With, NewSlot
    <3>5. UnderWay(Out(c), "CONNECT")
      <4>1. link[l] \in Seq(On(l))
        BY <1>1 DEF RightLinks
      <4>2. 1 \in DOMAIN link[l] /\ link[l][1] = m
        BY <1>1, <4>1
      <4> QED  BY <1>10, <4>2 DEF UnderWay, Out
    <3>6. ~ (client[c].state = "CONNECTED" /\ c \notin hasty)
      BY <2>6, <3>5 DEF IdsOf
    <3> QED  BY <1>1, <2>6, <3>3, <3>4, <3>6 DEF IdsOf
  <2> QED  BY <2>5, <2>6
<1> QED  BY <1>4, <1>5, <1>6, <1>7, <1>8, <1>9, <1>10

\* The invariant is inductive.
LEMMA IdsInit == Init => IdsInv
  BY DEF Init, IdsInv, IdsOf, NewClient

LEMMA IdsNext == TypesInv /\ IdsInv /\ [Next]_vars => IdsInv'
<1> SUFFICES ASSUME TypesInv, IdsInv, [Next]_vars, "swapped" \notin faults'
             PROVE  \A d \in Clients : IdsOf(d)'
  BY DEF IdsInv
<1>1. "swapped" \notin faults
  <2>1. CASE \E u \in Hosts : Command(u)
    BY <2>1 DEF Command, Connect, Disconnect, Listen, Stop, AddNode, ChangeNode, net
  <2>2. CASE \E u \in Hosts : Failure(u)
    BY <2>2 DEF Failure, Lose, Swap, Duplicate, Fault, Crash, CrashServer, net
  <2>3. CASE Update \/ Deliver
    BY <2>3 DEF Update, UpdateServer, UpdateClient, Deliver, DeliverToClient, DeliverToServer
  <2>4. CASE UNCHANGED vars
    BY <2>4 DEF vars, net
  <2> QED  BY <2>1, <2>2, <2>3, <2>4 DEF Next
<1> SUFFICES ASSUME NEW d \in Clients, IdsOf(d) PROVE IdsOf(d)'
  BY <1>1 DEF IdsInv
<1>2. CalmStep => IdsOf(d)'
  BY CalmKeeps
<1>3. CASE \E u \in Hosts : Command(u)
  BY <1>2, <1>3, CalmCommand, IdsConnect
<1>4. CASE \E u \in Hosts : Failure(u)
  BY <1>2, <1>4, CalmFailure
<1>5. CASE Update
  BY <1>2, <1>5, CalmUpdate
<1>6. CASE Deliver
  BY <1>6, IdsToClient, IdsToServer DEF Deliver
<1>7. CASE UNCHANGED vars
  BY <1>7 DEF vars, net, history, IdsOf, In, Out
<1> QED  BY <1>3, <1>4, <1>5, <1>6, <1>7 DEF Next

\* A client and the server that think they are connected agree on the identifier
\* of the client, for any number of clients and of messages lost or repeated, of
\* clients and servers that die and come back, unless the client took the answer
\* to an attempt given up or the network changed the order of two messages.
THEOREM IdentifiersAgree == Spec => []IdsAgree
<1>1. IdsInv /\ TypesInv => IdsAgree
  BY DEF IdsInv, TypesInv, SlotsTyped, IdsAgree, IdsOf
<1>2. Spec => []IdsInv
  BY IdsInit, IdsNext, TypesAlways, PTL DEF Spec
<1> QED  BY <1>1, <1>2, TypesAlways, PTL

-----------------------------------------------------------------------------
(* Names.  A host that is in the session names its nodes by its identifier   *)
(* and a counter that never goes back.                                       *)

\* An ADD of the node n, and an ACCEPT with an identifier, are in s.
Carries(s, n) == \E i \in DOMAIN s : s[i].type = "add" /\ s[i].net = n
Offers(s, id) == \E i \in DOMAIN s : s[i].type = "ACCEPT" /\ s[i].id = id
AddsOnce(s) ==
    \A i, j \in DOMAIN s :
        s[i].type = "add" /\ s[j].type = "add" /\ s[i].net = s[j].net => i = j

\* t carries and offers no more than s.
Less(s, t) ==
    /\ \A n : Carries(t, n) => Carries(s, n)
    /\ \A id : Offers(t, id) => Offers(s, id)
    /\ AddsOnce(s) => AddsOnce(t)

LessLinks(L, M) == \A l \in Links : Less(L[l], M[l])

\* The first message of a link is taken, or changes its place with the second.
LEMMA LessTaken ==
  ASSUME NEW S, NEW s \in Seq(S), s # <<>>
  PROVE  /\ Less(s, Tail(s))
         /\ Head(s).type = "add" => /\ Carries(s, Head(s).net)
                                    /\ AddsOnce(s) => ~ Carries(Tail(s), Head(s).net)
         /\ Head(s).type = "ACCEPT" => Offers(s, Head(s).id)
         /\ Len(s) > 1 => Less(s, <<s[2], s[1]>> \o SubSeq(s, 3, Len(s)))
<1>1. /\ Len(s) \in Nat /\ DOMAIN s = 1 .. Len(s) /\ Head(s) = s[1] /\ 1 \in DOMAIN s
  OBVIOUS
<1>2. /\ DOMAIN Tail(s) = 1 .. Len(s) - 1
      /\ \A i \in 1 .. Len(s) - 1 : Tail(s)[i] = s[i + 1]
  OBVIOUS
<1>3. \A i \in DOMAIN Tail(s) : i + 1 \in DOMAIN s /\ Tail(s)[i] = s[i + 1] /\ i + 1 # 1
  BY <1>1, <1>2
<1>4. \A i, j \in DOMAIN Tail(s) : i + 1 = j + 1 => i = j
  BY <1>1, <1>2
<1>5. Less(s, Tail(s))
  BY <1>3, <1>4 DEF Less, Carries, Offers, AddsOnce
<1>6. ASSUME Len(s) > 1 PROVE Less(s, <<s[2], s[1]>> \o SubSeq(s, 3, Len(s)))
  <2> DEFINE t == <<s[2], s[1]>> \o SubSeq(s, 3, Len(s))
             f(i) == IF i = 1 THEN 2 ELSE IF i = 2 THEN 1 ELSE i
  <2>1. s[1] \in S /\ s[2] \in S
    BY <1>1, <1>6
  <2>2. SubSeq(s, 3, Len(s)) \in Seq(S) /\ <<s[2], s[1]>> \in Seq(S)
    BY <1>1, <1>6, <2>1
  <2>3. /\ Len(SubSeq(s, 3, Len(s))) = Len(s) - 2
        /\ \A i \in 1 .. Len(s) - 2 : SubSeq(s, 3, Len(s))[i] = s[i + 2]
    BY <1>1, <1>6
  <2>4. DOMAIN t = 1 .. Len(s)
    BY <1>1, <1>6, <2>2, <2>3
  <2>5. t[1] = s[2] /\ t[2] = s[1]
    BY <1>1, <1>6, <2>2, <2>3
  <2>6. ASSUME NEW i \in 3 .. Len(s) PROVE t[i] = s[i]
    <3>1. t[i] = SubSeq(s, 3, Len(s))[i - 2]
      BY <1>1, <2>2, <2>3
    <3>2. i - 2 \in 1 .. Len(s) - 2 /\ (i - 2) + 2 = i
      BY <1>1
    <3> QED  BY <2>3, <3>1, <3>2
  <2> HIDE DEF t
  <2>7. \A i \in DOMAIN t : f(i) \in DOMAIN s /\ t[i] = s[f(i)]
    BY <1>1, <1>6, <2>4, <2>5, <2>6
  <2>8. \A i, j \in DOMAIN t : f(i) = f(j) => i = j
    BY <1>1, <2>4
  <2> HIDE DEF f
  <2>9. Less(s, t)
    BY <2>7, <2>8 DEF Less, Carries, Offers, AddsOnce
  <2> QED  BY <2>9 DEF t
<1>7. ASSUME Head(s).type = "add"
      PROVE  /\ Carries(s, Head(s).net)
             /\ AddsOnce(s) => ~ Carries(Tail(s), Head(s).net)
  BY <1>1, <1>3, <1>7 DEF Carries, AddsOnce
<1>8. ASSUME Head(s).type = "ACCEPT" PROVE Offers(s, Head(s).id)
  BY <1>1, <1>8 DEF Offers
<1> QED  BY <1>5, <1>6, <1>7, <1>8

\* A message is sent.
LEMMA AppendedCarries ==
  ASSUME NEW S, NEW s \in Seq(S), NEW m
  PROVE  /\ m.type \notin {"add", "ACCEPT"} => Less(s, Append(s, m))
         /\ m.type = "add" => /\ \A n : Carries(Append(s, m), n) => Carries(s, n) \/ n = m.net
                              /\ \A id : Offers(Append(s, m), id) => Offers(s, id)
                              /\ AddsOnce(s) /\ ~ Carries(s, m.net) => AddsOnce(Append(s, m))
         /\ m.type = "ACCEPT" => /\ \A n : Carries(Append(s, m), n) => Carries(s, n)
                                 /\ \A id : Offers(Append(s, m), id) => Offers(s, id) \/ id = m.id
                                 /\ AddsOnce(s) => AddsOnce(Append(s, m))
<1> DEFINE t == Append(s, m)
<1>1. /\ Len(s) \in Nat /\ DOMAIN s = 1 .. Len(s) /\ DOMAIN t = 1 .. Len(s) + 1
      /\ t[Len(s) + 1] = m /\ \A i \in 1 .. Len(s) : t[i] = s[i]
  OBVIOUS
<1> HIDE DEF t
<1>2. \A i \in DOMAIN t : (i \in DOMAIN s /\ t[i] = s[i]) \/ (i = Len(s) + 1 /\ t[i] = m)
  BY <1>1
<1>3. Len(s) + 1 \notin DOMAIN s
  BY <1>1
<1>4. m.type \notin {"add", "ACCEPT"} => Less(s, t)
  BY <1>2 DEF Less, Carries, Offers, AddsOnce
<1>5. m.type = "add" => /\ \A n : Carries(t, n) => Carries(s, n) \/ n = m.net
                        /\ \A id : Offers(t, id) => Offers(s, id)
                        /\ AddsOnce(s) /\ ~ Carries(s, m.net) => AddsOnce(t)
  BY <1>2 DEF Carries, Offers, AddsOnce
<1>6. m.type = "ACCEPT" => /\ \A n : Carries(t, n) => Carries(s, n)
                           /\ \A id : Offers(t, id) => Offers(s, id) \/ id = m.id
                           /\ AddsOnce(s) => AddsOnce(t)
  BY <1>2 DEF Carries, Offers, AddsOnce
<1> QED  BY <1>4, <1>5, <1>6 DEF t

\* The same of all the links.
LEMMA LessSame == \A L : LessLinks(L, L)
  BY DEF LessLinks, Less

LEMMA LessAfter ==
  ASSUME NEW L, NEW M, NEW N, LessLinks(L, M), LessLinks(M, N)
  PROVE  LessLinks(L, N)
  BY DEF LessLinks, Less

LEMMA LessSent ==
  ASSUME NEW L, RightLinks(L), NEW h, NEW dest, NEW m, m.type \notin {"add", "ACCEPT"}
  PROVE  LessLinks(L, Sent(L, h, dest, m))
<1> SUFFICES ASSUME NEW l \in Links PROVE Less(L[l], Sent(L, h, dest, m)[l])
  BY DEF LessLinks
<1>1. L[l] \in Seq(On(l))
  BY DEF RightLinks
<1>2. Less(L[l], Append(L[l], m)) /\ Less(L[l], L[l])
  BY <1>1, AppendedCarries DEF Less
<1>3. Sent(L, h, dest, m)[l] \in {L[l], Append(L[l], m)}
  BY DEF Sent
<1> QED  BY <1>2, <1>3

LEMMA LessReplaced ==
  ASSUME RightLinks(link), NEW l \in Links, NEW t, Less(link[l], t)
  PROVE  LessLinks(link, [link EXCEPT ![l] = t])
<1>1. \A k \in Links : Less(link[k], link[k])
  BY DEF Less
<1> QED  BY <1>1 DEF LessLinks, RightLinks
-----------------------------------------------------------------------------
(* The names of one host.                                                  *)

NamesOk(x) ==
    /\ \A n \in DOMAIN x.localId :
          /\ x.localId[n] \in DOMAIN x.nodes /\ x.localId[n] \in DOMAIN x.netId
          /\ x.netId[x.localId[n]] = n
    /\ \A k \in DOMAIN x.nodes \cap DOMAIN x.netId :
          x.netId[k] # NoNet => x.netId[k] \in DOMAIN x.localId /\ x.localId[x.netId[k]] = k
    /\ \A k \in DOMAIN x.nodes \cup DOMAIN x.netId : k < x.lastId
    /\ ~ x.on => DOMAIN x.localId = {} /\ DOMAIN x.netId = {} /\ x.targets = {}
    /\ 0 < x.lastId /\ NoNet \notin DOMAIN x.localId

\* y knows no more names than x, and will give the same.
Fewer(x, y) ==
    NamesOk(y) /\ DOMAIN y.localId \subseteq DOMAIN x.localId /\ y.lastId = x.lastId

\* The world and the tables without a node.
LEMMA NamesForgotten ==
  ASSUME NEW x, WellTyped(x), NamesOk(x), NEW k \in DOMAIN x.nodes, NEW n,
         \/ k \in DOMAIN x.netId /\ x.netId[k] = n
         \/ k \notin DOMAIN x.netId /\ n = NoNet,
         NEW y, DOMAIN y = Fields, y.on = x.on, y.targets = x.targets, y.lastId = x.lastId,
         y.nodes = Without(x.nodes, k), y.localId = Without(x.localId, n),
         y.netId = x.netId \/ y.netId = Without(x.netId, k)
  PROVE  Fewer(x, y)
<1>1. DOMAIN y.localId = DOMAIN x.localId \ {n} /\ \A i \in DOMAIN y.localId : y.localId[i] = x.localId[i]
  BY DEF Without
<1>2. DOMAIN y.nodes = DOMAIN x.nodes \ {k}
  BY DEF Without
<1>3. /\ DOMAIN x.netId \ {k} \subseteq DOMAIN y.netId /\ DOMAIN y.netId \subseteq DOMAIN x.netId
      /\ \A i \in DOMAIN y.netId : y.netId[i] = x.netId[i]
  BY DEF Without
<1>4. \A i \in DOMAIN y.localId :
          /\ y.localId[i] \in DOMAIN y.nodes /\ y.localId[i] \in DOMAIN y.netId
          /\ y.netId[y.localId[i]] = i
  BY <1>1, <1>2, <1>3 DEF NamesOk
<1>5. \A j \in DOMAIN y.nodes \cap DOMAIN y.netId :
          y.netId[j] # NoNet => y.netId[j] \in DOMAIN y.localId /\ y.localId[y.netId[j]] = j
  BY <1>1, <1>2, <1>3 DEF NamesOk
<1>6. \A j \in DOMAIN y.nodes \cup DOMAIN y.netId : j < y.lastId
  BY <1>2, <1>3 DEF NamesOk
<1>7. ~ y.on => DOMAIN y.localId = {} /\ DOMAIN y.netId = {} /\ y.targets = {}
  BY <1>1, <1>3 DEF NamesOk
<1> QED  BY <1>1, <1>4, <1>5, <1>6, <1>7 DEF Fewer, NamesOk

\* What happens to the value of a node is not about names.
LEMMA NamesKept ==
  ASSUME NEW x, WellTyped(x), NamesOk(x),
         NEW y, y.on = x.on, y.targets = x.targets, y.lastId = x.lastId,
         DOMAIN y.nodes = DOMAIN x.nodes, y.localId = x.localId,
         \/ DOMAIN y.netId = DOMAIN x.netId /\ \A i \in DOMAIN x.netId : y.netId[i] = x.netId[i]
         \/ \E k \in DOMAIN x.nodes \ DOMAIN x.netId : y.netId = With(x.netId, k, NoNet) /\ x.on
  PROVE  Fewer(x, y)
<1>1. CASE DOMAIN y.netId = DOMAIN x.netId /\ \A i \in DOMAIN x.netId : y.netId[i] = x.netId[i]
  BY <1>1 DEF Fewer, NamesOk
<1>2. ASSUME x.on, NEW k \in DOMAIN x.nodes \ DOMAIN x.netId, y.netId = With(x.netId, k, NoNet)
      PROVE  Fewer(x, y)
  <2>1. /\ DOMAIN y.netId = DOMAIN x.netId \cup {k} /\ y.netId[k] = NoNet
        /\ \A i \in DOMAIN x.netId : y.netId[i] = x.netId[i]
    BY <1>2 DEF With
  <2> QED  BY <1>2, <2>1 DEF Fewer, NamesOk
<1> QED  BY <1>1, <1>2

\* A new node, with a name that the host does not know.
LEMMA NamesAdded ==
  ASSUME NEW x, WellTyped(x), NamesOk(x), x.on, NEW n, n \notin DOMAIN x.localId, n # NoNet
  PROVE  LET y == Named(WithNode(x), n, x.lastId)
         IN  /\ NamesOk(y) /\ DOMAIN y.localId = DOMAIN x.localId \cup {n}
             /\ y.lastId = x.lastId + 1
<1> DEFINE y == Named(WithNode(x), n, x.lastId)
<1>1. /\ y.on = x.on /\ y.targets = x.targets /\ y.lastId = x.lastId + 1
      /\ y.nodes = With(x.nodes, x.lastId, NewNode) /\ y.netId = With(x.netId, x.lastId, n)
      /\ y.localId = With(x.localId, n, x.lastId)
  BY DEF WellTyped, Fields, Named, WithNode
<1> HIDE DEF y
<1>2. /\ DOMAIN y.nodes = DOMAIN x.nodes \cup {x.lastId}
      /\ DOMAIN y.netId = DOMAIN x.netId \cup {x.lastId} /\ y.netId[x.lastId] = n
      /\ \A k \in DOMAIN x.netId : k # x.lastId => y.netId[k] = x.netId[k]
      /\ DOMAIN y.localId = DOMAIN x.localId \cup {n} /\ y.localId[n] = x.lastId
      /\ \A i \in DOMAIN x.localId : y.localId[i] = x.localId[i]
  BY <1>1 DEF With
<1>3. /\ x.lastId \in Nat /\ x.lastId \notin DOMAIN x.nodes \cup DOMAIN x.netId
      /\ \A k \in DOMAIN x.nodes \cup DOMAIN x.netId : k \in Nat
  BY DEF WellTyped, NamesOk
<1>4. \A i \in DOMAIN y.localId :
          /\ y.localId[i] \in DOMAIN y.nodes /\ y.localId[i] \in DOMAIN y.netId
          /\ y.netId[y.localId[i]] = i
  BY <1>2, <1>3 DEF NamesOk
<1>5. \A j \in DOMAIN y.nodes \cap DOMAIN y.netId :
          y.netId[j] # NoNet => y.netId[j] \in DOMAIN y.localId /\ y.localId[y.netId[j]] = j
  BY <1>2, <1>3 DEF NamesOk
<1>6. \A j \in DOMAIN y.nodes \cup DOMAIN y.netId : j < y.lastId
  <2>1. \A j \in DOMAIN x.nodes \cup DOMAIN x.netId : j < x.lastId
    BY DEF NamesOk
  <2> QED  BY <1>1, <1>2, <1>3, <2>1
<1>7. 0 < y.lastId
  BY <1>1, <1>3 DEF NamesOk
<1> QED  BY <1>1, <1>2, <1>4, <1>5, <1>6, <1>7 DEF NamesOk, y

\* The user changes a node.
LEMMA NamesChanged ==
  ASSUME NEW x, WellTyped(x), NamesOk(x), x.on, NEW k \in DOMAIN x.nodes,
         NEW op \in Ops, op.type # "add", op.net = NetOf(x, k)
  PROVE  Fewer(x, HandleOther(Changed(x, k, op), op, k))
<1> DEFINE w == Changed(x, k, op)
           y == HandleOther(w, op, k)
<1>1. op.type \in {"delete", "param", "activate", "deactivate"}
  BY DEF Ops
<1>2. CASE op.type = "delete"
  <2>1. /\ DOMAIN y = Fields /\ y.on = x.on /\ y.targets = x.targets /\ y.lastId = x.lastId
        /\ y.nodes = Without(x.nodes, k) /\ y.localId = Without(x.localId, op.net)
        /\ y.netId = Without(x.netId, k)
    BY <1>2 DEF HandleOther, Changed, Forgotten, WellTyped, Fields
  <2> HIDE DEF y, w
  <2>2. \/ k \in DOMAIN x.netId /\ x.netId[k] = op.net
        \/ k \notin DOMAIN x.netId /\ op.net = NoNet
    BY DEF NetOf
  <2>3. Fewer(x, y)
    BY <2>1, <2>2, NamesForgotten
  <2> QED  BY <2>3 DEF y, w
<1>3. CASE op.type # "delete"
  <2>1. /\ w.on = x.on /\ w.targets = x.targets /\ w.lastId = x.lastId /\ DOMAIN w = Fields
        /\ DOMAIN w.nodes = DOMAIN x.nodes /\ w.localId = x.localId /\ w.netId = x.netId
    BY <1>1, <1>3 DEF Changed, WellTyped, Fields
  <2> HIDE DEF w
  <2>2. /\ y.on = x.on /\ y.targets = x.targets /\ y.lastId = x.lastId
        /\ DOMAIN y.nodes = DOMAIN x.nodes /\ y.localId = x.localId
        /\ y.netId = With(x.netId, k, op.net)
    BY <1>3, <2>1 DEF HandleOther, Fields
  <2> HIDE DEF y
  <2>3. k \in DOMAIN x.netId => DOMAIN y.netId = DOMAIN x.netId
                               /\ \A i \in DOMAIN x.netId : y.netId[i] = x.netId[i]
    BY <2>2 DEF NetOf, With
  <2>4. k \notin DOMAIN x.netId => op.net = NoNet
    BY DEF NetOf
  <2>5. Fewer(x, y)
    BY <2>2, <2>3, <2>4, NamesKept
  <2> QED  BY <2>5 DEF y, w
<1> QED  BY <1>2, <1>3

\* Another host changed a node.
LEMMA NamesCallback ==
  ASSUME NEW x, WellTyped(x), NamesOk(x), NEW op \in Ops, op.type # "add", Known(x, op.net),
         NEW y \in OtherCallbacks(x, op)
  PROVE  Fewer(x, y)
<1> DEFINE k == x.localId[op.net]
           w == Changed(x, k, op)
<1>1. op.type \in {"delete", "param", "activate", "deactivate"}
  BY DEF Ops
<1>2. k \in DOMAIN x.nodes /\ k \in DOMAIN x.netId /\ x.netId[k] = op.net
  BY DEF Known, NamesOk
<1>3. CASE op.type = "delete"
  <2>1. /\ w.on = x.on /\ w.targets = x.targets /\ w.lastId = x.lastId /\ DOMAIN w = Fields
        /\ w.nodes = Without(x.nodes, k) /\ w.localId = x.localId /\ w.netId = x.netId
    BY <1>3 DEF Changed, WellTyped, Fields
  <2>2. y = Forgotten(w, op.net, k) \/ y = [w EXCEPT !.localId = Without(@, op.net)]
    BY <1>3 DEF OtherCallbacks
  <2> HIDE DEF w, k
  <2>3. /\ DOMAIN y = Fields /\ y.on = x.on /\ y.targets = x.targets /\ y.lastId = x.lastId
        /\ y.nodes = Without(x.nodes, k) /\ y.localId = Without(x.localId, op.net)
        /\ y.netId = x.netId \/ y.netId = Without(x.netId, k)
    BY <2>1, <2>2 DEF Forgotten, Fields
  <2> QED  BY <1>2, <2>3, NamesForgotten
<1>4. CASE op.type # "delete"
  <2>1. /\ w.on = x.on /\ w.targets = x.targets /\ w.lastId = x.lastId
        /\ DOMAIN w.nodes = DOMAIN x.nodes /\ w.localId = x.localId /\ w.netId = x.netId
    BY <1>1, <1>4 DEF Changed, WellTyped, Fields
  <2>2. y = w
    BY <1>4 DEF OtherCallbacks
  <2> HIDE DEF w
  <2> QED  BY <2>1, <2>2, NamesKept
<1> QED  BY <1>3, <1>4

\* A host leaves the session, or joins it.
LEMMA NamesCleared ==
  ASSUME NEW x, WellTyped(x), NamesOk(x)
  PROVE  /\ Fewer(x, Cleared(x)) /\ ~ Cleared(x).on
         /\ Fewer(x, x)
         /\ \A T : x.on \/ T = {} => Fewer(x, [x EXCEPT !.targets = T])
         /\ ~ x.on => \A id : Fewer(x, Accepted(x, id)) /\ Accepted(x, id).on
<1>1. Fewer(x, Cleared(x)) /\ ~ Cleared(x).on
  BY DEF Fewer, NamesOk, Cleared, WellTyped, Fields
<1>2. Fewer(x, x)
  BY DEF Fewer
<1>3. \A T : x.on \/ T = {} => Fewer(x, [x EXCEPT !.targets = T])
  BY DEF Fewer, NamesOk, WellTyped, Fields
<1>4. ASSUME ~ x.on, NEW id PROVE Fewer(x, Accepted(x, id)) /\ Accepted(x, id).on
  <2> DEFINE y == Accepted(x, id)
  <2>1. y.on /\ y.lastId = x.lastId /\ y.nodes = <<>> /\ y.netId = x.netId /\ y.localId = x.localId
    BY DEF Accepted, Emptied, WellTyped, Fields
  <2> HIDE DEF y
  <2>2. DOMAIN x.localId = {} /\ DOMAIN x.netId = {} /\ DOMAIN y.nodes = {}
    BY <1>4, <2>1 DEF NamesOk
  <2>3. Fewer(x, y)
    BY <2>1, <2>2 DEF Fewer, NamesOk
  <2> QED  BY <2>1, <2>3 DEF y
<1> QED  BY <1>1, <1>2, <1>3, <1>4
-----------------------------------------------------------------------------
(* Names in the session.                                                   *)

\* An identifier that c has, or will have.
Has(c, id) ==
    \/ Offers(In(c), id)
    \/ host[c].on /\ host[c].id = id
    \/ c \in DOMAIN server.slots /\ server.slots[c].id = id

\* Who is in the session.
InSession ==
    /\ host[Server].id = 0 /\ server.nextId \in Nat /\ server.nextId >= 1
    /\ server.state = "LISTENING" <=> host[Server].on
    /\ \A c \in Clients : host[c].on => client[c].state \in {"CONNECTED", "CLOSING"}

\* No two clients have the same identifier, and none has that of the server.
IdsApart ==
    \A c \in Clients : \A id : Has(c, id) =>
        /\ id \in Nat /\ 1 <= id /\ id < server.nextId
        /\ \A d \in Clients : Has(d, id) => d = c

\* A name that is in use has been given: no host will give it again.
Used(n) ==
    (\E h \in Hosts : n \in DOMAIN host[h].localId) \/ (\E l \in Links : Carries(link[l], n))

Past(n) ==
    /\ n \in Nets /\ n[1] < server.nextId
    /\ n[1] = 0 => n[2] < host[Server].lastId
    /\ \A c \in Clients : Has(c, n[1]) => n[2] < host[c].lastId

\* An ADD comes once, to a host that does not know the name; until the server has
\* it, it is nowhere but with the client that made the node.
AddsNew ==
    /\ \A l \in Links :
          /\ AddsOnce(link[l]) /\ ~ Carries(link[l], NoNet)
          /\ \A n \in DOMAIN host[l[2]].localId : ~ Carries(link[l], n)
    /\ \A c \in Clients : \A n : Carries(Out(c), n) =>
          \A d \in Clients :
             /\ ~ Carries(In(d), n)
             /\ d # c => ~ Carries(Out(d), n) /\ n \notin DOMAIN host[d].localId

NamesFresh ==
    /\ \A h \in Hosts : NamesOk(host[h])
    /\ InSession /\ IdsApart /\ (\A n : Used(n) => Past(n)) /\ AddsNew

Undisturbed == reborn = {} /\ ~ again /\ "duplicated" \notin faults

NamesInv == Undisturbed => NamesFresh

\* A step after which what was given has been given.
NamesStep == NamesFresh' /\ \A n : Past(n) => Past(n)'

\* A step after which there is no new name and no new identifier.
FewerStep ==
    /\ LessLinks(link, link') /\ \A h \in Hosts : Fewer(host[h], host'[h])
    /\ \A c \in Clients : host'[c].on => Has(c, host'[c].id)
    /\ \A c \in DOMAIN server'.slots :
          c \in DOMAIN server.slots /\ server'.slots[c].id = server.slots[c].id
    /\ server'.nextId = server.nextId
    /\ InSession'

LEMMA FewerKeeps ==
  ASSUME NamesFresh, FewerStep
  PROVE  NamesStep
<1>1. \A c \in Clients : <<Server, c>> \in Links /\ <<c, Server>> \in Links
  BY DEF Links
<1>2. \A c \in Clients : Less(In(c), In(c)') /\ Less(Out(c), Out(c)')
  BY <1>1 DEF FewerStep, LessLinks, In, Out
<1>3. \A c \in Clients : \A id : Has(c, id)' => Has(c, id)
  BY <1>2 DEF FewerStep, Has, Less
<1>4. /\ \A h \in Hosts : /\ NamesOk(host'[h]) /\ host'[h].lastId = host[h].lastId
                          /\ DOMAIN host'[h].localId \subseteq DOMAIN host[h].localId
      /\ server'.nextId = server.nextId /\ InSession'
  BY DEF FewerStep, Fewer
<1>5. IdsApart'
  BY <1>3, <1>4 DEF NamesFresh, IdsApart
<1>6. /\ \A n : Past(n) => Past(n)'
      /\ \A n : Used(n)' => Past(n)'
  <2>1. ASSUME NEW n, Past(n) PROVE Past(n)'
    BY <1>3, <1>4, <2>1, ServerHost DEF Past
  <2>2. ASSUME NEW n, Used(n)' PROVE Past(n)'
    <3>1. Used(n)
      BY <1>4, <2>2 DEF Used, FewerStep, LessLinks, Less
    <3>2. Past(n)
      BY <3>1 DEF NamesFresh
    <3> QED  BY <2>1, <3>2
  <2> QED  BY <2>1, <2>2
<1>7. AddsNew'
  <2>1. \A l \in Links : Less(link[l], link'[l]) /\ l[2] \in Hosts
    BY LinkEnds DEF FewerStep, LessLinks
  <2>2. ASSUME NEW l \in Links
        PROVE  /\ AddsOnce(link'[l]) /\ ~ Carries(link'[l], NoNet)
               /\ \A n \in DOMAIN host'[l[2]].localId : ~ Carries(link'[l], n)
    BY <1>4, <2>1 DEF Less, NamesFresh, AddsNew
  <2>3. ASSUME NEW c \in Clients, NEW n, Carries(Out(c)', n), NEW d \in Clients
        PROVE  /\ ~ Carries(In(d)', n)
               /\ d # c => ~ Carries(Out(d)', n) /\ n \notin DOMAIN host'[d].localId
    <3>1. Carries(Out(c), n)
      BY <1>2, <2>3 DEF Less
    <3> QED  BY <1>2, <1>4, <3>1, ServerHost DEF Less, NamesFresh, AddsNew
  <2> QED  BY <2>2, <2>3 DEF AddsNew
<1> QED  BY <1>4, <1>5, <1>6, <1>7 DEF NamesFresh, NamesStep

\* The state, when nobody dies and nothing comes twice.
LEMMA NamesState ==
  ASSUME TypesInv, NamesFresh
  PROVE  /\ RightLinks(link) /\ DOMAIN link = Links
         /\ DOMAIN host = Hosts /\ DOMAIN client = Clients
         /\ \A h \in Hosts : WellTyped(host[h]) /\ NamesOk(host[h]) /\ Fewer(host[h], host[h])
         /\ DOMAIN server = {"state", "slots", "nextId"}
         /\ \A c \in Clients : client[c] \in ClientType
  BY NamesCleared DEF TypesInv, HostsTyped, NamesFresh, RightLinks, SlotsInv, SlotIds

\* One host changes, and keeps its names and its place in the session.
LEMMA FewerHost ==
  ASSUME TypesInv, NamesFresh, NEW h \in Hosts, NEW y, host' = [host EXCEPT ![h] = y],
         Fewer(host[h], y), y.id = host[h].id, y.on => host[h].on,
         IF h = Server THEN server'.state = "LISTENING" <=> y.on ELSE server'.state = server.state,
         LessLinks(link, link'), server'.nextId = server.nextId,
         \A c \in DOMAIN server'.slots :
            c \in DOMAIN server.slots /\ server'.slots[c].id = server.slots[c].id,
         \A c \in Clients : \/ client'[c].state \in {"CONNECTED", "CLOSING"}
                            \/ client'[c].state = client[c].state
                            \/ c = h /\ ~ y.on
  PROVE  NamesStep
<1>1. /\ DOMAIN host = Hosts /\ \A g \in Hosts : Fewer(host[g], host[g])
  BY NamesState
<1>2. \A g \in Hosts : host'[g] = IF g = h THEN y ELSE host[g]
  BY <1>1
<1>3. \A g \in Hosts : Fewer(host[g], host'[g])
  BY <1>1, <1>2
<1>4. \A c \in Clients : host'[c].on => host[c].on /\ host'[c].id = host[c].id
  BY <1>2, ServerHost
<1>5. InSession'
  BY <1>2, <1>4, ServerHost, HostsAssumption DEF InSession, NamesFresh
<1> QED  BY <1>3, <1>4, <1>5, FewerKeeps DEF FewerStep, Has

\* No host changes.
LEMMA FewerNone ==
  ASSUME TypesInv, NamesFresh, host' = host,
         LessLinks(link, link'), server'.nextId = server.nextId, server'.state = server.state,
         \A c \in DOMAIN server'.slots :
            c \in DOMAIN server.slots /\ server'.slots[c].id = server.slots[c].id,
         \A c \in Clients : \/ client'[c].state \in {"CONNECTED", "CLOSING"}
                            \/ client'[c].state = client[c].state
                            \/ ~ host[c].on
  PROVE  NamesStep
<1>1. \A g \in Hosts : Fewer(host[g], host'[g])
  BY NamesState
<1>2. InSession'
  BY DEF InSession, NamesFresh
<1> QED  BY <1>1, <1>2, FewerKeeps DEF FewerStep, Has

\* A new name, of a node of h, on the way to some of its targets.
LEMMA NamesNew ==
  ASSUME TypesInv, NamesFresh, NEW h \in Hosts, AddNode(h)
  PROVE  NamesStep
<1> DEFINE n == <<host[h].id, host[h].lastId>>
           y == Named(WithNode(host[h]), n, host[h].lastId)
           op == Op("add", n, 0, h)
<1>1. /\ RightLinks(link) /\ DOMAIN link = Links /\ DOMAIN host = Hosts
      /\ WellTyped(host[h]) /\ \A g \in Hosts : NamesOk(host[g])
      /\ \A g \in Hosts : host[g].id \in Nat /\ host[g].lastId \in Nat
      /\ host[h].on
  BY NamesState DEF WellTyped, AddNode
<1>2. HandleAdd(WithNode(host[h]), host[h].lastId) = y /\ y.targets = host[h].targets /\ y.on = host[h].on
      /\ y.id = host[h].id
  BY <1>1 DEF HandleAdd, WithNode, Named, WellTyped, Fields
<1>3. /\ host' = [host EXCEPT ![h] = y]
      /\ link' = Sent(link, h, host[h].targets, op)
      /\ UNCHANGED <<client, server>>
  BY <1>2 DEF AddNode, HandleAdd, WithNode, Named, WellTyped, Fields
<1>4. /\ n \in Nets /\ n[1] = host[h].id /\ n[2] = host[h].lastId
      /\ h = Server => n[1] = 0
      /\ h # Server => h \in Clients /\ Has(h, n[1])
  BY <1>1 DEF Nets, NamesFresh, InSession, Has, Hosts
<1>5. ~ Used(n) /\ n # NoNet
  <2>1. ~ Past(n)
    BY <1>1, <1>4 DEF Past
  <2>2. 0 < host[h].lastId
    BY <1>1 DEF NamesOk
  <2> QED  BY <1>1, <2>1, <2>2 DEF NamesFresh, NoNet
<1> HIDE DEF n
<1>6. NamesOk(y) /\ DOMAIN y.localId = DOMAIN host[h].localId \cup {n} /\ y.lastId = host[h].lastId + 1
  <2>1. n \notin DOMAIN host[h].localId
    BY <1>5 DEF Used
  <2> QED  BY <1>1, <1>5, <2>1, NamesAdded
<1> HIDE DEF y
<1>7. /\ \A g \in Hosts : host'[g] = IF g = h THEN y ELSE host[g]
      /\ op.type = "add" /\ op.net = n
  BY <1>1, <1>3 DEF Op
<1> HIDE DEF op
<1>8. ASSUME NEW l \in Links
      PROVE  /\ \A k : Carries(link'[l], k) => Carries(link[l], k) \/ (k = n /\ l[1] = h)
             /\ \A id : Offers(link'[l], id) => Offers(link[l], id)
             /\ AddsOnce(link'[l])
  <2>1. link[l] \in Seq(On(l))
    BY <1>1 DEF RightLinks
  <2>2. AddsOnce(link[l]) /\ ~ Carries(link[l], n)
    BY <1>5 DEF NamesFresh, AddsNew, Used
  <2>3. link'[l] = IF l[1] = h /\ l[2] \in host[h].targets THEN Append(link[l], op) ELSE link[l]
    BY <1>3 DEF Sent
  <2> QED  BY <1>7, <2>1, <2>2, <2>3, AppendedCarries
<1>9. \A c \in Clients : /\ <<Server, c>> \in Links /\ <<c, Server>> \in Links
                         /\ c # Server /\ c \in Hosts
                         /\ <<Server, c>>[1] = Server /\ <<c, Server>>[1] = c
  BY ServerHost, HostsAssumption DEF Links
<1>10. \A c \in Clients : \A id : Has(c, id)' => Has(c, id)
  <2> SUFFICES ASSUME NEW c \in Clients, NEW id, Has(c, id)' PROVE Has(c, id)
    OBVIOUS
  <2>1. Offers(In(c)', id) => Offers(In(c), id)
    BY <1>8, <1>9 DEF In
  <2>2. host'[c].on = host[c].on /\ host'[c].id = host[c].id
    BY <1>2, <1>7, <1>9
  <2> QED  BY <1>3, <2>1, <2>2 DEF Has
<1>11. InSession'
  BY <1>2, <1>3, <1>7, <1>9, ServerHost DEF InSession, NamesFresh
<1>12. IdsApart'
  BY <1>3, <1>10 DEF NamesFresh, IdsApart
<1>13. ASSUME NEW k, Used(k)' \/ Past(k) PROVE Past(k)'
  <2>1. CASE k = n
    <3>1. n[1] < server.nextId
      BY <1>4 DEF NamesFresh, InSession, IdsApart
    <3>2. n[1] = 0 => n[2] < host'[Server].lastId
      BY <1>1, <1>4, <1>6, <1>7 DEF NamesFresh, IdsApart
    <3>3. \A c \in Clients : Has(c, n[1]) => n[2] < host'[c].lastId
      BY <1>1, <1>4, <1>6, <1>7, <1>9 DEF NamesFresh, IdsApart
    <3> QED  BY <1>3, <1>4, <1>10, <2>1, <3>1, <3>2, <3>3 DEF Past
  <2>2. CASE k # n
    <3>1. Used(k)' => Used(k)
      BY <1>6, <1>7, <1>8, <2>2 DEF Used
    <3>2. Past(k)
      BY <1>13, <3>1 DEF NamesFresh
    <3>3. \A g \in Hosts : k[2] < host[g].lastId => k[2] < host'[g].lastId
      <4>1. k[2] \in Nat
        BY <3>2 DEF Past, Nets
      <4> QED  BY <1>1, <1>6, <1>7, <4>1
    <3> QED  BY <1>3, <1>9, <1>10, <3>2, <3>3, ServerHost DEF Past
  <2> QED  BY <2>1, <2>2
<1>14. AddsNew'
  <2>1. ASSUME NEW l \in Links, NEW k \in DOMAIN host'[l[2]].localId
        PROVE  ~ Carries(link'[l], k)
    <3>1. l[1] # l[2] /\ l[2] \in Hosts
      BY LinkEnds
    <3>2. k \in DOMAIN host[l[2]].localId \/ (k = n /\ l[2] = h)
      BY <1>6, <1>7, <2>1, <3>1
    <3> QED  BY <1>5, <1>8, <3>1, <3>2 DEF NamesFresh, AddsNew, Used
  <2>2. ASSUME NEW c \in Clients, NEW k, Carries(Out(c)', k), NEW d \in Clients
        PROVE  /\ ~ Carries(In(d)', k)
               /\ d # c => ~ Carries(Out(d)', k) /\ k \notin DOMAIN host'[d].localId
    <3>1. CASE k = n
      <4>1. ~ Carries(Out(c), n) /\ ~ Carries(In(d), n) /\ ~ Carries(Out(d), n)
            /\ n \notin DOMAIN host[d].localId
        BY <1>5, <1>9 DEF Used, In, Out
      <4>2. c = h
        BY <1>8, <1>9, <2>2, <3>1, <4>1 DEF Out
      <4> QED  BY <1>6, <1>7, <1>8, <1>9, <3>1, <4>1, <4>2 DEF In, Out
    <3>2. CASE k # n
      <4>1. Carries(Out(c), k)
        <5> DEFINE l == <<c, Server>>
        <5>1. Carries(link'[l], k) /\ l \in Links
          BY <1>9, <2>2 DEF Out
        <5> HIDE DEF l
        <5>2. Carries(link[l], k)
          BY <1>8, <3>2, <5>1
        <5> QED  BY <5>2 DEF Out, l
      <4> QED  BY <1>6, <1>7, <1>8, <1>9, <3>2, <4>1 DEF NamesFresh, AddsNew, In, Out
    <3> QED  BY <3>1, <3>2
  <2>3. \A l \in Links : ~ Carries(link'[l], NoNet)
    BY <1>5, <1>8 DEF NamesFresh, AddsNew
  <2> QED  BY <1>8, <2>1, <2>2, <2>3 DEF AddsNew
<1> QED  BY <1>1, <1>6, <1>7, <1>11, <1>12, <1>13, <1>14 DEF NamesFresh, NamesStep

\* An identifier is given to a client that has none, or again to one the server
\* still knows.
LEMMA NamesConnect ==
  ASSUME TypesInv, NamesFresh, NEW c \in Clients, NEW rest, RightLinks(rest), LessLinks(link, rest),
         server.state = "LISTENING", ServerConnect(c, rest), UNCHANGED client
  PROVE  NamesStep
<1> DEFINE known == c \in host[Server].targets
           id == IF known THEN server.slots[c].id ELSE server.nextId
           y == [host[Server] EXCEPT !.targets = @ \cup {c}]
<1>1. /\ DOMAIN link = Links /\ DOMAIN host = Hosts
      /\ \A g \in Hosts : WellTyped(host[g]) /\ NamesOk(host[g]) /\ Fewer(host[g], host[g])
      /\ DOMAIN server = {"state", "slots", "nextId"} /\ server.nextId \in Nat
      /\ DOMAIN server.slots = host[Server].targets
  BY NamesState DEF TypesInv, SlotsInv, SlotIds
<1>2. /\ host' = [host EXCEPT ![Server] = y]
      /\ server'.slots = With(server.slots, c, NewSlot(id)) /\ server'.state = server.state
      /\ server'.nextId = IF known THEN server.nextId ELSE server.nextId + 1
      /\ link' = Sent(rest, Server, {c}, Accept(id))
  BY <1>1, ServerHost DEF ServerConnect
<1>3. Fewer(host[Server], y) /\ y.on = host[Server].on /\ y.id = host[Server].id /\ y.on
  <2>1. host[Server].on
    BY DEF NamesFresh, InSession
  <2>2. DOMAIN host[Server] = Fields
    BY <1>1, ServerHost DEF WellTyped
  <2> QED  BY <1>1, <2>1, <2>2, NamesCleared, ServerHost DEF Fields
<1> HIDE DEF y
<1>4. /\ \A g \in Hosts : host'[g] = IF g = Server THEN y ELSE host[g]
      /\ \A g \in Hosts : Fewer(host[g], host'[g])
      /\ \A d \in Clients : host'[d] = host[d]
  BY <1>1, <1>2, <1>3, ServerHost, HostsAssumption
<1>5. \A d \in Clients : /\ <<Server, d>> \in Links /\ <<d, Server>> \in Links
                         /\ d # Server /\ d \in Hosts
                         /\ <<Server, d>>[2] = d /\ <<Server, d>>[1] = Server /\ <<d, Server>>[1] = d
  BY ServerHost, HostsAssumption DEF Links
<1>6. id \in Nat /\ 1 <= id /\ id < server'.nextId /\ server'.nextId \in Nat
      /\ server.nextId <= server'.nextId
      /\ \A d \in Clients : d # c => ~ Has(d, id)
  <2>1. CASE known
    <3>1. Has(c, id)
      BY <1>1, <2>1 DEF Has
    <3> QED  BY <1>1, <1>2, <2>1, <3>1 DEF NamesFresh, IdsApart
  <2>2. CASE ~ known
    <3>1. id = server.nextId /\ server'.nextId = server.nextId + 1 /\ 1 <= server.nextId
      BY <1>2, <2>2 DEF NamesFresh, InSession
    <3>2. \A d \in Clients : ~ Has(d, server.nextId)
      BY <1>1 DEF NamesFresh, IdsApart
    <3> QED  BY <1>1, <3>1, <3>2
  <2> QED  BY <2>1, <2>2
<1>7. ~ known => \A n : Past(n) => n[1] # id
  BY <1>1 DEF Past, Nets
<1>8. known => Has(c, id)
  BY <1>1 DEF Has
<1> HIDE DEF id, known
<1>9. Accept(id).type = "ACCEPT" /\ Accept(id).id = id
  BY DEF Accept
<1>10. ASSUME NEW l \in Links
       PROVE  /\ \A n : Carries(link'[l], n) => Carries(link[l], n)
              /\ \A i : Offers(link'[l], i) => Offers(link[l], i) \/ (i = id /\ l[1] = Server /\ l[2] = c)
              /\ AddsOnce(link'[l])
  <2>1. rest[l] \in Seq(On(l))
    BY DEF RightLinks
  <2>2. Less(link[l], rest[l]) /\ AddsOnce(link[l])
    BY DEF LessLinks, NamesFresh, AddsNew
  <2>3. link'[l] = IF l[1] = Server /\ l[2] = c THEN Append(rest[l], Accept(id)) ELSE rest[l]
    BY <1>2 DEF Sent
  <2> QED  BY <1>9, <2>1, <2>2, <2>3, AppendedCarries DEF Less
<1>11. ASSUME NEW d \in Clients, NEW i, Has(d, i)'
       PROVE  Has(d, i) \/ (d = c /\ i = id)
  <2>1. Offers(In(d)', i) => Offers(In(d), i) \/ (d = c /\ i = id)
    <3> DEFINE l == <<Server, d>>
    <3>1. l \in Links /\ l[2] = d /\ In(d) = link[l] /\ In(d)' = link'[l]
      BY <1>5 DEF In
    <3> HIDE DEF l
    <3> QED  BY <1>10, <3>1
  <2>2. d \in DOMAIN server'.slots /\ server'.slots[d].id = i =>
           (d \in DOMAIN server.slots /\ server.slots[d].id = i) \/ (d = c /\ i = id)
    BY <1>2 DEF With, NewSlot
  <2> QED  BY <1>4, <1>11, <2>1, <2>2 DEF Has
<1>12. InSession'
  BY <1>1, <1>2, <1>3, <1>4, <1>6, ServerHost DEF InSession, NamesFresh
<1>13. IdsApart'
  <2> SUFFICES ASSUME NEW d \in Clients, NEW i, Has(d, i)'
               PROVE  /\ i \in Nat /\ 1 <= i /\ i < server'.nextId
                      /\ \A e \in Clients : Has(e, i)' => e = d
    BY DEF IdsApart
  <2>1. i \in Nat /\ 1 <= i /\ i < server'.nextId
    <3>1. CASE Has(d, i)
      <4>1. i \in Nat /\ 1 <= i /\ i < server.nextId
        BY <3>1 DEF NamesFresh, IdsApart
      <4> QED  BY <1>1, <1>6, <4>1
    <3>2. CASE i = id
      BY <1>6, <3>2
    <3> QED  BY <1>11, <3>1, <3>2
  <2>2. ASSUME NEW e \in Clients, Has(e, i)' PROVE e = d
    <3>1. \A b \in Clients : Has(b, i)' => Has(b, i) \/ (b = c /\ i = id)
      BY <1>11
    <3> QED  BY <1>6, <2>2, <3>1 DEF NamesFresh, IdsApart
  <2> QED  BY <2>1, <2>2
<1>14. ASSUME NEW n, Used(n)' \/ Past(n) PROVE Past(n)'
  <2>1. Used(n)' => Used(n)
    BY <1>4, <1>10 DEF Used, Fewer
  <2>2. Past(n)
    BY <1>14, <2>1 DEF NamesFresh
  <2>3. n[1] < server'.nextId /\ n \in Nets
    BY <1>1, <1>6, <2>2 DEF Past, Nets
  <2>4. \A g \in Hosts : host'[g].lastId = host[g].lastId
    BY <1>4 DEF Fewer
  <2>5. \A d \in Clients : Has(d, n[1])' => Has(d, n[1])
    BY <1>7, <1>8, <1>11, <2>2
  <2> QED  BY <1>5, <2>2, <2>3, <2>4, <2>5, ServerHost DEF Past
<1>15. AddsNew'
  <2>1. ASSUME NEW l \in Links, NEW k \in DOMAIN host'[l[2]].localId PROVE ~ Carries(link'[l], k)
    <3>1. k \in DOMAIN host[l[2]].localId
      BY <1>4, LinkEnds DEF Fewer
    <3> QED  BY <1>10, <3>1 DEF NamesFresh, AddsNew
  <2>2. ASSUME NEW b \in Clients, NEW k, Carries(Out(b)', k), NEW d \in Clients
        PROVE  /\ ~ Carries(In(d)', k)
               /\ d # b => ~ Carries(Out(d)', k) /\ k \notin DOMAIN host'[d].localId
    <3>1. \A e \in Clients : /\ Carries(In(e)', k) => Carries(In(e), k)
                             /\ Carries(Out(e)', k) => Carries(Out(e), k)
      BY <1>5, <1>10 DEF In, Out
    <3> QED  BY <1>4, <2>2, <3>1 DEF NamesFresh, AddsNew
  <2>3. \A l \in Links : ~ Carries(link'[l], NoNet)
    BY <1>10 DEF NamesFresh, AddsNew
  <2> QED  BY <1>10, <2>1, <2>2, <2>3 DEF AddsNew
<1>16. \A g \in Hosts : NamesOk(host'[g])
  BY <1>4 DEF Fewer
<1> QED  BY <1>12, <1>13, <1>14, <1>15, <1>16 DEF NamesFresh, NamesStep

\* An ADD arrives.  The server tells the others.
Told(from, to, op) ==
    LET rest == [link EXCEPT ![<<from, to>>] = Tail(@)]
    IN  /\ link' = IF to = Server THEN Sent(rest, to, Others(host[to], from), op) ELSE rest
        /\ host' = [host EXCEPT ![to] = AddCallback(@, op)]
        /\ UNCHANGED <<client, server>>

LEMMA NamesTold ==
  ASSUME TypesInv, NamesFresh, NEW from, NEW to, NEW l \in Links, l = <<from, to>>, link[l] # <<>>,
         NEW op, op = Head(link[l]), op.type = "add", from \in host[to].targets, Told(from, to, op)
  PROVE  NamesStep
<1> DEFINE n == op.net
           y == AddCallback(host[to], op)
           rest == [link EXCEPT ![l] = Tail(@)]
<1>0. /\ link' = IF to = Server THEN Sent(rest, to, Others(host[to], from), op) ELSE rest
      /\ host' = [host EXCEPT ![to] = y] /\ client' = client /\ server' = server
  BY DEF Told
<1>1. /\ RightLinks(link) /\ DOMAIN link = Links /\ DOMAIN host = Hosts
      /\ \A g \in Hosts : WellTyped(host[g]) /\ NamesOk(host[g]) /\ host[g].lastId \in Nat
      /\ from \in Hosts /\ to \in Hosts /\ from # to /\ l[1] = from /\ l[2] = to
  BY NamesState, LinkEnds DEF WellTyped
<1>2. link[l] \in Seq(On(l)) /\ rest[l] = Tail(link[l]) /\ RightLinks(rest)
  BY <1>1, TailRight DEF RightLinks
<1>3. Less(link[l], Tail(link[l])) /\ Carries(link[l], n) /\ ~ Carries(Tail(link[l]), n)
  BY <1>2, LessTaken DEF NamesFresh, AddsNew
<1>4. n \notin DOMAIN host[to].localId /\ host[to].on /\ op.net = n /\ Used(n) /\ n # NoNet
  BY <1>1, <1>3 DEF NamesFresh, AddsNew, NamesOk, Used
<1> HIDE DEF n
<1>5. NamesOk(y) /\ DOMAIN y.localId = DOMAIN host[to].localId \cup {n} /\ y.lastId = host[to].lastId + 1
  BY <1>1, <1>4, NamesAdded DEF AddCallback
<1>6. y.on = host[to].on /\ y.id = host[to].id
  BY <1>1 DEF AddCallback, WithNode, Named, WellTyped, Fields
<1> HIDE DEF y
<1>7. \A g \in Hosts : host'[g] = IF g = to THEN y ELSE host[g]
  BY <1>0, <1>1
<1>8. ASSUME NEW k \in Links
      PROVE  /\ \A i : Carries(rest[k], i) => Carries(link[k], i) /\ ~ (k = l /\ i = n)
             /\ \A id : Offers(rest[k], id) => Offers(link[k], id)
             /\ AddsOnce(rest[k]) /\ rest[k] \in Seq(On(k))
             /\ k # l => rest[k] = link[k]
  <2>1. AddsOnce(link[k])
    BY DEF NamesFresh, AddsNew
  <2> QED  BY <1>1, <1>2, <1>3, <2>1 DEF Less, RightLinks
<1> HIDE DEF rest
<1>9. \A c \in Clients : /\ <<Server, c>> \in Links /\ <<c, Server>> \in Links
                         /\ c # Server /\ c \in Hosts
                         /\ <<Server, c>>[1] = Server /\ <<Server, c>>[2] = c
                         /\ <<c, Server>>[1] = c /\ <<c, Server>>[2] = Server
  BY ServerHost, HostsAssumption DEF Links
<1>10. from \in Clients \/ (from = Server /\ to \in Clients)
  BY <1>1 DEF Links, Hosts
\* Until now the name was with the client that made it.
<1>11. ASSUME to = Server
       PROVE  /\ from \in Clients /\ l = <<from, Server>> /\ Carries(Out(from), n)
              /\ \A d \in Clients : ~ Carries(In(d), n) /\ ~ Carries(rest[<<d, Server>>], n)
              /\ \A d \in Clients : d # from => n \notin DOMAIN host[d].localId
  <2>1. from \in Clients /\ l = <<from, Server>> /\ Carries(Out(from), n)
    BY <1>1, <1>3, <1>10, <1>11 DEF Out
  <2> QED  BY <1>8, <1>9, <2>1 DEF NamesFresh, AddsNew, Out
<1>12. ASSUME NEW k \in Links
       PROVE  /\ \A i : Carries(link'[k], i) =>
                    \/ Carries(rest[k], i)
                    \/ i = n /\ to = Server /\ k[1] = Server /\ k[2] # from
              /\ \A id : Offers(link'[k], id) => Offers(link[k], id)
              /\ AddsOnce(link'[k])
  <2>1. CASE to = Server /\ k[1] = Server /\ k[2] \in Others(host[to], from)
    <3>1. link'[k] = Append(rest[k], op) /\ k[2] # from
      BY <1>0, <2>1 DEF Sent, Others
    <3>2. k[2] \in Clients /\ k = <<Server, k[2]>>
      BY <2>1, HostsAssumption, LinkEnds DEF Links
    <3>3. ~ Carries(link[k], n)
      BY <1>11, <2>1, <3>2 DEF In
    <3>4. rest[k] \in Seq(On(k)) /\ AddsOnce(rest[k]) /\ ~ Carries(rest[k], n)
      BY <1>8, <3>3
    <3>5. /\ \A i : Carries(Append(rest[k], op), i) => Carries(rest[k], i) \/ i = n
          /\ \A id : Offers(Append(rest[k], op), id) => Offers(rest[k], id)
          /\ AddsOnce(Append(rest[k], op))
      BY <1>4, <3>4, AppendedCarries
    <3> QED  BY <1>8, <2>1, <3>1, <3>5
  <2>2. CASE ~ (to = Server /\ k[1] = Server /\ k[2] \in Others(host[to], from))
    <3>1. link'[k] = rest[k]
      BY <1>0, <2>2 DEF Sent
    <3> QED  BY <1>8, <3>1
  <2> QED  BY <2>1, <2>2
<1>13. \A c \in Clients : \A id : Has(c, id)' => Has(c, id)
  <2> SUFFICES ASSUME NEW c \in Clients, NEW id, Has(c, id)' PROVE Has(c, id)
    OBVIOUS
  <2>1. Offers(In(c)', id) => Offers(In(c), id)
    BY <1>9, <1>12 DEF In
  <2>2. host'[c].on = host[c].on /\ host'[c].id = host[c].id
    BY <1>6, <1>7, <1>9
  <2> QED  BY <1>0, <2>1, <2>2 DEF Has
<1>14. InSession'
  BY <1>0, <1>6, <1>7, <1>9, ServerHost DEF InSession, NamesFresh
<1>15. IdsApart'
  BY <1>0, <1>13 DEF NamesFresh, IdsApart
<1>16. ASSUME NEW k, Used(k)' \/ Past(k) PROVE Past(k)'
  <2>1. ASSUME Used(k)' PROVE Used(k)
    <3>1. CASE \E g \in Hosts : k \in DOMAIN host'[g].localId
      <4>1. k = n \/ \E g \in Hosts : k \in DOMAIN host[g].localId
        BY <1>5, <1>7, <3>1
      <4> QED  BY <1>4, <4>1 DEF Used
    <3>2. ASSUME NEW i \in Links, Carries(link'[i], k) PROVE Used(k)
      <4>1. Carries(rest[i], k) \/ k = n
        BY <1>12, <3>2
      <4>2. Carries(link[i], k) \/ k = n
        BY <1>8, <4>1
      <4> QED  BY <1>4, <4>2 DEF Used
    <3> QED  BY <2>1, <3>1, <3>2 DEF Used
  <2>2. Past(k)
    BY <1>16, <2>1 DEF NamesFresh
  <2>3. \A g \in Hosts : k[2] < host[g].lastId => k[2] < host'[g].lastId
    <3>1. k[2] \in Nat
      BY <2>2 DEF Past, Nets
    <3>2. \A g \in Hosts : host[g].lastId \in Nat
                          /\ host'[g].lastId \in {host[g].lastId, host[g].lastId + 1}
      BY <1>1, <1>5, <1>7
    <3> QED  BY <3>1, <3>2
  <2> QED  BY <1>0, <1>9, <1>13, <2>2, <2>3, ServerHost DEF Past
<1>17. AddsNew'
  <2>1. ASSUME NEW k \in Links, NEW i \in DOMAIN host'[k[2]].localId
        PROVE  ~ Carries(link'[k], i)
    <3>1. k[1] # k[2] /\ k[2] \in Hosts /\ k = <<k[1], k[2]>>
      BY LinkEnds
    <3>2. \/ i \in DOMAIN host[k[2]].localId
          \/ i = n /\ k[2] = to
      BY <1>5, <1>7, <2>1, <3>1
    <3>3. CASE i \in DOMAIN host[k[2]].localId
      <4>1. ~ Carries(link[k], i)
        BY <3>3 DEF NamesFresh, AddsNew
      <4>2. ~ (i = n /\ to = Server /\ k[1] = Server /\ k[2] # from)
        <5>1. to = Server /\ k[1] = Server => k[2] \in Clients
          BY <3>1, HostsAssumption DEF Hosts
        <5> QED  BY <1>11, <3>3, <5>1
      <4> QED  BY <1>8, <1>12, <4>1, <4>2
    <3>4. CASE i = n /\ k[2] = to
      <4>1. ~ Carries(rest[k], n)
        <5>1. CASE to = Server
          <6>1. k[1] \in Clients /\ k = <<k[1], Server>>
            BY <3>1, <3>4, <5>1 DEF Hosts, Links
          <6> QED  BY <1>11, <5>1, <6>1
        <5>2. CASE to # Server
          <6>1. k = l
            BY <1>1, <1>10, <3>1, <3>4, <5>2, HostsAssumption DEF Links, Hosts
          <6> QED  BY <1>8, <6>1
        <5> QED  BY <5>1, <5>2
      <4> QED  BY <1>12, <3>1, <3>4, <4>1
    <3> QED  BY <3>2, <3>3, <3>4
  <2>2. ASSUME NEW c \in Clients, NEW i, Carries(Out(c)', i), NEW d \in Clients
        PROVE  /\ ~ Carries(In(d)', i)
               /\ d # c => ~ Carries(Out(d)', i) /\ i \notin DOMAIN host'[d].localId
    <3>1. Carries(rest[<<c, Server>>], i) /\ Carries(Out(c), i)
      <4>1. Carries(link'[<<c, Server>>], i)
        BY <2>2 DEF Out
      <4>2. Carries(rest[<<c, Server>>], i)
        BY <1>9, <1>12, <4>1
      <4> QED  BY <1>8, <1>9, <4>2 DEF Out
    <3>2. /\ ~ Carries(In(d), i)
          /\ d # c => ~ Carries(Out(d), i) /\ i \notin DOMAIN host[d].localId
      BY <3>1 DEF NamesFresh, AddsNew
    <3>3. ~ (i = n /\ to = Server)
      BY <1>11, <3>1
    <3>4. \A k \in Links : ~ Carries(link[k], i) => ~ Carries(link'[k], i)
      <4>1. \A k \in Links : Carries(link'[k], i) => Carries(rest[k], i)
        BY <1>12, <3>3
      <4> QED  BY <1>8, <4>1
    <3>5. ~ Carries(In(d)', i) /\ (d # c => ~ Carries(Out(d)', i))
      BY <1>9, <3>2, <3>4 DEF In, Out
    <3>6. d # c => i \notin DOMAIN host'[d].localId
      <4>1. CASE d = to /\ i = n
        <5>1. l = <<Server, d>> /\ d # Server
          BY <1>1, <1>10, <4>1, <1>9, HostsAssumption DEF Links, Hosts
        <5> QED  BY <1>3, <3>2, <4>1, <5>1 DEF In
      <4>2. CASE ~ (d = to /\ i = n)
        <5>1. host'[d] = IF d = to THEN y ELSE host[d]
          BY <1>7, <1>9
        <5> QED  BY <1>5, <3>2, <4>2, <5>1
      <4> QED  BY <4>1, <4>2
    <3> QED  BY <3>5, <3>6
  <2>3. \A k \in Links : ~ Carries(link'[k], NoNet)
    BY <1>4, <1>8, <1>12 DEF NamesFresh, AddsNew
  <2> QED  BY <1>12, <2>1, <2>2, <2>3 DEF AddsNew
<1>18. \A g \in Hosts : NamesOk(host'[g])
  BY <1>1, <1>5, <1>7
<1> QED  BY <1>14, <1>15, <1>16, <1>17, <1>18 DEF NamesFresh, NamesStep

\* The steps of the users, when the server does not listen again.
LEMMA NamesCommand ==
  ASSUME TypesInv, NamesFresh, NEW u \in Hosts, Command(u), ~ Listen
  PROVE  NamesStep
<1>1. /\ RightLinks(link) /\ DOMAIN host = Hosts /\ DOMAIN client = Clients
      /\ \A h \in Hosts : WellTyped(host[h]) /\ NamesOk(host[h]) /\ Fewer(host[h], host[h])
      /\ DOMAIN server = {"state", "slots", "nextId"}
  BY NamesState
<1>2. ASSUME NEW c \in Clients, Connect(c) PROVE NamesStep
  <2>1. LessLinks(link, link')
    BY <1>1, <1>2, LessSent DEF Connect, Msg
  <2>2. UNCHANGED <<host, server>> /\ \A d \in Clients : d # c => client'[d] = client[d]
    BY <1>1, <1>2 DEF Connect
  <2>3. ~ host[c].on
    BY <1>2 DEF Connect, NamesFresh, InSession
  <2> QED  BY <2>1, <2>2, <2>3, FewerNone
<1>3. ASSUME NEW c \in Clients, Disconnect(c) PROVE NamesStep
  <2>1. LessLinks(link, link')
    BY <1>1, <1>3, LessSent DEF Disconnect, Msg
  <2>2. /\ host' = [host EXCEPT ![c] = Cleared(host[c])] /\ UNCHANGED server
        /\ \A d \in Clients : d # c => client'[d] = client[d]
    BY <1>1, <1>3 DEF Disconnect, Close
  <2>3. c \in Hosts /\ c # Server /\ Fewer(host[c], Cleared(host[c])) /\ ~ Cleared(host[c]).on
    BY <1>1, NamesCleared, ServerHost, HostsAssumption
  <2>4. Cleared(host[c]).id = host[c].id
    BY <1>1, <2>3 DEF Cleared, WellTyped, Fields
  <2> QED  BY <2>1, <2>2, <2>3, <2>4, FewerHost
<1>4. CASE Stop
  <2>1. LessLinks(link, link')
    BY <1>1, <1>4, LessSent DEF Stop, Msg
  <2>2. /\ host' = [host EXCEPT ![Server] = Cleared(host[Server])] /\ UNCHANGED client
        /\ server'.state = "IDLE" /\ server'.slots = <<>> /\ server'.nextId = server.nextId
    BY <1>1, <1>4 DEF Stop
  <2>3. Fewer(host[Server], Cleared(host[Server])) /\ ~ Cleared(host[Server]).on
    BY <1>1, NamesCleared, ServerHost
  <2>4. Cleared(host[Server]).id = host[Server].id
    BY <1>1, ServerHost DEF Cleared, WellTyped, Fields
  <2>5. \A d \in DOMAIN server'.slots : FALSE
    BY <2>2
  <2>6. server'.state # "LISTENING" /\ \A d \in Clients : client'[d].state = client[d].state
    BY <2>2
  <2> QED  BY <2>1, <2>2, <2>3, <2>4, <2>5, <2>6, ServerHost, FewerHost
<1>5. ASSUME NEW n \in DOMAIN host[u].nodes, NEW v \in Values \cup {0},
             NEW t \in {"delete", "param", "activate", "deactivate"}, ChangeNode(u, n, t, v)
      PROVE  NamesStep
  <2> DEFINE op == Op(t, NetOf(host[u], n), v, u)
             y == HandleOther(Changed(host[u], n, op), op, n)
  <2>1. NetOf(host[u], n) \in Nets
    BY <1>1, HandlersKeep
  <2>2. op \in Ops /\ op.type = t /\ op.net = NetOf(host[u], n)
    BY <2>1 DEF Op, Ops
  <2>3. /\ host' = [host EXCEPT ![u] = y] /\ host[u].on
        /\ link' = Sent(link, u, host[u].targets, op) /\ UNCHANGED <<client, server>>
    BY <1>5 DEF ChangeNode
  <2> HIDE DEF op
  <2>4. Kept(host[u], y) /\ Fewer(host[u], y)
    BY <1>1, <2>2, <2>3, HandlersKeep, NamesChanged
  <2> HIDE DEF y
  <2>5. LessLinks(link, link')
    BY <1>1, <2>2, <2>3, LessSent
  <2>6. u = Server => (server'.state = "LISTENING" <=> y.on)
    BY <2>3, <2>4 DEF Kept, NamesFresh, InSession
  <2>7. server'.state = server.state
    BY <2>3
  <2> QED  BY <2>3, <2>4, <2>5, <2>6, <2>7, FewerHost DEF Kept
<1>6. \/ \E c \in Clients : Connect(c) \/ Disconnect(c)
      \/ Stop
      \/ AddNode(u) \/ \E n \in DOMAIN host[u].nodes, v \in Values \cup {0},
                          t \in {"delete", "param", "activate", "deactivate"} : ChangeNode(u, n, t, v)
  BY DEF Command
<1> QED  BY <1>2, <1>3, <1>4, <1>5, <1>6, NamesNew

\* The clocks, and what the network may do, without a repetition.
LEMMA NamesUpdate ==
  ASSUME TypesInv, NamesFresh,
         Update \/ \E l \in Links : Lose(l) \/ Swap(l)
  PROVE  NamesStep
<1>1. /\ RightLinks(link) /\ DOMAIN host = Hosts /\ DOMAIN client = Clients
      /\ \A h \in Hosts : WellTyped(host[h]) /\ NamesOk(host[h]) /\ Fewer(host[h], host[h])
      /\ DOMAIN server = {"state", "slots", "nextId"}
      /\ \A c \in Clients : client[c] \in ClientType
  BY NamesState
<1>2. CASE UpdateServer
  <2>1. PICK e, a : /\ link' = Sent(Sent(link, Server, e, Msg("DROP")), Server, a, Msg("ALIVE"))
                    /\ host' = [host EXCEPT ![Server].targets = @ \ e]
    BY <1>2 DEF UpdateServer
  <2>2. RightLinks(Sent(link, Server, e, Msg("DROP")))
    BY <1>1, Signals, SentOther
  <2>3. LessLinks(link, link')
    <3>1. LessLinks(link, Sent(link, Server, e, Msg("DROP")))
      BY <1>1, LessSent DEF Msg
    <3>2. LessLinks(Sent(link, Server, e, Msg("DROP")), link')
      BY <2>1, <2>2, LessSent DEF Msg
    <3> QED  BY <3>1, <3>2, LessAfter
  <2> DEFINE y == [host[Server] EXCEPT !.targets = @ \ e]
  <2>4. host' = [host EXCEPT ![Server] = y] /\ UNCHANGED client
    BY <1>1, <1>2, <2>1, ServerHost DEF UpdateServer
  <2>5. host[Server].on
    BY <1>2 DEF UpdateServer, NamesFresh, InSession
  <2>6. Fewer(host[Server], y) /\ y.id = host[Server].id /\ y.on = host[Server].on
    BY <1>1, <2>5, ServerHost, NamesCleared DEF WellTyped, Fields
  <2> HIDE DEF y
  <2>7. CalmStep
    BY <1>2, CalmUpdate DEF Update
  <2>8. /\ server'.nextId = server.nextId
        /\ server'.state = "LISTENING" <=> y.on
    BY <1>1, <1>2, <2>5, <2>6 DEF UpdateServer
  <2> QED  BY <2>3, <2>4, <2>5, <2>6, <2>7, <2>8, ServerHost, FewerHost DEF CalmStep
<1>3. ASSUME NEW c \in Clients, UpdateClient(c) PROVE NamesStep
  <2>1. link' = link \/ link' = Sent(link, c, host[c].targets, Msg("ALIVE"))
    BY <1>3 DEF UpdateClient
  <2>2. LessLinks(link, link') /\ UNCHANGED server
    BY <1>1, <1>3, <2>1, LessSent, LessSame DEF Msg, UpdateClient
  <2>3. CASE Close(c)
    <3>1. /\ host' = [host EXCEPT ![c] = Cleared(host[c])]
          /\ \A d \in Clients : d # c => client'[d] = client[d]
      BY <1>1, <2>3 DEF Close
    <3>2. c \in Hosts /\ c # Server /\ Fewer(host[c], Cleared(host[c])) /\ ~ Cleared(host[c]).on
      BY <1>1, NamesCleared, ServerHost, HostsAssumption
    <3>3. Cleared(host[c]).id = host[c].id
      BY <1>1, <3>2 DEF Cleared, WellTyped, Fields
    <3> QED  BY <2>2, <3>1, <3>2, <3>3, FewerHost
  <2>4. CASE ~ Close(c)
    <3>1. PICK r, s : /\ host' = host
                      /\ client' = [client EXCEPT ![c] =
                           [client[c] EXCEPT !.countNext = FALSE, !.recv = r, !.sent = s]]
      BY <1>3, <2>4 DEF UpdateClient
    <3>2. \A d \in Clients : client'[d].state = client[d].state
      <4>1. [client[c] EXCEPT !.countNext = FALSE, !.recv = r, !.sent = s].state = client[c].state
        BY <1>1 DEF ClientType
      <4> QED  BY <1>1, <3>1, <4>1
    <3> QED  BY <2>2, <3>1, <3>2, FewerNone
  <2> QED  BY <2>3, <2>4
<1>4. ASSUME NEW l \in Links, Lose(l) \/ Swap(l) PROVE NamesStep
  <2>1. link[l] \in Seq(On(l)) /\ Len(link[l]) \in Nat
    BY <1>1 DEF RightLinks
  <2>2. PICK t : link' = [link EXCEPT ![l] = t] /\ Less(link[l], t)
    <3>1. CASE Lose(l)
      BY <2>1, <3>1, LessTaken DEF Lose, Fault
    <3>2. CASE Swap(l)
      <4>1. Len(link[l]) > 1 /\ link[l] # <<>>
        BY <2>1, <3>2 DEF Swap
      <4> QED  BY <2>1, <3>2, <4>1, LessTaken DEF Swap, Fault
    <3> QED  BY <1>4, <3>1, <3>2
  <2>3. LessLinks(link, link')
    BY <1>1, <2>2, LessReplaced
  <2>4. UNCHANGED <<host, client, server>>
    BY <1>4 DEF Lose, Swap, Fault
  <2> QED  BY <2>3, <2>4, FewerNone
<1> QED  BY <1>2, <1>3, <1>4 DEF Update

\* What comes to a client.
LEMMA NamesToClient ==
  ASSUME TypesInv, NamesFresh, NEW c \in Clients, DeliverToClient(c)
  PROVE  NamesStep
<1> DEFINE l == <<Server, c>>
           m == Head(link[l])
           rest == [link EXCEPT ![l] = Tail(@)]
<1>1. /\ RightLinks(link) /\ DOMAIN host = Hosts /\ DOMAIN client = Clients
      /\ \A h \in Hosts : WellTyped(host[h]) /\ NamesOk(host[h]) /\ Fewer(host[h], host[h])
      /\ \A d \in Clients : client[d] \in ClientType
      /\ c \in Hosts /\ c # Server
  BY NamesState, ServerHost, HostsAssumption
<1>2. l \in Links /\ link[l] # <<>> /\ UNCHANGED server
  BY DEF DeliverToClient, Links
<1>3. RightLinks(rest) /\ m \in On(l) /\ LessLinks(link, rest)
  <2>1. Less(link[l], Tail(link[l]))
    BY <1>1, <1>2, LessTaken DEF RightLinks
  <2> QED  BY <1>1, <1>2, <2>1, TailRight, LessReplaced
<1>4. \/ link' = rest /\ UNCHANGED <<client, host>>
      \/ (ClientDrop(c) \/ ClientAlive(c)) /\ link' = rest /\ UNCHANGED host
      \/ m.type = "ACCEPT" /\ ClientAccept(c, m, rest)
      \/ IsOp(m) /\ Receive(Server, c, m, rest) /\ UNCHANGED client
  BY DEF DeliverToClient
<1>5. CASE link' = rest /\ UNCHANGED <<client, host>>
  BY <1>2, <1>3, <1>5, FewerNone
<1>6. CASE (ClientDrop(c) \/ ClientAlive(c)) /\ link' = rest /\ UNCHANGED host
  <2>1. /\ [client[c] EXCEPT !.recv = 0].state = client[c].state
        /\ [client[c] EXCEPT !.state = "CLOSING"].state = "CLOSING"
    BY <1>1 DEF ClientType
  <2>2. \A d \in Clients : client'[d].state \in {"CONNECTED", "CLOSING"}
                           \/ client'[d].state = client[d].state
    BY <1>1, <1>6, <2>1 DEF ClientDrop, ClientAlive
  <2> QED  BY <1>2, <1>3, <1>6, <2>2, FewerNone
<1>7. CASE m.type = "ACCEPT" /\ ClientAccept(c, m, rest) /\ client[c].state = "PENDING"
  <2> DEFINE y == Accepted(host[c], m.id)
  <2>1. /\ client' = [client EXCEPT ![c].state = "CONNECTED"]
        /\ host' = [host EXCEPT ![c] = y]
        /\ link' = Sent(rest, c, {Server}, Msg("GET_STATE"))
    BY <1>7 DEF ClientAccept
  <2>2. LessLinks(link, link')
    <3>1. LessLinks(rest, link')
      BY <1>3, <2>1, LessSent DEF Msg
    <3> QED  BY <1>3, <3>1, LessAfter
  <2>3. ~ host[c].on
    BY <1>7 DEF NamesFresh, InSession
  <2>4. Fewer(host[c], y) /\ y.on /\ y.id = m.id
    <3>1. Fewer(host[c], y) /\ y.on
      BY <1>1, <2>3, NamesCleared
    <3>2. DOMAIN host[c] = Fields
      BY <1>1 DEF WellTyped
    <3>3. y.id = m.id
      BY <3>2 DEF Accepted, Emptied, Fields
    <3> QED  BY <3>1, <3>3
  <2> HIDE DEF y
  <2>5. Has(c, m.id)
    <3>1. Offers(link[l], m.id)
      BY <1>1, <1>2, <1>7, LessTaken DEF RightLinks
    <3> QED  BY <3>1 DEF Has, In
  <2>6. \A h \in Hosts : host'[h] = IF h = c THEN y ELSE host[h]
    BY <1>1, <2>1
  <2>7. \A d \in Clients : host'[d].on => Has(d, host'[d].id)
    BY <2>4, <2>5, <2>6, ServerHost DEF Has
  <2>8. client'[c].state = "CONNECTED" /\ \A d \in Clients : d # c => client'[d] = client[d]
    BY <1>1, <2>1 DEF ClientType
  <2>9. InSession'
    BY <1>1, <1>2, <2>6, <2>8, ServerHost DEF InSession, NamesFresh
  <2>10. \A h \in Hosts : Fewer(host[h], host'[h])
    BY <1>1, <2>4, <2>6
  <2> QED  BY <1>2, <2>2, <2>7, <2>9, <2>10, FewerKeeps DEF FewerStep
<1>8. CASE m.type = "ACCEPT" /\ ClientAccept(c, m, rest) /\ client[c].state # "PENDING"
  BY <1>5, <1>8 DEF ClientAccept
<1>9. CASE IsOp(m) /\ Receive(Server, c, m, rest) /\ UNCHANGED client
  <2>1. m \in Ops
    BY <1>3, <1>9, Operations DEF On
  <2>2. \/ link' = rest /\ UNCHANGED host
        \/ /\ Server \in host[c].targets /\ (m.type = "add" \/ Known(host[c], m.net)) /\ link' = rest
           /\ \E y \in (IF m.type = "add" THEN {AddCallback(host[c], m)}
                        ELSE OtherCallbacks(host[c], m)) : host' = [host EXCEPT ![c] = y]
    BY <1>1, <1>9 DEF Receive
  <2>3. CASE link' = rest /\ UNCHANGED host
    BY <1>5, <1>9, <2>3
  <2>4. CASE m.type = "add" /\ Server \in host[c].targets /\ link' = rest
             /\ host' = [host EXCEPT ![c] = AddCallback(host[c], m)]
    <3>1. Told(Server, c, m)
      BY <1>1, <1>2, <1>9, <2>4 DEF Told
    <3> QED  BY <1>2, <2>4, <3>1, NamesTold
  <2>5. ASSUME m.type # "add", Known(host[c], m.net), link' = rest,
               NEW y \in OtherCallbacks(host[c], m), host' = [host EXCEPT ![c] = y]
        PROVE  NamesStep
    <3>1. Fewer(host[c], y)
      BY <1>1, <2>1, <2>5, NamesCallback
    <3>2. Kept(host[c], y)
      BY <1>1, <2>1, <2>5, CallbacksKeep
    <3> QED  BY <1>1, <1>2, <1>3, <1>9, <2>5, <3>1, <3>2, FewerHost DEF Kept
  <2> QED  BY <2>2, <2>3, <2>4, <2>5
<1> QED  BY <1>4, <1>5, <1>6, <1>7, <1>8, <1>9

\* What comes to the server.
LEMMA NamesToServer ==
  ASSUME TypesInv, NamesFresh, NEW c \in Clients, DeliverToServer(c)
  PROVE  NamesStep
<1> DEFINE l == <<c, Server>>
           m == Head(link[l])
           rest == [link EXCEPT ![l] = Tail(@)]
<1>1. /\ RightLinks(link) /\ DOMAIN host = Hosts
      /\ \A h \in Hosts : WellTyped(host[h]) /\ NamesOk(host[h]) /\ Fewer(host[h], host[h])
      /\ DOMAIN server = {"state", "slots", "nextId"}
      /\ Server \in Hosts /\ server.state \in {"IDLE", "LISTENING"}
      /\ DOMAIN server.slots = host[Server].targets
      /\ \A d \in DOMAIN server.slots : server.slots[d] \in SlotType
  BY NamesState, ServerHost DEF TypesInv, SlotsTyped, SlotsInv, SlotIds
<1>2. l \in Links /\ link[l] # <<>> /\ UNCHANGED client
  BY DEF DeliverToServer, Links
<1>3. RightLinks(rest) /\ m \in On(l) /\ LessLinks(link, rest)
  <2>1. Less(link[l], Tail(link[l]))
    BY <1>1, <1>2, LessTaken DEF RightLinks
  <2> QED  BY <1>1, <1>2, <2>1, TailRight, LessReplaced
<1>4. \/ link' = rest /\ UNCHANGED <<server, host>>
      \/ server.state = "LISTENING" /\ ServerConnect(c, rest)
      \/ ServerDisconnect(c) /\ link' = rest /\ server.state = "LISTENING"
      \/ ServerAlive(c) /\ link' = rest /\ UNCHANGED host
      \/ IsOp(m) /\ Receive(c, Server, m, rest) /\ UNCHANGED server
  BY <1>1 DEF DeliverToServer
<1>5. CASE link' = rest /\ UNCHANGED <<server, host>>
  BY <1>2, <1>3, <1>5, FewerNone
<1>6. CASE server.state = "LISTENING" /\ ServerConnect(c, rest)
  BY <1>2, <1>3, <1>6, NamesConnect
<1>7. CASE ServerDisconnect(c) /\ link' = rest /\ server.state = "LISTENING"
  <2> DEFINE y == [host[Server] EXCEPT !.targets = @ \ {c}]
  <2>1. /\ server'.slots = Without(server.slots, c) /\ server'.nextId = server.nextId
        /\ server'.state = server.state
        /\ host' = [host EXCEPT ![Server] = y]
    BY <1>1, <1>7 DEF ServerDisconnect
  <2>2. host[Server].on
    BY <1>7 DEF NamesFresh, InSession
  <2>3. Fewer(host[Server], y) /\ y.id = host[Server].id /\ y.on = host[Server].on
    BY <1>1, <2>2, NamesCleared DEF WellTyped, Fields
  <2> HIDE DEF y
  <2>4. \A d \in DOMAIN server'.slots :
           d \in DOMAIN server.slots /\ server'.slots[d].id = server.slots[d].id
    BY <2>1 DEF Without
  <2> QED  BY <1>1, <1>2, <1>3, <1>7, <2>1, <2>2, <2>3, <2>4, FewerHost
<1>8. CASE ServerAlive(c) /\ link' = rest /\ UNCHANGED host
  <2>1. /\ server'.nextId = server.nextId /\ server'.state = server.state
        /\ \A d \in DOMAIN server'.slots :
              d \in DOMAIN server.slots /\ server'.slots[d].id = server.slots[d].id
    <3>1. CASE c \in DOMAIN server.slots
      <4>1. /\ server'.slots = [server.slots EXCEPT ![c] = [server.slots[c] EXCEPT !.recv = 0]]
            /\ server'.nextId = server.nextId /\ server'.state = server.state
        BY <1>1, <1>8, <3>1 DEF ServerAlive
      <4>2. [server.slots[c] EXCEPT !.recv = 0].id = server.slots[c].id
        BY <1>1, <3>1 DEF SlotType
      <4> QED  BY <4>1, <4>2
    <3>2. CASE c \notin DOMAIN server.slots
      BY <1>8, <3>2 DEF ServerAlive
    <3> QED  BY <3>1, <3>2
  <2> QED  BY <1>2, <1>3, <1>8, <2>1, FewerNone
<1>9. CASE IsOp(m) /\ Receive(c, Server, m, rest) /\ UNCHANGED server
  <2>1. m \in Ops
    BY <1>3, <1>9, Operations DEF On
  <2>2. \/ link' = rest /\ UNCHANGED host
        \/ /\ c \in host[Server].targets /\ (m.type = "add" \/ Known(host[Server], m.net))
           /\ link' = Sent(rest, Server, Others(host[Server], c), m)
           /\ \E y \in (IF m.type = "add" THEN {AddCallback(host[Server], m)}
                        ELSE OtherCallbacks(host[Server], m)) : host' = [host EXCEPT ![Server] = y]
    BY <1>1, <1>9 DEF Receive
  <2>3. CASE link' = rest /\ UNCHANGED host
    BY <1>5, <1>9, <2>3
  <2>4. CASE m.type = "add" /\ c \in host[Server].targets
             /\ link' = Sent(rest, Server, Others(host[Server], c), m)
             /\ host' = [host EXCEPT ![Server] = AddCallback(host[Server], m)]
    <3>1. Told(c, Server, m)
      BY <1>1, <1>2, <1>9, <2>4 DEF Told
    <3> QED  BY <1>2, <2>4, <3>1, NamesTold
  <2>5. ASSUME m.type # "add", Known(host[Server], m.net),
               link' = Sent(rest, Server, Others(host[Server], c), m),
               NEW y \in OtherCallbacks(host[Server], m), host' = [host EXCEPT ![Server] = y]
        PROVE  NamesStep
    <3>1. Fewer(host[Server], y)
      BY <1>1, <2>1, <2>5, NamesCallback
    <3>2. Kept(host[Server], y)
      BY <1>1, <2>1, <2>5, CallbacksKeep
    <3>3. LessLinks(link, link')
      <4>1. LessLinks(rest, link')
        BY <1>3, <1>9, <2>5, LessSent DEF IsOp
      <4> QED  BY <1>3, <4>1, LessAfter
    <3>4. server.state = "LISTENING" <=> host[Server].on
      BY DEF NamesFresh, InSession
    <3> QED  BY <1>1, <1>2, <1>9, <2>5, <3>1, <3>2, <3>3, <3>4, FewerHost DEF Kept
  <2> QED  BY <2>2, <2>3, <2>4, <2>5
<1> QED  BY <1>4, <1>5, <1>6, <1>7, <1>8, <1>9

\* The invariant is inductive.
LEMMA NamesInit == Init => NamesInv
<1> SUFFICES ASSUME Init PROVE NamesFresh
  BY DEF NamesInv
<1>1. /\ \A h \in Hosts : host[h] = [NewHost EXCEPT !.on = (h = Server)]
      /\ \A l \in Links : link[l] = <<>>
      /\ \A c \in Clients : client[c].state = "IDLE"
      /\ server.state = "LISTENING" /\ server.slots = <<>> /\ server.nextId = 1
  BY DEF Init, NewClient
<1>2. \A h \in Hosts : /\ NamesOk(host[h]) /\ host[h].id = 0 /\ DOMAIN host[h].localId = {}
                       /\ host[h].on <=> h = Server
  <2>1. ASSUME NEW b \in BOOLEAN
        PROVE  LET x == [NewHost EXCEPT !.on = b]
               IN  NamesOk(x) /\ x.id = 0 /\ DOMAIN x.localId = {} /\ x.on = b
    <3> DEFINE x == [NewHost EXCEPT !.on = b]
    <3>1. /\ x.nodes = <<>> /\ x.netId = <<>> /\ x.localId = <<>> /\ x.targets = {}
          /\ x.id = 0 /\ x.on = b /\ 0 < x.lastId
      BY DEF NewHost, MinUserId
    <3> HIDE DEF x
    <3>2. DOMAIN x.nodes = {} /\ DOMAIN x.netId = {} /\ DOMAIN x.localId = {}
      BY <3>1
    <3>3. NamesOk(x)
      BY <3>1, <3>2 DEF NamesOk
    <3> QED  BY <3>1, <3>2, <3>3 DEF x
  <2> QED  BY <1>1, <2>1
<1>3. /\ \A l \in Links : AddsOnce(link[l]) /\ \A n : ~ Carries(link[l], n)
      /\ \A l \in Links : \A id : ~ Offers(link[l], id)
  BY <1>1 DEF AddsOnce, Carries, Offers
<1>4. \A c \in Clients : <<Server, c>> \in Links /\ <<c, Server>> \in Links /\ c \in Hosts /\ c # Server
  BY ServerHost, HostsAssumption DEF Links
<1>5. InSession
  <2>1. server.nextId \in Nat /\ server.nextId >= 1
    BY <1>1
  <2> QED  BY <1>1, <1>2, <1>4, <2>1, ServerHost DEF InSession
<1>6. IdsApart
  <2>1. DOMAIN server.slots = {}
    BY <1>1
  <2>2. \A c \in Clients : \A id : ~ Has(c, id)
    BY <1>2, <1>3, <1>4, <2>1 DEF Has, In
  <2> QED  BY <2>2 DEF IdsApart
<1>7. \A n : ~ Used(n)
  BY <1>2, <1>3 DEF Used
<1>8. AddsNew
  BY <1>3, <1>4 DEF AddsNew, Out
<1> QED  BY <1>2, <1>5, <1>6, <1>7, <1>8 DEF NamesFresh

\* The server listens again when every session is over.
LEMMA NamesListen ==
  ASSUME TypesInv, NamesFresh, Listen, Over
  PROVE  NamesFresh'
<1> DEFINE y == [host[Server] EXCEPT !.id = 0, !.on = TRUE]
<1>1. /\ DOMAIN host = Hosts /\ DOMAIN client = Clients
      /\ \A h \in Hosts : WellTyped(host[h]) /\ NamesOk(host[h])
      /\ DOMAIN server = {"state", "slots", "nextId"} /\ DOMAIN server.slots = {}
  BY NamesState DEF TypesInv, SlotsInv, SlotIds, Listen
<1>2. /\ host' = [host EXCEPT ![Server] = y]
      /\ server'.state = "LISTENING" /\ server'.nextId = 1 /\ server'.slots = server.slots
      /\ UNCHANGED <<client, link>>
  BY <1>1, ServerHost DEF Listen, WellTyped, Fields, net
<1>3. /\ y.id = 0 /\ y.on /\ y.targets = host[Server].targets /\ y.nodes = host[Server].nodes
      /\ y.netId = host[Server].netId /\ y.localId = host[Server].localId
      /\ y.lastId = host[Server].lastId
  BY <1>1, ServerHost DEF WellTyped, Fields
<1> HIDE DEF y
<1>4. ~ host[Server].on /\ \A c \in Clients : ~ host[c].on
  BY DEF Listen, Over, NamesFresh, InSession
<1>5. \A h \in Hosts : DOMAIN host[h].localId = {} /\ DOMAIN host[h].netId = {}
  BY <1>1, <1>4 DEF NamesOk, Hosts
<1>6. \A c \in Clients : host'[c] = host[c] /\ c \in Hosts
  BY <1>1, <1>2, ServerHost, HostsAssumption
<1>7. host'[Server] = y
  BY <1>1, <1>2, ServerHost
<1>8. \A h \in Hosts : NamesOk(host'[h]) /\ DOMAIN host'[h].localId = {}
  <2>1. NamesOk(y) /\ DOMAIN y.localId = {}
    BY <1>1, <1>3, <1>5, ServerHost DEF NamesOk
  <2> QED  BY <1>1, <1>5, <1>6, <1>7, <2>1 DEF Hosts
<1>9. \A l \in Links : link'[l] = <<>>
  BY <1>2 DEF Over
<1>10. /\ \A l \in Links : AddsOnce(link'[l]) /\ \A n : ~ Carries(link'[l], n)
       /\ \A l \in Links : \A id : ~ Offers(link'[l], id)
  BY <1>9 DEF AddsOnce, Carries, Offers
<1>11. \A c \in Clients : <<Server, c>> \in Links /\ <<c, Server>> \in Links
  BY DEF Links
<1>12. InSession'
  <2>1. server'.nextId \in Nat /\ server'.nextId >= 1
    BY <1>2
  <2> QED  BY <1>2, <1>3, <1>4, <1>6, <1>7, <2>1 DEF InSession
<1>13. IdsApart'
  <2>1. \A c \in Clients : \A id : ~ Has(c, id)'
    BY <1>1, <1>2, <1>4, <1>6, <1>10, <1>11 DEF Has, In
  <2> QED  BY <2>1 DEF IdsApart
<1>14. \A n : ~ Used(n)'
  BY <1>8, <1>10 DEF Used
<1>15. AddsNew'
  BY <1>10, <1>11 DEF AddsNew, Out
<1> QED  BY <1>8, <1>12, <1>13, <1>14, <1>15 DEF NamesFresh

LEMMA NamesNext == TypesInv /\ NamesInv /\ [Next]_vars => NamesInv'
<1> SUFFICES ASSUME TypesInv, NamesInv, [Next]_vars, Undisturbed' PROVE NamesFresh'
  BY DEF NamesInv
<1>1. CASE \E u \in Hosts : Command(u)
  <2>1. CASE Listen
    <3>1. Undisturbed /\ Over
      BY <2>1 DEF Listen, net, Undisturbed
    <3> QED  BY <2>1, <3>1, NamesListen DEF NamesInv
  <2>2. CASE ~ Listen
    <3>1. Undisturbed
      BY <1>1, <2>2 DEF Command, Connect, Disconnect, Stop, AddNode, ChangeNode, restarts, Undisturbed
    <3> QED  BY <1>1, <2>2, <3>1, NamesCommand DEF NamesInv, NamesStep
  <2> QED  BY <2>1, <2>2
<1>2. CASE \E u \in Hosts : Failure(u)
  <2>1. PICK l \in Links : Lose(l) \/ Swap(l)
    BY <1>2 DEF Failure, Crash, CrashServer, Duplicate, Fault, Undisturbed
  <2>2. Undisturbed
    BY <2>1 DEF Lose, Swap, Fault, restarts, Undisturbed
  <2> QED  BY <2>1, <2>2, NamesUpdate DEF NamesInv, NamesStep
<1>3. CASE Update
  <2>1. UNCHANGED <<faults, reborn, again>>
    <3>1. CASE UpdateServer
      BY <3>1 DEF UpdateServer, restarts
    <3>2. ASSUME NEW c \in Clients, UpdateClient(c) PROVE UNCHANGED <<faults, reborn, again>>
      BY <3>2 DEF UpdateClient, restarts
    <3> QED  BY <1>3, <3>1, <3>2 DEF Update
  <2>2. Undisturbed
    BY <2>1 DEF Undisturbed
  <2> QED  BY <1>3, <2>2, NamesUpdate DEF NamesInv, NamesStep
<1>4. CASE Deliver
  <2>1. Undisturbed
    BY <1>4 DEF Deliver, DeliverToClient, DeliverToServer, restarts, Undisturbed
  <2> QED  BY <1>4, <2>1, NamesToClient, NamesToServer DEF NamesInv, NamesStep, Deliver
<1>5. CASE UNCHANGED vars
  <2>1. Undisturbed /\ UNCHANGED <<host, client, server, link>>
    BY <1>5 DEF vars, net, restarts, Undisturbed
  <2>2. LessLinks(link, link')
    BY <2>1, LessSame
  <2> QED  BY <2>1, <2>2, FewerNone DEF NamesInv, NamesStep
<1> QED  BY <1>1, <1>2, <1>3, <1>4, <1>5 DEF Next

\* On every host a name of the session is the name of one node, for any number of
\* clients and whatever is lost or comes in another order, as long as no host dies,
\* every session is over before the next begins and nothing comes twice.
THEOREM NamesStaySound == Spec => []NamesAreSound
<1>1. NamesInv => NamesAreSound
  <2> SUFFICES ASSUME NamesFresh PROVE NetIdsNameOneNode
    BY DEF NamesInv, Undisturbed, NamesAreSound
  <2> QED  BY DEF NamesFresh, NamesOk, NetIdsNameOneNode
<1>2. Spec => []NamesInv
  BY NamesInit, NamesNext, TypesAlways, PTL DEF Spec
<1> QED  BY <1>1, <1>2, PTL
-----------------------------------------------------------------------------
(* Agreement.  What a host knows, by the names of the session, and what is   *)
(* under way to another host that knows something else.  Of the messages to  *)
(* a client those count that it will hear once it is accepted.               *)

Kinds == {"value", "active"}

\* The message m gives the node n a value, or an activity, and which.
Sets(m, n, k) ==
    /\ IsOp(m) /\ m.net = n
    /\ m.type \in (IF k = "value" THEN {"param"} ELSE {"activate", "deactivate"})
Put(m, k) == IF k = "value" THEN m.value ELSE m.type = "activate"

\* s has an operation on the node n; its end.
About(s, n) == \E i \in DOMAIN s : IsOp(s[i]) /\ s[i].net = n
Deletes(s, n) == \E i \in DOMAIN s : s[i].type = "delete" /\ s[i].net = n

\* After the messages of s, which come in the order of their places, a node that
\* looked like v looks like w.
Latest(s, n, k, i) ==
    i \in DOMAIN s /\ Sets(s[i], n, k) /\ \A j \in DOMAIN s : Sets(s[j], n, k) => j <= i
Leads(s, n, v, w) ==
    \A k \in Kinds :
        /\ \A i : Latest(s, n, k, i) => w[k] = Put(s[i], k)
        /\ (\A i \in DOMAIN s : ~ Sets(s[i], n, k)) => w[k] = v[k]

\* t is s with m behind it; t is s without m, the first; t is s.
Added(s, t, m) ==
    \E e \in Nat : /\ DOMAIN t = DOMAIN s \cup {e} /\ t[e] = m
                   /\ \A i \in DOMAIN s : i \in Nat /\ i < e /\ t[i] = s[i]
Removed(s, t, m) ==
    \E e \in DOMAIN s : /\ s[e] = m /\ e \in Nat
                        /\ DOMAIN t = {i - 1 : i \in DOMAIN s \ {e}}
                        /\ \A i \in DOMAIN s \ {e} : i \in Nat /\ i > e /\ t[i - 1] = s[i]
Moved(s, t) ==
    /\ DOMAIN t = {i - 1 : i \in DOMAIN s}
    /\ \A i \in DOMAIN s : i \in Nat /\ t[i - 1] = s[i]

\* An ADD is the first message about its node.
AddsFirst(s) ==
    \A i, j \in DOMAIN s : i < j /\ IsOp(s[i]) /\ s[j].type = "add" => s[i].net # s[j].net

\* What one message more does.
LEMMA AddedFacts ==
  ASSUME NEW s, NEW t, NEW m, Added(s, t, m), NEW n
  PROVE  /\ About(t, n) <=> About(s, n) \/ (IsOp(m) /\ m.net = n)
         /\ Carries(t, n) <=> Carries(s, n) \/ (m.type = "add" /\ m.net = n)
         /\ Deletes(t, n) <=> Deletes(s, n) \/ (m.type = "delete" /\ m.net = n)
         /\ \A v, w, x : /\ Leads(s, n, v, w)
                         /\ \A k \in Kinds : x[k] = IF Sets(m, n, k) THEN Put(m, k) ELSE w[k]
                         => Leads(t, n, v, x)
         /\ AddsFirst(s) /\ (m.type = "add" => ~ About(s, m.net)) => AddsFirst(t)
<1>1. PICK e \in Nat : /\ DOMAIN t = DOMAIN s \cup {e} /\ t[e] = m
                       /\ \A i \in DOMAIN s : i \in Nat /\ i < e /\ t[i] = s[i]
  BY DEF Added
<1>2. e \notin DOMAIN s
  BY <1>1
<1>3. ASSUME NEW v, NEW w, NEW x, Leads(s, n, v, w),
             \A k \in Kinds : x[k] = IF Sets(m, n, k) THEN Put(m, k) ELSE w[k], NEW k \in Kinds
      PROVE  /\ \A i : Latest(t, n, k, i) => x[k] = Put(t[i], k)
             /\ (\A i \in DOMAIN t : ~ Sets(t[i], n, k)) => x[k] = v[k]
  <2>1. CASE Sets(m, n, k)
    <3>1. \A i : Latest(t, n, k, i) => i = e
      BY <1>1, <2>1 DEF Latest
    <3> QED  BY <1>1, <1>3, <2>1, <3>1
  <2>2. CASE ~ Sets(m, n, k)
    <3>1. \A i : Latest(t, n, k, i) => Latest(s, n, k, i) /\ t[i] = s[i]
      BY <1>1, <1>2, <2>2 DEF Latest
    <3> QED  BY <1>1, <1>3, <2>2, <3>1 DEF Leads
  <2> QED  BY <2>1, <2>2
<1>4. ASSUME AddsFirst(s), m.type = "add" => ~ About(s, m.net) PROVE AddsFirst(t)
  BY <1>1, <1>2, <1>4 DEF AddsFirst, About
<1>5. /\ About(t, n) <=> About(s, n) \/ (IsOp(m) /\ m.net = n)
      /\ Carries(t, n) <=> Carries(s, n) \/ (m.type = "add" /\ m.net = n)
      /\ Deletes(t, n) <=> Deletes(s, n) \/ (m.type = "delete" /\ m.net = n)
  BY <1>1 DEF About, Carries, Deletes
<1> QED  BY <1>3, <1>4, <1>5 DEF Leads

\* What one message less does.
LEMMA RemovedFacts ==
  ASSUME NEW s, NEW t, NEW m, Removed(s, t, m), NEW n
  PROVE  /\ About(s, n) <=> About(t, n) \/ (IsOp(m) /\ m.net = n)
         /\ Carries(s, n) <=> Carries(t, n) \/ (m.type = "add" /\ m.net = n)
         /\ Deletes(s, n) <=> Deletes(t, n) \/ (m.type = "delete" /\ m.net = n)
         /\ \A v, w, x : /\ Leads(s, n, v, w)
                         /\ \A k \in Kinds : x[k] = IF Sets(m, n, k) THEN Put(m, k) ELSE v[k]
                         => Leads(t, n, x, w)
         /\ AddsFirst(s) => AddsFirst(t) /\ (IsOp(m) => ~ Carries(t, m.net))
<1>1. PICK e \in DOMAIN s : /\ s[e] = m /\ e \in Nat
                            /\ DOMAIN t = {i - 1 : i \in DOMAIN s \ {e}}
                            /\ \A i \in DOMAIN s \ {e} : i \in Nat /\ i > e /\ t[i - 1] = s[i]
  BY DEF Removed
<1>2. /\ \A j \in DOMAIN t : j + 1 \in DOMAIN s \ {e} /\ j \in Int /\ j + 1 > e /\ t[j] = s[j + 1]
      /\ \A i \in DOMAIN s \ {e} : i - 1 \in DOMAIN t /\ i \in Int /\ t[i - 1] = s[i]
  <2>1. ASSUME NEW j \in DOMAIN t
        PROVE  j + 1 \in DOMAIN s \ {e} /\ j \in Int /\ j + 1 > e /\ t[j] = s[j + 1]
    <3>1. PICK i \in DOMAIN s \ {e} : j = i - 1
      BY <1>1
    <3>2. i \in Nat /\ i > e /\ j + 1 = i /\ j \in Int /\ t[j] = s[i]
      BY <1>1, <3>1
    <3> QED  BY <3>2
  <2>2. ASSUME NEW i \in DOMAIN s \ {e} PROVE i - 1 \in DOMAIN t /\ i \in Int /\ t[i - 1] = s[i]
    BY <1>1
  <2> QED  BY <2>1, <2>2
<1>3. /\ About(s, n) <=> About(t, n) \/ (IsOp(m) /\ m.net = n)
      /\ Carries(s, n) <=> Carries(t, n) \/ (m.type = "add" /\ m.net = n)
      /\ Deletes(s, n) <=> Deletes(t, n) \/ (m.type = "delete" /\ m.net = n)
  <2>1. About(s, n) <=> About(t, n) \/ (IsOp(m) /\ m.net = n)
    BY <1>1, <1>2 DEF About
  <2>2. Carries(s, n) <=> Carries(t, n) \/ (m.type = "add" /\ m.net = n)
    BY <1>1, <1>2 DEF Carries
  <2>3. Deletes(s, n) <=> Deletes(t, n) \/ (m.type = "delete" /\ m.net = n)
    BY <1>1, <1>2 DEF Deletes
  <2> QED  BY <2>1, <2>2, <2>3
<1>4. ASSUME NEW v, NEW w, NEW x, Leads(s, n, v, w),
             \A k \in Kinds : x[k] = IF Sets(m, n, k) THEN Put(m, k) ELSE v[k], NEW k \in Kinds
      PROVE  /\ \A i : Latest(t, n, k, i) => w[k] = Put(t[i], k)
             /\ (\A i \in DOMAIN t : ~ Sets(t[i], n, k)) => w[k] = x[k]
  <2>1. ASSUME NEW i, Latest(t, n, k, i) PROVE w[k] = Put(t[i], k)
    <3>1. i \in DOMAIN t /\ Sets(t[i], n, k) /\ \A j \in DOMAIN t : Sets(t[j], n, k) => j <= i
      BY <2>1 DEF Latest
    <3>2. i + 1 \in DOMAIN s /\ t[i] = s[i + 1] /\ i \in Int /\ i + 1 > e
      BY <1>2, <3>1
    <3>3. ASSUME NEW j \in DOMAIN s, Sets(s[j], n, k) PROVE j <= i + 1
      <4>1. CASE j = e
        BY <1>1, <3>2, <4>1
      <4>2. CASE j # e
        <5>1. j - 1 \in DOMAIN t /\ t[j - 1] = s[j] /\ j \in Int
          BY <1>2, <4>2
        <5>2. j - 1 <= i
          BY <3>1, <3>3, <5>1
        <5> QED  BY <3>2, <5>1, <5>2
      <4> QED  BY <4>1, <4>2
    <3>4. Latest(s, n, k, i + 1)
      BY <3>1, <3>2, <3>3 DEF Latest
    <3> QED  BY <1>4, <3>2, <3>4 DEF Leads
  <2>2. ASSUME \A i \in DOMAIN t : ~ Sets(t[i], n, k) PROVE w[k] = x[k]
    <3>1. \A i \in DOMAIN s : Sets(s[i], n, k) => i = e
      BY <1>2, <2>2
    <3>2. CASE Sets(m, n, k)
      <4>1. Latest(s, n, k, e)
        BY <1>1, <3>1, <3>2 DEF Latest
      <4> QED  BY <1>1, <1>4, <3>2, <4>1 DEF Leads
    <3>3. CASE ~ Sets(m, n, k)
      <4>1. \A i \in DOMAIN s : ~ Sets(s[i], n, k)
        BY <1>1, <3>1, <3>3
      <4> QED  BY <1>4, <3>3, <4>1 DEF Leads
    <3> QED  BY <3>2, <3>3
  <2> QED  BY <2>1, <2>2
<1>5. ASSUME AddsFirst(s) PROVE AddsFirst(t) /\ (IsOp(m) => ~ Carries(t, m.net))
  <2>1. \A i, j \in DOMAIN t : i < j => i + 1 < j + 1
    BY <1>2
  <2>2. AddsFirst(t)
    BY <1>2, <1>5, <2>1 DEF AddsFirst
  <2>3. IsOp(m) => ~ Carries(t, m.net)
    BY <1>1, <1>2, <1>5 DEF AddsFirst, Carries
  <2> QED  BY <2>2, <2>3
<1> QED  BY <1>3, <1>4, <1>5 DEF Leads

\* The places alone change.
LEMMA MovedFacts ==
  ASSUME NEW s, NEW t, Moved(s, t), NEW n
  PROVE  /\ About(t, n) <=> About(s, n)
         /\ Carries(t, n) <=> Carries(s, n)
         /\ Deletes(t, n) <=> Deletes(s, n)
         /\ \A v, w : Leads(s, n, v, w) => Leads(t, n, v, w)
<1>1. /\ \A j \in DOMAIN t : j + 1 \in DOMAIN s /\ j \in Int /\ t[j] = s[j + 1]
      /\ \A i \in DOMAIN s : i - 1 \in DOMAIN t /\ i \in Int /\ t[i - 1] = s[i]
  <2>1. ASSUME NEW j \in DOMAIN t PROVE j + 1 \in DOMAIN s /\ j \in Int /\ t[j] = s[j + 1]
    <3>1. PICK i \in DOMAIN s : j = i - 1
      BY DEF Moved
    <3>2. i \in Nat /\ j + 1 = i /\ j \in Int /\ t[j] = s[i]
      BY <3>1 DEF Moved
    <3> QED  BY <3>2
  <2> QED  BY <2>1 DEF Moved
<1>2. ASSUME NEW v, NEW w, Leads(s, n, v, w), NEW k \in Kinds
      PROVE  /\ \A i : Latest(t, n, k, i) => w[k] = Put(t[i], k)
             /\ (\A i \in DOMAIN t : ~ Sets(t[i], n, k)) => w[k] = v[k]
  <2>1. ASSUME NEW i, Latest(t, n, k, i) PROVE w[k] = Put(t[i], k)
    <3>1. i \in DOMAIN t /\ Sets(t[i], n, k) /\ \A j \in DOMAIN t : Sets(t[j], n, k) => j <= i
      BY <2>1 DEF Latest
    <3>2. i + 1 \in DOMAIN s /\ t[i] = s[i + 1] /\ i \in Int
      BY <1>1, <3>1
    <3>3. ASSUME NEW j \in DOMAIN s, Sets(s[j], n, k) PROVE j <= i + 1
      <4>1. j - 1 \in DOMAIN t /\ t[j - 1] = s[j] /\ j \in Int
        BY <1>1
      <4>2. j - 1 <= i
        BY <3>1, <3>3, <4>1
      <4> QED  BY <3>2, <4>1, <4>2
    <3>4. Latest(s, n, k, i + 1)
      BY <3>1, <3>2, <3>3 DEF Latest
    <3> QED  BY <1>2, <3>2, <3>4 DEF Leads
  <2>2. ASSUME \A i \in DOMAIN t : ~ Sets(t[i], n, k) PROVE w[k] = v[k]
    <3>1. \A i \in DOMAIN s : ~ Sets(s[i], n, k)
      BY <1>1, <2>2
    <3> QED  BY <1>2, <3>1 DEF Leads
  <2> QED  BY <2>1, <2>2
<1>3. About(t, n) <=> About(s, n)
  BY <1>1 DEF About
<1>4. Carries(t, n) <=> Carries(s, n)
  BY <1>1 DEF Carries
<1>5. Deletes(t, n) <=> Deletes(s, n)
  BY <1>1 DEF Deletes
<1> QED  BY <1>2, <1>3, <1>4, <1>5 DEF Leads

\* The messages that are the last, and the first, of a link.
LEMMA LinkAdded ==
  ASSUME NEW S, NEW s \in Seq(S), NEW m
  PROVE  Added(s, Append(s, m), m)
<1>1. /\ Len(s) + 1 \in Nat /\ DOMAIN s = 1 .. Len(s) /\ DOMAIN Append(s, m) = 1 .. Len(s) + 1
      /\ \A i \in 1 .. Len(s) : Append(s, m)[i] = s[i]
      /\ Append(s, m)[Len(s) + 1] = m
  OBVIOUS
<1>2. DOMAIN Append(s, m) = DOMAIN s \cup {Len(s) + 1}
  BY <1>1
<1> QED  BY <1>1, <1>2 DEF Added

LEMMA LinkRemoved ==
  ASSUME NEW S, NEW s \in Seq(S), s # <<>>
  PROVE  Removed(s, Tail(s), Head(s))
<1>1. /\ Len(s) \in Nat /\ DOMAIN s = 1 .. Len(s) /\ Head(s) = s[1] /\ 1 \in DOMAIN s
      /\ DOMAIN Tail(s) = 1 .. Len(s) - 1
      /\ \A i \in 1 .. Len(s) - 1 : Tail(s)[i] = s[i + 1]
  OBVIOUS
<1>2. DOMAIN Tail(s) = {i - 1 : i \in DOMAIN s \ {1}}
  <2>1. \A j \in DOMAIN Tail(s) : j + 1 \in DOMAIN s \ {1} /\ j = (j + 1) - 1
    BY <1>1
  <2>2. \A i \in DOMAIN s \ {1} : i - 1 \in DOMAIN Tail(s)
    BY <1>1
  <2> QED  BY <2>1, <2>2
<1>3. \A i \in DOMAIN s \ {1} : i \in Nat /\ i > 1 /\ Tail(s)[i - 1] = s[i]
  <2>1. ASSUME NEW i \in DOMAIN s \ {1} PROVE i \in Nat /\ i > 1 /\ Tail(s)[i - 1] = s[i]
    <3>1. i - 1 \in 1 .. Len(s) - 1 /\ (i - 1) + 1 = i
      BY <1>1
    <3> QED  BY <1>1, <3>1
  <2> QED  BY <2>1
<1> QED  BY <1>1, <1>2, <1>3 DEF Removed

\* A client hears what comes after the last ACCEPT on the way to it.
Late(s, i) == \A j \in DOMAIN s : j >= i => s[j].type # "ACCEPT"
Heard(s) == [i \in {j \in DOMAIN s : Late(s, j)} |-> s[i]]

\* No ACCEPT is on the way.
LEMMA HeardAll ==
  ASSUME NEW S, NEW s \in Seq(S), ~ UnderWay(s, "ACCEPT")
  PROVE  Heard(s) = s
<1>1. {j \in DOMAIN s : Late(s, j)} = DOMAIN s
  BY DEF Late, UnderWay
<1>2. s = [i \in DOMAIN s |-> s[i]]
  OBVIOUS
<1> QED  BY <1>1, <1>2 DEF Heard

\* Another message is sent to the client.
LEMMA HeardAdded ==
  ASSUME NEW S, NEW s \in Seq(S), NEW m
  PROVE  /\ m.type # "ACCEPT" => Added(Heard(s), Heard(Append(s, m)), m)
         /\ m.type = "ACCEPT" => DOMAIN Heard(Append(s, m)) = {}
<1> DEFINE t == Append(s, m)
           e == Len(s) + 1
<1>1. /\ Len(s) \in Nat /\ DOMAIN s = 1 .. Len(s) /\ DOMAIN t = 1 .. Len(s) + 1
      /\ e \in Nat /\ e \in DOMAIN t /\ t[e] = m
      /\ \A i \in DOMAIN s : i \in DOMAIN t /\ t[i] = s[i] /\ i < e /\ i \in Nat
      /\ \A i \in DOMAIN t : i \in DOMAIN s \/ i = e
  OBVIOUS
<1> HIDE DEF t, e
<1>2. ASSUME m.type # "ACCEPT" PROVE Added(Heard(s), Heard(t), m)
  <2>1. \A i \in DOMAIN s : Late(t, i) <=> Late(s, i)
    BY <1>1, <1>2 DEF Late
  <2>2. Late(t, e)
    BY <1>1, <1>2 DEF Late
  <2>3. {j \in DOMAIN t : Late(t, j)} = {j \in DOMAIN s : Late(s, j)} \cup {e}
    BY <1>1, <2>1, <2>2
  <2>4. DOMAIN Heard(t) = DOMAIN Heard(s) \cup {e} /\ Heard(t)[e] = m
    BY <1>1, <2>2, <2>3 DEF Heard
  <2>5. \A i \in DOMAIN Heard(s) : i \in Nat /\ i < e /\ Heard(t)[i] = Heard(s)[i]
    BY <1>1, <2>3 DEF Heard
  <2> QED  BY <1>1, <2>4, <2>5 DEF Added
<1>3. ASSUME m.type = "ACCEPT" PROVE DOMAIN Heard(t) = {}
  <2>1. \A i \in DOMAIN t : ~ Late(t, i)
    BY <1>1, <1>3 DEF Late
  <2> QED  BY <2>1 DEF Heard
<1> QED  BY <1>2, <1>3 DEF t

\* The client takes a message that is not heard.
LEMMA HeardMoved ==
  ASSUME NEW S, NEW s \in Seq(S), s # <<>>, UnderWay(s, "ACCEPT"),
         UnderWay(Tail(s), "ACCEPT") \/ Head(s).type = "ACCEPT"
  PROVE  Moved(Heard(s), Heard(Tail(s)))
<1> DEFINE t == Tail(s)
<1>1. /\ Len(s) \in Nat /\ DOMAIN s = 1 .. Len(s) /\ Head(s) = s[1] /\ 1 \in DOMAIN s
      /\ DOMAIN t = 1 .. Len(s) - 1
      /\ \A i \in 1 .. Len(s) - 1 : t[i] = s[i + 1]
  OBVIOUS
<1>2. /\ \A j \in DOMAIN t : j \in Nat /\ j + 1 \in DOMAIN s /\ t[j] = s[j + 1]
      /\ \A i \in DOMAIN s : i \in Nat /\ (i # 1 => i - 1 \in DOMAIN t /\ t[i - 1] = s[i] /\ i > 1)
  <2>1. ASSUME NEW i \in DOMAIN s, i # 1 PROVE i - 1 \in DOMAIN t /\ t[i - 1] = s[i] /\ i > 1
    <3>1. i - 1 \in 1 .. Len(s) - 1 /\ (i - 1) + 1 = i /\ i > 1
      BY <1>1, <2>1
    <3> QED  BY <1>1, <3>1
  <2> QED  BY <1>1, <2>1
<1> HIDE DEF t
<1>3. ~ Late(s, 1)
  <2>1. PICK i \in DOMAIN s : s[i].type = "ACCEPT"
    BY DEF UnderWay
  <2> QED  BY <1>1, <2>1 DEF Late
<1>4. ASSUME NEW i \in DOMAIN s, i # 1 PROVE Late(s, i) <=> Late(t, i - 1)
  <2>1. ASSUME Late(s, i), NEW j \in DOMAIN t, j >= i - 1 PROVE t[j].type # "ACCEPT"
    BY <1>2, <2>1 DEF Late
  <2>2. ASSUME Late(t, i - 1), NEW j \in DOMAIN s, j >= i PROVE s[j].type # "ACCEPT"
    <3>1. j # 1 /\ j - 1 \in DOMAIN t /\ t[j - 1] = s[j] /\ j - 1 >= i - 1
      BY <1>2, <1>4, <2>2
    <3> QED  BY <2>2, <3>1 DEF Late
  <2> QED  BY <2>1, <2>2 DEF Late
<1>5. ASSUME NEW i \in DOMAIN Heard(s)
      PROVE  i - 1 \in DOMAIN Heard(t) /\ i \in Nat /\ Heard(t)[i - 1] = Heard(s)[i]
  BY <1>2, <1>3, <1>4 DEF Heard
<1>6. ASSUME NEW j \in DOMAIN Heard(t) PROVE j + 1 \in DOMAIN Heard(s) /\ j = (j + 1) - 1
  <2>1. j \in DOMAIN t /\ Late(t, j)
    BY DEF Heard
  <2>2. j \in Nat /\ j + 1 \in DOMAIN s /\ j + 1 # 1 /\ j = (j + 1) - 1
    BY <1>1, <1>2, <2>1
  <2>3. Late(s, j + 1)
    BY <1>4, <2>1, <2>2
  <2> QED  BY <2>2, <2>3 DEF Heard
<1>7. DOMAIN Heard(t) = {i - 1 : i \in DOMAIN Heard(s)}
  BY <1>5, <1>6
<1> QED  BY <1>5, <1>7 DEF Moved, t

\* The node as a host that does not know it yet will make it.
NodeIn(f, n) == IF n \in DOMAIN f THEN f[n] ELSE NewNode

\* f is what one host knows and g what another knows; a goes from the first to the
\* second and b back.  What the first knows the second knows, or knew in O, or will
\* be told, unless it told the end of it; and it looks as the messages will make it
\* look, unless the second has something to say.
Half(n, f, g, a, b, O, K) ==
    /\ n \in DOMAIN f => n \in DOMAIN g \cup O \/ Carries(a, n) \/ Deletes(b, n)
    /\ Carries(a, n) => n \in DOMAIN f \/ Deletes(a, n)
    /\ Deletes(a, n) => n \notin DOMAIN f
    /\ n \notin K /\ ~ About(b, n) /\ n \in DOMAIN f /\ (n \in DOMAIN g \/ Carries(a, n))
          => Leads(a, n, NodeIn(g, n), f[n])

\* What m makes of f, when it is an operation the host does.
Does(f, g, m) ==
    /\ \A n : ~ (IsOp(m) /\ m.net = n) =>
          (n \in DOMAIN g <=> n \in DOMAIN f) /\ (n \in DOMAIN f => g[n] = f[n])
    /\ m.type = "add" => m.net \in DOMAIN g /\ g[m.net] = NewNode
    /\ m.type = "delete" => m.net \notin DOMAIN g
    /\ IsOp(m) /\ m.type \notin {"add", "delete"} =>
          /\ m.net \in DOMAIN g <=> m.net \in DOMAIN f
          /\ m.net \in DOMAIN f => \A k \in Kinds :
                g[m.net][k] = IF Sets(m, m.net, k) THEN Put(m, k) ELSE f[m.net][k]

\* An ADD comes when the other end knows nothing of the node.
NewTo(m, g, a, b) ==
    m.type = "add" => m.net \notin DOMAIN g /\ ~ About(a, m.net) /\ ~ About(b, m.net)

\* A host does something, and says so.
LEMMA SendsHalf ==
  ASSUME NEW n, NEW f, NEW g, NEW a, NEW b, NEW O, NEW K, NEW m, NEW ff, NEW aa, NEW KK,
         Half(n, f, g, a, b, O, K), Does(f, ff, m), Added(a, aa, m), K \subseteq KK,
         NewTo(m, g, a, b)
  PROVE  Half(n, ff, g, aa, b, O, KK)
<1>1. /\ About(aa, n) <=> About(a, n) \/ (IsOp(m) /\ m.net = n)
      /\ Carries(aa, n) <=> Carries(a, n) \/ (m.type = "add" /\ m.net = n)
      /\ Deletes(aa, n) <=> Deletes(a, n) \/ (m.type = "delete" /\ m.net = n)
      /\ \A v, w, x : /\ Leads(a, n, v, w)
                      /\ \A k \in Kinds : x[k] = IF Sets(m, n, k) THEN Put(m, k) ELSE w[k]
                      => Leads(aa, n, v, x)
  BY AddedFacts
<1>2. Deletes(a, n) => About(a, n)
  BY DEF Deletes, About, IsOp
<1>3. CASE ~ (IsOp(m) /\ m.net = n)
  <2>1. (n \in DOMAIN ff <=> n \in DOMAIN f) /\ (n \in DOMAIN f => ff[n] = f[n])
    BY <1>3 DEF Does
  <2>2. \A k : ~ Sets(m, n, k)
    BY <1>3 DEF Sets
  <2>3. \A v, w : Leads(a, n, v, w) => Leads(aa, n, v, w)
    BY <1>1, <2>2
  <2>4. (Carries(aa, n) <=> Carries(a, n)) /\ (Deletes(aa, n) <=> Deletes(a, n))
    BY <1>1, <1>3 DEF IsOp
  <2> QED  BY <2>1, <2>3, <2>4 DEF Half
<1>4. CASE m.type = "add" /\ m.net = n
  <2>1. /\ n \notin DOMAIN g /\ ~ About(a, n) /\ ~ About(b, n)
        /\ n \in DOMAIN ff /\ ff[n] = NewNode /\ Carries(aa, n) /\ ~ Deletes(aa, n)
    BY <1>1, <1>2, <1>4 DEF NewTo, Does
  <2>2. \A k : ~ Sets(m, n, k)
    BY <1>4 DEF Sets
  <2>3. Leads(a, n, NewNode, NewNode)
    BY <2>1 DEF Leads, Latest, Sets, About
  <2>4. Leads(aa, n, NewNode, NewNode)
    BY <1>1, <2>2, <2>3
  <2> QED  BY <2>1, <2>4 DEF Half, NodeIn
<1>5. CASE m.type = "delete" /\ m.net = n
  <2>1. n \notin DOMAIN ff /\ Deletes(aa, n)
    BY <1>1, <1>5 DEF Does
  <2> QED  BY <2>1 DEF Half
<1>6. CASE IsOp(m) /\ m.type \notin {"add", "delete"} /\ m.net = n
  <2>1. /\ n \in DOMAIN ff <=> n \in DOMAIN f
        /\ n \in DOMAIN f => \A k \in Kinds : ff[n][k] = IF Sets(m, n, k) THEN Put(m, k) ELSE f[n][k]
    BY <1>6 DEF Does
  <2>2. (Carries(aa, n) <=> Carries(a, n)) /\ (Deletes(aa, n) <=> Deletes(a, n))
    BY <1>1, <1>6
  <2>3. n \in DOMAIN f => \A v : Leads(a, n, v, f[n]) => Leads(aa, n, v, ff[n])
    BY <1>1, <2>1
  <2> QED  BY <2>1, <2>2, <2>3 DEF Half
<1> QED  BY <1>3, <1>4, <1>5, <1>6

\* The other end, when a host does something and says so.
LEMMA SendsOther ==
  ASSUME NEW n, NEW f, NEW g, NEW a, NEW b, NEW O, NEW K, NEW m, NEW ff, NEW aa, NEW KK,
         Half(n, g, f, b, a, O, K), Does(f, ff, m), Added(a, aa, m), K \subseteq KK,
         NewTo(m, g, a, b)
  PROVE  Half(n, g, ff, b, aa, O, KK)
<1>1. /\ About(aa, n) <=> About(a, n) \/ (IsOp(m) /\ m.net = n)
      /\ Deletes(aa, n) <=> Deletes(a, n) \/ (m.type = "delete" /\ m.net = n)
  BY AddedFacts
<1>2. CASE ~ (IsOp(m) /\ m.net = n)
  <2>1. (n \in DOMAIN ff <=> n \in DOMAIN f) /\ (n \in DOMAIN f => ff[n] = f[n])
    BY <1>2 DEF Does
  <2> QED  BY <1>1, <1>2, <2>1 DEF Half, NodeIn
<1>3. CASE IsOp(m) /\ m.net = n
  <2>1. n \in DOMAIN g => m.type # "add"
    BY <1>3 DEF NewTo
  <2>2. n \in DOMAIN f => n \in DOMAIN ff \/ Deletes(aa, n)
    BY <1>1, <1>3 DEF Does
  <2>3. About(aa, n)
    BY <1>1, <1>3
  <2> QED  BY <1>1, <2>2, <2>3 DEF Half
<1> QED  BY <1>2, <1>3

\* What is about a node that is new to the other end: nothing the other way.
Apart(n, g, a, b) ==
    Carries(a, n) => n \notin DOMAIN g /\ ~ About(b, n)

\* What the other end said at the same time is marked.
Marked(m, b, KK) == IsOp(m) /\ m.type # "add" /\ About(b, m.net) => m.net \in KK

\* The other end takes a message and does what it says.
LEMMA TakesHalf ==
  ASSUME NEW n, NEW f, NEW g, NEW a, NEW b, NEW O, NEW K, NEW m, NEW gg, NEW aa, NEW KK,
         Half(n, f, g, a, b, O, K), Does(g, gg, m), Removed(a, aa, m), K \subseteq KK,
         Apart(n, g, a, b), AddsFirst(a)
  PROVE  Half(n, f, gg, aa, b, O, KK)
<1>1. /\ About(a, n) <=> About(aa, n) \/ (IsOp(m) /\ m.net = n)
      /\ Carries(a, n) <=> Carries(aa, n) \/ (m.type = "add" /\ m.net = n)
      /\ Deletes(a, n) <=> Deletes(aa, n) \/ (m.type = "delete" /\ m.net = n)
      /\ \A v, w, x : /\ Leads(a, n, v, w)
                      /\ \A k \in Kinds : x[k] = IF Sets(m, n, k) THEN Put(m, k) ELSE v[k]
                      => Leads(aa, n, x, w)
      /\ IsOp(m) => ~ Carries(aa, m.net)
  BY RemovedFacts
<1>2. CASE ~ (IsOp(m) /\ m.net = n)
  <2>1. (n \in DOMAIN gg <=> n \in DOMAIN g) /\ (n \in DOMAIN g => gg[n] = g[n])
    BY <1>2 DEF Does
  <2>2. NodeIn(gg, n) = NodeIn(g, n)
    BY <2>1 DEF NodeIn
  <2>3. \A k : ~ Sets(m, n, k)
    BY <1>2 DEF Sets
  <2>4. \A v, w : Leads(a, n, v, w) => Leads(aa, n, v, w)
    BY <1>1, <2>3
  <2>5. (Carries(aa, n) <=> Carries(a, n)) /\ (Deletes(aa, n) <=> Deletes(a, n))
    BY <1>1, <1>2 DEF IsOp
  <2> QED  BY <2>1, <2>2, <2>4, <2>5 DEF Half
<1>3. CASE m.type = "add" /\ m.net = n
  <2>1. /\ n \notin DOMAIN g /\ Carries(a, n) /\ ~ Carries(aa, n) /\ NodeIn(g, n) = NewNode
        /\ n \in DOMAIN gg /\ gg[n] = NewNode /\ NodeIn(gg, n) = NewNode
        /\ Deletes(aa, n) <=> Deletes(a, n)
    BY <1>1, <1>3 DEF Does, Apart, NodeIn, IsOp
  <2>2. \A k : ~ Sets(m, n, k)
    BY <1>3 DEF Sets
  <2>3. \A v, w : Leads(a, n, v, w) => Leads(aa, n, v, w)
    BY <1>1, <2>2
  <2> QED  BY <2>1, <2>3 DEF Half
<1>4. CASE m.type = "delete" /\ m.net = n
  <2>1. n \notin DOMAIN f /\ ~ Carries(aa, n)
    BY <1>1, <1>4 DEF Half, IsOp
  <2> QED  BY <2>1 DEF Half
<1>5. CASE IsOp(m) /\ m.type \notin {"add", "delete"} /\ m.net = n
  <2>1. /\ ~ Carries(aa, n) /\ ~ Carries(a, n) /\ (Deletes(aa, n) <=> Deletes(a, n))
        /\ n \in DOMAIN gg <=> n \in DOMAIN g
        /\ n \in DOMAIN g => \A k \in Kinds : gg[n][k] = IF Sets(m, n, k) THEN Put(m, k) ELSE g[n][k]
    BY <1>1, <1>5 DEF Does
  <2>2. n \in DOMAIN g => \A w : Leads(a, n, g[n], w) => Leads(aa, n, gg[n], w)
    BY <1>1, <2>1
  <2>3. n \in DOMAIN g => NodeIn(g, n) = g[n] /\ NodeIn(gg, n) = gg[n]
    BY <2>1 DEF NodeIn
  <2> QED  BY <2>1, <2>2, <2>3 DEF Half
<1> QED  BY <1>2, <1>3, <1>4, <1>5

LEMMA TakesOther ==
  ASSUME NEW n, NEW f, NEW g, NEW a, NEW b, NEW P, NEW O, NEW K, NEW m, NEW gg, NEW aa, NEW KK,
         Half(n, f, g, a, b, P, K), Half(n, g, f, b, a, O, K), Does(g, gg, m), Removed(a, aa, m),
         K \subseteq KK, Apart(n, g, a, b), Apart(n, f, b, a), AddsFirst(a), Marked(m, b, KK)
  PROVE  Half(n, gg, f, b, aa, O, KK)
<1>1. /\ About(a, n) <=> About(aa, n) \/ (IsOp(m) /\ m.net = n)
      /\ Carries(a, n) <=> Carries(aa, n) \/ (m.type = "add" /\ m.net = n)
      /\ Deletes(a, n) <=> Deletes(aa, n) \/ (m.type = "delete" /\ m.net = n)
      /\ IsOp(m) => ~ Carries(aa, m.net)
  BY RemovedFacts
<1>2. CASE ~ (IsOp(m) /\ m.net = n)
  <2>1. (n \in DOMAIN gg <=> n \in DOMAIN g) /\ (n \in DOMAIN g => gg[n] = g[n])
    BY <1>2 DEF Does
  <2>2. (About(a, n) <=> About(aa, n)) /\ (Deletes(a, n) <=> Deletes(aa, n))
    BY <1>1, <1>2 DEF IsOp
  <2> QED  BY <2>1, <2>2 DEF Half
<1>3. CASE IsOp(m) /\ m.net = n
  <2>1. About(a, n) /\ ~ Carries(b, n)
    BY <1>1, <1>3 DEF Apart
  <2>2. n \in DOMAIN gg => n \in DOMAIN f \cup O \/ Deletes(aa, n)
    <3>1. CASE m.type = "add"
      BY <1>1, <1>3, <3>1 DEF Half
    <3>2. CASE m.type = "delete"
      BY <1>3, <3>2 DEF Does
    <3>3. CASE m.type \notin {"add", "delete"}
      BY <1>1, <1>3, <2>1, <3>3 DEF Does, Half
    <3> QED  BY <3>1, <3>2, <3>3
  <2>3. Deletes(b, n) => n \notin DOMAIN gg
    <3>1. Deletes(b, n) => About(b, n)
      BY DEF Deletes, About, IsOp
    <3>2. CASE m.type = "add"
      BY <1>1, <1>3, <3>1, <3>2 DEF Apart
    <3>3. CASE m.type # "add"
      BY <1>3, <3>3 DEF Does, Half
    <3> QED  BY <3>2, <3>3
  <2>4. ASSUME n \notin KK, ~ About(aa, n), n \in DOMAIN gg, n \in DOMAIN f
        PROVE  Leads(b, n, f[n], gg[n])
    <3>1. ~ About(b, n)
      BY <1>1, <1>3, <2>4 DEF Apart, Marked
    <3>2. n \in DOMAIN g \/ Carries(a, n)
      BY <1>1, <1>3, <2>4 DEF Does
    <3>3. Leads(a, n, NodeIn(g, n), f[n])
      BY <2>4, <3>1, <3>2 DEF Half
    <3>4. Half(n, f, gg, aa, b, P, KK)
      BY TakesHalf
    <3>5. Leads(aa, n, gg[n], f[n])
      BY <2>4, <3>1, <3>4 DEF Half, NodeIn
    <3>6. \A k \in Kinds : f[n][k] = gg[n][k]
      BY <2>4, <3>5 DEF Leads, About, Sets
    <3> QED  BY <3>1, <3>6 DEF Leads, Latest, About, Sets
  <2> QED  BY <2>1, <2>2, <2>3, <2>4 DEF Half, NodeIn
<1> QED  BY <1>2, <1>3

\* The places alone change.
LEMMA MovesHalf ==
  ASSUME NEW n, NEW f, NEW g, NEW a, NEW b, NEW O, NEW K, NEW s, Moved(b, s)
  PROVE  /\ Half(n, f, g, a, b, O, K) => Half(n, f, g, a, s, O, K)
         /\ Half(n, g, f, b, a, O, K) => Half(n, g, f, s, a, O, K)
<1>1. /\ About(s, n) <=> About(b, n)
      /\ Carries(s, n) <=> Carries(b, n)
      /\ Deletes(s, n) <=> Deletes(b, n)
      /\ \A v, w : Leads(b, n, v, w) => Leads(s, n, v, w)
  BY MovedFacts
<1>2. Half(n, f, g, a, b, O, K) => Half(n, f, g, a, s, O, K)
  BY <1>1 DEF Half
<1>3. Half(n, g, f, b, a, O, K) => Half(n, g, f, s, a, O, K)
  BY <1>1 DEF Half
<1> QED  BY <1>2, <1>3

\* What a host knows, by the names of the session.
View(x) == [n \in DOMAIN x.localId |-> x.nodes[x.localId[n]]]

\* A message that is no operation.
LEMMA SignalDoes ==
  ASSUME NEW f, NEW m, ~ IsOp(m)
  PROVE  Does(f, f, m)
  BY DEF Does, IsOp

\* A node that changes.
LEMMA NodeDoes ==
  ASSUME NEW x, WellTyped(x), NEW k \in DOMAIN x.nodes, NEW op,
         op.type \in {"param", "activate", "deactivate"}
  PROVE  LET y == Changed(x, k, op)
         IN  /\ y.localId = x.localId /\ DOMAIN y.nodes = DOMAIN x.nodes
             /\ \A i \in DOMAIN x.nodes : i # k => y.nodes[i] = x.nodes[i]
             /\ \A j \in Kinds :
                   y.nodes[k][j] = IF Sets(op, op.net, j) THEN Put(op, j) ELSE x.nodes[k][j]
<1> DEFINE y == Changed(x, k, op)
           v == x.nodes[k]
<1>1. v \in Nodes /\ IsOp(op)
  BY DEF WellTyped, IsOp
<1>2. ASSUME NEW w, y = [x EXCEPT !.nodes[k] = w]
      PROVE  /\ y.localId = x.localId /\ DOMAIN y.nodes = DOMAIN x.nodes
             /\ \A i \in DOMAIN x.nodes : i # k => y.nodes[i] = x.nodes[i]
             /\ y.nodes[k] = w
  BY <1>2 DEF WellTyped, Fields
<1>3. CASE op.type = "param"
  <2> DEFINE w == [v EXCEPT !.value = op.value]
  <2>1. y = [x EXCEPT !.nodes[k] = w]
    BY <1>3 DEF Changed
  <2>2. w["value"] = op.value /\ w["active"] = v["active"]
    BY <1>1 DEF Nodes
  <2> HIDE DEF w, v, y
  <2>3. \A j \in Kinds : w[j] = IF Sets(op, op.net, j) THEN Put(op, j) ELSE v[j]
    BY <1>1, <1>3, <2>2 DEF Kinds, Sets, Put
  <2> QED  BY <1>2, <2>1, <2>3 DEF y, v
<1>4. CASE op.type = "activate"
  <2> DEFINE w == [v EXCEPT !.active = TRUE]
  <2>1. y = [x EXCEPT !.nodes[k] = w]
    BY <1>4 DEF Changed
  <2>2. w["value"] = v["value"] /\ w["active"] = TRUE
    BY <1>1 DEF Nodes
  <2> HIDE DEF w, v, y
  <2>3. Put(op, "active") = TRUE
    BY <1>4 DEF Put
  <2>4. Sets(op, op.net, "active") /\ ~ Sets(op, op.net, "value")
    BY <1>1, <1>4 DEF Sets
  <2>5. \A j \in Kinds : w[j] = IF Sets(op, op.net, j) THEN Put(op, j) ELSE v[j]
    BY <2>2, <2>3, <2>4 DEF Kinds
  <2> QED  BY <1>2, <2>1, <2>5 DEF y, v
<1>5. CASE op.type = "deactivate"
  <2> DEFINE w == [v EXCEPT !.active = FALSE]
  <2>1. y = [x EXCEPT !.nodes[k] = w]
    BY <1>5 DEF Changed
  <2>2. w["value"] = v["value"] /\ w["active"] = FALSE
    BY <1>1 DEF Nodes
  <2> HIDE DEF w, v, y
  <2>3. Put(op, "active") = FALSE
    BY <1>5 DEF Put
  <2>4. Sets(op, op.net, "active") /\ ~ Sets(op, op.net, "value")
    BY <1>1, <1>5 DEF Sets
  <2>5. \A j \in Kinds : w[j] = IF Sets(op, op.net, j) THEN Put(op, j) ELSE v[j]
    BY <2>2, <2>3, <2>4 DEF Kinds
  <2> QED  BY <1>2, <2>1, <2>5 DEF y, v
<1> QED  BY <1>3, <1>4, <1>5

\* A host makes a node.
LEMMA ViewAdded ==
  ASSUME NEW x, WellTyped(x), NamesOk(x), NEW m, m.type = "add", m.net \notin DOMAIN x.localId
  PROVE  Does(View(x), View(Named(WithNode(x), m.net, x.lastId)), m)
<1> DEFINE y == Named(WithNode(x), m.net, x.lastId)
           n == m.net
<1>1. y.nodes = With(x.nodes, x.lastId, NewNode) /\ y.localId = With(x.localId, n, x.lastId)
  BY DEF WellTyped, Fields, Named, WithNode
<1> HIDE DEF y
<1>2. x.lastId \notin DOMAIN x.nodes
  <2>1. \A k \in DOMAIN x.nodes : k < x.lastId /\ k \in Nat /\ x.lastId \in Nat
    BY DEF WellTyped, NamesOk
  <2> QED  BY <2>1
<1>3. /\ y.nodes[x.lastId] = NewNode /\ \A k \in DOMAIN x.nodes : y.nodes[k] = x.nodes[k]
      /\ DOMAIN y.localId = DOMAIN x.localId \cup {n} /\ y.localId[n] = x.lastId
      /\ \A i \in DOMAIN x.localId : y.localId[i] = x.localId[i]
  BY <1>1, <1>2 DEF With
<1>4. /\ DOMAIN View(y) = DOMAIN View(x) \cup {n} /\ View(y)[n] = NewNode
      /\ \A i \in DOMAIN View(x) : View(y)[i] = View(x)[i]
  BY <1>3 DEF View, NamesOk
<1>5. IsOp(m)
  BY DEF IsOp
<1> QED  BY <1>4, <1>5 DEF Does, y

\* A host changes a node that it knows by the name n.
LEMMA ViewChanged ==
  ASSUME NEW x, WellTyped(x), NamesOk(x), NEW op, op.net \in DOMAIN x.localId,
         op.type \in {"delete", "param", "activate", "deactivate"},
         NEW y, y.nodes = Changed(x, x.localId[op.net], op).nodes,
         y.localId = IF op.type = "delete" THEN Without(x.localId, op.net) ELSE x.localId
  PROVE  Does(View(x), View(y), op)
<1> DEFINE n == op.net
           k == x.localId[n]
<1>1. k \in DOMAIN x.nodes /\ IsOp(op) /\ op.type # "add"
      /\ \A i \in DOMAIN x.localId : x.localId[i] \in DOMAIN x.nodes
                                     /\ (i # n => x.localId[i] # k)
  BY DEF NamesOk, IsOp
<1>2. CASE op.type = "delete"
  <2>1. y.nodes = Without(x.nodes, k) /\ y.localId = Without(x.localId, n)
    BY <1>2 DEF Changed, WellTyped, Fields
  <2> HIDE DEF k, n
  <2>2. /\ DOMAIN y.localId = DOMAIN x.localId \ {n}
        /\ \A i \in DOMAIN x.localId : i # n =>
              y.localId[i] = x.localId[i] /\ y.nodes[x.localId[i]] = x.nodes[x.localId[i]]
    BY <1>1, <2>1 DEF Without
  <2>3. /\ DOMAIN View(y) = DOMAIN View(x) \ {n}
        /\ \A i \in DOMAIN View(x) : i # n => View(y)[i] = View(x)[i]
    BY <2>2 DEF View
  <2> QED  BY <1>1, <1>2, <2>3 DEF Does, n
<1>3. CASE op.type # "delete"
  <2>1. /\ DOMAIN y.nodes = DOMAIN x.nodes /\ y.localId = x.localId
        /\ \A i \in DOMAIN x.nodes : i # k => y.nodes[i] = x.nodes[i]
        /\ \A j \in Kinds : y.nodes[k][j] = IF Sets(op, op.net, j) THEN Put(op, j) ELSE x.nodes[k][j]
    <3>1. op.type \in {"param", "activate", "deactivate"}
      BY <1>3
    <3> QED  BY <1>1, <1>3, <3>1, NodeDoes
  <2> HIDE DEF k
  <2>2. /\ DOMAIN View(y) = DOMAIN View(x)
        /\ \A i \in DOMAIN View(x) : i # n => View(y)[i] = View(x)[i]
        /\ View(y)[n] = y.nodes[k] /\ View(x)[n] = x.nodes[k] /\ n \in DOMAIN View(x)
    BY <1>1, <2>1 DEF View, k
  <2> QED  BY <1>1, <1>3, <2>1, <2>2 DEF Does
<1> QED  BY <1>2, <1>3

\* The user changes a node, which may have no name in the session.
LEMMA ViewUser ==
  ASSUME NEW x, WellTyped(x), NamesOk(x), NoNet \notin DOMAIN x.localId, NEW k \in DOMAIN x.nodes,
         NEW op, op.type \in {"delete", "param", "activate", "deactivate"}, op.net = NetOf(x, k)
  PROVE  /\ Does(View(x), View(HandleOther(Changed(x, k, op), op, k)), op)
         /\ op.net = NoNet \/ op.net \in DOMAIN x.localId
<1> DEFINE w == Changed(x, k, op)
           y == HandleOther(w, op, k)
<1>1. DOMAIN w = Fields /\ w.localId = x.localId
  BY DEF Changed, WellTyped, Fields
<1>2. y.nodes = w.nodes /\ y.localId = IF op.type = "delete" THEN Without(x.localId, op.net)
                                                             ELSE x.localId
  <2> HIDE DEF w
  <2> QED  BY <1>1 DEF HandleOther, Forgotten, Fields
<1>3. CASE op.net # NoNet
  <2>1. op.net \in DOMAIN x.localId /\ x.localId[op.net] = k
    BY <1>3 DEF NetOf, NamesOk
  <2> QED  BY <1>2, <2>1, ViewChanged
<1>4. CASE op.net = NoNet
  <2>1. \A i \in DOMAIN x.localId : x.localId[i] # k /\ x.localId[i] \in DOMAIN x.nodes
    BY <1>4 DEF NetOf, NamesOk
  <2>2. \A i \in DOMAIN x.nodes : i # k => y.nodes[i] = x.nodes[i]
    <3>1. CASE op.type = "delete"
      <4>1. y.nodes = Without(x.nodes, k)
        BY <1>2, <3>1 DEF Changed, WellTyped, Fields
      <4> QED  BY <4>1 DEF Without
    <3>2. CASE op.type # "delete"
      <4>1. op.type \in {"param", "activate", "deactivate"}
        BY <3>2
      <4> QED  BY <1>2, <4>1, NodeDoes
    <3> QED  BY <3>1, <3>2
  <2>3. DOMAIN y.localId = DOMAIN x.localId /\ \A i \in DOMAIN x.localId : y.localId[i] = x.localId[i]
    BY <1>2, <1>4 DEF Without
  <2> HIDE DEF y, w
  <2>4. /\ DOMAIN View(y) = DOMAIN View(x) /\ NoNet \notin DOMAIN View(x)
        /\ \A i \in DOMAIN View(x) : View(y)[i] = View(x)[i]
    BY <2>1, <2>2, <2>3 DEF View
  <2> QED  BY <1>4, <2>4 DEF Does, y, w
<1> QED  BY <1>3, <1>4

\* A host is told of a change.
LEMMA ViewTold ==
  ASSUME NEW x, WellTyped(x), NamesOk(x), NEW op, IsOp(op), op.type # "add"
  PROVE  /\ \A y \in OtherCallbacks(x, op) : Known(x, op.net) => Does(View(x), View(y), op)
         /\ ~ Known(x, op.net) => Does(View(x), View(x), op)
<1>1. ASSUME NEW y \in OtherCallbacks(x, op), Known(x, op.net) PROVE Does(View(x), View(y), op)
  <2> DEFINE k == x.localId[op.net]
             w == Changed(x, k, op)
  <2>1. op.net \in DOMAIN x.localId /\ op.type \in {"delete", "param", "activate", "deactivate"}
    BY <1>1 DEF Known, IsOp
  <2>2. DOMAIN w = Fields /\ w.localId = x.localId
    BY <2>1 DEF Changed, WellTyped, Fields
  <2>3. y.nodes = w.nodes /\ y.localId = IF op.type = "delete" THEN Without(x.localId, op.net)
                                                               ELSE x.localId
    <3>1. \/ op.type = "delete" /\ y \in {Forgotten(w, op.net, k), [w EXCEPT !.localId = Without(@, op.net)]}
          \/ op.type # "delete" /\ y = w
      BY <1>1 DEF OtherCallbacks
    <3> HIDE DEF w, k
    <3> QED  BY <2>2, <3>1 DEF Forgotten, Fields
  <2> QED  BY <2>1, <2>3, ViewChanged
<1>2. ASSUME ~ Known(x, op.net) PROVE Does(View(x), View(x), op)
  <2>1. op.net \notin DOMAIN View(x)
    BY <1>2 DEF Known, NamesOk, View
  <2> QED  BY <2>1 DEF Does
<1> QED  BY <1>1, <1>2

\* What two hosts know and what is under way between them.
Pair(f, g, a, b, P, O, K) ==
    \A n : Half(n, f, g, a, b, P, K) /\ Half(n, g, f, b, a, O, K)

\* What is new to the other end, of all nodes.
Parted(f, g, a, b) == \A n : Apart(n, g, a, b) /\ Apart(n, f, b, a)

\* Each of the two hosts may say something, or take what the other said.
LEMMA PairTurned ==
  /\ \A f, g, a, b, P, O, K : Pair(f, g, a, b, P, O, K) <=> Pair(g, f, b, a, O, P, K)
  /\ \A f, g, a, b : Parted(f, g, a, b) <=> Parted(g, f, b, a)
  BY DEF Pair, Parted

LEMMA PairSays ==
  ASSUME NEW f, NEW g, NEW a, NEW b, NEW P, NEW O, NEW K, NEW m, NEW ff, NEW aa, NEW KK,
         Pair(f, g, a, b, P, O, K), Does(f, ff, m), Added(a, aa, m), K \subseteq KK,
         NewTo(m, g, a, b)
  PROVE  Pair(ff, g, aa, b, P, O, KK)
<1> SUFFICES ASSUME NEW n PROVE Half(n, ff, g, aa, b, P, KK) /\ Half(n, g, ff, b, aa, O, KK)
  BY DEF Pair
<1>1. Half(n, f, g, a, b, P, K) /\ Half(n, g, f, b, a, O, K)
  BY DEF Pair
<1>2. Half(n, ff, g, aa, b, P, KK)
  BY <1>1, SendsHalf
<1>3. Half(n, g, ff, b, aa, O, KK)
  BY <1>1, SendsOther
<1> QED  BY <1>2, <1>3

LEMMA PairTakes ==
  ASSUME NEW f, NEW g, NEW a, NEW b, NEW P, NEW O, NEW K, NEW m, NEW gg, NEW aa, NEW KK,
         Pair(f, g, a, b, P, O, K), Does(g, gg, m), Removed(a, aa, m), K \subseteq KK,
         Parted(f, g, a, b), AddsFirst(a), Marked(m, b, KK)
  PROVE  Pair(f, gg, aa, b, P, O, KK)
<1> SUFFICES ASSUME NEW n PROVE Half(n, f, gg, aa, b, P, KK) /\ Half(n, gg, f, b, aa, O, KK)
  BY DEF Pair
<1>1. /\ Half(n, f, g, a, b, P, K) /\ Half(n, g, f, b, a, O, K)
      /\ Apart(n, g, a, b) /\ Apart(n, f, b, a)
  BY DEF Pair, Parted
<1>2. Half(n, f, gg, aa, b, P, KK)
  BY <1>1, TakesHalf
<1>3. Half(n, gg, f, b, aa, O, KK)
  BY <1>1, TakesOther
<1> QED  BY <1>2, <1>3

\* Nothing is said, and more may be marked.
LEMMA PairMoved ==
  ASSUME NEW f, NEW g, NEW a, NEW b, NEW P, NEW O, NEW K, Pair(f, g, a, b, P, O, K),
         NEW s, Moved(b, s) \/ s = b, NEW KK, K \subseteq KK
  PROVE  Pair(f, g, a, s, P, O, KK)
<1> SUFFICES ASSUME NEW n PROVE Half(n, f, g, a, s, P, KK) /\ Half(n, g, f, s, a, O, KK)
  BY DEF Pair
<1>1. Half(n, f, g, a, b, P, K) /\ Half(n, g, f, b, a, O, K)
  BY DEF Pair
<1>2. Half(n, f, g, a, s, P, K) /\ Half(n, g, f, s, a, O, K)
  BY <1>1, MovesHalf
<1> QED  BY <1>2 DEF Half

\* A host that knows nothing joins one that knows what is in O.
LEMMA PairJoins ==
  ASSUME NEW f, NEW g, NEW a, NEW b, NEW P, NEW K,
         DOMAIN f = {}, DOMAIN a = {}, DOMAIN b = {}
  PROVE  Pair(f, g, a, b, P, DOMAIN g, K)
  BY DEF Pair, Half, Carries, Deletes

-----------------------------------------------------------------------------
(* What is under way, while nothing goes wrong: an ADD of a node comes before  *)
(* all else about it, and goes where nothing has been said about the node.     *)

OpsInv ==
    /\ \A l \in Links :
          AddsFirst(link[l]) /\ \A n : About(link[l], n) => Past(n) \/ n = NoNet
    /\ \A c \in Clients : \A n :
          /\ Carries(Out(c), n) => \A d \in Clients : /\ ~ About(In(d), n)
                                                      /\ d # c => ~ About(Out(d), n)
          /\ Carries(In(c), n) => ~ About(Out(c), n)

\* t says no more than s.
Quieter(s, t) ==
    /\ \A n : (About(t, n) => About(s, n)) /\ (Carries(t, n) => Carries(s, n))
    /\ AddsFirst(s) => AddsFirst(t)

\* A message less, or one more that is no operation.
LEMMA QuieterLinks ==
  ASSUME NEW S, NEW s \in Seq(S)
  PROVE  /\ Quieter(s, s)
         /\ s # <<>> => Quieter(s, Tail(s))
         /\ \A m : ~ IsOp(m) => Quieter(s, Append(s, m))
<1>1. Quieter(s, s)
  BY DEF Quieter
<1>2. ASSUME s # <<>> PROVE Quieter(s, Tail(s))
  <2>1. Removed(s, Tail(s), Head(s))
    BY <1>2, LinkRemoved
  <2> QED  BY <2>1, RemovedFacts DEF Quieter
<1>3. ASSUME NEW m, ~ IsOp(m) PROVE Quieter(s, Append(s, m))
  <2>1. Added(s, Append(s, m), m)
    BY LinkAdded
  <2>2. m.type # "add"
    BY <1>3 DEF IsOp
  <2> QED  BY <1>3, <2>1, <2>2, AddedFacts DEF Quieter
<1> QED  BY <1>1, <1>2, <1>3

QuieterAll(L, M) == \A l \in Links : Quieter(L[l], M[l])

LEMMA QuieterSent ==
  ASSUME NEW L, NEW M, QuieterAll(L, M), RightLinks(M), NEW h, NEW dest, NEW m, ~ IsOp(m)
  PROVE  QuieterAll(L, Sent(M, h, dest, m))
<1> SUFFICES ASSUME NEW l \in Links PROVE Quieter(L[l], Sent(M, h, dest, m)[l])
  BY DEF QuieterAll
<1>1. M[l] \in Seq(On(l))
  BY DEF RightLinks
<1>2. Quieter(M[l], Append(M[l], m)) /\ Quieter(M[l], M[l])
  BY <1>1, QuieterLinks
<1>3. Sent(M, h, dest, m)[l] \in {M[l], Append(M[l], m)}
  BY DEF Sent
<1> QED  BY <1>2, <1>3 DEF Quieter, QuieterAll

LEMMA QuieterTaken ==
  ASSUME RightLinks(link), NEW l \in Links, link[l] # <<>>
  PROVE  QuieterAll(link, [link EXCEPT ![l] = Tail(@)]) /\ QuieterAll(link, link)
<1>1. \A k \in Links : link[k] \in Seq(On(k))
  BY DEF RightLinks
<1>2. Quieter(link[l], Tail(link[l])) /\ \A k \in Links : Quieter(link[k], link[k])
  BY <1>1, QuieterLinks
<1> QED  BY <1>2 DEF QuieterAll, RightLinks

\* No operation is new.
LEMMA OpsQuiet ==
  ASSUME OpsInv, QuieterAll(link, link'), \A n : Past(n) => Past(n)'
  PROVE  OpsInv'
<1>1. \A c \in Clients : <<Server, c>> \in Links /\ <<c, Server>> \in Links
  BY DEF Links
<1>2. \A c \in Clients : Quieter(In(c), In(c)') /\ Quieter(Out(c), Out(c)')
  BY <1>1 DEF QuieterAll, In, Out
<1>3. \A l \in Links : AddsFirst(link'[l]) /\ \A n : About(link'[l], n) => Past(n)' \/ n = NoNet
  BY DEF OpsInv, QuieterAll, Quieter
<1>4. ASSUME NEW c \in Clients, NEW n
      PROVE  /\ Carries(Out(c)', n) => \A d \in Clients : /\ ~ About(In(d)', n)
                                                          /\ d # c => ~ About(Out(d)', n)
             /\ Carries(In(c)', n) => ~ About(Out(c)', n)
  BY <1>2 DEF OpsInv, Quieter
<1> QED  BY <1>3, <1>4 DEF OpsInv

\* The host h sends an operation to some of its targets: its own, or one that
\* has come from one of the others and that has been taken from its link.
LEMMA OpsSaid ==
  ASSUME OpsInv, NEW rest, RightLinks(rest), QuieterAll(link, rest),
         \A n : Past(n) => Past(n)',
         NEW h \in Hosts, NEW from, NEW T, NEW op, IsOp(op), link' = Sent(rest, h, T, op),
         h = Server => from \notin T,
         Past(op.net)' \/ op.net = NoNet,
         \A c \in Clients : c # h => ~ Carries(rest[<<c, Server>>], op.net),
         h \in Clients => ~ Carries(rest[<<Server, h>>], op.net) /\ from \notin Clients,
         op.type = "add" => \A l \in Links : l # <<from, Server>> => ~ About(rest[l], op.net)
  PROVE  OpsInv'
<1>1. \A c \in Clients : /\ <<Server, c>> \in Links /\ <<c, Server>> \in Links /\ c # Server
                         /\ <<Server, c>>[1] = Server /\ <<Server, c>>[2] = c
                         /\ <<c, Server>>[1] = c /\ <<c, Server>>[2] = Server
  BY HostsAssumption DEF Links
<1>2. ASSUME NEW l \in Links
      PROVE  IF l[1] = h /\ l[2] \in T
             THEN /\ \A n : About(link'[l], n) => About(rest[l], n) \/ n = op.net
                  /\ \A n : Carries(link'[l], n) => Carries(rest[l], n)
                                                    \/ (op.type = "add" /\ n = op.net)
                  /\ AddsFirst(rest[l]) /\ (op.type = "add" => ~ About(rest[l], op.net))
                        => AddsFirst(link'[l])
             ELSE link'[l] = rest[l]
  <2>1. CASE l[1] = h /\ l[2] \in T
    <3>1. link'[l] = Append(rest[l], op) /\ rest[l] \in Seq(On(l))
      BY <2>1 DEF Sent, RightLinks
    <3>2. Added(rest[l], link'[l], op)
      BY <3>1, LinkAdded
    <3> QED  BY <2>1, <3>2, AddedFacts
  <2>2. CASE ~ (l[1] = h /\ l[2] \in T)
    BY <2>2 DEF Sent
  <2> QED  BY <2>1, <2>2
<1>3. ASSUME NEW l \in Links
      PROVE  AddsFirst(link'[l]) /\ \A n : About(link'[l], n) => Past(n)' \/ n = NoNet
  <2>1. /\ AddsFirst(rest[l]) /\ \A n : About(rest[l], n) => Past(n)' \/ n = NoNet
    BY DEF OpsInv, QuieterAll, Quieter
  <2>2. op.type = "add" /\ l[1] = h /\ l[2] \in T => ~ About(rest[l], op.net)
    <3>1. l[1] = h => l # <<from, Server>>
      BY <1>1, LinkEnds DEF Hosts
    <3> QED  BY <3>1
  <2> QED  BY <1>2, <2>1, <2>2
<1>4. ASSUME NEW c \in Clients, NEW n
      PROVE  /\ Carries(rest[<<c, Server>>], n) =>
                    \A d \in Clients : /\ ~ About(rest[<<Server, d>>], n)
                                       /\ d # c => ~ About(rest[<<d, Server>>], n)
             /\ Carries(rest[<<Server, c>>], n) => ~ About(rest[<<c, Server>>], n)
  BY <1>1 DEF OpsInv, QuieterAll, Quieter, In, Out
<1>5. CASE h = Server
  <2>1. ASSUME NEW c \in Clients
        PROVE  /\ Out(c)' = rest[<<c, Server>>]
               /\ \A n : About(In(c)', n) => About(rest[<<Server, c>>], n) \/ n = op.net
               /\ \A n : Carries(In(c)', n) => \/ Carries(rest[<<Server, c>>], n)
                                               \/ op.type = "add" /\ n = op.net /\ c \in T
    BY <1>1, <1>2, <1>5 DEF In, Out
  <2>2. ASSUME NEW c \in Clients, NEW n
        PROVE  /\ Carries(Out(c)', n) => \A d \in Clients : /\ ~ About(In(d)', n)
                                                            /\ d # c => ~ About(Out(d)', n)
               /\ Carries(In(c)', n) => ~ About(Out(c)', n)
    <3>1. Carries(Out(c)', n) => \A d \in Clients : /\ ~ About(In(d)', n)
                                                    /\ d # c => ~ About(Out(d)', n)
      BY <1>1, <1>4, <1>5, <2>1
    <3>2. c \in T => <<c, Server>> # <<from, Server>>
      BY <1>5
    <3>3. Carries(In(c)', n) => ~ About(Out(c)', n)
      BY <1>1, <1>4, <2>1, <3>2
    <3> QED  BY <3>1, <3>3
  <2> QED  BY <1>3, <2>2 DEF OpsInv
<1>6. CASE h \in Clients
  <2>1. ASSUME NEW c \in Clients
        PROVE  /\ In(c)' = rest[<<Server, c>>]
               /\ \A n : About(Out(c)', n) => About(rest[<<c, Server>>], n) \/ (n = op.net /\ c = h)
               /\ \A n : Carries(Out(c)', n) => \/ Carries(rest[<<c, Server>>], n)
                                                \/ op.type = "add" /\ n = op.net /\ c = h
    BY <1>1, <1>2, <1>6 DEF In, Out
  <2>2. op.type = "add" => \A d \in Clients : /\ ~ About(rest[<<Server, d>>], op.net)
                                              /\ ~ About(rest[<<d, Server>>], op.net)
    <3>1. \A d \in Clients : <<Server, d>> # <<from, Server>> /\ <<d, Server>> # <<from, Server>>
      BY <1>1, <1>6
    <3> QED  BY <1>1, <3>1
  <2>3. ASSUME NEW c \in Clients, NEW n
        PROVE  /\ Carries(Out(c)', n) => \A d \in Clients : /\ ~ About(In(d)', n)
                                                            /\ d # c => ~ About(Out(d)', n)
               /\ Carries(In(c)', n) => ~ About(Out(c)', n)
    BY <1>4, <1>6, <2>1, <2>2
  <2> QED  BY <1>3, <2>3 DEF OpsInv
<1> QED  BY <1>5, <1>6 DEF Hosts

-----------------------------------------------------------------------------
(* A client and the server.                                                *)

\* The client c is in the session, or will be when it takes the last ACCEPT.
Current(c) ==
    /\ c \in DOMAIN server.slots
    /\ \/ client[c].state = "CONNECTED" /\ c \notin hasty
       \/ client[c].state = "PENDING" /\ Out(c) = <<>>

Agreed(c) ==
    Pair(View(host[c]), View(host[Server]), Out(c), Heard(In(c)), {}, old[c], conflicts)

\* The last thing that a client that waits has said is CONNECT.
AgreeOf(c) ==
    /\ client[c].state = "PENDING" /\ Out(c) # <<>> => Out(c)[Len(Out(c))].type = "CONNECT"
    /\ client[c].state = "CONNECTED" => host[c].targets = {Server}
    /\ Current(c) => /\ client[c].state = "PENDING" => UnderWay(In(c), "ACCEPT")
                     /\ Agreed(c)

Calm == faults = {} /\ reborn = {} /\ ~ again

AgreeInv == Calm => OpsInv /\ \A c \in Clients : AgreeOf(c)

\* The state, while nothing goes wrong.
Still ==
    /\ TypesInv /\ NamesFresh /\ OpsInv
    /\ \A c \in Clients : IdsOf(c) /\ AgreeOf(c)

LEMMA StillState ==
  ASSUME Still
  PROVE  /\ RightLinks(link) /\ DOMAIN host = Hosts /\ DOMAIN client = Clients
         /\ \A h \in Hosts : WellTyped(host[h]) /\ NamesOk(host[h])
         /\ \A c \in Clients :
               /\ c \in Hosts /\ c # Server /\ client[c] \in ClientType
               /\ <<Server, c>> \in Links /\ <<c, Server>> \in Links
               /\ In(c) \in Seq(On(<<Server, c>>)) /\ Out(c) \in Seq(On(<<c, Server>>))
               /\ client[c].state \notin {"CONNECTED", "CLOSING"} =>
                     /\ ~ host[c].on /\ host[c].targets = {} /\ DOMAIN View(host[c]) = {}
         /\ DOMAIN server.slots = host[Server].targets
         /\ server.state = "IDLE" => DOMAIN server.slots = {}
         /\ Server \in Hosts /\ DOMAIN server.slots \subseteq Clients
<1>1. /\ RightLinks(link) /\ DOMAIN host = Hosts /\ DOMAIN client = Clients
      /\ \A h \in Hosts : WellTyped(host[h]) /\ NamesOk(host[h])
      /\ \A c \in Clients : client[c] \in ClientType
  BY NamesState DEF Still
<1>2. ASSUME NEW c \in Clients
      PROVE  /\ c \in Hosts /\ c # Server
             /\ <<Server, c>> \in Links /\ <<c, Server>> \in Links
             /\ In(c) \in Seq(On(<<Server, c>>)) /\ Out(c) \in Seq(On(<<c, Server>>))
             /\ client[c].state \notin {"CONNECTED", "CLOSING"} =>
                   /\ ~ host[c].on /\ host[c].targets = {} /\ DOMAIN View(host[c]) = {}
  <2>1. c \in Hosts /\ c # Server /\ <<Server, c>> \in Links /\ <<c, Server>> \in Links
    BY ServerHost, HostsAssumption DEF Links
  <2>2. client[c].state \notin {"CONNECTED", "CLOSING"} => ~ host[c].on
    BY DEF Still, NamesFresh, InSession
  <2>3. ~ host[c].on => host[c].targets = {} /\ DOMAIN View(host[c]) = {}
    BY <1>1, <2>1 DEF NamesOk, View
  <2> QED  BY <1>1, <2>1, <2>2, <2>3 DEF RightLinks, In, Out
<1>3. /\ DOMAIN server.slots = host[Server].targets
      /\ server.state = "IDLE" => DOMAIN server.slots = {}
      /\ DOMAIN server.slots \subseteq Clients
  BY DEF Still, TypesInv, SlotsInv, SlotIds, SlotsTyped
<1> QED  BY <1>1, <1>2, <1>3, ServerHost

\* What is true of a client that agrees with the server.
LEMMA CurrentState ==
  ASSUME Still, NEW c \in Clients, Current(c)
  PROVE  /\ Agreed(c) /\ c \in host[Server].targets
         /\ client[c].state = "CONNECTED" \/ client[c].state = "PENDING"
         /\ client[c].state = "CONNECTED" =>
               /\ host[c].targets = {Server} /\ Heard(In(c)) = In(c)
               /\ ~ UnderWay(In(c), "ACCEPT") /\ ~ UnderWay(Out(c), "CONNECT")
         /\ client[c].state = "PENDING" => Out(c) = <<>> /\ UnderWay(In(c), "ACCEPT")
         /\ AddsFirst(Out(c)) /\ AddsFirst(Heard(In(c)))
         /\ Parted(View(host[c]), View(host[Server]), Out(c), Heard(In(c)))
<1>1. /\ Agreed(c) /\ c \in host[Server].targets
      /\ client[c].state = "CONNECTED" \/ client[c].state = "PENDING"
      /\ client[c].state = "CONNECTED" => host[c].targets = {Server}
      /\ client[c].state = "PENDING" => Out(c) = <<>> /\ UnderWay(In(c), "ACCEPT")
  BY StillState DEF Still, AgreeOf, Current
<1>2. client[c].state = "CONNECTED" =>
         /\ Heard(In(c)) = In(c)
         /\ ~ UnderWay(In(c), "ACCEPT") /\ ~ UnderWay(Out(c), "CONNECT")
  <2>1. client[c].state = "CONNECTED" => c \notin hasty
    BY DEF Current
  <2>2. client[c].state = "CONNECTED" => ~ UnderWay(In(c), "ACCEPT") /\ ~ UnderWay(Out(c), "CONNECT")
    BY <2>1 DEF Still, IdsOf
  <2> QED  BY <2>2, StillState, HeardAll
<1>3. /\ \A i \in DOMAIN Heard(In(c)) : i \in DOMAIN In(c) /\ Heard(In(c))[i] = In(c)[i]
      /\ AddsFirst(Out(c)) /\ AddsFirst(In(c))
  BY StillState DEF Heard, Still, OpsInv, In, Out
<1>4. AddsFirst(Heard(In(c)))
  BY <1>3 DEF AddsFirst
<1>5. \A n : /\ About(Heard(In(c)), n) => About(In(c), n)
             /\ Carries(Heard(In(c)), n) => Carries(In(c), n)
  BY <1>3 DEF About, Carries
<1>6. /\ <<c, Server>>[2] = Server /\ <<Server, c>>[2] = c
      /\ <<c, Server>> \in Links /\ <<Server, c>> \in Links
  BY StillState
<1>7. /\ \A n \in DOMAIN host[Server].localId : ~ Carries(Out(c), n)
      /\ \A n \in DOMAIN host[c].localId : ~ Carries(In(c), n)
  BY <1>6 DEF Still, NamesFresh, AddsNew, In, Out
<1>8. ASSUME NEW n
      PROVE  /\ Apart(n, View(host[Server]), Out(c), Heard(In(c)))
             /\ Apart(n, View(host[c]), Heard(In(c)), Out(c))
  <2>1. /\ Carries(Out(c), n) => ~ About(In(c), n)
        /\ Carries(In(c), n) => ~ About(Out(c), n)
    BY DEF Still, OpsInv
  <2> QED  BY <1>5, <1>7, <2>1 DEF Apart, View
<1> QED  BY <1>1, <1>2, <1>3, <1>4, <1>8 DEF Parted

\* The last message of a link, and one less.
LEMMA LastKept ==
  ASSUME NEW S, NEW s \in Seq(S), s # <<>>
  PROVE  /\ Tail(s) # <<>> => Tail(s)[Len(Tail(s))] = s[Len(s)]
         /\ Tail(s) = <<>> => Head(s) = s[Len(s)]
         /\ \A t : UnderWay(s, t) => Head(s).type = t \/ UnderWay(Tail(s), t)
         /\ Head(s) = s[1] /\ 1 \in DOMAIN s
<1>1. /\ Len(s) \in Nat /\ Len(s) > 0 /\ Head(s) = s[1] /\ DOMAIN s = 1 .. Len(s)
      /\ Len(Tail(s)) = Len(s) - 1 /\ DOMAIN Tail(s) = 1 .. Len(s) - 1
      /\ \A i \in 1 .. Len(s) - 1 : Tail(s)[i] = s[i + 1]
  OBVIOUS
<1>2. Tail(s) # <<>> => Len(s) - 1 \in 1 .. Len(s) - 1
  <2>1. Tail(s) \in Seq(S) /\ (Tail(s) # <<>> => Len(Tail(s)) > 0)
    OBVIOUS
  <2> QED  BY <1>1, <2>1
<1>3. Tail(s) = <<>> => Len(s) = 1
  BY <1>1
<1>4. ASSUME NEW t, UnderWay(s, t) PROVE Head(s).type = t \/ UnderWay(Tail(s), t)
  <2>1. PICK i \in 1 .. Len(s) : s[i].type = t
    BY <1>1, <1>4 DEF UnderWay
  <2>2. CASE i = 1
    BY <1>1, <2>1, <2>2
  <2>3. CASE i # 1
    <3>1. i - 1 \in 1 .. Len(s) - 1 /\ (i - 1) + 1 = i
      BY <1>1, <2>3
    <3>2. Tail(s)[i - 1] = s[i]
      BY <1>1, <3>1
    <3> QED  BY <1>1, <2>1, <3>1, <3>2 DEF UnderWay
  <2> QED  BY <2>2, <2>3
<1> QED  BY <1>1, <1>2, <1>3, <1>4

-----------------------------------------------------------------------------
(* What a step may be for a client c and the server.                       *)

\* The client and its place at the server stay what they are.
Stays(c) ==
    /\ client'[c].state = client[c].state /\ (c \in hasty' <=> c \in hasty)
    /\ c \in DOMAIN server'.slots => c \in DOMAIN server.slots
    /\ host'[c].targets = host[c].targets
    /\ old'[c] = old[c] /\ conflicts \subseteq conflicts'

\* It is none of their business.
LEMMA AgreeSame ==
  ASSUME Still, NEW c \in Clients, Stays(c), View(host'[c]) = View(host[c]),
         View(host'[Server]) = View(host[Server]), In(c)' = In(c), Out(c)' = Out(c)
  PROVE  AgreeOf(c)'
<1>1. Current(c)' => Current(c)
  BY DEF Current, Stays
<1>2. ASSUME Current(c)' PROVE Agreed(c)'
  <2>1. Agreed(c)
    BY <1>1, <1>2, CurrentState
  <2> QED  BY <2>1, PairMoved DEF Agreed, Stays
<1> QED  BY <1>1, <1>2 DEF Still, AgreeOf, Stays

\* The client says something.
LEMMA AgreeClientSays ==
  ASSUME Still, NEW c \in Clients, Stays(c), client[c].state # "PENDING", NEW m,
         Out(c)' = Append(Out(c), m), In(c)' = In(c), View(host'[Server]) = View(host[Server]),
         Does(View(host[c]), View(host'[c]), m),
         NewTo(m, View(host[Server]), Out(c), In(c))
  PROVE  AgreeOf(c)'
<1>1. ASSUME Current(c)' PROVE Agreed(c)'
  <2>1. Current(c) /\ client[c].state = "CONNECTED"
    BY <1>1 DEF Current, Stays
  <2>2. Agreed(c) /\ Heard(In(c)) = In(c)
    BY <2>1, CurrentState
  <2>3. Added(Out(c), Out(c)', m)
    BY StillState, LinkAdded
  <2> QED  BY <2>2, <2>3, PairSays DEF Agreed, Stays
<1> QED  BY <1>1 DEF Still, AgreeOf, Stays

\* The server says something.
LEMMA AgreeServerSays ==
  ASSUME Still, NEW c \in Clients, Stays(c), NEW m, m.type # "ACCEPT",
         In(c)' = Append(In(c), m), Out(c)' = Out(c), View(host'[c]) = View(host[c]),
         Does(View(host[Server]), View(host'[Server]), m),
         NewTo(m, View(host[c]), In(c), Out(c))
  PROVE  AgreeOf(c)'
<1>1. ASSUME Current(c)' PROVE Agreed(c)' /\ (client'[c].state = "PENDING" => UnderWay(In(c)', "ACCEPT"))
  <2>1. Current(c)
    BY <1>1 DEF Current, Stays
  <2>2. Agreed(c) /\ (client[c].state = "PENDING" => UnderWay(In(c), "ACCEPT"))
    BY <2>1, CurrentState
  <2>3. In(c) \in Seq(On(<<Server, c>>))
    BY StillState
  <2>4. Added(Heard(In(c)), Heard(In(c)'), m)
    BY <2>3, HeardAdded
  <2>5. \A n : About(Heard(In(c)), n) => About(In(c), n)
    BY DEF About, Heard
  <2>6. Pair(View(host[Server]), View(host[c]), Heard(In(c)), Out(c), old[c], {}, conflicts)
    BY <2>2, PairTurned DEF Agreed
  <2>7. NewTo(m, View(host[c]), Heard(In(c)), Out(c))
    BY <2>5 DEF NewTo
  <2>8. Pair(View(host'[Server]), View(host[c]), Heard(In(c)'), Out(c), old[c], {}, conflicts')
    BY <2>4, <2>6, <2>7, PairSays DEF Stays
  <2>9. Agreed(c)'
    BY <2>8, PairTurned DEF Agreed, Stays
  <2>10. UnderWay(In(c), "ACCEPT") => UnderWay(In(c)', "ACCEPT")
    BY <2>3 DEF UnderWay
  <2> QED  BY <2>2, <2>9, <2>10 DEF Stays
<1> QED  BY <1>1 DEF Still, AgreeOf, Stays

\* The server takes what the client said.
LEMMA AgreeServerTakes ==
  ASSUME Still, NEW c \in Clients, Stays(c), Out(c) # <<>>, NEW m, m = Head(Out(c)),
         m.type # "CONNECT",
         Out(c)' = Tail(Out(c)), In(c)' = In(c), View(host'[c]) = View(host[c]),
         Current(c) => Does(View(host[Server]), View(host'[Server]), m),
         Current(c) => Marked(m, In(c), conflicts')
  PROVE  AgreeOf(c)'
<1>1. Out(c) \in Seq(On(<<c, Server>>))
  BY StillState
<1>2. ASSUME client'[c].state = "PENDING"
      PROVE  Out(c)' # <<>> /\ Out(c)'[Len(Out(c)')].type = "CONNECT"
  <2>1. Out(c)[Len(Out(c))].type = "CONNECT"
    BY <1>2 DEF Still, AgreeOf, Stays
  <2> QED  BY <1>1, <2>1, LastKept
<1>3. ASSUME Current(c)' PROVE Agreed(c)' /\ client'[c].state # "PENDING"
  <2>1. Current(c) /\ client[c].state = "CONNECTED" /\ client'[c].state = "CONNECTED"
    BY <1>2, <1>3 DEF Current, Stays
  <2>2. /\ Agreed(c) /\ Heard(In(c)) = In(c) /\ AddsFirst(Out(c))
        /\ Parted(View(host[c]), View(host[Server]), Out(c), Heard(In(c)))
    BY <2>1, CurrentState
  <2>3. Removed(Out(c), Out(c)', m)
    BY <1>1, LinkRemoved
  <2> QED  BY <2>1, <2>2, <2>3, PairTakes DEF Agreed, Stays
<1> QED  BY <1>2, <1>3 DEF Still, AgreeOf, Stays

\* The client takes what the server said, or what was said before the ACCEPT it
\* waits for.
LEMMA AgreeClientTakes ==
  ASSUME Still, NEW c \in Clients, Stays(c), In(c) # <<>>, NEW m, m = Head(In(c)),
         m.type # "ACCEPT",
         In(c)' = Tail(In(c)), Out(c)' = Out(c), View(host'[Server]) = View(host[Server]),
         client[c].state = "PENDING" => View(host'[c]) = View(host[c]),
         client[c].state = "CONNECTED" => Does(View(host[c]), View(host'[c]), m),
         Marked(m, Out(c), conflicts')
  PROVE  AgreeOf(c)'
<1>1. In(c) \in Seq(On(<<Server, c>>))
  BY StillState
<1>2. ASSUME Current(c)'
      PROVE  Agreed(c)' /\ (client'[c].state = "PENDING" => UnderWay(In(c)', "ACCEPT"))
  <2>1. Current(c)
    BY <1>2 DEF Current, Stays
  <2>2. /\ Agreed(c) /\ AddsFirst(Heard(In(c)))
        /\ Parted(View(host[Server]), View(host[c]), Heard(In(c)), Out(c))
    BY <2>1, CurrentState, PairTurned
  <2>3. CASE client[c].state = "PENDING"
    <3>1. UnderWay(In(c), "ACCEPT") /\ UnderWay(In(c)', "ACCEPT")
      BY <1>1, <2>1, <2>3, CurrentState, LastKept
    <3>2. Moved(Heard(In(c)), Heard(In(c)'))
      BY <1>1, <3>1, HeardMoved
    <3>3. Agreed(c)'
      BY <2>2, <2>3, <3>2, PairMoved DEF Agreed, Stays
    <3> QED  BY <3>1, <3>3
  <2>4. CASE client[c].state = "CONNECTED"
    <3>1. Heard(In(c)) = In(c) /\ ~ UnderWay(In(c), "ACCEPT")
      BY <2>1, <2>4, CurrentState
    <3>2. ~ UnderWay(In(c)', "ACCEPT") /\ In(c)' \in Seq(On(<<Server, c>>))
      BY <1>1, <3>1 DEF UnderWay
    <3>3. Heard(In(c)') = In(c)'
      BY <3>2, HeardAll
    <3>4. Removed(Heard(In(c)), Heard(In(c)'), m)
      BY <1>1, <3>1, <3>3, LinkRemoved
    <3>5. Pair(View(host[Server]), View(host[c]), Heard(In(c)), Out(c), old[c], {}, conflicts)
      BY <2>2, PairTurned DEF Agreed
    <3>6. Pair(View(host[Server]), View(host'[c]), Heard(In(c)'), Out(c), old[c], {}, conflicts')
      BY <2>2, <2>4, <3>4, <3>5, PairTakes DEF Stays
    <3>7. Agreed(c)'
      BY <3>6, PairTurned DEF Agreed, Stays
    <3> QED  BY <2>4, <3>7 DEF Stays
  <2> QED  BY <2>1, <2>3, <2>4 DEF Current
<1> QED  BY <1>2 DEF Still, AgreeOf, Stays

\* The client is not in the session.
LEMMA AgreeOut ==
  ASSUME NEW c, client'[c].state \notin {"PENDING", "CONNECTED"}
  PROVE  AgreeOf(c)'
  BY DEF AgreeOf, Current

\* The client has lost its place at the server, or has none.
LEMMA AgreeApart ==
  ASSUME Still, NEW c \in Clients, c \notin DOMAIN server'.slots,
         client'[c].state = client[c].state, host'[c] = host[c], Out(c)' = Out(c)
  PROVE  AgreeOf(c)'
  BY DEF Still, AgreeOf, Current

\* The links of a client have it and the server as their ends.
LEMMA ClientLinks ==
  ASSUME NEW c \in Clients
  PROVE  /\ <<Server, c>> \in Links /\ <<c, Server>> \in Links /\ c # Server
         /\ <<Server, c>>[1] = Server /\ <<Server, c>>[2] = c
         /\ <<c, Server>>[1] = c /\ <<c, Server>>[2] = Server
  BY HostsAssumption DEF Links

\* What is taken.
LEMMA TakenEnds ==
  ASSUME Still, NEW c \in Clients
  PROVE  /\ In(c) # <<>> =>
               LET rest == [link EXCEPT ![<<Server, c>>] = Tail(@)]
               IN  /\ RightLinks(rest) /\ QuieterAll(link, rest)
                   /\ Head(In(c)) \in Messages
                   /\ \A d \in Clients :
                         /\ rest[<<Server, d>>] = IF d = c THEN Tail(In(c)) ELSE In(d)
                         /\ rest[<<d, Server>>] = Out(d)
         /\ Out(c) # <<>> =>
               LET rest == [link EXCEPT ![<<c, Server>>] = Tail(@)]
               IN  /\ RightLinks(rest) /\ QuieterAll(link, rest)
                   /\ Head(Out(c)) \in Messages
                   /\ \A d \in Clients :
                         /\ rest[<<d, Server>>] = IF d = c THEN Tail(Out(c)) ELSE Out(d)
                         /\ rest[<<Server, d>>] = In(d)
<1>1. /\ RightLinks(link) /\ DOMAIN link = Links
      /\ \A d \in Clients : d # Server /\ <<Server, d>> \in Links /\ <<d, Server>> \in Links
  BY StillState DEF RightLinks
<1>2. ASSUME NEW l \in Links, link[l] # <<>>
      PROVE  /\ RightLinks([link EXCEPT ![l] = Tail(@)])
             /\ QuieterAll(link, [link EXCEPT ![l] = Tail(@)]) /\ Head(link[l]) \in Messages
  BY <1>1, <1>2, TailRight, QuieterTaken DEF On
<1>3. \A d \in Clients : (<<Server, d>> = <<Server, c>> => d = c) /\ (<<d, Server>> = <<c, Server>> => d = c)
                         /\ <<Server, d>> # <<c, Server>> /\ <<d, Server>> # <<Server, c>>
  BY <1>1
<1>4. In(c) # <<>> =>
         LET rest == [link EXCEPT ![<<Server, c>>] = Tail(@)]
         IN  /\ RightLinks(rest) /\ QuieterAll(link, rest)
             /\ Head(In(c)) \in Messages
             /\ \A d \in Clients :
                   /\ rest[<<Server, d>>] = IF d = c THEN Tail(In(c)) ELSE In(d)
                   /\ rest[<<d, Server>>] = Out(d)
  BY <1>1, <1>2, <1>3 DEF In, Out
<1>5. Out(c) # <<>> =>
         LET rest == [link EXCEPT ![<<c, Server>>] = Tail(@)]
         IN  /\ RightLinks(rest) /\ QuieterAll(link, rest)
             /\ Head(Out(c)) \in Messages
             /\ \A d \in Clients :
                   /\ rest[<<d, Server>>] = IF d = c THEN Tail(Out(c)) ELSE Out(d)
                   /\ rest[<<Server, d>>] = In(d)
  BY <1>1, <1>2, <1>3 DEF In, Out
<1> QED  BY <1>4, <1>5

\* The server answers a client that waits.
LEMMA AgreeConnected ==
  ASSUME Still, NEW c \in Clients, Out(c) # <<>>, Head(Out(c)).type = "CONNECT",
         client' = client, hasty' = hasty, host'[c] = host[c], NEW id,
         Out(c)' = Tail(Out(c)), In(c)' = Append(In(c), Accept(id)),
         old'[c] = DOMAIN View(host'[Server])
  PROVE  AgreeOf(c)'
<1>1. Out(c) \in Seq(On(<<c, Server>>)) /\ In(c) \in Seq(On(<<Server, c>>))
  BY StillState
<1>2. client'[c].state = "PENDING" /\ Out(c)' # <<>> => Out(c)'[Len(Out(c)')].type = "CONNECT"
  BY <1>1, LastKept DEF Still, AgreeOf
<1>3. client'[c].state = "CONNECTED" => host'[c].targets = {Server}
  BY DEF Still, AgreeOf
<1>4. ASSUME Current(c)'
      PROVE  Agreed(c)' /\ (client'[c].state = "PENDING" => UnderWay(In(c)', "ACCEPT"))
  <2>1. client[c].state = "PENDING" /\ Out(c)' = <<>>
    <3>1. UnderWay(Out(c), "CONNECT")
      BY <1>1, LastKept DEF UnderWay
    <3>2. ~ (client[c].state = "CONNECTED" /\ c \notin hasty)
      BY <3>1 DEF Still, IdsOf
    <3> QED  BY <1>4, <3>2 DEF Current
  <2>2. Accept(id).type = "ACCEPT"
    BY DEF Accept
  <2>3. DOMAIN Heard(In(c)') = {}
    BY <1>1, <2>2, HeardAdded
  <2>4. DOMAIN View(host'[c]) = {}
    BY <2>1, StillState
  <2>5. Agreed(c)'
    <3>1. DOMAIN Out(c)' = {}
      BY <2>1
    <3>2. Pair(View(host'[c]), View(host'[Server]), Out(c)', Heard(In(c)'), {},
               DOMAIN View(host'[Server]), conflicts')
      BY <2>3, <2>4, <3>1, PairJoins
    <3> QED  BY <3>2 DEF Agreed
  <2>6. UnderWay(In(c)', "ACCEPT")
    <3>1. /\ Len(In(c)) + 1 \in DOMAIN Append(In(c), Accept(id))
          /\ Append(In(c), Accept(id))[Len(In(c)) + 1] = Accept(id)
      BY <1>1
    <3> QED  BY <2>2, <3>1 DEF UnderWay
  <2> QED  BY <2>5, <2>6
<1> QED  BY <1>2, <1>3, <1>4 DEF AgreeOf

\* The client takes the answer.
LEMMA AgreeAccepted ==
  ASSUME Still, NEW c \in Clients, In(c) # <<>>, Head(In(c)).type = "ACCEPT",
         client[c].state = "PENDING", client'[c].state = "CONNECTED",
         host'[c].targets = {Server}, host'[c].localId = host[c].localId,
         server' = server, host'[Server] = host[Server], UNCHANGED <<old, conflicts>>,
         In(c)' = Tail(In(c)), Out(c)' = Append(Out(c), Msg("GET_STATE")),
         c \notin hasty' => ~ UnderWay(Out(c), "CONNECT")
  PROVE  AgreeOf(c)'
<1>1. Out(c) \in Seq(On(<<c, Server>>)) /\ In(c) \in Seq(On(<<Server, c>>))
  BY StillState
<1>2. ASSUME Current(c)' PROVE Agreed(c)'
  <2>1. Out(c) = <<>>
    <3>1. ~ UnderWay(Out(c), "CONNECT")
      BY <1>2 DEF Current
    <3>2. Out(c) # <<>> => Len(Out(c)) \in DOMAIN Out(c)
      BY <1>1
    <3> QED  BY <3>1, <3>2 DEF Still, AgreeOf, UnderWay
  <2>2. Current(c)
    BY <1>2, <2>1 DEF Current
  <2>3. Agreed(c) /\ UnderWay(In(c), "ACCEPT")
    BY <2>2, CurrentState
  <2>4. Moved(Heard(In(c)), Heard(In(c)'))
    BY <1>1, <2>3, HeardMoved
  <2>5. Pair(View(host[c]), View(host[Server]), Out(c), Heard(In(c)'), {}, old[c], conflicts)
    BY <2>3, <2>4, PairMoved DEF Agreed
  <2>6. Added(Out(c), Out(c)', Msg("GET_STATE")) /\ ~ IsOp(Msg("GET_STATE"))
        /\ Msg("GET_STATE").type # "add"
    BY <1>1, LinkAdded, Signals DEF Msg
  <2>7. DOMAIN View(host[c]) = {} /\ DOMAIN View(host'[c]) = {}
    BY StillState DEF View
  <2>8. Does(View(host[c]), View(host'[c]), Msg("GET_STATE"))
    BY <2>6, <2>7 DEF Does, IsOp
  <2>9. NewTo(Msg("GET_STATE"), View(host[Server]), Out(c), Heard(In(c)'))
    BY <2>6 DEF NewTo
  <2> QED  BY <2>5, <2>6, <2>8, <2>9, PairSays DEF Agreed
<1> QED  BY <1>2 DEF AgreeOf, Current

\* What all clients have after a step.
AgreeStep == OpsInv' /\ \A c \in Clients : AgreeOf(c)'

\* The client says something that is no operation, if it has somebody to say it to.
LEMMA AgreeSignal ==
  ASSUME Still, NamesStep, NEW c \in Clients, NEW m, ~ IsOp(m),
         link' = Sent(link, c, host[c].targets, m), host' = host, server' = server,
         client'[c].state = client[c].state, \A d \in Clients : d # c => client'[d] = client[d],
         UNCHANGED history
  PROVE  AgreeStep
<1>1. OpsInv'
  <2>1. QuieterAll(link, link)
    BY StillState, QuieterLinks DEF QuieterAll, RightLinks
  <2> QED  BY <2>1, StillState, QuieterSent, OpsQuiet DEF Still, NamesStep
<1>2. \A d \in Clients : In(d)' = In(d) /\ Out(d)' = IF d = c /\ Server \in host[c].targets
                                                    THEN Append(Out(d), m) ELSE Out(d)
  BY ClientLinks DEF In, Out, Sent
<1>3. ASSUME NEW d \in Clients PROVE AgreeOf(d)'
  <2>1. Stays(d)
    BY <1>3 DEF Stays, history
  <2>2. CASE d = c /\ Server \in host[c].targets
    <3>1. client[c].state # "PENDING"
      BY <2>2, StillState
    <3>2. m.type # "add"
      BY DEF IsOp
    <3>3. Does(View(host[c]), View(host'[c]), m) /\ NewTo(m, View(host[Server]), Out(c), In(c))
      BY <3>2, SignalDoes DEF NewTo
    <3> QED  BY <1>2, <2>1, <2>2, <3>1, <3>3, AgreeClientSays
  <2>3. CASE ~ (d = c /\ Server \in host[c].targets)
    BY <1>2, <2>1, <2>3, AgreeSame
  <2> QED  BY <2>2, <2>3
<1> QED  BY <1>1, <1>3 DEF AgreeStep

\* The client leaves, and may say so.
LEMMA AgreeCloses ==
  ASSUME Still, NamesStep, NEW c \in Clients, Close(c), UNCHANGED <<server, history>>,
         \/ link' = link
         \/ \E T, m : link' = Sent(link, c, T, m) /\ ~ IsOp(m)
  PROVE  AgreeStep
<1>1. OpsInv'
  <2>1. QuieterAll(link, link)
    BY StillState, QuieterLinks DEF QuieterAll, RightLinks
  <2>2. QuieterAll(link, link')
    BY <2>1, StillState, QuieterSent
  <2> QED  BY <2>2, OpsQuiet DEF Still, NamesStep
<1>2. \A d \in Clients : d # c => In(d)' = In(d) /\ Out(d)' = Out(d)
  BY ClientLinks DEF In, Out, Sent
<1>3. /\ client'[c].state = "IDLE"
      /\ \A d \in Clients : d # c => client'[d] = client[d] /\ host'[d] = host[d]
      /\ host'[Server] = host[Server]
  BY StillState DEF Close, NewClient
<1>4. ASSUME NEW d \in Clients PROVE AgreeOf(d)'
  <2>1. CASE d = c
    BY <1>3, <2>1, AgreeOut
  <2>2. CASE d # c
    <3>1. Stays(d)
      BY <1>3, <2>2 DEF Stays, history
    <3> QED  BY <1>2, <1>3, <2>2, <3>1, AgreeSame
  <2> QED  BY <2>1, <2>2
<1> QED  BY <1>1, <1>4 DEF AgreeStep

\* The steps of a client.
LEMMA AgreeClient ==
  ASSUME Still, NamesStep, NEW c \in Clients, Connect(c) \/ Disconnect(c) \/ UpdateClient(c)
  PROVE  AgreeStep
<1>1. /\ \A t \in {"CONNECT", "DISCONNECT", "ALIVE"} : ~ IsOp(Msg(t)) /\ Msg(t).type = t
      /\ DOMAIN client = Clients /\ client[c] \in ClientType
  BY StillState, Signals DEF Msg
<1>2. CASE Connect(c)
  <2>1. /\ client[c].state = "IDLE" /\ client'[c].state = "PENDING"
        /\ \A d \in Clients : d # c => client'[d] = client[d]
        /\ link' = Sent(link, c, {Server}, Msg("CONNECT"))
        /\ UNCHANGED <<host, server, history>>
    BY <1>1, <1>2 DEF Connect
  <2>2. OpsInv'
    <3>1. QuieterAll(link, link)
      BY StillState, QuieterLinks DEF QuieterAll, RightLinks
    <3> QED  BY <1>1, <2>1, <3>1, StillState, QuieterSent, OpsQuiet DEF Still, NamesStep
  <2>3. \A d \in Clients : In(d)' = In(d)
                           /\ Out(d)' = IF d = c THEN Append(Out(d), Msg("CONNECT")) ELSE Out(d)
    BY <2>1, ClientLinks DEF In, Out, Sent
  <2>4. ASSUME NEW d \in Clients, d # c PROVE AgreeOf(d)'
    <3>1. Stays(d)
      BY <2>1, <2>4 DEF Stays, history
    <3> QED  BY <2>1, <2>3, <2>4, <3>1, AgreeSame
  <2>5. AgreeOf(c)'
    <3>1. Out(c) \in Seq(On(<<c, Server>>))
      BY StillState
    <3>2. Out(c)' # <<>> /\ Out(c)'[Len(Out(c)')] = Msg("CONNECT")
      BY <2>3, <3>1
    <3> QED  BY <1>1, <2>1, <3>2 DEF AgreeOf, Current
  <2> QED  BY <2>2, <2>4, <2>5 DEF AgreeStep
<1>3. CASE Disconnect(c)
  BY <1>1, <1>3, AgreeCloses DEF Disconnect
<1>4. CASE UpdateClient(c) /\ Close(c)
  BY <1>1, <1>4, AgreeCloses DEF UpdateClient
<1>5. CASE UpdateClient(c) /\ ~ Close(c)
  <2>1. /\ link' = link \/ link' = Sent(link, c, host[c].targets, Msg("ALIVE"))
        /\ UNCHANGED <<host, server, history>>
        /\ \E r, s, n : client' = [client EXCEPT ![c] = [@ EXCEPT !.countNext = n, !.recv = r, !.sent = s]]
    BY <1>5 DEF UpdateClient
  <2>2. client'[c].state = client[c].state /\ \A d \in Clients : d # c => client'[d] = client[d]
    BY <1>1, <2>1 DEF ClientType
  <2>3. CASE link' = link
    <3>1. ASSUME NEW d \in Clients PROVE AgreeOf(d)'
      <4>1. Stays(d)
        BY <2>1, <2>2 DEF Stays, history
      <4> QED  BY <2>1, <2>3, <4>1, AgreeSame DEF In, Out
    <3>2. QuieterAll(link, link')
      BY <2>3, StillState, QuieterLinks DEF QuieterAll, RightLinks
    <3>3. OpsInv'
      BY <3>2, OpsQuiet DEF Still, NamesStep
    <3> QED  BY <3>1, <3>3 DEF AgreeStep
  <2>4. CASE link' = Sent(link, c, host[c].targets, Msg("ALIVE"))
    BY <1>1, <2>1, <2>2, <2>4, AgreeSignal
  <2> QED  BY <2>1, <2>3, <2>4
<1> QED  BY <1>2, <1>3, <1>4, <1>5

\* The server listens when every session is over.
LEMMA AgreeListen ==
  ASSUME Still, Listen, Over
  PROVE  AgreeStep
<1>1. /\ \A l \in Links : link'[l] = <<>>
      /\ link' = link /\ client' = client /\ server'.slots = server.slots
      /\ \A c \in Clients : host'[c] = host[c]
  BY ServerHost, HostsAssumption DEF Listen, Over, net, Still, TypesInv, SlotsInv, SlotIds
<1>2. \A l \in Links : \A n : AddsFirst(link'[l]) /\ ~ About(link'[l], n) /\ ~ Carries(link'[l], n)
  BY <1>1 DEF AddsFirst, About, Carries
<1>3. OpsInv'
  BY <1>2, ClientLinks DEF OpsInv, In, Out
<1>4. DOMAIN server'.slots = {}
  BY <1>1, StillState DEF Listen
<1>5. \A c \in Clients : AgreeOf(c)'
  BY <1>1, <1>4, AgreeApart DEF Out
<1> QED  BY <1>3, <1>5 DEF AgreeStep

\* The server stops.
LEMMA AgreeStop ==
  ASSUME Still, NamesStep, Stop
  PROVE  AgreeStep
<1>1. /\ link' = Sent(link, Server, host[Server].targets, Msg("DROP")) /\ client' = client
      /\ DOMAIN server'.slots = {}
      /\ \A c \in Clients : host'[c] = host[c]
  BY ServerHost, HostsAssumption, StillState DEF Stop, Still, TypesInv, SlotsInv, SlotIds
<1>2. QuieterAll(link, link) /\ ~ IsOp(Msg("DROP"))
  BY StillState, QuieterLinks, Signals DEF QuieterAll, RightLinks
<1>3. OpsInv'
  BY <1>1, <1>2, StillState, QuieterSent, OpsQuiet DEF Still, NamesStep
<1>4. \A c \in Clients : Out(c)' = Out(c)
  BY <1>1, ClientLinks DEF Out, Sent
<1>5. \A c \in Clients : AgreeOf(c)'
  BY <1>1, <1>4, AgreeApart
<1> QED  BY <1>3, <1>5 DEF AgreeStep

\* The server watches its clients.
LEMMA AgreeUpdate ==
  ASSUME Still, NamesStep, UpdateServer
  PROVE  AgreeStep
<1> DEFINE slots == server.slots
           expired == {c \in DOMAIN slots : Expired(slots[c].recv + 1)}
           stay == DOMAIN slots \ expired
           alive == {c \in stay : slots[c].sent + 1 > MinAlive}
           dropped == Sent(link, Server, expired, Msg("DROP"))
<1>1. /\ link' = Sent(dropped, Server, alive, Msg("ALIVE"))
      /\ host' = [host EXCEPT ![Server].targets = @ \ expired]
      /\ UNCHANGED <<client, history>>
      /\ alive \subseteq stay /\ stay \cap expired = {}
  BY DEF UpdateServer
<1>2. DOMAIN server'.slots = stay
  BY DEF UpdateServer, Still, TypesInv, SlotsInv, SlotIds
<1>3. stay \subseteq DOMAIN server.slots
  OBVIOUS
<1> HIDE DEF stay, expired, alive
<1>4. View(host'[Server]) = View(host[Server]) /\ \A c \in Clients : host'[c] = host[c]
  <2>1. host[Server].localId = host'[Server].localId /\ host[Server].nodes = host'[Server].nodes
    BY <1>1, StillState DEF WellTyped, Fields
  <2>2. View(host'[Server]) = View(host[Server])
    BY <2>1 DEF View
  <2>3. \A c \in Clients : host'[c] = host[c]
    BY <1>1, StillState
  <2> QED  BY <2>2, <2>3
<1>5. \A t \in {"DROP", "ALIVE"} : Msg(t) \in Messages /\ ~ IsOp(Msg(t)) /\ Msg(t).type = t
  BY Signals DEF Msg
<1>6. QuieterAll(link, link) /\ RightLinks(dropped)
  BY <1>5, StillState, QuieterLinks, SentOther DEF QuieterAll, RightLinks
<1>7. OpsInv'
  BY <1>1, <1>5, <1>6, StillState, QuieterSent, OpsQuiet DEF Still, NamesStep
<1>8. \A c \in Clients :
         /\ Out(c)' = Out(c)
         /\ c \in stay => In(c)' = IF c \in alive THEN Append(In(c), Msg("ALIVE")) ELSE In(c)
  BY <1>1, ClientLinks DEF In, Out, Sent
<1>9. ASSUME NEW c \in Clients PROVE AgreeOf(c)'
  <2>1. CASE c \notin stay
    BY <1>1, <1>2, <1>4, <1>8, <2>1, AgreeApart
  <2>2. CASE c \in stay
    <3>1. Stays(c)
      BY <1>1, <1>3, <1>4, <2>2 DEF Stays, history
    <3>2. Does(View(host[Server]), View(host'[Server]), Msg("ALIVE"))
      BY <1>4, <1>5, SignalDoes
    <3>3. NewTo(Msg("ALIVE"), View(host[c]), In(c), Out(c))
      BY <1>5 DEF NewTo
    <3> QED  BY <1>4, <1>5, <1>8, <2>2, <3>1, <3>2, <3>3, AgreeServerSays, AgreeSame
  <2> QED  BY <2>1, <2>2
<1> QED  BY <1>7, <1>9 DEF AgreeStep

\* The user of a host does something, which the host tells its targets.
LEMMA AgreeUser ==
  ASSUME Still, NamesStep, NEW h \in Hosts, host[h].on, NEW op, IsOp(op), NEW y,
         host' = [host EXCEPT ![h] = y], y.targets = host[h].targets,
         Does(View(host[h]), View(y), op), link' = Sent(link, h, host[h].targets, op),
         UNCHANGED <<client, server, history>>,
         op.type = "add" => /\ \A l \in Links : ~ About(link[l], op.net)
                            /\ \A g \in Hosts : op.net \notin DOMAIN host[g].localId,
         op.type # "add" => op.net = NoNet \/ op.net \in DOMAIN host[h].localId,
         Past(op.net)' \/ op.net = NoNet
  PROVE  AgreeStep
<1>1. /\ \A g \in Hosts : host'[g] = IF g = h THEN y ELSE host[g]
      /\ h # Server => h \in Clients
  BY StillState DEF Hosts
<1>2. \A c \in Clients :
         /\ In(c)' = IF h = Server /\ c \in host[h].targets THEN Append(In(c), op) ELSE In(c)
         /\ Out(c)' = IF h = c /\ Server \in host[h].targets THEN Append(Out(c), op) ELSE Out(c)
  BY ClientLinks DEF In, Out, Sent
<1>3. \A l \in Links : Carries(link[l], op.net) => op.type # "add"
  BY DEF Carries, About, IsOp
<1>4. OpsInv'
  <2>1. QuieterAll(link, link)
    BY StillState, QuieterLinks DEF QuieterAll, RightLinks
  <2>2. h = Server => Server \notin host[h].targets
    BY StillState
  <2>3. ASSUME NEW c \in Clients, c # h PROVE ~ Carries(Out(c), op.net)
    <3>1. ASSUME Carries(Out(c), op.net) PROVE FALSE
      <4>1. op.net \in DOMAIN host[h].localId
        BY <1>3, <3>1, ClientLinks DEF Still, NamesFresh, AddsNew, Out
      <4>2. CASE h = Server
        BY <3>1, <4>1, <4>2, ClientLinks DEF Still, NamesFresh, AddsNew, Out
      <4>3. CASE h \in Clients
        BY <2>3, <3>1, <4>1, <4>3 DEF Still, NamesFresh, AddsNew
      <4> QED  BY <1>1, <4>2, <4>3
    <3> QED  BY <3>1
  <2>4. ASSUME h \in Clients PROVE ~ Carries(In(h), op.net) /\ Server \notin Clients
    <3>1. ASSUME Carries(In(h), op.net) PROVE FALSE
      <4>1. op.net \in DOMAIN host[h].localId
        BY <1>3, <2>4, <3>1, ClientLinks DEF Still, NamesFresh, AddsNew, In
      <4> QED  BY <2>4, <3>1, <4>1, ClientLinks DEF Still, NamesFresh, AddsNew, In
    <3> QED  BY <3>1, HostsAssumption
  <2>5. /\ \A c \in Clients : c # h => ~ Carries(link[<<c, Server>>], op.net)
        /\ h \in Clients => ~ Carries(link[<<Server, h>>], op.net) /\ Server \notin Clients
    BY <2>3, <2>4 DEF In, Out
  <2>6. RightLinks(link) /\ OpsInv /\ \A n : Past(n) => Past(n)'
    BY StillState DEF Still, NamesStep
  <2> QED  BY <2>1, <2>2, <2>5, <2>6, OpsSaid
<1>5. ASSUME NEW c \in Clients PROVE AgreeOf(c)'
  <2>1. c \in Hosts /\ c # Server /\ Server \in Hosts
        /\ (c \in DOMAIN server.slots <=> c \in host[Server].targets)
    BY StillState
  <2>2. Stays(c)
    BY <1>1, <2>1 DEF Stays, history
  <2>3. op.type = "add" => /\ ~ About(In(c), op.net) /\ ~ About(Out(c), op.net)
                           /\ op.net \notin DOMAIN View(host[c])
                           /\ op.net \notin DOMAIN View(host[Server])
    BY <2>1, ClientLinks DEF In, Out, View
  <2>4. CASE h = Server
    <3>1. host'[c] = host[c] /\ host'[Server] = y /\ Out(c)' = Out(c)
      BY <1>1, <1>2, <2>1, <2>4
    <3>2. CASE c \in host[Server].targets
      <4>1. In(c)' = Append(In(c), op) /\ op.type # "ACCEPT"
        BY <1>2, <2>4, <3>2 DEF IsOp
      <4>2. NewTo(op, View(host[c]), In(c), Out(c))
        BY <2>3 DEF NewTo
      <4> QED  BY <2>2, <2>4, <3>1, <4>1, <4>2, AgreeServerSays
    <3>3. CASE c \notin host[Server].targets
      BY <2>1, <3>1, <3>3, AgreeApart
    <3> QED  BY <3>2, <3>3
  <2>5. CASE h = c
    <3>1. host'[Server] = host[Server] /\ host'[c] = y /\ In(c)' = In(c)
      BY <1>1, <1>2, <2>1, <2>5
    <3>2. client[c].state = "CONNECTED" \/ client'[c].state = "CLOSING"
      BY <2>5, StillState
    <3>3. CASE client[c].state = "CONNECTED"
      <4>1. Out(c)' = Append(Out(c), op)
        BY <1>2, <2>5, <3>3 DEF Still, AgreeOf
      <4>2. NewTo(op, View(host[Server]), Out(c), In(c))
        BY <2>3 DEF NewTo
      <4> QED  BY <2>2, <2>5, <3>1, <3>3, <4>1, <4>2, AgreeClientSays
    <3> QED  BY <3>2, <3>3, AgreeOut
  <2>6. CASE h # Server /\ h # c
    BY <1>1, <1>2, <2>1, <2>2, <2>6, AgreeSame
  <2> QED  BY <2>4, <2>5, <2>6
<1> QED  BY <1>4, <1>5 DEF AgreeStep

\* What users do to the nodes.
LEMMA AgreeAdd ==
  ASSUME Still, NamesStep, NEW h \in Hosts, AddNode(h), NEW x, x = host[h]
  PROVE  AgreeStep
<1> DEFINE n == <<x.id, x.lastId>>
           y == Named(WithNode(x), n, x.lastId)
           op == Op("add", n, 0, h)
<1>1. /\ WellTyped(x) /\ NamesOk(x) /\ x.on
      /\ x.id \in Nat /\ x.lastId \in Nat
  BY StillState DEF WellTyped, AddNode
<1>2. HandleAdd(WithNode(x), x.lastId) = y /\ y.targets = x.targets
      /\ y.id = x.id
  BY <1>1 DEF HandleAdd, WithNode, Named, WellTyped, Fields
<1>3. /\ host' = [host EXCEPT ![h] = y]
      /\ link' = Sent(link, h, x.targets, op)
      /\ UNCHANGED <<client, server, history>>
  BY <1>2 DEF AddNode, HandleAdd, WithNode, Named, WellTyped, Fields
<1>4. ~ Past(n) /\ n # NoNet
  <2>1. /\ n[1] = x.id /\ n[2] = x.lastId
        /\ h = Server => n[1] = 0
        /\ h # Server => h \in Clients /\ Has(h, n[1])
    BY <1>1 DEF Still, NamesFresh, InSession, Has, Hosts
  <2>2. 0 < x.lastId
    BY <1>1 DEF NamesOk
  <2> QED  BY <1>1, <2>1, <2>2 DEF Past, NoNet
<1>5. ~ Used(n) /\ \A l \in Links : ~ About(link[l], n)
  BY <1>4 DEF Still, NamesFresh, OpsInv
<1>6. op.type = "add" /\ op.net = n /\ IsOp(op)
  BY DEF Op, IsOp
<1> HIDE DEF n, op
<1>7. \A g \in Hosts : n \notin DOMAIN host[g].localId
  BY <1>5 DEF Used
<1>8. Does(View(x), View(y), op)
  BY <1>1, <1>6, <1>7, ViewAdded
<1>9. Past(n)'
  <2>1. host'[h] = y /\ n \in DOMAIN y.localId
    BY <1>1, <1>3, StillState DEF Named, WithNode, With, WellTyped, Fields
  <2>2. Used(n)'
    BY <2>1 DEF Used
  <2> QED  BY <2>2 DEF NamesStep, NamesFresh
<1> HIDE DEF y
<1> QED  BY <1>1, <1>2, <1>3, <1>5, <1>6, <1>7, <1>8, <1>9, AgreeUser

LEMMA AgreeChange ==
  ASSUME Still, NamesStep, NEW h \in Hosts, NEW k \in DOMAIN host[h].nodes,
         NEW t \in {"delete", "param", "activate", "deactivate"}, NEW v \in Values \cup {0},
         ChangeNode(h, k, t, v), NEW x, x = host[h]
  PROVE  AgreeStep
<1> DEFINE op == Op(t, NetOf(x, k), v, h)
           y == HandleOther(Changed(x, k, op), op, k)
<1>1. /\ WellTyped(x) /\ NamesOk(x) /\ x.on
      /\ host' = [host EXCEPT ![h] = y]
      /\ link' = Sent(link, h, x.targets, op)
      /\ UNCHANGED <<client, server, history>>
  BY StillState DEF ChangeNode
<1>2. op.type = t /\ op.net = NetOf(x, k) /\ IsOp(op) /\ op \in Ops /\ op.type # "add"
  <2>1. NetOf(x, k) \in Nets
    BY <1>1, HandlersKeep
  <2>2. IsOp(op) /\ op \in Messages
    BY <2>1, Operations
  <2> QED  BY <2>2, Operations DEF Op
<1> HIDE DEF op
<1>3. Kept(x, y)
  BY <1>1, <1>2, HandlersKeep
<1>4. /\ Does(View(x), View(y), op)
      /\ op.net = NoNet \/ op.net \in DOMAIN x.localId
  BY <1>1, <1>2, ViewUser DEF NamesOk
<1> HIDE DEF y
<1>5. Past(op.net)' \/ op.net = NoNet
  BY <1>4 DEF Still, NamesStep, NamesFresh, Used
<1> QED  BY <1>1, <1>2, <1>3, <1>4, <1>5, AgreeUser DEF Kept

\* The server is gone for the client, and takes what is still on the way.
LEMMA AgreeGone ==
  ASSUME Still, NEW c \in Clients, c \notin DOMAIN server'.slots, Out(c) # <<>>,
         client'[c].state = client[c].state, host'[c] = host[c], Out(c)' = Tail(Out(c))
  PROVE  AgreeOf(c)'
<1>1. Out(c) \in Seq(On(<<c, Server>>))
  BY StillState
<1>2. ASSUME client'[c].state = "PENDING", Out(c)' # <<>>
      PROVE  Out(c)'[Len(Out(c)')].type = "CONNECT"
  <2>1. Out(c)[Len(Out(c))].type = "CONNECT"
    BY <1>2 DEF Still, AgreeOf
  <2> QED  BY <1>1, <1>2, <2>1, LastKept
<1> QED  BY <1>2 DEF Still, AgreeOf, Current

\* What a host, which was x, makes of an operation: it does not listen to it, it is on
\* a node the host does not know, or it is done and, by the server, passed on.
Handled(from, to, op, rest, x) ==
    \/ /\ link' = rest /\ host' = host
       /\ from \notin x.targets \/ Does(View(x), View(x), op)
    \/ /\ from \in x.targets
       /\ link' = IF to = Server THEN Sent(rest, to, Others(x, from), op) ELSE rest
       /\ \E y : /\ host' = [host EXCEPT ![to] = y]
                 /\ y.targets = x.targets /\ Does(View(x), View(y), op)

\* A host takes an operation.
LEMMA Received ==
  ASSUME Still, NEW from, NEW to \in Hosts, NEW op \in Ops, IsOp(op), NEW rest,
         Receive(from, to, op, rest), NEW x, x = host[to],
         op.type = "add" => op.net \notin DOMAIN x.localId,
         <<to, from>> \in Links
  PROVE  /\ conflicts \subseteq conflicts' /\ Marked(op, link[<<to, from>>], conflicts')
         /\ Handled(from, to, op, rest, x)
<1>1. WellTyped(x) /\ NamesOk(x)
  BY StillState
<1>2. conflicts \subseteq conflicts' /\ Marked(op, link[<<to, from>>], conflicts')
  <2>1. DOMAIN link[<<to, from>>] = 1 .. Len(link[<<to, from>>])
    BY StillState DEF RightLinks
  <2> QED  BY <2>1 DEF Receive, Crosses, Marked, About
<1>3. CASE from \notin x.targets
  BY <1>2, <1>3 DEF Receive, Handled
<1>4. CASE from \in x.targets /\ op.type # "add" /\ ~ Known(x, op.net)
  BY <1>1, <1>2, <1>4, ViewTold DEF Receive, Handled
<1>5. CASE from \in x.targets /\ (op.type # "add" => Known(x, op.net))
  <2>1. PICK y \in (IF op.type = "add" THEN {AddCallback(x, op)} ELSE OtherCallbacks(x, op)) :
           /\ host' = [host EXCEPT ![to] = y]
           /\ link' = IF to = Server THEN Sent(rest, to, Others(x, from), op) ELSE rest
    BY <1>5 DEF Receive
  <2>2. y.targets = x.targets
    BY <1>1, <1>5, CallbacksKeep DEF Kept
  <2>3. Does(View(x), View(y), op)
    BY <1>1, <1>5, ViewAdded, ViewTold DEF AddCallback
  <2> QED  BY <1>2, <1>5, <2>1, <2>2, <2>3 DEF Handled
<1> QED  BY <1>3, <1>4, <1>5

\* What comes to a client.
LEMMA AgreeToClient ==
  ASSUME Still, NamesStep, NEW c \in Clients, DeliverToClient(c), NEW m, m = Head(In(c)),
         NEW rest, rest = [link EXCEPT ![<<Server, c>>] = Tail(@)]
  PROVE  AgreeStep
<1>1. /\ In(c) # <<>> /\ RightLinks(rest) /\ QuieterAll(link, rest) /\ m \in Messages
      /\ \A d \in Clients : /\ rest[<<Server, d>>] = IF d = c THEN Tail(In(c)) ELSE In(d)
                            /\ rest[<<d, Server>>] = Out(d)
  BY TakenEnds DEF DeliverToClient, In
<1>2. /\ DOMAIN host = Hosts /\ DOMAIN client = Clients /\ client[c] \in ClientType
      /\ c \in Hosts /\ c # Server /\ Server \in Hosts
      /\ UNCHANGED <<server, old>>
  BY StillState DEF DeliverToClient
<1>3. \/ client[c].state = "IDLE" /\ link' = rest /\ UNCHANGED <<client, host, conflicts, hasty>>
      \/ m.type = "DROP" /\ ClientDrop(c) /\ link' = rest /\ UNCHANGED <<host, conflicts, hasty>>
      \/ m.type = "ALIVE" /\ ClientAlive(c) /\ link' = rest /\ UNCHANGED <<host, conflicts, hasty>>
      \/ m.type = "ACCEPT" /\ ClientAccept(c, m, rest) /\ UNCHANGED conflicts
      \/ IsOp(m) /\ Receive(Server, c, m, rest) /\ UNCHANGED <<client, hasty>>
  BY DEF DeliverToClient, In
<1>4. ASSUME link' = rest
      PROVE  /\ OpsInv'
             /\ \A d \in Clients : /\ In(d)' = IF d = c THEN Tail(In(c)) ELSE In(d)
                                   /\ Out(d)' = Out(d)
  BY <1>1, <1>4, OpsQuiet DEF Still, NamesStep, In, Out
<1>5. ASSUME NEW d \in Clients, d # c, client'[d] = client[d], host'[d] = host[d],
             host'[Server] = host[Server], d \in hasty' <=> d \in hasty,
             conflicts \subseteq conflicts', In(d)' = In(d), Out(d)' = Out(d)
      PROVE  AgreeOf(d)'
  BY <1>2, <1>5, AgreeSame DEF Stays
<1>6. CASE client[c].state = "IDLE" /\ link' = rest /\ UNCHANGED <<client, host, conflicts, hasty>>
  <2>1. AgreeOf(c)'
    BY <1>6, AgreeOut
  <2> QED  BY <1>4, <1>5, <1>6, <2>1 DEF AgreeStep
<1>7. CASE m.type = "DROP" /\ ClientDrop(c) /\ link' = rest /\ UNCHANGED <<host, conflicts, hasty>>
  <2>1. client'[c].state = "CLOSING" /\ \A d \in Clients : d # c => client'[d] = client[d]
    BY <1>2, <1>7 DEF ClientDrop, ClientType
  <2>2. AgreeOf(c)'
    BY <2>1, AgreeOut
  <2> QED  BY <1>4, <1>5, <1>7, <2>1, <2>2 DEF AgreeStep
<1>8. CASE m.type = "ALIVE" /\ ClientAlive(c) /\ link' = rest /\ UNCHANGED <<host, conflicts, hasty>>
  <2>1. client'[c].state = client[c].state /\ \A d \in Clients : d # c => client'[d] = client[d]
    BY <1>2, <1>8 DEF ClientAlive, ClientType
  <2>2. Stays(c)
    BY <1>2, <1>8, <2>1 DEF Stays
  <2>3. Does(View(host[c]), View(host'[c]), m) /\ Marked(m, Out(c), conflicts')
    BY <1>8, SignalDoes DEF IsOp, Marked
  <2>4. AgreeOf(c)'
    BY <1>1, <1>4, <1>8, <2>2, <2>3, AgreeClientTakes
  <2> QED  BY <1>4, <1>5, <1>8, <2>1, <2>4 DEF AgreeStep
<1>9. CASE m.type = "ACCEPT" /\ ClientAccept(c, m, rest) /\ UNCHANGED conflicts
           /\ client[c].state # "PENDING"
  <2>1. link' = rest /\ UNCHANGED <<client, host, hasty>>
    BY <1>9 DEF ClientAccept
  <2>2. ~ (client[c].state = "CONNECTED" /\ c \notin hasty)
    <3>1. In(c) \in Seq(On(<<Server, c>>))
      BY StillState
    <3>2. UnderWay(In(c), "ACCEPT")
      BY <1>1, <1>9, <3>1, LastKept DEF UnderWay
    <3> QED  BY <3>2 DEF Still, IdsOf
  <2>3. AgreeOf(c)'
    BY <1>9, <2>1, <2>2 DEF AgreeOf, Current, Still
  <2> QED  BY <1>4, <1>5, <1>9, <2>1, <2>3 DEF AgreeStep
<1>10. CASE m.type = "ACCEPT" /\ ClientAccept(c, m, rest) /\ UNCHANGED conflicts
            /\ client[c].state = "PENDING"
  <2>1. /\ client' = [client EXCEPT ![c].state = "CONNECTED"]
        /\ host' = [host EXCEPT ![c] = Accepted(@, m.id)]
        /\ link' = Sent(rest, c, {Server}, Msg("GET_STATE"))
        /\ hasty' = IF UnderWay(rest[<<c, Server>>], "CONNECT")
                       \/ UnderWay(rest[<<Server, c>>], "ACCEPT")
                    THEN hasty \cup {c} ELSE hasty \ {c}
    BY <1>10 DEF ClientAccept
  <2>2. /\ client'[c].state = "CONNECTED" /\ \A d \in Clients : d # c => client'[d] = client[d]
        /\ \A h \in Hosts : h # c => host'[h] = host[h]
        /\ \A d \in Clients : d # c => d \in Hosts
    BY <1>2, <2>1, StillState DEF ClientType
  <2>3. host'[c].targets = {Server} /\ host'[c].localId = host[c].localId
    BY <1>2, <2>1, StillState DEF Accepted, Emptied, WellTyped, Fields
  <2>4. OpsInv'
    <3>1. ~ IsOp(Msg("GET_STATE"))
      BY Signals
    <3>2. QuieterAll(link, link')
      BY <1>1, <2>1, <3>1, QuieterSent
    <3> QED  BY <3>2, OpsQuiet DEF Still, NamesStep
  <2>5. \A d \in Clients :
           /\ In(d)' = IF d = c THEN Tail(In(c)) ELSE In(d)
           /\ Out(d)' = IF d = c THEN Append(Out(c), Msg("GET_STATE")) ELSE Out(d)
    <3>1. \A l \in Links : link'[l] = IF l[1] = c /\ l[2] \in {Server}
                                     THEN Append(rest[l], Msg("GET_STATE")) ELSE rest[l]
      BY <2>1 DEF Sent
    <3>2. \A d \in Clients :
             /\ link'[<<Server, d>>] = rest[<<Server, d>>]
             /\ link'[<<d, Server>>] = IF d = c THEN Append(rest[<<d, Server>>], Msg("GET_STATE"))
                                       ELSE rest[<<d, Server>>]
      BY <3>1, ClientLinks
    <3> QED  BY <1>1, <3>2 DEF In, Out
  <2>6. /\ c \notin hasty' => ~ UnderWay(Out(c), "CONNECT")
        /\ \A d \in Clients : d # c => (d \in hasty' <=> d \in hasty)
    BY <1>1, <2>1
  <2>7. AgreeOf(c)'
    BY <1>1, <1>2, <1>10, <2>2, <2>3, <2>5, <2>6, AgreeAccepted
  <2> QED  BY <1>2, <1>5, <1>10, <2>2, <2>4, <2>5, <2>6, <2>7 DEF AgreeStep
<1>11. CASE IsOp(m) /\ Receive(Server, c, m, rest) /\ UNCHANGED <<client, hasty>>
  <2>1. m \in Ops /\ <<c, Server>> \in Links /\ In(c) \in Seq(On(<<Server, c>>))
    BY <1>1, <1>11, Operations, ClientLinks, StillState
  <2>2. m.type = "add" => m.net \notin DOMAIN host[c].localId
    <3>1. m.type = "add" => Carries(In(c), m.net)
      BY <1>1, <2>1, LastKept DEF Carries
    <3> QED  BY <3>1, ClientLinks DEF Still, NamesFresh, AddsNew, In
  <2>3. /\ conflicts \subseteq conflicts' /\ Marked(m, Out(c), conflicts')
        /\ \/ /\ link' = rest /\ host' = host
              /\ Server \notin host[c].targets \/ Does(View(host[c]), View(host[c]), m)
           \/ /\ Server \in host[c].targets /\ link' = rest
              /\ \E y : /\ host' = [host EXCEPT ![c] = y] /\ y.targets = host[c].targets
                        /\ Does(View(host[c]), View(y), m)
    <3> DEFINE x == host[c]
    <3>1. Handled(Server, c, m, rest, x) /\ conflicts \subseteq conflicts'
          /\ Marked(m, Out(c), conflicts')
      BY <1>2, <1>11, <2>1, <2>2, Received DEF Out
    <3> QED  BY <1>2, <3>1 DEF Handled
  <2>4. link' = rest /\ \A h \in Hosts : h # c => host'[h] = host[h]
    BY <1>2, <2>3
  <2>5. host'[c].targets = host[c].targets
    BY <1>2, <2>3
  <2>6. Stays(c)
    BY <1>2, <1>11, <2>3, <2>5 DEF Stays
  <2>7. AgreeOf(c)'
    <3>1. CASE client[c].state \notin {"PENDING", "CONNECTED"}
      BY <1>11, <3>1, AgreeOut
    <3>2. CASE client[c].state \in {"PENDING", "CONNECTED"}
      <4>1. client[c].state = "PENDING" => View(host'[c]) = View(host[c])
        BY <2>3, StillState
      <4>2. client[c].state = "CONNECTED" => Does(View(host[c]), View(host'[c]), m)
        <5>1. client[c].state = "CONNECTED" => Server \in host[c].targets
          BY DEF Still, AgreeOf
        <5> QED  BY <1>2, <2>3, <5>1
      <4>3. m.type # "ACCEPT"
        BY <1>11 DEF IsOp
      <4> QED  BY <1>1, <1>2, <1>4, <2>3, <2>4, <2>6, <4>1, <4>2, <4>3, AgreeClientTakes
    <3> QED  BY <3>1, <3>2
  <2>8. ASSUME NEW d \in Clients, d # c PROVE AgreeOf(d)'
    BY <1>2, <1>4, <1>5, <1>11, <2>3, <2>4, <2>8, StillState
  <2> QED  BY <1>4, <2>4, <2>7, <2>8 DEF AgreeStep
<1> QED  BY <1>3, <1>6, <1>7, <1>8, <1>9, <1>10, <1>11

\* What comes to the server.
LEMMA AgreeToServer ==
  ASSUME Still, NamesStep, NEW c \in Clients, DeliverToServer(c), DOMAIN old = Clients,
         NEW m, m = Head(Out(c)), NEW rest, rest = [link EXCEPT ![<<c, Server>>] = Tail(@)]
  PROVE  AgreeStep
<1>1. /\ Out(c) # <<>> /\ RightLinks(rest) /\ QuieterAll(link, rest) /\ m \in Messages
      /\ \A d \in Clients : /\ rest[<<d, Server>>] = IF d = c THEN Tail(Out(c)) ELSE Out(d)
                            /\ rest[<<Server, d>>] = In(d)
  BY TakenEnds DEF DeliverToServer, Out
<1>2. /\ DOMAIN host = Hosts /\ Server \in Hosts /\ UNCHANGED client
      /\ \A d \in Clients : d \in Hosts /\ d # Server
      /\ DOMAIN server.slots = host[Server].targets
      /\ DOMAIN server = {"state", "slots", "nextId"}
  BY StillState, NamesState DEF DeliverToServer, Still
<1>3. \/ /\ server.state = "IDLE" \/ m.type = "GET_STATE" \/ c \notin DOMAIN server.slots
         /\ link' = rest /\ UNCHANGED <<server, host, history>>
      \/ m.type = "CONNECT" /\ ServerConnect(c, rest) /\ UNCHANGED <<conflicts, hasty>>
      \/ m.type = "DISCONNECT" /\ ServerDisconnect(c) /\ link' = rest /\ UNCHANGED history
      \/ m.type = "ALIVE" /\ ServerAlive(c) /\ link' = rest /\ UNCHANGED <<host, history>>
      \/ IsOp(m) /\ Receive(c, Server, m, rest) /\ UNCHANGED <<server, old, hasty>>
  BY <1>2 DEF DeliverToServer, Out
<1>4. ASSUME link' = rest
      PROVE  /\ OpsInv'
             /\ \A d \in Clients : /\ Out(d)' = IF d = c THEN Tail(Out(c)) ELSE Out(d)
                                   /\ In(d)' = In(d)
  BY <1>1, <1>4, OpsQuiet DEF Still, NamesStep, In, Out
<1>5. ASSUME NEW d \in Clients, d # c, d \in DOMAIN server'.slots => d \in DOMAIN server.slots,
             host'[d] = host[d], View(host'[Server]) = View(host[Server]), hasty' = hasty,
             old'[d] = old[d], conflicts \subseteq conflicts', In(d)' = In(d), Out(d)' = Out(d)
      PROVE  AgreeOf(d)'
  BY <1>2, <1>5, AgreeSame DEF Stays
<1>6. CASE /\ server.state = "IDLE" \/ m.type = "GET_STATE" \/ c \notin DOMAIN server.slots
           /\ link' = rest /\ UNCHANGED <<server, host, history>>
  <2>1. AgreeOf(c)'
    <3>1. CASE c \notin DOMAIN server.slots
      BY <1>1, <1>2, <1>4, <1>6, <3>1, AgreeGone
    <3>2. CASE c \in DOMAIN server.slots
      <4>1. m.type = "GET_STATE"
        BY <1>6, <3>2, StillState
      <4>2. Stays(c)
        BY <1>2, <1>6 DEF Stays, history
      <4>3. Does(View(host[Server]), View(host'[Server]), m) /\ Marked(m, In(c), conflicts')
        BY <1>6, <4>1, SignalDoes DEF IsOp, Marked
      <4> QED  BY <1>1, <1>4, <1>6, <4>1, <4>2, <4>3, AgreeServerTakes
    <3> QED  BY <3>1, <3>2
  <2> QED  BY <1>4, <1>5, <1>6, <2>1 DEF AgreeStep, history
<1>7. CASE m.type = "CONNECT" /\ ServerConnect(c, rest) /\ UNCHANGED <<conflicts, hasty>>
  <2>1. PICK id : /\ link' = Sent(rest, Server, {c}, Accept(id))
                  /\ server'.slots = With(server.slots, c, NewSlot(id))
    BY <1>2, <1>7 DEF ServerConnect
  <2>2. /\ host' = [host EXCEPT ![Server].targets = @ \cup {c}]
        /\ old' = [old EXCEPT ![c] = DOMAIN host[Server].localId]
    BY <1>7 DEF ServerConnect
  <2>3. /\ host'[Server].localId = host[Server].localId /\ host'[Server].nodes = host[Server].nodes
        /\ \A d \in Clients : host'[d] = host[d]
    BY <1>2, <2>2, StillState DEF WellTyped, Fields
  <2>4. /\ View(host'[Server]) = View(host[Server])
        /\ DOMAIN View(host'[Server]) = DOMAIN host[Server].localId
    BY <2>3 DEF View
  <2>5. /\ OpsInv'
    <3>1. ~ IsOp(Accept(id))
      BY DEF IsOp, Accept
    <3>2. QuieterAll(link, link')
      BY <1>1, <2>1, <3>1, QuieterSent
    <3> QED  BY <3>2, OpsQuiet DEF Still, NamesStep
  <2>6. \A d \in Clients :
           /\ Out(d)' = IF d = c THEN Tail(Out(c)) ELSE Out(d)
           /\ In(d)' = IF d = c THEN Append(In(c), Accept(id)) ELSE In(d)
    <3>1. \A l \in Links : link'[l] = IF l[1] = Server /\ l[2] \in {c}
                                     THEN Append(rest[l], Accept(id)) ELSE rest[l]
      BY <2>1 DEF Sent
    <3>2. \A d \in Clients :
             /\ link'[<<d, Server>>] = rest[<<d, Server>>]
             /\ link'[<<Server, d>>] = IF d = c THEN Append(rest[<<Server, d>>], Accept(id))
                                       ELSE rest[<<Server, d>>]
      BY <3>1, ClientLinks
    <3> QED  BY <1>1, <3>2 DEF In, Out
  <2>7. AgreeOf(c)'
    BY <1>1, <1>2, <1>7, <2>2, <2>3, <2>4, <2>6, AgreeConnected
  <2>8. ASSUME NEW d \in Clients, d # c PROVE AgreeOf(d)'
    <3>1. d \in DOMAIN server'.slots => d \in DOMAIN server.slots
      BY <2>1, <2>8 DEF With
    <3>2. old'[d] = old[d]
      BY <2>2, <2>8
    <3> QED  BY <1>5, <1>7, <2>3, <2>4, <2>6, <2>8, <3>1, <3>2
  <2> QED  BY <2>5, <2>7, <2>8 DEF AgreeStep
<1>8. CASE m.type = "DISCONNECT" /\ ServerDisconnect(c) /\ link' = rest /\ UNCHANGED history
  <2>1. /\ server'.slots = Without(server.slots, c)
        /\ host' = [host EXCEPT ![Server].targets = @ \ {c}]
    BY <1>2, <1>8 DEF ServerDisconnect
  <2>2. DOMAIN server'.slots = DOMAIN server.slots \ {c}
    BY <2>1 DEF Without
  <2>3. /\ host'[Server].localId = host[Server].localId /\ host'[Server].nodes = host[Server].nodes
        /\ \A d \in Clients : host'[d] = host[d]
    BY <1>2, <2>1, StillState DEF WellTyped, Fields
  <2>4. View(host'[Server]) = View(host[Server])
    BY <2>3 DEF View
  <2>5. AgreeOf(c)'
    BY <1>1, <1>2, <1>4, <1>8, <2>2, <2>3, AgreeGone
  <2> QED  BY <1>4, <1>5, <1>8, <2>2, <2>3, <2>4, <2>5 DEF AgreeStep, history
<1>9. CASE m.type = "ALIVE" /\ ServerAlive(c) /\ link' = rest /\ UNCHANGED <<host, history>>
  <2>1. DOMAIN server'.slots = DOMAIN server.slots
    BY <1>2, <1>9 DEF ServerAlive
  <2>2. Stays(c)
    BY <1>2, <1>9, <2>1 DEF Stays, history
  <2>3. Does(View(host[Server]), View(host'[Server]), m) /\ Marked(m, In(c), conflicts')
    BY <1>9, SignalDoes DEF IsOp, Marked
  <2>4. AgreeOf(c)'
    BY <1>1, <1>4, <1>9, <2>2, <2>3, AgreeServerTakes
  <2> QED  BY <1>4, <1>5, <1>9, <2>1, <2>4 DEF AgreeStep, history
<1>10. CASE IsOp(m) /\ Receive(c, Server, m, rest) /\ UNCHANGED <<server, old, hasty>>
  <2> DEFINE n == m.net
  <2>1. /\ m \in Ops /\ <<Server, c>> \in Links
        /\ Out(c) \in Seq(On(<<c, Server>>)) /\ In(c) \in Seq(On(<<Server, c>>))
    BY <1>1, <1>10, Operations, ClientLinks, StillState
  <2>2. About(Out(c), n) /\ (m.type = "add" => Carries(Out(c), n))
    BY <1>1, <1>10, <2>1, LastKept DEF Carries, About
  <2>3. m.type = "add" =>
           /\ n \notin DOMAIN host[Server].localId
           /\ \A d \in Clients : ~ About(In(d), n)
                                 /\ (d # c => n \notin DOMAIN host[d].localId /\ ~ About(Out(d), n))
    BY <2>2, ClientLinks DEF Still, NamesFresh, AddsNew, OpsInv, Out
  <2>4. Handled(c, Server, m, rest, host[Server]) /\ conflicts \subseteq conflicts'
        /\ Marked(m, In(c), conflicts')
    BY <1>2, <1>10, <2>1, <2>3, Received DEF In
  <2>5. CASE link' = rest /\ host' = host
             /\ (c \notin host[Server].targets \/ Does(View(host[Server]), View(host[Server]), m))
    <3>1. Current(c) => c \in host[Server].targets
      BY <1>2 DEF Current
    <3>2. Stays(c) /\ m.type # "CONNECT"
      BY <1>2, <1>10, <2>4, <2>5 DEF Stays, IsOp
    <3>3. AgreeOf(c)'
      BY <1>1, <1>4, <2>4, <2>5, <3>1, <3>2, AgreeServerTakes
    <3> QED  BY <1>4, <1>5, <1>10, <2>4, <2>5, <3>3 DEF AgreeStep
  <2>6. ASSUME c \in host[Server].targets, link' = Sent(rest, Server, Others(host[Server], c), m),
               NEW y, host' = [host EXCEPT ![Server] = y], y.targets = host[Server].targets,
               Does(View(host[Server]), View(y), m)
        PROVE  AgreeStep
    <3>1. host'[Server] = y /\ \A d \in Clients : host'[d] = host[d]
      BY <1>2, <2>6
    <3>2. \A d \in Clients :
             /\ Out(d)' = IF d = c THEN Tail(Out(c)) ELSE Out(d)
             /\ In(d)' = IF d # c /\ d \in host[Server].targets THEN Append(In(d), m) ELSE In(d)
      <4>1. \A l \in Links : link'[l] = IF l[1] = Server /\ l[2] \in host[Server].targets \ {c}
                                       THEN Append(rest[l], m) ELSE rest[l]
        BY <2>6 DEF Sent, Others
      <4>2. \A d \in Clients :
               /\ link'[<<d, Server>>] = rest[<<d, Server>>]
               /\ link'[<<Server, d>>] = IF d # c /\ d \in host[Server].targets
                                         THEN Append(rest[<<Server, d>>], m)
                                         ELSE rest[<<Server, d>>]
        BY <4>1, ClientLinks
      <4> QED  BY <1>1, <4>2 DEF In, Out
    <3>3. OpsInv'
      <4>1. Past(n)' \/ n = NoNet
        <5>1. Past(n) \/ n = NoNet
          BY <2>2, ClientLinks DEF Still, OpsInv, Out
        <5> QED  BY <5>1 DEF NamesStep
      <4>2. ~ Carries(Tail(Out(c)), n)
        <5>1. Removed(Out(c), Tail(Out(c)), m)
          BY <1>1, <2>1, LinkRemoved
        <5>2. AddsFirst(Out(c))
          BY ClientLinks DEF Still, OpsInv, Out
        <5> QED  BY <1>10, <5>1, <5>2, RemovedFacts
      <4>3. ASSUME NEW d \in Clients PROVE ~ Carries(rest[<<d, Server>>], n)
        <5>1. d # c => ~ Carries(Out(d), n)
          BY <2>2 DEF Still, OpsInv
        <5> QED  BY <1>1, <4>2, <5>1
      <4>4. m.type = "add" => \A l \in Links : l # <<c, Server>> => ~ About(rest[l], n)
        BY <1>1, <2>3 DEF Links
      <4>5. c \notin Others(host[Server], c) /\ Server \notin Clients
        BY HostsAssumption DEF Others
      <4>6. OpsInv /\ \A k : Past(k) => Past(k)'
        BY DEF Still, NamesStep
      <4> DEFINE T == Others(host[Server], c)
      <4>7. link' = Sent(rest, Server, T, m) /\ c \notin T /\ IsOp(m)
        BY <1>10, <2>6, <4>5
      <4> HIDE DEF T
      <4> QED  BY <1>1, <1>2, <4>1, <4>3, <4>4, <4>5, <4>6, <4>7, OpsSaid
    <3>4. ASSUME NEW d \in Clients PROVE Stays(d)
      BY <1>2, <1>10, <2>4, <3>1, <3>4 DEF Stays
    <3>5. AgreeOf(c)'
      <4>1. m.type # "CONNECT"
        BY <1>10 DEF IsOp
      <4> QED  BY <1>1, <2>4, <2>6, <3>1, <3>2, <3>4, <4>1, AgreeServerTakes
    <3>6. ASSUME NEW d \in Clients, d # c PROVE AgreeOf(d)'
      <4>1. CASE d \in host[Server].targets
        <5>1. NewTo(m, View(host[d]), In(d), Out(d)) /\ m.type # "ACCEPT"
          BY <1>10, <2>3, <3>6 DEF NewTo, View, IsOp
        <5> QED  BY <2>6, <3>1, <3>2, <3>4, <3>6, <4>1, <5>1, AgreeServerSays
      <4>2. CASE d \notin host[Server].targets
        BY <1>2, <1>10, <3>1, <3>2, <3>6, <4>2, AgreeApart
      <4> QED  BY <4>1, <4>2
    <3> QED  BY <3>3, <3>5, <3>6 DEF AgreeStep
  <2> QED  BY <2>4, <2>5, <2>6 DEF Handled
<1> QED  BY <1>3, <1>6, <1>7, <1>8, <1>9, <1>10

\* No step forgets what the server knew of a client.
LEMMA OldKept == [Next]_vars => DOMAIN old' = DOMAIN old
<1> SUFFICES ASSUME [Next]_vars PROVE DOMAIN old' = DOMAIN old
  OBVIOUS
<1>1. ASSUME NEW u \in Hosts, Command(u) PROVE old' = old
  BY <1>1 DEF Command, Connect, Disconnect, Listen, Stop, AddNode, ChangeNode, history
<1>2. ASSUME NEW u \in Hosts, Failure(u) PROVE old' = old
  BY <1>2 DEF Failure, Lose, Swap, Duplicate, Fault, CrashServer, Crash, history
<1>3. CASE Update
  BY <1>3 DEF Update, UpdateServer, UpdateClient, history
<1>4. CASE Deliver
  <2>1. ASSUME NEW c \in Clients, DeliverToClient(c) PROVE old' = old
    BY <2>1 DEF DeliverToClient
  <2>2. ASSUME NEW c \in Clients, DeliverToServer(c) PROVE DOMAIN old' = DOMAIN old
    BY <2>2 DEF DeliverToServer, ServerConnect, history
  <2> QED  BY <1>4, <2>1, <2>2 DEF Deliver
<1>5. CASE UNCHANGED vars
  BY <1>5 DEF vars, history
<1> QED  BY <1>1, <1>2, <1>3, <1>4, <1>5 DEF Next

\* The agreement is inductive.
SessionInv == TypesInv /\ IdsInv /\ NamesInv /\ AgreeInv /\ DOMAIN old = Clients

LEMMA AgreeInit == Init => AgreeInv
<1> SUFFICES ASSUME Init PROVE OpsInv /\ \A c \in Clients : AgreeOf(c)
  BY DEF AgreeInv
<1>1. /\ \A l \in Links : link[l] = <<>>
      /\ \A c \in Clients : client[c].state = "IDLE"
  BY DEF Init, NewClient
<1>2. \A l \in Links : AddsFirst(link[l]) /\ \A n : ~ About(link[l], n) /\ ~ Carries(link[l], n)
  BY <1>1 DEF AddsFirst, About, Carries
<1>3. OpsInv
  BY <1>2, ClientLinks DEF OpsInv, In, Out
<1>4. \A c \in Clients : AgreeOf(c)
  BY <1>1 DEF AgreeOf, Current
<1> QED  BY <1>3, <1>4

LEMMA AgreeNext == SessionInv /\ [Next]_vars => AgreeInv'
<1> SUFFICES ASSUME SessionInv, [Next]_vars, Calm' PROVE AgreeStep
  BY DEF AgreeInv, AgreeStep
<1>1. ASSUME UNCHANGED <<faults, reborn, again>> PROVE Still /\ NamesFresh
  BY <1>1 DEF Calm, SessionInv, NamesInv, Undisturbed, IdsInv, AgreeInv, Still
<1>2. ASSUME NEW u \in Hosts, Command(u) PROVE AgreeStep
  <2>1. CASE Listen
    <3>1. Over /\ UNCHANGED <<faults, reborn>> /\ ~ again
      BY <2>1 DEF Listen, net, Calm
    <3>2. Still
      BY <3>1 DEF Calm, SessionInv, NamesInv, Undisturbed, IdsInv, AgreeInv, Still
    <3> QED  BY <2>1, <3>1, <3>2, AgreeListen
  <2>2. CASE ~ Listen
    <3>1. UNCHANGED <<faults, reborn, again>>
      BY <1>2, <2>2 DEF Command, Connect, Disconnect, Stop, AddNode, ChangeNode, restarts
    <3>2. Still /\ NamesStep
      BY <1>1, <1>2, <2>2, <3>1, NamesCommand DEF SessionInv
    <3>3. \/ u \in Clients /\ (Connect(u) \/ Disconnect(u))
          \/ Stop
          \/ AddNode(u)
          \/ \E k \in DOMAIN host[u].nodes, t \in {"delete", "param", "activate", "deactivate"},
                v \in Values \cup {0} : ChangeNode(u, k, t, v)
      BY <1>2, <2>2 DEF Command
    <3> QED  BY <3>2, <3>3, AgreeClient, AgreeStop, AgreeAdd, AgreeChange
  <2> QED  BY <2>1, <2>2
<1>3. ASSUME NEW u \in Hosts, Failure(u) PROVE FALSE
  BY <1>3 DEF Failure, Lose, Swap, Duplicate, Fault, CrashServer, Crash, Calm
<1>4. CASE Update
  <2>1. UNCHANGED <<faults, reborn, again>>
    <3>1. CASE UpdateServer
      BY <3>1 DEF UpdateServer, restarts
    <3>2. ASSUME NEW c \in Clients, UpdateClient(c) PROVE UNCHANGED <<faults, reborn, again>>
      BY <3>2 DEF UpdateClient, restarts
    <3> QED  BY <1>4, <3>1, <3>2 DEF Update
  <2>2. Still /\ NamesStep
    BY <1>1, <1>4, <2>1, NamesUpdate DEF SessionInv
  <2> QED  BY <1>4, <2>2, AgreeUpdate, AgreeClient DEF Update
<1>5. ASSUME NEW c \in Clients, DeliverToClient(c) PROVE AgreeStep
  <2>1. Still /\ NamesStep
    BY <1>1, <1>5, NamesToClient DEF DeliverToClient, restarts, SessionInv
  <2> QED  BY <1>5, <2>1, AgreeToClient
<1>6. ASSUME NEW c \in Clients, DeliverToServer(c) PROVE AgreeStep
  <2>1. Still /\ NamesStep
    BY <1>1, <1>6, NamesToServer DEF DeliverToServer, restarts, SessionInv
  <2>2. DOMAIN old = Clients
    BY DEF SessionInv
  <2> QED  BY <1>6, <2>1, <2>2, AgreeToServer
<1>7. CASE UNCHANGED vars
  <2>1. UNCHANGED <<host, client, server, link, history, faults, restarts>>
    BY <1>7 DEF vars, net
  <2>2. Still /\ NamesStep
    <3>1. LessLinks(link, link')
      BY <2>1, LessSame
    <3>2. Still /\ NamesFresh
      BY <1>1, <2>1 DEF restarts
    <3> QED  BY <2>1, <3>1, <3>2, FewerNone DEF SessionInv
  <2>3. OpsInv'
    <3>1. QuieterAll(link, link')
      BY <2>1, <2>2, StillState, QuieterLinks DEF QuieterAll, RightLinks
    <3> QED  BY <2>2, <3>1, OpsQuiet DEF Still, NamesStep
  <2>4. ASSUME NEW c \in Clients PROVE AgreeOf(c)'
    <3>1. Stays(c)
      BY <2>1 DEF Stays, history
    <3>2. In(c)' = In(c) /\ Out(c)' = Out(c)
      BY <2>1 DEF In, Out
    <3> QED  BY <2>1, <2>2, <3>1, <3>2, AgreeSame
  <2> QED  BY <2>3, <2>4 DEF AgreeStep
<1> QED  BY <1>2, <1>3, <1>4, <1>5, <1>6, <1>7 DEF Next, Deliver

\* When nothing is under way, a connected client and the server have the same nodes,
\* but for those the server had when it accepted the client, and they look the same,
\* but for those two hosts changed at the same time: for any number of clients, any
\* delays and anything the users do, as long as the network is in order, no host dies,
\* every session is over before the next begins and the client did not take the answer
\* to an attempt given up.
THEOREM HostsConverge == Spec => []Converged
<1>1. SessionInv => Converged
  <2> SUFFICES ASSUME SessionInv, Quiet, Calm, NEW c \in DOMAIN server.slots \ hasty,
                      client[c].state = "CONNECTED"
               PROVE  /\ DOMAIN host[c].localId \subseteq DOMAIN host[Server].localId
                      /\ DOMAIN host[Server].localId \subseteq DOMAIN host[c].localId \cup old[c]
                      /\ \A n \in DOMAIN host[c].localId \ conflicts : SameNode(n, c, Server)
    BY DEF Converged, Calm
  <2> DEFINE f == View(host[c])
             g == View(host[Server])
             a == Out(c)
             b == Heard(In(c))
  <2>1. Still
    BY DEF Calm, SessionInv, NamesInv, Undisturbed, IdsInv, AgreeInv, Still
  <2>2. /\ c \in Clients /\ c \in Hosts /\ Server \in Hosts
        /\ \A h \in Hosts : WellTyped(host[h]) /\ NamesOk(host[h])
    BY <2>1, StillState
  <2>3. Pair(f, g, a, b, {}, old[c], conflicts)
    BY <2>1, <2>2, CurrentState DEF Current, Agreed
  <2>4. DOMAIN a = {} /\ DOMAIN b = {}
    BY <2>2, ClientLinks DEF Quiet, In, Out, Heard
  <2>5. DOMAIN f = DOMAIN host[c].localId /\ DOMAIN g = DOMAIN host[Server].localId
    BY DEF View
  <2> HIDE DEF a, b
  <2>6. \A n : ~ Carries(a, n) /\ ~ Carries(b, n) /\ ~ Deletes(a, n) /\ ~ Deletes(b, n)
               /\ ~ About(a, n) /\ ~ About(b, n)
    BY <2>4 DEF Carries, Deletes, About
  <2>7. DOMAIN f \subseteq DOMAIN g /\ DOMAIN g \subseteq DOMAIN f \cup old[c]
    BY <2>3, <2>6 DEF Pair, Half
  <2>8. ASSUME NEW n \in DOMAIN host[c].localId, n \notin conflicts PROVE SameNode(n, c, Server)
    <3>1. n \in DOMAIN f /\ n \in DOMAIN g
      BY <2>5, <2>7
    <3>2. Leads(a, n, g[n], f[n])
      BY <2>3, <2>6, <2>8, <3>1 DEF Pair, Half, NodeIn
    <3>3. \A k \in Kinds : f[n][k] = g[n][k]
      BY <2>4, <3>2 DEF Leads
    <3>4. f[n].value = g[n].value /\ f[n].active = g[n].active
      BY <3>3 DEF Kinds
    <3>5. f[n] \in Nodes /\ g[n] \in Nodes
      BY <2>2, <2>5, <3>1 DEF View, WellTyped, NamesOk
    <3>6. f[n] = g[n]
      BY <3>4, <3>5 DEF Nodes
    <3> QED  BY <2>5, <3>1, <3>6 DEF View, SameNode
  <2> QED  BY <2>5, <2>7, <2>8
<1>2. Init => SessionInv
  BY TypesInit, IdsInit, NamesInit, AgreeInit DEF SessionInv, Init
<1>3. SessionInv /\ [Next]_vars => SessionInv'
  BY TypesNext, IdsNext, NamesNext, AgreeNext, OldKept DEF SessionInv
<1> QED  BY <1>1, <1>2, <1>3, PTL DEF Spec
=============================================================================
