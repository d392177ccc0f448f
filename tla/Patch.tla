------------------------------- MODULE Patch -------------------------------
(***************************************************************************)
(* psynth::world with its dynamic patcher over the legacy engine           *)
(* (graph::node_manager, node0, node_param): the user's thread adds, moves, *)
(* activates, deactivates and deletes nodes and lets the patcher connect   *)
(* them, while an audio thread updates the nodes block after block.        *)
(*                                                                         *)
(* The operations of the user's thread are atomic here; the audio thread   *)
(* is not: it goes down from the output through what each socket reads,    *)
(* and in each node takes the parameters, goes to the inputs, gives the    *)
(* parameters back, moves the envelopes and makes the connections whose    *)
(* fade has ended, one step each.  Nothing but node_param::m_mutex orders  *)
(* the two ("TODO: Thread synch!").  No node is muted.                     *)
(***************************************************************************)
EXTENDS PatcherDynamic

CONSTANTS Output, Mixer,   \* of the world, at the center
          Places,          \* where the user may put each of his nodes
          MaxChanges       \* bound on the moves, deactivations and deletions

Users == Nodes \ {Output, Mixer}

ASSUME WorldAssumption == /\ {Output, Mixer} \subseteq Nodes /\ Output # Mixer
                          /\ Places \in [Users -> SUBSET Int]
                          /\ MaxChanges \in Nat

VARIABLES
    exists,     \* the nodes of node_manager::m_node_map
    ids,        \* the same in the order of the map, that of their identifiers
    dying,      \* node_manager::m_delete_list
    param,      \* the parameter position: m_src, m_dest and m_changed
    sock,       \* the sockets of all nodes
    patch,      \* the patcher
    rt,         \* the audio thread
    changes,    \* moves, deactivations and deletions so far
    asked,      \* ghost: the position each node was last given
    late,       \* ghost: the nodes given it between update_in and update_out
    torn,       \* ghost: the sockets connected while the audio thread was
                \*   between its test of them and its force_connect_in
    broken      \* the audio thread has entered a node that is gone

vars == <<exists, ids, dying, param, sock, patch, rt, changes, asked, late, torn,
          broken>>
ghosts == <<asked, late, torn>>

NewParam == [src |-> 0, dest |-> 0, changed |-> FALSE]

At == [n \in Nodes |-> param[n].dest]      \* m_param_position

\* What the audio thread does next, the nodes it is inside with the input it
\* has come to in each, the nodes it has updated in this block, and the source
\* that it has read to connect.
Idle == [ pc |-> "idle", stack |-> <<>>, done |-> {}, src |-> NoNode ]

Top == rt.stack[Len(rt.stack)]
Inside == {rt.stack[k].node : k \in DOMAIN rt.stack}

\* world () and set_patcher (), which adds the two nodes and updates.
Init ==
    LET empty == AddNode(NewPatcher, [n \in Nodes |-> 0], <<Output>>, Output)
        both  == AddNode(empty, [n \in Nodes |-> 0], <<Output, Mixer>>, Mixer)
        first == Update(both, NewSockets, [n \in Nodes |-> 0])
    IN  /\ exists = {Output, Mixer} /\ ids = <<Output, Mixer>> /\ dying = {}
        /\ param = [n \in Nodes |-> NewParam]
        /\ sock = first.g /\ patch = first.p
        /\ rt = Idle /\ changes = 0
        /\ asked = [n \in Nodes |-> 0] /\ late = {} /\ torn = {} /\ broken = FALSE

-----------------------------------------------------------------------------
(* The user's thread.                                                      *)

\* Nobody has forgotten to forget the node: a new one may have its place.
Forgotten(n) ==
    /\ n \notin Inside /\ n # rt.src
    /\ \A s \in Sockets : n \notin {sock.wanted[s], sock.actual[s]}

\* A connection made from this thread; the ghost keeps the sockets that the
\* audio thread is about to connect.
Connecting(g) ==
    LET touched == {s \in Sockets : g.wanted[s] # sock.wanted[s] \/ g.actual[s] # sock.actual[s]}
        due == IF rt.pc = "force" THEN {<<Top.node, Top.input>>} ELSE {}
    IN  sock' = g /\ torn' = (torn \ touched) \cup (touched \cap due)

\* world::add_node, and set_param_node of the first position: nothing can see
\* a node that has not been activated in between.
Add(n, pos) ==
    /\ ~ broken /\ n \in Users \ exists /\ Forgotten(n)
    /\ exists' = exists \cup {n} /\ ids' = Append(ids, n)
    /\ param' = [param EXCEPT ![n] = [src |-> pos, dest |-> 0, changed |-> TRUE]]
    /\ asked' = [asked EXCEPT ![n] = pos]
    /\ UNCHANGED <<dying, sock, patch, rt, late, torn, changes, broken>>

\* The nodes the user still has a hand on, and one more change to them.
Held == (exists \ dying) \cap Users

Change(n) ==
    /\ ~ broken /\ n \in Held
    /\ changes < MaxChanges /\ changes' = changes + 1

\* Mutant: the parameter does not note that it was set.
MoveUnnoted(n, pos) ==
    /\ Change(n)
    /\ param' = [param EXCEPT ![n].src = pos]
    /\ patch' = SetParamNode(patch, At, n)
    /\ asked' = [asked EXCEPT ![n] = pos]
    /\ late' = IF n \in Inside THEN late \cup {n} ELSE late \ {n}
    /\ UNCHANGED <<exists, ids, dying, sock, rt, torn, broken>>

\* world::set_param_node of the position: the parameter first, the patcher
\* after it.
Move(n, pos) ==
    /\ Change(n)
    /\ param' = [param EXCEPT ![n].src = pos, ![n].changed = TRUE]
    /\ patch' = SetParamNode(patch, At, n)
    /\ asked' = [asked EXCEPT ![n] = pos]
    /\ late' = IF n \in Inside THEN late \cup {n} ELSE late \ {n}
    /\ UNCHANGED <<exists, ids, dying, sock, rt, torn, broken>>

\* node_param::update_in
ParamIn(n) ==
    IF param[n].changed
    THEN [param EXCEPT ![n].dest = param[n].src, ![n].changed = FALSE]
    ELSE param

\* world::activate_node
Activate(n) ==
    /\ ~ broken /\ n \in Held
    /\ param' = ParamIn(n)
    /\ patch' = AddNode(patch, [At EXCEPT ![n] = ParamIn(n)[n].dest], ids, n)
    /\ UNCHANGED <<exists, ids, dying, sock, rt, ghosts, changes, broken>>

\* world::deactivate_node
Deactivate(n) ==
    LET without == DeleteNode(patch, sock, n)
    IN  /\ Change(n)
        /\ patch' = without.p
        /\ Connecting(without.g)
        /\ UNCHANGED <<exists, ids, dying, param, rt, asked, late, broken>>

\* do_delete_node of each of the set; what is kept of a node that is not there
\* is what a new one has.
Gone(set) ==
    /\ exists' = exists \ set
    /\ ids' = Among(ids, exists \ set)
    /\ param' = [n \in Nodes |-> IF n \in set THEN NewParam ELSE param[n]]
    /\ asked' = [n \in Nodes |-> IF n \in set THEN 0 ELSE asked[n]]
    /\ late' = late \ set

\* world::delete_node and node_manager::delete_node: the node goes at once if
\* nothing is connected to it, else when the audio thread finds it so.
Delete(n) ==
    LET without == DeleteNode(patch, sock, n)
        cleared == ClearConnections(without.g, n)
    IN  /\ Change(n)
        /\ patch' = without.p
        /\ IF HasConnections(cleared, n)
           THEN /\ Connecting(cleared)
                /\ dying' = dying \cup {n}
                /\ UNCHANGED <<exists, ids, param, asked, late>>
           ELSE /\ Connecting(Freed(cleared, {n}))
                /\ Gone({n})
                /\ UNCHANGED dying
        /\ UNCHANGED <<rt, broken>>

\* world::update
UpdatePatch ==
    LET updated == Update(patch, sock, At)
    IN  /\ ~ broken /\ patch.changed
        /\ patch' = updated.p
        /\ Connecting(updated.g)
        /\ UNCHANGED <<exists, ids, dying, param, rt, asked, late, changes, broken>>

UserNext == \/ \E n \in Users : \/ Activate(n) \/ Deactivate(n) \/ Delete(n)
                                \/ \E pos \in Places[n] : Add(n, pos) \/ Move(n, pos)
            \/ UpdatePatch

-----------------------------------------------------------------------------
(* The audio thread.                                                       *)

\* node0::update of a node that was not updated in this block, up to the first
\* of its inputs: can_update and update_params_in.
Entered(stack, n) ==
    /\ param' = ParamIn(n)
    /\ rt' = [ rt EXCEPT !.pc = "inputs", !.done = @ \cup {n},
                         !.stack = Append(stack, [node |-> n, input |-> 0]) ]

\* A step in the node on the top of the stack, which must be there.
RtIn(pc) ==
    /\ ~ broken /\ rt.pc = pc /\ Top.node \in exists
    /\ UNCHANGED <<exists, ids, dying, patch, asked, late, torn, changes, broken>>

\* node_manager::update: every node is to be updated, the output first.
RtBegin ==
    /\ ~ broken /\ rt.pc = "idle"
    /\ Entered(<<>>, Output)
    /\ UNCHANGED <<exists, ids, dying, sock, patch, ghosts, changes, broken>>

\* The sockets of the node on the top that are still to be updated: those that
\* read a node not updated in this block.
Ahead == {i \in Top.input + 1 .. InCount[Top.node] :
             sock.actual[<<Top.node, i>>] \notin rt.done \cup {NoNode}}

\* update_inputs: to the source of the next of them.
RtInputs ==
    LET i == Min(Ahead)
        src == sock.actual[<<Top.node, i>>]
        stack == [rt.stack EXCEPT ![Len(rt.stack)].input = i]
    IN  /\ RtIn("inputs") /\ Ahead # {}
        /\ IF src \in exists THEN Entered(stack, src)
           ELSE /\ rt' = [rt EXCEPT !.stack = Append(stack, [node |-> src, input |-> 0])]
                /\ UNCHANGED param
        /\ UNCHANGED sock

\* The end of update_inputs, do_update, update_params_out, update_envelopes.
RtLeave ==
    LET n == Top.node
    IN  /\ RtIn("inputs") /\ Ahead = {}
        /\ param' = [param EXCEPT ![n].src = param[n].dest]
        /\ sock' = Faded(sock, n)
        /\ rt' = [rt EXCEPT !.pc = "sockets", !.stack[Len(rt.stack)].input = 0]

\* update_in_sockets, the test: the next socket that is due, or back to the
\* node that reads this one.
RtSockets ==
    LET n == Top.node
        due == {i \in Top.input + 1 .. InCount[n] :
                   sock.pending[<<n, i>>] /\ Finished(sock, <<n, i>>)}
        caller == Front(rt.stack)
    IN  /\ RtIn("sockets")
        /\ rt' = CASE due # {} ->
                        [rt EXCEPT !.pc = "force", !.src = sock.wanted[<<n, Min(due)>>],
                                   !.stack[Len(rt.stack)].input = Min(due)]
                   [] due = {} /\ caller # <<>> ->
                        [rt EXCEPT !.pc = "inputs", !.stack = caller]
                   [] OTHER -> [Idle EXCEPT !.pc = "delete"]
        /\ UNCHANGED <<param, sock>>

\* update_in_sockets, the connection.
RtForce ==
    LET s == <<Top.node, Top.input>>
    IN  /\ RtIn("force")
        /\ sock' = [ForceConnectIn(sock, s, rt.src) EXCEPT !.pending[s] = FALSE]
        /\ rt' = [rt EXCEPT !.pc = "sockets", !.src = NoNode]
        /\ UNCHANGED param

\* Mutant: the list of the nodes to delete is not shortened.
RtDeleteKeeps ==
    LET gone == {n \in dying : ~ HasConnections(sock, n)}
    IN  /\ ~ broken /\ rt.pc = "delete"
        /\ Gone(gone)
        /\ sock' = Freed(sock, gone)
        /\ rt' = Idle
        /\ UNCHANGED <<dying, patch, torn, changes, broken>>

\* node_manager::update, the end: the nodes waiting for it are deleted.
RtDelete ==
    LET gone == {n \in dying : ~ HasConnections(sock, n)}
    IN  /\ ~ broken /\ rt.pc = "delete"
        /\ Gone(gone)
        /\ dying' = dying \ gone
        /\ sock' = Freed(sock, gone)
        /\ rt' = Idle
        /\ UNCHANGED <<patch, torn, changes, broken>>

\* The node on the top was destroyed: what the thread does is undefined.
RtBreak ==
    /\ ~ broken /\ rt.stack # <<>> /\ Top.node \notin exists
    /\ broken' = TRUE
    /\ UNCHANGED <<exists, ids, dying, param, sock, patch, changes, rt, ghosts>>

RtNext == \/ RtBegin \/ RtInputs \/ RtLeave \/ RtSockets \/ RtForce
          \/ RtDelete \/ RtBreak

Next == UserNext \/ RtNext

\* The audio device asks for blocks as long as it runs; the user does nothing
\* he does not want to.
Spec == Init /\ [][Next]_vars /\ WF_vars(RtNext)

-----------------------------------------------------------------------------
(* Properties.                                                             *)

TypeOK ==
    /\ dying \subseteq exists /\ exists \subseteq Nodes
    /\ exists = ToSet(ids) /\ IsInjective(ids)
    /\ param \in [Nodes -> [src : Int, dest : Int, changed : BOOLEAN]]
    /\ SocketsTypeOK(sock) /\ PatcherTypeOK(patch)
    /\ rt.pc \in {"idle", "inputs", "sockets", "force", "delete"}
    /\ rt.done \subseteq Nodes /\ rt.src \in Nodes \cup {NoNode}
    /\ Len(rt.stack) <= Cardinality(Nodes)
    /\ \A k \in DOMAIN rt.stack :
           /\ rt.stack[k].node \in Nodes
           /\ rt.stack[k].input \in 0 .. InCount[rt.stack[k].node]
    /\ changes \in 0 .. MaxChanges
    /\ asked \in [Nodes -> Int] /\ late \subseteq Users /\ torn \subseteq Sockets
    /\ broken \in BOOLEAN

\* "On a dinamically patched synth we only want one output connected with one
\* input" (patcher_dynamic.cpp:59): whatever the links do to each other while
\* they are tried one after the other, and whatever is moved, deactivated or
\* deleted between two updates, a node is the source of one socket at most.
OneOutput == \A n \in Nodes : Cardinality({s \in Sockets : sock.wanted[s] = n}) <= 1

\* update () does not set the destination of a node whose link it finds made
\* (patcher_dynamic.cpp:489), and the test against two nodes that read each
\* other needs it: it is always the one of the update that made the link.
LinkedHasDest ==
    \A k \in DOMAIN patch.links :
        LET l == patch.links[k] IN IsLinked(sock, l) => patch.dest[l.src] = l.dest

\* What the patcher goes by at the next update is what it has connected.
PatchIsSound == OneOutput /\ LinkedHasDest

\* The nodes of two sockets agree on what is connected.  The engine goes by the
\* references of the output to free a node, and by the input to read it.
RefsAgree == \A n \in Nodes : sock.refs[n] = {s \in Sockets : sock.actual[s] = n}

\* What a socket reads is what it was last asked to read, or the change is under
\* way, and neither is a node that was destroyed: to know it the world deletes
\* the links before the node, and the engine keeps the node until nothing is
\* connected to it.  But for a socket asked again while the audio thread is
\* between reading src_obj and connecting it (node.cpp:286-290), which may keep
\* the old source for good.
SocketsAgree ==
    \A s \in Sockets \ torn :
        /\ sock.pending[s] \/ sock.actual[s] = sock.wanted[s]
        /\ {sock.wanted[s], sock.actual[s]} \subseteq exists \cup {NoNode}

\* The audio thread is never inside a node that the user's thread destroys, but
\* in the first block of a connection: the envelope of the socket has not risen
\* then, delete_node finds the node free at once, and nothing tells it that the
\* audio thread went there (node_manager.cpp:90-99).
NodesInUseExist ==
    \A k \in 2 .. Len(rt.stack) :
        LET socket == <<rt.stack[k - 1].node, rt.stack[k - 1].input>>
        IN  rt.stack[k].node \notin exists => Finished(sock, socket) \/ socket \in torn

\* A position given to a node arrives: it is in use, or update_in will take it;
\* but for one given while the audio thread is between update_in and update_out
\* of the node, which update_out overwrites (node_param.cpp:60-79).
PositionsArrive ==
    \A n \in exists \ late :
        /\ param[n].src = asked[n]
        /\ ~ param[n].changed => param[n].dest = asked[n]

\* What update () should do: of the links in their order, each one is made whose
\* source has no output yet, whose ends are not connected the other way round,
\* and whose destination has a socket left.
Capacity(l) == IF Table[l.src, l.dest] = 0 THEN InCount[l.dest] ELSE 1

Rivals(l, m) == l.dest = m.dest /\ Table[l.src, l.dest] = Table[m.src, m.dest]

Nearest(links, made) ==
    \A k \in DOMAIN links :
        LET l == links[k]
            before == {j \in made : j < k}
        IN  k \in made <=>
                /\ \A j \in before : links[j].src # l.src
                /\ \A j \in before : links[j].src # l.dest \/ links[j].dest # l.src
                /\ Cardinality({j \in before : Rivals(links[j], l)}) < Capacity(l)

\* The lengths of the links are the distances of now, and no two that compete
\* for a socket are equal.  A move does not make it so: the parameter is only
\* taken by the next block, after the patcher has measured the links
\* (patcher_dynamic.cpp:367).
Fresh ==
    /\ \A k \in DOMAIN patch.links :
           LET l == patch.links[k] IN l.dist = Dist(At, l.src, l.dest)
    /\ \A j, k \in DOMAIN patch.links :
           Rivals(patch.links[j], patch.links[k]) /\ j # k
               => patch.links[j].dist # patch.links[k].dist

\* An update with such links makes the patch of the definition, whatever the
\* patch was before: find_in_sock displaces a source only for a nearer one, and
\* every longer link is undone or tried again.
PatchIsNearest ==
    [][patch.changed /\ ~ patch'.changed /\ Fresh
           => Nearest(patch'.links,
                      {k \in DOMAIN patch'.links : IsLinked(sock', patch'.links[k])})]_vars

-----------------------------------------------------------------------------
(* Liveness.                                                               *)

\* The nodes that a block gets to.
Reached ==
    LET step[k \in 0 .. Cardinality(Nodes)] ==
            IF k = 0 THEN {Output}
            ELSE step[k - 1] \cup ({sock.actual[s] : s \in {t \in Sockets : t[1] \in step[k - 1]}}
                                       \ {NoNode})
    IN  step[Cardinality(Nodes)]

\* A deleted node goes in the end, if the blocks get to the nodes that are
\* still connected to it and none of them has kept it as its source for good.
DeletedGo ==
    \A n \in Users :
        []<>(\/ broken \/ n \notin dying
             \/ \E s \in Connected(sock, n) : s \in torn \/ s[1] \notin Reached)
=============================================================================
