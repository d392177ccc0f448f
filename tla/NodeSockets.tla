---------------------------- MODULE NodeSockets ----------------------------
(***************************************************************************)
(* The connections between the nodes of the legacy engine, psynth::graph:: *)
(* node0: what connecting, disconnecting and deleting a node do to the     *)
(* sockets of the nodes.                                                   *)
(*                                                                         *)
(* An input socket knows two sources: the one it was asked to have         *)
(* (src_obj) and the one whose samples it reads (m_srcobj).  They differ   *)
(* while the envelope of the socket fades the old one out.  The fade lasts *)
(* one millisecond, which no block is shorter than, so the value of an     *)
(* envelope is either 0 or 1 when a block has ended.                       *)
(*                                                                         *)
(* One type of signal, and one output socket per node: the patcher uses no *)
(* other (the source sockets of PATCHER_TABLE are the first of their node).*)
(***************************************************************************)
EXTENDS Integers, FiniteSets, FiniteSetsExt, Sequences, SequencesExt

CONSTANTS Nodes, NoNode,
          InCount      \* [Nodes -> Nat]: input sockets of each node

ASSUME NodesAssumption == /\ NoNode \notin Nodes /\ IsFiniteSet(Nodes)
                          /\ InCount \in [Nodes -> Nat]

Sockets == UNION {{n} \X (1 .. InCount[n]) : n \in Nodes}

SocketsOf(n) == {s \in Sockets : s[1] = n}

\* An envelope nobody has pressed or released.
NewEnvelope == [val |-> 0, delta |-> 0]

\* Nodes just constructed.
NewSockets == [ wanted  |-> [s \in Sockets |-> NoNode],      \* src_obj
                actual  |-> [s \in Sockets |-> NoNode],      \* m_srcobj
                pending |-> [s \in Sockets |-> FALSE],       \* must_update
                env     |-> [s \in Sockets |-> NewEnvelope], \* m_in_envelope
                refs    |-> [n \in Nodes |-> {}] ]           \* m_ref of its output

Finished(g, s) == g.env[s].val = 0

\* Mutant: the old source keeps its reference to the socket.
ForceConnectInKeeps(g, s, src) ==
    [ g EXCEPT !.env[s].delta = 1, !.actual[s] = src,
               !.refs = [n \in Nodes |-> IF n = src THEN @[n] \cup {s} ELSE @[n]] ]

\* force_connect_in: the socket reads src from now on.
ForceConnectIn(g, s, src) ==
    [ g EXCEPT !.env[s].delta = 1,
               !.actual[s]    = src,
               !.refs = [n \in Nodes |-> IF n = src THEN @[n] \cup {s}
                                         ELSE IF n = g.actual[s] THEN @[n] \ {s}
                                         ELSE @[n]] ]

\* Mutants: the audio thread is not told; the envelope is not released.
ConnectInUntold(g, s, src) ==
    LET asked == [g EXCEPT !.wanted[s] = src]
    IN  IF Finished(g, s)
        THEN ForceConnectIn([asked EXCEPT !.pending[s] = FALSE], s, src)
        ELSE [asked EXCEPT !.env[s].delta = -1]

ConnectInHeld(g, s, src) ==
    LET asked == [g EXCEPT !.wanted[s] = src]
    IN  IF Finished(g, s)
        THEN ForceConnectIn([asked EXCEPT !.pending[s] = FALSE], s, src)
        ELSE [asked EXCEPT !.pending[s] = TRUE]

\* connect_in: at once when the socket is silent, else after a fade.
ConnectIn(g, s, src) ==
    LET asked == [g EXCEPT !.wanted[s] = src]
    IN  IF Finished(g, s)
        THEN ForceConnectIn([asked EXCEPT !.pending[s] = FALSE], s, src)
        ELSE [asked EXCEPT !.pending[s] = TRUE, !.env[s].delta = -1]

\* update_envelopes, the part of the input sockets: one block.
Faded(g, n) ==
    LET Value(e) == IF e.delta = 0 THEN e.val ELSE IF e.val + e.delta > 0 THEN 1 ELSE 0
    IN  [ g EXCEPT !.env = [s \in Sockets |->
              IF s[1] = n THEN [val |-> Value(@[s]), delta |-> @[s].delta] ELSE @[s]] ]

\* The sockets that clear_connections disconnects: those of n that read
\* something, and those of others that read n.
Connected(g, n) == {s \in SocketsOf(n) : g.actual[s] # NoNode} \cup g.refs[n]

\* Mutant: only the inputs count.
HasConnectionsIn(g, n) == \E s \in SocketsOf(n) : g.actual[s] # NoNode

HasConnections(g, n) == Connected(g, n) # {}

ClearConnections(g, n) ==
    FoldLeft(LAMBDA h, s : ConnectIn(h, s, NoNode), g, SetToSeq(Connected(g, n)))

\* The nodes of the set are destroyed.
Freed(g, set) ==
    LET Reset(f, value) == [s \in Sockets |-> IF s[1] \in set THEN value ELSE f[s]]
    IN  [ g EXCEPT !.wanted = Reset(@, NoNode), !.pending = Reset(@, FALSE),
                   !.env = Reset(@, NewEnvelope) ]

SocketsTypeOK(g) ==
    /\ g.wanted  \in [Sockets -> Nodes \cup {NoNode}]
    /\ g.actual  \in [Sockets -> Nodes \cup {NoNode}]
    /\ g.pending \in [Sockets -> BOOLEAN]
    /\ g.env     \in [Sockets -> [val : {0, 1}, delta : {-1, 0, 1}]]
    /\ g.refs    \in [Nodes -> SUBSET Sockets]
=============================================================================
