--------------------------- MODULE PatcherDynamic ---------------------------
(***************************************************************************)
(* psynth::patcher_dynamic: every pair of nodes that PATCHER_TABLE can     *)
(* connect has a link, the links are kept in the order of their lengths,   *)
(* and update () goes through them once and gives the output of each node  *)
(* to the nearest input that will have it.                                 *)
(*                                                                         *)
(* A patcher is a record.  The operators take the positions of the nodes   *)
(* (m_param_position) and the connections they act upon as arguments.      *)
(***************************************************************************)
EXTENDS NodeSockets

CONSTANT Table         \* PATCHER_TABLE, between nodes: an input socket, 0 for
                       \* PATCHER_ANY, or NoLink
NoLink == -1

ASSUME TableAssumption ==
    \A a, b \in Nodes : Table[a, b] = NoLink \/ Table[a, b] \in 0 .. InCount[b]

\* An entry is PATCHER_ANY for all the sources of a destination, or for none:
\* audio goes to any input of a mixer, and to a given one of all other nodes.
ASSUME EntriesAssumption ==
    \A a, b, c \in Nodes : Table[a, c] = 0 => Table[b, c] \in {0, NoLink}

\* sqr_distance_to and sqr_distance_to_center, on a line.
Dist(at, a, b) == (at[a] - at[b]) * (at[a] - at[b])
ToCenter(at, a) == at[a] * at[a]

NewPatcher == [ nodes   |-> {},
                links   |-> <<>>,
                dest    |-> [n \in Nodes |-> NoNode],   \* pnode::dest
                changed |-> FALSE ]

NewLink(at, a, b) == [ src |-> a, dest |-> b,
                       dist |-> Dist(at, a, b), center |-> ToCenter(at, b),
                       socket |-> 0 ]      \* actual_in_sock, 0 when there is none

\* link::operator<, and the multiset that is ordered by it: a new element goes
\* after the ones equal to it.
Shorter(l, m) == l.dist < m.dist \/ (l.dist = m.dist /\ l.center < m.center)

Inserted(links, l) ==
    LET before == Cardinality({k \in DOMAIN links : ~ Shorter(l, links[k])})
    IN  SubSeq(links, 1, before) \o <<l>> \o SubSeq(links, before + 1, Len(links))

InsertedAll(links, more) == FoldLeft(Inserted, links, more)

\* The elements of a sequence that are in a set.
Among(seq, set) ==
    FoldLeft(LAMBDA s, x : IF x \in set THEN Append(s, x) ELSE s, <<>>, seq)

IsEnd(l, n) == l.src = n \/ l.dest = n

\* The links of a node, pnode::links, and those of the others.
LinksOf(links, n) == Among(links, {l \in ToSet(links) : IsEnd(l, n)})

LinksOfOthers(links, n) == Among(links, {l \in ToSet(links) : ~ IsEnd(l, n)})

-----------------------------------------------------------------------------
(* Each operator returns the patcher, or [p, g] when it connects sockets.  *)

\* add_node; ids is the order of the identifiers of the nodes.
AddNode(p, at, ids, n) ==
    LET others == Among(ids, p.nodes)
        Pair(m) == (IF Table[n, m] = NoLink THEN <<>> ELSE <<NewLink(at, n, m)>>)
                \o (IF Table[m, n] = NoLink THEN <<>> ELSE <<NewLink(at, m, n)>>)
    IN  IF n \in p.nodes THEN p
        ELSE [ p EXCEPT !.nodes = @ \cup {n}, !.changed = TRUE,
                        !.links = FoldLeft(LAMBDA ls, m : InsertedAll(ls, Pair(m)),
                                           @, others) ]

IsLinked(g, l) == l.socket > 0 /\ g.wanted[<<l.dest, l.socket>>] = l.src

UndoLink(g, l) ==
    IF IsLinked(g, l) THEN ConnectIn(g, <<l.dest, l.socket>>, NoNode) ELSE g

DeleteNode(p, g, n) ==
    IF n \notin p.nodes THEN [p |-> p, g |-> g]
    ELSE [ g |-> FoldLeft(UndoLink, g, LinksOf(p.links, n)),
           p |-> [ p EXCEPT !.nodes = @ \ {n}, !.changed = TRUE,
                            !.links = LinksOfOthers(@, n),
                            !.dest[n] = NoNode ] ]

\* set_param_node of the position: the links of n are measured again.
SetParamNode(p, at, n) ==
    LET Measured(l) == [ l EXCEPT !.dist = Dist(at, l.src, l.dest),
                                  !.center = IF l.dest = n THEN ToCenter(at, n)
                                             ELSE @ ]
        moved == LinksOf(p.links, n)
    IN  [ p EXCEPT !.links = InsertedAll(LinksOfOthers(@, n),
                                         [k \in DOMAIN moved |-> Measured(moved[k])]),
                   !.changed = @ \/ moved # <<>> ]

\* Mutant: the farthest source always leaves, even to one that is farther.
FindInSockAny(g, at, l) ==
    LET Source(i) == g.wanted[<<l.dest, i>>]
        Far(i)    == Dist(at, Source(i), l.dest)
        sockets   == 1 .. InCount[l.dest]
        free      == {i \in sockets : Source(i) = NoNode}
    IN  IF free # {} THEN Min(free)
        ELSE Max({i \in sockets : \A j \in sockets : Far(j) <= Far(i)})

\* find_in_sock: the socket of the destination that the link may take, or 0: a
\* free one, else the one whose source is the farthest, if that is not nearer
\* than the link is long.
FindInSock(g, at, l) ==
    LET Source(i) == g.wanted[<<l.dest, i>>]
        Far(i)    == Dist(at, Source(i), l.dest)
        sockets   == 1 .. InCount[l.dest]
        free      == {i \in sockets : Source(i) = NoNode}
        farther   == {i \in sockets \ free : Far(i) >= l.dist}
        fixed     == Table[l.src, l.dest]
    IN  IF fixed = 0
        THEN CASE free # {} -> Min(free)
               [] free = {} /\ farther = {} -> 0
               [] OTHER -> Max({i \in farther : \A j \in farther : Far(j) <= Far(i)})
        ELSE IF fixed \in free \/ Dist(at, l.src, l.dest) < Far(fixed) THEN fixed ELSE 0

\* Mutant: the destination of a node is noted once.
TryLinkFirst(u, k, at) ==
    LET l == u.links[k]
        may == l.src \notin u.used /\ ~ (l.dest \in u.used /\ u.dest[l.dest] = l.src)
        i == FindInSock(u.g, at, l)
    IN  CASE may /\ IsLinked(u.g, l) -> [u EXCEPT !.used = @ \cup {l.src}]
          [] may /\ ~ IsLinked(u.g, l) /\ i # 0 ->
                [ u EXCEPT !.g = ConnectIn(@, <<l.dest, i>>, l.src),
                           !.links[k].socket = i, !.used = @ \cup {l.src},
                           !.dest[l.src] = IF @ = NoNode THEN l.dest ELSE @ ]
          [] OTHER -> [u EXCEPT !.g = UndoLink(@, l), !.links[k].socket = 0]

\* One turn of the loop of update (), over u = [g, links, dest, used].
TryLink(u, k, at) ==
    LET l == u.links[k]
        may == l.src \notin u.used /\ ~ (l.dest \in u.used /\ u.dest[l.dest] = l.src)
        i == FindInSock(u.g, at, l)
    IN  CASE may /\ IsLinked(u.g, l) -> [u EXCEPT !.used = @ \cup {l.src}]
          [] may /\ ~ IsLinked(u.g, l) /\ i = 0 -> [u EXCEPT !.links[k].socket = 0]
          [] may /\ ~ IsLinked(u.g, l) /\ i # 0 ->
                [ u EXCEPT !.g = ConnectIn(@, <<l.dest, i>>, l.src),
                           !.links[k].socket = i,
                           !.used = @ \cup {l.src},
                           !.dest[l.src] = l.dest ]
          [] OTHER -> [u EXCEPT !.g = UndoLink(@, l), !.links[k].socket = 0]

Update(p, g, at) ==
    LET end == FoldLeft(LAMBDA u, k : TryLink(u, k, at),
                        [g |-> g, links |-> p.links, dest |-> p.dest, used |-> {}],
                        [k \in DOMAIN p.links |-> k])
    IN  IF ~ p.changed THEN [p |-> p, g |-> g]
        ELSE [ g |-> end.g,
               p |-> [p EXCEPT !.links = end.links, !.dest = end.dest,
                               !.changed = FALSE] ]

-----------------------------------------------------------------------------
PatcherTypeOK(p) ==
    /\ p.nodes \subseteq Nodes
    /\ p.dest \in [Nodes -> Nodes \cup {NoNode}]
    /\ p.changed \in BOOLEAN
    /\ \A k \in DOMAIN p.links :
           LET l == p.links[k]
           IN  /\ l.src \in Nodes /\ l.dest \in Nodes /\ Table[l.src, l.dest] # NoLink
               /\ l.dist \in Nat /\ l.center \in Nat
               /\ l.socket \in 0 .. InCount[l.dest]
=============================================================================
