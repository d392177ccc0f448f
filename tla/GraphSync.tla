----------------------------- MODULE GraphSync -----------------------------
(***************************************************************************)
(* How the graph of new_graph stays the same on both sides: the nodes of   *)
(* one root patch, their ports and their controls.  Every piece of state   *)
(* exists twice, once for the user thread and once for the RT thread.  A   *)
(* user operation changes the first at once and the second through RT      *)
(* events, or directly while the processor does not run.                   *)
(*                                                                         *)
(* Events travel on the lane of module EventLanes from the user to the RT  *)
(* thread, without overflow.  A flip that falls between two pushes of one  *)
(* operation delivers a part of its events only.                           *)
(*                                                                         *)
(* A node has one input port, one output port, and maybe an input control. *)
(***************************************************************************)
EXTENDS SequencesExt

CONSTANTS
  Node,
  Sink,        \* the nodes that the processor pulls from
  Control,     \* the nodes that have an input control
  Value,       \* what a control can be set to
  None,        \* no port
  MaxPending,  \* bound: how many events may be under way
  Patient      \* whether the user lets the RT thread execute all events
               \* before stopping it or changing RT state directly

ASSUME GraphAssumption ==
  /\ Sink \subseteq Node
  /\ Control \subseteq Node
  /\ None \notin Node
  /\ IsFiniteSet(Node)
  /\ MaxPending \in Nat
  /\ Patient \in BOOLEAN

VARIABLES
  isRunning,  \* the processor's _is_running
  user,       \* the user thread's side
  rt,         \* the RT thread's side
  pending,    \* the events in the back buffer
  front,      \* the events in the front buffer
  phase,      \* where the block is
  updated,    \* the controls whose _is_updated is set
  posts,      \* the post-update events in the local buffer
  processed   \* the nodes whose _rt_processed is set

vars == <<isRunning, user, rt, pending, front, phase, updated, posts, processed>>

blockVars == <<phase, front, updated, posts, processed>>

(* childs: the patch's children; value, source: of the control and of the  *)
(* input port of every node; refs: the input ports that an output port     *)
(* lists as connected to it; sinks: the processor's list of sinks.         *)
Side == [childs : SUBSET Node, value : [Control -> Value],
         source : [Node -> Node \cup {None}], refs : [Node -> SUBSET Node],
         sinks : SUBSET Sink]

Change == [do : {"set"}, node : Control, to : Value]
     \cup [do : {"source"}, node : Node, to : Node \cup {None}]
     \cup [do : {"addRef", "delRef"}, node : Node, to : Node]
     \cup [do : {"addChild", "delChild"}, node : Node]
     \cup [do : {"addSink", "delSink"}, node : Sink]

TypeOK ==
  /\ isRunning \in BOOLEAN
  /\ user \in Side
  /\ rt \in Side
  /\ pending \in Seq(Change) /\ Len(pending) <= MaxPending
  /\ front \in Seq(Change)
  /\ phase \in {"idle", "events", "local"}
  /\ updated \in SUBSET Control
  /\ posts \in Seq(Control)
  /\ processed \in SUBSET Node

-----------------------------------------------------------------------------
(***************************************************************************)
(* Changes of either side.                                                 *)
(***************************************************************************)
Apply(s, c) ==
  CASE c.do = "set"      -> [s EXCEPT !.value[c.node] = c.to]
    [] c.do = "source"   -> [s EXCEPT !.source[c.node] = c.to]
    [] c.do = "addRef"   -> [s EXCEPT !.refs[c.node] = @ \cup {c.to}]
    [] c.do = "delRef"   -> [s EXCEPT !.refs[c.node] = @ \ {c.to}]
    [] c.do = "addChild" -> [s EXCEPT !.childs = @ \cup {c.node}]
    [] c.do = "delChild" -> [s EXCEPT !.childs = @ \ {c.node}]
    [] c.do = "addSink"  -> [s EXCEPT !.sinks = @ \cup {c.node}]
    [] c.do = "delSink"  -> [s EXCEPT !.sinks = @ \ {c.node}]

(* The sides along the way, from s to the one with every change. *)
Sides(s, changes) ==
  LET side[k \in 0..Len(changes)] ==
        IF k = 0 THEN s ELSE Apply(side[k - 1], changes[k])
  IN side

ApplyAll(s, changes) == Sides(s, changes)[Len(changes)]

(* The changes that the RT side has not seen yet. *)
UnderWay == front \o pending

(* node::attach_to_process, and the processor runs. *)
Live(n) == isRunning /\ n \in user.childs

(* What every operation does with its changes: the user's side at once,    *)
(* the RT side through events, or directly.                                *)
Send(live, changes) ==
  /\ user' = ApplyAll(user, changes)
  /\ IF live
       THEN /\ Len(UnderWay) + Len(changes) <= MaxPending
            /\ pending' = pending \o changes
            /\ UNCHANGED rt
       ELSE /\ Patient => UnderWay = <<>>
            /\ rt' = ApplyAll(rt, changes)
            /\ UNCHANGED pending
  /\ UNCHANGED <<isRunning, blockVars>>

-----------------------------------------------------------------------------
(***************************************************************************)
(* Operations of the user thread.                                          *)
(***************************************************************************)
(* in_control::set *)
SetControl(n, v) == Send(Live(n), <<[do |-> "set", node |-> n, to |-> v]>>)

(* Mutant: the old source keeps its reference. *)
ReconnectForgetful(s, n, src) ==
  (IF src # None THEN <<[do |-> "addRef", node |-> src, to |-> n]>> ELSE <<>>)
  \o <<[do |-> "source", node |-> n, to |-> src]>>

(* Mutant: a port that was not connected is disconnected from nothing. *)
ReconnectNull(s, n, src) ==
  <<[do |-> "delRef", node |-> s.source[n], to |-> n]>>
  \o (IF src # None THEN <<[do |-> "addRef", node |-> src, to |-> n]>> ELSE <<>>)
  \o <<[do |-> "source", node |-> n, to |-> src]>>

(* in_port_base::_connect: from the port's source in s to src. *)
Reconnect(s, n, src) ==
  LET old == s.source[n] IN
  (IF old # None THEN <<[do |-> "delRef", node |-> old, to |-> n]>> ELSE <<>>)
  \o (IF src # None THEN <<[do |-> "addRef", node |-> src, to |-> n]>> ELSE <<>>)
  \o <<[do |-> "source", node |-> n, to |-> src]>>

Connect(n, src) ==
  /\ {n, src} \subseteq user.childs
  /\ Send(Live(n), Reconnect(user, n, src))

Disconnect(n) ==
  /\ n \in user.childs
  /\ Send(Live(n), Reconnect(user, n, None))

(* patch::add, and processor::_explore_node_add: by the events' owners,    *)
(* the patch and the processor, who are always attached.                   *)
AddNode(n) ==
  /\ n \notin user.childs
  /\ Send(isRunning,
       <<[do |-> "addChild", node |-> n]>>
       \o (IF n \in Sink THEN <<[do |-> "addSink", node |-> n]>> ELSE <<>>))

(* The changes that disconnect the output port of n, reference by          *)
(* reference; its input port has been disconnected already.                *)
DropReferences(n) ==
  LET ports == SetToSeq(user.refs[n] \ {n})
      drop[k \in 0..Len(ports)] ==
        IF k = 0 THEN <<>> ELSE drop[k - 1] \o Reconnect(user, ports[k], None)
  IN drop[Len(ports)]

LeavePatch(n) ==
  <<[do |-> "delChild", node |-> n]>>
  \o (IF n \in Sink THEN <<[do |-> "delSink", node |-> n]>> ELSE <<>>)

(* Mutant: the node leaves the patch before it is disconnected. *)
RemoveNodeFirst(n) ==
  /\ n \in user.childs
  /\ Send(isRunning,
       LeavePatch(n) \o Reconnect(user, n, None) \o DropReferences(n))

(* patch::remove, and processor::_explore_node_remove. *)
RemoveNode(n) ==
  /\ n \in user.childs
  /\ Send(isRunning,
       Reconnect(user, n, None) \o DropReferences(n) \o LeavePatch(n))

Start ==
  /\ ~isRunning
  /\ isRunning' = TRUE
  /\ UNCHANGED <<user, rt, pending, blockVars>>

(* stop() joins the devices first: no block is left half done. *)
Stop ==
  /\ isRunning
  /\ phase = "idle"
  /\ Patient => UnderWay = <<>>
  /\ isRunning' = FALSE
  /\ UNCHANGED <<user, rt, pending, blockVars>>

-----------------------------------------------------------------------------
(***************************************************************************)
(* A block: processor::_rt_process_once.                                   *)
(***************************************************************************)
(* Mutant: what is pushed while the flip goes on is cleared with it. *)
BeginBlockClears ==
  /\ isRunning
  /\ phase = "idle"
  /\ \E k \in 0..Len(pending) : front' = SubSeq(pending, 1, k)
  /\ pending' = <<>>
  /\ phase' = "events"
  /\ UNCHANGED <<isRunning, user, rt, updated, posts, processed>>

(* flip_back (): what was pushed by now is delivered. *)
BeginBlock ==
  /\ isRunning
  /\ phase = "idle"
  /\ \E k \in 0..Len(pending) :
       /\ front' = SubSeq(pending, 1, k)
       /\ pending' = SubSeq(pending, k + 1, Len(pending))
  /\ phase' = "events"
  /\ UNCHANGED <<isRunning, user, rt, updated, posts, processed>>

(* Mutant: the mark is set without the event that resets it. *)
ExecuteNoPost ==
  /\ phase = "events"
  /\ front # <<>>
  /\ rt' = Apply(rt, Head(front))
  /\ updated' = IF Head(front).do = "set" THEN updated \cup {Head(front).node} ELSE updated
  /\ front' = Tail(front)
  /\ UNCHANGED <<isRunning, user, pending, phase, posts, processed>>

(* The next event; a control that is set is also marked as updated, and an *)
(* event for the end of the block unmarks it.                              *)
Execute ==
  /\ phase = "events"
  /\ front # <<>>
  /\ rt' = Apply(rt, Head(front))
  /\ IF Head(front).do = "set" /\ Head(front).node \notin updated
       THEN /\ updated' = updated \cup {Head(front).node}
            /\ posts' = Append(posts, Head(front).node)
       ELSE UNCHANGED <<updated, posts>>
  /\ front' = Tail(front)
  /\ UNCHANGED <<isRunning, user, pending, phase, processed>>

(* node::rt_process: what is visited from the nodes in todo along the      *)
(* source ports, not entering nodes that are processed already.            *)
Visited(todo) ==
  LET visit[k \in 0..Cardinality(Node)] ==
        IF k = 0 THEN todo \ processed
        ELSE visit[k - 1] \cup
             ({rt.source[n] : n \in visit[k - 1]} \ (processed \cup {None}))
  IN visit[Cardinality(Node)]

(* The loop over _sinks, _root->rt_advance () and flip_local (), which no  *)
(* other thread sees the middle of.                                        *)
ProcessSinks ==
  /\ phase = "events"
  /\ front = <<>>
  /\ processed' = (processed \cup Visited(rt.sinks)) \ rt.childs
  /\ phase' = "local"
  /\ UNCHANGED <<isRunning, user, rt, pending, front, updated, posts>>

(* The next post-update event. *)
ExecutePost ==
  /\ phase = "local"
  /\ posts # <<>>
  /\ updated' = updated \ {Head(posts)}
  /\ posts' = Tail(posts)
  /\ UNCHANGED <<isRunning, user, rt, pending, front, phase, processed>>

EndBlock ==
  /\ phase = "local"
  /\ posts = <<>>
  /\ phase' = "idle"
  /\ UNCHANGED <<isRunning, user, rt, pending, front, updated, posts, processed>>

-----------------------------------------------------------------------------
Init ==
  /\ isRunning = FALSE
  /\ \E v \in Value :
       user = [childs |-> {}, value |-> [n \in Control |-> v],
               source |-> [n \in Node |-> None], refs |-> [n \in Node |-> {}],
               sinks |-> {}]
  /\ rt = user
  /\ pending = <<>>
  /\ front = <<>>
  /\ phase = "idle"
  /\ updated = {}
  /\ posts = <<>>
  /\ processed = {}

UserNext ==
  \/ \E n \in Control, v \in Value : SetControl(n, v)
  \/ \E n \in Node :
       \/ \E src \in Node : Connect(n, src)
       \/ Disconnect(n) \/ AddNode(n) \/ RemoveNode(n)
  \/ Start \/ Stop

BlockNext ==
  \/ Execute \/ ProcessSinks \/ ExecutePost \/ EndBlock

Next == UserNext \/ BeginBlock \/ BlockNext

Spec == Init /\ [][Next]_vars

-----------------------------------------------------------------------------
(* The RT side catches up: once it has executed what is under way, it is   *)
(* exactly the user's side.                                                *)
RtCatchesUp == ApplyAll(rt, UnderWay) = user

(* The same of the controls alone: the last value set is what RT will see. *)
ControlsCatchUp == ApplyAll(rt, UnderWay).value = user.value

(* The RT thread never pulls from a node that has left the graph, although *)
(* a flip may deliver only some of the events of an operation: what a sink *)
(* or a child is connected to is a child.                                  *)
SourcesAreChilds ==
  phase = "events" /\ front = <<>> =>
    \A n \in rt.childs \cup rt.sinks : rt.source[n] \in rt.childs \cup {None}

(* A hook of an intrusive list is linked when it is in no list: a port in  *)
(* the references of an output, a node in the children of the patch.       *)
HooksLinkedOnce ==
  front # <<>> =>
    LET c == Head(front) IN
    /\ c.do = "addRef"   => \A n \in Node : c.to \notin rt.refs[n]
    /\ c.do = "addChild" => c.node \notin rt.childs

(* rt_is_updated () holds during the blocks in which the control was set   *)
(* and not between blocks.                                                 *)
UpdatesEndWithBlock ==
  /\ phase = "idle" => updated = {}
  /\ updated = {posts[i] : i \in 1..Len(posts)}
=============================================================================
