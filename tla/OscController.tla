--------------------------- MODULE OscController ---------------------------
(***************************************************************************)
(* psynth::osc_controller over a psynth::world: how one host of a session  *)
(* turns what its user does to the nodes of the world into messages, and   *)
(* the messages of the others into changes of its world.                   *)
(*                                                                         *)
(* A node has an identifier of its own on every host, and one of the       *)
(* session, the pair of the identifier of the host that made it and its    *)
(* identifier there.  m_net_id and m_local_id translate.                   *)
(*                                                                         *)
(* m_skip is not 0 only while a callback calls the world, whose            *)
(* notifications come back at once: here a callback simply does not use    *)
(* the handlers.  Its early returns, which leave m_skip at 1, need a       *)
(* parameter that the sender did not have and cannot happen between hosts  *)
(* that run this code.                                                     *)
(***************************************************************************)
EXTENDS Integers, Sequences, FiniteSets

CONSTANTS Server, Clients,
          Values       \* of the parameter of a node; a new node has 0

ASSUME HostsAssumption == Server \notin Clients

Hosts == Clients \cup {Server}

MinUserId == 1024                 \* world::MIN_USER_ID

NewNode == [value |-> 0, active |-> FALSE]

\* A controller that is not activated, over a world with no user nodes.
NewHost == [ on      |-> FALSE,       \* m_activated
             id      |-> 0,           \* m_id
             targets |-> {},          \* osc_broadcast::m_dest
             nodes   |-> <<>>,        \* the user nodes of the world, by identifier
             lastId  |-> MinUserId,   \* world::m_last_id
             netId   |-> <<>>,        \* m_net_id
             localId |-> <<>> ]       \* m_local_id

Without(f, x) == [y \in DOMAIN f \ {x} |-> f[y]]
With(f, x, v) == [y \in DOMAIN f \cup {x} |-> IF y = x THEN v ELSE f[y]]

\* clear () of the controller and of its list of targets; the world stays.
Cleared(host) == [ host EXCEPT !.on = FALSE, !.targets = {},
                               !.netId = <<>>, !.localId = <<>> ]

\* world::clear ()
Emptied(host) == [ host EXCEPT !.nodes = <<>> ]

-----------------------------------------------------------------------------
(* The world.                                                              *)

WithNode(host) ==
    [ host EXCEPT !.nodes = With(@, host.lastId, NewNode), !.lastId = @ + 1 ]

\* What an operation on a node that exists does to it.
Changed(host, node, op) ==
    CASE op.type = "delete"     -> [host EXCEPT !.nodes = Without(@, node)]
      [] op.type = "param"      -> [host EXCEPT !.nodes[node].value = op.value]
      [] op.type = "activate"   -> [host EXCEPT !.nodes[node].active = TRUE]
      [] op.type = "deactivate" -> [host EXCEPT !.nodes[node].active = FALSE]

-----------------------------------------------------------------------------
(* Identifiers.                                                            *)

\* What operator [] makes of a node the controller was not told of.
NoNet == <<0, 0>>

NetOf(host, node) ==
    IF node \in DOMAIN host.netId THEN host.netId[node] ELSE NoNet

Known(host, net) ==
    net \in DOMAIN host.localId /\ host.localId[net] \in DOMAIN host.nodes

Named(host, net, node) ==
    [ host EXCEPT !.netId = With(@, node, net), !.localId = With(@, net, node) ]

\* Mutant: one of the two maps keeps the name.
ForgottenHalf(host, net, node) == [host EXCEPT !.netId = Without(@, node)]
Forgotten(host, net, node) ==
    [ host EXCEPT !.netId = Without(@, node), !.localId = Without(@, net) ]

-----------------------------------------------------------------------------
(* What the user does, and the handlers of the controller that listens.    *)

Op(type, net, value, by) == [type |-> type, net |-> net, value |-> value, by |-> by]

HandleAdd(host, node) == Named(host, <<host.id, node>>, node)

HandleOther(host, op, node) ==
    IF op.type = "delete"
    THEN Forgotten(host, op.net, node)
    ELSE [host EXCEPT !.netId = With(@, node, op.net)]

-----------------------------------------------------------------------------
(* The callbacks, for an operation that comes from a target.  _delete_cb   *)
(* reads the iterator it has just erased: the entry of m_net_id is erased  *)
(* or stays.                                                               *)

AddCallback(host, op) == Named(WithNode(host), op.net, host.lastId)

OtherCallbacks(host, op) ==
    LET node    == host.localId[op.net]
        changed == Changed(host, node, op)
    IN  IF op.type = "delete"
        THEN { Forgotten(changed, op.net, node),
               [changed EXCEPT !.localId = Without(@, op.net)] }
        ELSE {changed}

-----------------------------------------------------------------------------
Nodes == [value: Values \cup {0}, active: BOOLEAN]
=============================================================================
