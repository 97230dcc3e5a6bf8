----------------------------- MODULE Broadcast ------------------------------
(***************************************************************************)
(* What DkgEngine and AppState take the way of a message to be: an actor   *)
(* of one node has it gossiped, and an actor of another may handle it at   *)
(* any time from then on, in any order, and once, unless its process was   *)
(* killed and started again.  (Those modules also let a message come again,*)
(* when gossipsub forgets that it has delivered it.)                       *)
(***************************************************************************)
EXTENDS Sequences

CONSTANT Nodes

VARIABLES
  sent,      \* the messages gossiped so far
  handled    \* handled[v]: those that the actors of v have handled, in that order

Init ==
  /\ sent = {}
  /\ handled = [v \in Nodes |-> <<>>]

\* Nothing that was gossiped is forgotten, and what is new is v's.
gossips(v) == sent \subseteq sent' /\ \A m \in sent' \ sent : m.from = v

gossip(v) == gossips(v) /\ UNCHANGED handled

\* In handling one message an actor may have another gossiped.
handle(v) ==
  \E m \in sent :
    /\ m.from # v
    /\ \A k \in DOMAIN handled[v] : handled[v][k] # m
    /\ handled' = [handled EXCEPT ![v] = Append(@, m)]
    /\ gossips(v)

crash(v) ==
  /\ handled' = [handled EXCEPT ![v] = <<>>]
  /\ UNCHANGED sent

Next == \E v \in Nodes : gossip(v) \/ handle(v) \/ crash(v)

Spec == Init /\ [][Next]_<<sent, handled>>
=============================================================================
