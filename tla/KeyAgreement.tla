--------------------------- MODULE KeyAgreement ---------------------------
(***************************************************************************)
(* What the provers' key generation promises: there is one group key, no   *)
(* prover gives it up once it has it, and whoever has not got it yet may   *)
(* get that one only.                                                      *)
(***************************************************************************)
CONSTANTS
  Provers,   \* the elected provers
  GroupKeys, \* the keys that may come out
  NoGroup    \* no key yet

VARIABLE group_key  \* group_key[p]: the group key that p holds

KeyTypeOK == group_key \in [Provers -> GroupKeys \cup {NoGroup}]

Init == group_key = [p \in Provers |-> NoGroup]

Obtain(p, g) ==
  /\ group_key[p] = NoGroup
  /\ \A q \in Provers : group_key[q] \in {NoGroup, g}
  /\ group_key' = [group_key EXCEPT ![p] = g]

Next == \E p \in Provers : \E g \in GroupKeys : Obtain(p, g)

Spec == Init /\ [][Next]_group_key
=============================================================================
