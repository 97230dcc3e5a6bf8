--------------------------- MODULE KeyGeneration ---------------------------
(***************************************************************************)
(* The first key generation of the ice-frost library                       *)
(* (ice-frost/src/dkg/key_generation.rs) with participants that misbehave: *)
(* proofs that do not verify, shares that do not decrypt or do not match   *)
(* their dealer's commitments, complaints without a cause.                 *)
(*                                                                         *)
(* The callers keep to what the library asks of them: all participants get *)
(* the same list, nobody goes to round two before having the shares of all *)
(* valid participants, and nobody calls blame() before all complaints are  *)
(* known.  Participants outside `faulty' do nothing else than calling the  *)
(* library; what a faulty one computes for itself is not modelled.         *)
(***************************************************************************)
EXTENDS Naturals, FiniteSets

CONSTANTS
  N, T,       \* the ThresholdParameters: so many participants, this threshold
  MaxFaulty,  \* bound: participants that misbehave
  MaxFalse    \* bound: complaints that they make

ASSUME ParametersAssumption ==
  N \in Nat /\ T \in Nat /\ 1 <= T /\ T <= N /\ MaxFaulty \in Nat /\ MaxFalse \in Nat

Participants == 1..N

VARIABLES
  faulty,      \* who misbehaves
  invalid,     \* whose proofs or whose commitments' degree are wrong
  state,       \* state[i]: the DistributedKeyGeneration of participant i
  complaints   \* all complaints made so far

vars == <<faulty, invalid, state, complaints>>

Honest == Participants \ faulty
Valid == Participants \ invalid

-----------------------------------------------------------------------------
\* A share: not there, right, not what its dealer committed to, or undecryptable.
Share == {"none", "good", "wrong"}
EncryptedShare == {"good", "wrong", "garbled"}

\* A complaint names its maker and the accused as the share in it does; `share' is what
\* the complaint's key makes of that share, `proof' whether that key is proved right.
Complaint ==
  [maker : Participants, accused : 0..(N + 1), proof : BOOLEAN, share : EncryptedShare]

\* The typestate, and ActualState: n of the parameters, whose commitments there are, and
\* the shares received.  "blamed": in round two, after blame().
State ==
  [status : {"start", "round_one", "round_two", "blamed", "finished", "aborted"},
   n : {0} \cup T..N,
   their_commitments : SUBSET Participants,
   my_secret_shares : [Participants -> Share]]

NoShares == [d \in Participants |-> "none"]

Init ==
  /\ faulty \in {F \in SUBSET Participants : Cardinality(F) <= MaxFaulty}
  /\ invalid \in SUBSET faulty
  /\ state = [i \in Participants |->
       [status |-> "start", n |-> 0, their_commitments |-> {}, my_secret_shares |-> NoShares]]
  /\ complaints = {}

-----------------------------------------------------------------------------
\* Mutant of enough_participants: valid or not, all count.
enough_participants_listed == Cardinality(Participants) >= T

enough_participants == Cardinality(Valid) >= T

\* bootstrap() checks the proofs and the degree of all, and goes on with those that are
\* valid: the parameters' n is their number, their indices are what they were.
bootstrap(i) ==
  /\ i \in Honest /\ state[i].status = "start"
  /\ \/ /\ ~enough_participants
        /\ state' = [state EXCEPT ![i].status = "aborted"]
     \/ /\ enough_participants
        /\ state' = [state EXCEPT ![i].status = "round_one",
                                  ![i].n = Cardinality(Valid),
                                  ![i].their_commitments = Valid]
  /\ UNCHANGED <<faulty, invalid, complaints>>

\* What a participant can have received: right shares of honest dealers that have dealt,
\* anything of the others.
Received(i) ==
  {r \in [state[i].their_commitments -> EncryptedShare] :
     \A d \in state[i].their_commitments \ faulty : r[d] = "good"}

\* Mutant of too_many: aborts with T participants left.
too_many_or_enough(n, accused) == n - Cardinality(accused) <= T

too_many(n, accused) == n - Cardinality(accused) < T

\* to_round_two() makes a complaint about every share that is not good, keeps those that
\* could be decrypted, and gives up, with its complaints, if too many are accused.
to_round_two(i) ==
  /\ i \in Honest /\ state[i].status = "round_one"
  /\ \A d \in state[i].their_commitments \ faulty : state[d].status # "start"
  /\ \E r \in Received(i) :
       LET accused == {d \in DOMAIN r : r[d] # "good"} IN
       /\ complaints' = complaints \cup
            {[maker |-> i, accused |-> d, proof |-> TRUE, share |-> r[d]] : d \in accused}
       /\ \/ /\ too_many(state[i].n, accused)
             /\ state' = [state EXCEPT ![i].status = "aborted"]
          \/ /\ ~too_many(state[i].n, accused)
             /\ state' = [state EXCEPT ![i].status = "round_two",
                  ![i].my_secret_shares = [d \in Participants |->
                     IF d \in DOMAIN r /\ r[d] # "garbled" THEN r[d] ELSE "none"]]
  /\ UNCHANGED <<faulty, invalid>>

\* All honest participants have done with their shares, and with their complaints.
AllComplained == \A i \in Honest : state[i].status \notin {"start", "round_one"}

\* A faulty participant accuses anybody, or nobody there is.  Of an honest dealer it has
\* a good share.
false_complaint(j) ==
  /\ j \in faulty
  /\ Cardinality({c \in complaints : c.maker \in faulty}) < MaxFalse
  /\ \A i \in Honest : state[i].status \notin {"blamed", "finished"}
  /\ \E a \in 0..(N + 1), p \in BOOLEAN, k \in EncryptedShare :
       /\ a \in Honest => k = "good"
       /\ complaints' = complaints \cup
            {[maker |-> j, accused |-> a, proof |-> p, share |-> k]}
  /\ UNCHANGED <<faulty, invalid, state>>

\* Mutants of upheld: the complaint's share is not looked at; one's own is, in its place.
upheld_unseen(s, c) == c.accused \in s.their_commitments /\ c.accused <= s.n /\ c.proof
upheld_own(s, c) ==
  /\ c.accused \in s.their_commitments /\ c.accused <= s.n
  /\ c.proof
  /\ s.my_secret_shares[c.accused] # "good"

\* The accused is one of n, with commitments, and the share in the complaint is bad.
upheld(s, c) ==
  /\ c.accused # 0 /\ c.accused <= s.n
  /\ c.accused \in s.their_commitments
  /\ c.proof
  /\ c.share # "good"

\* Either the accused or the maker is removed.
pending_removals(s) ==
  {IF upheld(s, c) THEN c.accused ELSE c.maker : c \in complaints}

\* Mutant of remove_malicious: the shares are left.
remove_commitments(s, R) == [s EXCEPT !.their_commitments = @ \ R]

remove_malicious(s, R) ==
  [s EXCEPT !.their_commitments = @ \ R,
            !.my_secret_shares = [d \in Participants |-> IF d \in R THEN "none" ELSE @[d]]]

blame(i) ==
  /\ i \in Honest /\ state[i].status = "round_two"
  /\ AllComplained
  /\ state' = [state EXCEPT ![i] =
       [remove_malicious(@, pending_removals(@)) EXCEPT !.status = "blamed"]]
  /\ UNCHANGED <<faulty, invalid, complaints>>

\* finish() interpolates the shares to the signing key and the commitments to the group
\* key: from here on the two sets stand for the two keys.
finish(i) ==
  /\ i \in Honest /\ state[i].status = "blamed"
  /\ state' = [state EXCEPT ![i].status = "finished"]
  /\ UNCHANGED <<faulty, invalid, complaints>>

step(i) == bootstrap(i) \/ to_round_two(i) \/ blame(i) \/ finish(i)

Next == \E i \in Participants : step(i) \/ false_complaint(i)

Spec == Init /\ [][Next]_vars

\* Honest callers go on as soon as they may; nobody needs to complain.
FairSpec == Spec /\ \A i \in Participants : WF_vars(step(i))

-----------------------------------------------------------------------------
(***************************************************************************)
(* Properties.                                                             *)
(***************************************************************************)
TypeOK ==
  /\ faulty \subseteq Participants /\ invalid \subseteq faulty
  /\ state \in [Participants -> State]
  /\ complaints \subseteq Complaint

Finished(i) == state[i].status = "finished"
Removed(i) == state[i].status \in {"blamed", "finished"}

\* Enough participants are honest to make up a key.
Tolerable == Cardinality(faulty) <= N - T

\* No valid participant has an index past their number: blame() takes an accused that
\* has for one that does not exist (`accused_index > self.state.parameters.n').
InRange == \A d \in Valid : d <= Cardinality(Valid)

\* Honest participants agree on whom to remove, and so on the group key, whatever the
\* others deal and complain about: the library implements KeyAgreement, with the set of
\* dealers standing for the key (in a set of its own, for there may be no key).
Agreement == INSTANCE KeyAgreement WITH
  Provers <- Participants,
  GroupKeys <- {{D} : D \in SUBSET Participants},
  NoGroup <- {},
  group_key <- [i \in Participants |->
                  IF i \in Honest /\ Finished(i) THEN {state[i].their_commitments} ELSE {}]

AgreementSpec == Agreement!Spec

\* blame() never removes an honest participant.
HonestKept == \A i \in Honest : Removed(i) => Honest \subseteq state[i].their_commitments
HonestKeptInRange == InRange => HonestKept

\* When blame() is done, one's shares are exactly the good shares of those whose
\* commitments make up the group key: both keys of finish() belong together.
WholeKey ==
  \A i \in Honest : Removed(i) =>
    state[i].my_secret_shares =
      [d \in Participants |-> IF d \in state[i].their_commitments THEN "good" ELSE "none"]
WholeKeyInRange == InRange => WholeKey

\* Nobody makes a key of fewer dealers than the threshold: a participant aborts instead
\* (the guards at the end of new_state_internal's loop and of to_round_two).
EnoughDealers == \A i \in Honest : Finished(i) => Cardinality(state[i].their_commitments) >= T
EnoughDealersTolerable == Tolerable /\ InRange => EnoughDealers

\* With no more faulty participants than the threshold allows for, every honest one ends
\* with a key, wherever it is accused and whatever it receives.
Robust == Tolerable => <>(\A i \in Honest : Finished(i))
=============================================================================
