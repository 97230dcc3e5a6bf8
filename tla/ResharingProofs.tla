-------------------------- MODULE ResharingProofs --------------------------
(***************************************************************************)
(* Theorems about Resharing for any numbers of dealers and signers, any    *)
(* thresholds, and any number of those that misbehave and of complaints    *)
(* they make.  The agreement uses nothing of the arithmetic: it rests on   *)
(* everybody's judging the same complaints by the same commitments.  Who   *)
(* is blamed, and what the keys are, rests on the theorems of              *)
(* SecretSharingProofs, on a field of which all indices are elements.      *)
(***************************************************************************)
EXTENDS Resharing, SecretSharingProofs, FiniteSetTheorems, TLAPS

(***************************************************************************)
(* The inductive invariant.  Who has started found all dealers' deals,     *)
(* and so the same valid ones; and once anybody has called blame() there   *)
(* are no new complaints, so that everybody removes the same dealers.      *)
(***************************************************************************)
Removals == pending_removals([n |-> Cardinality(Valid), their_commitments |-> Valid])

Shape ==
  /\ faulty \subseteq Dealers /\ dishonest \subseteq Signers /\ unproved \subseteq dishonest
  /\ deal = [d \in Dealers |-> deal[d]]
  /\ state \in [Signers -> State]

StateInv(s) ==
  /\ s.status # "start" => AllDealt
  /\ s.status \in {"round_one", "round_two"} =>
       s.n = Cardinality(Valid) /\ s.their_commitments = Valid
  /\ s.status \in {"blamed", "finished"} => s.their_commitments = Valid \ Removals

SameInv ==
  /\ \A j \in Honest : StateInv(state[j])
  /\ (\E j \in Honest : Removed(j)) => AllComplained

-----------------------------------------------------------------------------
(***************************************************************************)
(* The steps.                                                              *)
(***************************************************************************)

\* The valid dealers are at most all.
LEMMA ValidCount ==
  /\ Valid \in SUBSET Dealers
  /\ IsFiniteSet(Valid) /\ Cardinality(Valid) \in 0..N
  <1>1. IsFiniteSet(Dealers) /\ Cardinality(Dealers) = N
    BY ParametersAssumption, FS_Interval DEF Dealers
  <1>2. Valid \subseteq Dealers  BY DEF Valid
  <1>3. IsFiniteSet(Valid) /\ Cardinality(Valid) <= N /\ Cardinality(Valid) \in Nat
    BY <1>1, <1>2, FS_Subset, FS_CardinalityType
  <1>4. QED  BY <1>2, <1>3, ParametersAssumption

\* Dealers deal once, and touch nothing else.
LEMMA DealFields ==
  ASSUME Shape, NEW d \in Dealers, reshare(d) \/ misdeal(d)
  PROVE  /\ ~AllDealt
         /\ UNCHANGED <<cast, state, complaints>>
         /\ deal' = [e \in Dealers |-> deal'[e]]
  <1>1. PICK coefficients, proof : publish(d, coefficients, proof)
    BY DEF reshare, misdeal
  <1>2. ~Dealt(d) /\ UNCHANGED <<cast, state, complaints>>
    BY <1>1 DEF publish
  <1>3. deal' = [deal EXCEPT ![d] = [coefficients |-> coefficients, proof |-> proof]]
    BY <1>1 DEF publish
  <1>4. deal' = [e \in Dealers |-> deal'[e]]  BY <1>3 DEF Shape
  <1>5. QED  BY <1>2, <1>4 DEF AllDealt

\* new() of signer j.
LEMMA NewFields ==
  ASSUME Shape, NEW j \in Signers, new(j)
  PROVE  /\ j \in Honest /\ state[j].status = "start" /\ AllDealt
         /\ UNCHANGED <<cast, deal, complaints>>
         /\ \A i \in Signers \ {j} : state'[i] = state[i]
         /\ state' \in [Signers -> State]
         /\ \/ state'[j].status = "aborted"
            \/ /\ state'[j].status = "round_one"
               /\ state'[j].n = Cardinality(Valid)
               /\ state'[j].their_commitments = Valid
  <1>1. state[j] \in State /\ Valid \in SUBSET Dealers
    BY ValidCount DEF Shape
  <1>2. CASE state' = [state EXCEPT ![j].status = "aborted"]
    BY <1>1, <1>2 DEF new, Shape, State
  <1>3. CASE /\ enough_dealers
             /\ state' = [state EXCEPT ![j].status = "round_one",
                                       ![j].n = Cardinality(Valid),
                                       ![j].their_commitments = Valid]
    <2>1. Cardinality(Valid) \in T..N
      BY <1>3, ValidCount, ParametersAssumption DEF enough_dealers
    <2>2. QED  BY <1>1, <1>3, <2>1 DEF new, Shape, State
  <1>4. QED  BY <1>2, <1>3 DEF new

\* to_round_two() of signer j.
LEMMA RoundTwoFields ==
  ASSUME Shape, NEW j \in Signers, to_round_two(j)
  PROVE  /\ j \in Honest /\ state[j].status = "round_one" /\ UNCHANGED <<cast, deal>>
         /\ \A i \in Signers \ {j} : state'[i] = state[i]
         /\ state' \in [Signers -> State]
         /\ state'[j].status \in {"aborted", "round_two"}
         /\ state'[j].n = state[j].n
         /\ state'[j].their_commitments = state[j].their_commitments
  <1>1. PICK r \in Received(j) :
          \/ state' = [state EXCEPT ![j].status = "aborted"]
          \/ state' = [state EXCEPT ![j].status = "round_two",
               ![j].my_secret_shares = [d \in Dealers |->
                  IF d \in DOMAIN r /\ r[d] # "garbled" THEN r[d] ELSE "none"]]
    BY DEF to_round_two
  <1> DEFINE shares == [d \in Dealers |->
                          IF d \in DOMAIN r /\ r[d] # "garbled" THEN r[d] ELSE "none"]
  <1>2. r \in [state[j].their_commitments -> EncryptedShare]  BY DEF Received
  <1>3. shares \in [Dealers -> Share]  BY <1>2 DEF EncryptedShare, Share
  <1>4. state[j] \in State  BY DEF Shape
  <1>5. j \in Honest /\ state[j].status = "round_one" /\ UNCHANGED <<cast, deal>>
    BY DEF to_round_two
  <1>6. CASE state' = [state EXCEPT ![j].status = "aborted"]
    BY <1>4, <1>5, <1>6 DEF Shape, State
  <1>7. CASE state' = [state EXCEPT ![j].status = "round_two", ![j].my_secret_shares = shares]
    <2> HIDE DEF shares
    <2>1. QED  BY <1>3, <1>4, <1>5, <1>7 DEF Shape, State
  <1>8. QED  BY <1>1, <1>6, <1>7

\* blame() of signer j.
LEMMA BlameFields ==
  ASSUME Shape, NEW j \in Signers, blame(j)
  PROVE  /\ j \in Honest /\ state[j].status = "round_two" /\ AllComplained
         /\ UNCHANGED <<cast, deal, complaints>>
         /\ \A i \in Signers \ {j} : state'[i] = state[i]
         /\ state' \in [Signers -> State]
         /\ state'[j].status = "blamed"
         /\ state'[j].their_commitments =
              state[j].their_commitments \ pending_removals(state[j])
  <1> DEFINE s == state[j]
  <1> DEFINE R == pending_removals(s)
  <1> DEFINE t == [remove_malicious(s, R) EXCEPT !.status = "blamed"]
  <1>1. state' = [state EXCEPT ![j] = t]  BY DEF blame
  <1>2. s \in State  BY DEF Shape
  <1>3. /\ j \in Honest /\ s.status = "round_two" /\ AllComplained
        /\ UNCHANGED <<cast, deal, complaints>>
    BY DEF blame
  <1> HIDE DEF R, s
  <1>4. /\ t \in State /\ t.status = "blamed"
        /\ t.their_commitments = s.their_commitments \ R
    BY <1>2 DEF remove_malicious, State, Share
  <1> HIDE DEF t
  <1>5. QED  BY <1>1, <1>3, <1>4 DEF Shape, R, s

\* finish() of signer j.
LEMMA FinishFields ==
  ASSUME Shape, NEW j \in Signers, finish(j)
  PROVE  /\ j \in Honest /\ state[j].status = "blamed"
         /\ UNCHANGED <<cast, deal, complaints>>
         /\ \A i \in Signers \ {j} : state'[i] = state[i]
         /\ state' \in [Signers -> State]
         /\ state'[j].status = "finished"
         /\ state'[j].their_commitments = state[j].their_commitments
  <1>1. state[j] \in State  BY DEF Shape
  <1>2. QED  BY <1>1 DEF finish, Shape, State

\* A step of a signer touches its own state only.
LEMMA SignerFields ==
  ASSUME Shape, NEW j \in Signers, sign_up(j) \/ false_complaint(j)
  PROVE  UNCHANGED <<cast, deal>> /\ state' \in [Signers -> State]
  <1>1. CASE new(j)  BY <1>1, NewFields
  <1>2. CASE to_round_two(j)  BY <1>2, RoundTwoFields
  <1>3. CASE blame(j)  BY <1>3, BlameFields
  <1>4. CASE finish(j)  BY <1>4, FinishFields
  <1>5. CASE false_complaint(j)  BY <1>5 DEF false_complaint, Shape
  <1>6. QED  BY <1>1, <1>2, <1>3, <1>4, <1>5 DEF sign_up

\* The state keeps its shape: signers' states are what TypeOK says.
THEOREM ShapeCorrect == Spec => []Shape
  <1>1. Init => Shape
    BY DEF Init, Shape, State, Share
  <1>2. Shape /\ [Next]_vars => Shape'
    <2> SUFFICES ASSUME Shape, [Next]_vars PROVE Shape'
      OBVIOUS
    <2>1. ASSUME NEW d \in Dealers, reshare(d) \/ misdeal(d) PROVE Shape'
      BY <2>1, DealFields DEF Shape, cast
    <2>2. ASSUME NEW j \in Signers, sign_up(j) \/ false_complaint(j) PROVE Shape'
      BY <2>2, SignerFields DEF Shape, cast
    <2>3. CASE UNCHANGED vars  BY <2>3 DEF vars, cast, Shape
    <2>4. QED  BY <2>1, <2>2, <2>3 DEF Next
  <1>3. QED  BY <1>1, <1>2, PTL DEF Spec

-----------------------------------------------------------------------------
(***************************************************************************)
(* The invariant is inductive.                                             *)
(***************************************************************************)

\* Who is valid, and what blame() removes, depends on deals and complaints only.
LEMMA SameRemovals ==
  ASSUME UNCHANGED <<cast, deal>>
  PROVE  /\ Honest' = Honest /\ AllDealt' = AllDealt /\ Valid' = Valid
         /\ complaints' = complaints => Removals' = Removals
  <1>1. Honest' = Honest /\ AllDealt' = AllDealt /\ Valid' = Valid
    BY DEF cast, Honest, AllDealt, Dealt, Valid, valid, commitments
  <1>2. ASSUME complaints' = complaints PROVE Removals' = Removals
    BY <1>1, <1>2 DEF Removals, pending_removals, upheld, bad_share, decrypt_share, commitments
  <1>3. QED  BY <1>1, <1>2

\* A signer's part of the invariant stays when it does not move, as long as there is no
\* new complaint after its blame().
LEMMA StateKept ==
  ASSUME NEW i, StateInv(state[i]), state'[i] = state[i], UNCHANGED <<cast, deal>>,
         complaints' = complaints \/ ~(state[i].status \in {"blamed", "finished"})
  PROVE  StateInv(state[i])'
  BY SameRemovals DEF StateInv

\* A dealer deals before any signer starts.
LEMMA DealKeeps ==
  ASSUME Shape, SameInv, NEW d \in Dealers, reshare(d) \/ misdeal(d)
  PROVE  SameInv'
  <1>1. ~AllDealt /\ UNCHANGED <<cast, state, complaints>>
    BY DealFields
  <1>2. Honest' = Honest  BY <1>1 DEF cast, Honest
  <1>3. \A j \in Honest : state[j].status = "start"
    BY <1>1 DEF SameInv, StateInv
  <1>4. \A j \in Honest' : StateInv(state[j])' /\ ~Removed(j)'
    BY <1>1, <1>2, <1>3 DEF StateInv, Removed
  <1>5. QED  BY <1>4 DEF SameInv

\* new() starts with the valid dealers.
LEMMA NewKeeps ==
  ASSUME Shape, SameInv, NEW j \in Signers, new(j)
  PROVE  SameInv'
  <1>1. Honest' = Honest /\ Valid' = Valid /\ AllDealt' = AllDealt
    BY NewFields, SameRemovals
  <1>2. ~AllComplained  BY NewFields DEF AllComplained
  <1>3. \A i \in Honest : ~Removed(i)  BY <1>2 DEF SameInv
  <1>4. ASSUME NEW i \in Honest PROVE StateInv(state[i])' /\ ~Removed(i)'
    <2>1. CASE i = j  BY <1>1, <2>1, NewFields DEF StateInv, Removed
    <2>2. CASE i # j
      <3>1. StateInv(state[i]) /\ i \in Signers  BY DEF SameInv, Honest
      <3>2. StateInv(state[i])'  BY <2>2, <3>1, NewFields, StateKept
      <3>3. QED  BY <1>3, <2>2, <3>1, <3>2, NewFields DEF Removed
    <2>3. QED  BY <2>1, <2>2
  <1>5. QED  BY <1>1, <1>4 DEF SameInv

\* to_round_two() keeps the dealers.
LEMMA RoundTwoKeeps ==
  ASSUME Shape, SameInv, NEW j \in Signers, to_round_two(j)
  PROVE  SameInv'
  <1>1. Honest' = Honest /\ Valid' = Valid /\ AllDealt' = AllDealt /\ j \in Honest
    BY RoundTwoFields, SameRemovals
  <1>2. ~AllComplained  BY RoundTwoFields DEF AllComplained
  <1>3. \A i \in Honest : ~Removed(i)  BY <1>2 DEF SameInv
  <1>4. ASSUME NEW i \in Honest PROVE StateInv(state[i])' /\ ~Removed(i)'
    <2>1. CASE i = j
      <3>1. StateInv(state[j])  BY <1>1 DEF SameInv
      <3>2. QED  BY <1>1, <2>1, <3>1, RoundTwoFields DEF StateInv, Removed
    <2>2. CASE i # j
      <3>1. StateInv(state[i]) /\ i \in Signers  BY DEF SameInv, Honest
      <3>2. ~(state[i].status \in {"blamed", "finished"})  BY <1>3 DEF Removed
      <3>3. StateInv(state[i])'  BY <2>2, <3>1, <3>2, RoundTwoFields, StateKept
      <3>4. QED  BY <1>3, <2>2, <3>1, <3>3, RoundTwoFields DEF Removed
    <2>3. QED  BY <2>1, <2>2
  <1>5. QED  BY <1>1, <1>4 DEF SameInv

\* A complaint comes before anybody calls blame().
LEMMA FalseComplaintKeeps ==
  ASSUME Shape, SameInv, NEW s \in Signers, false_complaint(s)
  PROVE  SameInv'
  <1>1. UNCHANGED <<cast, deal, state>> /\ \A j \in Honest : ~Removed(j)
    BY DEF false_complaint
  <1>2. Honest' = Honest  BY <1>1, SameRemovals
  <1>3. ASSUME NEW i \in Honest PROVE StateInv(state[i])' /\ ~Removed(i)'
    <2>1. StateInv(state[i])  BY DEF SameInv
    <2>2. ~(state[i].status \in {"blamed", "finished"})  BY <1>1 DEF Removed
    <2>3. StateInv(state[i])'  BY <1>1, <2>1, <2>2, StateKept
    <2>4. QED  BY <1>1, <2>3 DEF Removed
  <1>4. QED  BY <1>2, <1>3 DEF SameInv

\* blame() removes what everybody's blame() removes.
LEMMA BlameKeeps ==
  ASSUME Shape, SameInv, NEW j \in Signers, blame(j)
  PROVE  SameInv'
  <1>1. /\ Honest' = Honest /\ Valid' = Valid /\ AllDealt' = AllDealt /\ j \in Honest
        /\ Removals' = Removals
    BY BlameFields, SameRemovals
  <1>2. StateInv(state[j]) /\ state[j].status = "round_two"
    BY <1>1, BlameFields DEF SameInv
  <1>3. pending_removals(state[j]) = Removals
    BY <1>2 DEF StateInv, Removals, pending_removals, upheld
  <1>4. ASSUME NEW i \in Honest PROVE StateInv(state[i])'
    <2>1. CASE i = j  BY <1>1, <1>2, <1>3, <2>1, BlameFields DEF StateInv
    <2>2. CASE i # j
      <3>1. StateInv(state[i]) /\ i \in Signers  BY DEF SameInv, Honest
      <3>2. QED  BY <2>2, <3>1, BlameFields, StateKept
    <2>3. QED  BY <2>1, <2>2
  <1>5. AllComplained'
    <2>1. \A i \in Honest : i \in Signers  BY DEF Honest
    <2>2. QED  BY <1>1, <2>1, BlameFields DEF AllComplained
  <1>6. QED  BY <1>1, <1>4, <1>5 DEF SameInv

\* finish() keeps what blame() has left.
LEMMA FinishKeeps ==
  ASSUME Shape, SameInv, NEW j \in Signers, finish(j)
  PROVE  SameInv'
  <1>1. /\ Honest' = Honest /\ Valid' = Valid /\ AllDealt' = AllDealt /\ j \in Honest
        /\ Removals' = Removals
    BY FinishFields, SameRemovals
  <1>2. StateInv(state[j]) /\ state[j].status = "blamed"
    BY <1>1, FinishFields DEF SameInv
  <1>3. ASSUME NEW i \in Honest PROVE StateInv(state[i])'
    <2>1. CASE i = j  BY <1>1, <1>2, <2>1, FinishFields DEF StateInv
    <2>2. CASE i # j
      <3>1. StateInv(state[i]) /\ i \in Signers  BY DEF SameInv, Honest
      <3>2. QED  BY <2>2, <3>1, FinishFields, StateKept
    <2>3. QED  BY <2>1, <2>2
  <1>4. AllComplained
    <2>1. Removed(j)  BY <1>2 DEF Removed
    <2>2. QED  BY <1>1, <2>1 DEF SameInv
  <1>5. AllComplained'
    <2>1. \A i \in Honest : i \in Signers  BY DEF Honest
    <2>2. QED  BY <1>1, <1>4, <2>1, FinishFields DEF AllComplained
  <1>6. QED  BY <1>1, <1>3, <1>5 DEF SameInv

\* All honest signers have found the same valid dealers, and remove the same.
THEOREM SameCorrect == Spec => []SameInv
  <1>1. Init => SameInv
    <2> SUFFICES ASSUME Init PROVE SameInv
      OBVIOUS
    <2>1. \A j \in Honest : state[j].status = "start"  BY DEF Init, Honest
    <2>2. QED  BY <2>1 DEF SameInv, StateInv, Removed
  <1>2. Shape /\ SameInv /\ [Next]_vars => SameInv'
    <2> SUFFICES ASSUME Shape, SameInv, [Next]_vars PROVE SameInv'
      OBVIOUS
    <2>1. CASE UNCHANGED vars
      <3>1. UNCHANGED <<cast, deal>> /\ UNCHANGED <<state, complaints>>
        BY <2>1 DEF vars
      <3>2. Honest' = Honest  BY <3>1, SameRemovals
      <3>3. ASSUME NEW i \in Honest PROVE StateInv(state[i])'
        BY <3>1, StateKept DEF SameInv
      <3>4. QED  BY <3>1, <3>2, <3>3 DEF SameInv, Removed, AllComplained
    <2>2. QED
      BY <2>1, DealKeeps, NewKeeps, RoundTwoKeeps, FalseComplaintKeeps, BlameKeeps,
         FinishKeeps DEF Next, sign_up
  <1>3. QED  BY <1>1, <1>2, ShapeCorrect, PTL DEF Spec

-----------------------------------------------------------------------------
\* Resharing implements KeyAgreement: every honest signer that finishes has the group key
\* of Valid \ Removals.
THEOREM AgreementCorrect == Spec => AgreementSpec
  <1> DEFINE k == [j \in Signers |->
                     IF j \in Honest /\ Finished(j) THEN {state[j].their_commitments}
                                                  ELSE {}]
  <1>1. Init => Agreement!Init
    <2> SUFFICES ASSUME Init PROVE Agreement!Init
      OBVIOUS
    <2>1. \A j \in Signers : ~Finished(j)  BY DEF Init, Finished
    <2>2. QED  BY <2>1 DEF Agreement!Init
  <1>2. Shape /\ SameInv /\ [Next]_vars => [Agreement!Next]_k
    <2> SUFFICES ASSUME Shape, SameInv, [Next]_vars PROVE [Agreement!Next]_k
      OBVIOUS
    <2>1. ASSUME NEW j \in Signers, finish(j) PROVE Agreement!Next
      <3> DEFINE g == {Valid \ Removals}
      <3>1. Honest' = Honest /\ j \in Honest
        BY <2>1, FinishFields, SameRemovals
      <3>2. /\ ~Finished(j) /\ Finished(j)'
            /\ state'[j].their_commitments = Valid \ Removals
            /\ \A i \in Signers \ {j} : state'[i] = state[i]
        BY <2>1, <3>1, FinishFields DEF Finished, SameInv, StateInv
      <3>3. ASSUME NEW i \in Honest, Finished(i)
            PROVE  state[i].their_commitments = Valid \ Removals
        BY <3>3 DEF SameInv, StateInv, Finished
      <3>4. g \in {{D} : D \in SUBSET Dealers}  BY ValidCount
      <3>5. k[j] = {} /\ \A i \in Signers : k[i] \in {{}, g}
        BY <3>2, <3>3
      <3>6. k' = [k EXCEPT ![j] = g]
        BY <3>1, <3>2 DEF Finished
      <3>7. QED  BY <3>4, <3>5, <3>6 DEF Agreement!Next, Agreement!Obtain
    <2>2. ASSUME NEW j \in Signers, new(j) \/ to_round_two(j) \/ blame(j)
          PROVE  k' = k
      <3>1. /\ Honest' = Honest
            /\ \A i \in Signers \ {j} : state'[i] = state[i]
            /\ ~Finished(j) /\ ~Finished(j)'
        <4>1. CASE new(j)  BY <4>1, NewFields, SameRemovals DEF Finished
        <4>2. CASE to_round_two(j)  BY <4>2, RoundTwoFields, SameRemovals DEF Finished
        <4>3. CASE blame(j)  BY <4>3, BlameFields, SameRemovals DEF Finished
        <4>4. QED  BY <2>2, <4>1, <4>2, <4>3
      <3>2. \A i \in Signers : Finished(i)' = Finished(i) /\
              (Finished(i) => state'[i].their_commitments = state[i].their_commitments)
        BY <3>1 DEF Finished
      <3>3. QED  BY <3>1, <3>2
    <2>3. CASE cast' = cast /\ state' = state
      BY <2>3 DEF cast, Finished, Honest
    <2>4. ASSUME NEW d \in Dealers, reshare(d) \/ misdeal(d)
          PROVE  cast' = cast /\ state' = state
      BY <2>4, DealFields
    <2>5. ASSUME NEW j \in Signers, false_complaint(j) PROVE cast' = cast /\ state' = state
      BY <2>5 DEF false_complaint
    <2>6. UNCHANGED vars => cast' = cast /\ state' = state  BY DEF vars
    <2> HIDE DEF k
    <2>7. QED  BY <2>1, <2>2, <2>3, <2>4, <2>5, <2>6 DEF Next, sign_up
  <1>3. QED
    BY <1>1, <1>2, ShapeCorrect, SameCorrect, PTL DEF Spec, AgreementSpec, Agreement!Spec

-----------------------------------------------------------------------------
\* Dealers and signers have indices of the field, and the old key's coefficients are scalars.
LEMMA Indices ==
  /\ Dealers \in SUBSET Index /\ Dealers \subseteq Nat
  /\ Signers \in SUBSET Index /\ Signers \subseteq Nat
  /\ T \in Nat /\ T >= 1 /\ T2 \in Nat /\ T2 >= 1
  BY ParametersAssumption, GroupAssumption DEF Dealers, Signers, Index

\* What dealers deal starts with the secret.
LEMMA FirstIs ==
  ASSUME NEW x \in Scalar, NEW n \in Nat, NEW rest \in [1..n -> Randoms]
  PROVE  /\ <<x>> \o rest \in Seq(Scalar) /\ <<x>> \o rest # <<>>
         /\ (<<x>> \o rest)[1] = x
  <1>1. rest \in Seq(Scalar)
    <2>1. rest \in [1..n -> Scalar]  BY ParametersAssumption
    <2>2. QED  BY <2>1
  <1>2. QED  BY <1>1

Typed ==
  /\ polynomial \in [1..T -> OldRandoms]
  /\ deal \in [Dealers -> Deal]
  /\ complaints \subseteq Complaint

\* The dealers' keys are scalars.
LEMMA KeyType ==
  ASSUME polynomial \in [1..T -> OldRandoms]
  PROVE  /\ polynomial \in Seq(Scalar) /\ polynomial # <<>> /\ Len(polynomial) = T
         /\ \A d \in Nat : secret_key(d) \in Scalar
  <1>1. polynomial \in [1..T -> Scalar]  BY ParametersAssumption
  <1>2. polynomial \in Seq(Scalar) /\ Len(polynomial) = T /\ polynomial # <<>>
    BY <1>1, Indices
  <1>3. \A d \in Nat : secret_key(d) \in Scalar
    BY <1>2, ShareVerified, GroupAssumption DEF secret_key, Scalar
  <1>4. QED  BY <1>2, <1>3

\* What dealer d has dealt.
Dealing(d, coefficients, secret, k, h) ==
  /\ coefficients # <<>>
  /\ deal' = [deal EXCEPT ![d] =
       [coefficients |-> coefficients,
        proof |-> prove(d, secret, Times(G, coefficients[1]), k, h)]]
  /\ d \in HonestDealers => secret = coefficients[1]

\* Every dealer that deals proves a secret, an honest one that of its first coefficient.
LEMMA DealingIs ==
  ASSUME polynomial \in [1..T -> OldRandoms], NEW d \in Dealers, reshare(d) \/ misdeal(d)
  PROVE  \E coefficients \in Seq(Scalar), secret \in Scalar, k \in Scalar, h \in Scalar :
           Dealing(d, coefficients, secret, k, h)
  <1>1. /\ secret_key(d) \in Scalar /\ Nonces \subseteq Scalar /\ Hashes \subseteq Scalar
        /\ Randoms \subseteq Scalar /\ T2 - 1 \in Nat /\ (T2 + 1) - 1 \in Nat
    BY Indices, KeyType, ParametersAssumption
  <1>2. CASE reshare(d)
    <2>1. PICK rest \in Rest(T2), k \in Nonces, h \in Hashes :
            publish(d, <<secret_key(d)>> \o rest,
                    proof_of(d, secret_key(d), <<secret_key(d)>> \o rest, k, h))
      BY <1>2 DEF reshare
    <2> DEFINE coefficients == <<secret_key(d)>> \o rest
    <2>2. /\ coefficients \in Seq(Scalar) /\ coefficients # <<>>
          /\ coefficients[1] = secret_key(d)
      BY <1>1, <2>1, FirstIs DEF Rest
    <2>3. k \in Scalar /\ h \in Scalar  BY <1>1, <2>1
    <2> HIDE DEF coefficients
    <2>4. Dealing(d, coefficients, secret_key(d), k, h)
      BY <2>1, <2>2 DEF publish, proof_of, Dealing, coefficients
    <2>5. QED  BY <1>1, <2>2, <2>3, <2>4
  <1>3. CASE misdeal(d)
    <2>1. d \notin HonestDealers  BY <1>3 DEF misdeal, HonestDealers
    <2>2. PICK k \in Nonces, h \in Hashes :
       \/ \E secret \in Randoms, rest \in Rest(T2) :
            publish(d, <<secret>> \o rest, proof_of(d, secret, <<secret>> \o rest, k, h))
       \/ \E rest \in Rest(T2 + 1) :
            publish(d, <<secret_key(d)>> \o rest,
                    proof_of(d, secret_key(d), <<secret_key(d)>> \o rest, k, h))
       \/ \E rest \in Rest(T2), other \in Randoms :
            publish(d, <<secret_key(d)>> \o rest,
                    proof_of(d, other, <<secret_key(d)>> \o rest, k, h))
      BY <1>3 DEF misdeal
    <2>3. ASSUME NEW x \in Scalar, NEW y \in Scalar, NEW n \in Nat,
                 NEW rest \in [1..n -> Randoms],
                 publish(d, <<x>> \o rest, proof_of(d, y, <<x>> \o rest, k, h))
          PROVE  \E coefficients \in Seq(Scalar) :
                   \E secret \in Scalar, kk \in Scalar, hh \in Scalar :
                     Dealing(d, coefficients, secret, kk, hh)
      <3> DEFINE coefficients == <<x>> \o rest
      <3>1. coefficients \in Seq(Scalar) /\ coefficients # <<>>
        BY FirstIs
      <3>2. k \in Scalar /\ h \in Scalar  BY <1>1, <2>2
      <3> HIDE DEF coefficients
      <3>3. Dealing(d, coefficients, y, k, h)
        BY <2>1, <2>3, <3>1 DEF publish, proof_of, Dealing, coefficients
      <3>4. QED  BY <3>1, <3>2, <3>3
    <2>4. QED  BY <1>1, <2>2, <2>3 DEF Rest
  <1>4. QED  BY <1>2, <1>3

\* Deals are as Deal says.
LEMMA DealTyped ==
  ASSUME Typed, NEW d \in Dealers, reshare(d) \/ misdeal(d)
  PROVE  deal' \in [Dealers -> Deal]
  <1>1. PICK coefficients \in Seq(Scalar), secret \in Scalar, k \in Scalar, h \in Scalar :
          Dealing(d, coefficients, secret, k, h)
    BY DealingIs DEF Typed
  <1> DEFINE key == Times(G, coefficients[1])
             proof == prove(d, secret, key, k, h)
  <1>2. coefficients[1] \in Scalar  BY <1>1 DEF Dealing
  <1>3. G \in Int /\ coefficients[1] \in Int /\ k \in Int /\ h \in Int /\ secret \in Int
    <2>1. k \in Scalar /\ h \in Scalar /\ secret \in Scalar  BY <1>1
    <2>2. \A x \in Scalar : x \in Int  BY ScalarMod
    <2>3. QED  BY <1>2, <2>1, <2>2, GIs
  <1>4. key \in Scalar /\ Times(G, k) \in Scalar /\ Plus(k, Times(secret, h)) \in Scalar
    BY <1>3, PlusTimesType
  <1>5. d \in Nat  BY Indices
  <1> HIDE DEF key
  <1>6. proof \in Proof  BY <1>4, <1>5 DEF prove, Proof
  <1> HIDE DEF proof
  <1>7. deal' = [deal EXCEPT ![d] = [coefficients |-> coefficients, proof |-> proof]]
    BY <1>1 DEF Dealing, proof, key
  <1> DEFINE dealt == [coefficients |-> coefficients, proof |-> proof]
  <1>8. dealt \in Deal
    <2> DEFINE Coefficients == Seq(Scalar)
               Proofs == {<<>>} \cup Proof
    <2>1. coefficients \in Coefficients /\ proof \in Proofs  BY <1>1, <1>6
    <2>2. Deal = [coefficients : Coefficients, proof : Proofs]  BY DEF Deal
    <2> HIDE DEF Coefficients, Proofs
    <2>3. QED  BY <2>1, <2>2
  <1>9. deal' = [deal EXCEPT ![d] = dealt]  BY <1>7
  <1> HIDE DEF dealt
  <1>10. QED  BY <1>8, <1>9 DEF Typed

-----------------------------------------------------------------------------
\* A complaint of to_round_two() is about a share that it received, and that is bad.
Accusation(j, c) ==
  /\ c = [maker |-> j, accused |-> c.accused, proof |-> TRUE, share |-> c.share]
  /\ c.accused \in state[j].their_commitments
  /\ c.share \in EncryptedShare
  /\ c.accused \notin faulty => c.share = "right"
  /\ bad_share(j, c.accused, c.share)

\* So is what it makes of a share that it finds bad.
LEMMA AccusationIs ==
  ASSUME NEW j \in Signers, NEW r \in Received(j),
         NEW d \in {d \in DOMAIN r : bad_share(j, d, r[d])}
  PROVE  Accusation(j, [maker |-> j, accused |-> d, proof |-> TRUE, share |-> r[d]])
  <1> DEFINE c == [maker |-> j, accused |-> d, proof |-> TRUE, share |-> r[d]]
  <1>1. /\ c.maker = j /\ c.accused = d /\ c.proof = TRUE /\ c.share = r[d]
        /\ c = [maker |-> j, accused |-> c.accused, proof |-> TRUE, share |-> c.share]
    OBVIOUS
  <1> HIDE DEF c
  <1>2. /\ d \in state[j].their_commitments /\ r[d] \in EncryptedShare
        /\ d \notin faulty => r[d] = "right"
    BY DEF Received
  <1>3. Accusation(j, c)  BY <1>1, <1>2 DEF Accusation
  <1>4. QED  BY <1>3 DEF c

\* What to_round_two() of j adds to the complaints, and takes as shares.
LEMMA Accuses ==
  ASSUME NEW j \in Signers, to_round_two(j)
  PROVE  \E r \in Received(j) :
           /\ complaints \subseteq complaints'
           /\ \A c \in complaints' : c \in complaints \/ Accusation(j, c)
           /\ \A d \in DOMAIN r : bad_share(j, d, r[d]) =>
                \E c \in complaints' : c.maker = j /\ c.accused = d
           /\ \/ state' = [state EXCEPT ![j].status = "aborted"]
              \/ state' = [state EXCEPT ![j].status = "round_two",
                   ![j].my_secret_shares = [d \in Dealers |->
                      IF d \in DOMAIN r /\ r[d] # "garbled" THEN r[d] ELSE "none"]]
  <1> DEFINE accused(r) == {d \in DOMAIN r : bad_share(j, d, r[d])}
             made(r) == {[maker |-> j, accused |-> d, proof |-> TRUE, share |-> r[d]] :
                           d \in accused(r)}
  <1>1. PICK r \in Received(j) :
          /\ complaints' = complaints \cup made(r)
          /\ \/ state' = [state EXCEPT ![j].status = "aborted"]
             \/ state' = [state EXCEPT ![j].status = "round_two",
                  ![j].my_secret_shares = [d \in Dealers |->
                     IF d \in DOMAIN r /\ r[d] # "garbled" THEN r[d] ELSE "none"]]
    BY DEF to_round_two
  <1>2. ASSUME NEW c \in made(r) PROVE Accusation(j, c)
    <2>1. PICK d \in accused(r) : c = [maker |-> j, accused |-> d, proof |-> TRUE, share |-> r[d]]
      OBVIOUS
    <2>2. QED  BY <2>1, AccusationIs
  <1>3. ASSUME NEW d \in DOMAIN r, bad_share(j, d, r[d])
        PROVE  \E c \in complaints' : c.maker = j /\ c.accused = d
    <2> DEFINE c == [maker |-> j, accused |-> d, proof |-> TRUE, share |-> r[d]]
    <2>1. c \in made(r)  BY <1>3
    <2>2. c \in complaints'  BY <1>1, <2>1
    <2>3. QED  BY <2>2
  <1> HIDE DEF made
  <1>4. QED  BY <1>1, <1>2, <1>3

\* The types are as TypeOK says.
THEOREM TypedCorrect == Spec => []Typed
  <1>1. Init => Typed
    <2> SUFFICES ASSUME Init PROVE Typed
      OBVIOUS
    <2>1. NoDeal \in Deal  BY DEF NoDeal, Deal
    <2>2. QED  BY <2>1 DEF Init, Typed
  <1>2. Shape /\ Typed /\ [Next]_vars => Typed'
    <2> SUFFICES ASSUME Shape, Typed, [Next]_vars PROVE Typed'
      OBVIOUS
    <2>1. ASSUME NEW d \in Dealers, reshare(d) \/ misdeal(d) PROVE Typed'
      <3>1. deal' \in [Dealers -> Deal]  BY <2>1, DealTyped
      <3>2. UNCHANGED <<cast, complaints>>  BY <2>1, DealFields
      <3>3. QED  BY <3>1, <3>2 DEF Typed, cast
    <2>2. ASSUME NEW j \in Signers, to_round_two(j) PROVE Typed'
      <3>1. UNCHANGED <<cast, deal>>  BY <2>2, RoundTwoFields
      <3>2. \A c \in complaints' : c \in complaints \/ Accusation(j, c)  BY <2>2, Accuses
      <3>3. state[j].their_commitments \subseteq Dealers  BY DEF Shape, State
      <3>4. ASSUME NEW c, Accusation(j, c) PROVE c \in Complaint
        <4>1. c.accused \in 0..(N + 1)
          BY <3>3, <3>4, ParametersAssumption DEF Accusation, Dealers
        <4>2. c.share \in EncryptedShare  BY <3>4 DEF Accusation
        <4>3. [maker |-> j, accused |-> c.accused, proof |-> TRUE, share |-> c.share]
                \in Complaint
          BY <4>1, <4>2 DEF Complaint
        <4>4. QED  BY <3>4, <4>3 DEF Accusation
      <3>5. QED  BY <3>1, <3>2, <3>4 DEF Typed, cast
    <2>3. ASSUME NEW s \in Signers, false_complaint(s) PROVE Typed'
      <3>1. PICK a \in 0..(N + 1), p \in BOOLEAN, k \in EncryptedShare :
              complaints' = complaints \cup
                {[maker |-> s, accused |-> a, proof |-> p, share |-> k]}
        BY <2>3 DEF false_complaint
      <3>2. [maker |-> s, accused |-> a, proof |-> p, share |-> k] \in Complaint
        BY DEF Complaint
      <3>3. UNCHANGED <<cast, deal>>  BY <2>3 DEF false_complaint
      <3>4. QED  BY <3>1, <3>2, <3>3 DEF Typed, cast
    <2>4. ASSUME NEW j \in Signers, new(j) \/ blame(j) \/ finish(j) PROVE Typed'
      BY <2>4, NewFields, BlameFields, FinishFields DEF Typed, cast
    <2>5. CASE UNCHANGED vars  BY <2>5 DEF vars, cast, Typed
    <2>6. QED  BY <2>1, <2>2, <2>3, <2>4, <2>5 DEF Next, sign_up
  <1>3. QED  BY <1>1, <1>2, ShapeCorrect, PTL DEF Spec

\* The state keeps its type.
THEOREM TypeCorrect == Spec => []TypeOK
  <1>1. Shape /\ Typed => TypeOK  BY DEF Shape, Typed, TypeOK
  <1>2. QED  BY <1>1, ShapeCorrect, TypedCorrect, PTL

-----------------------------------------------------------------------------
\* The share that the coefficients say passes the check; no other does.
LEMMA BadShares ==
  ASSUME Typed, NEW d \in Dealers, NEW j \in Nat
  PROVE  /\ evaluate_polynomial(j, deal[d].coefficients) \in Scalar
         /\ verify_share(evaluate_polynomial(j, deal[d].coefficients), j, commitments(d))
         /\ ~bad_share(j, d, "right")
         /\ \A share \in EncryptedShare : share # "right" => bad_share(j, d, share)
  <1> DEFINE c == deal[d].coefficients
             v == evaluate_polynomial(j, c)
  <1>1. c \in Seq(Scalar)  BY DEF Typed, Deal
  <1> HIDE DEF c
  <1>2. v \in Scalar /\ \A share \in Scalar : verify_share(share, j, Commitments(c)) <=> share = v
    <2>1. ASSUME NEW share \in Scalar
          PROVE  /\ evaluate_polynomial(j, c) \in Scalar
                 /\ verify_share(share, j, Commitments(c)) <=> share = evaluate_polynomial(j, c)
      BY <1>1, ShareVerified
    <2>2. 0 \in Scalar  BY GroupAssumption DEF Scalar
    <2>3. QED  BY <2>1, <2>2
  <1> HIDE DEF v
  <1>3. Plus(v, 1) \in Scalar /\ Plus(v, 1) # v
    <2>1. v \in Int /\ v % Q = v /\ v >= 0 /\ v < Q
      BY <1>2, ScalarMod, GroupAssumption DEF Scalar
    <2>2. Plus(v, 1) \in Scalar  BY <2>1, PlusTimesType
    <2>3. CASE v + 1 < Q
      <3>1. v + 1 \in Scalar  BY <2>1, <2>3, GroupAssumption DEF Scalar
      <3>2. Plus(v, 1) = v + 1  BY <3>1, ScalarMod DEF Plus
      <3>3. QED  BY <2>1, <2>2, <3>2
    <2>4. CASE v + 1 = Q
      <3>1. v # 0  BY <2>1, <2>4, GroupAssumption
      <3>2. Plus(v, 1) = 0
        <4>1. PICK k \in Int : k = 1  OBVIOUS
        <4>2. Q = Q * k + 0 /\ 0 \in Scalar /\ Q \in Int  BY <4>1, GroupAssumption DEF Scalar
        <4>3. Q % Q = 0  BY <4>1, <4>2, ModUnique
        <4>4. QED  BY <2>4, <4>3 DEF Plus
      <3>3. QED  BY <2>2, <3>1, <3>2
    <2>5. QED  BY <2>1, <2>3, <2>4, GroupAssumption
  <1>4. commitments(d) = Commitments(c)  BY DEF commitments, c
  <1>5. decrypt_share(j, d, "right") = v /\ decrypt_share(j, d, "off") = Plus(v, 1)
    BY DEF decrypt_share, v, c
  <1>6. QED
    BY <1>2, <1>3, <1>4, <1>5 DEF bad_share, EncryptedShare, v, c

\* A dealing of an honest dealer is valid.
DealInv == \A d \in HonestDealers : Dealt(d) => valid(d)

\* Nobody blames an honest dealer for a share that is bad; an honest signer blames a dealer
\* of those it has found valid, for a share that is bad.
ComplaintInv ==
  \A c \in complaints :
    /\ c.accused \in HonestDealers => c.share = "right"
    /\ c.maker \in Honest =>
         AllDealt /\ c.accused \in Valid /\ c.proof /\ c.share \in EncryptedShare \ {"right"}

\* Signer j has a complaint about the share of dealer d.
Complained(j, d) == \E c \in complaints : c.maker = j /\ c.accused = d

\* A signer has the right share of every valid dealer that it does not complain about, and
\* after blame() of every one that is left.
SharesOf(j) ==
  /\ state[j].status = "round_two" =>
       \A d \in Dealers :
         /\ d \notin Valid => state[j].my_secret_shares[d] = "none"
         /\ d \in Valid => state[j].my_secret_shares[d] = "right" \/ Complained(j, d)
  /\ state[j].status \in {"blamed", "finished"} /\ InRange =>
       \A d \in Dealers :
         state[j].my_secret_shares[d] =
           IF d \in state[j].their_commitments THEN "right" ELSE "none"

SharesInv == \A j \in Honest : SharesOf(j)

\* What the invariants of the complaints and of the shares start from.
Inv == Shape /\ Typed /\ SameInv

\* An honest dealer's deal is valid.
LEMMA DealValid ==
  ASSUME Inv, DealInv, NEW d \in Dealers, reshare(d) \/ misdeal(d)
  PROVE  DealInv'
  <1>1. UNCHANGED <<cast, state, complaints>>  BY DealFields DEF Inv
  <1>2. HonestDealers' = HonestDealers  BY <1>1 DEF cast, HonestDealers
  <1>3. PICK coefficients \in Seq(Scalar), secret \in Scalar, k \in Scalar, h \in Scalar :
          Dealing(d, coefficients, secret, k, h)
    BY DealingIs DEF Inv, Typed
  <1>4. ASSUME NEW e \in HonestDealers, Dealt(e)', e # d PROVE valid(e)'
    <2>1. e \in Dealers  BY DEF HonestDealers
    <2>2. deal'[e] = deal[e]  BY <1>3, <1>4, <2>1 DEF Dealing, Shape, Inv
    <2>3. Dealt(e) /\ valid(e)' = valid(e)  BY <1>4, <2>2 DEF Dealt, valid, commitments
    <2>4. QED  BY <2>3 DEF DealInv
  <1>5. ASSUME d \in HonestDealers PROVE valid(d)'
    <2> DEFINE key == Times(G, coefficients[1])
    <2>1. secret = coefficients[1] /\ secret \in Scalar /\ k \in Scalar /\ h \in Scalar
          /\ coefficients \in Seq(Scalar) /\ coefficients # <<>>
      BY <1>3, <1>5 DEF Dealing
    <2>2. deal'[d] = [coefficients |-> coefficients, proof |-> prove(d, secret, key, k, h)]
      BY <1>3 DEF Dealing, Inv, Shape
    <2>3. public_key(commitments(d)') = key
      BY <2>1, <2>2 DEF commitments, Commitments, public_key
    <2>4. verify_proof(prove(d, secret, key, k, h), d, key)
      BY <2>1, ProofVerified
    <2> HIDE DEF key
    <2>5. QED  BY <2>2, <2>3, <2>4 DEF valid
  <1>6. QED  BY <1>2, <1>4, <1>5 DEF DealInv

\* A deal comes before the complaints of honest signers.
LEMMA DealComplaints ==
  ASSUME Inv, ComplaintInv, NEW d \in Dealers, reshare(d) \/ misdeal(d)
  PROVE  ComplaintInv'
  <1>1. UNCHANGED <<cast, state, complaints>> /\ ~AllDealt  BY DealFields DEF Inv
  <1>2. HonestDealers' = HonestDealers /\ Honest' = Honest
    BY <1>1 DEF cast, HonestDealers, Honest
  <1>3. QED  BY <1>1, <1>2 DEF ComplaintInv

\* to_round_two() complains about what is bad.
LEMMA RoundTwoComplaints ==
  ASSUME Inv, ComplaintInv, NEW j \in Signers, to_round_two(j)
  PROVE  ComplaintInv'
  <1>1. /\ UNCHANGED <<cast, deal>> /\ j \in Honest /\ state[j].status = "round_one"
        /\ AllDealt /\ state[j].their_commitments = Valid
    BY RoundTwoFields DEF Inv, SameInv, StateInv
  <1>2. /\ HonestDealers' = HonestDealers /\ Honest' = Honest /\ AllDealt' = AllDealt
        /\ Valid' = Valid
    BY <1>1, SameRemovals DEF cast, HonestDealers
  <1>3. \A c \in complaints' : c \in complaints \/ Accusation(j, c)  BY Accuses
  <1>4. ASSUME NEW c, Accusation(j, c)
        PROVE  /\ c.accused \in HonestDealers => c.share = "right"
               /\ c.accused \in Valid /\ c.proof /\ c.share \in EncryptedShare \ {"right"}
    <2>1. /\ c.accused \in Valid /\ c.share \in EncryptedShare
          /\ c.accused \notin faulty => c.share = "right"
          /\ bad_share(j, c.accused, c.share)
      BY <1>1, <1>4 DEF Accusation
    <2>2. c.proof = TRUE
      <3>1. c = [maker |-> j, accused |-> c.accused, proof |-> TRUE, share |-> c.share]
        BY <1>4 DEF Accusation
      <3>2. [maker |-> j, accused |-> c.accused, proof |-> TRUE, share |-> c.share].proof = TRUE
        OBVIOUS
      <3>3. QED  BY <3>1, <3>2, Zenon
    <2>3. c.accused \in Dealers /\ j \in Nat  BY <2>1, Indices DEF Valid
    <2>4. c.share # "right"  BY <2>1, <2>3, BadShares DEF Inv
    <2>5. QED  BY <2>1, <2>2, <2>4 DEF HonestDealers
  <1>5. ASSUME NEW c \in complaints'
        PROVE  /\ c.accused \in HonestDealers => c.share = "right"
               /\ c.maker \in Honest =>
                 /\ AllDealt /\ c.accused \in Valid
                 /\ c.proof /\ c.share \in EncryptedShare \ {"right"}
    BY <1>1, <1>3, <1>4 DEF ComplaintInv
  <1>6. QED  BY <1>2, <1>5 DEF ComplaintInv

\* A false complaint is of a dishonest signer, and does not have an honest dealer's share wrong.
LEMMA FalseComplaints ==
  ASSUME Inv, ComplaintInv, NEW s \in Signers, false_complaint(s)
  PROVE  ComplaintInv'
  <1>1. UNCHANGED <<cast, deal, state>> /\ s \notin Honest  BY DEF false_complaint, Honest
  <1>2. /\ HonestDealers' = HonestDealers /\ Honest' = Honest /\ AllDealt' = AllDealt
        /\ Valid' = Valid
    BY <1>1, SameRemovals DEF cast, HonestDealers
  <1>3. PICK a \in 0..(N + 1), p \in BOOLEAN, k \in EncryptedShare :
          /\ a \in HonestDealers => k = "right"
          /\ complaints' = complaints \cup
               {[maker |-> s, accused |-> a, proof |-> p, share |-> k]}
    BY DEF false_complaint
  <1>4. QED  BY <1>1, <1>2, <1>3 DEF ComplaintInv

\* Honest dealers' proofs are valid; nobody has a bad share of theirs to show; and an honest
\* signer has one of whomever it blames.
THEOREM ComplaintsCorrect == Spec => [](DealInv /\ ComplaintInv)
  <1>1. Init => DealInv /\ ComplaintInv
    <2> SUFFICES ASSUME Init PROVE DealInv /\ ComplaintInv
      OBVIOUS
    <2>1. \A d \in HonestDealers : ~Dealt(d)  BY DEF Init, Dealt, NoDeal, HonestDealers
    <2>2. complaints = {}  BY DEF Init
    <2>3. QED  BY <2>1, <2>2 DEF DealInv, ComplaintInv
  <1>2. Inv /\ DealInv /\ ComplaintInv /\ [Next]_vars => (DealInv /\ ComplaintInv)'
    <2> SUFFICES ASSUME Inv, DealInv, ComplaintInv, [Next]_vars PROVE (DealInv /\ ComplaintInv)'
      OBVIOUS
    <2>1. ASSUME UNCHANGED <<cast, deal>> PROVE DealInv'
      BY <2>1 DEF DealInv, cast, HonestDealers, Dealt, valid, commitments
    <2>2. ASSUME UNCHANGED <<cast, deal, complaints>> PROVE ComplaintInv'
      <3>1. HonestDealers' = HonestDealers  BY <2>2 DEF cast, HonestDealers
      <3>2. QED  BY <2>2, <3>1, SameRemovals DEF ComplaintInv
    <2>3. ASSUME NEW d \in Dealers, reshare(d) \/ misdeal(d) PROVE (DealInv /\ ComplaintInv)'
      BY <2>3, DealValid, DealComplaints
    <2>4. ASSUME NEW j \in Signers, to_round_two(j) PROVE (DealInv /\ ComplaintInv)'
      BY <2>1, <2>4, RoundTwoFields, RoundTwoComplaints DEF Inv
    <2>5. ASSUME NEW s \in Signers, false_complaint(s) PROVE (DealInv /\ ComplaintInv)'
      <3>1. UNCHANGED <<cast, deal>>  BY <2>5 DEF false_complaint
      <3>2. QED  BY <2>1, <2>5, <3>1, FalseComplaints
    <2>6. ASSUME NEW j \in Signers, new(j) \/ blame(j) \/ finish(j)
          PROVE  (DealInv /\ ComplaintInv)'
      <3>1. UNCHANGED <<cast, deal, complaints>>
        BY <2>6, NewFields, BlameFields, FinishFields DEF Inv
      <3>2. QED  BY <2>1, <2>2, <3>1
    <2>7. CASE UNCHANGED vars
      <3>1. UNCHANGED <<cast, deal, complaints>>  BY <2>7 DEF vars
      <3>2. QED  BY <2>1, <2>2, <3>1
    <2>8. QED  BY <2>3, <2>4, <2>5, <2>6, <2>7 DEF Next, sign_up
  <1>3. Shape /\ Typed /\ SameInv => Inv  BY DEF Inv
  <1>4. QED  BY <1>1, <1>2, <1>3, ShapeCorrect, TypedCorrect, SameCorrect, PTL DEF Spec

-----------------------------------------------------------------------------
\* An honest dealer is not among those that blame() removes, if no dishonest signer has its
\* number.
LEMMA HonestKept ==
  ASSUME Inv, DealInv, ComplaintInv, AllDealt, InRange, ~SharedNumber
  PROVE  HonestDealers \subseteq Valid \ Removals
  <1> DEFINE s == [n |-> Cardinality(Valid), their_commitments |-> Valid]
  <1>1. SUFFICES ASSUME NEW d \in HonestDealers PROVE d \in Valid \ Removals
    OBVIOUS
  <1>2. d \in Dealers /\ d \in Valid
    BY DEF HonestDealers, AllDealt, DealInv, Valid
  <1>3. ASSUME NEW c \in complaints PROVE (IF upheld(s, c) THEN c.accused ELSE c.maker) # d
    <2>1. c.maker \in Signers /\ c.maker \in Nat  BY Indices DEF Inv, Typed, Complaint
    <2>2. CASE upheld(s, c)
      <3>1. SUFFICES ASSUME c.accused = d PROVE FALSE
        BY <2>2
      <3>2. c.share = "right" /\ bad_share(c.maker, d, c.share)
        BY <2>2, <3>1 DEF ComplaintInv, upheld
      <3>3. QED  BY <1>2, <2>1, <3>2, BadShares DEF Inv
    <2>3. CASE ~upheld(s, c)
      <3>1. SUFFICES ASSUME c.maker = d PROVE FALSE
        BY <2>3
      <3>2. c.maker \in Honest  BY <2>1, <3>1 DEF SharedNumber, Honest
      <3>3. /\ c.accused \in Valid /\ c.proof /\ c.share \in EncryptedShare
            /\ c.share # "right"
        BY <3>2 DEF ComplaintInv
      <3>4. c.accused \in Dealers  BY <3>3 DEF Valid
      <3>5. bad_share(c.maker, c.accused, c.share)
        BY <2>1, <3>3, <3>4, BadShares DEF Inv
      <3>6. c.accused # 0 /\ c.accused <= s.n /\ c.accused \in s.their_commitments
        BY <3>3, <3>4 DEF InRange, Dealers
      <3>7. QED  BY <2>3, <3>3, <3>5, <3>6 DEF upheld
    <2>4. QED  BY <2>2, <2>3
  <1>4. d \notin Removals
    <2> HIDE DEF s
    <2>1. Removals = {IF upheld(s, c) THEN c.accused ELSE c.maker : c \in complaints}
      BY DEF Removals, pending_removals, s
    <2>2. QED  BY <1>3, <2>1
  <1>5. QED  BY <1>2, <1>4

\* No honest dealer is removed, but for one with the number of a signer that is removed.
THEOREM HonestDealersCorrect == Spec => []HonestDealersKept
  <1>1. Inv /\ DealInv /\ ComplaintInv => HonestDealersKept
    <2> SUFFICES ASSUME Inv, DealInv, ComplaintInv, InRange, ~SharedNumber,
                        NEW j \in Honest, Removed(j)
                 PROVE  HonestDealers \subseteq state[j].their_commitments
      BY DEF HonestDealersKept
    <2>1. AllDealt /\ state[j].their_commitments = Valid \ Removals
      BY DEF Inv, SameInv, StateInv, Removed
    <2>2. QED  BY <2>1, HonestKept
  <1>2. Shape /\ Typed /\ SameInv => Inv  BY DEF Inv
  <1>3. QED
    BY <1>1, <1>2, ShapeCorrect, TypedCorrect, SameCorrect, ComplaintsCorrect, PTL

-----------------------------------------------------------------------------
\* A signer's shares stay as they are when it does not move, with more complaints or not.
LEMMA SharesKept ==
  ASSUME NEW j, SharesOf(j), state'[j] = state[j], UNCHANGED <<cast, deal>>,
         complaints \subseteq complaints'
  PROVE  SharesOf(j)'
  <1>1. Valid' = Valid  BY SameRemovals
  <1>2. InRange' = InRange  BY <1>1 DEF InRange
  <1>3. \A d : Complained(j, d) => Complained(j, d)'  BY DEF Complained
  <1>4. QED  BY <1>1, <1>2, <1>3 DEF SharesOf

\* The others' shares.
LEMMA OthersShares ==
  ASSUME SharesInv, NEW j, \A i \in Signers \ {j} : state'[i] = state[i],
         UNCHANGED <<cast, deal>>, complaints \subseteq complaints',
         j \in Honest => SharesOf(j)'
  PROVE  SharesInv'
  <1>1. Honest' = Honest  BY SameRemovals
  <1>2. ASSUME NEW i \in Honest, i # j PROVE SharesOf(i)'
    <2>1. i \in Signers /\ SharesOf(i)  BY DEF SharesInv, Honest
    <2>2. QED  BY <1>2, <2>1, SharesKept
  <1>3. QED  BY <1>1, <1>2 DEF SharesInv

\* to_round_two() takes the shares that it can decrypt, and complains about the bad ones.
LEMMA RoundTwoShares ==
  ASSUME Inv, SharesInv, NEW j \in Signers, to_round_two(j)
  PROVE  SharesInv'
  <1>1. /\ UNCHANGED <<cast, deal>> /\ \A i \in Signers \ {j} : state'[i] = state[i]
        /\ j \in Honest /\ state[j].status = "round_one"
        /\ state[j].their_commitments = Valid
        /\ state'[j].status \in {"aborted", "round_two"}
    BY RoundTwoFields DEF Inv, SameInv, StateInv
  <1>2. Valid' = Valid /\ Valid \subseteq Dealers  BY <1>1, SameRemovals DEF Valid
  <1>3. PICK r \in Received(j) :
           /\ complaints \subseteq complaints'
           /\ \A d \in DOMAIN r : bad_share(j, d, r[d]) =>
                \E c \in complaints' : c.maker = j /\ c.accused = d
           /\ \/ state' = [state EXCEPT ![j].status = "aborted"]
              \/ state' = [state EXCEPT ![j].status = "round_two",
                   ![j].my_secret_shares = [d \in Dealers |->
                      IF d \in DOMAIN r /\ r[d] # "garbled" THEN r[d] ELSE "none"]]
    BY Accuses
  <1>4. DOMAIN r = Valid /\ \A d \in Valid : r[d] \in EncryptedShare
    BY <1>1, <1>3 DEF Received
  <1> DEFINE shares == [d \in Dealers |->
                          IF d \in DOMAIN r /\ r[d] # "garbled" THEN r[d] ELSE "none"]
  <1>5. \A d \in Dealers :
          /\ d \notin Valid => shares[d] = "none"
          /\ d \in Valid => shares[d] = "right" \/ Complained(j, d)'
    <2> TAKE d \in Dealers
    <2>1. d \notin Valid => shares[d] = "none"  BY <1>4
    <2>2. ASSUME d \in Valid, r[d] # "right" PROVE Complained(j, d)'
      <3>1. bad_share(j, d, r[d])
        <4>1. j \in Nat  BY Indices
        <4>2. QED  BY <1>4, <2>2, <4>1, BadShares DEF Inv
      <3>2. QED  BY <1>3, <1>4, <2>2, <3>1 DEF Complained
    <2>3. QED  BY <1>4, <2>1, <2>2
  <1>6. SharesOf(j)'
    <2>1. state[j] \in State  BY DEF Inv, Shape
    <2>2. CASE state' = [state EXCEPT ![j].status = "aborted"]
      <3>1. state'[j].status = "aborted"  BY <2>1, <2>2 DEF Inv, Shape, State
      <3>2. QED  BY <3>1 DEF SharesOf
    <2>3. CASE state' = [state EXCEPT ![j].status = "round_two", ![j].my_secret_shares = shares]
      <3> HIDE DEF shares
      <3>1. state'[j].status = "round_two" /\ state'[j].my_secret_shares = shares
        BY <2>1, <2>3 DEF Inv, Shape, State
      <3>2. QED  BY <1>2, <1>5, <3>1 DEF SharesOf
    <2>4. QED  BY <1>3, <2>2, <2>3
  <1>7. QED  BY <1>1, <1>3, <1>6, OthersShares

\* blame() leaves who is not complained about.
LEMMA BlameShares ==
  ASSUME Inv, ComplaintInv, SharesInv, NEW j \in Signers, blame(j)
  PROVE  SharesInv'
  <1>1. /\ UNCHANGED <<cast, deal, complaints>> /\ \A i \in Signers \ {j} : state'[i] = state[i]
        /\ j \in Honest /\ state[j].status = "round_two" /\ state'[j].status = "blamed"
        /\ state'[j].their_commitments = state[j].their_commitments \ pending_removals(state[j])
        /\ state[j].n = Cardinality(Valid) /\ state[j].their_commitments = Valid
    BY BlameFields DEF Inv, SameInv, StateInv
  <1>2. Valid' = Valid /\ Valid \subseteq Dealers  BY <1>1, SameRemovals DEF Valid
  <1> DEFINE s == state[j]
             R == pending_removals(s)
  <1>3. \A d \in Dealers : state'[j].my_secret_shares[d] =
          IF d \in R THEN "none" ELSE s.my_secret_shares[d]
    <2>1. state'[j] = [remove_malicious(s, R) EXCEPT !.status = "blamed"]
      BY DEF blame, Inv, Shape
    <2>2. s \in State  BY DEF Inv, Shape
    <2> HIDE DEF s, R
    <2>3. remove_malicious(s, R).my_secret_shares =
            [d \in Dealers |-> IF d \in R THEN "none" ELSE s.my_secret_shares[d]]
      BY <2>2 DEF remove_malicious, State
    <2>4. [remove_malicious(s, R) EXCEPT !.status = "blamed"].my_secret_shares =
            remove_malicious(s, R).my_secret_shares
      BY <2>2 DEF remove_malicious, State
    <2>5. QED  BY <2>1, <2>3, <2>4
  <1>4. ASSUME InRange, NEW d \in Valid, Complained(j, d) PROVE d \in R
    <2>1. PICK c \in complaints : c.maker = j /\ c.accused = d
      BY <1>4 DEF Complained
    <2>2. c.proof /\ c.share \in EncryptedShare /\ c.share # "right"
      BY <1>1, <2>1 DEF ComplaintInv
    <2>3. d \in Dealers /\ j \in Nat /\ d # 0  BY <1>2, Indices DEF Dealers
    <2>4. bad_share(j, d, c.share)  BY <2>2, <2>3, BadShares DEF Inv
    <2>5. upheld(s, c)  BY <1>1, <1>4, <2>1, <2>2, <2>3, <2>4 DEF upheld, InRange
    <2> HIDE DEF s
    <2>6. QED  BY <2>1, <2>5 DEF pending_removals
  <1>5. SharesOf(j)  BY <1>1 DEF SharesInv
  <1> HIDE DEF R
  <1>6. ASSUME InRange, NEW d \in Dealers
        PROVE  state'[j].my_secret_shares[d] =
                 IF d \in state'[j].their_commitments THEN "right" ELSE "none"
    <2>1. state'[j].their_commitments = Valid \ R  BY <1>1 DEF R
    <2>2. CASE d \in R  BY <1>3, <2>1, <2>2
    <2>3. CASE d \notin R /\ d \notin Valid  BY <1>1, <1>3, <1>5, <2>1, <2>3 DEF SharesOf
    <2>4. CASE d \notin R /\ d \in Valid
      <3>1. ~Complained(j, d)  BY <1>4, <1>6, <2>4
      <3>2. s.my_secret_shares[d] = "right"  BY <1>1, <1>5, <2>4, <3>1 DEF SharesOf
      <3>3. QED  BY <1>3, <2>1, <2>4, <3>2
    <2>5. QED  BY <2>2, <2>3, <2>4
  <1>7. InRange' = InRange  BY <1>2 DEF InRange
  <1>8. SharesOf(j)'  BY <1>1, <1>6, <1>7 DEF SharesOf
  <1>9. QED  BY <1>1, <1>8, OthersShares

\* finish() takes what blame() has left.
LEMMA FinishShares ==
  ASSUME Inv, SharesInv, NEW j \in Signers, finish(j)
  PROVE  SharesInv'
  <1>1. /\ UNCHANGED <<cast, deal, complaints>> /\ \A i \in Signers \ {j} : state'[i] = state[i]
        /\ j \in Honest /\ state[j].status = "blamed" /\ state'[j].status = "finished"
        /\ state'[j].their_commitments = state[j].their_commitments
    BY FinishFields DEF Inv
  <1>2. state'[j].my_secret_shares = state[j].my_secret_shares
    <2>1. state[j] \in State  BY DEF Inv, Shape
    <2>2. QED  BY <2>1 DEF finish, Inv, Shape, State
  <1>3. Valid' = Valid  BY <1>1, SameRemovals
  <1>4. InRange' = InRange  BY <1>3 DEF InRange
  <1>5. SharesOf(j)  BY <1>1 DEF SharesInv
  <1>6. SharesOf(j)'  BY <1>1, <1>2, <1>4, <1>5 DEF SharesOf
  <1>7. QED  BY <1>1, <1>6, OthersShares

\* new() has no shares yet.
LEMMA EarlyShares ==
  ASSUME Inv, SharesInv, NEW j \in Signers, new(j)
  PROVE  SharesInv'
  <1>1. /\ UNCHANGED <<cast, deal, complaints>> /\ \A i \in Signers \ {j} : state'[i] = state[i]
        /\ state'[j].status \in {"aborted", "round_one"}
    BY NewFields DEF Inv
  <1>2. SharesOf(j)'  BY <1>1 DEF SharesOf
  <1>3. QED  BY <1>1, <1>2, OthersShares

\* Nobody has any when a dealer deals.
LEMMA DealShares ==
  ASSUME Inv, SharesInv, NEW d \in Dealers, reshare(d) \/ misdeal(d)
  PROVE  SharesInv'
  <1>1. UNCHANGED <<cast, state, complaints>> /\ ~AllDealt  BY DealFields DEF Inv
  <1>2. Honest' = Honest  BY <1>1 DEF cast, Honest
  <1>3. \A j \in Honest : state[j].status = "start"  BY <1>1 DEF Inv, SameInv, StateInv
  <1>4. \A j \in Honest : SharesOf(j)'  BY <1>1, <1>3 DEF SharesOf
  <1>5. QED  BY <1>2, <1>4 DEF SharesInv

\* Whoever is left after blame(), an honest signer has the right shares of them, and no
\* other shares.
THEOREM SharesCorrect == Spec => []SharesInv
  <1>1. Init => SharesInv
    <2> SUFFICES ASSUME Init PROVE SharesInv
      OBVIOUS
    <2>1. \A j \in Honest : state[j].status = "start"  BY DEF Init, Honest
    <2>2. QED  BY <2>1 DEF SharesInv, SharesOf
  <1>2. Inv /\ ComplaintInv /\ SharesInv /\ [Next]_vars => SharesInv'
    <2> SUFFICES ASSUME Inv, ComplaintInv, SharesInv, [Next]_vars PROVE SharesInv'
      OBVIOUS
    <2>1. ASSUME NEW s \in Signers, false_complaint(s) PROVE SharesInv'
      <3>1. UNCHANGED <<cast, deal, state>> /\ complaints \subseteq complaints'
        BY <2>1 DEF false_complaint
      <3>2. s \in Honest => SharesOf(s)  BY DEF SharesInv
      <3>3. s \in Honest => SharesOf(s)'  BY <3>1, <3>2, SharesKept
      <3>4. \A i \in Signers \ {s} : state'[i] = state[i]  BY <3>1
      <3>5. QED  BY <3>1, <3>3, <3>4, OthersShares
    <2>2. CASE UNCHANGED vars
      <3>1. UNCHANGED <<cast, deal, state, complaints>>  BY <2>2 DEF vars
      <3>2. Honest' = Honest  BY <3>1, SameRemovals
      <3>3. \A j \in Honest : SharesOf(j)'
        <4> TAKE j \in Honest
        <4>1. SharesOf(j)  BY DEF SharesInv
        <4>2. QED  BY <3>1, <4>1, SharesKept
      <3>4. QED  BY <3>2, <3>3 DEF SharesInv
    <2>3. QED
      BY <2>1, <2>2, DealShares, EarlyShares, RoundTwoShares, BlameShares, FinishShares
      DEF Next, sign_up
  <1>3. Shape /\ Typed /\ SameInv => Inv  BY DEF Inv
  <1>4. QED
    BY <1>1, <1>2, <1>3, ShapeCorrect, TypedCorrect, SameCorrect, ComplaintsCorrect, PTL
    DEF Spec

-----------------------------------------------------------------------------
\* The dealers that are left when a signer finishes, and what they have dealt.
Left == Valid \ Removals
Coefficients == [d \in Left |-> deal[d].coefficients]

\* These are valid dealers, and every honest signer that finishes has their commitments.
LEMMA LeftIs ==
  ASSUME Inv
  PROVE  /\ Left \in SUBSET Index /\ Left \in SUBSET Dealers
         /\ Coefficients \in [Left -> Seq(Scalar)]
         /\ \A d \in Left : Coefficients[d] # <<>> /\ Coefficients[d] = deal[d].coefficients
         /\ \A j \in Honest : Finished(j) => state[j].their_commitments = Left
  <1>1. Left \in SUBSET Dealers /\ Left \in SUBSET Index  BY Indices DEF Left, Valid
  <1>2. \A d \in Left : deal[d].coefficients \in Seq(Scalar)
    BY <1>1 DEF Inv, Typed, Deal
  <1>3. \A d \in Left : deal[d].coefficients # <<>>  BY DEF Left, Valid, Dealt
  <1>4. \A j \in Honest : Finished(j) => state[j].their_commitments = Left
    BY DEF Inv, SameInv, StateInv, Finished, Left
  <1>5. QED  BY <1>1, <1>2, <1>3, <1>4 DEF Coefficients

\* The shares that a signer finishes with are the values of what the dealers left have dealt.
LEMMA SharesAre ==
  ASSUME Inv, SharesInv, InRange, NEW j \in Honest, Finished(j)
  PROVE  /\ my_shares(j) = Dealings(Coefficients, j)
         /\ my_shares(j) \in [Left -> Scalar]
         /\ \A d \in Left : verify_share(my_shares(j)[d], j, commitments(d))
  <1>1. state[j].their_commitments = Left /\ Left \in SUBSET Dealers /\ DOMAIN Coefficients = Left
        /\ \A d \in Left : Coefficients[d] = deal[d].coefficients
    BY LeftIs
  <1>2. \A d \in Dealers : state[j].my_secret_shares[d] = IF d \in Left THEN "right" ELSE "none"
    BY <1>1 DEF SharesInv, SharesOf, Finished
  <1>3. {d \in Dealers : state[j].my_secret_shares[d] # "none"} = Left  BY <1>1, <1>2
  <1>4. my_shares(j) = [d \in Left |-> decrypt_share(j, d, state[j].my_secret_shares[d])]
    BY <1>3 DEF my_shares
  <1>5. \A d \in Left : decrypt_share(j, d, state[j].my_secret_shares[d])
                          = evaluate_polynomial(j, deal[d].coefficients)
    BY <1>1, <1>2 DEF decrypt_share
  <1>6. my_shares(j) = [d \in Left |-> evaluate_polynomial(j, deal[d].coefficients)]
    BY <1>4, <1>5
  <1>7. j \in Nat  BY Indices DEF Honest
  <1>8. \A d \in Left : /\ evaluate_polynomial(j, deal[d].coefficients) \in Scalar
                        /\ verify_share(evaluate_polynomial(j, deal[d].coefficients),
                                        j, commitments(d))
    BY <1>1, <1>7, BadShares DEF Inv
  <1>9. my_shares(j) = Dealings(Coefficients, j)  BY <1>1, <1>6 DEF Dealings
  <1>10. QED  BY <1>6, <1>8, <1>9

\* What a signer signs with is the secret part of the public key that everybody computes.
THEOREM KeysCorrect == Spec => []KeysBelong
  <1>1. Inv /\ SharesInv => KeysBelong
    <2> SUFFICES ASSUME Inv, SharesInv, InRange, NEW j \in Honest, Finished(j)
                 PROVE  verify_individual(to_public(signing_key_of(j)), j, my_commitments(j))
      BY DEF KeysBelong
    <2> DEFINE shares == my_shares(j)
               points == my_commitments(j)
    <2>1. /\ shares \in [Left -> Scalar]
          /\ \A d \in Left : verify_share(shares[d], j, commitments(d))
      BY SharesAre
    <2>2. points = [d \in Left |-> commitments(d)]  BY LeftIs DEF my_commitments
    <2>3. DOMAIN points = Left /\ \A d \in Left : points[d] = commitments(d)  BY <2>2
    <2> HIDE DEF shares, points
    <2>4. \A d \in Left : verify_share(shares[d], j, points[d])  BY <2>1, <2>3
    <2>5. Left \in SUBSET Index  BY LeftIs
    <2>6. verify_individual(to_public(calculate_signing_key(shares)), j, points)
      BY <2>1, <2>3, <2>4, <2>5, VerifiedKey
    <2>7. QED  BY <2>6 DEF signing_key_of, shares, points
  <1>2. Shape /\ Typed /\ SameInv => Inv  BY DEF Inv
  <1>3. QED
    BY <1>1, <1>2, ShapeCorrect, TypedCorrect, SameCorrect, SharesCorrect, PTL

\* The public key of what a dealer has dealt is that of its secret.
LEMMA PublicKeyIs ==
  ASSUME Inv, NEW d \in Left
  PROVE  public_key(commitments(d)) = Times(G, Coefficients[d][1])
         /\ Coefficients[d][1] \in Scalar
  <1>1. /\ Coefficients[d] \in Seq(Scalar) /\ Coefficients[d] # <<>>
        /\ Coefficients[d] = deal[d].coefficients
    BY LeftIs
  <1>2. 1 \in DOMAIN Coefficients[d] /\ Coefficients[d][1] \in Scalar  BY <1>1
  <1>3. QED  BY <1>1, <1>2 DEF commitments, Commitments, public_key

\* The group key is that of before.
THEOREM GroupKeyCorrect == Spec => []GroupKeyKept
  <1>1. Inv => GroupKeyKept
    <2> SUFFICES ASSUME Inv, NEW j \in Honest, Finished(j), Enough(j), OwnKeysDealt(j)
                 PROVE  group_key_of(j) = Times(G, evaluate_polynomial(0, polynomial))
      BY DEF GroupKeyKept
    <2> DEFINE points == my_commitments(j)
    <2>1. state[j].their_commitments = Left /\ Left \in SUBSET Index  BY LeftIs
    <2>2. Cardinality(Left) >= T  BY <2>1 DEF Enough
    <2>3. Left # {}
      <3>1. Cardinality({}) = 0  BY FS_EmptySet
      <3>2. QED  BY <2>2, <3>1, Indices
    <2>4. points = [d \in Left |-> commitments(d)]  BY <2>1 DEF my_commitments
    <2>5. DOMAIN points = Left /\ \A d \in Left : points[d] = commitments(d)  BY <2>4
    <2>6. \A d \in Left : public_key(points[d]) = Times(G, evaluate_polynomial(d, polynomial))
      <3> TAKE d \in Left
      <3>1. deal[d].coefficients[1] = secret_key(d)  BY <2>1 DEF OwnKeysDealt
      <3>2. Coefficients[d] = deal[d].coefficients  BY LeftIs
      <3>3. public_key(commitments(d)) = Times(G, secret_key(d))
        BY <3>1, <3>2, PublicKeyIs
      <3>4. QED  BY <2>5, <3>3 DEF secret_key
    <2>7. polynomial \in Seq(Scalar) /\ Len(polynomial) <= Cardinality(Left)
      BY <2>2, KeyType DEF Inv, Typed
    <2> HIDE DEF points
    <2>8. calculate_group_key(points) = Times(G, evaluate_polynomial(0, polynomial))
      BY <2>1, <2>3, <2>5, <2>6, <2>7, SameGroupKey
    <2>9. QED  BY <2>8 DEF group_key_of, points
  <1>2. Shape /\ Typed /\ SameInv => Inv  BY DEF Inv
  <1>3. QED
    BY <1>1, <1>2, ShapeCorrect, TypedCorrect, SameCorrect, PTL

\* The group key of the secrets that were dealt.
LEMMA GroupKeyIs ==
  ASSUME Inv, NEW j \in Honest, Finished(j)
  PROVE  group_key_of(j) = Times(G, Interpolated(Secrets(Coefficients), Left))
  <1> DEFINE points == my_commitments(j)
             f == Secrets(Coefficients)
             h == [d \in Left |-> public_key(points[d])]
  <1>1. /\ state[j].their_commitments = Left /\ Left \in SUBSET Index
        /\ DOMAIN Coefficients = Left
    BY LeftIs
  <1>2. points = [d \in Left |-> commitments(d)]  BY <1>1 DEF my_commitments
  <1>3. DOMAIN points = Left /\ \A d \in Left : points[d] = commitments(d)  BY <1>2
  <1>4. \A d \in Left : f[d] \in Scalar /\ h[d] = Times(G, f[d])
    BY <1>1, <1>3, PublicKeyIs DEF Secrets
  <1>5. calculate_group_key(points) = Interpolated(h, Left)
    <2>1. Weighted(h, Left) = [d \in Left |->
            Times(public_key(points[d]), calculate_lagrange_coefficients(d, Left))]
      BY DEF Weighted
    <2> HIDE DEF h, points
    <2>2. QED  BY <1>3, <2>1 DEF calculate_group_key, Interpolated
  <1> HIDE DEF f, h
  <1>6. Interpolated(h, Left) = Times(G, Interpolated(f, Left))
    BY <1>1, <1>4, GIs, InterpolatedTimes
  <1>7. QED  BY <1>5, <1>6 DEF group_key_of, f

\* What any T2 new signers sign verifies.
THEOREM SignsCorrect == Spec => []ThresholdSigns
  <1>1. Inv /\ SharesInv => ThresholdSigns
    <2> SUFFICES ASSUME Inv, SharesInv, InRange, NEW S \in SUBSET Honest, Cardinality(S) = T2,
                        \A j \in S : Finished(j) /\ DegreeDealt(j),
                        NEW challenge \in Hashes, NEW j \in S
                 PROVE  LET sig == Signature(S, challenge) IN
                        verify_signature(sig.R, sig.z, group_key_of(j), challenge)
      BY DEF ThresholdSigns
    <2> DEFINE hiding == [i \in S |-> Times(i, i)]
               binding == [i \in S |-> Plus(i, 1)]
               factors == [i \in S |-> Plus(i, challenge)]
               keys == [i \in S |-> signing_key_of(i)]
               c == Coefficients
    <2>1. S \in SUBSET Index /\ Left \in SUBSET Index /\ S # {} /\ challenge \in Scalar
      BY LeftIs, Indices, ParametersAssumption DEF Honest
    <2>2. \A i \in S : i \in Int /\ challenge \in Int  BY <2>1, ScalarMod DEF Index
    <2>3. /\ hiding \in [S -> Scalar] /\ binding \in [S -> Scalar]
          /\ factors \in [S -> Scalar]
      <3>1. \A i \in S : Times(i, i) \in Scalar /\ Plus(i, 1) \in Scalar
              /\ Plus(i, challenge) \in Scalar
        BY <2>2, PlusTimesType
      <3>2. QED  BY <3>1
    <2>4. \A i \in S : keys[i] = Interpolated(Dealings(c, i), Left)
      <3> TAKE i \in S
      <3>1. my_shares(i) = Dealings(c, i) /\ my_shares(i) \in [Left -> Scalar]  BY SharesAre
      <3>2. DOMAIN my_shares(i) = Left  BY <3>1
      <3>3. calculate_signing_key(my_shares(i)) = Interpolated(my_shares(i), Left)
        BY <3>2 DEF calculate_signing_key, Interpolated, Weighted
      <3>4. QED  BY <3>1, <3>3 DEF signing_key_of
    <2>5. c \in [Left -> Seq(Scalar)] /\ \A d \in Left : c[d] # <<>>
            /\ Len(c[d]) <= Cardinality(S)
      <3>1. /\ c \in [Left -> Seq(Scalar)]
            /\ \A d \in Left : c[d] # <<>> /\ c[d] = deal[d].coefficients
            /\ state[j].their_commitments = Left
        BY LeftIs
      <3>2. \A d \in Left : Len(deal[d].coefficients) = T2  BY <3>1 DEF DegreeDealt
      <3>3. QED  BY <3>1, <3>2, Indices
    <2>6. keys \in [S -> Scalar]
      <3>1. ASSUME NEW i \in S PROVE Interpolated(Dealings(c, i), Left) \in Scalar
        <4>1. my_shares(i) = Dealings(c, i) /\ my_shares(i) \in [Left -> Scalar]  BY SharesAre
        <4>2. \A d \in Left : Dealings(c, i)[d] \in Scalar  BY <4>1
        <4>3. QED  BY <2>1, <4>2, WeightedType
      <3>2. \A i \in S : keys[i] \in Scalar  BY <2>4, <3>1
      <3>3. QED  BY <3>2
    <2>7. group_key_of(j) = Times(G, Interpolated(Secrets(c), Left))
      BY GroupKeyIs
    <2> DEFINE partial == [i \in S |-> partial_signature(i, keys[i], hiding[i], binding[i],
                                                         factors, challenge, S)]
    <2>8. /\ Signature(S, challenge).R = compute_group_commitment(hiding, binding, factors)
          /\ Signature(S, challenge).z = aggregate_z(partial)
      <3>1. partial = [i \in S |-> partial_signature(i, signing_key_of(i), hiding[i], binding[i],
                                                     factors, challenge, S)]
        OBVIOUS
      <3> HIDE DEF partial
      <3>2. QED  BY <3>1 DEF Signature
    <2> HIDE DEF keys, hiding, binding, factors, c
    <2>9. Interpolated(keys, S) = Interpolated(Secrets(c), Left)
      BY <2>1, <2>4, <2>5, KeysInterpolated
    <2>10. verify_signature(compute_group_commitment(hiding, binding, factors),
                            aggregate_z(partial), Times(G, Interpolated(keys, S)), challenge)
      BY <2>1, <2>3, <2>6, SignatureVerifies
    <2> HIDE DEF partial
    <2>11. QED  BY <2>7, <2>8, <2>9, <2>10
  <1>2. Shape /\ Typed /\ SameInv => Inv  BY DEF Inv
  <1>3. QED
    BY <1>1, <1>2, ShapeCorrect, TypedCorrect, SameCorrect, SharesCorrect, PTL
=============================================================================
