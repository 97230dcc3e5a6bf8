------------------------ MODULE KeyGenerationProofs ------------------------
(***************************************************************************)
(* Theorems about KeyGeneration for any number of participants, threshold  *)
(* and number of faulty participants and of complaints they make.          *)
(***************************************************************************)
EXTENDS KeyGeneration, FiniteSetTheorems, TLAPS

(***************************************************************************)
(* The inductive invariant.  All participants that reach round one reach   *)
(* it with the same dealers; what is wrong among one's shares is among the *)
(* complaints; those of honest participants are justified; and once        *)
(* anybody has called blame() there are no new complaints, so that         *)
(* everybody removes the same participants.                                *)
(***************************************************************************)

\* What blame() removes, for whoever calls it.
Removals == pending_removals([n |-> Cardinality(Valid), their_commitments |-> Valid])

\* The complaint that i makes about a share of d.
Accuses(i, d, c) ==
  c.maker = i /\ c.accused = d /\ c.proof = TRUE /\ c.share # "good"

SharesInv(i, s) ==
  \A d \in Participants :
    /\ d \notin Valid => s.my_secret_shares[d] = "none"
    /\ d \in Valid => \/ s.my_secret_shares[d] = "good"
                      \/ \E c \in complaints : Accuses(i, d, c)

StateInv(i, s) ==
  /\ s.status \in {"round_one", "round_two"} =>
       s.n = Cardinality(Valid) /\ s.their_commitments = Valid
  /\ s.status = "round_two" => SharesInv(i, s)
  /\ s.status \in {"blamed", "finished"} =>
       /\ s.their_commitments = Valid \ Removals
       /\ \A d \in Participants :
            /\ d \notin Valid \ Removals => s.my_secret_shares[d] = "none"
            /\ d \in Valid \ Removals => \/ s.my_secret_shares[d] = "good"
                                         \/ \E c \in complaints : Accuses(i, d, c)

\* Honest participants complain about what is bad only; there is nothing bad of them.
Justified(c) ==
  /\ c.maker \in Honest => /\ c.proof = TRUE /\ c.share # "good"
                           /\ c.accused \in Valid
  /\ c.accused \in Honest => c.share = "good"

KeygenInv ==
  /\ \A i \in Honest : StateInv(i, state[i])
  /\ \A c \in complaints : Justified(c)
  /\ (\E i \in Honest : Removed(i)) => AllComplained

-----------------------------------------------------------------------------
(***************************************************************************)
(* The steps.                                                              *)
(***************************************************************************)

\* The participants that are valid are at most all.
LEMMA ValidCount ==
  /\ IsFiniteSet(Participants) /\ Cardinality(Participants) = N
  /\ IsFiniteSet(Valid) /\ Cardinality(Valid) \in 0..N
  <1>1. IsFiniteSet(Participants) /\ Cardinality(Participants) = N
    BY ParametersAssumption, FS_Interval DEF Participants
  <1>2. Valid \subseteq Participants  BY DEF Valid
  <1>3. IsFiniteSet(Valid) /\ Cardinality(Valid) <= N /\ Cardinality(Valid) \in Nat
    BY <1>1, <1>2, FS_Subset, FS_CardinalityType
  <1>4. QED  BY <1>1, <1>3, ParametersAssumption

\* bootstrap() of participant i.
LEMMA BootstrapFields ==
  ASSUME TypeOK, NEW i \in Participants, bootstrap(i)
  PROVE  /\ i \in Honest /\ UNCHANGED <<faulty, invalid, complaints>>
         /\ \A j \in Participants \ {i} : state'[j] = state[j]
         /\ state' \in [Participants -> State]
         /\ \/ state'[i].status = "aborted"
            \/ /\ state'[i].status = "round_one"
               /\ state'[i].n = Cardinality(Valid)
               /\ state'[i].their_commitments = Valid
  <1>0. state[i] \in State /\ Valid \in SUBSET Participants
    BY DEF TypeOK, Valid
  <1>1. CASE state' = [state EXCEPT ![i].status = "aborted"]
    BY <1>0, <1>1 DEF bootstrap, TypeOK, State
  <1>2. CASE /\ enough_participants
             /\ state' = [state EXCEPT ![i].status = "round_one",
                                       ![i].n = Cardinality(Valid),
                                       ![i].their_commitments = Valid]
    <2>1. Cardinality(Valid) \in T..N
      BY <1>2, ValidCount, ParametersAssumption DEF enough_participants
    <2>2. QED  BY <1>0, <1>2, <2>1 DEF bootstrap, TypeOK, State
  <1>3. QED  BY <1>1, <1>2 DEF bootstrap

\* to_round_two() of participant i.
LEMMA RoundTwoFields ==
  ASSUME TypeOK, NEW i \in Participants, to_round_two(i)
  PROVE  /\ i \in Honest /\ state[i].status = "round_one" /\ UNCHANGED <<faulty, invalid>>
         /\ \A j \in Participants \ {i} : state'[j] = state[j]
         /\ state' \in [Participants -> State]
         /\ \E r \in Received(i) :
              /\ complaints' = complaints \cup
                   {[maker |-> i, accused |-> d, proof |-> TRUE, share |-> r[d]] :
                      d \in {e \in DOMAIN r : r[e] # "good"}}
              /\ \/ state'[i].status = "aborted"
                 \/ /\ state'[i].status = "round_two"
                    /\ state'[i].n = state[i].n
                    /\ state'[i].their_commitments = state[i].their_commitments
                    /\ \A d \in Participants : state'[i].my_secret_shares[d] =
                         IF d \in DOMAIN r /\ r[d] # "garbled" THEN r[d] ELSE "none"
  <1>1. PICK r \in Received(i) :
          /\ complaints' = complaints \cup
               {[maker |-> i, accused |-> d, proof |-> TRUE, share |-> r[d]] :
                  d \in {e \in DOMAIN r : r[e] # "good"}}
          /\ \/ state' = [state EXCEPT ![i].status = "aborted"]
             \/ state' = [state EXCEPT ![i].status = "round_two",
                  ![i].my_secret_shares = [d \in Participants |->
                     IF d \in DOMAIN r /\ r[d] # "garbled" THEN r[d] ELSE "none"]]
    BY DEF to_round_two
  <1> DEFINE shares == [d \in Participants |->
                          IF d \in DOMAIN r /\ r[d] # "garbled" THEN r[d] ELSE "none"]
  <1>2. r \in [state[i].their_commitments -> EncryptedShare]  BY DEF Received
  <1>3. shares \in [Participants -> Share]
    BY <1>2 DEF EncryptedShare, Share
  <1>4. state[i] \in State  BY DEF TypeOK
  <1>5. i \in Honest /\ state[i].status = "round_one" /\ UNCHANGED <<faulty, invalid>>
    BY DEF to_round_two
  <1>6. \A d \in Participants : shares[d] =
          IF d \in DOMAIN r /\ r[d] # "garbled" THEN r[d] ELSE "none"
    OBVIOUS
  <1>7. CASE state' = [state EXCEPT ![i].status = "aborted"]
    BY <1>1, <1>4, <1>5, <1>7 DEF TypeOK, State
  <1>8. CASE state' = [state EXCEPT ![i].status = "round_two", ![i].my_secret_shares = shares]
    <2> HIDE DEF shares
    <2>1. /\ state' \in [Participants -> State]
          /\ \A j \in Participants \ {i} : state'[j] = state[j]
          /\ state'[i].status = "round_two" /\ state'[i].n = state[i].n
          /\ state'[i].their_commitments = state[i].their_commitments
          /\ state'[i].my_secret_shares = shares
      BY <1>3, <1>4, <1>8 DEF TypeOK, State
    <2>2. QED  BY <1>1, <1>5, <1>6, <2>1
  <1>9. QED  BY <1>1, <1>7, <1>8

\* A faulty participant complains.
LEMMA FalseComplaintFields ==
  ASSUME TypeOK, NEW j \in Participants, false_complaint(j)
  PROVE  /\ UNCHANGED <<faulty, invalid, state>>
         /\ \A i \in Honest : ~Removed(i)
         /\ \E c \in Complaint :
              /\ complaints' = complaints \cup {c}
              /\ c.maker \notin Honest
              /\ c.accused \in Honest => c.share = "good"
  <1>1. PICK a \in 0..(N + 1), p \in BOOLEAN, k \in EncryptedShare :
          /\ a \in Honest => k = "good"
          /\ complaints' = complaints \cup
               {[maker |-> j, accused |-> a, proof |-> p, share |-> k]}
    BY DEF false_complaint
  <1>2. [maker |-> j, accused |-> a, proof |-> p, share |-> k] \in Complaint
    BY DEF Complaint
  <1>3. j \notin Honest  BY DEF false_complaint, Honest
  <1>4. QED  BY <1>1, <1>2, <1>3 DEF false_complaint, Removed

\* blame() of participant i.
LEMMA BlameFields ==
  ASSUME TypeOK, NEW i \in Participants, blame(i)
  PROVE  LET R == pending_removals(state[i]) IN
         /\ i \in Honest /\ state[i].status = "round_two" /\ AllComplained
         /\ UNCHANGED <<faulty, invalid, complaints>>
         /\ \A j \in Participants \ {i} : state'[j] = state[j]
         /\ state' \in [Participants -> State]
         /\ state'[i].status = "blamed"
         /\ state'[i].their_commitments = state[i].their_commitments \ R
         /\ \A d \in Participants : state'[i].my_secret_shares[d] =
              IF d \in R THEN "none" ELSE state[i].my_secret_shares[d]
  <1> DEFINE R == pending_removals(state[i])
  <1> DEFINE s == state[i]
  <1> DEFINE t == [remove_malicious(s, R) EXCEPT !.status = "blamed"]
  <1>1. state' = [state EXCEPT ![i] = t]  BY DEF blame
  <1>2. s \in State  BY DEF TypeOK
  <1>3. /\ i \in Honest /\ s.status = "round_two" /\ AllComplained
        /\ UNCHANGED <<faulty, invalid, complaints>>
    BY DEF blame
  <1> HIDE DEF R, s
  <1>4. /\ t \in State /\ t.status = "blamed"
        /\ t.their_commitments = s.their_commitments \ R
        /\ \A d \in Participants :
             t.my_secret_shares[d] = IF d \in R THEN "none" ELSE s.my_secret_shares[d]
    BY <1>2 DEF remove_malicious, State, Share
  <1> HIDE DEF t
  <1>5. QED  BY <1>1, <1>3, <1>4 DEF TypeOK, R, s

\* finish() of participant i.
LEMMA FinishFields ==
  ASSUME TypeOK, NEW i \in Participants, finish(i)
  PROVE  /\ i \in Honest /\ state[i].status = "blamed"
         /\ UNCHANGED <<faulty, invalid, complaints>>
         /\ \A j \in Participants \ {i} : state'[j] = state[j]
         /\ state' \in [Participants -> State]
         /\ state'[i].status = "finished"
         /\ state'[i].their_commitments = state[i].their_commitments
         /\ state'[i].my_secret_shares = state[i].my_secret_shares
  <1>1. state[i] \in State  BY DEF TypeOK
  <1>2. QED  BY <1>1 DEF finish, TypeOK, State

\* Every step preserves the type invariant.
LEMMA TypeStep == TypeOK /\ [Next]_vars => TypeOK'
  <1> SUFFICES ASSUME TypeOK, [Next]_vars PROVE TypeOK'
    OBVIOUS
  <1>1. ASSUME NEW i \in Participants, bootstrap(i) PROVE TypeOK'
    BY <1>1, BootstrapFields DEF TypeOK
  <1>2. ASSUME NEW i \in Participants, to_round_two(i) PROVE TypeOK'
    <2>1. PICK r \in Received(i) :
            complaints' = complaints \cup
              {[maker |-> i, accused |-> d, proof |-> TRUE, share |-> r[d]] :
                 d \in {e \in DOMAIN r : r[e] # "good"}}
      BY <1>2, RoundTwoFields
    <2>2. r \in [state[i].their_commitments -> EncryptedShare]
          /\ state[i].their_commitments \subseteq Participants
      BY DEF Received, TypeOK, State
    <2>3. ASSUME NEW d \in DOMAIN r
          PROVE  [maker |-> i, accused |-> d, proof |-> TRUE, share |-> r[d]] \in Complaint
      BY <2>2, ParametersAssumption DEF Complaint, Participants
    <2>4. complaints' \subseteq Complaint  BY <2>1, <2>3 DEF TypeOK
    <2>5. QED  BY <1>2, <2>4, RoundTwoFields DEF TypeOK
  <1>3. ASSUME NEW i \in Participants, false_complaint(i) PROVE TypeOK'
    BY <1>3, FalseComplaintFields DEF TypeOK
  <1>4. ASSUME NEW i \in Participants, blame(i) PROVE TypeOK'
    BY <1>4, BlameFields DEF TypeOK
  <1>5. ASSUME NEW i \in Participants, finish(i) PROVE TypeOK'
    BY <1>5, FinishFields DEF TypeOK
  <1>6. CASE UNCHANGED vars  BY <1>6 DEF vars, TypeOK
  <1>7. QED
    BY <1>1, <1>2, <1>3, <1>4, <1>5, <1>6 DEF Next, step

\* Participants and complaints keep their types, and nobody goes on with fewer valid
\* participants than the threshold.
THEOREM TypeCorrect == Spec => []TypeOK
  <1>1. Init => TypeOK
    BY DEF Init, TypeOK, State, NoShares, Share
  <1>2. QED  BY <1>1, TypeStep, PTL DEF Spec

-----------------------------------------------------------------------------
(***************************************************************************)
(* The invariant is inductive.                                             *)
(***************************************************************************)

\* A participant's part of the invariant stays when it does not move and no complaint is
\* retracted; if it has called blame(), when there is no new complaint either.
LEMMA StateKept ==
  ASSUME NEW i, StateInv(i, state[i]), state'[i] = state[i],
         UNCHANGED <<faulty, invalid>>, complaints \subseteq complaints',
         complaints' = complaints \/ ~(state[i].status \in {"blamed", "finished"})
  PROVE  StateInv(i, state[i])'
  <1>1. Valid' = Valid  BY DEF Valid
  <1>2. CASE complaints' = complaints
    BY <1>1, <1>2 DEF StateInv, SharesInv, Removals, pending_removals, upheld
  <1>3. CASE ~(state[i].status \in {"blamed", "finished"})
    BY <1>1, <1>3 DEF StateInv, SharesInv
  <1>4. QED  BY <1>2, <1>3

\* bootstrap() preserves the invariant.
LEMMA BootstrapKeeps ==
  ASSUME TypeOK, KeygenInv, NEW i \in Participants, bootstrap(i)
  PROVE  KeygenInv'
  <1>1. Honest' = Honest /\ Valid' = Valid
    BY BootstrapFields DEF Honest, Valid
  <1>2. ASSUME NEW j \in Honest PROVE StateInv(j, state[j])'
    <2>1. CASE j = i  BY <1>1, <2>1, BootstrapFields DEF StateInv
    <2>2. CASE j # i
      <3>1. StateInv(j, state[j]) /\ j \in Participants  BY DEF KeygenInv, Honest
      <3>2. QED  BY <2>2, <3>1, BootstrapFields, StateKept
    <2>3. QED  BY <2>1, <2>2
  <1>3. \A c \in complaints' : Justified(c)'
    BY <1>1, BootstrapFields DEF KeygenInv, Justified
  <1>4. ~AllComplained
    BY BootstrapFields DEF AllComplained, bootstrap
  <1>5. \A j \in Honest : ~Removed(j)  BY <1>4 DEF KeygenInv
  <1>6. \A j \in Honest' : ~Removed(j)'
    BY <1>1, <1>5, BootstrapFields DEF Removed, Honest
  <1>7. QED  BY <1>1, <1>2, <1>3, <1>6 DEF KeygenInv

\* to_round_two() preserves it: what is kept of the bad shares is complained about.
LEMMA RoundTwoKeeps ==
  ASSUME TypeOK, KeygenInv, NEW i \in Participants, to_round_two(i)
  PROVE  KeygenInv'
  <1>1. Honest' = Honest /\ Valid' = Valid /\ i \in Honest
    BY RoundTwoFields DEF Honest, Valid
  <1>2. PICK r \in Received(i) :
          /\ complaints' = complaints \cup
               {[maker |-> i, accused |-> d, proof |-> TRUE, share |-> r[d]] :
                  d \in {e \in DOMAIN r : r[e] # "good"}}
          /\ \/ state'[i].status = "aborted"
             \/ /\ state'[i].status = "round_two"
                /\ state'[i].n = state[i].n
                /\ state'[i].their_commitments = state[i].their_commitments
                /\ \A d \in Participants : state'[i].my_secret_shares[d] =
                     IF d \in DOMAIN r /\ r[d] # "garbled" THEN r[d] ELSE "none"
    BY RoundTwoFields
  <1>3. /\ state[i].n = Cardinality(Valid) /\ state[i].their_commitments = Valid
        /\ state[i].status = "round_one"
    BY <1>1, RoundTwoFields DEF KeygenInv, StateInv
  <1>4. /\ r \in [Valid -> EncryptedShare] /\ DOMAIN r = Valid
        /\ \A d \in Valid \cap Honest : r[d] = "good"
    BY <1>3 DEF Received, Honest
  <1>5. ~AllComplained  BY <1>1, <1>3 DEF AllComplained
  <1>6. \A j \in Honest : ~Removed(j)  BY <1>5 DEF KeygenInv
  <1>7. ASSUME NEW d \in Valid, r[d] # "good"
        PROVE  \E c \in complaints' : Accuses(i, d, c)
    <2> DEFINE c == [maker |-> i, accused |-> d, proof |-> TRUE, share |-> r[d]]
    <2>1. c \in complaints'  BY <1>2, <1>4, <1>7
    <2>2. Accuses(i, d, c)  BY <1>7 DEF Accuses
    <2>3. QED  BY <2>1, <2>2
  <1>8. ASSUME NEW j \in Honest PROVE StateInv(j, state[j])'
    <2>1. CASE j = i /\ state'[i].status = "aborted"  BY <2>1 DEF StateInv
    <2>2. CASE j = i /\ state'[i].status = "round_two"
      <3>1. \A d \in Participants : state'[i].my_secret_shares[d] =
              IF d \in Valid /\ r[d] # "garbled" THEN r[d] ELSE "none"
        BY <1>2, <1>4, <2>2
      <3>2. SharesInv(i, state[i])'
        <4>1. ASSUME NEW d \in Participants, d \notin Valid'
              PROVE  state'[i].my_secret_shares[d] = "none"
          BY <1>1, <3>1, <4>1
        <4>2. ASSUME NEW d \in Valid', state'[i].my_secret_shares[d] # "good"
              PROVE  \E c \in complaints' : Accuses(i, d, c)
          <5>1. d \in Valid /\ d \in Participants  BY <1>1 DEF Valid
          <5>2. r[d] # "good"  BY <3>1, <4>2, <5>1
          <5>3. QED  BY <1>7, <5>1, <5>2
        <4>3. QED  BY <4>1, <4>2, Zenon DEF SharesInv, Accuses
      <3>3. QED  BY <1>1, <1>2, <1>3, <2>2, <3>2 DEF StateInv
    <2>3. CASE j # i
      <3>1. StateInv(j, state[j]) /\ j \in Participants  BY DEF KeygenInv, Honest
      <3>2. ~(state[j].status \in {"blamed", "finished"})  BY <1>6 DEF Removed
      <3>3. complaints \subseteq complaints'  BY <1>2
      <3>4. QED  BY <2>3, <3>1, <3>2, <3>3, RoundTwoFields, StateKept
    <2>4. QED  BY <1>2, <2>1, <2>2, <2>3
  <1>9. ASSUME NEW c \in complaints' PROVE Justified(c)'
    <2>1. CASE c \in complaints  BY <1>1, <2>1 DEF KeygenInv, Justified
    <2>2. ASSUME NEW d \in Valid, r[d] # "good",
                 c = [maker |-> i, accused |-> d, proof |-> TRUE, share |-> r[d]]
          PROVE  Justified(c)'
      BY <1>1, <1>4, <2>2 DEF Justified
    <2>3. QED  BY <1>2, <1>4, <2>1, <2>2
  <1>10. \A j \in Honest' : ~Removed(j)'
    BY <1>1, <1>2, <1>6, RoundTwoFields DEF Removed, Honest
  <1>11. QED  BY <1>1, <1>8, <1>9, <1>10 DEF KeygenInv

\* A complaint of a faulty participant preserves it: nobody has called blame() yet.
LEMMA FalseComplaintKeeps ==
  ASSUME TypeOK, KeygenInv, NEW f \in Participants, false_complaint(f)
  PROVE  KeygenInv'
  <1>1. /\ Honest' = Honest /\ Valid' = Valid /\ state' = state
        /\ \A j \in Honest : ~Removed(j)
    BY FalseComplaintFields DEF Honest, Valid
  <1>2. PICK c \in Complaint :
          /\ complaints' = complaints \cup {c}
          /\ c.maker \notin Honest
          /\ c.accused \in Honest => c.share = "good"
    BY FalseComplaintFields
  <1>3. ASSUME NEW j \in Honest PROVE StateInv(j, state[j])'
    <2>1. StateInv(j, state[j]) /\ ~(state[j].status \in {"blamed", "finished"})
      BY <1>1 DEF KeygenInv, Removed
    <2>2. state'[j] = state[j] /\ complaints \subseteq complaints' /\ UNCHANGED <<faulty, invalid>>
      BY <1>1, <1>2, FalseComplaintFields
    <2>3. QED  BY <2>1, <2>2, StateKept
  <1>4. \A d \in complaints' : Justified(d)'
    BY <1>1, <1>2 DEF KeygenInv, Justified
  <1>5. \A j \in Honest' : ~Removed(j)'  BY <1>1 DEF Removed
  <1>6. QED  BY <1>1, <1>3, <1>4, <1>5 DEF KeygenInv

\* blame() preserves it: it removes what every other one removes, and its bad shares.
LEMMA BlameKeeps ==
  ASSUME TypeOK, KeygenInv, NEW i \in Participants, blame(i)
  PROVE  KeygenInv'
  <1> DEFINE R == pending_removals(state[i])
  <1>1. /\ Honest' = Honest /\ Valid' = Valid /\ i \in Honest /\ AllComplained
        /\ complaints' = complaints
    BY BlameFields DEF Honest, Valid
  <1>2. /\ state[i].n = Cardinality(Valid) /\ state[i].their_commitments = Valid
        /\ SharesInv(i, state[i])
    BY <1>1, BlameFields DEF KeygenInv, StateInv
  <1>3. R = Removals
    BY <1>2 DEF Removals, pending_removals, upheld
  <1>4. Removals' = Removals
    BY <1>1 DEF Removals, pending_removals, upheld
  <1>5. /\ state'[i].status = "blamed"
        /\ state'[i].their_commitments = Valid \ Removals
        /\ \A d \in Participants : state'[i].my_secret_shares[d] =
             IF d \in Removals THEN "none" ELSE state[i].my_secret_shares[d]
        /\ \A j \in Participants \ {i} : state'[j] = state[j]
    BY <1>2, <1>3, BlameFields
  <1>6. ASSUME NEW j \in Honest PROVE StateInv(j, state[j])'
    <2>1. CASE j = i
      <3>1. ASSUME NEW d \in Participants
            PROVE  /\ d \notin Valid \ Removals => state'[i].my_secret_shares[d] = "none"
                   /\ d \in Valid \ Removals =>
                        \/ state'[i].my_secret_shares[d] = "good"
                        \/ \E c \in complaints : Accuses(i, d, c)
        BY <1>2, <1>5 DEF SharesInv
      <3>2. \A d \in Participants :
              /\ d \notin Valid' \ Removals' => state'[i].my_secret_shares[d] = "none"
              /\ d \in Valid' \ Removals' => \/ state'[i].my_secret_shares[d] = "good"
                                            \/ \E c \in complaints' : Accuses(i, d, c)
        BY <1>1, <1>4, <3>1
      <3>3. /\ state'[i].their_commitments = Valid' \ Removals'
            /\ state'[i].status = "blamed"
        BY <1>1, <1>4, <1>5
      <3>4. QED  BY <2>1, <3>2, <3>3, ZenonT(60) DEF StateInv, Accuses
    <2>2. CASE j # i
      <3>1. StateInv(j, state[j]) /\ j \in Participants  BY DEF KeygenInv, Honest
      <3>2. QED  BY <1>1, <1>5, <2>2, <3>1, BlameFields, StateKept
    <2>3. QED  BY <2>1, <2>2
  <1>7. \A c \in complaints' : Justified(c)'
    BY <1>1 DEF KeygenInv, Justified
  <1>8. AllComplained'
    BY <1>1, <1>5 DEF AllComplained, Honest
  <1>9. QED  BY <1>1, <1>6, <1>7, <1>8 DEF KeygenInv

\* finish() preserves it.
LEMMA FinishKeeps ==
  ASSUME TypeOK, KeygenInv, NEW i \in Participants, finish(i)
  PROVE  KeygenInv'
  <1>1. /\ Honest' = Honest /\ Valid' = Valid /\ i \in Honest
        /\ complaints' = complaints
    BY FinishFields DEF Honest, Valid
  <1>2. Removals' = Removals
    BY <1>1 DEF Removals, pending_removals, upheld
  <1>3. ASSUME NEW j \in Honest PROVE StateInv(j, state[j])'
    <2>1. CASE j = i
      <3>1. StateInv(i, state[i])  BY <1>1 DEF KeygenInv
      <3>2. QED  BY <1>1, <1>2, <2>1, <3>1, FinishFields DEF StateInv, Accuses
    <2>2. CASE j # i
      <3>1. StateInv(j, state[j]) /\ j \in Participants  BY DEF KeygenInv, Honest
      <3>2. QED  BY <1>1, <2>2, <3>1, FinishFields, StateKept
    <2>3. QED  BY <2>1, <2>2
  <1>4. \A c \in complaints' : Justified(c)'
    BY <1>1 DEF KeygenInv, Justified
  <1>5. AllComplained
    BY <1>1, FinishFields DEF KeygenInv, Removed
  <1>6. AllComplained'
    BY <1>1, <1>5, FinishFields DEF AllComplained, Honest
  <1>7. QED  BY <1>1, <1>3, <1>4, <1>6 DEF KeygenInv

LEMMA KeygenStep == TypeOK /\ KeygenInv /\ [Next]_vars => KeygenInv'
  <1> SUFFICES ASSUME TypeOK, KeygenInv, [Next]_vars PROVE KeygenInv'
    OBVIOUS
  <1>1. CASE UNCHANGED vars
    <2>1. /\ Honest' = Honest /\ Valid' = Valid /\ state' = state
          /\ UNCHANGED <<faulty, invalid>> /\ complaints' = complaints
      BY <1>1 DEF vars, Honest, Valid
    <2>2. ASSUME NEW j \in Honest PROVE StateInv(j, state[j])'
      <3>1. StateInv(j, state[j])  BY DEF KeygenInv
      <3>2. QED  BY <2>1, <3>1, StateKept
    <2>3. \A c \in complaints' : Justified(c)'
      BY <2>1 DEF KeygenInv, Justified
    <2>4. (\E j \in Honest' : Removed(j)') => AllComplained'
      BY <2>1 DEF KeygenInv, Removed, AllComplained
    <2>5. QED  BY <2>1, <2>2, <2>3, <2>4 DEF KeygenInv
  <1>2. QED
    BY <1>1, BootstrapKeeps, RoundTwoKeeps, FalseComplaintKeeps, BlameKeeps, FinishKeeps
    DEF Next, step

\* The invariant holds throughout.
THEOREM KeygenCorrect == Spec => []KeygenInv
  <1>1. Init => KeygenInv
    <2> SUFFICES ASSUME Init PROVE KeygenInv
      OBVIOUS
    <2>1. \A i \in Honest : state[i].status = "start"  BY DEF Init, Honest
    <2>2. QED  BY <2>1 DEF Init, KeygenInv, StateInv, Removed
  <1>2. QED  BY <1>1, KeygenStep, TypeCorrect, PTL DEF Spec

-----------------------------------------------------------------------------
(***************************************************************************)
(* What follows from it.                                                   *)
(***************************************************************************)

\* What an honest participant complains about is upheld, if indices are in range.
LEMMA HonestUpheld ==
  ASSUME TypeOK, KeygenInv, InRange, NEW c \in complaints, c.maker \in Honest
  PROVE  upheld([n |-> Cardinality(Valid), their_commitments |-> Valid], c)
  <1>1. c.proof = TRUE /\ c.share # "good" /\ c.accused \in Valid
    BY DEF KeygenInv, Justified
  <1>2. c.accused # 0  BY <1>1 DEF Valid, Participants
  <1>3. c.accused <= Cardinality(Valid)  BY <1>1 DEF InRange
  <1>4. QED  BY <1>1, <1>2, <1>3 DEF upheld

\* Nobody honest is among those removed, if indices are in range.
LEMMA HonestNotRemoved ==
  ASSUME TypeOK, KeygenInv, InRange
  PROVE  Honest \cap Removals = {}
  <1> DEFINE s == [n |-> Cardinality(Valid), their_commitments |-> Valid]
  <1> SUFFICES ASSUME NEW c \in complaints
               PROVE  (IF upheld(s, c) THEN c.accused ELSE c.maker) \notin Honest
    BY DEF Removals, pending_removals
  <1>1. CASE upheld(s, c)
    <2>1. c.share # "good"  BY <1>1 DEF upheld
    <2>2. QED  BY <1>1, <2>1 DEF KeygenInv, Justified
  <1>2. CASE ~upheld(s, c)  BY <1>2, HonestUpheld
  <1>3. QED  BY <1>1, <1>2

\* An honest participant is never removed, unless there are valid ones with an index past
\* their number.
THEOREM HonestKeptCorrect == Spec => []HonestKeptInRange
  <1>1. TypeOK /\ KeygenInv => HonestKeptInRange
    <2> SUFFICES ASSUME TypeOK, KeygenInv, InRange, NEW i \in Honest, Removed(i)
                 PROVE  Honest \subseteq state[i].their_commitments
      BY DEF HonestKeptInRange, HonestKept
    <2>1. state[i].their_commitments = Valid \ Removals
      BY DEF KeygenInv, StateInv, Removed
    <2>2. Honest \subseteq Valid  BY DEF TypeOK, Honest, Valid
    <2>3. QED  BY <2>1, <2>2, HonestNotRemoved
  <1>2. QED  BY <1>1, TypeCorrect, KeygenCorrect, PTL

\* The shares that are left and the commitments that are left are of the same dealers,
\* and the shares are good, under the same condition.
THEOREM WholeKeyCorrect == Spec => []WholeKeyInRange
  <1>1. TypeOK /\ KeygenInv => WholeKeyInRange
    <2> SUFFICES ASSUME TypeOK, KeygenInv, InRange, NEW i \in Honest, Removed(i)
                 PROVE  state[i].my_secret_shares =
                          [d \in Participants |->
                             IF d \in state[i].their_commitments THEN "good" ELSE "none"]
      BY DEF WholeKeyInRange, WholeKey
    <2>1. StateInv(i, state[i]) /\ state[i].their_commitments = Valid \ Removals
      BY DEF KeygenInv, StateInv, Removed
    <2>2. ASSUME NEW d \in Valid \ Removals, NEW c \in complaints, Accuses(i, d, c)
          PROVE  FALSE
      <3>1. upheld([n |-> Cardinality(Valid), their_commitments |-> Valid], c)
        BY <2>2, HonestUpheld DEF Accuses
      <3>2. d \in Removals
        BY <2>2, <3>1 DEF Accuses, Removals, pending_removals
      <3>3. QED  BY <2>2, <3>2
    <2>3. \A d \in Participants : state[i].my_secret_shares[d] =
            IF d \in Valid \ Removals THEN "good" ELSE "none"
      BY <2>1, <2>2 DEF StateInv, Removed
    <2>4. state[i].my_secret_shares \in [Participants -> Share]
      BY DEF TypeOK, State, Honest
    <2>5. QED  BY <2>1, <2>3, <2>4
  <1>2. QED  BY <1>1, TypeCorrect, KeygenCorrect, PTL

\* A key is made of at least as many dealers as the threshold, if enough participants are
\* honest, under the same condition.
THEOREM EnoughDealersCorrect == Spec => []EnoughDealersTolerable
  <1>1. TypeOK /\ HonestKeptInRange => EnoughDealersTolerable
    <2> SUFFICES ASSUME TypeOK, HonestKeptInRange, Tolerable, InRange,
                        NEW i \in Honest, Finished(i)
                 PROVE  Cardinality(state[i].their_commitments) >= T
      BY DEF EnoughDealersTolerable, EnoughDealers
    <2> DEFINE D == state[i].their_commitments
    <2>1. Honest \subseteq D /\ D \subseteq Participants
      BY DEF HonestKeptInRange, HonestKept, Finished, Removed, TypeOK, State, Honest
    <2>2. faulty \subseteq Participants  BY DEF TypeOK
    <2>3. IsFiniteSet(faulty) /\ Cardinality(faulty) \in Nat
      BY <2>2, ValidCount, FS_Subset, FS_CardinalityType
    <2>4. Cardinality(Honest) = N - Cardinality(faulty)
      <3>1. Participants \cap faulty = faulty  BY <2>2
      <3>2. QED  BY <3>1, ValidCount, FS_Difference DEF Honest
    <2>5. IsFiniteSet(D) /\ Cardinality(Honest) <= Cardinality(D) /\ Cardinality(D) \in Nat
      BY <2>1, ValidCount, FS_Subset, FS_CardinalityType
    <2>6. QED  BY <2>3, <2>4, <2>5, ParametersAssumption DEF Tolerable
  <1>2. QED  BY <1>1, TypeCorrect, HonestKeptCorrect, PTL

\* The library implements KeyAgreement: whoever finishes has the key of Valid \ Removals.
THEOREM AgreementCorrect == Spec => AgreementSpec
  <1> DEFINE k == [i \in Participants |->
                     IF i \in Honest /\ Finished(i) THEN {state[i].their_commitments}
                                                  ELSE {}]
  <1>1. Init => Agreement!Init
    <2> SUFFICES ASSUME Init PROVE Agreement!Init
      OBVIOUS
    <2>1. \A i \in Participants : ~Finished(i)  BY DEF Init, Finished
    <2>2. QED  BY <2>1 DEF Agreement!Init
  <1>2. TypeOK /\ KeygenInv /\ KeygenInv' /\ [Next]_vars => [Agreement!Next]_k
    <2> SUFFICES ASSUME TypeOK, KeygenInv, KeygenInv', [Next]_vars
                 PROVE  [Agreement!Next]_k
      OBVIOUS
    <2>1. ASSUME NEW i \in Participants, finish(i) PROVE Agreement!Next
      <3> DEFINE g == {Valid \ Removals}
      <3>0. i \in Honest /\ UNCHANGED <<faulty, invalid, complaints>>
        BY <2>1, FinishFields
      <3>1. Honest' = Honest /\ i \in Honest /\ Removals' = Removals /\ Valid' = Valid
        BY <3>0 DEF Honest, Removals, pending_removals, upheld, Valid
      <3>2. /\ ~Finished(i) /\ Finished(i)'
            /\ state[i].their_commitments = Valid \ Removals
            /\ state'[i].their_commitments = Valid \ Removals
            /\ \A j \in Participants \ {i} : state'[j] = state[j]
        BY <2>1, <3>1, FinishFields DEF Finished, KeygenInv, StateInv
      <3>3. ASSUME NEW j \in Honest, Finished(j)
            PROVE  state[j].their_commitments = Valid \ Removals
        BY <3>3 DEF KeygenInv, StateInv, Finished
      <3>4. g \in {{D} : D \in SUBSET Participants}  BY DEF Valid
      <3>5. k[i] = {} /\ \A j \in Participants : k[j] \in {{}, g}
        BY <3>2, <3>3
      <3>6. k' = [k EXCEPT ![i] = g]
        BY <3>1, <3>2 DEF Finished
      <3>7. QED  BY <3>4, <3>5, <3>6 DEF Agreement!Next, Agreement!Obtain
    <2>2. ASSUME NEW i \in Participants,
                 bootstrap(i) \/ to_round_two(i) \/ blame(i) \/ false_complaint(i)
          PROVE  k' = k
      <3>1. /\ Honest' = Honest
            /\ \A j \in Participants \ {i} : state'[j] = state[j]
            /\ state'[i] = state[i] \/ (~Finished(i) /\ ~Finished(i)')
        <4>1. CASE bootstrap(i)
          BY <4>1, BootstrapFields DEF Honest, Finished, bootstrap
        <4>2. CASE to_round_two(i)  BY <4>2, RoundTwoFields DEF Honest, Finished
        <4>3. CASE blame(i)  BY <4>3, BlameFields DEF Honest, Finished
        <4>4. CASE false_complaint(i)  BY <4>4, FalseComplaintFields DEF Honest
        <4>5. QED  BY <2>2, <4>1, <4>2, <4>3, <4>4
      <3>2. \A j \in Participants : Finished(j)' = Finished(j) /\
              (Finished(j) => state'[j].their_commitments = state[j].their_commitments)
        BY <3>1 DEF Finished
      <3>3. QED  BY <3>1, <3>2
    <2>3. CASE UNCHANGED vars  BY <2>3 DEF vars, Finished, Honest
    <2> HIDE DEF k
    <2>4. QED  BY <2>1, <2>2, <2>3 DEF Next, step
  <1>3. QED
    BY <1>1, <1>2, TypeCorrect, KeygenCorrect, PTL DEF Spec, AgreementSpec, Agreement!Spec
=============================================================================
