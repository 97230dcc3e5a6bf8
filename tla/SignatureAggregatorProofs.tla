--------------------- MODULE SignatureAggregatorProofs ---------------------
(***************************************************************************)
(* Theorems about SignatureAggregator for any parameters, any number of    *)
(* signers, nonces and messages.                                           *)
(***************************************************************************)
EXTENDS SignatureAggregator, FiniteSetTheorems, SequenceTheorems, TLAPS

Finalized == aggregator.status \in {"finalized", "failed", "signed"}

(***************************************************************************)
(* A list without the element at x: what drop_share leaves.                *)
(***************************************************************************)
LEMMA DropShare ==
  ASSUME NEW S, NEW list \in Seq(S), NEW x \in 1..Len(list)
  PROVE  /\ drop_share(list, x) \in Seq(S)
         /\ Len(drop_share(list, x)) = Len(list) - 1
         /\ \A j \in 1..(Len(list) - 1) :
              drop_share(list, x)[j] = IF j < x THEN list[j] ELSE list[j + 1]
  <1> DEFINE a == SubSeq(list, 1, x - 1)
             b == SubSeq(list, x + 1, Len(list))
  <1>1. Len(list) \in Nat /\ x \in 1..Len(list) /\ \A j \in 1..Len(list) : list[j] \in S
    BY LenProperties, ElementOfSeq
  <1>2. a \in Seq(S) /\ Len(a) = x - 1 /\ \A j \in 1..(x - 1) : a[j] = list[j]
    <2>1. \A j \in 1..(x - 1) : list[j] \in S  BY <1>1
    <2>2. /\ a \in Seq(S) /\ Len(a) = IF 1 <= x - 1 THEN x - 1 - 1 + 1 ELSE 0
          /\ \A j \in 1..(x - 1 - 1 + 1) : a[j] = list[1 + j - 1]
      BY <1>1, <2>1, SubSeqProperties
    <2> HIDE DEF a
    <2>3. QED  BY <1>1, <2>2
  <1>3. /\ b \in Seq(S) /\ Len(b) = Len(list) - x
        /\ \A j \in 1..(Len(list) - x) : b[j] = list[x + j]
    <2>1. \A j \in (x + 1)..Len(list) : list[j] \in S  BY <1>1
    <2>2. /\ b \in Seq(S)
          /\ Len(b) = IF x + 1 <= Len(list) THEN Len(list) - (x + 1) + 1 ELSE 0
          /\ \A j \in 1..(Len(list) - (x + 1) + 1) : b[j] = list[(x + 1) + j - 1]
      BY <1>1, <2>1, SubSeqProperties
    <2> HIDE DEF b
    <2>3. QED  BY <1>1, <2>2
  <1> DEFINE c == a \o b
  <1>4. drop_share(list, x) = c  BY DEF drop_share, RemoveAt
  <1> HIDE DEF a, b
  <1>5. /\ c \in Seq(S) /\ Len(c) = Len(a) + Len(b)
        /\ \A j \in 1..(Len(a) + Len(b)) : c[j] = IF j <= Len(a) THEN a[j] ELSE b[j - Len(a)]
    BY <1>2, <1>3, ConcatProperties
  <1> HIDE DEF c
  <1>6. ASSUME NEW j \in 1..(Len(list) - 1)
        PROVE  c[j] = IF j < x THEN list[j] ELSE list[j + 1]
    <2>1. c[j] = IF j <= x - 1 THEN a[j] ELSE b[j - (x - 1)]
      BY <1>1, <1>2, <1>3, <1>5
    <2>2. CASE j < x  BY <1>1, <1>2, <2>1, <2>2
    <2>3. CASE ~(j < x)
      <3>1. j - (x - 1) \in 1..(Len(list) - x) /\ x + (j - (x - 1)) = j + 1
        BY <1>1, <2>3
      <3>2. b[j - (x - 1)] = list[j + 1]  BY <1>3, <3>1
      <3>3. ~(j <= x - 1)  BY <1>1, <2>3
      <3>4. QED  BY <2>1, <2>3, <3>2, <3>3
    <2>4. QED  BY <2>2, <2>3
  <1>7. Len(a) + Len(b) = Len(list) - 1  BY <1>1, <1>2, <1>3
  <1>8. QED  BY <1>4, <1>5, <1>6, <1>7

LEMMA SignersType ==
  ASSUME NEW s \in Signers, NEW i \in Holders, NEW k \in 1..Nonces
  PROVE  /\ with_signer(s, i, k) \in Signers
         /\ indices(with_signer(s, i, k)) = indices(s) \cup {i}
         /\ \A j \in Holders : s[j] # 0 => with_signer(s, i, k)[j] = s[j]
  BY SigningAssumption DEF Signers, with_signer, indices

LEMMA IndicesFinite ==
  ASSUME NEW s PROVE IsFiniteSet(indices(s)) /\ Cardinality(indices(s)) \in Nat
  BY SigningAssumption, FS_Subset, FS_CardinalityType DEF indices

\* What each of the aggregator's operations leaves of it, field by field.
LEMMA IncludeFields ==
  ASSUME TypeOK, NEW i \in Holders, NEW k \in 1..Nonces, include_signer(i, k)
  PROVE  LET s == with_signer(aggregator.signers, i, k) IN
         /\ aggregator' \in Aggregator
         /\ aggregator.status = "initial" /\ aggregator'.status = "initial"
         /\ aggregator'.message = aggregator.message
         /\ aggregator'.signers = s
         /\ aggregator'.public_keys = IF Cardinality(indices(s)) > N
                                       THEN aggregator.public_keys
                                       ELSE aggregator.public_keys \cup {i}
         /\ aggregator'.partial_signatures = aggregator.partial_signatures
  <1>1. with_signer(aggregator.signers, i, k) \in Signers
    BY SignersType DEF TypeOK, Aggregator
  <1>2. QED  BY <1>1 DEF include_signer, included, TypeOK, Aggregator

LEMMA IncludeSignatureFields ==
  ASSUME TypeOK, NEW z \in made, include_partial_signature(z)
  PROVE  /\ aggregator' \in Aggregator
         /\ aggregator.status = "initial" /\ aggregator'.status = "initial"
         /\ aggregator'.message = aggregator.message
         /\ aggregator'.signers = aggregator.signers
         /\ aggregator'.public_keys = aggregator.public_keys
         /\ aggregator'.partial_signatures =
              {y \in aggregator.partial_signatures : y.index # z.index} \cup {z}
  BY DEF include_partial_signature, TypeOK, Aggregator

LEMMA FinalizeFields ==
  ASSUME TypeOK, finalize
  PROVE  /\ aggregator' \in Aggregator
         /\ aggregator.status = "initial"
         /\ aggregator'.message = aggregator.message
         /\ aggregator'.signers = aggregator.signers
         /\ aggregator'.public_keys = aggregator.public_keys
         /\ aggregator'.partial_signatures = aggregator.partial_signatures
         /\ \/ aggregator'.status = "refused"
            \/ /\ aggregator'.status = "finalized"
               /\ indices(aggregator.signers) \subseteq aggregator.public_keys
               /\ indices(aggregator.signers) \subseteq
                    {z.index : z \in aggregator.partial_signatures}
  <1> DEFINE missing == remaining_signers(aggregator) \cup keyless_signers(aggregator)
  <1>1. missing \subseteq Holders
    BY DEF remaining_signers, keyless_signers, indices
  <1>2. missing = {} =>
          /\ indices(aggregator.signers) \subseteq aggregator.public_keys
          /\ indices(aggregator.signers) \subseteq
               {z.index : z \in aggregator.partial_signatures}
    BY DEF remaining_signers, keyless_signers
  <1>3. missing \cup (IF remaining_signers(aggregator) # {} THEN {0} ELSE {})
          \subseteq Holders \cup {0}
    BY <1>1
  <1> HIDE DEF missing
  <1>4. CASE /\ missing # {}
             /\ aggregator' = [aggregator EXCEPT
                  !.status = "refused",
                  !.misbehaving =
                    missing \cup (IF remaining_signers(aggregator) # {} THEN {0} ELSE {})]
    BY <1>3, <1>4, finalize DEF finalize, TypeOK, Aggregator
  <1>5. CASE missing = {} /\ aggregator' = [aggregator EXCEPT !.status = "finalized"]
    BY <1>2, <1>5, finalize DEF finalize, TypeOK, Aggregator
  <1>6. QED  BY <1>4, <1>5, finalize DEF finalize, missing

LEMMA AggregateFields ==
  ASSUME TypeOK, aggregate
  PROVE  /\ aggregator' \in Aggregator
         /\ aggregator.status = "finalized"
         /\ aggregator'.message = aggregator.message
         /\ aggregator'.signers = aggregator.signers
         /\ aggregator'.public_keys = aggregator.public_keys
         /\ aggregator'.partial_signatures = aggregator.partial_signatures
         /\ \/ aggregator'.status = "signed"
            \/ /\ aggregator'.status = "failed"
               /\ aggregator'.misbehaving = malformed(aggregator)
  <1>1. malformed(aggregator) \subseteq Holders \cup {0}
    BY DEF malformed, indices
  <1>2. QED  BY <1>1 DEF aggregate, TypeOK, Aggregator

LEMMA NewFields ==
  ASSUME NEW m \in 0..MaxMessage
  PROVE  new(m) \in Aggregator /\ indices(new(m).signers) = {} /\ new(m).message = m
         /\ new(m).status = "initial" /\ new(m).public_keys = {}
         /\ new(m).partial_signatures = {} /\ new(m).signers = NoSigners
  BY SigningAssumption DEF new, Aggregator, Signers, NoSigners, indices

\* What signing adds, and takes from the signer's list.
LEMMA SignFields ==
  ASSUME TypeOK, NEW i \in Holders, NEW x \in 1..Nonces, sign(i, x)
  PROVE  LET z == [index |-> i, nonce |-> commitments[i][x],
                   message |-> aggregator.message, signers |-> aggregator.signers] IN
         /\ x \in 1..Len(commitments[i])
         /\ z.nonce = aggregator.signers[i] /\ z.nonce \in 1..Nonces
         /\ made' = made \cup {z}
         /\ faulty' = faulty /\ aggregator' = aggregator
         /\ ~Copied => commitments' = [commitments EXCEPT ![i] = drop_share(commitments[i], x)]
         /\ Copied => commitments' = commitments
  <1>1. x \in 1..Len(commitments[i])  BY DEF sign
  <1>2. commitments[i][x] \in 1..Nonces
    BY <1>1, ElementOfSeq DEF TypeOK
  <1>3. QED  BY <1>1, <1>2 DEF sign

\* Every step preserves the types: no operation leaves the typestate, and no list of
\* nonces holds anything but nonces.
THEOREM TypeCorrect == Spec => []TypeOK
  <1>1. Init => TypeOK
    <2> SUFFICES ASSUME Init PROVE TypeOK
      OBVIOUS
    <2>1. generate_commitment_share_lists \in Seq(1..Nonces)
      BY SigningAssumption DEF generate_commitment_share_lists
    <2>2. new(0) \in Aggregator  BY SigningAssumption, NewFields
    <2>3. QED  BY <2>1, <2>2 DEF Init, TypeOK
  <1>2. TypeOK /\ [Next]_vars => TypeOK'
    <2> SUFFICES ASSUME TypeOK, [Next]_vars PROVE TypeOK'
      OBVIOUS
    <2>1. CASE next_message
      <3>1. aggregator.message + 1 \in 0..MaxMessage
        BY <2>1, SigningAssumption DEF next_message, TypeOK, Aggregator
      <3>2. QED  BY <2>1, <3>1, NewFields DEF next_message, TypeOK
    <2>2. ASSUME NEW i \in Holders, NEW k \in 1..Nonces, include_signer(i, k) PROVE TypeOK'
      BY <2>2, IncludeFields DEF include_signer, TypeOK
    <2>3. ASSUME NEW i \in Holders, NEW x \in 1..Nonces, sign(i, x) PROVE TypeOK'
      <3>1. drop_share(commitments[i], x) \in Seq(1..Nonces)
        BY <2>3, SignFields, DropShare DEF TypeOK
      <3>2. commitments' \in [Holders -> Seq(1..Nonces)]
        BY <2>3, <3>1, SignFields DEF TypeOK
      <3>3. [index |-> i, nonce |-> commitments[i][x], message |-> aggregator.message,
             signers |-> aggregator.signers] \in PartialSignature
        BY <2>3, SignFields DEF TypeOK, Aggregator, PartialSignature
      <3>4. faulty' = faulty /\ aggregator' = aggregator
        BY <2>3, SignFields
      <3>5. made' \subseteq PartialSignature  BY <2>3, <3>3, SignFields DEF TypeOK
      <3>6. QED  BY <3>2, <3>4, <3>5 DEF TypeOK
    <2>4. ASSUME NEW i \in Holders, false_signature(i) PROVE TypeOK'
      <3>1. [index |-> i, nonce |-> 0, message |-> 0, signers |-> NoSigners]
              \in PartialSignature
        BY SigningAssumption DEF PartialSignature, NoSigners, Signers
      <3>2. QED  BY <2>4, <3>1 DEF false_signature, TypeOK
    <2>5. ASSUME NEW z \in made, include_partial_signature(z) PROVE TypeOK'
      BY <2>5, IncludeSignatureFields DEF include_partial_signature, TypeOK
    <2>6. CASE finalize  BY <2>6, FinalizeFields DEF finalize, TypeOK
    <2>7. CASE aggregate  BY <2>7, AggregateFields DEF aggregate, TypeOK
    <2>8. CASE UNCHANGED vars  BY <2>8 DEF vars, TypeOK
    <2>9. QED  BY <2>1, <2>2, <2>3, <2>4, <2>5, <2>6, <2>7, <2>8 DEF Next
  <1>3. QED  BY <1>1, <1>2, PTL DEF Spec

(***************************************************************************)
(* A nonce signs once: the lists hold every nonce once, and none that a    *)
(* partial signature was made with.  What is false has no nonce.           *)
(***************************************************************************)
ListsDistinct ==
  \A i \in Holders : \A x, y \in 1..Len(commitments[i]) :
    commitments[i][x] = commitments[i][y] => x = y
ListsUnused ==
  \A z \in made : \A x \in 1..Len(commitments[z.index]) : commitments[z.index][x] # z.nonce
FalseAlike ==
  \A z \in made : z.nonce = 0 =>
    z = [index |-> z.index, nonce |-> 0, message |-> 0, signers |-> NoSigners]

NonceInv == ListsDistinct /\ ListsUnused /\ FalseAlike /\ NonceOnce

\* No nonce is used twice if sign() is given the list itself and no copy of it.
THEOREM NonceOnceCorrect ==
  ASSUME ~Copied
  PROVE  Spec => []NonceOnce
  <1>1. Init => NonceInv
    <2> SUFFICES ASSUME Init PROVE NonceInv
      OBVIOUS
    <2>1. ListsDistinct
      BY SigningAssumption DEF Init, ListsDistinct, generate_commitment_share_lists
    <2>2. QED  BY <2>1 DEF Init, NonceInv, ListsUnused, FalseAlike, NonceOnce
  <1>2. TypeOK /\ TypeOK' /\ NonceInv /\ [Next]_vars => NonceInv'
    <2> SUFFICES ASSUME TypeOK, NonceInv, [Next]_vars PROVE NonceInv'
      OBVIOUS
    <2>1. ASSUME NEW i \in Holders, NEW x \in 1..Nonces, sign(i, x) PROVE NonceInv'
      <3> DEFINE z == [index |-> i, nonce |-> commitments[i][x],
                       message |-> aggregator.message, signers |-> aggregator.signers]
                 list == commitments[i]
                 rest == drop_share(list, x)
      <3>1. x \in 1..Len(list) /\ list[x] \in 1..Nonces /\ made' = made \cup {z}
        BY <2>1, SignFields
      <3>2. list \in Seq(1..Nonces)  BY DEF TypeOK
      <3>3. Len(list) \in Nat  BY <3>2, LenProperties
      <3>4. /\ Len(rest) = Len(list) - 1
            /\ \A j \in 1..(Len(list) - 1) : rest[j] = IF j < x THEN list[j] ELSE list[j + 1]
        BY <3>1, <3>2, DropShare
      <3>5. commitments' = [commitments EXCEPT ![i] = rest]  BY <2>1, SignFields
      <3>6. /\ commitments'[i] = rest
            /\ \A j \in Holders \ {i} : commitments'[j] = commitments[j]
        BY <3>5 DEF TypeOK
      <3>7. \A a, b \in 1..Len(list) : list[a] = list[b] => a = b
        BY DEF NonceInv, ListsDistinct
      <3>8. \A y \in made : y.index = i => \A a \in 1..Len(list) : list[a] # y.nonce
        BY DEF NonceInv, ListsUnused
      <3>9. z.index = i /\ z.nonce = list[x] /\ z.nonce # 0  BY <3>1
      <3> HIDE DEF list, rest, z
      <3>10. \A a \in 1..Len(rest) : \E b \in 1..Len(list) :
               b # x /\ rest[a] = list[b] /\ b = IF a < x THEN a ELSE a + 1
        BY <3>1, <3>3, <3>4
      <3>11. ListsDistinct'
        <4> SUFFICES ASSUME NEW j \in Holders, NEW a \in 1..Len(commitments'[j]),
                            NEW b \in 1..Len(commitments'[j]),
                            commitments'[j][a] = commitments'[j][b]
                     PROVE  a = b
          BY DEF ListsDistinct
        <4>1. CASE j = i
          <5>1. a \in 1..Len(rest) /\ b \in 1..Len(rest) /\ rest[a] = rest[b]
            BY <3>6, <4>1
          <5>2. PICK c \in 1..Len(list) : rest[a] = list[c] /\ c = IF a < x THEN a ELSE a + 1
            BY <3>10, <5>1
          <5>3. PICK d \in 1..Len(list) : rest[b] = list[d] /\ d = IF b < x THEN b ELSE b + 1
            BY <3>10, <5>1
          <5>4. c = d  BY <3>7, <5>1, <5>2, <5>3
          <5>5. QED  BY <3>1, <3>3, <3>4, <5>1, <5>2, <5>3, <5>4
        <4>2. CASE j # i  BY <3>6, <4>2 DEF NonceInv, ListsDistinct
        <4>3. QED  BY <4>1, <4>2
      <3>12. ListsUnused'
        <4> SUFFICES ASSUME NEW y \in made', NEW a \in 1..Len(commitments'[y.index])
                     PROVE  commitments'[y.index][a] # y.nonce
          BY DEF ListsUnused
        <4>1. CASE y.index = i
          <5>1. a \in 1..Len(rest) /\ commitments'[y.index][a] = rest[a]  BY <3>6, <4>1
          <5>2. PICK b \in 1..Len(list) : b # x /\ rest[a] = list[b]  BY <3>10, <5>1
          <5>3. CASE y = z  BY <3>1, <3>7, <3>9, <5>1, <5>2, <5>3
          <5>4. CASE y \in made  BY <3>8, <4>1, <5>1, <5>2, <5>4
          <5>5. QED  BY <3>1, <5>3, <5>4
        <4>2. CASE y.index # i
          <5>1. y \in made /\ y.index \in Holders
            BY <3>1, <3>9, <4>2 DEF TypeOK, PartialSignature
          <5>2. QED  BY <3>6, <4>2, <5>1 DEF NonceInv, ListsUnused
        <4>3. QED  BY <4>1, <4>2
      <3>13. FalseAlike'  BY <3>1, <3>9 DEF NonceInv, FalseAlike
      <3>14. NonceOnce'  BY <3>1, <3>8, <3>9 DEF NonceInv, NonceOnce
      <3>15. QED  BY <3>11, <3>12, <3>13, <3>14 DEF NonceInv
    <2>2. ASSUME NEW i \in Holders, false_signature(i) PROVE NonceInv'
      <3> DEFINE z == [index |-> i, nonce |-> 0, message |-> 0, signers |-> NoSigners]
      <3>1. made' = made \cup {z} /\ commitments' = commitments
        BY <2>2 DEF false_signature
      <3>2. FalseAlike'  BY <3>1 DEF NonceInv, FalseAlike
      <3>3. NonceOnce'  BY <3>1 DEF NonceInv, NonceOnce, FalseAlike
      <3>4. ASSUME NEW x \in 1..Len(commitments[i]) PROVE commitments[i][x] # 0
        <4>1. commitments[i] \in Seq(1..Nonces)  BY DEF TypeOK
        <4>2. commitments[i][x] \in 1..Nonces  BY <4>1, ElementOfSeq
        <4>3. QED  BY <4>2
      <3>5. ListsUnused'  BY <3>1, <3>4 DEF NonceInv, ListsUnused
      <3>6. QED  BY <3>1, <3>2, <3>3, <3>5 DEF NonceInv, ListsDistinct
    <2>3. CASE UNCHANGED <<commitments, made>>
      BY <2>3 DEF NonceInv, ListsDistinct, ListsUnused, FalseAlike, NonceOnce
    <2>4. QED
      BY <2>1, <2>2, <2>3
      DEF Next, vars, next_message, include_signer, include_partial_signature, finalize,
          aggregate
  <1>3. NonceInv => NonceOnce  BY DEF NonceInv
  <1>4. QED  BY <1>1, <1>2, <1>3, TypeCorrect, PTL DEF Spec

(***************************************************************************)
(* A signer one too many: public keys are stored while the signers are few *)
(* enough, and finalize() asks for all of them.                            *)
(***************************************************************************)
KeysInv ==
  /\ aggregator.public_keys \subseteq indices(aggregator.signers)
  /\ Cardinality(aggregator.public_keys) <= N
  /\ Finalized => indices(aggregator.signers) \subseteq aggregator.public_keys

\* A finalized aggregator has no more signers than its parameters allow for.
THEOREM FinalizedInBoundsCorrect == Spec => []FinalizedInBounds
  <1>1. Init => KeysInv
    BY SigningAssumption, NewFields, FS_EmptySet DEF Init, KeysInv, Finalized
  <1>2. TypeOK /\ KeysInv /\ [Next]_vars => KeysInv'
    <2> SUFFICES ASSUME TypeOK, KeysInv, [Next]_vars PROVE KeysInv'
      OBVIOUS
    <2>1. CASE next_message
      <3>1. aggregator.message + 1 \in 0..MaxMessage
        BY <2>1, SigningAssumption DEF next_message, TypeOK, Aggregator
      <3>2. QED
        BY <2>1, <3>1, NewFields, FS_EmptySet, SigningAssumption
        DEF next_message, KeysInv, Finalized
    <2>2. ASSUME NEW i \in Holders, NEW k \in 1..Nonces, include_signer(i, k) PROVE KeysInv'
      <3> DEFINE s == with_signer(aggregator.signers, i, k)
      <3>1. indices(s) = indices(aggregator.signers) \cup {i}
        BY SignersType DEF TypeOK, Aggregator
      <3>2. /\ aggregator'.status = "initial" /\ aggregator'.signers = s
            /\ aggregator'.public_keys = IF Cardinality(indices(s)) > N
                                          THEN aggregator.public_keys
                                          ELSE aggregator.public_keys \cup {i}
        BY <2>2, IncludeFields
      <3> HIDE DEF s
      <3>3. aggregator'.public_keys \subseteq indices(s)  BY <3>1, <3>2 DEF KeysInv
      <3>4. Cardinality(aggregator'.public_keys) <= N
        <4>1. CASE Cardinality(indices(s)) > N  BY <3>2, <4>1 DEF KeysInv
        <4>2. CASE ~(Cardinality(indices(s)) > N)
          <5>1. Cardinality(aggregator'.public_keys) <= Cardinality(indices(s))
            BY <3>3, IndicesFinite, FS_Subset
          <5>2. /\ Cardinality(indices(s)) \in Nat
                /\ Cardinality(aggregator'.public_keys) \in Nat
            BY <3>3, IndicesFinite, FS_Subset, FS_CardinalityType
          <5>3. QED  BY <4>2, <5>1, <5>2, SigningAssumption
        <4>3. QED  BY <4>1, <4>2
      <3>5. QED  BY <3>2, <3>3, <3>4 DEF KeysInv, Finalized
    <2>3. ASSUME NEW z \in made, include_partial_signature(z) PROVE KeysInv'
      BY <2>3, IncludeSignatureFields DEF KeysInv, Finalized
    <2>4. CASE finalize  BY <2>4, FinalizeFields DEF KeysInv, Finalized
    <2>5. CASE aggregate  BY <2>5, AggregateFields DEF KeysInv, Finalized
    <2>6. CASE UNCHANGED aggregator  BY <2>6 DEF KeysInv, Finalized
    <2>7. QED
      BY <2>1, <2>2, <2>3, <2>4, <2>5, <2>6 DEF Next, vars, sign, false_signature
  <1>3. KeysInv => FinalizedInBounds
    <2> SUFFICES ASSUME KeysInv, Finalized
                 PROVE  Cardinality(indices(aggregator.signers)) <= N
      BY DEF FinalizedInBounds, Finalized
    <2>1. aggregator.public_keys = indices(aggregator.signers)  BY DEF KeysInv
    <2>2. QED  BY <2>1 DEF KeysInv
  <1>4. QED  BY <1>1, <1>2, <1>3, TypeCorrect, PTL DEF Spec

(***************************************************************************)
(* Who is named: within a message a commitment that is included stays, so  *)
(* that a signature over the same signers is one over the same commitments.*)
(***************************************************************************)
MadeInv(z) ==
  /\ z.message <= aggregator.message
  /\ z.index \in faulty \/ z.nonce = z.signers[z.index]
  /\ z.message = aggregator.message =>
       \A j \in Holders : z.signers[j] # 0 => z.signers[j] = aggregator.signers[j]

NamedInv ==
  /\ \A z \in made : MadeInv(z)
  /\ aggregator.partial_signatures \subseteq made
  /\ Finalized => indices(aggregator.signers) \subseteq
                     {z.index : z \in aggregator.partial_signatures}
  /\ aggregator.status = "failed" => aggregator.misbehaving = malformed(aggregator)

\* aggregate() names no signer that did its part among the signers there are.
THEOREM HonestNotNamedCorrect == Spec => []HonestNotNamed
  <1>1. Init => NamedInv
    BY SigningAssumption, NewFields DEF Init, NamedInv, Finalized
  <1>2. TypeOK /\ NamedInv /\ [Next]_vars => NamedInv'
    <2> SUFFICES ASSUME TypeOK, NamedInv, [Next]_vars PROVE NamedInv'
      OBVIOUS
    <2>1. CASE next_message
      <3>1. aggregator.message \in Nat /\ aggregator.message + 1 \in 0..MaxMessage
        BY <2>1, SigningAssumption DEF next_message, TypeOK, Aggregator
      <3>2. /\ aggregator'.message = aggregator.message + 1
            /\ aggregator'.status = "initial" /\ aggregator'.partial_signatures = {}
        BY <2>1, <3>1, NewFields DEF next_message
      <3>3. ASSUME NEW z \in made PROVE MadeInv(z)'
        <4>1. MadeInv(z) /\ z.message \in Nat
          BY DEF NamedInv, TypeOK, PartialSignature
        <4>2. QED  BY <2>1, <3>1, <3>2, <4>1 DEF MadeInv, next_message
      <3>4. QED  BY <2>1, <3>2, <3>3 DEF NamedInv, Finalized, next_message
    <2>2. ASSUME NEW i \in Holders, NEW k \in 1..Nonces, include_signer(i, k) PROVE NamedInv'
      <3>1. \A j \in Holders : aggregator.signers[j] # 0 =>
              aggregator'.signers[j] = aggregator.signers[j]
        <4>1. aggregator.signers \in Signers  BY DEF TypeOK, Aggregator
        <4>2. aggregator'.signers = with_signer(aggregator.signers, i, k)
          BY <2>2, IncludeFields
        <4>3. QED  BY <4>1, <4>2, SignersType
      <3>2. /\ aggregator'.message = aggregator.message /\ aggregator'.status = "initial"
            /\ aggregator'.partial_signatures = aggregator.partial_signatures
            /\ made' = made /\ faulty' = faulty
        BY <2>2, IncludeFields DEF include_signer
      <3>3. ASSUME NEW z \in made PROVE MadeInv(z)'
        BY <3>1, <3>2 DEF MadeInv, NamedInv
      <3>4. QED  BY <3>2, <3>3 DEF NamedInv, Finalized
    <2>3. ASSUME NEW i \in Holders, NEW x \in 1..Nonces, sign(i, x) PROVE NamedInv'
      <3> DEFINE z == [index |-> i, nonce |-> commitments[i][x],
                       message |-> aggregator.message, signers |-> aggregator.signers]
      <3>1. /\ made' = made \cup {z} /\ z.nonce = aggregator.signers[i]
            /\ faulty' = faulty /\ aggregator' = aggregator
        BY <2>3, SignFields
      <3>2. MadeInv(z)  BY <3>1 DEF MadeInv, TypeOK, Aggregator
      <3>3. \A y \in made' : MadeInv(y)'  BY <3>1, <3>2 DEF MadeInv, NamedInv
      <3>4. QED  BY <3>1, <3>3 DEF NamedInv, Finalized, malformed, indices
    <2>4. ASSUME NEW i \in Holders, false_signature(i) PROVE NamedInv'
      <3> DEFINE z == [index |-> i, nonce |-> 0, message |-> 0, signers |-> NoSigners]
      <3>1. /\ made' = made \cup {z} /\ i \in faulty
            /\ faulty' = faulty /\ aggregator' = aggregator
        BY <2>4 DEF false_signature
      <3>2. MadeInv(z)  BY <3>1 DEF MadeInv, TypeOK, Aggregator, NoSigners
      <3>3. \A y \in made' : MadeInv(y)'  BY <3>1, <3>2 DEF MadeInv, NamedInv
      <3>4. QED  BY <3>1, <3>3 DEF NamedInv, Finalized, malformed, indices
    <2>5. ASSUME NEW z \in made, include_partial_signature(z) PROVE NamedInv'
      <3>1. /\ aggregator'.message = aggregator.message /\ aggregator'.status = "initial"
            /\ aggregator'.signers = aggregator.signers
            /\ aggregator'.partial_signatures \subseteq made
            /\ made' = made /\ faulty' = faulty
        BY <2>5, IncludeSignatureFields DEF include_partial_signature, NamedInv
      <3>2. QED  BY <3>1 DEF NamedInv, MadeInv, Finalized
    <2>6. CASE finalize
      BY <2>6, FinalizeFields DEF NamedInv, MadeInv, Finalized, finalize
    <2>7. CASE aggregate
      <3>1. malformed(aggregator') = malformed(aggregator)
        BY <2>7, AggregateFields DEF malformed
      <3>2. QED
        BY <2>7, <3>1, AggregateFields DEF NamedInv, MadeInv, Finalized, aggregate
    <2>8. CASE UNCHANGED vars
      BY <2>8 DEF vars, NamedInv, MadeInv, Finalized, malformed, indices
    <2>9. QED  BY <2>1, <2>2, <2>3, <2>4, <2>5, <2>6, <2>7, <2>8 DEF Next
  <1>3. TypeOK /\ NamedInv => HonestNotNamed
    <2> SUFFICES ASSUME TypeOK, NamedInv, aggregator.status = "failed",
                        NEW i \in aggregator.misbehaving \ faulty
                 PROVE  \E z \in aggregator.partial_signatures :
                          /\ z.index = i
                          /\ \/ z.message # aggregator.message
                             \/ indices(z.signers) # indices(aggregator.signers)
      BY DEF HonestNotNamed
    <2>1. i \in malformed(aggregator)  BY DEF NamedInv
    <2>2. i \in indices(aggregator.signers)  BY <2>1 DEF malformed
    <2>3. PICK z \in aggregator.partial_signatures : z.index = i
      BY <2>2 DEF NamedInv, Finalized
    <2>4. z \in made /\ MadeInv(z)  BY <2>3 DEF NamedInv
    <2>5. z \in PartialSignature  BY <2>4 DEF TypeOK
    <2>6. ASSUME z.message = aggregator.message,
                 indices(z.signers) = indices(aggregator.signers)
          PROVE  FALSE
      <3>1. \A j \in Holders : z.signers[j] = aggregator.signers[j]
        BY <2>4, <2>6 DEF MadeInv, indices
      <3>2. z.signers = aggregator.signers
        BY <2>5, <3>1 DEF PartialSignature, Signers, TypeOK, Aggregator
      <3>3. z = [index |-> i, nonce |-> aggregator.signers[i],
                 message |-> aggregator.message, signers |-> aggregator.signers]
        BY <2>3, <2>4, <2>5, <2>6, <3>2 DEF PartialSignature, MadeInv
      <3>4. QED  BY <2>1, <2>3, <3>3 DEF malformed
    <2>7. QED  BY <2>3, <2>6
  <1>4. QED  BY <1>1, <1>2, <1>3, TypeCorrect, PTL DEF Spec
=============================================================================
