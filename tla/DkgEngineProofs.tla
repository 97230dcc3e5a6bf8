-------------------------- MODULE DkgEngineProofs --------------------------
(***************************************************************************)
(* Theorems about DkgEngine for any number of provers.                     *)
(***************************************************************************)
EXTENDS DkgEngine, FiniteSetTheorems, TLAPS

\* The messages of a session in which everybody draws one dealer.
First == [q \in Provers |-> 1]
Elected == [type |-> "ElectedProvers", from |-> Relay, gen |-> 1]
Output(q) == [type |-> "InitRoundOutput", from |-> q, gen |-> 1]
Deal(q) == [type |-> "GossipShare", from |-> q, gen |-> 1, to |-> First]
FirstShare(q) == [from |-> q, gen |-> 1, to |-> 1]
FirstKey == [group |-> First, signing |-> Provers]

(***************************************************************************)
(* The inductive invariant.  It says what a session looks like in which    *)
(* nothing happens twice: every dealer is its prover's first, an engine's  *)
(* lists hold exactly what has been handed to it, so that their lengths    *)
(* count provers, and nobody deals before everybody is initialised.        *)
(***************************************************************************)
SentOnce ==
  \A m \in sent :
    \/ m = Elected /\ announced = 1
    \/ \E q \in Provers : m = Output(q) /\ engine[q].status = "active"
    \/ \E q \in Provers : m = Deal(q) /\ \A p \in Provers : engine[p].status = "active"
    \/ m.type = "GossipVerificationShares"

HeardOnce(p, e) ==
  /\ e.gen = 1 /\ Elected \in got[p]
  /\ e.other_participants \in [Provers -> {0, 1}]
  /\ e.other_participants[p] = 1
  /\ \A q \in Provers : e.other_participants[q] = 1 => q = p \/ Output(q) \in got[p]
  /\ e.heard = Cardinality({q \in Provers : e.other_participants[q] = 1})

SharesOnce(p, e) ==
  /\ \A s \in e.my_encrypted_shares : \E q \in Provers :
        s = FirstShare(q) /\ (q = p \/ Deal(q) \in got[p])
  /\ e.shares = Cardinality({q \in Provers : FirstShare(q) \in e.my_encrypted_shares})

RoundOnce(p, e) ==
  \/ /\ e.my_state = NoRound /\ key_shares[p] = NoKey
     /\ FirstShare(p) \notin e.my_encrypted_shares
  \/ /\ e.my_state = First /\ key_shares[p] = NoKey
     /\ FirstShare(p) \in e.my_encrypted_shares
     /\ e.other_participants = First
  \/ /\ e.my_state = NoRound /\ key_shares[p] = FirstKey
     /\ FirstShare(p) \in e.my_encrypted_shares
     /\ e.other_participants = First
     /\ \A q \in Provers : FirstShare(q) \in e.my_encrypted_shares

EngineOnce(p) ==
  \/ engine[p] = dkg_none /\ key_shares[p] = NoKey
  \/ /\ engine[p].status = "active"
     /\ HeardOnce(p, engine[p]) /\ SharesOnce(p, engine[p]) /\ RoundOnce(p, engine[p])

Once ==
  /\ SentOnce
  /\ \A p \in Provers : EngineOnce(p)
  /\ NoShareMissed

OnceInv == ExactlyOnce => Once

-----------------------------------------------------------------------------
(***************************************************************************)
(* Type correctness.                                                       *)
(***************************************************************************)
\* An engine with one more share in its list, and perhaps a new round, is an engine.
LEMMA PutShareType ==
  ASSUME NEW e \in DKGEngineState, NEW s \in Share, NEW r \in Dealers
  PROVE  /\ [e EXCEPT !.my_encrypted_shares = @ \cup {s}, !.shares = @ + 1]
              \in DKGEngineState
         /\ [e EXCEPT !.my_state = r, !.my_encrypted_shares = @ \cup {s}, !.shares = @ + 1]
              \in DKGEngineState
  <1>1. e.my_encrypted_shares \cup {s} \in SUBSET Share /\ e.shares + 1 \in Nat
    BY DEF DKGEngineState
  <1>2. QED  BY <1>1 DEF DKGEngineState

\* handle_init_round_output's push keeps the engine's type.
LEMMA PushParticipantType ==
  ASSUME NEW e \in DKGEngineState, NEW m, m.from \in Provers, m.gen \in Gen
  PROVE  push_participant(e, m) \in DKGEngineState
  <1>1. [e.other_participants EXCEPT ![m.from] = m.gen] \in Dealers /\ e.heard + 1 \in Nat
    BY DEF DKGEngineState, Dealers
  <1>2. push_participant(e, m) = [e EXCEPT
          !.other_participants = [e.other_participants EXCEPT ![m.from] = m.gen],
          !.heard = e.heard + 1]
    BY DEF push_participant, DKGEngineState
  <1>3. QED  BY <1>1, <1>2 DEF DKGEngineState

\* The library's bootstrap keeps the engine's type.
LEMMA BootstrapType ==
  ASSUME NEW p \in Provers, NEW e \in DKGEngineState
  PROVE  bootstrap(p, e) \in DKGEngineState
  <1>1. [from |-> p, gen |-> e.gen, to |-> e.other_participants[p]] \in Share
    BY DEF Share, DKGEngineState, Dealers, Gen
  <1>2. e.other_participants \in Dealers  BY DEF DKGEngineState
  <1>3. QED  BY <1>1, <1>2, PutShareType DEF bootstrap

\* store_shares' push keeps the engine's type.
LEMMA PushShareType ==
  ASSUME NEW p \in Provers, NEW e \in DKGEngineState,
         NEW m, m.from \in Provers, m.gen \in Gen, m.to \in Dealers
  PROVE  push_share(p, e, m) \in DKGEngineState
  <1>1. [from |-> m.from, gen |-> m.gen, to |-> m.to[p]] \in Share
    BY DEF Share, Dealers, Gen
  <1>2. e.my_state \in Dealers  BY DEF DKGEngineState
  <1>3. QED  BY <1>1, <1>2, PutShareType DEF push_share

\* Every step preserves the type invariant: engines, key pairs and messages keep the
\* shapes DKGEngineState, KeyShare and Message, whatever is handed over and when.
THEOREM TypeCorrect == Spec => []TypeOK
  <1>1. Init => TypeOK
    <2>1. Nobody \in Dealers  BY DEF Nobody, Dealers, Gen
    <2>2. dkg_none \in DKGEngineState
      BY <2>1 DEF dkg_none, DKGEngineState, NoRound, Gen
    <2>3. NoKey \in KeyShare  BY <2>1 DEF NoKey, KeyShare
    <2>4. QED  BY <2>2, <2>3, BoundsAssumption DEF Init, TypeOK
  <1>2. TypeOK /\ [Next]_vars => TypeOK'
    <2> SUFFICES ASSUME TypeOK, [Next]_vars PROVE TypeOK'
      OBVIOUS
    <2>1. CASE handle_trigger_election
      <3>1. announced' \in 0..MaxAnnounce
        BY <2>1, BoundsAssumption DEF handle_trigger_election, TypeOK
      <3>2. [type |-> "ElectedProvers", from |-> Relay, gen |-> announced'] \in Message
        BY <3>1, BoundsAssumption DEF Message, Gen
      <3>3. QED  BY <2>1, <3>1, <3>2 DEF handle_trigger_election, TypeOK
    <2>2. ASSUME NEW p \in Provers, NEW m \in sent, handle(p, m)
          PROVE  TypeOK'
      <3>1. /\ sent' \subseteq Message /\ sent \subseteq sent'
            /\ engine' \in [Provers -> DKGEngineState]
            /\ key_shares' \in [Provers -> KeyShare]
            /\ missed' \in [Provers -> SUBSET sent]
        <4>0. m \in Message /\ engine[p] \in DKGEngineState  BY DEF TypeOK
        <4>1. CASE Ignore(p, m) /\ ~(engine[p].status = "active")
          BY <4>1 DEF Ignore, TypeOK
        <4>2. CASE handle_init(p, m) /\ engine[p].status # "dead"
          <5> DEFINE g == engine[p].gen + 1
          <5> DEFINE e == [dkg_none EXCEPT !.status = "active", !.gen = g,
                                           !.other_participants[p] = g, !.heard = 1]
          <5>1. g \in Gen  BY <4>0 DEF DKGEngineState, Gen
          <5>2. e \in DKGEngineState
            BY <5>1 DEF dkg_none, DKGEngineState, NoRound, Nobody, Dealers, Gen
          <5>3. [type |-> "InitRoundOutput", from |-> p, gen |-> g] \in Message
            BY <5>1 DEF Message
          <5> HIDE DEF e, g
          <5>4. QED  BY <4>2, <5>2, <5>3 DEF handle_init, TypeOK, e, g
        <4>3. CASE handle_init_round_output(p, m) /\ engine[p].status = "active"
          <5> DEFINE e == push_participant(engine[p], m)
          <5>1. m.from \in Provers /\ m.gen \in Gen
            BY <4>0, <4>3 DEF handle_init_round_output, Message
          <5>2. e \in DKGEngineState
            BY <4>0, <5>1, PushParticipantType
          <5>3. bootstrap(p, e) \in DKGEngineState
            BY <5>2, BootstrapType
          <5>4. [type |-> "GossipShare", from |-> p, gen |-> e.gen,
                 to |-> e.other_participants] \in Message
            BY <5>2 DEF Message, DKGEngineState
          <5> HIDE DEF e
          <5>5. QED
            BY <4>3, <5>2, <5>3, <5>4 DEF handle_init_round_output, TypeOK, e, Ignore
        <4>4. CASE store_shares(p, m) /\ engine[p].status = "active"
          <5> DEFINE e == push_share(p, engine[p], m)
          <5>1. m.from \in Provers /\ m.gen \in Gen /\ m.to \in Dealers
            BY <4>0, <4>4 DEF store_shares, Message
          <5>2. e \in DKGEngineState  BY <4>0, <5>1, PushShareType
          <5> HIDE DEF e
          <5>3. finish(e) \in KeyShare
            BY <5>2 DEF finish, KeyShare, DKGEngineState, Share
          <5>4. [type |-> "GossipVerificationShares", from |-> p, gen |-> e.gen,
                 key |-> finish(e)] \in Message
            BY <5>2, <5>3 DEF Message, DKGEngineState
          <5>5. [e EXCEPT !.my_state = NoRound] \in DKGEngineState
            BY <5>2 DEF DKGEngineState, NoRound, Nobody, Dealers, Gen
          <5>6. [engine[p] EXCEPT !.status = "dead"] \in DKGEngineState
            BY <4>0 DEF DKGEngineState
          <5>7. QED
            BY <4>4, <5>2, <5>3, <5>4, <5>5, <5>6 DEF store_shares, TypeOK, e, Ignore
        <4>5. QED
          BY <2>2, <4>1, <4>2, <4>3, <4>4
          DEF handle, handle_init, handle_init_round_output, store_shares, Ignore
      <3>2. /\ got' \in [Provers -> SUBSET sent]
            /\ redelivered' \in 0..MaxRedelivery
        <4>1. Deliver(p, m)
          BY <2>2 DEF handle, handle_init, handle_init_round_output, store_shares
        <4>2. QED  BY <4>1, BoundsAssumption DEF Deliver, TypeOK
      <3>3. announced' = announced
        BY <2>2 DEF handle, handle_init, handle_init_round_output, store_shares
      <3>4. QED  BY <3>1, <3>2, <3>3 DEF TypeOK
    <2>3. CASE UNCHANGED vars  BY <2>3 DEF vars, TypeOK
    <2>4. QED  BY <2>1, <2>2, <2>3 DEF Next
  <1>3. QED  BY <1>1, <1>2, PTL DEF Spec

-----------------------------------------------------------------------------
(***************************************************************************)
(* The session in which nothing happens twice.                             *)
(***************************************************************************)
\* What the lengths of the engine's lists count: a set of provers grows by one with a
\* new prover, and has total_nodes elements only when it is the set of them all.
LEMMA Counting ==
  ASSUME NEW S \in SUBSET Provers
  PROVE  /\ Cardinality(S) \in Nat
         /\ \A q \in Provers \ S : Cardinality(S \cup {q}) = Cardinality(S) + 1
         /\ Cardinality(S) = total_nodes <=> S = Provers
  <1>1. IsFiniteSet(S)  BY ProversAssumption, FS_Subset
  <1>2. Cardinality(S) \in Nat  BY <1>1, FS_CardinalityType
  <1>3. \A q \in Provers \ S : Cardinality(S \cup {q}) = Cardinality(S) + 1
    BY <1>1, FS_AddElement
  <1>4. Cardinality(S) = total_nodes => S = Provers
    BY ProversAssumption, FS_Subset DEF total_nodes
  <1>5. QED  BY <1>2, <1>3, <1>4 DEF total_nodes

\* The list of participants that handle_init starts with has one entry, p's own.
LEMMA CountingOne ==
  ASSUME NEW p \in Provers
  PROVE  Cardinality({p}) = 1
  BY FS_Singleton

\* What a handler does while nothing has happened twice: the message is new to p.
LEMMA HandledOnce ==
  ASSUME TypeOK, ExactlyOnce', NEW p \in Provers, NEW m \in sent, handle(p, m)
  PROVE  /\ ExactlyOnce
         /\ announced' = announced
         /\ m \notin got[p] /\ m.from # p
         /\ got' = [got EXCEPT ![p] = @ \cup {m}]
  <1>1. Deliver(p, m) /\ announced' = announced
    BY DEF handle, handle_init, handle_init_round_output, store_shares
  <1>2. redelivered \in Nat  BY BoundsAssumption DEF TypeOK
  <1>3. QED  BY <1>1, <1>2 DEF Deliver, ExactlyOnce

\* A message of the session is told by its type and its sender.
LEMMA MessageOnce ==
  ASSUME SentOnce, NEW m \in sent
  PROVE  /\ m.type = "ElectedProvers" => m = Elected
         /\ m.type = "InitRoundOutput" =>
              m.from \in Provers /\ m = Output(m.from) /\ engine[m.from].status = "active"
         /\ m.type = "GossipShare" =>
              /\ m.from \in Provers /\ m = Deal(m.from)
              /\ \A p \in Provers : engine[p].status = "active"
  BY DEF SentOnce, Elected, Output, Deal

\* Nothing of Once is disturbed for the provers whose engines stay as they are.
LEMMA OthersOnce ==
  ASSUME TypeOK, NEW p \in Provers, NEW m \in sent,
         got' = [got EXCEPT ![p] = @ \cup {m}],
         NEW q \in Provers, EngineOnce(q),
         engine'[q] = engine[q], key_shares'[q] = key_shares[q]
  PROVE  EngineOnce(q)'
  <1>1. got[q] \subseteq got'[q]  BY DEF TypeOK
  <1>2. CASE engine[q] = dkg_none /\ key_shares[q] = NoKey
    BY <1>2 DEF EngineOnce, dkg_none
  <1>3. CASE /\ engine[q].status = "active"
             /\ HeardOnce(q, engine[q]) /\ SharesOnce(q, engine[q]) /\ RoundOnce(q, engine[q])
    BY <1>1, <1>3 DEF EngineOnce, HeardOnce, SharesOnce, RoundOnce
  <1>4. QED  BY <1>2, <1>3 DEF EngineOnce

\* The invariant holds before any message is sent.
LEMMA InitOnce == Init => OnceInv
  <1> SUFFICES ASSUME Init PROVE Once
    BY DEF OnceInv
  <1>1. SentOnce /\ NoShareMissed  BY DEF Init, SentOnce, NoShareMissed
  <1>2. \A p \in Provers : EngineOnce(p)  BY DEF Init, EngineOnce
  <1>3. QED  BY <1>1, <1>2 DEF Once

\* The relay announces: the only announcement, since ExactlyOnce holds afterwards.
LEMMA AnnounceOnce ==
  ASSUME TypeOK, OnceInv, ExactlyOnce', handle_trigger_election
  PROVE  Once'
  <1>1. announced = 0 /\ announced' = 1 /\ ExactlyOnce
    BY BoundsAssumption DEF TypeOK, handle_trigger_election, ExactlyOnce
  <1>2. Once  BY <1>1 DEF OnceInv
  <1>3. sent' = sent \cup {Elected}
    BY <1>1 DEF handle_trigger_election, Elected
  <1>4. UNCHANGED <<engine, key_shares, got, missed>>
    BY DEF handle_trigger_election
  <1>5. SentOnce'  BY <1>1, <1>2, <1>3, <1>4 DEF Once, SentOnce
  <1>6. ASSUME NEW p \in Provers PROVE EngineOnce(p)'
    <2>1. EngineOnce(p)  BY <1>2 DEF Once
    <2>2. QED  BY <1>4, <2>1, SMTT(30) DEF EngineOnce, HeardOnce, SharesOnce, RoundOnce
  <1>7. NoShareMissed'  BY <1>2, <1>4 DEF Once, NoShareMissed
  <1>8. QED  BY <1>5, <1>6, <1>7 DEF Once

\* An engine ignores m: it is not initialised, so nobody can have dealt.
LEMMA IgnoreOnce ==
  ASSUME TypeOK, Once, ExactlyOnce', NEW p \in Provers, NEW m \in sent,
         handle(p, m), Ignore(p, m)
  PROVE  Once'
  <1>1. UNCHANGED <<engine, key_shares, sent>> /\ engine[p].status # "active"
    BY DEF Ignore
  <1>2. announced' = announced /\ got' = [got EXCEPT ![p] = @ \cup {m}]
    BY HandledOnce
  <1>3. SentOnce'  BY <1>1, <1>2 DEF Once, SentOnce
  <1>4. \A q \in Provers : EngineOnce(q)'  BY <1>1, <1>2, OthersOnce DEF Once
  <1>5. m.type # "GossipShare"  BY <1>1, MessageOnce DEF Once
  <1>6. NoShareMissed'  BY <1>5 DEF Once, NoShareMissed, Ignore, TypeOK
  <1>7. QED  BY <1>3, <1>4, <1>6 DEF Once

\* An engine is initialised: it was not before, and draws its first dealer.
LEMMA HandleInitOnce ==
  ASSUME TypeOK, Once, ExactlyOnce', NEW p \in Provers, NEW m \in sent,
         handle_init(p, m), engine[p].status # "dead"
  PROVE  Once'
  <1>1. /\ announced' = announced /\ m \notin got[p]
        /\ got' = [got EXCEPT ![p] = @ \cup {m}]
    BY HandledOnce DEF handle
  <1>2. m = Elected  BY MessageOnce DEF Once, handle_init
  <1>3. engine[p] = dkg_none /\ key_shares[p] = NoKey
    BY <1>1, <1>2 DEF Once, EngineOnce, HeardOnce
  <1> DEFINE e == engine'[p]
  <1>4. /\ e = [dkg_none EXCEPT !.status = "active", !.gen = 1,
                                 !.other_participants[p] = 1, !.heard = 1]
        /\ \A q \in Provers \ {p} : engine'[q] = engine[q]
        /\ sent' = sent \cup {Output(p)}
        /\ UNCHANGED <<key_shares, missed>>
    BY <1>3 DEF handle_init, Ignore, dkg_none, Output, TypeOK
  <1>5. /\ e.status = "active" /\ e.gen = 1 /\ e.heard = 1 /\ e.shares = 0
        /\ e.my_encrypted_shares = {} /\ e.my_state = NoRound
        /\ e.other_participants = [q \in Provers |-> IF q = p THEN 1 ELSE 0]
    BY <1>4 DEF dkg_none, Nobody
  <1> HIDE DEF e
  <1>6. SentOnce'
    <2>1. \A q \in Provers : engine[q].status = "active" => engine'[q].status = "active"
      BY <1>4, <1>5 DEF e
    <2>2. engine'[p].status = "active"  BY <1>5 DEF e
    <2>3. QED  BY <1>1, <1>4, <2>1, <2>2 DEF Once, SentOnce
  <1>7. HeardOnce(p, engine[p])'
    <2>1. {q \in Provers : e.other_participants[q] = 1} = {p}  BY <1>5
    <2>2. Elected \in got'[p]  BY <1>1, <1>2 DEF TypeOK
    <2>3. QED  BY <1>5, <2>1, <2>2, CountingOne DEF e, HeardOnce
  <1>8. SharesOnce(p, engine[p])'
    <2>1. {q \in Provers : FirstShare(q) \in e.my_encrypted_shares} = {}  BY <1>5
    <2>2. QED  BY <1>5, <2>1, FS_EmptySet DEF e, SharesOnce
  <1>9. RoundOnce(p, engine[p])'  BY <1>3, <1>4, <1>5 DEF e, RoundOnce
  <1>10. EngineOnce(p)'  BY <1>5, <1>7, <1>8, <1>9 DEF e, EngineOnce
  <1>11. \A q \in Provers \ {p} : EngineOnce(q)'
    BY <1>1, <1>4, OthersOnce DEF Once
  <1>12. NoShareMissed'  BY <1>4 DEF Once, NoShareMissed
  <1>13. QED  BY <1>6, <1>10, <1>11, <1>12 DEF Once

\* A participant is put in the list, which had not got it; with the last one everybody
\* is in it, and the engine deals.
LEMMA HandleInitRoundOutputOnce ==
  ASSUME TypeOK, Once, ExactlyOnce', NEW p \in Provers, NEW m \in sent,
         handle_init_round_output(p, m), engine[p].status = "active"
  PROVE  Once'
  <1> DEFINE old == engine[p]
  <1> DEFINE e == push_participant(old, m)
  <1> DEFINE H == {q \in Provers : old.other_participants[q] = 1}
  <1>1. /\ announced' = announced /\ m \notin got[p] /\ m.from # p
        /\ got' = [got EXCEPT ![p] = @ \cup {m}]
    BY HandledOnce DEF handle
  <1>2. m.from \in Provers /\ m = Output(m.from) /\ m.gen = 1
    BY MessageOnce DEF Once, handle_init_round_output, Output
  <1>3. HeardOnce(p, old) /\ SharesOnce(p, old) /\ RoundOnce(p, old)
    BY DEF Once, EngineOnce, dkg_none
  <1>4. old \in DKGEngineState  BY DEF TypeOK
  <1>5. old.other_participants[m.from] = 0  BY <1>1, <1>2, <1>3 DEF HeardOnce
  <1>6. /\ e.other_participants = [old.other_participants EXCEPT ![m.from] = 1]
        /\ e.heard = old.heard + 1
        /\ e.status = "active" /\ e.gen = 1
        /\ e.my_encrypted_shares = old.my_encrypted_shares /\ e.shares = old.shares
        /\ e.my_state = old.my_state
    BY <1>2, <1>3, <1>4 DEF push_participant, DKGEngineState, HeardOnce
  <1>7. {q \in Provers : e.other_participants[q] = 1} = H \cup {m.from}
    BY <1>2, <1>3, <1>6 DEF HeardOnce
  <1>8. e.heard = Cardinality(H \cup {m.from})
    BY <1>2, <1>3, <1>5, <1>6, Counting DEF HeardOnce
  <1>9. /\ Elected \in got'[p] /\ got[p] \subseteq got'[p] /\ m \in got'[p]
    BY <1>1, <1>3 DEF HeardOnce, TypeOK
  <1>10. /\ e.other_participants \in [Provers -> {0, 1}]
         /\ e.other_participants[p] = 1
         /\ \A q \in Provers : e.other_participants[q] = 1 => q = p \/ Output(q) \in got'[p]
    BY <1>1, <1>2, <1>3, <1>6, <1>9 DEF HeardOnce
  <1>11. /\ old.my_state = NoRound /\ key_shares[p] = NoKey
         /\ FirstShare(p) \notin old.my_encrypted_shares
    BY <1>2, <1>3, <1>5 DEF RoundOnce, First
  <1>12. UNCHANGED <<key_shares, missed>>
    BY DEF handle_init_round_output, Ignore
  <1>13. NoShareMissed'  BY <1>12 DEF Once, NoShareMissed
  <1> HIDE DEF e, old, H
  <1>14. CASE ~all_heard(e)
    <2>1. engine' = [engine EXCEPT ![p] = e] /\ UNCHANGED sent
      BY <1>14 DEF handle_init_round_output, Ignore, e, old
    <2>2. engine'[p] = e /\ \A q \in Provers \ {p} : engine'[q] = engine[q]
      BY <2>1 DEF TypeOK
    <2>3. SentOnce'
      <3>1. \A q \in Provers : engine[q].status = "active" => engine'[q].status = "active"
        BY <1>6, <2>2
      <3>2. QED  BY <1>1, <2>1, <3>1 DEF Once, SentOnce
    <2>4. HeardOnce(p, engine[p])'
      BY <1>6, <1>7, <1>8, <1>9, <1>10, <2>2 DEF HeardOnce
    <2>5. SharesOnce(p, engine[p])'  BY <1>3, <1>6, <1>9, <2>2 DEF SharesOnce
    <2>6. RoundOnce(p, engine[p])'  BY <1>6, <1>11, <1>12, <2>2 DEF RoundOnce
    <2>7. EngineOnce(p)'  BY <1>6, <2>2, <2>4, <2>5, <2>6 DEF EngineOnce
    <2>8. \A q \in Provers \ {p} : EngineOnce(q)'
      BY <1>1, <1>12, <2>2, OthersOnce DEF Once
    <2>9. QED  BY <1>13, <2>3, <2>7, <2>8 DEF Once
  <1>15. CASE all_heard(e)
    <2> DEFINE b == bootstrap(p, e)
    <2>1. H \cup {m.from} = Provers
      BY <1>2, <1>8, <1>15, Counting DEF all_heard, H
    <2>2. e.other_participants = First
      BY <1>7, <1>10, <2>1 DEF First
    <2>3. /\ engine' = [engine EXCEPT ![p] = b]
          /\ sent' = sent \cup {Deal(p)}
      BY <1>6, <1>15, <2>2 DEF handle_init_round_output, Ignore, e, old, Deal
    <2>4. engine'[p] = b /\ \A q \in Provers \ {p} : engine'[q] = engine[q]
      BY <2>3 DEF TypeOK
    <2>5. /\ b.status = "active" /\ b.gen = 1 /\ b.heard = e.heard
          /\ b.other_participants = First /\ b.my_state = First
          /\ b.my_encrypted_shares = e.my_encrypted_shares \cup {FirstShare(p)}
          /\ b.shares = e.shares + 1
      <3>1. e \in DKGEngineState
        BY <1>2, <1>4, PushParticipantType DEF e, Gen
      <3>2. First[p] = 1  BY DEF First
      <3>3. QED  BY <1>6, <2>2, <3>1, <3>2 DEF bootstrap, DKGEngineState, FirstShare
    <2> HIDE DEF b
    <2>6. SentOnce'
      <3>1. \A q \in Provers : engine[q].status = "active"
        <4> SUFFICES ASSUME NEW q \in Provers PROVE engine[q].status = "active"
          OBVIOUS
        <4>1. q = p \/ Output(q) \in sent
          BY <1>2, <1>10, <1>1, <2>2 DEF First, TypeOK
        <4>2. QED  BY <4>1, MessageOnce DEF Once, Output
      <3>2. \A q \in Provers : engine'[q].status = "active"  BY <2>4, <2>5, <3>1
      <3>3. QED  BY <1>1, <2>3, <3>2 DEF Once, SentOnce
    <2>7. HeardOnce(p, engine[p])'
      BY <1>7, <1>8, <1>9, <1>10, <2>2, <2>4, <2>5, SMTT(30) DEF HeardOnce
    <2>8. SharesOnce(p, engine[p])'
      <3> DEFINE S == {q \in Provers : FirstShare(q) \in old.my_encrypted_shares}
      <3>1. {q \in Provers : FirstShare(q) \in b.my_encrypted_shares} = S \cup {p}
        BY <1>6, <2>5 DEF FirstShare
      <3>2. b.shares = Cardinality(S \cup {p})
        BY <1>3, <1>6, <1>11, <2>5, Counting DEF SharesOnce
      <3>3. QED  BY <1>3, <1>6, <1>9, <2>4, <2>5, <3>1, <3>2 DEF SharesOnce
    <2>9. RoundOnce(p, engine[p])'  BY <1>11, <1>12, <2>4, <2>5 DEF RoundOnce
    <2>10. EngineOnce(p)'  BY <2>4, <2>5, <2>7, <2>8, <2>9 DEF EngineOnce
    <2>11. \A q \in Provers \ {p} : EngineOnce(q)'
      BY <1>1, <1>12, <2>4, OthersOnce DEF Once
    <2>12. QED  BY <1>13, <2>6, <2>10, <2>11 DEF Once
  <1>16. QED  BY <1>14, <1>15

\* A share is put in the list, which had not got it; with the last one the engine has a
\* round to pop, every share verifies, and the key pair is whole.
LEMMA StoreSharesOnce ==
  ASSUME TypeOK, Once, ExactlyOnce', NEW p \in Provers, NEW m \in sent,
         store_shares(p, m), engine[p].status = "active"
  PROVE  Once'
  <1> DEFINE old == engine[p]
  <1> DEFINE e == push_share(p, old, m)
  <1> DEFINE S == {q \in Provers : FirstShare(q) \in old.my_encrypted_shares}
  <1>1. /\ announced' = announced /\ m \notin got[p] /\ m.from # p
        /\ got' = [got EXCEPT ![p] = @ \cup {m}]
    BY HandledOnce DEF handle
  <1>2. /\ m.from \in Provers /\ m = Deal(m.from) /\ m.gen = 1 /\ m.to[p] = 1
        /\ m.to \in Dealers
    BY MessageOnce DEF Once, store_shares, Deal, First, Dealers, Gen
  <1>3. HeardOnce(p, old) /\ SharesOnce(p, old) /\ RoundOnce(p, old)
    BY DEF Once, EngineOnce, dkg_none
  <1>4. old \in DKGEngineState  BY DEF TypeOK
  <1>5. e \in DKGEngineState  BY <1>2, <1>4, PushShareType DEF Gen
  <1>6. FirstShare(m.from) \notin old.my_encrypted_shares
    BY <1>1, <1>2, <1>3 DEF SharesOnce, FirstShare
  <1>7. /\ e.my_encrypted_shares = old.my_encrypted_shares \cup {FirstShare(m.from)}
        /\ e.shares = old.shares + 1
        /\ e.status = "active" /\ e.gen = 1 /\ e.my_state = old.my_state
        /\ e.other_participants = old.other_participants /\ e.heard = old.heard
    BY <1>2, <1>3, <1>4 DEF push_share, DKGEngineState, FirstShare, HeardOnce
  <1>8. {q \in Provers : FirstShare(q) \in e.my_encrypted_shares} = S \cup {m.from}
    BY <1>2, <1>7 DEF FirstShare
  <1>9. e.shares = Cardinality(S \cup {m.from})
    BY <1>2, <1>3, <1>6, <1>7, Counting DEF SharesOnce
  <1>10. Elected \in got'[p] /\ got[p] \subseteq got'[p] /\ m \in got'[p]
    BY <1>1, <1>3 DEF HeardOnce, TypeOK
  <1>11. \A s \in e.my_encrypted_shares : \E q \in Provers :
           s = FirstShare(q) /\ (q = p \/ Deal(q) \in got'[p])
    BY <1>2, <1>3, <1>7, <1>10 DEF SharesOnce
  <1>12. \/ /\ e.my_state = NoRound /\ key_shares[p] = NoKey
            /\ FirstShare(p) \notin e.my_encrypted_shares
         \/ /\ e.my_state = First /\ key_shares[p] = NoKey
            /\ FirstShare(p) \in e.my_encrypted_shares
            /\ e.other_participants = First
    BY <1>1, <1>2, <1>3, <1>6, <1>7 DEF RoundOnce, FirstShare
  <1>13. UNCHANGED missed  BY DEF store_shares, Ignore
  <1>14. NoShareMissed'  BY <1>13 DEF Once, NoShareMissed
  <1> HIDE DEF e, old, S
  <1>15. CASE ~all_shares(e)
    <2>1. engine' = [engine EXCEPT ![p] = e] /\ UNCHANGED <<key_shares, sent>>
      BY <1>15 DEF store_shares, Ignore, e, old
    <2>2. engine'[p] = e /\ \A q \in Provers \ {p} : engine'[q] = engine[q]
      BY <2>1 DEF TypeOK
    <2>3. SentOnce'
      <3>1. \A q \in Provers : engine[q].status = "active" => engine'[q].status = "active"
        BY <1>7, <2>2
      <3>2. QED  BY <1>1, <2>1, <3>1 DEF Once, SentOnce
    <2>4. HeardOnce(p, engine[p])'
      BY <1>3, <1>7, <1>10, <2>2 DEF HeardOnce
    <2>5. SharesOnce(p, engine[p])'
      BY <1>8, <1>9, <1>11, <2>2 DEF SharesOnce
    <2>6. RoundOnce(p, engine[p])'  BY <1>12, <2>1, <2>2 DEF RoundOnce
    <2>7. EngineOnce(p)'  BY <1>7, <2>2, <2>4, <2>5, <2>6 DEF EngineOnce
    <2>8. \A q \in Provers \ {p} : EngineOnce(q)'
      BY <1>1, <2>1, <2>2, OthersOnce DEF Once
    <2>9. QED  BY <1>14, <2>3, <2>7, <2>8 DEF Once
  <1>16. CASE all_shares(e)
    <2> DEFINE f == [e EXCEPT !.my_state = NoRound]
    <2>1. S \cup {m.from} = Provers
      BY <1>2, <1>9, <1>16, Counting DEF all_shares, S
    <2>2. \A q \in Provers : FirstShare(q) \in e.my_encrypted_shares
      BY <1>8, <2>1
    <2>3. /\ e.my_state = First /\ key_shares[p] = NoKey
          /\ e.other_participants = First
      BY <1>12, <2>2
    <2>4. e.my_state # NoRound /\ to_round_two(e)
      BY <1>7, <1>11, <2>3 DEF to_round_two, First, FirstShare, NoRound, Nobody
    <2>5. finish(e) = FirstKey
      <3>1. \A s \in e.my_encrypted_shares : s.from \in Provers
        BY <1>11 DEF FirstShare
      <3>2. \A q \in Provers : FirstShare(q).from = q  BY DEF FirstShare
      <3>3. {s.from : s \in e.my_encrypted_shares} = Provers
        BY <2>2, <3>1, <3>2
      <3>4. QED  BY <2>3, <3>3 DEF finish, FirstKey
    <2>6. /\ engine' = [engine EXCEPT ![p] = f]
          /\ key_shares' = [key_shares EXCEPT ![p] = FirstKey]
          /\ sent' = sent \cup {[type |-> "GossipVerificationShares", from |-> p,
                                  gen |-> e.gen, key |-> FirstKey]}
      BY <1>16, <2>4, <2>5 DEF store_shares, Ignore, e, old
    <2>7. /\ engine'[p] = f /\ \A q \in Provers \ {p} : engine'[q] = engine[q]
          /\ key_shares'[p] = FirstKey
          /\ \A q \in Provers \ {p} : key_shares'[q] = key_shares[q]
      BY <2>6 DEF TypeOK
    <2>8. /\ f.status = "active" /\ f.gen = 1 /\ f.my_state = NoRound
          /\ f.my_encrypted_shares = e.my_encrypted_shares /\ f.shares = e.shares
          /\ f.other_participants = e.other_participants /\ f.heard = e.heard
      BY <1>5, <1>7 DEF DKGEngineState
    <2> HIDE DEF f
    <2>9. SentOnce'
      <3>1. \A q \in Provers : engine[q].status = "active" => engine'[q].status = "active"
        BY <2>7, <2>8
      <3>2. QED  BY <1>1, <2>6, <3>1 DEF Once, SentOnce
    <2>10. HeardOnce(p, engine[p])'
      BY <1>3, <1>7, <1>10, <2>7, <2>8 DEF HeardOnce
    <2>11. SharesOnce(p, engine[p])'
      BY <1>8, <1>9, <1>11, <2>7, <2>8 DEF SharesOnce
    <2>12. RoundOnce(p, engine[p])'  BY <2>2, <2>3, <2>7, <2>8 DEF RoundOnce
    <2>13. EngineOnce(p)'  BY <2>7, <2>8, <2>10, <2>11, <2>12 DEF EngineOnce
    <2>14. \A q \in Provers \ {p} : EngineOnce(q)'
      BY <1>1, <2>7, OthersOnce DEF Once
    <2>15. QED  BY <1>14, <2>9, <2>13, <2>14 DEF Once
  <1>17. QED  BY <1>15, <1>16

\* Every step preserves the invariant.
LEMMA StepOnce == TypeOK /\ TypeOK' /\ OnceInv /\ [Next]_vars => OnceInv'
  <1> SUFFICES ASSUME TypeOK, TypeOK', OnceInv, [Next]_vars, ExactlyOnce'
               PROVE  Once'
    BY DEF OnceInv
  <1>1. CASE handle_trigger_election  BY <1>1, AnnounceOnce
  <1>2. ASSUME NEW p \in Provers, NEW m \in sent, handle(p, m)
        PROVE  Once'
    <2>1. Once  BY <1>2, HandledOnce DEF OnceInv
    <2>2. CASE Ignore(p, m)  BY <1>2, <2>1, <2>2, IgnoreOnce
    <2>3. CASE handle_init(p, m) /\ engine[p].status # "dead"
      BY <2>1, <2>3, HandleInitOnce
    <2>4. CASE handle_init_round_output(p, m) /\ engine[p].status = "active"
      BY <2>1, <2>4, HandleInitRoundOutputOnce
    <2>5. CASE store_shares(p, m) /\ engine[p].status = "active"
      BY <2>1, <2>5, StoreSharesOnce
    <2>6. QED
      BY <1>2, <2>2, <2>3, <2>4, <2>5
      DEF handle, handle_init, handle_init_round_output, store_shares
  <1>3. CASE UNCHANGED vars
    <2>1. Once  BY <1>3 DEF OnceInv, ExactlyOnce, vars
    <2>2. UNCHANGED <<announced, sent, engine, key_shares, got, missed>>
      BY <1>3 DEF vars
    <2>3. SentOnce' /\ NoShareMissed'
      BY <2>1, <2>2 DEF Once, SentOnce, NoShareMissed
    <2>4. ASSUME NEW p \in Provers PROVE EngineOnce(p)'
      <3>1. EngineOnce(p)  BY <2>1 DEF Once
      <3>2. QED  BY <2>2, <3>1, SMTT(30) DEF EngineOnce, HeardOnce, SharesOnce, RoundOnce
    <2>5. QED  BY <2>3, <2>4 DEF Once
  <1>4. QED  BY <1>1, <1>2, <1>3 DEF Next

\* OnceInv is an invariant of the key generation: as long as the relay has announced one
\* election and no message came twice, the engines are as Once says.
THEOREM OnceCorrect == Spec => []OnceInv
  <1>1. Init => OnceInv  BY InitOnce
  <1>2. TypeOK /\ TypeOK' /\ OnceInv /\ [Next]_vars => OnceInv'  BY StepOnce
  <1>3. QED  BY <1>1, <1>2, TypeCorrect, PTL DEF Spec

\* In a session in which nothing happens twice a key pair, where there is one, is the
\* one made of everybody's first dealer.
LEMMA FinishedOnce ==
  ASSUME Once, NEW p \in Provers, Finished(p)
  PROVE  key_shares[p] = FirstKey
  BY DEF Once, EngineOnce, RoundOnce, Finished

\* Provers that finish hold one group key, whatever the order in which the messages of
\* the one election reach them (handle_init_round_output, store_shares).
THEOREM SameGroupKeyCorrect == Spec => []SameGroupKeyOnce
  <1>1. OnceInv => SameGroupKeyOnce
    BY FinishedOnce DEF OnceInv, SameGroupKeyOnce, SameGroupKey
  <1>2. QED  BY <1>1, OnceCorrect, PTL

\* A prover that finishes has the share and the commitments of every elected prover:
\* the lengths that store_shares and handle_init_round_output compare count provers.
THEOREM WholeKeyCorrect == Spec => []WholeKeyOnce
  <1>1. OnceInv => WholeKeyOnce
    BY FinishedOnce DEF OnceInv, WholeKeyOnce, WholeKey, FirstKey, First
  <1>2. QED  BY <1>1, OnceCorrect, PTL

\* The engine's pop().unwrap() finds a round and its shares verify: no engine dies.
THEOREM NoPanicCorrect == Spec => []NoPanicOnce
  <1>1. OnceInv => NoPanicOnce
    BY DEF OnceInv, NoPanicOnce, NoPanic, Once, EngineOnce, dkg_none
  <1>2. QED  BY <1>1, OnceCorrect, PTL

\* store_shares never drops a share for want of a state: no share is gossiped before
\* every engine is initialised.
THEOREM NoShareMissedCorrect == Spec => []NoShareMissedOnce
  <1>1. OnceInv => NoShareMissedOnce  BY DEF OnceInv, NoShareMissedOnce, Once
  <1>2. QED  BY <1>1, OnceCorrect, PTL

-----------------------------------------------------------------------------
(***************************************************************************)
(* The key generation implements KeyAgreement.                             *)
(***************************************************************************)

\* In a session in which nothing happens twice a prover has no key pair or the first.
LEMMA KeyOnce ==
  ASSUME Once, NEW p \in Provers
  PROVE  key_shares[p] \in {NoKey, FirstKey}
  BY DEF Once, EngineOnce, RoundOnce

\* A handler changes no key pair but its own prover's, which store_shares replaces by
\* one with a group key.
LEMMA HandlerKeys ==
  ASSUME NEW p \in Provers, NEW m \in sent, handle(p, m)
  PROVE  \/ UNCHANGED key_shares
         \/ \E c : c.group # Nobody /\ key_shares' = [key_shares EXCEPT ![p] = c]
  <1>1. CASE handle_init(p, m)  BY <1>1 DEF handle_init, Ignore
  <1>2. CASE handle_init_round_output(p, m)
    BY <1>2 DEF handle_init_round_output, Ignore
  <1>3. CASE store_shares(p, m)
    <2> DEFINE e == push_share(p, engine[p], m)
    <2>1. \/ UNCHANGED key_shares
          \/ e.my_state # NoRound /\ key_shares' = [key_shares EXCEPT ![p] = finish(e)]
      BY <1>3 DEF store_shares, Ignore
    <2>2. finish(e).group = e.my_state  BY DEF finish
    <2>3. QED  BY <2>1, <2>2 DEF NoRound
  <1>4. QED  BY <1>1, <1>2, <1>3 DEF handle

\* With one election and no message twice, every step of the engines is an Obtain of
\* the agreement or changes nobody's group key: store_shares casts one StoreKeyShares.
THEOREM AgreementCorrect ==
  ASSUME MaxAnnounce = 1, MaxRedelivery = 0
  PROVE  Spec => AgreementSpec
  <1> DEFINE G == [Provers -> 0..(MaxAnnounce + MaxRedelivery)] \ {Nobody}
  <1> DEFINE k == [p \in Provers |-> key_shares[p].group]
  <1>1. TypeOK => ExactlyOnce  BY DEF TypeOK, ExactlyOnce
  <1>2. First \in G /\ First # Nobody
    <2>1. PICK p \in Provers : TRUE  BY ProversAssumption
    <2>2. First[p] = 1 /\ Nobody[p] = 0  BY DEF First, Nobody
    <2>3. QED  BY <2>2 DEF First
  <1>3. Init => Agreement!Init
    BY DEF Init, Agreement!Init, NoKey
  <1>4. TypeOK /\ TypeOK' /\ OnceInv /\ OnceInv' /\ [Next]_vars => [Agreement!Next]_k
    <2> SUFFICES ASSUME TypeOK, TypeOK', OnceInv, OnceInv', [Next]_vars,
                        k' # k
                 PROVE  Agreement!Next
      OBVIOUS
    <2>1. Once /\ Once'  BY <1>1 DEF OnceInv, TypeOK, ExactlyOnce
    <2>2. key_shares' # key_shares  OBVIOUS
    <2>0. PICK p \in Provers :
            \E c : c.group # Nobody /\ key_shares' = [key_shares EXCEPT ![p] = c]
      BY <2>2, HandlerKeys DEF Next, handle_trigger_election, vars
    <2>3. PICK c : c.group # Nobody /\ key_shares' = [key_shares EXCEPT ![p] = c]
      BY <2>0
    <2>4. /\ key_shares'[p] = c
          /\ \A q \in Provers \ {p} : key_shares'[q] = key_shares[q]
      BY <2>3 DEF TypeOK
    <2>5. \A q \in Provers : key_shares[q] \in {NoKey, FirstKey}  BY <2>1, KeyOnce
    <2>6. c = FirstKey
      <3>1. key_shares'[p] \in {NoKey, FirstKey}
        BY <2>1 DEF Once, EngineOnce, RoundOnce
      <3>2. QED  BY <2>3, <2>4, <3>1 DEF NoKey
    <2>7. \A q \in Provers : k[q] \in {Nobody, First}  BY <2>5 DEF NoKey, FirstKey
    <2>8. k' = [k EXCEPT ![p] = First]
      <3>1. k'[p] = First /\ \A q \in Provers \ {p} : k'[q] = k[q]
        BY <2>4, <2>6 DEF FirstKey
      <3>2. QED  BY <3>1
    <2>9. k[p] = Nobody
      <3>1. SUFFICES ASSUME k[p] = First PROVE FALSE  BY <2>7
      <3>2. k' = k  BY <2>8, <3>1
      <3>3. QED  BY <3>2
    <2> HIDE DEF k
    <2>10. Agreement!Obtain(p, First)
      BY <2>7, <2>8, <2>9 DEF Agreement!Obtain, k
    <2>11. QED  BY <1>2, <2>10 DEF Agreement!Next
  <1>5. QED
    BY <1>3, <1>4, TypeCorrect, OnceCorrect, PTL DEF Spec, AgreementSpec, Agreement!Spec

-----------------------------------------------------------------------------
(***************************************************************************)
(* No dealer deals twice, however often messages come and elections are    *)
(* announced.  The inductive invariant: once a dealer has dealt, its list  *)
(* of participants is as long as it may be to bootstrap, and grows; once   *)
(* it has made its key, its round is popped, and there comes no other.     *)
(***************************************************************************)
Deals(m) == m.type \in {"GossipShare", "GossipVerificationShares"}

Spent(m) ==
  LET e == engine[m.from] IN
  /\ m.from \in Provers /\ m.gen <= e.gen
  /\ m.gen = e.gen =>
       /\ e.heard >= total_nodes
       /\ m.type = "GossipVerificationShares" => e.my_state = NoRound

DealInv ==
  /\ \A m \in sent : Deals(m) => Spent(m)
  /\ \A p \in Provers : engine[p].my_state # NoRound => engine[p].heard >= total_nodes
  /\ DealOnce

\* What the next state of an engine may be, for those of its messages to stay spent.
Onward(e, f) ==
  \/ e.gen < f.gen
  \/ /\ e.gen = f.gen /\ e.heard <= f.heard
     /\ e.heard >= total_nodes /\ e.my_state = NoRound => f.my_state = NoRound

\* A step of p's engine that gossips nothing but a message m, which is no second one of
\* its dealer, preserves the invariant.
LEMMA DealStep ==
  ASSUME TypeOK, DealInv, NEW p \in Provers, NEW f \in DKGEngineState, NEW m,
         engine' = [engine EXCEPT ![p] = f], Onward(engine[p], f),
         f.my_state # NoRound => f.heard >= total_nodes,
         sent' \subseteq sent \cup {m}, sent \subseteq sent',
         Deals(m) /\ m \in sent' =>
           /\ m.from = p /\ m.gen = f.gen /\ f.heard >= total_nodes
           /\ m.type = "GossipVerificationShares" => f.my_state = NoRound
           /\ \A k \in sent : ~(k.type = m.type /\ k.from = p /\ k.gen = m.gen)
  PROVE  DealInv'
  <1>0. total_nodes \in Nat
    BY ProversAssumption, FS_CardinalityType DEF total_nodes
  <1>1. /\ engine \in [Provers -> DKGEngineState]
        /\ \A q \in Provers : engine'[q] = IF q = p THEN f ELSE engine[q]
    BY DEF TypeOK
  <1>2. /\ \A q \in Provers : engine[q].gen \in Nat /\ engine[q].heard \in Nat
        /\ f.gen \in Nat /\ f.heard \in Nat
    BY <1>1 DEF DKGEngineState, Gen
  <1>3. ASSUME NEW k \in sent', Deals(k) PROVE Spent(k)'
    <2>1. CASE k \in sent
      <3>1. Spent(k) /\ k.gen \in Nat
        BY <2>1, <1>3 DEF DealInv, TypeOK, Message, Gen, Deals
      <3>2. CASE k.from = p
        BY <3>1, <3>2, <1>0, <1>1, <1>2 DEF Spent, Onward, NoRound, Nobody, total_nodes
      <3>3. CASE k.from # p
        BY <3>1, <3>3, <1>1 DEF Spent, NoRound, Nobody, total_nodes
      <3>4. QED  BY <3>2, <3>3
    <2>2. CASE k = m
      BY <2>2, <1>1, <1>2, <1>3 DEF Spent, NoRound, Nobody, total_nodes
    <2>3. QED  BY <2>1, <2>2
  <1>4. \A q \in Provers : engine'[q].my_state # NoRound => engine'[q].heard >= total_nodes
    BY <1>1 DEF DealInv
  <1>5. DealOnce'
    <2> SUFFICES ASSUME NEW k \in sent', NEW l \in sent', k.type = l.type, Deals(k),
                        k.from = l.from, k.gen = l.gen
                 PROVE  k = l
      BY DEF DealOnce, Deals
    <2>1. CASE k \in sent /\ l \in sent
      BY <2>1 DEF DealInv, DealOnce, Deals
    <2>2. CASE k \notin sent \/ l \notin sent
      <3>1. Deals(l)  BY DEF Deals
      <3>2. QED  BY <3>1, <2>2
    <2>3. QED  BY <2>1, <2>2
  <1>6. QED  BY <1>3, <1>4, <1>5 DEF DealInv, NoRound, Nobody, total_nodes

\* In any order, with any repetition, and with any number of elections, a dealer deals
\* once and makes one key.
THEOREM DealOnceCorrect == Spec => []DealOnce
  <1>0. total_nodes \in Nat
    BY ProversAssumption, FS_CardinalityType DEF total_nodes
  <1>1. Init => DealInv
    BY DEF Init, DealInv, DealOnce, dkg_none, NoRound
  <1>2. TypeOK /\ TypeOK' /\ DealInv /\ [Next]_vars => DealInv'
    <2> SUFFICES ASSUME TypeOK, TypeOK', DealInv, [Next]_vars PROVE DealInv'
      OBVIOUS
    <2>1. CASE UNCHANGED <<engine, sent>>
      BY <2>1 DEF DealInv, DealOnce, Spent, Deals, NoRound, Nobody, total_nodes
    <2>2. CASE handle_trigger_election
      BY <2>2 DEF handle_trigger_election, DealInv, DealOnce, Spent, Deals, NoRound, Nobody,
                  total_nodes
    <2>3. ASSUME NEW p \in Provers, NEW m \in sent, handle(p, m)
          PROVE  DealInv'
      <3>0. /\ m \in Message /\ engine[p] \in DKGEngineState
            /\ engine[p].gen \in Nat /\ engine[p].heard \in Nat
            /\ engine' \in [Provers -> DKGEngineState]
        BY DEF TypeOK, DKGEngineState, Gen
      <3>1. CASE handle_init(p, m) /\ engine[p].status # "dead"
        <4> DEFINE g == engine[p].gen + 1
        <4> DEFINE f == [dkg_none EXCEPT !.status = "active", !.gen = g,
                                         !.other_participants[p] = g, !.heard = 1]
        <4> DEFINE out == [type |-> "InitRoundOutput", from |-> p, gen |-> g]
        <4>1. /\ engine' = [engine EXCEPT ![p] = f]
              /\ sent' = sent \cup {out}
          BY <3>1 DEF handle_init, Ignore
        <4>2. f \in DKGEngineState  BY <4>1, <3>0 DEF TypeOK
        <4>3. Onward(engine[p], f) /\ f.my_state = NoRound
          BY <3>0 DEF Onward, dkg_none
        <4>4. ~Deals(out)  BY DEF Deals
        <4> HIDE DEF f, out
        <4>5. QED  BY <4>1, <4>2, <4>3, <4>4, DealStep
      <3>2. CASE handle_init_round_output(p, m) /\ engine[p].status = "active"
        <4> DEFINE e == push_participant(engine[p], m)
        <4> DEFINE out == [type |-> "GossipShare", from |-> p, gen |-> e.gen,
                           to |-> e.other_participants]
        <4>0. m.from \in Provers /\ m.gen \in Gen
          BY <3>0, <3>2 DEF handle_init_round_output, Message
        <4>1. e \in DKGEngineState  BY <3>0, <4>0, PushParticipantType
        <4>2. /\ e.gen = engine[p].gen /\ e.heard = engine[p].heard + 1
              /\ e.my_state = engine[p].my_state
          BY <3>0 DEF push_participant, DKGEngineState
        <4> HIDE DEF e
        <4>3. CASE ~all_heard(e)
          <5>1. engine' = [engine EXCEPT ![p] = e] /\ sent' = sent
            BY <3>2, <4>3 DEF handle_init_round_output, Ignore, e
          <5>2. Onward(engine[p], e)  BY <3>0, <4>2 DEF Onward
          <5>3. e.my_state # NoRound => e.heard >= total_nodes
            BY <3>0, <4>2, <1>0 DEF DealInv
          <5>4. ~Deals(Output(p))  BY DEF Deals, Output
          <5>5. QED  BY <4>1, <5>1, <5>2, <5>3, <5>4, DealStep
        <4>4. CASE all_heard(e)
          <5> DEFINE f == bootstrap(p, e)
          <5>1. engine' = [engine EXCEPT ![p] = f] /\ sent' = sent \cup {out}
            BY <3>2, <4>4 DEF handle_init_round_output, Ignore, e
          <5>2. f \in DKGEngineState  BY <4>1, BootstrapType
          <5>3. f.gen = e.gen /\ f.heard = e.heard
            BY <4>1 DEF bootstrap, DKGEngineState
          <5>4. engine[p].heard < total_nodes /\ f.heard = total_nodes
            BY <5>3, <4>2, <4>4, <3>0, <1>0 DEF all_heard
          <5>5. Onward(engine[p], f)
            BY <5>3, <5>4, <4>2, <3>0, <1>0 DEF Onward
          <5>6. \A k \in sent : ~(k.type = out.type /\ k.from = p /\ k.gen = out.gen)
            BY <5>4, <4>2, <3>0, <1>0 DEF DealInv, Deals, Spent
          <5>7. /\ out.from = p /\ out.gen = f.gen /\ f.heard >= total_nodes
                /\ out.type # "GossipVerificationShares"
            BY <5>3, <5>4, <1>0
          <5> HIDE DEF f, out
          <5>8. QED  BY <5>1, <5>2, <5>4, <5>5, <5>6, <5>7, <1>0, DealStep
        <4>5. QED  BY <4>3, <4>4
      <3>3. CASE store_shares(p, m) /\ engine[p].status = "active"
        <4> DEFINE e == push_share(p, engine[p], m)
        <4> DEFINE f == [e EXCEPT !.my_state = NoRound]
        <4> DEFINE dead == [engine[p] EXCEPT !.status = "dead"]
        <4> DEFINE out == [type |-> "GossipVerificationShares", from |-> p,
                           gen |-> e.gen, key |-> finish(e)]
        <4>0. m.from \in Provers /\ m.gen \in Gen /\ m.to \in Dealers
          BY <3>0, <3>3 DEF store_shares, Message
        <4>1. e \in DKGEngineState  BY <3>0, <4>0, PushShareType
        <4>2. /\ e.gen = engine[p].gen /\ e.heard = engine[p].heard
              /\ e.my_state = engine[p].my_state
          BY <3>0 DEF push_share, DKGEngineState
        <4> HIDE DEF e
        <4>3. CASE ~all_shares(e)
          <5>1. engine' = [engine EXCEPT ![p] = e] /\ sent' = sent
            BY <3>3, <4>3 DEF store_shares, Ignore, e
          <5>2. Onward(engine[p], e)  BY <3>0, <4>2 DEF Onward
          <5>3. e.my_state # NoRound => e.heard >= total_nodes
            BY <3>0, <4>2, <1>0 DEF DealInv
          <5>4. ~Deals(Output(p))  BY DEF Deals, Output
          <5>5. QED  BY <4>1, <5>1, <5>2, <5>3, <5>4, DealStep
        <4>4. CASE all_shares(e) /\ (e.my_state = NoRound \/ ~to_round_two(e))
          <5>1. engine' = [engine EXCEPT ![p] = dead] /\ sent' = sent
            BY <3>3, <4>4, <3>0 DEF store_shares, Ignore, e, TypeOK
          <5>2. /\ dead \in DKGEngineState
                /\ dead.gen = engine[p].gen /\ dead.heard = engine[p].heard
                /\ dead.my_state = engine[p].my_state
            BY <3>0 DEF DKGEngineState
          <5> HIDE DEF dead
          <5>3. Onward(engine[p], dead)  BY <3>0, <5>2 DEF Onward
          <5>4. dead.my_state # NoRound => dead.heard >= total_nodes
            BY <5>2 DEF DealInv
          <5>5. ~Deals(Output(p))  BY DEF Deals, Output
          <5>6. QED  BY <5>1, <5>2, <5>3, <5>4, <5>5, DealStep
        <4>5. CASE all_shares(e) /\ e.my_state # NoRound /\ to_round_two(e)
          <5>1. engine' = [engine EXCEPT ![p] = f] /\ sent' = sent \cup {out}
            BY <3>3, <4>5 DEF store_shares, Ignore, e
          <5>2. f \in DKGEngineState  BY <5>1, <3>0 DEF TypeOK
          <5>3. f.gen = e.gen /\ f.heard = e.heard /\ f.my_state = NoRound
            BY <4>1 DEF DKGEngineState
          <5>4. f.heard >= total_nodes
            BY <4>2, <4>5, <5>3 DEF DealInv
          <5>5. Onward(engine[p], f)  BY <5>3, <4>2, <3>0 DEF Onward
          <5>6. \A k \in sent : ~(k.type = out.type /\ k.from = p /\ k.gen = out.gen)
            BY <4>2, <4>5 DEF DealInv, Deals, Spent
          <5>7. out.from = p /\ out.gen = f.gen
            BY <5>3
          <5> HIDE DEF f, out
          <5>8. QED  BY <5>1, <5>2, <5>3, <5>4, <5>5, <5>6, <5>7, DealStep
        <4>6. QED  BY <4>3, <4>4, <4>5
      <3>4. CASE Ignore(p, m)
        BY <3>4, <2>1 DEF Ignore
      <3>5. QED
        BY <2>3, <3>1, <3>2, <3>3, <3>4
        DEF handle, handle_init, handle_init_round_output, store_shares
    <2>4. QED  BY <2>1, <2>2, <2>3 DEF Next, vars
  <1>3. DealInv => DealOnce  BY DEF DealInv
  <1>4. QED  BY <1>1, <1>2, <1>3, TypeCorrect, PTL DEF Spec
=============================================================================
