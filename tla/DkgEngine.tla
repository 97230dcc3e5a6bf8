----------------------------- MODULE DkgEngine -----------------------------
(***************************************************************************)
(* The distributed key generation that the elected provers run over the    *)
(* gossip network: the relay's announcement of the elected provers, and    *)
(* the DkgEngine actor of every prover (actors/src/dkg_engine_actor.rs).   *)
(*                                                                         *)
(* A gossiped message reaches an engine through the swarm, the listener's  *)
(* process_message, for ElectedProvers also the election actor, and the    *)
(* engine's mailbox.  None of these hops changes what the engine does with *)
(* the message and together they may delay it arbitrarily, so they are     *)
(* one step here: the engine handles any message that was sent.  Messages  *)
(* are never removed from `sent'; one that is lost is never handled.       *)
(*                                                                         *)
(* A dealer drawn by ParticipantDKG::new_dealer is named by its prover and *)
(* by how many dealers that prover has drawn (its `gen'): two dealers of   *)
(* one prover have different commitments and Diffie-Hellman keys.          *)
(***************************************************************************)
EXTENDS Naturals, FiniteSets

CONSTANTS
  Provers,        \* the provers of fetch_provers, all of them elected
  Relay,          \* the node that runs the election
  MaxAnnounce,    \* bound: elections announced (one per life of the relay)
  MaxRedelivery,  \* bound: messages handed to a listener once more
  Fifo            \* whether messages of one node keep their order

ASSUME ProversAssumption == IsFiniteSet(Provers) /\ Provers # {} /\ Relay \notin Provers
ASSUME BoundsAssumption ==
  MaxAnnounce \in Nat /\ MaxRedelivery \in Nat /\ Fifo \in BOOLEAN

VARIABLES
  engine,       \* engine[p]: the DkgStateWrapper of p's actor, or that it died
  key_shares,   \* key_shares[p]: what p's engine last cast as StoreKeyShares
  sent,         \* the messages gossiped so far
  got,          \* got[p]: the messages handed to p's engine so far
  missed,       \* missed[p]: those that p's engine ignored, having no state (history)
  announced,    \* how many elections the relay has announced
  redelivered   \* how many messages were handed over once more

vars == <<engine, key_shares, sent, got, missed, announced, redelivered>>

\* Mutant of total_nodes: off by one.
total_nodes_short == Cardinality(Provers) - 1

total_nodes == Cardinality(Provers)

\* A dealer's generation; 0 where there is none.
Gen == Nat

\* For each prover the dealer of it that someone has heard of, as the library's
\* maps from index to commitments and to Diffie-Hellman key hold them.
Dealers == [Provers -> Gen]

Nobody == [q \in Provers |-> 0]

\* An encrypted share: who dealt it, as which dealer, and for which dealer of the
\* receiver (whose Diffie-Hellman key encrypts it).
Share == [from : Provers, gen : Gen, to : Gen]

\* What finish() makes of a session: the dealers whose commitments the group key
\* interpolates, and the provers whose shares the signing key interpolates.
KeyShare == [group : Dealers, signing : SUBSET Provers]

\* No RoundOne state (my_state is empty); no key pair.
NoRound == Nobody
NoKey == [group |-> Nobody, signing |-> {}]

Message ==
  [type : {"ElectedProvers"}, from : {Relay}, gen : Gen]
    \cup [type : {"InitRoundOutput"}, from : Provers, gen : Gen]
    \cup [type : {"GossipShare"}, from : Provers, gen : Gen, to : Dealers]
    \cup [type : {"GossipVerificationShares"}, from : Provers, gen : Gen, key : KeyShare]

(***************************************************************************)
(* `status' is the Option around DKGEngineState ("none": not initialised), *)
(* or "dead" once a handler has panicked: ractor stops the actor, and      *)
(* cast_message prints and forgets what is cast to it.  The two lists are  *)
(* kept as what the code reads of them: their length, and the map or the   *)
(* set the library builds from them.                                       *)
(***************************************************************************)
DKGEngineState ==
  [status : {"none", "active", "dead"},
   gen : Gen,                               \* participant, coeff and dh_sk
   other_participants : Dealers, heard : Nat,
   my_encrypted_shares : SUBSET Share, shares : Nat,
   my_state : Dealers]

dkg_none ==
  [status |-> "none", gen |-> 0,
   other_participants |-> Nobody, heard |-> 0,
   my_encrypted_shares |-> {}, shares |-> 0,
   my_state |-> NoRound]

TypeOK ==
  /\ engine \in [Provers -> DKGEngineState]
  /\ key_shares \in [Provers -> KeyShare]
  /\ sent \subseteq Message
  /\ got \in [Provers -> SUBSET sent]
  /\ missed \in [Provers -> SUBSET sent]
  /\ announced \in 0..MaxAnnounce
  /\ redelivered \in 0..MaxRedelivery

Init ==
  /\ engine = [p \in Provers |-> dkg_none]
  /\ key_shares = [p \in Provers |-> NoKey]
  /\ sent = {}
  /\ got = [p \in Provers |-> {}]
  /\ missed = [p \in Provers |-> {}]
  /\ announced = 0
  /\ redelivered = 0

-----------------------------------------------------------------------------
\* The relay's election: handle_trigger_election gossips the elected provers.
\* It runs once per life of the relay (`polled'), so a second one is a restart.
handle_trigger_election ==
  /\ announced < MaxAnnounce
  /\ announced' = announced + 1
  /\ sent' = sent \cup {[type |-> "ElectedProvers", from |-> Relay, gen |-> announced']}
  /\ UNCHANGED <<engine, key_shares, got, missed, redelivered>>

\* k was published before m by the same node.
Before(k, m) ==
  /\ k.from = m.from
  /\ \/ k.gen < m.gen
     \/ k.gen = m.gen /\ k.type = "InitRoundOutput" /\ m.type = "GossipShare"

\* Mutant of Deliver: gossipsub hands a node its own messages, too.
Deliver_own(p, m) ==
  /\ m \notin got[p]
  /\ got' = [got EXCEPT ![p] = @ \cup {m}]
  /\ UNCHANGED redelivered

\* m reaches the engine of p: for the first time, or again once gossipsub's
\* duplicate cache (10 ms) has forgotten it.  Gossipsub never hands a node its own.
Deliver(p, m) ==
  /\ m.from # p
  /\ Fifo => \A k \in sent : Before(k, m) => k \in got[p]
  /\ \/ /\ m \notin got[p]
        /\ got' = [got EXCEPT ![p] = @ \cup {m}]
        /\ UNCHANGED redelivered
     \/ /\ m \in got[p]
        /\ redelivered < MaxRedelivery
        /\ redelivered' = redelivered + 1
        /\ UNCHANGED got

\* The engine ignores m: it has no state yet, or the actor is gone.
Ignore(p, m) ==
  /\ engine[p].status # "active"
  /\ missed' = [missed EXCEPT ![p] = @ \cup {m}]
  /\ UNCHANGED <<engine, key_shares, sent>>

\* CheckElectedStatus finds p among the elected provers and casts Init: whatever
\* session there was is replaced by one with a fresh dealer, which is gossiped.
handle_init(p, m) ==
  /\ m.type = "ElectedProvers"
  /\ Deliver(p, m)
  /\ \/ /\ engine[p].status = "dead"
        /\ Ignore(p, m)
     \/ /\ engine[p].status # "dead"
        /\ LET g == engine[p].gen + 1 IN
           /\ engine' = [engine EXCEPT ![p] =
                [dkg_none EXCEPT !.status = "active", !.gen = g,
                                 !.other_participants[p] = g, !.heard = 1]]
           /\ sent' = sent \cup {[type |-> "InitRoundOutput", from |-> p, gen |-> g]}
        /\ UNCHANGED <<key_shares, missed>>
  /\ UNCHANGED announced

\* The dealer of m is put in the list of participants; of two dealers of one prover
\* the library's maps keep the later.
push_participant(e, m) ==
  [e EXCEPT !.other_participants[m.from] = m.gen, !.heard = @ + 1]

\* Mutants of bootstrap: the round is not kept, p's share is put in twice, or left out.
bootstrap_no_round(p, e) ==
  [e EXCEPT !.my_encrypted_shares =
              @ \cup {[from |-> p, gen |-> e.gen, to |-> e.other_participants[p]]},
            !.shares = @ + 1]
bootstrap_twice(p, e) ==
  [bootstrap_no_round(p, e) EXCEPT !.my_state = e.other_participants, !.shares = @ + 1]
bootstrap_no_share(p, e) == [e EXCEPT !.my_state = e.other_participants]

\* The library's bootstrap over the participants heard of: the commitments and
\* keys by index, and p's own share put first in its list of shares.
bootstrap(p, e) ==
  [e EXCEPT !.my_state = e.other_participants,
            !.my_encrypted_shares =
              @ \cup {[from |-> p, gen |-> e.gen, to |-> e.other_participants[p]]},
            !.shares = @ + 1]

\* Mutant of all_heard: whenever at least as many participants are in the list.
all_heard_or_more(e) == e.heard >= total_nodes

\* The two lengths that move the engine on, compared when their list has grown.
all_heard(e) == e.heard = total_nodes
all_shares(e) == e.shares = total_nodes

handle_init_round_output(p, m) ==
  /\ m.type = "InitRoundOutput"
  /\ Deliver(p, m)
  /\ \/ Ignore(p, m)
     \/ /\ engine[p].status = "active"
        /\ LET e == push_participant(engine[p], m) IN
           \/ /\ ~all_heard(e)
              /\ engine' = [engine EXCEPT ![p] = e]
              /\ UNCHANGED sent
           \/ /\ all_heard(e)
              /\ engine' = [engine EXCEPT ![p] = bootstrap(p, e)]
              /\ sent' = sent \cup {[type |-> "GossipShare", from |-> p,
                                     gen |-> e.gen, to |-> e.other_participants]}
        /\ UNCHANGED <<key_shares, missed>>
  /\ UNCHANGED announced

\* Mutant of push_share: what is pushed does not say for whom it is.
push_share_any(p, e, m) ==
  [e EXCEPT !.my_encrypted_shares = @ \cup {[from |-> m.from, gen |-> m.gen]},
            !.shares = @ + 1]

\* The share of m for p, if m has one, is put in p's list.
push_share(p, e, m) ==
  IF m.to[p] = 0 THEN e
  ELSE [e EXCEPT !.my_encrypted_shares =
                   @ \cup {[from |-> m.from, gen |-> m.gen, to |-> m.to[p]]},
                 !.shares = @ + 1]

\* to_round_two accepts every share without a complaint: its dealer is one that
\* bootstrap knew, it verifies against that dealer's commitments, and it was
\* encrypted for the key that decrypts it.
to_round_two(e) ==
  \A s \in e.my_encrypted_shares :
    /\ e.my_state[s.from] = s.gen
    /\ s.to = e.gen

finish(e) == [group |-> e.my_state, signing |-> {s.from : s \in e.my_encrypted_shares}]

\* Once as many shares as provers are in the list, the engine pops its round and
\* finishes.  No round to pop, an unknown dealer and a complaint are all panics.
store_shares(p, m) ==
  /\ m.type = "GossipShare"
  /\ Deliver(p, m)
  /\ \/ Ignore(p, m)
     \/ /\ engine[p].status = "active"
        /\ LET e == push_share(p, engine[p], m) IN
           \/ /\ ~all_shares(e)
              /\ engine' = [engine EXCEPT ![p] = e]
              /\ UNCHANGED <<key_shares, sent>>
           \/ /\ all_shares(e)
              /\ e.my_state = NoRound \/ ~to_round_two(e)
              /\ engine' = [engine EXCEPT ![p].status = "dead"]
              /\ UNCHANGED <<key_shares, sent>>
           \/ /\ all_shares(e)
              /\ e.my_state # NoRound /\ to_round_two(e)
              /\ engine' = [engine EXCEPT ![p] = [e EXCEPT !.my_state = NoRound]]
              /\ key_shares' = [key_shares EXCEPT ![p] = finish(e)]
              /\ sent' = sent \cup {[type |-> "GossipVerificationShares", from |-> p,
                                     gen |-> e.gen, key |-> finish(e)]}
        /\ UNCHANGED missed
  /\ UNCHANGED announced

handle(p, m) ==
  handle_init(p, m) \/ handle_init_round_output(p, m) \/ store_shares(p, m)

Next ==
  \/ handle_trigger_election
  \/ \E p \in Provers : \E m \in sent : handle(p, m)

Spec == Init /\ [][Next]_vars

(***************************************************************************)
(* Whatever is published reaches every prover and is handled: the mesh is  *)
(* connected, no publish fails, and every task of a node is scheduled.     *)
(***************************************************************************)
receive(p) == \E m \in sent \ got[p] : handle(p, m)

Fairness == WF_vars(handle_trigger_election) /\ \A p \in Provers : WF_vars(receive(p))

FairSpec == Spec /\ Fairness

-----------------------------------------------------------------------------
(***************************************************************************)
(* Properties.                                                             *)
(***************************************************************************)
Finished(p) == key_shares[p] # NoKey

\* One election was announced and every message was handed over at most once.
ExactlyOnce == announced <= 1 /\ redelivered = 0

\* Two provers that finished hold the same group key: it interpolates the commitments
\* of the same dealers (calculate_group_key at the end of store_shares).
SameGroupKey ==
  \A p, q \in Provers : Finished(p) /\ Finished(q) => key_shares[p].group = key_shares[q].group

\* The key pair of a prover that finished is whole: both its halves interpolate over
\* all the elected provers, so that its signing key is a share of the secret behind
\* its group key (store_shares counts shares, finish() takes whose they are).
WholeKey ==
  \A p \in Provers : Finished(p) =>
    /\ key_shares[p].signing = Provers
    /\ \A q \in Provers : key_shares[p].group[q] # 0

\* No unwrap, assert or index of the engine's handlers panics: the round is there to
\* pop when the last share comes, and its shares verify.
NoPanic == \A p \in Provers : engine[p].status # "dead"

\* No share comes to an engine that has no state (store_shares would drop it): whoever
\* gossips shares has heard of every prover, so every engine is initialised by then.
NoShareMissed == \A p \in Provers : \A m \in missed[p] : m.type # "GossipShare"

\* The four under the conditions they need: one election, and no message twice.
SameGroupKeyOnce == ExactlyOnce => SameGroupKey
WholeKeyOnce == ExactlyOnce => WholeKey
NoPanicOnce == ExactlyOnce => NoPanic
NoShareMissedOnce == ExactlyOnce => NoShareMissed

\* However often messages come and elections are announced, a dealer deals once, to
\* one list of receivers, and makes one key pair of it: the lengths that trigger
\* bootstrap and finish() are passed at most once per session.
DealOnce ==
  \A k, m \in sent :
    /\ k.type = m.type /\ k.type \in {"GossipShare", "GossipVerificationShares"}
    /\ k.from = m.from /\ k.gen = m.gen
    => k = m

\* The key generation as a whole is an agreement on one group key: with one election
\* and no message twice it implements KeyAgreement, so that nobody's key changes.
Agreement == INSTANCE KeyAgreement WITH
  GroupKeys <- [Provers -> 0..(MaxAnnounce + MaxRedelivery)] \ {Nobody},
  NoGroup <- Nobody,
  group_key <- [p \in Provers |-> key_shares[p].group]

AgreementSpec == Agreement!Spec

\* Everybody ends with a key pair unless some engine ignored a message, which it does
\* with an InitRoundOutput that comes before its own Init.
EndsUnlessMissed ==
  <>((\A p \in Provers : Finished(p)) \/ (\E p \in Provers : missed[p] # {}))
=============================================================================
