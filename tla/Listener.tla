------------------------------ MODULE Listener ------------------------------
(***************************************************************************)
(* A node and its tasks, from the start of the process to the key          *)
(* generation: main (node/src/main.rs), the listener that owns the network *)
(* (actors/src/gossip_engine_actor.rs), the GossipEngine and the election  *)
(* actor (actors/src/election_actor.rs), and what the AppState and the     *)
(* DkgEngine actor do with what these cast to them.                        *)
(*                                                                         *)
(* An actor has a mailbox, and handles one message at a time.  No handler  *)
(* waits for anything, so each is a step.  The GossipEngine actor only     *)
(* moves what it gets into the channel to the listener: its mailbox and    *)
(* that channel are one queue.  A message that no actor of the node would  *)
(* react to, because it is only for nodes of another type, is not handed   *)
(* to it.                                                                  *)
(*                                                                         *)
(* Of the key generation there is the first message, and the key pair that *)
(* is not there before everybody's first message has come; the rounds in   *)
(* between are in DkgEngine, and what becomes of the keys in AppState.     *)
(* Those take the way of a message from one actor to another node's to be  *)
(* one step: Broadcast says what they rely on, and is implemented here.    *)
(***************************************************************************)
EXTENDS Naturals, Sequences, FiniteSets

CONSTANTS
  Nums,       \* how many key pairs may have been generated, one for each node
  MaxCrash    \* MaxCrash[n]: bound: processes killed, if there are n

ASSUME ListenerAssumption == Nums \subseteq Nat \ 0..3 /\ MaxCrash \in [Nums -> Nat]

Places == UNION {0..(n - 1) : n \in Nums}

VARIABLES
  num,         \* how many key pairs generate_kp has written into the file
  node,        \* node[v]: the process of node v
  published,   \* what was published so far
  transit,     \* transit[v]: of these, what was published while v was connected
  gossiped,    \* what actors have had gossiped so far
  crashes,     \* how many processes were killed
  invited      \* the provers that were connected when the relay polled (history)

vars == <<num, node, published, transit, gossiped, crashes, invited>>

Nodes == 0..(num - 1)

\* The nodes of keypair_names.json: their types, by their place.
node_type(i) ==
  CASE i = 0 -> "Bootstrap"
    [] i = 1 -> "Relay"
    [] i > 1 /\ i = num - 1 -> "Verifier"
    [] OTHER -> "Prover"

Bootstrap == 0
Relay == 1
Verifier == num - 1
Provers == {i \in Nodes : node_type(i) = "Prover"}

\* Mutant of fetch_provers: the last is left out.
fetch_provers_short == [i \in 1..(num - 4) |-> i + 1]

\* The provers in the order of the file.
fetch_provers == [i \in 1..(num - 3) |-> i + 1]

Actors == {"GossipEngine", "ElectionEngine", "DkgEngine", "AppStateEngine"}

-----------------------------------------------------------------------------
\* Mutant of START: the listener is started before there is an AppState actor.
START_early == <<{"GossipEngine", "ElectionEngine", "DkgEngine"}, {"Listener"}, {"AppStateEngine"}>>

\* What main starts, in this order: the actors, of which only the last casts anything (in
\* its pre_start) before the listener runs; then the listener.
START == <<{"GossipEngine", "ElectionEngine", "DkgEngine", "AppStateEngine"}, {"Listener"}>>

\* A process that is not running, or has not yet done anything.
Off ==
  [running |-> 0, joined |-> FALSE, got |-> {},
   topics_subscribed |-> {}, polled |-> FALSE, subscribed |-> {}, panicked |-> FALSE,
   mailbox |-> [a \in Actors |-> <<>>], lost |-> FALSE, handled |-> <<>>,
   current_state |-> "CollectingProposals", elections |-> 0,
   active_provers |-> <<>>, n |-> 0, t |-> 0, my_node_idx |-> 0, shares |-> {},
   index |-> 0, total_nodes |-> 0, threshold |-> 0, heard |-> {}, keyed |-> FALSE]

Init ==
  /\ num \in Nums
  /\ node = [v \in Places |-> Off]
  /\ published = {}
  /\ transit = [v \in Places |-> {}]
  /\ gossiped = {}
  /\ crashes = 0
  /\ invited = {}

started(s, a) == \E k \in 1..s.running : a \in START[k]

Listening(v) == started(node[v], "Listener") /\ ~node[v].panicked

\* cast_message looks the actor up in the registry, and prints that there is none.
cast_message(s, a, msg) ==
  IF started(s, a) THEN [s EXCEPT !.mailbox[a] = Append(@, msg)] ELSE [s EXCEPT !.lost = TRUE]

\* A new message of v; `data' is what it says.
Message(v, type, data) ==
  [type |-> type, from |-> v, data |-> data,
   seq |-> Cardinality({m \in gossiped : m.from = v}) + 1]

\* An actor of v leaves v in state s, and has m gossiped.
gossips(v, s, m) ==
  /\ node' = [node EXCEPT ![v] = cast_message(s, "GossipEngine", m)]
  /\ gossiped' = gossiped \cup {m}

becomes(v, s) ==
  /\ node' = [node EXCEPT ![v] = s]
  /\ UNCHANGED gossiped

-----------------------------------------------------------------------------
Subscribe(v, topic) == [type |-> "Subscribe", from |-> v, data |-> topic]

\* The listener's swarm is subscribed from the start; a verifier's AppState actor
\* subscribes to one topic more in pre_start.
pre_start(v, s) ==
  CASE "AppStateEngine" \in START[s.running] /\ node_type(v) = "Verifier" ->
         cast_message(s, "GossipEngine", Subscribe(v, "verifier"))
    [] "Listener" \in START[s.running] -> [s EXCEPT !.subscribed = {"test-net"}]
    [] OTHER -> s

\* main starts the next part.
main(v) ==
  /\ node[v].running < Len(START)
  /\ becomes(v, pre_start(v, [node[v] EXCEPT !.running = @ + 1]))
  /\ UNCHANGED <<num, published, transit, crashes, invited>>

\* v reaches the bootstrap node, and by it all that have.
connect(v) ==
  /\ Listening(v) /\ Listening(Bootstrap) /\ ~node[v].joined
  /\ becomes(v, [node[v] EXCEPT !.joined = TRUE])
  /\ UNCHANGED <<num, published, transit, crashes, invited>>

\* A process is killed; what it had in its mailboxes, and what it was told, is gone.  If
\* it is the bootstrap node's, the others may still know each other.
crash(v) ==
  /\ node[v].running > 0
  /\ crashes < MaxCrash[num]
  /\ crashes' = crashes + 1
  /\ becomes(v, Off)
  /\ transit' = [transit EXCEPT ![v] = {}]
  /\ UNCHANGED <<num, published, invited>>

-----------------------------------------------------------------------------
(***************************************************************************)
(* The listener.                                                           *)
(***************************************************************************)

\* Mutant of may_poll: it polls at every subscription.
may_poll_always(v, topics, topic) ==
  node_type(v) = "Relay" /\ topic \in topics

\* The bootstrap node is subscribed to this topic, and the relay has not polled yet.
may_poll(v, topics, topic) ==
  node_type(v) = "Relay" /\ topic \in topics /\ ~node[v].polled

\* The relay learns that w is subscribed to a topic: once for each, and again whenever
\* they are connected anew.  It looks up only what the bootstrap node is subscribed to.
\* Others learn it, too, and make nothing of it.
subscribed(v, w) ==
  /\ Listening(v) /\ node[v].joined /\ node[w].joined /\ v # w
  /\ node_type(v) = "Relay"
  /\ \E topic \in node[w].subscribed :
       LET topics == node[v].topics_subscribed \cup (IF w = Bootstrap THEN {topic} ELSE {})
           s == [node[v] EXCEPT !.topics_subscribed = topics]
       IN \/ /\ may_poll(v, topics, topic)
             /\ becomes(v, cast_message([s EXCEPT !.polled = TRUE], "ElectionEngine",
                                        [type |-> "CheckElectionStatus"]))
             /\ invited' = {p \in Provers : node[p].joined}
          \/ /\ ~may_poll(v, topics, topic)
             /\ becomes(v, s)
             /\ UNCHANGED invited
  /\ UNCHANGED <<num, published, transit, crashes>>

\* Mutant of to_publish: a subscription is published, too.
to_publish_all == {"ElectedProvers", "InitRoundOutput", "Subscribe"}

\* What start publishes of what it is given.
to_publish == {"ElectedProvers", "InitRoundOutput"}

\* The listener takes the next of what the actors of v want gossiped or subscribed to.  A
\* node without peers can publish nothing: that is printed, and the message is gone.
command(v) ==
  /\ Listening(v)
  /\ node[v].mailbox["GossipEngine"] # <<>>
  /\ LET m == Head(node[v].mailbox["GossipEngine"])
         s == [node[v] EXCEPT !.mailbox["GossipEngine"] = Tail(@)]
     IN \/ /\ m.type \in to_publish /\ node[v].joined
           /\ becomes(v, s)
           /\ published' = published \cup {m}
           /\ transit' = [w \in Places |->
                IF w # v /\ node[w].joined THEN transit[w] \cup {m} ELSE transit[w]]
        \/ /\ m.type \in to_publish /\ ~node[v].joined
           /\ becomes(v, s)
           /\ UNCHANGED <<published, transit>>
        \/ /\ m.type \notin to_publish
           /\ becomes(v, [s EXCEPT !.subscribed = @ \cup {m.data}])
           /\ UNCHANGED <<published, transit>>
  /\ UNCHANGED <<num, crashes, invited>>

\* Who reacts to a message: only provers are elected, and have a DkgEngine that may be
\* initialised.
concerns(v, m) ==
  m.type \in {"ElectedProvers", "InitRoundOutput"} => node_type(v) = "Prover"

\* Mutant of process_message: the message is cast twice.
process_message_twice(s, m) ==
  LET threshold == [type |-> "UpdatedThreshold", n |-> m.data.n, t |-> m.data.t] IN
  CASE m.type = "ElectedProvers" ->
         cast_message(cast_message(s, "ElectionEngine", [type |-> "CheckElectedStatus", of |-> m]),
                      "AppStateEngine", threshold)
    [] m.type = "InitRoundOutput" ->
         cast_message(cast_message(s, "DkgEngine", [type |-> "InitRoundOutput", of |-> m]),
                      "DkgEngine", [type |-> "InitRoundOutput", of |-> m])
    [] OTHER -> s

\* Each type of message goes to its actors; what is not made to be gossiped is not
\* implemented, and stops the listener.
process_message(s, m) ==
  LET threshold == [type |-> "UpdatedThreshold", n |-> m.data.n, t |-> m.data.t] IN
  CASE m.type = "ElectedProvers" ->
         cast_message(cast_message(s, "ElectionEngine", [type |-> "CheckElectedStatus", of |-> m]),
                      "AppStateEngine", threshold)
    [] m.type = "InitRoundOutput" ->
         cast_message(s, "DkgEngine", [type |-> "InitRoundOutput", of |-> m])
    [] OTHER -> [s EXCEPT !.panicked = TRUE]

\* A message comes by the network, which does not bring a node its own.
receive(v, m) ==
  /\ Listening(v) /\ node[v].joined
  /\ m.from # v /\ m \notin node[v].got /\ concerns(v, m)
  /\ becomes(v, process_message([node[v] EXCEPT !.got = @ \cup {m}], m))
  /\ UNCHANGED <<num, published, transit, crashes, invited>>

-----------------------------------------------------------------------------
(***************************************************************************)
(* The actors: what each does with the next message in its mailbox.        *)
(***************************************************************************)
Next_of(v, a) == Head(node[v].mailbox[a])
Taken(v, a) == [node[v] EXCEPT !.mailbox[a] = Tail(@)]

has(v, a, type) == node[v].mailbox[a] # <<>> /\ Next_of(v, a).type = type

calculate_threshold(n) == (n + 1) \div 2

handle_check_election_status(v) ==
  /\ has(v, "ElectionEngine", "CheckElectionStatus")
  /\ becomes(v, cast_message([Taken(v, "ElectionEngine") EXCEPT !.current_state = "CollectedProposals"],
                             "ElectionEngine", [type |-> "TriggerElection"]))

\* The provers of the file are elected, all of them.
handle_trigger_election(v) ==
  LET peers == fetch_provers
      n == Len(peers)
      t == calculate_threshold(n)
      s == [Taken(v, "ElectionEngine") EXCEPT
              !.current_state = "QuorumElected", !.elections = @ + 1]
  IN /\ has(v, "ElectionEngine", "TriggerElection")
     /\ gossips(v,
          cast_message(cast_message(s, "AppStateEngine", [type |-> "UpdateElectedProvers", peers |-> peers]),
                       "AppStateEngine", [type |-> "UpdatedThreshold", n |-> n, t |-> t]),
          Message(v, "ElectedProvers", [n |-> n, t |-> t, peers |-> peers]))

\* Mutant of idx: counted from 0.
idx_zero(v, peers) == (CHOOSE i \in DOMAIN peers : peers[i] = v) - 1

idx(v, peers) == CHOOSE i \in DOMAIN peers : peers[i] = v

handle_check_elected_status(v) ==
  /\ has(v, "ElectionEngine", "CheckElectedStatus")
  /\ LET m == Next_of(v, "ElectionEngine").of
         peers == m.data.peers
         s == Taken(v, "ElectionEngine")
     IN \/ /\ \E i \in DOMAIN peers : peers[i] = v
           /\ becomes(v,
                cast_message(
                  cast_message(s, "DkgEngine",
                    [type |-> "Init", of |-> m, idx |-> idx(v, peers), n |-> Len(peers),
                     threshold |-> calculate_threshold(Len(peers))]),
                  "AppStateEngine", [type |-> "UpdateNodeIdx", idx |-> idx(v, peers)]))
        \/ /\ \A i \in DOMAIN peers : peers[i] # v
           /\ becomes(v, s)

\* A new dealer, and no memory of the last.
handle_init(v) ==
  /\ has(v, "DkgEngine", "Init")
  /\ LET msg == Next_of(v, "DkgEngine") IN
     gossips(v, [Taken(v, "DkgEngine") EXCEPT
                   !.index = msg.idx, !.total_nodes = msg.n - 1, !.threshold = msg.threshold,
                   !.heard = {}, !.keyed = FALSE, !.handled = Append(@, msg.of)],
             Message(v, "InitRoundOutput", <<>>))

handle_init_round_output(v) ==
  /\ has(v, "DkgEngine", "InitRoundOutput")
  /\ LET m == Next_of(v, "DkgEngine").of IN
     becomes(v, [Taken(v, "DkgEngine") EXCEPT
                   !.handled = Append(@, m),
                   !.heard = IF node[v].index = 0 THEN @ ELSE @ \cup {m.from}])

\* The last of the engine's handlers, when it has what it needs of all others.  It runs
\* only when a share of another prover comes: who is elected alone never gets that far.
store_shares(v) ==
  /\ node[v].index # 0 /\ ~node[v].keyed
  /\ node[v].heard # {}
  /\ Cardinality(node[v].heard) = node[v].total_nodes
  /\ becomes(v, cast_message([node[v] EXCEPT !.keyed = TRUE], "AppStateEngine",
                             [type |-> "StoreKeyShares"]))

\* The AppState actor; which of its messages it makes something of depends on the type.
app_state(v) ==
  /\ node[v].mailbox["AppStateEngine"] # <<>>
  /\ LET msg == Next_of(v, "AppStateEngine")
         s == Taken(v, "AppStateEngine")
         T == node_type(v)
     IN becomes(v,
          CASE msg.type = "UpdatedThreshold" /\ T \in {"Relay", "Prover"} ->
                 [s EXCEPT !.n = msg.n, !.t = msg.t]
            [] msg.type = "UpdateElectedProvers" /\ T = "Relay" ->
                 [s EXCEPT !.active_provers = msg.peers]
            [] msg.type = "UpdateNodeIdx" /\ T = "Prover" ->
                 [s EXCEPT !.my_node_idx = msg.idx]
            [] msg.type = "StoreKeyShares" /\ T = "Prover" ->
                 [s EXCEPT !.shares = @ \cup {s.my_node_idx}]
            [] OTHER -> s)

handle(v) ==
  /\ \/ handle_check_election_status(v) \/ handle_trigger_election(v)
     \/ handle_check_elected_status(v)
     \/ handle_init(v) \/ handle_init_round_output(v) \/ store_shares(v)
     \/ app_state(v)
  /\ UNCHANGED <<num, published, transit, crashes, invited>>

Next ==
  \E v \in Nodes :
    \/ main(v) \/ connect(v) \/ crash(v)
    \/ command(v) \/ handle(v)
    \/ \E w \in Nodes : subscribed(v, w)
    \/ \E m \in published : receive(v, m)

Spec == Init /\ [][Next]_vars

(***************************************************************************)
(* As long as some task of a node has something to do, one of them does it *)
(* (no task has work for ever, so that each then gets its turn), and what  *)
(* is published reaches who is connected.  Nobody needs to start a node,   *)
(* and no node needs to get connected.                                     *)
(***************************************************************************)
work(v) == command(v) \/ handle(v) \/ \E m \in transit[v] : receive(v, m)

FairSpec == Spec /\ WF_vars(\E v \in Nodes : work(v))

-----------------------------------------------------------------------------
(***************************************************************************)
(* Properties.                                                             *)
(***************************************************************************)
TypeOK ==
  /\ \A v \in Nodes :
       /\ node[v].running \in 0..Len(START)
       /\ node[v].current_state \in {"CollectingProposals", "CollectedProposals", "QuorumElected"}
       /\ DOMAIN node[v].mailbox = Actors
       /\ node[v].handled \in Seq(node[v].got) /\ node[v].got \subseteq published
       /\ transit[v] \subseteq published
  /\ published \subseteq gossiped
  /\ num \in Nums /\ crashes \in 0..MaxCrash[num]
  /\ invited \subseteq Provers

\* No actor casts to one that main has not spawned yet, whatever comes by the network or
\* from other actors while the node is starting (cast_message would only print it).
NoCastLost == \A v \in Nodes : ~node[v].lost

\* Nothing is gossiped that process_message has not implemented: no listener stops.
ListenersSurvive == \A v \in Nodes : ~node[v].panicked

\* A relay holds one election in its life, however often it hears of a subscription.
OneElection == \A v \in Nodes : node[v].elections <= (IF v = Relay THEN 1 ELSE 0)

\* What the election left in the actors of the provers and the relay fits together: a
\* prover's engine and its AppState have one index, the place at which the relay has it;
\* its own share is filed there; and all have one number of provers and one threshold,
\* which is no more than there are provers.
Agreement ==
  \A p \in Provers :
    LET s == node[p] relay == node[Relay] IN
    /\ s.index # 0 => s.index \in 1..(s.total_nodes + 1) /\ s.threshold \in 1..(s.total_nodes + 1)
    /\ s.index # 0 /\ s.my_node_idx # 0 => s.my_node_idx = s.index
    /\ s.index # 0 /\ s.n # 0 => s.n = s.total_nodes + 1 /\ s.t = s.threshold
    /\ s.n # 0 /\ relay.n # 0 => s.n = relay.n /\ s.t = relay.t
    /\ s.index # 0 /\ relay.active_provers # <<>> => relay.active_provers[s.index] = p
    /\ s.shares \subseteq {s.index}

\* The listener and the actors of all nodes together bring a message from the actor that
\* has it gossiped to the actors it is for, at other nodes, and not twice to one process.
BroadcastOf == INSTANCE Broadcast WITH
  Nodes <- Places,
  sent <- gossiped,
  handled <- [v \in Places |-> node[v].handled]
BroadcastSpec == BroadcastOf!Spec

\* Who was connected when the relay polled takes part in the key generation with the
\* others, as long as nobody is killed.
Informed ==
  (invited # {} /\ crashes = 0) ~>
    \/ crashes > 0
    \/ \A p \in invited : node[p].index # 0 /\ node[p].my_node_idx # 0
=============================================================================
