--------------------------- MODULE ListenerProofs ---------------------------
(***************************************************************************)
(* Theorems about Listener, for any number of nodes and of killed          *)
(* processes.                                                              *)
(***************************************************************************)
EXTENDS Listener, SequenceTheorems, TLAPS

(***************************************************************************)
(* The inductive invariant, in parts that are each about one process.      *)
(***************************************************************************)
Queue(q) == \E S : q \in Seq(S)

Fields == DOMAIN Off

Shaped(s) ==
  /\ s = [f \in Fields |-> s[f]]
  /\ s.mailbox = [a \in Actors |-> s.mailbox[a]]
  /\ \A a \in Actors : Queue(s.mailbox[a])
  /\ Queue(s.handled)
  /\ s.running \in 0..2
  /\ s.polled \in BOOLEAN

\* A process that is not running has nothing to do.
Quiet(s) ==
  s.running = 0 => s.index = 0 /\ \A a \in Actors : s.mailbox[a] = <<>>

\* The relay has polled before it has anything to do with an election, and has one thing
\* to do at a time; others' election actors only hear of who was elected.
Elects(v, s) ==
  LET E == s.mailbox["ElectionEngine"] IN
  /\ v = Relay =>
       /\ s.elections \in {0, 1}
       /\ ~s.polled => E = <<>> /\ s.elections = 0
       /\ \/ E = <<>>
          \/ /\ Len(E) = 1 /\ s.elections = 0
             /\ E[1].type \in {"CheckElectionStatus", "TriggerElection"}
  /\ v # Relay =>
       /\ s.elections = 0
       /\ \A k \in 1..Len(E) : E[k].type = "CheckElectedStatus"

\* What is in the mailboxes was gossiped by the node itself, or has come to it.
Sourced(G, v, s) ==
  LET E == s.mailbox["ElectionEngine"]
      D == s.mailbox["DkgEngine"]
      C == s.mailbox["GossipEngine"]
  IN /\ \A m \in s.got : m \in G /\ m.from # v
     /\ \A k \in 1..Len(C) : C[k].type = "Subscribe" \/ C[k] \in G
     /\ \A k \in 1..Len(D) : D[k].type \in {"Init", "InitRoundOutput"} /\ D[k].of \in s.got
     /\ \A k \in 1..Len(E) : E[k].type = "CheckElectedStatus" => E[k].of \in s.got
     /\ \A k \in 1..Len(s.handled) : s.handled[k] \in s.got

\* A message that has come is in one place.
Elected(q) == {k \in 1..Len(q) : q[k].type = "CheckElectedStatus"}
Once(s) ==
  LET E == s.mailbox["ElectionEngine"]
      D == s.mailbox["DkgEngine"]
  IN /\ \A j, k \in 1..Len(D) : j # k => D[j].of # D[k].of
     /\ \A j, k \in Elected(E) : j # k => E[j].of # E[k].of
     /\ \A j \in 1..Len(D), k \in Elected(E) : D[j].of # E[k].of
     /\ \A j \in 1..Len(s.handled) :
          /\ \A k \in 1..Len(D) : s.handled[j] # D[k].of
          /\ \A k \in Elected(E) : s.handled[j] # E[k].of

Good(G, v, s) ==
  /\ Shaped(s) /\ Quiet(s) /\ ~s.lost /\ ~s.panicked
  /\ Elects(v, s) /\ Sourced(G, v, s) /\ Once(s)

ListenerInv ==
  /\ num \in Nums
  /\ node = [v \in Places |-> node[v]]
  /\ published \subseteq gossiped
  /\ \A m \in gossiped : m.type \in to_publish
  /\ \A v \in Places : Good(gossiped, v, node[v])

-----------------------------------------------------------------------------
(***************************************************************************)
(* Processes and queues.                                                   *)
(***************************************************************************)

\* The fields of a process.
LEMMA FieldNames ==
  Fields = {"running", "joined", "got", "topics_subscribed", "polled", "subscribed",
            "panicked", "mailbox", "lost", "handled", "current_state", "elections",
            "active_provers", "n", "t", "my_node_idx", "shares", "index", "total_nodes",
            "threshold", "heard", "keyed"}
  BY DEF Fields, Off

\* What appending does to a queue.
LEMMA Appended ==
  ASSUME NEW q, Queue(q), NEW e
  PROVE  /\ Queue(Append(q, e))
         /\ Len(q) \in Nat /\ Len(Append(q, e)) = Len(q) + 1
         /\ \A k \in 1..Len(q) : Append(q, e)[k] = q[k]
         /\ Append(q, e)[Len(q) + 1] = e
  <1>1. PICK S : q \in Seq(S)  BY DEF Queue
  <1>2. q \in Seq(S \cup {e}) /\ e \in S \cup {e}
    BY <1>1, SeqDef
  <1>3. QED  BY <1>2, AppendProperties, LenProperties DEF Queue

\* What taking the first does to a queue.
LEMMA TakenFrom ==
  ASSUME NEW q, Queue(q), q # <<>>
  PROVE  /\ Queue(Tail(q))
         /\ Len(q) \in Nat \ {0} /\ Len(Tail(q)) = Len(q) - 1
         /\ \A k \in 1..Len(Tail(q)) : k + 1 \in 2..Len(q) /\ Tail(q)[k] = q[k + 1]
         /\ Head(q) = q[1]
  <1>1. PICK S : q \in Seq(S)  BY DEF Queue
  <1>2. QED  BY <1>1, HeadTailProperties, LenProperties, EmptySeq DEF Queue

\* An actor of a process that has been started is there.
LEMMA Started ==
  ASSUME NEW s, s.running \in 1..2, NEW a \in Actors
  PROVE  started(s, a)
  BY DEF started, START, Actors

\* c is s but for the mailbox of one actor, which is q.
Differs(s, c, a, q) ==
  /\ Shaped(c)
  /\ c.mailbox[a] = q
  /\ \A b \in Actors \ {a} : c.mailbox[b] = s.mailbox[b]
  /\ \A f \in Fields \ {"mailbox"} : c[f] = s[f]

\* What a cast to it does.
LEMMA Cast ==
  ASSUME NEW s, Shaped(s), s.running \in 1..2, NEW a \in Actors, NEW msg
  PROVE  Differs(s, cast_message(s, a, msg), a, Append(s.mailbox[a], msg))
  <1> DEFINE c == [s EXCEPT !.mailbox[a] = Append(@, msg)]
  <1>1. cast_message(s, a, msg) = c  BY Started DEF cast_message
  <1>2. /\ c = [f \in Fields |-> c[f]]
        /\ c.mailbox = [b \in Actors |-> c.mailbox[b]]
        /\ c.mailbox[a] = Append(s.mailbox[a], msg)
        /\ \A b \in Actors \ {a} : c.mailbox[b] = s.mailbox[b]
        /\ \A f \in Fields \ {"mailbox"} : c[f] = s[f]
    BY FieldNames DEF Shaped
  <1>3. ASSUME NEW b \in Actors PROVE Queue(c.mailbox[b])
    <2>1. Queue(s.mailbox[b])  BY DEF Shaped
    <2>2. CASE b = a
      <3>1. Queue(Append(s.mailbox[b], msg))  BY <2>1, Appended
      <3>2. QED  BY <1>2, <2>2, <3>1
    <2>3. CASE b # a  BY <1>2, <2>1, <2>3
    <2>4. QED  BY <2>2, <2>3
  <1>4. c.handled = s.handled /\ c.running = s.running /\ c.polled = s.polled
    BY <1>2, FieldNames
  <1>5. Shaped(c)  BY <1>2, <1>3, <1>4 DEF Shaped
  <1>6. QED  BY <1>1, <1>2, <1>5 DEF Differs

\* What taking a message from a mailbox does.
LEMMA Take ==
  ASSUME NEW s, Shaped(s), NEW a \in Actors, s.mailbox[a] # <<>>
  PROVE  Differs(s, [s EXCEPT !.mailbox[a] = Tail(@)], a, Tail(s.mailbox[a]))
  <1> DEFINE c == [s EXCEPT !.mailbox[a] = Tail(@)]
  <1>2. /\ c = [f \in Fields |-> c[f]]
        /\ c.mailbox = [b \in Actors |-> c.mailbox[b]]
        /\ c.mailbox[a] = Tail(s.mailbox[a])
        /\ \A b \in Actors \ {a} : c.mailbox[b] = s.mailbox[b]
        /\ \A f \in Fields \ {"mailbox"} : c[f] = s[f]
    BY FieldNames DEF Shaped
  <1>3. ASSUME NEW b \in Actors PROVE Queue(c.mailbox[b])
    <2>1. Queue(s.mailbox[b])  BY DEF Shaped
    <2>2. CASE b = a
      <3>1. Queue(Tail(s.mailbox[b]))  BY <2>1, <2>2, TakenFrom
      <3>2. QED  BY <1>2, <2>2, <3>1
    <2>3. CASE b # a  BY <1>2, <2>1, <2>3
    <2>4. QED  BY <2>2, <2>3
  <1>4. c.handled = s.handled /\ c.running = s.running /\ c.polled = s.polled
    BY <1>2, FieldNames
  <1>5. QED  BY <1>2, <1>3, <1>4 DEF Shaped, Differs

-----------------------------------------------------------------------------
(***************************************************************************)
(* The steps, each of which keeps the process Good.                        *)
(***************************************************************************)
\* What a process is like stays as it is while more is gossiped by others.
LEMMA GoodKept ==
  ASSUME NEW G, NEW H, G \subseteq H, NEW v, NEW s, Good(G, v, s)
  PROVE  Good(H, v, s)
  BY DEF Good, Sourced

\* Nodes are places, and a listening process has been started.
LEMMA Running ==
  ASSUME ListenerInv, NEW v \in Nodes
  PROVE  /\ v \in Places /\ Good(gossiped, v, node[v])
         /\ Listening(v) => node[v].running \in 1..2
         /\ \A a \in Actors : node[v].mailbox[a] # <<>> => node[v].running \in 1..2
         /\ node[v].index # 0 => node[v].running \in 1..2
  <1>1. v \in Places  BY DEF ListenerInv, Nodes, Places
  <1>2. Good(gossiped, v, node[v])  BY <1>1 DEF ListenerInv
  <1>3. node[v].running \in 0..2  BY <1>2 DEF Good, Shaped
  <1>4. Listening(v) => node[v].running # 0
    BY <1>3 DEF Listening, started
  <1>5. QED  BY <1>1, <1>2, <1>3, <1>4 DEF Good, Quiet

\* A step that leaves the elections, the engine and what has come alone.
LEMMA Elsewhere ==
  ASSUME NEW G, NEW H, G \subseteq H, NEW v, NEW s, Good(G, v, s), NEW t, Shaped(t),
         t.running \in 1..2, ~t.lost, ~t.panicked,
         t.polled = s.polled, t.elections = s.elections, t.got = s.got, t.handled = s.handled,
         t.mailbox["ElectionEngine"] = s.mailbox["ElectionEngine"],
         t.mailbox["DkgEngine"] = s.mailbox["DkgEngine"],
         \A k \in 1..Len(t.mailbox["GossipEngine"]) :
           \/ t.mailbox["GossipEngine"][k].type = "Subscribe"
           \/ t.mailbox["GossipEngine"][k] \in H
  PROVE  Good(H, v, t)
  <1>1. Quiet(t)  BY DEF Quiet
  <1>2. Elects(v, t)  BY DEF Good, Elects
  <1>3. Sourced(H, v, t)  BY DEF Good, Sourced
  <1>4. Once(t)  BY DEF Good, Once
  <1>5. QED  BY <1>1, <1>2, <1>3, <1>4 DEF Good

\* What is to be gossiped, with one thing more.
LEMMA GossipPush ==
  ASSUME NEW G, NEW H, G \subseteq H, NEW v, NEW s, Good(G, v, s), NEW e,
         e.type = "Subscribe" \/ e \in H,
         NEW k \in 1..Len(Append(s.mailbox["GossipEngine"], e))
  PROVE  \/ Append(s.mailbox["GossipEngine"], e)[k].type = "Subscribe"
         \/ Append(s.mailbox["GossipEngine"], e)[k] \in H
  <1> DEFINE C == s.mailbox["GossipEngine"]
  <1>1. Queue(C)  BY DEF Good, Shaped, Actors
  <1>2. \A i \in 1..Len(C) : C[i].type = "Subscribe" \/ C[i] \in G
    BY DEF Good, Sourced
  <1>3. /\ Len(C) \in Nat
        /\ Len(Append(C, e)) = Len(C) + 1 /\ Append(C, e)[Len(C) + 1] = e
        /\ \A j \in 1..Len(C) : Append(C, e)[j] = C[j]
    BY <1>1, Appended
  <1>4. k \in 1..Len(C) \/ k = Len(C) + 1  BY <1>3
  <1>5. QED  BY <1>2, <1>3, <1>4

\* What is to be gossiped, with one thing less.
LEMMA GossipPop ==
  ASSUME NEW G, NEW v, NEW s, Good(G, v, s), s.mailbox["GossipEngine"] # <<>>
  PROVE  LET C == s.mailbox["GossipEngine"] IN
         /\ \A k \in 1..Len(Tail(C)) : Tail(C)[k].type = "Subscribe" \/ Tail(C)[k] \in G
         /\ Head(C).type = "Subscribe" \/ Head(C) \in G
  <1> DEFINE C == s.mailbox["GossipEngine"]
  <1>1. Queue(C)  BY DEF Good, Shaped, Actors
  <1>2. \A k \in 1..Len(C) : C[k].type = "Subscribe" \/ C[k] \in G
    BY DEF Good, Sourced
  <1>3. /\ Len(C) \in Nat \ {0} /\ Head(C) = C[1]
        /\ \A k \in 1..Len(Tail(C)) : k + 1 \in 2..Len(C) /\ Tail(C)[k] = C[k + 1]
    BY <1>1, TakenFrom
  <1>4. 1 \in 1..Len(C) /\ 2..Len(C) \subseteq 1..Len(C)  BY <1>3
  <1>5. QED  BY <1>2, <1>3, <1>4

\* Fields that the invariant does not mention, of a process that is running.
Plain == Fields \ {"running", "got", "polled", "panicked", "mailbox", "lost", "handled", "elections"}

\* They may be set.
LEMMA SetOther ==
  ASSUME NEW G, NEW v, NEW s, Good(G, v, s), s.running \in 1..2, NEW t,
         t = [f \in Fields |-> t[f]], \A f \in Fields \ Plain : t[f] = s[f]
  PROVE  Good(G, v, t) /\ t.running = s.running
  <1>1. /\ t.lost = s.lost /\ t.panicked = s.panicked /\ t.polled = s.polled
        /\ t.elections = s.elections /\ t.got = s.got /\ t.handled = s.handled
        /\ t.running = s.running /\ t.mailbox = s.mailbox
    BY FieldNames DEF Plain
  <1>2. Shaped(t)  BY <1>1 DEF Shaped, Good
  <1>3. ~t.lost /\ ~t.panicked  BY <1>1 DEF Good
  <1>4. \A k \in 1..Len(t.mailbox["GossipEngine"]) :
          \/ t.mailbox["GossipEngine"][k].type = "Subscribe"
          \/ t.mailbox["GossipEngine"][k] \in G
    BY <1>1 DEF Good, Sourced
  <1>5. QED  BY <1>1, <1>2, <1>3, <1>4, Elsewhere

\* Something is cast to an actor that the invariant says little about.
LEMMA CastOther ==
  ASSUME NEW G, NEW H, G \subseteq H, NEW v, NEW s, Good(G, v, s), s.running \in 1..2,
         NEW a \in {"GossipEngine", "AppStateEngine"}, NEW msg,
         a = "GossipEngine" => msg.type = "Subscribe" \/ msg \in H
  PROVE  LET c == cast_message(s, a, msg) IN
         Good(H, v, c) /\ \A f \in Fields \ {"mailbox"} : c[f] = s[f]
  <1> DEFINE c == cast_message(s, a, msg)
  <1>1. Shaped(s) /\ a \in Actors  BY DEF Good, Actors
  <1>2. /\ Shaped(c)
        /\ c.mailbox[a] = Append(s.mailbox[a], msg)
        /\ \A b \in Actors \ {a} : c.mailbox[b] = s.mailbox[b]
        /\ \A f \in Fields \ {"mailbox"} : c[f] = s[f]
    <2>1. Differs(s, c, a, Append(s.mailbox[a], msg))  BY <1>1, Cast
    <2> HIDE DEF c
    <2>2. QED  BY <2>1 DEF Differs
  <1> HIDE DEF c
  <1>3. /\ c.lost = s.lost /\ c.panicked = s.panicked /\ c.polled = s.polled
        /\ c.elections = s.elections /\ c.got = s.got /\ c.handled = s.handled
        /\ c.running = s.running
    BY <1>2, FieldNames
  <1>4. ~c.lost /\ ~c.panicked  BY <1>3 DEF Good
  <1>5. \A k \in 1..Len(c.mailbox["GossipEngine"]) :
          \/ c.mailbox["GossipEngine"][k].type = "Subscribe"
          \/ c.mailbox["GossipEngine"][k] \in H
    <2>1. CASE a = "GossipEngine"
      <3>1. c.mailbox["GossipEngine"] = Append(s.mailbox["GossipEngine"], msg)
        BY <1>2, <2>1
      <3>2. msg.type = "Subscribe" \/ msg \in H  BY <2>1
      <3>3. QED  BY <3>1, <3>2, GossipPush
    <2>2. CASE a = "AppStateEngine"
      BY <1>2, <2>2 DEF Actors, Good, Sourced
    <2>3. QED  BY <2>1, <2>2
  <1>6. /\ c.mailbox["ElectionEngine"] = s.mailbox["ElectionEngine"]
        /\ c.mailbox["DkgEngine"] = s.mailbox["DkgEngine"]
    BY <1>2 DEF Actors
  <1>7. Good(H, v, c)  BY <1>2, <1>3, <1>4, <1>5, <1>6, Elsewhere
  <1>8. QED  BY <1>2, <1>7 DEF c

\* Something is cast to the AppState actor.
LEMMA AppCast ==
  ASSUME NEW G, NEW v, NEW s, Good(G, v, s), s.running \in 1..2, NEW msg
  PROVE  LET c == cast_message(s, "AppStateEngine", msg) IN
         Good(G, v, c) /\ c.running \in 1..2
  <1>1. PICK a \in {"GossipEngine", "AppStateEngine"} : a = "AppStateEngine"  OBVIOUS
  <1> DEFINE c == cast_message(s, a, msg)
  <1>2. G \subseteq G /\ a # "GossipEngine"  BY <1>1
  <1>3. Good(G, v, c) /\ \A f \in Fields \ {"mailbox"} : c[f] = s[f]
    BY <1>2, CastOther
  <1> HIDE DEF c
  <1>4. c.running = s.running  BY <1>3, FieldNames
  <1>5. QED  BY <1>1, <1>3, <1>4 DEF c

\* A node's message is given to the GossipEngine actor.
LEMMA GossipCast ==
  ASSUME NEW G, NEW v, NEW s, Good(G, v, s), s.running \in 1..2, NEW m
  PROVE  Good(G \cup {m}, v, cast_message(s, "GossipEngine", m))
  <1>1. PICK a \in {"GossipEngine", "AppStateEngine"} : a = "GossipEngine"  OBVIOUS
  <1> DEFINE H == G \cup {m}
  <1>2. G \subseteq H /\ m \in H  OBVIOUS
  <1> HIDE DEF H
  <1>3. Good(H, v, cast_message(s, a, m))  BY <1>2, CastOther
  <1>4. QED  BY <1>1, <1>3 DEF H

\* What is left when an actor took a message.
OtherTaken(G, v, s, c) == Good(G, v, c) /\ \A f \in Fields \ {"mailbox"} : c[f] = s[f]

\* Such an actor takes a message.
LEMMA TakeOther ==
  ASSUME NEW G, NEW v, NEW s, Good(G, v, s), s.running \in 1..2,
         NEW a \in {"GossipEngine", "AppStateEngine"}, s.mailbox[a] # <<>>
  PROVE  OtherTaken(G, v, s, [s EXCEPT !.mailbox[a] = Tail(@)])
  <1> DEFINE c == [s EXCEPT !.mailbox[a] = Tail(@)]
  <1>1. Shaped(s) /\ a \in Actors  BY DEF Good, Actors
  <1>2. /\ Shaped(c)
        /\ c.mailbox[a] = Tail(s.mailbox[a])
        /\ \A b \in Actors \ {a} : c.mailbox[b] = s.mailbox[b]
        /\ \A f \in Fields \ {"mailbox"} : c[f] = s[f]
    <2>1. Differs(s, c, a, Tail(s.mailbox[a]))  BY <1>1, Take
    <2> HIDE DEF c
    <2>2. QED  BY <2>1 DEF Differs
  <1> HIDE DEF c
  <1>3. /\ c.lost = s.lost /\ c.panicked = s.panicked /\ c.polled = s.polled
        /\ c.elections = s.elections /\ c.got = s.got /\ c.handled = s.handled
        /\ c.running = s.running
    BY <1>2, FieldNames
  <1>4. ~c.lost /\ ~c.panicked  BY <1>3 DEF Good
  <1>5. \A k \in 1..Len(c.mailbox["GossipEngine"]) :
          \/ c.mailbox["GossipEngine"][k].type = "Subscribe"
          \/ c.mailbox["GossipEngine"][k] \in G
    <2>1. CASE a = "GossipEngine"
      <3>1. /\ c.mailbox["GossipEngine"] = Tail(s.mailbox["GossipEngine"])
            /\ s.mailbox["GossipEngine"] # <<>>
        BY <1>2, <2>1
      <3>2. QED  BY <3>1, GossipPop
    <2>2. CASE a = "AppStateEngine"
      BY <1>2, <2>2 DEF Actors, Good, Sourced
    <2>3. QED  BY <2>1, <2>2
  <1>6. /\ c.mailbox["ElectionEngine"] = s.mailbox["ElectionEngine"]
        /\ c.mailbox["DkgEngine"] = s.mailbox["DkgEngine"]
    BY <1>2 DEF Actors
  <1>7. Good(G, v, c)  BY <1>2, <1>3, <1>4, <1>5, <1>6, Elsewhere
  <1>8. QED  BY <1>2, <1>7 DEF c, OtherTaken

\* main starts the next part of a process.
LEMMA MainKeeps ==
  ASSUME ListenerInv, NEW v \in Nodes, main(v)
  PROVE  Good(gossiped', v, node'[v])
  <1> DEFINE s == node[v]
             u == [s EXCEPT !.running = @ + 1]
             t == pre_start(v, u)
  <1>1. v \in Places /\ Good(gossiped, v, s)  BY Running
  <1>2. node'[v] = t /\ gossiped' = gossiped
    BY <1>1 DEF main, becomes, ListenerInv
  <1>3. /\ u = [f \in Fields |-> u[f]] /\ u.running \in 1..2
        /\ \A f \in Fields \ {"running"} : u[f] = s[f]
    <2>1. s.running < 2 /\ s.running \in 0..2 /\ Shaped(s)  BY <1>1 DEF main, START, Good, Shaped
    <2>2. QED  BY <2>1, FieldNames DEF Shaped
  <1> HIDE DEF u
  <1>4. Good(gossiped, v, u)
    <2>1. /\ u.lost = s.lost /\ u.panicked = s.panicked /\ u.polled = s.polled
          /\ u.elections = s.elections /\ u.got = s.got /\ u.handled = s.handled
          /\ u.mailbox = s.mailbox
      BY <1>3, FieldNames
    <2>2. Shaped(u)  BY <1>1, <1>3, <2>1 DEF Shaped, Good
    <2>3. ~u.lost /\ ~u.panicked  BY <1>1, <2>1 DEF Good
    <2>4. \A k \in 1..Len(u.mailbox["GossipEngine"]) :
            \/ u.mailbox["GossipEngine"][k].type = "Subscribe"
            \/ u.mailbox["GossipEngine"][k] \in gossiped
      BY <1>1, <2>1 DEF Good, Sourced
    <2>5. QED  BY <1>1, <1>3, <2>1, <2>2, <2>3, <2>4, Elsewhere
  <1>5. Good(gossiped, v, t)
    <2>1. Good(gossiped, v, cast_message(u, "GossipEngine", Subscribe(v, "verifier")))
      <3>1. Subscribe(v, "verifier").type = "Subscribe"  BY DEF Subscribe
      <3>2. QED  BY <1>3, <1>4, <3>1, CastOther
    <2>2. Good(gossiped, v, [u EXCEPT !.subscribed = {"test-net"}])
      <3> DEFINE w == [u EXCEPT !.subscribed = {"test-net"}]
      <3>1. /\ w = [f \in Fields |-> w[f]]
            /\ \A f \in Fields \ {"subscribed"} : w[f] = u[f]
        BY <1>3, FieldNames
      <3>2. \A f \in Fields \ Plain : w[f] = u[f]  BY <3>1, FieldNames DEF Plain
      <3> HIDE DEF w
      <3>3. Good(gossiped, v, w)  BY <1>3, <1>4, <3>1, <3>2, SetOther
      <3>4. QED  BY <3>3 DEF w
    <2>3. QED  BY <1>4, <2>1, <2>2 DEF pre_start
  <1>6. QED  BY <1>2, <1>5

\* A process gets connected.
LEMMA ConnectKeeps ==
  ASSUME ListenerInv, NEW v \in Nodes, connect(v)
  PROVE  Good(gossiped', v, node'[v])
  <1> DEFINE t == [node[v] EXCEPT !.joined = TRUE]
  <1>1. v \in Places /\ Good(gossiped, v, node[v]) /\ node[v].running \in 1..2
    BY Running DEF connect
  <1>2. node'[v] = t /\ gossiped' = gossiped
    BY <1>1 DEF connect, becomes, ListenerInv
  <1>3. t = [f \in Fields |-> t[f]] /\ \A f \in Fields \ {"joined"} : t[f] = node[v][f]
    BY <1>1, FieldNames DEF Good, Shaped
  <1>4. \A f \in Fields \ Plain : t[f] = node[v][f]  BY <1>3, FieldNames DEF Plain
  <1> HIDE DEF t
  <1>5. QED  BY <1>1, <1>2, <1>3, <1>4, SetOther

\* A process is killed, and one that is not running is Good.
LEMMA OffGood ==
  ASSUME NEW G, NEW v
  PROVE  Good(G, v, Off)
  <1>1. /\ Off.running = 0 /\ Off.index = 0 /\ Off.mailbox = [a \in Actors |-> <<>>]
        /\ Off.lost = FALSE /\ Off.panicked = FALSE /\ Off.polled = FALSE
        /\ Off.handled = <<>> /\ Off.got = {} /\ Off.elections = 0
    BY DEF Off
  <1>2. Off = [f \in Fields |-> Off[f]]  BY DEF Off, Fields
  <1>3. Queue(<<>>) /\ Len(<<>>) = 0  BY EmptySeq DEF Queue
  <1>5. /\ Off.mailbox = [a \in Actors |-> Off.mailbox[a]]
        /\ \A a \in Actors : Off.mailbox[a] = <<>>
    BY <1>1
  <1>4. Shaped(Off)
    <2>1. Off.running \in 0..2  BY <1>1
    <2>2. Off.polled \in BOOLEAN  BY <1>1
    <2>3. Queue(Off.handled)  BY <1>1, <1>3
    <2>4. \A a \in Actors : Queue(Off.mailbox[a])  BY <1>3, <1>5
    <2>5. QED  BY <1>2, <1>5, <2>1, <2>2, <2>3, <2>4 DEF Shaped
  <1>6. /\ Off.mailbox["ElectionEngine"] = <<>> /\ Off.mailbox["DkgEngine"] = <<>>
        /\ Off.mailbox["GossipEngine"] = <<>>
    BY <1>5 DEF Actors
  <1>7. Elects(v, Off)  BY <1>1, <1>3, <1>6 DEF Elects
  <1>8. Sourced(G, v, Off)  BY <1>1, <1>3, <1>6 DEF Sourced
  <1>9. Once(Off)  BY <1>1, <1>3, <1>6 DEF Once, Elected
  <1>10. QED  BY <1>1, <1>4, <1>5, <1>7, <1>8, <1>9 DEF Good, Quiet

\* Types of nodes, by their place.
LEMMA Types ==
  ASSUME num \in Nums, NEW v \in Nodes
  PROVE  /\ node_type(v) = "Relay" <=> v = Relay
         /\ node_type(v) = "Prover" => v # Relay
  <1>1. num \in Nat \ 0..3  BY ListenerAssumption
  <1>2. v \in Nat /\ v # 1 => node_type(v) # "Relay"  BY DEF node_type
  <1>3. node_type(1) = "Relay"  BY <1>1 DEF node_type
  <1>4. QED  BY <1>1, <1>2, <1>3 DEF Nodes, Relay

\* The relay, with nothing to do with an election, is given something.
LEMMA RelayCast ==
  ASSUME NEW G, NEW s, Good(G, Relay, s), s.running \in 1..2,
         s.mailbox["ElectionEngine"] = <<>>, s.elections = 0, s.polled,
         NEW msg, msg.type \in {"CheckElectionStatus", "TriggerElection"}
  PROVE  Good(G, Relay, cast_message(s, "ElectionEngine", msg))
  <1> DEFINE t == cast_message(s, "ElectionEngine", msg)
             E == s.mailbox["ElectionEngine"]
             F == Append(E, msg)
  <1>1. /\ Shaped(t)
        /\ t.mailbox["ElectionEngine"] = F
        /\ t.mailbox["DkgEngine"] = s.mailbox["DkgEngine"]
        /\ t.mailbox["GossipEngine"] = s.mailbox["GossipEngine"]
        /\ \A f \in Fields \ {"mailbox"} : t[f] = s[f]
    <2>1. Shaped(s) /\ "ElectionEngine" \in Actors  BY DEF Good, Actors
    <2>2. Differs(s, t, "ElectionEngine", F)  BY <2>1, Cast
    <2> HIDE DEF t, F
    <2>3. QED  BY <2>2 DEF Differs, Actors
  <1>2. Len(F) = 1 /\ F[1] = msg
    <2>1. Queue(E) /\ Len(<<>>) = 0  BY EmptySeq DEF Good, Shaped, Actors
    <2>2. QED  BY <2>1, Appended
  <1> HIDE DEF t, F
  <1>3. /\ t.lost = s.lost /\ t.panicked = s.panicked /\ t.polled
        /\ t.elections = 0 /\ t.got = s.got /\ t.handled = s.handled
        /\ t.running = s.running
    BY <1>1, FieldNames
  <1>4. Quiet(t)  BY <1>3 DEF Quiet
  <1>5. Elects(Relay, t)  BY <1>1, <1>2, <1>3 DEF Elects
  <1>6. Sourced(G, Relay, t)
    BY <1>1, <1>2, <1>3 DEF Good, Sourced
  <1>7. Once(t)
    <2>1. Elected(t.mailbox["ElectionEngine"]) = {}
      BY <1>1, <1>2 DEF Elected
    <2>2. QED  BY <1>1, <1>3, <2>1 DEF Good, Once
  <1>8. ~t.lost /\ ~t.panicked  BY <1>3 DEF Good
  <1>9. QED  BY <1>1, <1>4, <1>5, <1>6, <1>7, <1>8 DEF Good, t

\* The listener hears of a subscription, and perhaps polls.
LEMMA SubscribedKeeps ==
  ASSUME ListenerInv, NEW v \in Nodes, NEW w \in Nodes, subscribed(v, w)
  PROVE  Good(gossiped', v, node'[v])
  <1>1. v \in Places /\ Good(gossiped, v, node[v]) /\ node[v].running \in 1..2 /\ v = Relay
    BY Running, Types DEF subscribed, ListenerInv
  <1> DEFINE S(topics) == [node[v] EXCEPT !.topics_subscribed = topics]
             T(topics) == cast_message([S(topics) EXCEPT !.polled = TRUE], "ElectionEngine",
                                       [type |-> "CheckElectionStatus"])
  <1>2. PICK topics : becomes(v, S(topics)) \/ (becomes(v, T(topics)) /\ ~node[v].polled)
    BY DEF subscribed, may_poll
  <1> DEFINE s == S(topics)
             p == [s EXCEPT !.polled = TRUE]
             t == cast_message(p, "ElectionEngine", [type |-> "CheckElectionStatus"])
  <1>3. gossiped' = gossiped /\ (node'[v] = s \/ (node'[v] = t /\ ~node[v].polled))
    <2>1. becomes(v, s) \/ (becomes(v, t) /\ ~node[v].polled)  BY <1>2
    <2> HIDE DEF s, t
    <2>2. QED  BY <1>1, <2>1 DEF becomes, ListenerInv
  <1>4. /\ s = [f \in Fields |-> s[f]]
        /\ \A f \in Fields \ Plain : s[f] = node[v][f]
        /\ s.polled = node[v].polled
    <2>1. /\ s = [f \in Fields |-> s[f]]
          /\ \A f \in Fields \ {"topics_subscribed"} : s[f] = node[v][f]
      BY <1>1, FieldNames DEF Good, Shaped
    <2> HIDE DEF s
    <2>2. QED  BY <2>1, FieldNames DEF Plain
  <1> HIDE DEF s
  <1>5. Good(gossiped, v, s) /\ s.running \in 1..2  BY <1>1, <1>4, SetOther
  <1>6. ASSUME ~s.polled PROVE Good(gossiped, v, t)
    <2>1. /\ p = [f \in Fields |-> p[f]] /\ p.polled = TRUE
          /\ \A f \in Fields \ {"polled"} : p[f] = s[f]
      BY <1>5, FieldNames DEF Good, Shaped
    <2> HIDE DEF p
    <2>2. /\ p.lost = s.lost /\ p.panicked = s.panicked /\ p.mailbox = s.mailbox
          /\ p.elections = s.elections /\ p.got = s.got /\ p.handled = s.handled
          /\ p.running = s.running
      BY <2>1, FieldNames
    <2>3. Shaped(p)  BY <1>5, <2>1, <2>2 DEF Shaped, Good
    <2>4. s.mailbox["ElectionEngine"] = <<>> /\ s.elections = 0
      BY <1>1, <1>5, <1>6 DEF Good, Elects
    <2>5. Elects(v, p)  BY <1>1, <2>1, <2>2, <2>4 DEF Elects
    <2>6. Sourced(gossiped, v, p) /\ Once(p)  BY <1>5, <2>2 DEF Good, Sourced, Once
    <2>7. ~p.lost /\ ~p.panicked  BY <1>5, <2>2 DEF Good
    <2>8. Good(gossiped, v, p)
      BY <1>5, <2>2, <2>3, <2>5, <2>6, <2>7 DEF Good, Quiet
    <2> DEFINE msg == [type |-> "CheckElectionStatus"]
    <2>9. msg.type = "CheckElectionStatus" /\ t = cast_message(p, "ElectionEngine", msg)
      OBVIOUS
    <2> HIDE DEF msg, t
    <2>10. /\ Good(gossiped, Relay, p) /\ p.running \in 1..2
           /\ p.mailbox["ElectionEngine"] = <<>> /\ p.elections = 0 /\ p.polled
      BY <2>1, <1>1, <1>5, <2>2, <2>4, <2>8
    <2>11. Good(gossiped, Relay, t)  BY <2>1, <2>9, <2>10, RelayCast
    <2>12. QED  BY <1>1, <2>11
  <1>7. QED  BY <1>3, <1>4, <1>5, <1>6

\* The listener publishes, or subscribes.
LEMMA CommandKeeps ==
  ASSUME ListenerInv, NEW v \in Nodes, command(v)
  PROVE  Good(gossiped', v, node'[v])
  <1> DEFINE m == Head(node[v].mailbox["GossipEngine"])
             s == [node[v] EXCEPT !.mailbox["GossipEngine"] = Tail(@)]
             t == [s EXCEPT !.subscribed = @ \cup {m.data}]
  <1>1. v \in Places /\ Good(gossiped, v, node[v]) /\ node[v].running \in 1..2
    BY Running DEF command
  <1>2. gossiped' = gossiped /\ (node'[v] = s \/ node'[v] = t)
    BY <1>1 DEF command, becomes, ListenerInv
  <1>3. Good(gossiped, v, s) /\ \A f \in Fields \ {"mailbox"} : s[f] = node[v][f]
    <2>1. node[v].mailbox["GossipEngine"] # <<>>  BY DEF command
    <2>2. OtherTaken(gossiped, v, node[v], s)  BY <1>1, <2>1, TakeOther
    <2> HIDE DEF s
    <2>3. QED  BY <2>2 DEF OtherTaken
  <1> HIDE DEF s
  <1>4. /\ t = [f \in Fields |-> t[f]]
        /\ \A f \in Fields \ Plain : t[f] = s[f]
    <2>1. /\ t = [f \in Fields |-> t[f]]
          /\ \A f \in Fields \ {"subscribed"} : t[f] = s[f]
      BY <1>3, FieldNames DEF Good, Shaped
    <2> HIDE DEF t
    <2>2. QED  BY <2>1, FieldNames DEF Plain
  <1>5. s.running \in 1..2  BY <1>1, <1>3, FieldNames
  <1> HIDE DEF t
  <1>6. QED  BY <1>2, <1>3, <1>4, <1>5, SetOther

\* A message comes, and is new.
LEMMA ReceiveKeeps ==
  ASSUME ListenerInv, NEW v \in Nodes, NEW m \in published, receive(v, m)
  PROVE  Good(gossiped', v, node'[v])
  <1> DEFINE s == node[v]
             u == [s EXCEPT !.got = @ \cup {m}]
             t == process_message(u, m)
             E == s.mailbox["ElectionEngine"]
             D == s.mailbox["DkgEngine"]
             check == [type |-> "CheckElectedStatus", of |-> m]
             first == [type |-> "InitRoundOutput", of |-> m]
             threshold == [type |-> "UpdatedThreshold", n |-> m.data.n, t |-> m.data.t]
             c == cast_message(u, "ElectionEngine", check)
             ct == cast_message(c, "AppStateEngine", threshold)
             d == cast_message(u, "DkgEngine", first)
  <1>1. v \in Places /\ Good(gossiped, v, s) /\ s.running \in 1..2
    BY Running DEF receive
  <1>2. /\ node'[v] = t /\ gossiped' = gossiped
        /\ m.from # v /\ m \notin s.got /\ m \in gossiped
        /\ m.type \in {"ElectedProvers", "InitRoundOutput"}
        /\ v # Relay
    BY <1>1, Types DEF receive, becomes, ListenerInv, to_publish, concerns
  <1>3. /\ Shaped(u) /\ u.running \in 1..2 /\ u.mailbox = s.mailbox
        /\ u.got = s.got \cup {m} /\ u.lost = s.lost /\ u.panicked = s.panicked
        /\ u.polled = s.polled /\ u.elections = s.elections /\ u.handled = s.handled
    <2>1. /\ u = [f \in Fields |-> u[f]] /\ u.got = s.got \cup {m}
          /\ \A f \in Fields \ {"got"} : u[f] = s[f]
      BY <1>1, FieldNames DEF Good, Shaped
    <2> HIDE DEF u
    <2>2. /\ u.running = s.running /\ u.mailbox = s.mailbox
          /\ u.lost = s.lost /\ u.panicked = s.panicked
          /\ u.polled = s.polled /\ u.elections = s.elections /\ u.handled = s.handled
      BY <2>1, FieldNames
    <2>3. QED  BY <1>1, <2>1, <2>2 DEF Good, Shaped
  <1> HIDE DEF u
  <1>4. /\ Queue(E) /\ Queue(D) /\ Len(E) \in Nat /\ Len(D) \in Nat
        /\ \A k \in 1..Len(E) : E[k].type = "CheckElectedStatus" /\ E[k].of \in s.got
        /\ \A k \in 1..Len(D) : D[k].type \in {"Init", "InitRoundOutput"} /\ D[k].of \in s.got
        /\ \A k \in 1..Len(s.handled) : s.handled[k] \in s.got
        /\ s.elections = 0 /\ ~s.lost /\ ~s.panicked
    <2>1. Queue(E) /\ Queue(D)  BY <1>1 DEF Good, Shaped, Actors
    <2>2. Len(E) \in Nat /\ Len(D) \in Nat  BY <2>1, Appended
    <2>3. QED  BY <1>1, <1>2, <2>1, <2>2 DEF Good, Elects, Sourced
  <1>5. Good(gossiped, v, c) /\ c.running \in 1..2
    <2>1. /\ Shaped(c)
          /\ c.mailbox["ElectionEngine"] = Append(E, check)
          /\ c.mailbox["DkgEngine"] = D
          /\ c.mailbox["GossipEngine"] = s.mailbox["GossipEngine"]
          /\ \A f \in Fields \ {"mailbox"} : c[f] = u[f]
      <3>1. Shaped(u) /\ u.running \in 1..2 /\ "ElectionEngine" \in Actors  BY <1>3 DEF Actors
      <3>2. Differs(u, c, "ElectionEngine", Append(E, check))
        <4>1. u.mailbox["ElectionEngine"] = E  BY <1>3
        <4> HIDE DEF check, E
        <4>2. QED  BY <3>1, <4>1, Cast
      <3> HIDE DEF c, check
      <3>3. QED  BY <1>3, <3>2 DEF Differs, Actors
    <2> DEFINE F == Append(E, check)
    <2>2. /\ Len(F) = Len(E) + 1
          /\ \A k \in 1..Len(E) : F[k] = E[k]
          /\ F[Len(E) + 1] = check
          /\ check.type = "CheckElectedStatus" /\ check.of = m
      BY <1>4, Appended
    <2>0. c.mailbox["ElectionEngine"] = F  BY <2>1
    <2> HIDE DEF c, check, F
    <2>3. /\ c.running \in 1..2 /\ c.got = s.got \cup {m} /\ ~c.lost /\ ~c.panicked
          /\ c.polled = s.polled /\ c.elections = 0 /\ c.handled = s.handled
      BY <1>3, <1>4, <2>1, FieldNames
    <2>4. \A k \in 1..Len(F) : k \in 1..Len(E) \/ k = Len(E) + 1
      BY <1>4, <2>2
    <2>5. \A k \in 1..Len(F) :
            /\ F[k].type = "CheckElectedStatus"
            /\ k \in 1..Len(E) => F[k].of = E[k].of /\ E[k].of \in s.got
            /\ k \notin 1..Len(E) => F[k].of = m /\ k = Len(E) + 1
      BY <1>4, <2>2, <2>4
    <2>6. Elects(v, c)  BY <1>2, <2>1, <2>3, <2>5 DEF Elects, F
    <2>7. Sourced(gossiped, v, c)
      <3>1. Sourced(gossiped, v, s)  BY <1>1 DEF Good
      <3>2. \A i \in c.got : i \in gossiped /\ i.from # v
        BY <1>2, <2>3, <3>1 DEF Sourced
      <3>3. \A k \in 1..Len(F) : F[k].of \in c.got  BY <2>3, <2>5
      <3>4. /\ \A k \in 1..Len(D) : D[k].of \in c.got
            /\ \A k \in 1..Len(c.handled) : c.handled[k] \in c.got
        BY <1>4, <2>3
      <3>5. QED  BY <1>4, <2>0, <2>1, <3>1, <3>2, <3>3, <3>4 DEF Sourced
    <2>8. Once(c)
      <3>1. Elected(F) = 1..Len(F) /\ Elected(E) = 1..Len(E)
        BY <1>4, <2>5 DEF Elected
      <3>2. Once(s)  BY <1>1 DEF Good
      <3>3. \A j, k \in 1..Len(F) : j # k => F[j].of # F[k].of
        BY <1>2, <2>5, <3>1, <3>2 DEF Once
      <3>4. ASSUME NEW j \in 1..Len(D), NEW k \in 1..Len(F) PROVE D[j].of # F[k].of
        <4>1. CASE k \in 1..Len(E)  BY <2>5, <3>1, <3>2, <4>1 DEF Once
        <4>2. CASE k \notin 1..Len(E)  BY <1>2, <1>4, <2>5, <4>2
        <4>3. QED  BY <4>1, <4>2
      <3>5. ASSUME NEW j \in 1..Len(s.handled), NEW k \in 1..Len(F)
            PROVE  s.handled[j] # F[k].of
        <4>1. CASE k \in 1..Len(E)  BY <2>5, <3>1, <3>2, <4>1 DEF Once
        <4>2. CASE k \notin 1..Len(E)  BY <1>2, <1>4, <2>5, <4>2
        <4>3. QED  BY <4>1, <4>2
      <3>6. /\ c.mailbox["DkgEngine"] = D /\ c.handled = s.handled
            /\ Elected(c.mailbox["ElectionEngine"]) = 1..Len(F)
        BY <2>0, <2>1, <2>3, <3>1
      <3>7. /\ \A j, k \in 1..Len(D) : j # k => D[j].of # D[k].of
            /\ \A j \in 1..Len(s.handled), k \in 1..Len(D) : s.handled[j] # D[k].of
        BY <3>2 DEF Once
      <3> HIDE DEF E, D
      <3>8. QED  BY <2>0, <3>3, <3>4, <3>5, <3>6, <3>7 DEF Once
    <2>9. QED  BY <2>1, <2>3, <2>6, <2>7, <2>8 DEF Good, Quiet
  <1>6. Good(gossiped, v, d) /\ d.running \in 1..2
    <2>1. /\ Shaped(d)
          /\ d.mailbox["DkgEngine"] = Append(D, first)
          /\ d.mailbox["ElectionEngine"] = E
          /\ d.mailbox["GossipEngine"] = s.mailbox["GossipEngine"]
          /\ \A f \in Fields \ {"mailbox"} : d[f] = u[f]
      <3>1. Shaped(u) /\ u.running \in 1..2 /\ "DkgEngine" \in Actors  BY <1>3 DEF Actors
      <3>2. Differs(u, d, "DkgEngine", Append(D, first))
        <4>1. u.mailbox["DkgEngine"] = D  BY <1>3
        <4> HIDE DEF first, D
        <4>2. QED  BY <3>1, <4>1, Cast
      <3> HIDE DEF d, first
      <3>3. QED  BY <1>3, <3>2 DEF Differs, Actors
    <2> DEFINE F == Append(D, first)
    <2>2. /\ Len(F) = Len(D) + 1
          /\ \A k \in 1..Len(D) : F[k] = D[k]
          /\ F[Len(D) + 1] = first
          /\ first.type = "InitRoundOutput" /\ first.of = m
      BY <1>4, Appended
    <2>0. d.mailbox["DkgEngine"] = F  BY <2>1
    <2> HIDE DEF d, first, F
    <2>3. /\ d.running \in 1..2 /\ d.got = s.got \cup {m} /\ ~d.lost /\ ~d.panicked
          /\ d.polled = s.polled /\ d.elections = 0 /\ d.handled = s.handled
      BY <1>3, <1>4, <2>1, FieldNames
    <2>4. \A k \in 1..Len(F) : k \in 1..Len(D) \/ k = Len(D) + 1
      BY <1>4, <2>2
    <2>5. \A k \in 1..Len(F) :
            /\ F[k].type \in {"Init", "InitRoundOutput"}
            /\ k \in 1..Len(D) => F[k].of = D[k].of /\ D[k].of \in s.got
            /\ k \notin 1..Len(D) => F[k].of = m /\ k = Len(D) + 1
      BY <1>4, <2>2, <2>4
    <2>6. Elects(v, d)  BY <1>2, <1>4, <2>1, <2>3 DEF Elects
    <2>7. Sourced(gossiped, v, d)
      <3>1. Sourced(gossiped, v, s)  BY <1>1 DEF Good
      <3>2. \A i \in d.got : i \in gossiped /\ i.from # v
        BY <1>2, <2>3, <3>1 DEF Sourced
      <3>3. \A k \in 1..Len(F) : F[k].type \in {"Init", "InitRoundOutput"} /\ F[k].of \in d.got
        BY <2>3, <2>5
      <3>4. /\ \A k \in 1..Len(E) : E[k].of \in d.got
            /\ \A k \in 1..Len(d.handled) : d.handled[k] \in d.got
        BY <1>4, <2>3
      <3>5. QED  BY <2>0, <2>1, <3>1, <3>2, <3>3, <3>4 DEF Sourced
    <2>8. Once(d)
      <3>1. Elected(E) = 1..Len(E)  BY <1>4 DEF Elected
      <3>2. Once(s)  BY <1>1 DEF Good
      <3>3. \A j, k \in 1..Len(F) : j # k => F[j].of # F[k].of
        BY <1>2, <2>5, <3>1, <3>2 DEF Once
      <3>4. ASSUME NEW j \in 1..Len(F), NEW k \in 1..Len(E) PROVE F[j].of # E[k].of
        <4>1. CASE j \in 1..Len(D)  BY <2>5, <3>1, <3>2, <4>1 DEF Once
        <4>2. CASE j \notin 1..Len(D)  BY <1>2, <1>4, <2>5, <4>2
        <4>3. QED  BY <4>1, <4>2
      <3>5. ASSUME NEW j \in 1..Len(s.handled), NEW k \in 1..Len(F)
            PROVE  s.handled[j] # F[k].of
        <4>1. CASE k \in 1..Len(D)  BY <2>5, <3>2, <4>1 DEF Once
        <4>2. CASE k \notin 1..Len(D)  BY <1>2, <1>4, <2>5, <4>2
        <4>3. QED  BY <4>1, <4>2
      <3>6. /\ d.mailbox["ElectionEngine"] = E /\ d.handled = s.handled
            /\ Elected(d.mailbox["ElectionEngine"]) = 1..Len(E)
        BY <2>1, <2>3, <3>1
      <3>7. /\ \A j, k \in 1..Len(E) : j # k => E[j].of # E[k].of
            /\ \A j \in 1..Len(s.handled), k \in 1..Len(E) : s.handled[j] # E[k].of
        BY <3>1, <3>2 DEF Once
      <3> HIDE DEF E, D
      <3>8. QED  BY <2>0, <3>3, <3>4, <3>5, <3>6, <3>7 DEF Once
    <2>9. QED  BY <2>1, <2>3, <2>6, <2>7, <2>8 DEF Good, Quiet
  <1>7. Good(gossiped, v, ct)
    <2> HIDE DEF c, threshold
    <2>1. QED  BY <1>5, CastOther
  <1>8. t = ct \/ t = d
    <2> HIDE DEF ct, d
    <2>1. QED  BY <1>2 DEF process_message, ct, c, d
  <1>9. QED  BY <1>2, <1>6, <1>7, <1>8

\* The election actor takes a message: of the relay, or of who was elected.
ElectionTaken(G, v, s, c) ==
  LET E == s.mailbox["ElectionEngine"] IN
  /\ Good(G, v, c)
  /\ \A f \in Fields \ {"mailbox"} : c[f] = s[f]
  /\ c.mailbox["DkgEngine"] = s.mailbox["DkgEngine"]
  /\ c.mailbox["ElectionEngine"] = Tail(E)
  /\ v = Relay => Tail(E) = <<>> /\ s.elections = 0 /\ s.polled
                  /\ Head(E).type \in {"CheckElectionStatus", "TriggerElection"}

\* What is left when it has taken one.
LEMMA TakeElection ==
  ASSUME NEW G, NEW v, NEW s, Good(G, v, s), s.running \in 1..2,
         s.mailbox["ElectionEngine"] # <<>>
  PROVE  ElectionTaken(G, v, s, [s EXCEPT !.mailbox["ElectionEngine"] = Tail(@)])
  <1> DEFINE E == s.mailbox["ElectionEngine"]
             c == [s EXCEPT !.mailbox["ElectionEngine"] = Tail(@)]
             D == s.mailbox["DkgEngine"]
             F == Tail(E)
  <1>1. Shaped(s) /\ Queue(E) /\ E # <<>>  BY DEF Good, Shaped, Actors
  <1>2. /\ Shaped(c)
        /\ c.mailbox["ElectionEngine"] = F
        /\ c.mailbox["DkgEngine"] = D
        /\ c.mailbox["GossipEngine"] = s.mailbox["GossipEngine"]
        /\ \A f \in Fields \ {"mailbox"} : c[f] = s[f]
    <2>1. "ElectionEngine" \in Actors  BY DEF Actors
    <2>2. Differs(s, c, "ElectionEngine", F)  BY <1>1, <2>1, Take
    <2> HIDE DEF c, F
    <2>3. QED  BY <2>2 DEF Differs, Actors
  <1>3. /\ Queue(F) /\ Len(E) \in Nat \ {0} /\ Len(F) = Len(E) - 1 /\ Head(E) = E[1]
        /\ \A k \in 1..Len(F) : k + 1 \in 2..Len(E) /\ F[k] = E[k + 1]
    BY <1>1, TakenFrom
  <1>4. Len(F) = 0 => F = <<>>  BY <1>3, EmptySeq DEF Queue
  <1> HIDE DEF c, F
  <1>5. /\ c.running \in 1..2 /\ c.got = s.got /\ c.lost = s.lost /\ c.panicked = s.panicked
        /\ c.polled = s.polled /\ c.elections = s.elections /\ c.handled = s.handled
    BY <1>2, FieldNames
  <1>6. ~c.lost /\ ~c.panicked  BY <1>5 DEF Good
  <1>7. ASSUME v = Relay
        PROVE  /\ F = <<>> /\ s.elections = 0 /\ s.polled
               /\ Head(E).type \in {"CheckElectionStatus", "TriggerElection"}
    BY <1>1, <1>3, <1>4, <1>7 DEF Good, Elects
  <1>8. \A k \in 1..Len(F) : k + 1 \in 1..Len(E) /\ k + 1 # 1 /\ F[k] = E[k + 1]
    BY <1>3
  <1>9. Elects(v, c)
    BY <1>2, <1>5, <1>7, <1>8 DEF Good, Elects
  <1>10. Sourced(G, v, c)
    <2>1. Sourced(G, v, s)  BY DEF Good
    <2>2. \A k \in 1..Len(F) : F[k].type = "CheckElectedStatus" => F[k].of \in s.got
      BY <1>8, <2>1 DEF Sourced
    <2>3. QED  BY <1>2, <1>5, <2>1, <2>2 DEF Sourced
  <1>11. \A j, k \in 1..Len(F) : j # k => j + 1 # k + 1
    BY <1>3
  <1>12. Once(c)
    <2>1. \A k \in Elected(F) : k + 1 \in Elected(E) /\ k \in 1..Len(F) /\ F[k] = E[k + 1]
      BY <1>8 DEF Elected
    <2>2. Once(s)  BY DEF Good
    <2>3. \A j, k \in Elected(F) : j # k => F[j].of # F[k].of
      BY <1>11, <2>1, <2>2 DEF Once
    <2>4. \A j \in 1..Len(D), k \in Elected(F) : D[j].of # F[k].of
      BY <2>1, <2>2 DEF Once
    <2>5. \A j \in 1..Len(s.handled), k \in Elected(F) : s.handled[j] # F[k].of
      BY <2>1, <2>2 DEF Once
    <2>6. QED  BY <1>2, <1>5, <2>2, <2>3, <2>4, <2>5 DEF Once
  <1>13. Good(G, v, c)
    BY <1>2, <1>5, <1>6, <1>9, <1>10, <1>12 DEF Good, Quiet
  <1>14. QED  BY <1>2, <1>7, <1>13 DEF c, F, ElectionTaken

\* What others' election actors take is about a message that is nowhere else.
LEMMA ElectedHead ==
  ASSUME NEW G, NEW v, NEW s, Good(G, v, s), v # Relay,
         s.mailbox["ElectionEngine"] # <<>>
  PROVE  LET E == s.mailbox["ElectionEngine"]
             D == s.mailbox["DkgEngine"]
         IN /\ Head(E).type = "CheckElectedStatus" /\ Head(E).of \in s.got
            /\ \A k \in 1..Len(D) : D[k].of # Head(E).of
            /\ \A k \in 1..Len(s.handled) : s.handled[k] # Head(E).of
            /\ \A k \in 1..Len(Tail(E)) : Tail(E)[k].of # Head(E).of
  <1> DEFINE E == s.mailbox["ElectionEngine"]
             D == s.mailbox["DkgEngine"]
             F == Tail(E)
  <1>1. Queue(E)  BY DEF Good, Shaped, Actors
  <1>2. /\ Len(E) \in Nat \ {0} /\ Head(E) = E[1]
        /\ \A k \in 1..Len(F) : k + 1 \in 2..Len(E) /\ F[k] = E[k + 1]
    BY <1>1, TakenFrom
  <1>3. 1 \in 1..Len(E) /\ \A k \in 1..Len(F) : k + 1 \in 1..Len(E) /\ k + 1 # 1
    BY <1>2
  <1>4. \A k \in 1..Len(E) : E[k].type = "CheckElectedStatus"  BY DEF Good, Elects
  <1>5. Elected(E) = 1..Len(E)  BY <1>4 DEF Elected
  <1>6. /\ \A j, k \in 1..Len(E) : j # k => E[j].of # E[k].of
        /\ \A j \in 1..Len(D), k \in 1..Len(E) : D[j].of # E[k].of
        /\ \A j \in 1..Len(s.handled), k \in 1..Len(E) : s.handled[j] # E[k].of
    BY <1>5 DEF Good, Once
  <1>7. E[1].of \in s.got  BY <1>3, <1>4 DEF Good, Sourced
  <1> HIDE DEF E, D, F
  <1>8. \A k \in 1..Len(F) : F[k].of # E[1].of  BY <1>2, <1>3, <1>6
  <1>9. /\ E[1].type = "CheckElectedStatus"
        /\ \A k \in 1..Len(D) : D[k].of # E[1].of
        /\ \A k \in 1..Len(s.handled) : s.handled[k] # E[1].of
    BY <1>3, <1>4, <1>6
  <1>10. QED  BY <1>2, <1>7, <1>8, <1>9 DEF E, D, F

\* The engine takes a message, and has handled it.
LEMMA HandleDkg ==
  ASSUME NEW G, NEW v, NEW s, Good(G, v, s), s.running \in 1..2,
         s.mailbox["DkgEngine"] # <<>>, NEW t, t = [f \in Fields |-> t[f]],
         \A f \in Fields \ (Plain \cup {"mailbox", "handled"}) : t[f] = s[f],
         t.mailbox = [s.mailbox EXCEPT !["DkgEngine"] = Tail(@)],
         t.handled = Append(s.handled, Head(s.mailbox["DkgEngine"]).of)
  PROVE  /\ Good(G, v, t)
         /\ LET m == Head(s.mailbox["DkgEngine"]).of IN
            m \in s.got /\ \A k \in 1..Len(s.handled) : s.handled[k] # m
  <1> DEFINE E == s.mailbox["ElectionEngine"]
             D == s.mailbox["DkgEngine"]
             F == Tail(D)
             H == s.handled
             m == Head(D).of
             I == Append(H, m)
  <1>1. Shaped(s) /\ Queue(D) /\ D # <<>> /\ Queue(H)  BY DEF Good, Shaped, Actors
  <1>2. /\ Queue(F) /\ Len(D) \in Nat \ {0} /\ Len(F) = Len(D) - 1 /\ Head(D) = D[1]
        /\ \A k \in 1..Len(F) : k + 1 \in 2..Len(D) /\ F[k] = D[k + 1]
    BY <1>1, TakenFrom
  <1>3. /\ Queue(I) /\ Len(H) \in Nat /\ Len(I) = Len(H) + 1 /\ I[Len(H) + 1] = m
        /\ \A k \in 1..Len(H) : I[k] = H[k]
    BY <1>1, Appended
  <1>4. /\ t.mailbox["DkgEngine"] = F /\ t.mailbox["ElectionEngine"] = E
        /\ t.mailbox["GossipEngine"] = s.mailbox["GossipEngine"]
        /\ t.handled = I
        /\ \A a \in Actors : Queue(t.mailbox[a])
        /\ t.mailbox = [a \in Actors |-> t.mailbox[a]]
    BY <1>1, <1>2 DEF Actors, Shaped
  <1> HIDE DEF F, I
  <1>5. /\ t.running \in 1..2 /\ t.got = s.got /\ t.lost = s.lost /\ t.panicked = s.panicked
        /\ t.polled = s.polled /\ t.elections = s.elections
    BY FieldNames DEF Plain
  <1>6. ~t.lost /\ ~t.panicked  BY <1>5 DEF Good
  <1>7. Shaped(t)
    <2>1. t.polled \in BOOLEAN  BY <1>1, <1>5 DEF Shaped
    <2>2. t.running \in 0..2  BY <1>5
    <2>3. QED  BY <1>3, <1>4, <2>1, <2>2 DEF Shaped
  <1>8. \A k \in 1..Len(F) : k + 1 \in 1..Len(D) /\ k + 1 # 1 /\ F[k] = D[k + 1]
    BY <1>2
  <1>9. 1 \in 1..Len(D) /\ D[1].of = m  BY <1>2
  <1>10. \A k \in 1..Len(I) : I[k] = m \/ (k \in 1..Len(H) /\ I[k] = H[k])
    BY <1>3
  <1>11. m \in s.got  BY <1>9 DEF Good, Sourced
  <1>12. Elects(v, t)  BY <1>4, <1>5 DEF Good, Elects
  <1>13. Sourced(G, v, t)
    BY <1>4, <1>5, <1>8, <1>10, <1>11 DEF Good, Sourced
  <1>14. /\ \A j, k \in 1..Len(D) : j # k => D[j].of # D[k].of
         /\ \A j, k \in Elected(E) : j # k => E[j].of # E[k].of
         /\ \A j \in 1..Len(D), k \in Elected(E) : D[j].of # E[k].of
         /\ \A j \in 1..Len(H) :
              /\ \A k \in 1..Len(D) : H[j] # D[k].of
              /\ \A k \in Elected(E) : H[j] # E[k].of
    BY DEF Good, Once
  <1> HIDE DEF E, D, H, m
  <1>15. Once(t)
    <2>1. \A j, k \in 1..Len(F) : j # k => F[j].of # F[k].of
      <3>1. \A j, k \in 1..Len(F) : j # k => j + 1 # k + 1  BY <1>2
      <3>2. QED  BY <1>8, <1>14, <3>1
    <2>2. \A j \in 1..Len(F), k \in Elected(E) : F[j].of # E[k].of
      BY <1>8, <1>14
    <2>3. ASSUME NEW j \in 1..Len(I), NEW k \in 1..Len(F) PROVE I[j] # F[k].of
      <3>0. F[k] = D[k + 1] /\ k + 1 \in 1..Len(D) /\ k + 1 # 1  BY <1>8
      <3>1. CASE I[j] = m
        <4>1. D[1].of # D[k + 1].of  BY <1>9, <1>14, <3>0
        <4>2. QED  BY <1>9, <3>0, <3>1, <4>1
      <3>2. CASE j \in 1..Len(H) /\ I[j] = H[j]  BY <1>14, <3>0, <3>2
      <3>3. QED  BY <1>10, <3>1, <3>2
    <2>4. ASSUME NEW j \in 1..Len(I), NEW k \in Elected(E) PROVE I[j] # E[k].of
      <3>1. CASE I[j] = m  BY <1>9, <1>14, <3>1
      <3>2. CASE j \in 1..Len(H) /\ I[j] = H[j]  BY <1>14, <3>2
      <3>3. QED  BY <1>10, <3>1, <3>2
    <2>5. \A j, k \in Elected(E) : j # k => E[j].of # E[k].of
      BY <1>14
    <2>6. QED  BY <1>4, <2>1, <2>2, <2>3, <2>4, <2>5, SMTT(30) DEF Once
  <1>16. Good(G, v, t)
    BY <1>5, <1>6, <1>7, <1>12, <1>13, <1>15 DEF Good, Quiet
  <1>17. \A k \in 1..Len(H) : H[k] # m  BY <1>9, <1>14
  <1>18. QED  BY <1>11, <1>16, <1>17 DEF m, H, D

-----------------------------------------------------------------------------
\* Who the election actor's messages are for.
LEMMA ElectionFor ==
  ASSUME ListenerInv, NEW v \in Nodes, NEW type, has(v, "ElectionEngine", type)
  PROVE  /\ v \in Places /\ Good(gossiped, v, node[v]) /\ node[v].running \in 1..2
         /\ node[v].mailbox["ElectionEngine"] # <<>>
         /\ type = "CheckElectedStatus" => v # Relay
         /\ type # "CheckElectedStatus" => v = Relay
  <1>1. node[v].mailbox["ElectionEngine"] # <<>> /\ Head(node[v].mailbox["ElectionEngine"]).type = type
    BY DEF has, Next_of
  <1>2. v \in Places /\ Good(gossiped, v, node[v]) /\ node[v].running \in 1..2
    BY <1>1, Running DEF Actors
  <1>3. /\ v = Relay => type \in {"CheckElectionStatus", "TriggerElection"}
        /\ v # Relay => type = "CheckElectedStatus"
    <2> DEFINE E == node[v].mailbox["ElectionEngine"]
    <2>1. Queue(E) /\ E # <<>>  BY <1>1, <1>2 DEF Good, Shaped, Actors
    <2>2. 1 \in 1..Len(E) /\ Head(E) = E[1] /\ Len(E) \in Nat  BY <2>1, TakenFrom
    <2>3. v # Relay => E[1].type = "CheckElectedStatus"
      BY <1>2, <2>2 DEF Good, Elects
    <2>4. v = Relay => E[1].type \in {"CheckElectionStatus", "TriggerElection"}
      BY <1>1, <1>2 DEF Good, Elects
    <2>5. QED  BY <1>1, <2>2, <2>3, <2>4
  <1>4. QED  BY <1>1, <1>2, <1>3

\* The relay's election actor sees that there is to be an election.
LEMMA CheckElectionStatusKeeps ==
  ASSUME ListenerInv, NEW v \in Nodes, handle_check_election_status(v)
  PROVE  Good(gossiped', v, node'[v])
  <1> DEFINE s == node[v]
             c == [s EXCEPT !.mailbox["ElectionEngine"] = Tail(@)]
             u == [c EXCEPT !.current_state = "CollectedProposals"]
             msg == [type |-> "TriggerElection"]
             t == cast_message(u, "ElectionEngine", msg)
  <1>1. /\ v \in Places /\ Good(gossiped, v, s) /\ s.running \in 1..2 /\ v = Relay
        /\ s.mailbox["ElectionEngine"] # <<>>
    BY ElectionFor DEF handle_check_election_status
  <1>2. node'[v] = t /\ gossiped' = gossiped
    BY <1>1 DEF handle_check_election_status, becomes, Taken, ListenerInv
  <1>3. /\ Good(gossiped, v, c)
        /\ \A f \in Fields \ {"mailbox"} : c[f] = s[f]
        /\ c.mailbox["ElectionEngine"] = <<>> /\ s.elections = 0 /\ s.polled
    <2>1. ElectionTaken(gossiped, v, s, c)  BY <1>1, TakeElection
    <2> HIDE DEF c
    <2>2. QED  BY <1>1, <2>1 DEF ElectionTaken
  <1> HIDE DEF c
  <1>4. c.running \in 1..2 /\ c.elections = 0 /\ c.polled
    BY <1>1, <1>3, FieldNames
  <1>5. /\ u = [f \in Fields |-> u[f]]
        /\ \A f \in Fields \ {"current_state"} : u[f] = c[f]
    BY <1>3, FieldNames DEF Good, Shaped
  <1> HIDE DEF u
  <1>6. /\ \A f \in Fields \ Plain : u[f] = c[f]
        /\ u.mailbox = c.mailbox /\ u.elections = c.elections /\ u.polled = c.polled
    BY <1>5, FieldNames DEF Plain
  <1>7. Good(gossiped, v, u) /\ u.running \in 1..2
    BY <1>3, <1>4, <1>5, <1>6, SetOther
  <1>8. Good(gossiped, v, t)
    <2>1. msg.type = "TriggerElection"  OBVIOUS
    <2> HIDE DEF msg, t
    <2>2. t = cast_message(u, "ElectionEngine", msg)  BY DEF t
    <2>3. /\ Good(gossiped, Relay, u) /\ u.mailbox["ElectionEngine"] = <<>>
          /\ u.elections = 0 /\ u.polled
      BY <1>1, <1>3, <1>4, <1>6, <1>7
    <2>4. Good(gossiped, Relay, t)  BY <1>7, <2>1, <2>2, <2>3, RelayCast
    <2>5. QED  BY <1>1, <2>4
  <1>9. QED  BY <1>2, <1>8

\* The relay's election actor holds the election, and has it gossiped.
LEMMA TriggerElectionKeeps ==
  ASSUME ListenerInv, NEW v \in Nodes, handle_trigger_election(v)
  PROVE  Good(gossiped', v, node'[v])
  <1> DEFINE s == node[v]
             c == [s EXCEPT !.mailbox["ElectionEngine"] = Tail(@)]
             u == [c EXCEPT !.current_state = "QuorumElected", !.elections = @ + 1]
             peers == fetch_provers
             n == Len(peers)
             th == calculate_threshold(n)
             m1 == [type |-> "UpdateElectedProvers", peers |-> peers]
             m2 == [type |-> "UpdatedThreshold", n |-> n, t |-> th]
             x == cast_message(u, "AppStateEngine", m1)
             y == cast_message(x, "AppStateEngine", m2)
             m == Message(v, "ElectedProvers", [n |-> n, t |-> th, peers |-> peers])
             t == cast_message(y, "GossipEngine", m)
  <1>1. /\ v \in Places /\ Good(gossiped, v, s) /\ s.running \in 1..2 /\ v = Relay
        /\ s.mailbox["ElectionEngine"] # <<>>
    BY ElectionFor DEF handle_trigger_election
  <1>2. node'[v] = t /\ gossiped' = gossiped \cup {m}
    <2>1. gossips(v, y, m)  BY DEF handle_trigger_election, Taken
    <2> HIDE DEF y, m
    <2>2. QED  BY <1>1, <2>1 DEF gossips, ListenerInv
  <1>3. /\ Good(gossiped, v, c)
        /\ \A f \in Fields \ {"mailbox"} : c[f] = s[f]
        /\ c.mailbox["ElectionEngine"] = <<>> /\ s.elections = 0 /\ s.polled
    <2>1. ElectionTaken(gossiped, v, s, c)  BY <1>1, TakeElection
    <2> HIDE DEF c
    <2>2. QED  BY <1>1, <2>1 DEF ElectionTaken
  <1> HIDE DEF c
  <1>4. c.running \in 1..2 /\ c.elections = 0 /\ c.polled
    BY <1>1, <1>3, FieldNames
  <1>5. /\ u = [f \in Fields |-> u[f]] /\ u.elections = 1
        /\ \A f \in Fields \ {"current_state", "elections"} : u[f] = c[f]
    <2>1. c = [f \in Fields |-> c[f]]  BY <1>3 DEF Good, Shaped
    <2>2. u.elections = c.elections + 1  BY <2>1, FieldNames
    <2>3. /\ u = [f \in Fields |-> u[f]]
          /\ \A f \in Fields \ {"current_state", "elections"} : u[f] = c[f]
      BY <2>1, FieldNames
    <2>4. QED  BY <1>4, <2>2, <2>3
  <1> HIDE DEF u
  <1>6. Good(gossiped, v, u) /\ u.running \in 1..2
    <2>1. /\ u.mailbox = c.mailbox /\ u.polled = c.polled /\ u.got = c.got
          /\ u.handled = c.handled /\ u.lost = c.lost /\ u.panicked = c.panicked
          /\ u.running = c.running
      BY <1>5, FieldNames
    <2>2. Shaped(u)  BY <1>3, <1>5, <2>1 DEF Good, Shaped
    <2>3. Elects(v, u)  BY <1>1, <1>3, <1>4, <1>5, <2>1 DEF Elects
    <2>4. Sourced(gossiped, v, u) /\ Once(u)  BY <1>3, <2>1 DEF Good, Sourced, Once
    <2>5. ~u.lost /\ ~u.panicked  BY <1>3, <2>1 DEF Good
    <2>6. QED  BY <1>4, <2>1, <2>2, <2>3, <2>4, <2>5 DEF Good, Quiet
  <1> HIDE DEF m1, m2, m
  <1>7. Good(gossiped, v, x) /\ x.running \in 1..2
    BY <1>6, AppCast
  <1> HIDE DEF x
  <1>8. Good(gossiped, v, y) /\ y.running \in 1..2
    BY <1>7, AppCast
  <1> HIDE DEF y
  <1>9. Good(gossiped \cup {m}, v, t)  BY <1>8, GossipCast
  <1>10. QED  BY <1>2, <1>9

\* The engine is given a message that has come, and is nowhere else.
LEMMA DkgCast ==
  ASSUME NEW G, NEW v, NEW s, Good(G, v, s), s.running \in 1..2, v # Relay,
         NEW msg, msg.type = "Init", msg.of \in s.got,
         \A k \in 1..Len(s.mailbox["DkgEngine"]) : s.mailbox["DkgEngine"][k].of # msg.of,
         \A k \in 1..Len(s.mailbox["ElectionEngine"]) : s.mailbox["ElectionEngine"][k].of # msg.of,
         \A k \in 1..Len(s.handled) : s.handled[k] # msg.of
  PROVE  LET c == cast_message(s, "DkgEngine", msg) IN Good(G, v, c) /\ c.running \in 1..2
  <1> DEFINE c == cast_message(s, "DkgEngine", msg)
             E == s.mailbox["ElectionEngine"]
             D == s.mailbox["DkgEngine"]
             H == s.handled
             F == Append(D, msg)
  <1>1. /\ Shaped(c)
        /\ c.mailbox["DkgEngine"] = F
        /\ c.mailbox["ElectionEngine"] = E
        /\ c.mailbox["GossipEngine"] = s.mailbox["GossipEngine"]
        /\ \A f \in Fields \ {"mailbox"} : c[f] = s[f]
    <2>1. Shaped(s) /\ "DkgEngine" \in Actors  BY DEF Good, Actors
    <2>2. Differs(s, c, "DkgEngine", F)  BY <2>1, Cast
    <2> HIDE DEF c, F
    <2>3. QED  BY <2>2 DEF Differs, Actors
  <1>2. /\ Len(D) \in Nat /\ Len(F) = Len(D) + 1 /\ F[Len(D) + 1] = msg
        /\ \A k \in 1..Len(D) : F[k] = D[k]
    <2>1. Queue(D)  BY DEF Good, Shaped, Actors
    <2>2. QED  BY <2>1, Appended
  <1>3. /\ \A j, k \in 1..Len(D) : j # k => D[j].of # D[k].of
        /\ \A j, k \in Elected(E) : j # k => E[j].of # E[k].of
        /\ \A j \in 1..Len(D), k \in Elected(E) : D[j].of # E[k].of
        /\ \A j \in 1..Len(H) :
             /\ \A k \in 1..Len(D) : H[j] # D[k].of
             /\ \A k \in Elected(E) : H[j] # E[k].of
    BY DEF Good, Once
  <1>4. \A k \in Elected(E) : E[k].of # msg.of  BY DEF Elected
  <1> HIDE DEF c, F
  <1>5. /\ c.lost = s.lost /\ c.panicked = s.panicked /\ c.polled = s.polled
        /\ c.elections = s.elections /\ c.got = s.got /\ c.handled = s.handled
        /\ c.running = s.running
    BY <1>1, FieldNames
  <1>6. \A k \in 1..Len(F) : F[k] = msg \/ (k \in 1..Len(D) /\ F[k] = D[k])
    BY <1>2
  <1>7. \A j, k \in 1..Len(F) : j # k =>
          (j \in 1..Len(D) /\ F[j] = D[j]) \/ (k \in 1..Len(D) /\ F[k] = D[k])
    BY <1>2
  <1>8. Once(c)
    <2>1. \A j, k \in 1..Len(F) : j # k => F[j].of # F[k].of
      BY <1>3, <1>6, <1>7
    <2>2. \A j \in 1..Len(F), k \in Elected(E) : F[j].of # E[k].of
      BY <1>3, <1>4, <1>6
    <2>3. \A j \in 1..Len(H), k \in 1..Len(F) : H[j] # F[k].of
      BY <1>3, <1>6
    <2>4. QED  BY <1>1, <1>3, <1>5, <2>1, <2>2, <2>3 DEF Once
  <1>9. Elects(v, c)  BY <1>1, <1>5 DEF Good, Elects
  <1>10. Sourced(G, v, c)  BY <1>1, <1>5, <1>6 DEF Good, Sourced
  <1>11. ~c.lost /\ ~c.panicked  BY <1>5 DEF Good
  <1>12. Good(G, v, c) /\ c.running \in 1..2
    BY <1>1, <1>5, <1>8, <1>9, <1>10, <1>11 DEF Good, Quiet
  <1>13. QED  BY <1>12 DEF c

\* A prover's election actor looks whether it was elected.
LEMMA CheckElectedStatusKeeps ==
  ASSUME ListenerInv, NEW v \in Nodes, handle_check_elected_status(v)
  PROVE  Good(gossiped', v, node'[v])
  <1> DEFINE s == node[v]
             E == s.mailbox["ElectionEngine"]
             m == Head(E).of
             peers == m.data.peers
             c == [s EXCEPT !.mailbox["ElectionEngine"] = Tail(@)]
             init == [type |-> "Init", of |-> m, idx |-> idx(v, peers), n |-> Len(peers),
                      threshold |-> calculate_threshold(Len(peers))]
             update == [type |-> "UpdateNodeIdx", idx |-> idx(v, peers)]
             d == cast_message(c, "DkgEngine", init)
             t == cast_message(d, "AppStateEngine", update)
  <1>1. /\ v \in Places /\ Good(gossiped, v, s) /\ s.running \in 1..2 /\ v # Relay
        /\ E # <<>>
    BY ElectionFor DEF handle_check_elected_status
  <1>2. gossiped' = gossiped /\ (node'[v] = t \/ node'[v] = c)
    <2>1. becomes(v, t) \/ becomes(v, c)
      BY DEF handle_check_elected_status, Taken, Next_of
    <2> HIDE DEF t, c
    <2>2. QED  BY <1>1, <2>1 DEF becomes, ListenerInv
  <1>3. /\ Good(gossiped, v, c)
        /\ \A f \in Fields \ {"mailbox"} : c[f] = s[f]
        /\ c.mailbox["DkgEngine"] = s.mailbox["DkgEngine"]
        /\ c.mailbox["ElectionEngine"] = Tail(E)
    <2>1. ElectionTaken(gossiped, v, s, c)  BY <1>1, TakeElection
    <2> HIDE DEF c
    <2>2. QED  BY <1>1, <2>1 DEF ElectionTaken
  <1>4. /\ m \in s.got
        /\ \A k \in 1..Len(s.mailbox["DkgEngine"]) : s.mailbox["DkgEngine"][k].of # m
        /\ \A k \in 1..Len(s.handled) : s.handled[k] # m
        /\ \A k \in 1..Len(Tail(E)) : Tail(E)[k].of # m
    BY <1>1, ElectedHead
  <1>5. init.type = "Init" /\ init.of = m  OBVIOUS
  <1> HIDE DEF c, init, update, m, E
  <1>6. c.running \in 1..2 /\ c.got = s.got /\ c.handled = s.handled
    BY <1>1, <1>3, FieldNames
  <1>7. Good(gossiped, v, d) /\ d.running \in 1..2
    BY <1>1, <1>3, <1>4, <1>5, <1>6, DkgCast
  <1> HIDE DEF d
  <1>8. Good(gossiped, v, t)  BY <1>7, AppCast
  <1>9. QED  BY <1>2, <1>3, <1>8

\* The engine is initialised.
LEMMA InitKeeps ==
  ASSUME ListenerInv, NEW v \in Nodes, handle_init(v)
  PROVE  Good(gossiped', v, node'[v])
  <1> DEFINE s == node[v]
             D == s.mailbox["DkgEngine"]
             msg == Head(D)
             u == [[s EXCEPT !.mailbox["DkgEngine"] = Tail(@)] EXCEPT
                     !.index = msg.idx, !.total_nodes = msg.n - 1, !.threshold = msg.threshold,
                     !.heard = {}, !.keyed = FALSE, !.handled = Append(@, msg.of)]
             m == Message(v, "InitRoundOutput", <<>>)
             t == cast_message(u, "GossipEngine", m)
  <1>1. /\ v \in Places /\ Good(gossiped, v, s) /\ s.running \in 1..2 /\ D # <<>>
    BY Running DEF handle_init, has, Actors
  <1>2. node'[v] = t /\ gossiped' = gossiped \cup {m}
    <2>1. gossips(v, u, m)  BY DEF handle_init, Taken, Next_of
    <2> HIDE DEF u, m
    <2>2. QED  BY <1>1, <2>1 DEF gossips, ListenerInv
  <1>3. /\ u = [f \in Fields |-> u[f]]
        /\ \A f \in Fields \ {"mailbox", "handled", "index", "total_nodes", "threshold", "heard", "keyed"} :
             u[f] = s[f]
        /\ u.mailbox = [s.mailbox EXCEPT !["DkgEngine"] = Tail(@)]
        /\ u.handled = Append(s.handled, msg.of)
    <2>1. s = [f \in Fields |-> s[f]]  BY <1>1 DEF Good, Shaped
    <2>2. QED  BY <2>1, FieldNames
  <1> HIDE DEF u, m
  <1>4. \A f \in Fields \ (Plain \cup {"mailbox", "handled"}) : u[f] = s[f]
    BY <1>3, FieldNames DEF Plain
  <1>5. Good(gossiped, v, u)  BY <1>1, <1>3, <1>4, HandleDkg
  <1>6. u.running \in 1..2  BY <1>1, <1>3, FieldNames
  <1>7. Good(gossiped \cup {m}, v, t)  BY <1>5, <1>6, GossipCast
  <1>8. QED  BY <1>2, <1>7

\* The engine hears of another participant.
LEMMA InitRoundOutputKeeps ==
  ASSUME ListenerInv, NEW v \in Nodes, handle_init_round_output(v)
  PROVE  Good(gossiped', v, node'[v])
  <1> DEFINE s == node[v]
             D == s.mailbox["DkgEngine"]
             m == Head(D).of
             u == [[s EXCEPT !.mailbox["DkgEngine"] = Tail(@)] EXCEPT
                     !.handled = Append(@, m),
                     !.heard = IF s.index = 0 THEN @ ELSE @ \cup {m.from}]
  <1>1. /\ v \in Places /\ Good(gossiped, v, s) /\ s.running \in 1..2 /\ D # <<>>
    BY Running DEF handle_init_round_output, has, Actors
  <1>2. node'[v] = u /\ gossiped' = gossiped
    <2>1. becomes(v, u)  BY DEF handle_init_round_output, Taken, Next_of
    <2> HIDE DEF u, m
    <2>2. QED  BY <1>1, <2>1 DEF becomes, ListenerInv
  <1>3. /\ u = [f \in Fields |-> u[f]]
        /\ \A f \in Fields \ {"mailbox", "handled", "heard"} : u[f] = s[f]
        /\ u.mailbox = [s.mailbox EXCEPT !["DkgEngine"] = Tail(@)]
        /\ u.handled = Append(s.handled, m)
    <2>1. s = [f \in Fields |-> s[f]]  BY <1>1 DEF Good, Shaped
    <2>2. QED  BY <2>1, FieldNames
  <1> HIDE DEF u
  <1>4. \A f \in Fields \ (Plain \cup {"mailbox", "handled"}) : u[f] = s[f]
    BY <1>3, FieldNames DEF Plain
  <1>5. Good(gossiped, v, u)  BY <1>1, <1>3, <1>4, HandleDkg
  <1>6. QED  BY <1>2, <1>5

\* The engine ends with a key.
LEMMA StoreSharesKeeps ==
  ASSUME ListenerInv, NEW v \in Nodes, store_shares(v)
  PROVE  Good(gossiped', v, node'[v])
  <1> DEFINE s == node[v]
             u == [s EXCEPT !.keyed = TRUE]
             msg == [type |-> "StoreKeyShares"]
             t == cast_message(u, "AppStateEngine", msg)
  <1>1. v \in Places /\ Good(gossiped, v, s) /\ s.running \in 1..2
    BY Running DEF store_shares
  <1>2. node'[v] = t /\ gossiped' = gossiped
    <2>1. becomes(v, t)  BY DEF store_shares
    <2> HIDE DEF t
    <2>2. QED  BY <1>1, <2>1 DEF becomes, ListenerInv
  <1>3. /\ u = [f \in Fields |-> u[f]]
        /\ \A f \in Fields \ {"keyed"} : u[f] = s[f]
    BY <1>1, FieldNames DEF Good, Shaped
  <1> HIDE DEF u, msg
  <1>4. \A f \in Fields \ Plain : u[f] = s[f]  BY <1>3, FieldNames DEF Plain
  <1>5. Good(gossiped, v, u) /\ u.running \in 1..2  BY <1>1, <1>3, <1>4, SetOther
  <1>6. Good(gossiped, v, t)  BY <1>5, AppCast
  <1>7. QED  BY <1>2, <1>6

\* The AppState actor handles a message.
LEMMA AppStateKeeps ==
  ASSUME ListenerInv, NEW v \in Nodes, app_state(v)
  PROVE  Good(gossiped', v, node'[v])
  <1> DEFINE msg == Next_of(v, "AppStateEngine")
             s == [node[v] EXCEPT !.mailbox["AppStateEngine"] = Tail(@)]
  <1>1. /\ v \in Places /\ Good(gossiped, v, node[v]) /\ node[v].running \in 1..2
        /\ node[v].mailbox["AppStateEngine"] # <<>>
    BY Running DEF app_state, Actors
  <1>2. Good(gossiped, v, s) /\ s.running \in 1..2
    <2>1. OtherTaken(gossiped, v, node[v], s)  BY <1>1, TakeOther
    <2> HIDE DEF s
    <2>2. QED  BY <1>1, <2>1, FieldNames DEF OtherTaken
  <1> DEFINE t == node'[v]
  <1>3. gossiped' = gossiped /\
        \/ t = [s EXCEPT !.n = msg.n, !.t = msg.t]
        \/ t = [s EXCEPT !.active_provers = msg.peers]
        \/ t = [s EXCEPT !.my_node_idx = msg.idx]
        \/ t = [s EXCEPT !.shares = @ \cup {s.my_node_idx}]
        \/ t = s
    <2>1. \/ becomes(v, [s EXCEPT !.n = msg.n, !.t = msg.t])
          \/ becomes(v, [s EXCEPT !.active_provers = msg.peers])
          \/ becomes(v, [s EXCEPT !.my_node_idx = msg.idx])
          \/ becomes(v, [s EXCEPT !.shares = @ \cup {s.my_node_idx}])
          \/ becomes(v, s)
      BY DEF app_state, Taken
    <2> HIDE DEF s
    <2>2. QED  BY <1>1, <2>1 DEF becomes, ListenerInv
  <1> HIDE DEF s, t
  <1>4. /\ t = [f \in Fields |-> t[f]]
        /\ \A f \in Fields \ {"n", "t", "active_provers", "my_node_idx", "shares"} : t[f] = s[f]
    <2>1. s = [f \in Fields |-> s[f]]  BY <1>2 DEF Good, Shaped
    <2>2. QED  BY <1>3, <2>1, FieldNames
  <1>5. \A f \in Fields \ Plain : t[f] = s[f]  BY <1>4, FieldNames DEF Plain
  <1>6. QED  BY <1>2, <1>3, <1>4, <1>5, SetOther DEF t

\* A process is killed.
LEMMA CrashKeeps ==
  ASSUME ListenerInv, NEW v \in Nodes, crash(v)
  PROVE  Good(gossiped', v, node'[v])
  <1>1. v \in Places  BY Running
  <1>2. node'[v] = Off  BY <1>1 DEF crash, becomes, ListenerInv
  <1> HIDE DEF Off
  <1>3. QED  BY <1>2, OffGood

-----------------------------------------------------------------------------
(***************************************************************************)
(* The invariant.                                                          *)
(***************************************************************************)

\* What all steps of a node have in common.
Step(v) ==
  /\ num' = num
  /\ \E t : node' = [node EXCEPT ![v] = t]
  /\ \/ gossiped' = gossiped
     \/ \E m : m.type \in to_publish /\ m.from = v /\ gossiped' = gossiped \cup {m}
  /\ \/ published' = published
     \/ \E m \in gossiped : published' = published \cup {m}

\* Who becomes something takes such a step.
LEMMA BecomesStep ==
  ASSUME NEW v, NEW s, becomes(v, s), num' = num, published' = published
  PROVE  Step(v)
  BY DEF Step, becomes

\* And who has something gossiped.
LEMMA GossipsStep ==
  ASSUME NEW v, NEW s, NEW m, m.type \in to_publish, m.from = v, gossips(v, s, m),
         num' = num, published' = published
  PROVE  Step(v)
  BY DEF Step, gossips

\* Such a step keeps the invariant, if it keeps the process of the node.
LEMMA StepKeeps ==
  ASSUME ListenerInv, NEW v \in Nodes, Step(v), Good(gossiped', v, node'[v])
  PROVE  ListenerInv'
  <1>1. PICK t : node' = [node EXCEPT ![v] = t]  BY DEF Step
  <1>2. gossiped \subseteq gossiped' /\ num' = num  BY DEF Step
  <1>3. \A m \in gossiped' : m.type \in to_publish  BY DEF Step, ListenerInv
  <1>4. published' \subseteq gossiped'  BY <1>2 DEF Step, ListenerInv
  <1>5. node' = [w \in Places |-> node'[w]]  BY <1>1 DEF ListenerInv
  <1>6. ASSUME NEW w \in Places PROVE Good(gossiped', w, node'[w])
    <2>1. CASE w = v  BY <2>1
    <2>2. CASE w # v
      <3>1. node'[w] = node[w] /\ Good(gossiped, w, node[w])
        BY <1>1, <2>2 DEF ListenerInv
      <3>2. QED  BY <1>2, <3>1, GoodKept
    <2>3. QED  BY <2>1, <2>2
  <1>7. QED  BY <1>2, <1>3, <1>4, <1>5, <1>6 DEF ListenerInv

\* What the actors gossip is to be published.
LEMMA HandleStep ==
  ASSUME NEW v, handle(v)
  PROVE  Step(v)
  <1>1. num' = num /\ published' = published  BY DEF handle
  <1>2. CASE handle_check_election_status(v)
    BY <1>1, <1>2, BecomesStep DEF handle_check_election_status
  <1>3. CASE handle_trigger_election(v)
    <2>1. \A d : LET m == Message(v, "ElectedProvers", d) IN m.type \in to_publish /\ m.from = v
      BY DEF Message, to_publish
    <2>2. QED  BY <1>1, <1>3, <2>1, GossipsStep DEF handle_trigger_election
  <1>4. CASE handle_check_elected_status(v)
    BY <1>1, <1>4, BecomesStep DEF handle_check_elected_status
  <1>5. CASE handle_init(v)
    <2>1. \A d : LET m == Message(v, "InitRoundOutput", d) IN m.type \in to_publish /\ m.from = v
      BY DEF Message, to_publish
    <2>2. QED  BY <1>1, <1>5, <2>1, GossipsStep DEF handle_init
  <1>6. CASE handle_init_round_output(v)
    BY <1>1, <1>6, BecomesStep DEF handle_init_round_output
  <1>7. CASE store_shares(v)  BY <1>1, <1>7, BecomesStep DEF store_shares
  <1>8. CASE app_state(v)  BY <1>1, <1>8, BecomesStep DEF app_state
  <1>9. QED  BY <1>2, <1>3, <1>4, <1>5, <1>6, <1>7, <1>8 DEF handle

\* The listener publishes what was gossiped.
LEMMA CommandStep ==
  ASSUME ListenerInv, NEW v \in Nodes, command(v)
  PROVE  Step(v)
  <1> DEFINE m == Head(node[v].mailbox["GossipEngine"])
  <1>1. Good(gossiped, v, node[v]) /\ node[v].mailbox["GossipEngine"] # <<>>
    BY Running DEF command
  <1>2. m.type = "Subscribe" \/ m \in gossiped  BY <1>1, GossipPop
  <1>3. published' = published \/ (m.type \in to_publish /\ published' = published \cup {m})
    BY DEF command
  <1>4. published' = published \/ (m \in gossiped /\ published' = published \cup {m})
    BY <1>2, <1>3 DEF to_publish
  <1>5. num' = num /\ gossiped' = gossiped /\ \E s : node' = [node EXCEPT ![v] = s]
    BY DEF command, becomes
  <1> HIDE DEF m
  <1>6. QED  BY <1>4, <1>5 DEF Step

\* A handler keeps the process.
LEMMA HandleKeeps ==
  ASSUME ListenerInv, NEW v \in Nodes, handle(v)
  PROVE  Good(gossiped', v, node'[v])
  BY CheckElectionStatusKeeps, TriggerElectionKeeps, CheckElectedStatusKeeps, InitKeeps,
     InitRoundOutputKeeps, StoreSharesKeeps, AppStateKeeps DEF handle

\* Every step keeps the invariant.
LEMMA NextKeeps ==
  ASSUME ListenerInv, [Next]_vars
  PROVE  ListenerInv'
  <1>1. CASE UNCHANGED vars  BY <1>1 DEF ListenerInv, vars
  <1>2. CASE Next
    <2>1. PICK v \in Nodes :
            \/ main(v) \/ connect(v) \/ crash(v)
            \/ command(v) \/ handle(v)
            \/ \E w \in Nodes : subscribed(v, w)
            \/ \E m \in published : receive(v, m)
      BY <1>2 DEF Next
    <2>2. CASE main(v)
      <3>1. Step(v)  BY <2>2, BecomesStep DEF main
      <3>2. QED  BY <2>2, <3>1, MainKeeps, StepKeeps
    <2>3. CASE connect(v)
      <3>1. Step(v)  BY <2>3, BecomesStep DEF connect
      <3>2. QED  BY <2>3, <3>1, ConnectKeeps, StepKeeps
    <2>4. CASE crash(v)
      <3>1. Step(v)  BY <2>4, BecomesStep DEF crash
      <3>2. QED  BY <2>4, <3>1, CrashKeeps, StepKeeps
    <2>5. CASE command(v)
      BY <2>5, CommandStep, CommandKeeps, StepKeeps
    <2>6. CASE handle(v)
      BY <2>6, HandleStep, HandleKeeps, StepKeeps
    <2>7. ASSUME NEW w \in Nodes, subscribed(v, w) PROVE ListenerInv'
      <3>1. Step(v)  BY <2>7, BecomesStep DEF subscribed
      <3>2. QED  BY <2>7, <3>1, SubscribedKeeps, StepKeeps
    <2>8. ASSUME NEW m \in published, receive(v, m) PROVE ListenerInv'
      <3>1. Step(v)  BY <2>8, BecomesStep DEF receive
      <3>2. QED  BY <2>8, <3>1, ReceiveKeeps, StepKeeps
    <2>9. QED  BY <2>1, <2>2, <2>3, <2>4, <2>5, <2>6, <2>7, <2>8
  <1>3. QED  BY <1>1, <1>2

\* The invariant holds at the start, and always.
THEOREM ListenerInvariant == Spec => []ListenerInv
  <1>1. Init => ListenerInv
    <2>1. SUFFICES ASSUME Init PROVE ListenerInv  OBVIOUS
    <2>2. /\ num \in Nums /\ node = [v \in Places |-> Off]
          /\ published = {} /\ gossiped = {}
      BY <2>1 DEF Init
    <2> HIDE DEF Off
    <2>3. QED  BY <2>2, OffGood DEF ListenerInv
  <1>2. ListenerInv /\ [Next]_vars => ListenerInv'  BY NextKeeps
  <1>3. QED  BY <1>1, <1>2, PTL DEF Spec

-----------------------------------------------------------------------------
(***************************************************************************)
(* What follows of it.                                                     *)
(***************************************************************************)

\* Whatever comes while a node is starting, no actor casts to one that is not there yet:
\* nothing has work before the listener runs, and that is started last.
THEOREM NoCastLostCorrect == Spec => []NoCastLost
  <1>1. ListenerInv => NoCastLost  BY Running DEF NoCastLost, Good
  <1>2. QED  BY <1>1, ListenerInvariant, PTL

\* No listener stops, as only what process_message has implemented is published.
THEOREM ListenersSurviveCorrect == Spec => []ListenersSurvive
  <1>1. ListenerInv => ListenersSurvive  BY Running DEF ListenersSurvive, Good
  <1>2. QED  BY <1>1, ListenerInvariant, PTL

\* However often a relay hears of subscriptions, it holds one election, and nobody else
\* holds any.
THEOREM OneElectionCorrect == Spec => []OneElection
  <1>1. ASSUME ListenerInv PROVE OneElection
    <2>1. ASSUME NEW v \in Nodes PROVE node[v].elections <= (IF v = Relay THEN 1 ELSE 0)
      <3>1. Good(gossiped, v, node[v])  BY <1>1, Running
      <3>2. CASE v = Relay
        <4>1. node[v].elections \in {0, 1}  BY <3>1, <3>2 DEF Good, Elects
        <4>2. QED  BY <3>2, <4>1
      <3>3. CASE v # Relay
        <4>1. node[v].elections = 0  BY <3>1, <3>3 DEF Good, Elects
        <4>2. QED  BY <3>3, <4>1
      <3>4. QED  BY <3>2, <3>3
    <2>2. QED  BY <2>1 DEF OneElection
  <1>2. QED  BY <1>1, ListenerInvariant, PTL

-----------------------------------------------------------------------------
(***************************************************************************)
(* What the actors have handled, and that they implement Broadcast.        *)
(***************************************************************************)

\* A cast changes nothing of what the DkgEngine actor has handled.
LEMMA CastHandled ==
  ASSUME NEW s, "handled" \in DOMAIN s, NEW a, NEW msg
  PROVE  LET c == cast_message(s, a, msg) IN
         "handled" \in DOMAIN c /\ c.handled = s.handled
  BY DEF cast_message

\* Nor does anything but its own handlers, and the end of the process.
LEMMA HandledKept ==
  ASSUME ListenerInv, NEW v \in Nodes,
         \/ main(v) \/ connect(v) \/ command(v)
         \/ \E w \in Nodes : subscribed(v, w)
         \/ \E m \in published : receive(v, m)
         \/ handle_check_election_status(v) \/ handle_trigger_election(v)
         \/ handle_check_elected_status(v) \/ store_shares(v) \/ app_state(v)
  PROVE  node'[v].handled = node[v].handled
  <1> DEFINE s == node[v]
             has_it(t) == "handled" \in DOMAIN t /\ t.handled = s.handled
  <1>1. v \in Places /\ has_it(s)
    BY Running, FieldNames DEF Good, Shaped
  <1>2. \A t : becomes(v, t) => node'[v] = t
    BY <1>1 DEF becomes, ListenerInv
  <1>3. \A t, m : gossips(v, t, m) => node'[v] = cast_message(t, "GossipEngine", m)
    BY <1>1 DEF gossips, ListenerInv
  <1>4. \A t, a, msg : has_it(t) => has_it(cast_message(t, a, msg))
    BY CastHandled
  <1>5. CASE main(v)
    <2> DEFINE t == [s EXCEPT !.running = @ + 1]
    <2>1. has_it(t)  BY <1>1
    <2>2. has_it([t EXCEPT !.subscribed = {"test-net"}])  BY <2>1
    <2> HIDE DEF t, has_it
    <2>3. has_it(pre_start(v, t))  BY <1>4, <2>1, <2>2 DEF pre_start
    <2>4. node'[v] = pre_start(v, t)  BY <1>2, <1>5 DEF main, t
    <2>5. QED  BY <2>3, <2>4 DEF has_it
  <1>6. CASE connect(v)
    <2>1. node'[v] = [s EXCEPT !.joined = TRUE]  BY <1>2, <1>6 DEF connect
    <2>2. QED  BY <1>1, <2>1
  <1>7. CASE command(v)
    <2> DEFINE c == [s EXCEPT !.mailbox["GossipEngine"] = Tail(@)]
               d == [c EXCEPT !.subscribed = @ \cup {Head(s.mailbox["GossipEngine"]).data}]
    <2>1. has_it(c)  BY <1>1
    <2>2. has_it(d)  BY <2>1
    <2>3. node'[v] = c \/ node'[v] = d  BY <1>2, <1>7 DEF command
    <2>4. QED  BY <2>1, <2>2, <2>3
  <1>8. ASSUME NEW w \in Nodes, subscribed(v, w) PROVE has_it(node'[v])
    <2> DEFINE c(topics) == [s EXCEPT !.topics_subscribed = topics]
               d(topics) == [c(topics) EXCEPT !.polled = TRUE]
               msg == [type |-> "CheckElectionStatus"]
    <2>1. PICK topics :
            \/ becomes(v, c(topics))
            \/ becomes(v, cast_message(d(topics), "ElectionEngine", msg))
      BY <1>8 DEF subscribed
    <2>2. has_it(c(topics)) /\ has_it(d(topics))  BY <1>1
    <2> HIDE DEF c, d, has_it
    <2>3. QED  BY <1>2, <1>4, <2>1, <2>2
  <1>9. ASSUME NEW m \in published, receive(v, m) PROVE has_it(node'[v])
    <2> DEFINE u == [s EXCEPT !.got = @ \cup {m}]
    <2>1. has_it(u) /\ has_it([u EXCEPT !.panicked = TRUE])  BY <1>1
    <2>2. node'[v] = process_message(u, m)  BY <1>2, <1>9 DEF receive
    <2> HIDE DEF u, has_it
    <2>3. has_it(process_message(u, m))  BY <1>4, <2>1 DEF process_message
    <2>4. QED  BY <2>2, <2>3
  <1> DEFINE c == [s EXCEPT !.mailbox["ElectionEngine"] = Tail(@)]
  <1>10. has_it(c)  BY <1>1
  <1>11. CASE handle_check_election_status(v)
    <2> DEFINE d == [c EXCEPT !.current_state = "CollectedProposals"]
    <2>1. has_it(d)  BY <1>10
    <2>2. node'[v] = cast_message(d, "ElectionEngine", [type |-> "TriggerElection"])
      BY <1>2, <1>11 DEF handle_check_election_status, Taken
    <2> HIDE DEF d, has_it
    <2>3. has_it(node'[v])  BY <1>4, <2>1, <2>2
    <2>4. QED  BY <2>3 DEF has_it
  <1>12. CASE handle_trigger_election(v)
    <2> DEFINE d == [c EXCEPT !.current_state = "QuorumElected", !.elections = @ + 1]
    <2>1. has_it(d)  BY <1>10
    <2>2. \E m1, m2, m3 :
            node'[v] = cast_message(cast_message(cast_message(d, "AppStateEngine", m1),
                                                 "AppStateEngine", m2), "GossipEngine", m3)
      BY <1>3, <1>12 DEF handle_trigger_election, Taken
    <2> HIDE DEF d, has_it
    <2>3. has_it(node'[v])  BY <1>4, <2>1, <2>2
    <2>4. QED  BY <2>3 DEF has_it
  <1>13. CASE handle_check_elected_status(v)
    <2>1. \/ node'[v] = c
          \/ \E m1, m2 : node'[v] = cast_message(cast_message(c, "DkgEngine", m1), "AppStateEngine", m2)
      BY <1>2, <1>13 DEF handle_check_elected_status, Taken
    <2> HIDE DEF c, has_it
    <2>2. has_it(node'[v])  BY <1>4, <1>10, <2>1
    <2>3. QED  BY <2>2 DEF has_it
  <1>14. CASE store_shares(v)
    <2> DEFINE d == [s EXCEPT !.keyed = TRUE]
    <2>1. has_it(d)  BY <1>1
    <2>2. node'[v] = cast_message(d, "AppStateEngine", [type |-> "StoreKeyShares"])
      BY <1>2, <1>14 DEF store_shares
    <2> HIDE DEF d, has_it
    <2>3. has_it(node'[v])  BY <1>4, <2>1, <2>2
    <2>4. QED  BY <2>3 DEF has_it
  <1>15. CASE app_state(v)
    <2> DEFINE d == [s EXCEPT !.mailbox["AppStateEngine"] = Tail(@)]
               msg == Next_of(v, "AppStateEngine")
    <2>1. has_it(d)  BY <1>1
    <2>2. \/ node'[v] = [d EXCEPT !.n = msg.n, !.t = msg.t]
          \/ node'[v] = [d EXCEPT !.active_provers = msg.peers]
          \/ node'[v] = [d EXCEPT !.my_node_idx = msg.idx]
          \/ node'[v] = [d EXCEPT !.shares = @ \cup {d.my_node_idx}]
          \/ node'[v] = d
      BY <1>2, <1>15 DEF app_state, Taken
    <2> HIDE DEF d
    <2>3. QED  BY <2>1, <2>2
  <1>16. QED
    BY <1>5, <1>6, <1>7, <1>8, <1>9, <1>11, <1>12, <1>13, <1>14, <1>15

\* What the engine handles next was gossiped by another, and it has not handled it yet.
LEMMA DkgHead ==
  ASSUME NEW G, NEW v, NEW s, Good(G, v, s), s.mailbox["DkgEngine"] # <<>>
  PROVE  LET m == Head(s.mailbox["DkgEngine"]).of IN
         /\ m \in G /\ m.from # v
         /\ \A k \in DOMAIN s.handled : s.handled[k] # m
  <1> DEFINE D == s.mailbox["DkgEngine"]
             H == s.handled
  <1>1. Queue(D) /\ Queue(H)  BY DEF Good, Shaped, Actors
  <1>2. Len(D) \in Nat \ {0} /\ Head(D) = D[1]  BY <1>1, TakenFrom
  <1>3. 1 \in 1..Len(D)  BY <1>2
  <1>4. D[1].of \in s.got  BY <1>3 DEF Good, Sourced
  <1>5. D[1].of \in G /\ D[1].of.from # v  BY <1>4 DEF Good, Sourced
  <1>6. \A k \in 1..Len(H) : H[k] # D[1].of  BY <1>3 DEF Good, Once
  <1>7. DOMAIN H = 1..Len(H)  BY <1>1, LenProperties DEF Queue
  <1>8. QED  BY <1>2, <1>5, <1>6, <1>7

\* It then has handled that, too.
LEMMA HandledNow ==
  ASSUME ListenerInv, NEW v \in Nodes, handle_init(v) \/ handle_init_round_output(v)
  PROVE  LET m == Head(node[v].mailbox["DkgEngine"]).of IN
         /\ m \in gossiped /\ m.from # v
         /\ \A k \in DOMAIN node[v].handled : node[v].handled[k] # m
         /\ node'[v].handled = Append(node[v].handled, m)
  <1> DEFINE s == node[v]
             m == Head(s.mailbox["DkgEngine"]).of
             has_it(t) == "handled" \in DOMAIN t /\ t.handled = Append(s.handled, m)
             c == [s EXCEPT !.mailbox["DkgEngine"] = Tail(@)]
  <1>1. /\ v \in Places /\ Good(gossiped, v, s) /\ "handled" \in DOMAIN s
        /\ s.mailbox["DkgEngine"] # <<>>
    BY Running, FieldNames DEF Good, Shaped, handle_init, handle_init_round_output, has
  <1>2. /\ m \in gossiped /\ m.from # v
        /\ \A k \in DOMAIN s.handled : s.handled[k] # m
    BY <1>1, DkgHead
  <1>3. "handled" \in DOMAIN c /\ c.handled = s.handled  BY <1>1
  <1>4. CASE handle_init(v)
    <2> DEFINE msg == Head(s.mailbox["DkgEngine"])
               d == [c EXCEPT !.index = msg.idx, !.total_nodes = msg.n - 1,
                              !.threshold = msg.threshold, !.heard = {}, !.keyed = FALSE,
                              !.handled = Append(@, msg.of)]
    <2>1. has_it(d)  BY <1>3
    <2>2. \E m1 : node'[v] = cast_message(d, "GossipEngine", m1)
      <3>1. \E m1 : gossips(v, d, m1)  BY <1>4 DEF handle_init, Taken, Next_of
      <3> HIDE DEF d
      <3>2. QED  BY <1>1, <3>1 DEF gossips, ListenerInv
    <2> HIDE DEF d
    <2>3. has_it(node'[v])  BY <2>1, <2>2, CastHandled
    <2>4. QED  BY <1>2, <2>3
  <1>5. CASE handle_init_round_output(v)
    <2> DEFINE d == [c EXCEPT !.handled = Append(@, m),
                              !.heard = IF s.index = 0 THEN @ ELSE @ \cup {m.from}]
    <2>1. has_it(d)  BY <1>3
    <2>2. node'[v] = d
      <3>1. becomes(v, d)  BY <1>5 DEF handle_init_round_output, Taken, Next_of
      <3> HIDE DEF d
      <3>2. QED  BY <1>1, <3>1 DEF becomes, ListenerInv
    <2>3. QED  BY <1>2, <2>1, <2>2
  <1>6. QED  BY <1>4, <1>5

\* What a step of a node does to what its actors have handled.
LEMMA BroadcastStep ==
  ASSUME ListenerInv, [Next]_vars
  PROVE  [BroadcastOf!Next]_<<gossiped, [v \in Places |-> node[v].handled]>>
  <1> DEFINE h == [v \in Places |-> node[v].handled]
  <1>1. CASE UNCHANGED vars  BY <1>1 DEF vars
  <1>2. CASE Next
    <2>1. PICK v \in Nodes :
            \/ main(v) \/ connect(v) \/ crash(v)
            \/ command(v) \/ handle(v)
            \/ \E w \in Nodes : subscribed(v, w)
            \/ \E m \in published : receive(v, m)
      BY <1>2 DEF Next
    <2>2. v \in Places  BY Running
    <2>3. Step(v)
      <3>1. crash(v) => num' = num /\ published' = published /\ becomes(v, Off)
        BY DEF crash
      <3>2. CASE crash(v)  BY <3>1, <3>2, BecomesStep
      <3>3. CASE main(v)  BY <3>3, BecomesStep DEF main
      <3>4. CASE connect(v)  BY <3>4, BecomesStep DEF connect
      <3>5. CASE command(v)  BY <3>5, CommandStep
      <3>6. CASE handle(v)  BY <3>6, HandleStep
      <3>7. ASSUME NEW w \in Nodes, subscribed(v, w) PROVE Step(v)
        BY <3>7, BecomesStep DEF subscribed
      <3>8. ASSUME NEW m \in published, receive(v, m) PROVE Step(v)
        BY <3>8, BecomesStep DEF receive
      <3>9. QED  BY <2>1, <3>2, <3>3, <3>4, <3>5, <3>6, <3>7, <3>8
    <2>4. BroadcastOf!gossips(v)  BY <2>3 DEF Step, BroadcastOf!gossips
    <2>5. h' = [h EXCEPT ![v] = node'[v].handled]
      BY <2>2, <2>3 DEF Step, ListenerInv
    <2>6. ASSUME node'[v].handled = node[v].handled PROVE BroadcastOf!gossip(v)
      <3>1. h' = h  BY <2>2, <2>5, <2>6
      <3>2. QED  BY <2>4, <3>1 DEF BroadcastOf!gossip
    <2>7. CASE crash(v)
      <3>1. Off.handled = <<>>  BY DEF Off
      <3>2. node' = [node EXCEPT ![v] = Off] /\ gossiped' = gossiped
        BY <2>7 DEF crash, becomes
      <3> HIDE DEF Off
      <3>3. node'[v].handled = <<>>  BY <2>2, <3>1, <3>2 DEF ListenerInv
      <3>4. BroadcastOf!crash(v)  BY <2>5, <3>2, <3>3 DEF BroadcastOf!crash
      <3>5. QED  BY <2>2, <3>4 DEF BroadcastOf!Next
    <2>8. CASE handle_init(v) \/ handle_init_round_output(v)
      <3> DEFINE m == Head(node[v].mailbox["DkgEngine"]).of
      <3>1. /\ m \in gossiped /\ m.from # v
            /\ \A k \in DOMAIN node[v].handled : node[v].handled[k] # m
            /\ node'[v].handled = Append(node[v].handled, m)
        BY <2>8, HandledNow
      <3> HIDE DEF m
      <3>2. h[v] = node[v].handled  BY <2>2
      <3>3. h' = [h EXCEPT ![v] = Append(@, m)]  BY <2>5, <3>1, <3>2
      <3>4. BroadcastOf!handle(v)
        BY <2>4, <3>1, <3>2, <3>3 DEF BroadcastOf!handle
      <3>5. QED  BY <2>2, <3>4 DEF BroadcastOf!Next
    <2>9. CASE ~crash(v) /\ ~(handle_init(v) \/ handle_init_round_output(v))
      <3>1. node'[v].handled = node[v].handled
        BY <2>1, <2>9, HandledKept DEF handle
      <3>2. QED  BY <2>2, <2>6, <3>1 DEF BroadcastOf!Next
    <2>10. QED  BY <2>7, <2>8, <2>9
  <1>3. QED  BY <1>1, <1>2

\* Listener implements Broadcast: what the engine of a node handles is what another node's
\* actors have had gossiped, and it handles a message once while the process lives.
THEOREM BroadcastCorrect == Spec => BroadcastSpec
  <1>1. Init => BroadcastOf!Init
    <2>1. SUFFICES ASSUME Init PROVE BroadcastOf!Init  OBVIOUS
    <2>2. node = [v \in Places |-> Off] /\ gossiped = {}  BY <2>1 DEF Init
    <2>3. Off.handled = <<>>  BY DEF Off
    <2> HIDE DEF Off
    <2>4. QED  BY <2>2, <2>3 DEF BroadcastOf!Init
  <1>2. ListenerInv /\ [Next]_vars
          => [BroadcastOf!Next]_<<gossiped, [v \in Places |-> node[v].handled]>>
    BY BroadcastStep
  <1>3. QED
    BY <1>1, <1>2, ListenerInvariant, PTL DEF Spec, BroadcastSpec, BroadcastOf!Spec

-----------------------------------------------------------------------------
(***************************************************************************)
(* What the nodes know of the election, of which there is one outcome: all *)
(* provers of the file, each under its place among them.                   *)
(***************************************************************************)
Outcome(n) ==
  [n |-> n - 3, t |-> calculate_threshold(n - 3), peers |-> [i \in 1..(n - 3) |-> i + 1]]

\* v is the i-th of the provers.
Numbered(n, v, i) == i \in 1..(n - 3) /\ v = i + 1

\* What is in a mailbox of v says so.
Truthful(n, v, e) ==
  /\ e.type = "CheckElectedStatus" => e.of.data = Outcome(n)
  /\ e.type = "Init" =>
       Numbered(n, v, e.idx) /\ e.n = n - 3 /\ e.threshold = calculate_threshold(n - 3)
  /\ e.type = "UpdatedThreshold" => e.n = n - 3 /\ e.t = calculate_threshold(n - 3)
  /\ e.type = "UpdateElectedProvers" => e.peers = Outcome(n).peers
  /\ e.type = "UpdateNodeIdx" => Numbered(n, v, e.idx)

Said(n, v, s) ==
  \A a \in Actors : \A k \in 1..Len(s.mailbox[a]) : Truthful(n, v, s.mailbox[a][k])

\* What an election actor may be at.
States == {"CollectingProposals", "CollectedProposals", "QuorumElected"}

\* And what its actors have made of it.
Known(n, U, v, s) ==
  /\ s.got \subseteq U
  /\ s.current_state \in States
  /\ s.index # 0 =>
       /\ Numbered(n, v, s.index)
       /\ s.total_nodes = n - 4 /\ s.threshold = calculate_threshold(n - 3)
  /\ s.my_node_idx # 0 => Numbered(n, v, s.my_node_idx)
  /\ s.n # 0 => s.n = n - 3 /\ s.t = calculate_threshold(n - 3)
  /\ s.active_provers \in {<<>>, Outcome(n).peers}
  /\ \A i \in s.shares : Numbered(n, v, i) /\ s.index # 0

\* The AppState actor knows the index, or learns it before the k-th of its messages is
\* done with.
Told(s, k) ==
  s.my_node_idx # 0 \/ \E j \in 1..k : s.mailbox["AppStateEngine"][j].type = "UpdateNodeIdx"

\* It does so if the engine knows it, or is to; and before it files its own share.
Tells(s) ==
  LET D == s.mailbox["DkgEngine"]
      A == s.mailbox["AppStateEngine"]
  IN /\ s.index # 0 \/ (\E k \in 1..Len(D) : D[k].type = "Init") => Told(s, Len(A))
     /\ \A k \in 1..Len(A) : A[k].type = "StoreKeyShares" => s.index # 0 /\ Told(s, k)

\* A process that has heard of no other outcome, where U is what was published.
Fits(n, U, v, s) == Said(n, v, s) /\ Known(n, U, v, s) /\ Tells(s)

\* All processes do.
ElectionInv ==
  /\ \A m \in gossiped : m.type = "ElectedProvers" => m.data = Outcome(num)
  /\ \A v \in Places : Fits(num, published, v, node[v])

\* What is not about one process.
NetworkInv ==
  /\ transit = [v \in Places |-> transit[v]]
  /\ \A v \in Places : transit[v] \subseteq published
  /\ crashes \in 0..MaxCrash[num] /\ invited \subseteq Provers

\* A process that is running and Fits.
Ready(n, U, v, s) == Shaped(s) /\ s.running \in 1..2 /\ Fits(n, U, v, s)

\* What a process knows of an election, besides what is in its mailboxes.
Facts == {"index", "total_nodes", "threshold", "my_node_idx", "n", "t", "active_provers",
          "shares"}

\* It is about the same as long as it knows and is told the same.
LEMMA SameFits ==
  ASSUME NEW n, NEW U, NEW v, NEW s, Fits(n, U, v, s), NEW t,
         \A f \in Facts \cup {"mailbox"} : t[f] = s[f],
         t.got \subseteq U,
         t.current_state \in States
  PROVE  Fits(n, U, v, t)
  <1>1. /\ t.mailbox = s.mailbox /\ t.index = s.index /\ t.total_nodes = s.total_nodes
        /\ t.threshold = s.threshold /\ t.my_node_idx = s.my_node_idx /\ t.n = s.n /\ t.t = s.t
        /\ t.active_provers = s.active_provers /\ t.shares = s.shares
    BY DEF Facts
  <1>2. Said(n, v, t)  BY <1>1 DEF Fits, Said
  <1>3. Known(n, U, v, t)  BY <1>1 DEF Fits, Known
  <1>4. Tells(t)  BY <1>1 DEF Fits, Tells, Told
  <1>5. QED  BY <1>2, <1>3, <1>4 DEF Fits

\* Other things about it may change.
LEMMA SameReady ==
  ASSUME NEW n, NEW U, NEW v, NEW s, Ready(n, U, v, s), NEW t, Shaped(t),
         \A f \in Facts \cup {"mailbox", "running"} : t[f] = s[f],
         t.got \subseteq U,
         t.current_state \in States
  PROVE  Ready(n, U, v, t)
  <1>1. t.running = s.running  OBVIOUS
  <1>2. Fits(n, U, v, t)  BY SameFits DEF Ready
  <1>3. QED  BY <1>1, <1>2 DEF Ready

\* Who has more published, still has this.
LEMMA FitsKept ==
  ASSUME NEW n, NEW U, NEW V, U \subseteq V, NEW v, NEW s, Fits(n, U, v, s)
  PROVE  Fits(n, V, v, s)
  BY DEF Fits, Known

\* A process that has not done anything Fits.
LEMMA OffFits ==
  ASSUME NEW n, NEW U, NEW v
  PROVE  Fits(n, U, v, Off)
  <1>1. /\ Off.got = {} /\ Off.current_state = "CollectingProposals" /\ Off.index = 0
        /\ Off.my_node_idx = 0 /\ Off.n = 0 /\ Off.active_provers = <<>> /\ Off.shares = {}
        /\ Off.mailbox = [a \in Actors |-> <<>>]
    BY DEF Off
  <1> HIDE DEF Off
  <1>2. \A a \in Actors : Len(Off.mailbox[a]) = 0  BY <1>1, EmptySeq
  <1>3. \A a \in Actors : 1..Len(Off.mailbox[a]) = {}  BY <1>2
  <1>4. Said(n, v, Off)  BY <1>3 DEF Said
  <1>5. Known(n, U, v, Off)  BY <1>1 DEF Known, States
  <1>6. Tells(Off)  BY <1>1, <1>3 DEF Tells, Actors
  <1>7. QED  BY <1>4, <1>5, <1>6 DEF Fits

\* What an actor can be told so that it still Fits.
Tellable(n, v, s, msg) ==
  /\ Truthful(n, v, msg)
  /\ msg.type = "Init" => Told(s, Len(s.mailbox["AppStateEngine"]))
  /\ msg.type = "StoreKeyShares" => s.index # 0

\* Told so, it does; and no more than a mailbox has changed.
LEMMA CastReady ==
  ASSUME NEW n, NEW U, NEW v, NEW s, Ready(n, U, v, s), NEW a \in Actors,
         NEW msg, Tellable(n, v, s, msg)
  PROVE  LET c == cast_message(s, a, msg) IN
         /\ Ready(n, U, v, c) /\ Differs(s, c, a, Append(s.mailbox[a], msg))
         /\ a = "AppStateEngine" /\ msg.type = "UpdateNodeIdx" => Told(c, Len(c.mailbox[a]))
  <1> DEFINE c == cast_message(s, a, msg)
             q == s.mailbox[a]
             A == s.mailbox["AppStateEngine"]
             B == c.mailbox["AppStateEngine"]
             D == s.mailbox["DkgEngine"]
             F == c.mailbox["DkgEngine"]
  <1>1. Shaped(s) /\ s.running \in 1..2 /\ Said(n, v, s) /\ Known(n, U, v, s) /\ Tells(s)
    BY DEF Ready, Fits
  <1>2. Differs(s, c, a, Append(q, msg))  BY <1>1, Cast
  <1> HIDE DEF c
  <1>3. /\ Shaped(c) /\ c.mailbox[a] = Append(q, msg)
        /\ \A b \in Actors \ {a} : c.mailbox[b] = s.mailbox[b]
        /\ \A f \in Fields \ {"mailbox"} : c[f] = s[f]
    BY <1>2 DEF Differs
  <1>4. /\ c.running = s.running /\ c.got = s.got /\ c.current_state = s.current_state
        /\ c.index = s.index /\ c.total_nodes = s.total_nodes /\ c.threshold = s.threshold
        /\ c.my_node_idx = s.my_node_idx /\ c.n = s.n /\ c.t = s.t
        /\ c.active_provers = s.active_provers /\ c.shares = s.shares
    BY <1>3, FieldNames
  <1>5. /\ Len(q) \in Nat /\ Len(Append(q, msg)) = Len(q) + 1
        /\ \A k \in 1..Len(q) : Append(q, msg)[k] = q[k]
        /\ Append(q, msg)[Len(q) + 1] = msg
    <2>1. Queue(q)  BY <1>1 DEF Shaped
    <2> HIDE DEF q
    <2>2. QED  BY <2>1, Appended
  <1>6. \A k \in 1..(Len(q) + 1) : k \in 1..Len(q) \/ k = Len(q) + 1  BY <1>5
  <1>7. Truthful(n, v, msg)  BY DEF Tellable
  <1>8. Said(n, v, c)
    <2>1. ASSUME NEW b \in Actors, NEW k \in 1..Len(c.mailbox[b])
          PROVE  Truthful(n, v, c.mailbox[b][k])
      <3>1. CASE b # a
        <4>1. c.mailbox[b] = s.mailbox[b]  BY <1>3, <3>1
        <4>2. QED  BY <1>1, <4>1 DEF Said
      <3>2. CASE b = a
        <4>1. k \in 1..Len(q) \/ k = Len(q) + 1  BY <1>3, <1>5, <1>6, <3>2
        <4>2. k \in 1..Len(q) => Truthful(n, v, q[k])  BY <1>1 DEF Said
        <4>3. QED  BY <1>3, <1>5, <1>7, <3>2, <4>1, <4>2
      <3>3. QED  BY <3>1, <3>2
    <2>2. QED  BY <2>1 DEF Said
  <1>9. Known(n, U, v, c)  BY <1>1, <1>4 DEF Known
  <1>10. /\ Len(A) \in Nat /\ Len(B) \in Nat /\ Len(A) <= Len(B)
         /\ \A k \in 1..Len(A) : k \in 1..Len(B) /\ B[k] = A[k]
         /\ \A k \in 1..Len(B) : k \in 1..Len(A) \/ (k = Len(B) /\ B[k] = msg)
         /\ a = "AppStateEngine" => Len(B) \in 1..Len(B) /\ B[Len(B)] = msg
    <2>1. CASE a = "AppStateEngine"  BY <1>3, <1>5, <1>6, <2>1
    <2>2. CASE a # "AppStateEngine"
      <3>1. B = A  BY <1>3, <2>2 DEF Actors
      <3>2. Queue(A)  BY <1>1 DEF Shaped, Actors
      <3>3. Len(A) \in Nat  BY <3>2, Appended
      <3>4. QED  BY <2>2, <3>1, <3>3
    <2>3. QED  BY <2>1, <2>2
  <1>11. \A k \in 1..Len(F) :
           (k \in 1..Len(D) /\ F[k] = D[k]) \/ (a = "DkgEngine" /\ F[k] = msg)
    <2>1. CASE a = "DkgEngine"  BY <1>3, <1>5, <1>6, <2>1
    <2>2. CASE a # "DkgEngine"
      <3>1. F = D  BY <1>3, <2>2 DEF Actors
      <3>2. QED  BY <3>1
    <2>3. QED  BY <2>1, <2>2
  <1> HIDE DEF A, B, D, F, q
  <1>12. /\ \A k \in 1..Len(A) : Told(s, k) => Told(c, k)
         /\ Told(s, Len(A)) => Told(c, Len(B))
    <2>1. ASSUME NEW k \in 1..Len(A), Told(s, k) PROVE Told(c, k)
      <3>1. \A j \in 1..k : j \in 1..Len(A)  BY <1>10
      <3>2. QED  BY <1>4, <1>10, <2>1, <3>1 DEF Told, A, B
    <2>2. ASSUME Told(s, Len(A)) PROVE Told(c, Len(B))
      BY <1>4, <1>10, <2>2 DEF Told, A, B
    <2>3. QED  BY <2>1, <2>2
  <1>13. Tells(c)
    <2>1. ASSUME c.index # 0 \/ (\E k \in 1..Len(F) : F[k].type = "Init")
          PROVE  Told(c, Len(B))
      <3>1. CASE s.index # 0 \/ (\E k \in 1..Len(D) : D[k].type = "Init")
        <4>1. Told(s, Len(A))  BY <1>1, <3>1 DEF Tells, A, D
        <4>2. QED  BY <1>12, <4>1
      <3>2. CASE msg.type = "Init"
        <4>1. Told(s, Len(A))  BY <3>2 DEF Tellable, A
        <4>2. QED  BY <1>12, <4>1
      <3>3. QED  BY <1>4, <1>11, <2>1, <3>1, <3>2
    <2>2. ASSUME NEW k \in 1..Len(B), B[k].type = "StoreKeyShares"
          PROVE  c.index # 0 /\ Told(c, k)
      <3>1. CASE k \in 1..Len(A)
        <4>1. A[k].type = "StoreKeyShares"  BY <1>10, <2>2, <3>1
        <4>2. s.index # 0 /\ Told(s, k)  BY <1>1, <3>1, <4>1 DEF Tells, A
        <4>3. QED  BY <1>4, <1>12, <3>1, <4>2
      <3>2. CASE k = Len(B) /\ B[k] = msg
        <4>1. s.index # 0  BY <2>2, <3>2 DEF Tellable
        <4>2. Told(s, Len(A))  BY <1>1, <4>1 DEF Tells, A
        <4>3. QED  BY <1>4, <1>12, <3>2, <4>1, <4>2
      <3>3. QED  BY <1>10, <3>1, <3>2
    <2>3. QED  BY <2>1, <2>2 DEF Tells, B, F
  <1>14. Ready(n, U, v, c)  BY <1>1, <1>3, <1>4, <1>8, <1>9, <1>13 DEF Ready, Fits
  <1>15. ASSUME a = "AppStateEngine", msg.type = "UpdateNodeIdx"
         PROVE  Told(c, Len(c.mailbox[a]))
    BY <1>10, <1>15 DEF Told, B
  <1>16. QED  BY <1>2, <1>14, <1>15 DEF c, q

\* What is in a mailbox is truthful.
LEMMA HeadTruthful ==
  ASSUME NEW n, NEW U, NEW v, NEW s, Ready(n, U, v, s), NEW a \in Actors, s.mailbox[a] # <<>>
  PROVE  /\ Truthful(n, v, Head(s.mailbox[a]))
         /\ a = "DkgEngine" /\ Head(s.mailbox[a]).type = "Init"
              => Told(s, Len(s.mailbox["AppStateEngine"]))
  <1> DEFINE q == s.mailbox[a]
  <1>1. Queue(q) /\ q # <<>>  BY DEF Ready, Shaped
  <1> HIDE DEF q
  <1>2. 1 \in 1..Len(q) /\ Head(q) = q[1]  BY <1>1, TakenFrom
  <1>3. Truthful(n, v, Head(q))  BY <1>2 DEF Ready, Fits, Said, q
  <1>4. ASSUME a = "DkgEngine", Head(q).type = "Init"
        PROVE  Told(s, Len(s.mailbox["AppStateEngine"]))
    BY <1>2, <1>4 DEF Ready, Fits, Tells, q
  <1>5. QED  BY <1>3, <1>4 DEF q

\* An actor other than the AppState actor may take it.
LEMMA TakeReady ==
  ASSUME NEW n, NEW U, NEW v, NEW s, Ready(n, U, v, s),
         NEW a \in Actors \ {"AppStateEngine"}, s.mailbox[a] # <<>>
  PROVE  LET c == [s EXCEPT !.mailbox[a] = Tail(@)] IN
         /\ Ready(n, U, v, c) /\ Differs(s, c, a, Tail(s.mailbox[a]))
         /\ Told(s, Len(s.mailbox["AppStateEngine"]))
              => Told(c, Len(c.mailbox["AppStateEngine"]))
  <1> DEFINE c == [s EXCEPT !.mailbox[a] = Tail(@)]
             q == s.mailbox[a]
             D == s.mailbox["DkgEngine"]
             F == c.mailbox["DkgEngine"]
  <1>1. Shaped(s) /\ s.running \in 1..2 /\ Said(n, v, s) /\ Known(n, U, v, s) /\ Tells(s)
    BY DEF Ready, Fits
  <1>2. Differs(s, c, a, Tail(q))  BY <1>1, Take
  <1> HIDE DEF c
  <1>3. /\ Shaped(c) /\ c.mailbox[a] = Tail(q)
        /\ \A b \in Actors \ {a} : c.mailbox[b] = s.mailbox[b]
        /\ \A f \in Fields \ {"mailbox"} : c[f] = s[f]
    BY <1>2 DEF Differs
  <1>4. /\ c.running = s.running /\ c.got = s.got /\ c.current_state = s.current_state
        /\ c.index = s.index /\ c.total_nodes = s.total_nodes /\ c.threshold = s.threshold
        /\ c.my_node_idx = s.my_node_idx /\ c.n = s.n /\ c.t = s.t
        /\ c.active_provers = s.active_provers /\ c.shares = s.shares
        /\ c.mailbox["AppStateEngine"] = s.mailbox["AppStateEngine"]
    BY <1>3, FieldNames DEF Actors
  <1>5. \A k \in 1..Len(Tail(q)) : k + 1 \in 1..Len(q) /\ Tail(q)[k] = q[k + 1]
    <2>1. Queue(q) /\ q # <<>>  BY <1>1 DEF Shaped
    <2> HIDE DEF q
    <2>2. /\ Len(q) \in Nat \ {0}
          /\ \A k \in 1..Len(Tail(q)) : k + 1 \in 2..Len(q) /\ Tail(q)[k] = q[k + 1]
      BY <2>1, TakenFrom
    <2>3. QED  BY <2>2
  <1>6. Said(n, v, c)
    <2>1. ASSUME NEW b \in Actors, NEW k \in 1..Len(c.mailbox[b])
          PROVE  Truthful(n, v, c.mailbox[b][k])
      <3>1. CASE b # a
        <4>1. c.mailbox[b] = s.mailbox[b]  BY <1>3, <3>1
        <4>2. QED  BY <1>1, <4>1 DEF Said
      <3>2. CASE b = a
        <4>1. k + 1 \in 1..Len(q) /\ c.mailbox[b][k] = q[k + 1]  BY <1>3, <1>5, <3>2
        <4>2. QED  BY <1>1, <4>1 DEF Said
      <3>3. QED  BY <3>1, <3>2
    <2>2. QED  BY <2>1 DEF Said
  <1>7. Known(n, U, v, c)  BY <1>1, <1>4 DEF Known
  <1>8. (\E k \in 1..Len(F) : F[k].type = "Init") => \E k \in 1..Len(D) : D[k].type = "Init"
    <2>1. CASE a = "DkgEngine"
      <3>1. F = Tail(q) /\ D = q  BY <1>3, <2>1
      <3> HIDE DEF F, D, q
      <3>2. ASSUME NEW k \in 1..Len(F), F[k].type = "Init"
            PROVE  \E i \in 1..Len(D) : D[i].type = "Init"
        <4>1. k + 1 \in 1..Len(D) /\ D[k + 1].type = "Init"  BY <1>5, <3>1, <3>2
        <4>2. QED  BY <4>1
      <3>3. QED  BY <3>2
    <2>2. CASE a # "DkgEngine"  BY <1>3, <2>2 DEF Actors
    <2>3. QED  BY <2>1, <2>2
  <1>9. \A k : Told(c, k) <=> Told(s, k)  BY <1>4 DEF Told
  <1>10. Tells(c)  BY <1>1, <1>4, <1>8, <1>9 DEF Tells
  <1>11. Ready(n, U, v, c)  BY <1>1, <1>3, <1>4, <1>6, <1>7, <1>10 DEF Ready, Fits
  <1>12. QED  BY <1>2, <1>4, <1>9, <1>11 DEF c, q

\* Casts to two actors may come in any order.
LEMMA CastsCommute ==
  ASSUME NEW s, Shaped(s), s.running \in 1..2, NEW d, NEW e
  PROVE  cast_message(cast_message(s, "DkgEngine", d), "AppStateEngine", e)
           = cast_message(cast_message(s, "AppStateEngine", e), "DkgEngine", d)
  <1> DEFINE c(t, a, msg) == [t EXCEPT !.mailbox[a] = Append(@, msg)]
             x == c(s, "DkgEngine", d)
             y == c(s, "AppStateEngine", e)
  <1>1. "DkgEngine" \in Actors /\ "AppStateEngine" \in Actors  BY DEF Actors
  <1>2. x = cast_message(s, "DkgEngine", d) /\ y = cast_message(s, "AppStateEngine", e)
    BY <1>1, Started DEF cast_message
  <1>3. x.running = s.running /\ y.running = s.running
    BY FieldNames DEF Shaped
  <1>4. c(x, "AppStateEngine", e) = c(y, "DkgEngine", d)
    BY FieldNames DEF Shaped, Actors
  <1> HIDE DEF x, y
  <1>5. /\ cast_message(x, "AppStateEngine", e) = c(x, "AppStateEngine", e)
        /\ cast_message(y, "DkgEngine", d) = c(y, "DkgEngine", d)
    BY <1>1, <1>3, Started DEF cast_message
  <1>6. QED  BY <1>2, <1>4, <1>5

\* The provers of the file.
LEMMA ProversListed ==
  ASSUME num \in Nums
  PROVE  /\ num - 3 \in Nat \ {0} /\ fetch_provers = Outcome(num).peers
         /\ DOMAIN fetch_provers = 1..(num - 3) /\ Len(fetch_provers) = num - 3
         /\ \A i \in 1..(num - 3) : fetch_provers[i] = i + 1
         /\ \A v \in Nodes : \A i : Numbered(num, v, i) => node_type(v) = "Prover" /\ i # 0
         /\ \A p \in Provers : p \in Nodes /\ Numbered(num, p, p - 1)
         /\ calculate_threshold(num - 3) \in 1..(num - 3)
  <1>1. num \in Nat \ 0..3  BY ListenerAssumption
  <1>2. num - 3 \in Nat \ {0}  BY <1>1
  <1>3. DOMAIN fetch_provers = 1..(num - 3) /\ \A i \in 1..(num - 3) : fetch_provers[i] = i + 1
    BY DEF fetch_provers
  <1>4. fetch_provers \in Seq(Nat)
    <2>1. \A i \in 1..(num - 3) : i + 1 \in Nat  OBVIOUS
    <2>2. fetch_provers \in [1..(num - 3) -> Nat]  BY <2>1 DEF fetch_provers
    <2>3. QED  BY <1>2, <2>2, SeqDef
  <1>5. Len(fetch_provers) = num - 3  BY <1>2, <1>3, <1>4, LenProperties
  <1>6. ASSUME NEW v \in Nodes, NEW i, Numbered(num, v, i)
        PROVE  node_type(v) = "Prover" /\ i # 0
    BY <1>1, <1>6 DEF Numbered, node_type, Nodes
  <1>7. ASSUME NEW p \in Provers PROVE p \in Nodes /\ Numbered(num, p, p - 1)
    BY <1>1 DEF Provers, Nodes, node_type, Numbered
  <1>8. calculate_threshold(num - 3) \in 1..(num - 3)
    <2>1. \A k \in Nat \ {0} : (k + 1) \div 2 \in 1..k  OBVIOUS
    <2>2. QED  BY <1>2, <2>1 DEF calculate_threshold
  <1>9. QED  BY <1>2, <1>3, <1>5, <1>6, <1>7, <1>8 DEF fetch_provers, Outcome

-----------------------------------------------------------------------------
(***************************************************************************)
(* The steps, after each of which the process Fits.                        *)
(***************************************************************************)

\* What a step begins with.
LEMMA Fitting ==
  ASSUME ListenerInv, ElectionInv, NEW v \in Nodes
  PROVE  /\ v \in Places /\ Good(gossiped, v, node[v]) /\ Fits(num, published, v, node[v])
         /\ node[v].got \subseteq published
         /\ node[v].current_state \in States
         /\ node[v].running \in 1..2 => Ready(num, published, v, node[v])
         /\ \A t : becomes(v, t) => node'[v] = t
  <1>1. v \in Places /\ Good(gossiped, v, node[v])  BY Running
  <1>2. Fits(num, published, v, node[v])  BY <1>1 DEF ElectionInv
  <1>3. Shaped(node[v])  BY <1>1 DEF Good
  <1>4. \A t : becomes(v, t) => node'[v] = t  BY <1>1 DEF becomes, ListenerInv
  <1>5. QED  BY <1>1, <1>2, <1>3, <1>4 DEF Ready, Fits, Known

\* main starts the next part of a process.
LEMMA MainFits ==
  ASSUME ListenerInv, ElectionInv, NEW v \in Nodes, main(v)
  PROVE  Fits(num, published, v, node'[v])
  <1> DEFINE s == node[v]
             u == [s EXCEPT !.running = @ + 1]
             w == [u EXCEPT !.subscribed = {"test-net"}]
             msg == Subscribe(v, "verifier")
             c == cast_message(u, "GossipEngine", msg)
  <1>1. /\ Shaped(s) /\ Fits(num, published, v, s) /\ node'[v] = pre_start(v, u)
        /\ s.got \subseteq published
        /\ s.current_state \in States
    BY Fitting DEF main, Good
  <1>2. s.running \in 0..1  BY <1>1 DEF main, START, Shaped
  <1>3. /\ u = [f \in Fields |-> u[f]] /\ u.running \in 1..2
        /\ \A f \in Fields \ {"running"} : u[f] = s[f]
    BY <1>1, <1>2, FieldNames DEF Shaped
  <1> HIDE DEF u
  <1>4. Ready(num, published, v, u)
    <2>1. /\ u.mailbox = s.mailbox /\ u.handled = s.handled /\ u.polled = s.polled
          /\ u.got = s.got /\ u.current_state = s.current_state
      BY <1>3, FieldNames
    <2>2. Shaped(u)  BY <1>1, <1>3, <2>1 DEF Shaped
    <2>3. \A f \in Facts \cup {"mailbox"} : u[f] = s[f]  BY <1>3, FieldNames DEF Facts
    <2>4. Fits(num, published, v, u)  BY <1>1, <2>1, <2>3, SameFits
    <2>5. QED  BY <1>3, <2>2, <2>4 DEF Ready
  <1>5. Fits(num, published, v, c)
    <2>1. Tellable(num, v, u, msg) /\ "GossipEngine" \in Actors
      BY DEF Tellable, Truthful, Subscribe, Actors
    <2> HIDE DEF msg
    <2>2. Ready(num, published, v, c)  BY <1>4, <2>1, CastReady
    <2>3. QED  BY <2>2 DEF Ready
  <1>6. Fits(num, published, v, w)
    <2>1. \A f \in Fields \ {"subscribed"} : w[f] = u[f]  BY <1>3, FieldNames
    <2>2. \A f \in Facts \cup {"mailbox"} : w[f] = u[f]  BY <2>1, FieldNames DEF Facts
    <2>3. w.got = u.got /\ w.current_state = u.current_state  BY <2>1, FieldNames
    <2> HIDE DEF w
    <2>4. Fits(num, published, v, u)  BY <1>4 DEF Ready
    <2>5. w.got \subseteq published
      BY <2>3, <2>4 DEF Fits, Known
    <2>6. w.current_state \in States
      BY <2>3, <2>4 DEF Fits, Known
    <2>7. QED  BY <2>2, <2>4, <2>5, <2>6, SameFits
  <1>7. Fits(num, published, v, u)  BY <1>4 DEF Ready
  <1>8. QED  BY <1>1, <1>5, <1>6, <1>7 DEF pre_start

\* A process gets connected.
LEMMA ConnectFits ==
  ASSUME ListenerInv, ElectionInv, NEW v \in Nodes, connect(v)
  PROVE  Fits(num, published, v, node'[v])
  <1> DEFINE s == node[v]
             t == [s EXCEPT !.joined = TRUE]
  <1>1. /\ Shaped(s) /\ Fits(num, published, v, s) /\ node'[v] = t
        /\ s.got \subseteq published
        /\ s.current_state \in States
    BY Fitting DEF connect, Good
  <1>2. \A f \in Fields \ {"joined"} : t[f] = s[f]  BY <1>1, FieldNames DEF Shaped
  <1> HIDE DEF t
  <1>3. /\ \A f \in Facts \cup {"mailbox"} : t[f] = s[f]
        /\ t.got = s.got /\ t.current_state = s.current_state
    BY <1>2, FieldNames DEF Facts
  <1>4. QED  BY <1>1, <1>3, SameFits

\* The listener publishes, or subscribes.
LEMMA CommandFits ==
  ASSUME ListenerInv, ElectionInv, NEW v \in Nodes, command(v)
  PROVE  Fits(num, published, v, node'[v])
  <1> DEFINE s == node[v]
             a == "GossipEngine"
             m == Head(s.mailbox[a])
             c == [s EXCEPT !.mailbox[a] = Tail(@)]
             t == [c EXCEPT !.subscribed = @ \cup {m.data}]
  <1>1. s.running \in 1..2 /\ s.mailbox[a] # <<>>  BY Running DEF command
  <1>2. /\ Ready(num, published, v, s) /\ (node'[v] = c \/ node'[v] = t)
    BY <1>1, Fitting DEF command
  <1>3. Ready(num, published, v, c)
    <2>1. a \in Actors \ {"AppStateEngine"}  BY DEF Actors
    <2> HIDE DEF a
    <2>2. QED  BY <1>1, <1>2, <2>1, TakeReady
  <1> HIDE DEF c
  <1>4. /\ Shaped(c) /\ Fits(num, published, v, c) /\ c.got \subseteq published
        /\ c.current_state \in States
    BY <1>3 DEF Ready, Fits, Known
  <1>5. \A f \in Fields \ {"subscribed"} : t[f] = c[f]  BY <1>4, FieldNames DEF Shaped
  <1> HIDE DEF t
  <1>6. /\ \A f \in Facts \cup {"mailbox"} : t[f] = c[f]
        /\ t.got = c.got /\ t.current_state = c.current_state
    BY <1>5, FieldNames DEF Facts
  <1>7. Fits(num, published, v, t)  BY <1>4, <1>6, SameFits
  <1>8. QED  BY <1>2, <1>4, <1>7

\* The listener hears of a subscription, and perhaps polls.
LEMMA SubscribedFits ==
  ASSUME ListenerInv, ElectionInv, NEW v \in Nodes, NEW w \in Nodes, subscribed(v, w)
  PROVE  Fits(num, published, v, node'[v])
  <1> DEFINE s == node[v]
             S(topics) == [s EXCEPT !.topics_subscribed = topics]
             P(topics) == [S(topics) EXCEPT !.polled = TRUE]
             msg == [type |-> "CheckElectionStatus"]
             c(topics) == cast_message(P(topics), "ElectionEngine", msg)
  <1>1. s.running \in 1..2  BY Running DEF subscribed
  <1>2. Ready(num, published, v, s) /\ Fits(num, published, v, s)
    BY <1>1, Fitting
  <1>3. PICK topics : becomes(v, S(topics)) \/ becomes(v, c(topics))
    BY DEF subscribed
  <1> DEFINE x == S(topics)
             y == P(topics)
  <1>4. node'[v] = x \/ node'[v] = cast_message(y, "ElectionEngine", msg)
    <2> HIDE DEF S
    <2>1. QED  BY <1>3, Fitting
  <1>5. /\ x = [f \in Fields |-> x[f]] /\ y = [f \in Fields |-> y[f]] /\ y.polled = TRUE
        /\ \A f \in Fields \ {"topics_subscribed", "polled"} : x[f] = s[f] /\ y[f] = s[f]
    BY <1>2, FieldNames DEF Ready, Shaped
  <1> HIDE DEF x, y, S, P
  <1>6. /\ \A f \in Facts \cup {"mailbox", "running"} : x[f] = s[f] /\ y[f] = s[f]
        /\ x.got = s.got /\ x.current_state = s.current_state
        /\ y.got = s.got /\ y.current_state = s.current_state
    BY <1>5, FieldNames DEF Facts
  <1>7. /\ s.got \subseteq published
        /\ s.current_state \in States
    BY <1>2 DEF Fits, Known
  <1>8. Fits(num, published, v, x)  BY <1>2, <1>6, <1>7, SameFits
  <1>9. Ready(num, published, v, y)
    <2>1. /\ y.mailbox = s.mailbox /\ y.handled = s.handled /\ y.running = s.running
      BY <1>5, FieldNames
    <2>2. Shaped(y)  BY <1>2, <1>5, <2>1 DEF Ready, Shaped
    <2>3. QED  BY <1>2, <1>6, <1>7, <2>2, SameReady
  <1>10. Tellable(num, v, y, msg) /\ "ElectionEngine" \in Actors
    BY DEF Tellable, Truthful, Actors
  <1> HIDE DEF msg
  <1>11. Ready(num, published, v, cast_message(y, "ElectionEngine", msg))
    BY <1>9, <1>10, CastReady
  <1>12. QED  BY <1>4, <1>8, <1>11 DEF Ready

\* A message comes.
LEMMA ReceiveFits ==
  ASSUME ListenerInv, ElectionInv, NEW v \in Nodes, NEW m \in published, receive(v, m)
  PROVE  Fits(num, published, v, node'[v])
  <1> DEFINE s == node[v]
             u == [s EXCEPT !.got = @ \cup {m}]
             check == [type |-> "CheckElectedStatus", of |-> m]
             first == [type |-> "InitRoundOutput", of |-> m]
             threshold == [type |-> "UpdatedThreshold", n |-> m.data.n, t |-> m.data.t]
             c == cast_message(u, "ElectionEngine", check)
             ct == cast_message(c, "AppStateEngine", threshold)
             d == cast_message(u, "DkgEngine", first)
  <1>1. s.running \in 1..2  BY Running DEF receive
  <1>2. Ready(num, published, v, s) /\ node'[v] = process_message(u, m)
    BY <1>1, Fitting DEF receive
  <1>3. /\ m.type \in {"ElectedProvers", "InitRoundOutput"}
        /\ m.type = "ElectedProvers" => m.data = Outcome(num)
    BY DEF ListenerInv, ElectionInv, to_publish
  <1>4. Ready(num, published, v, u)
    <2>1. /\ u = [f \in Fields |-> u[f]] /\ u.got = s.got \cup {m}
          /\ \A f \in Fields \ {"got"} : u[f] = s[f]
      BY <1>2, FieldNames DEF Ready, Shaped
    <2> HIDE DEF u
    <2>2. /\ u.mailbox = s.mailbox /\ u.handled = s.handled /\ u.running = s.running
          /\ u.polled = s.polled /\ u.current_state = s.current_state
          /\ \A f \in Facts \cup {"mailbox", "running"} : u[f] = s[f]
      BY <2>1, FieldNames DEF Facts
    <2>3. Shaped(u)  BY <1>2, <2>1, <2>2 DEF Ready, Shaped
    <2>4. /\ u.got \subseteq published
          /\ u.current_state \in States
      BY <1>2, <2>1, <2>2 DEF Ready, Fits, Known
    <2>5. QED  BY <1>2, <2>2, <2>3, <2>4, SameReady
  <1> HIDE DEF u
  <1>5. CASE m.type = "ElectedProvers"
    <2>1. /\ Tellable(num, v, u, check) /\ "ElectionEngine" \in Actors
          /\ Tellable(num, v, c, threshold) /\ "AppStateEngine" \in Actors
      BY <1>3, <1>5 DEF Tellable, Truthful, Outcome, Actors
    <2>2. node'[v] = ct  BY <1>2, <1>5 DEF process_message
    <2> HIDE DEF check, threshold, c, ct
    <2>3. Ready(num, published, v, c)  BY <1>4, <2>1, CastReady DEF c
    <2>4. Ready(num, published, v, ct)  BY <2>1, <2>3, CastReady DEF ct
    <2>5. QED  BY <2>2, <2>4 DEF Ready
  <1>6. CASE m.type = "InitRoundOutput"
    <2>1. Tellable(num, v, u, first) /\ "DkgEngine" \in Actors
      BY DEF Tellable, Truthful, Actors
    <2>2. node'[v] = d  BY <1>2, <1>6 DEF process_message
    <2> HIDE DEF first
    <2>3. Ready(num, published, v, d)  BY <1>4, <2>1, CastReady
    <2>4. QED  BY <2>2, <2>3 DEF Ready
  <1>7. QED  BY <1>3, <1>5, <1>6

\* The relay's election actor sees that there is to be an election.
LEMMA CheckElectionStatusFits ==
  ASSUME ListenerInv, ElectionInv, NEW v \in Nodes, handle_check_election_status(v)
  PROVE  Fits(num, published, v, node'[v])
  <1> DEFINE s == node[v]
             a == "ElectionEngine"
             c == [s EXCEPT !.mailbox[a] = Tail(@)]
             u == [c EXCEPT !.current_state = "CollectedProposals"]
             msg == [type |-> "TriggerElection"]
             t == cast_message(u, a, msg)
  <1>1. s.running \in 1..2 /\ s.mailbox[a] # <<>>
    BY ElectionFor DEF handle_check_election_status
  <1>2. Ready(num, published, v, s) /\ node'[v] = t
    BY <1>1, Fitting DEF handle_check_election_status, Taken
  <1>3. Ready(num, published, v, c)
    <2>1. a \in Actors \ {"AppStateEngine"}  BY DEF Actors
    <2> HIDE DEF a
    <2>2. QED  BY <1>1, <1>2, <2>1, TakeReady
  <1> HIDE DEF c
  <1>4. Ready(num, published, v, u)
    <2>1. /\ u = [f \in Fields |-> u[f]] /\ u.current_state = "CollectedProposals"
          /\ \A f \in Fields \ {"current_state"} : u[f] = c[f]
      BY <1>3, FieldNames DEF Ready, Shaped
    <2> HIDE DEF u
    <2>2. /\ u.mailbox = c.mailbox /\ u.handled = c.handled /\ u.running = c.running
          /\ u.polled = c.polled /\ u.got = c.got
          /\ \A f \in Facts \cup {"mailbox", "running"} : u[f] = c[f]
      BY <2>1, FieldNames DEF Facts
    <2>3. Shaped(u)  BY <1>3, <2>1, <2>2 DEF Ready, Shaped
    <2>4. u.got \subseteq published  BY <1>3, <2>2 DEF Ready, Fits, Known
    <2>5. QED  BY <1>3, <2>1, <2>2, <2>3, <2>4, SameReady DEF States
  <1>5. Tellable(num, v, u, msg) /\ a \in Actors  BY DEF Tellable, Truthful, Actors
  <1> HIDE DEF u, msg, a
  <1>6. Ready(num, published, v, t)  BY <1>4, <1>5, CastReady
  <1>7. QED  BY <1>2, <1>6 DEF Ready

\* The relay's election actor holds the election, of which it knows the outcome.
LEMMA TriggerElectionFits ==
  ASSUME ListenerInv, ElectionInv, NEW v \in Nodes, handle_trigger_election(v)
  PROVE  /\ Fits(num, published, v, node'[v])
         /\ \E seq : gossiped' = gossiped \cup
              {[type |-> "ElectedProvers", from |-> v, data |-> Outcome(num), seq |-> seq]}
  <1> DEFINE s == node[v]
             a == "ElectionEngine"
             c == [s EXCEPT !.mailbox[a] = Tail(@)]
             u == [c EXCEPT !.current_state = "QuorumElected", !.elections = @ + 1]
             peers == fetch_provers
             n == Len(peers)
             th == calculate_threshold(n)
             m1 == [type |-> "UpdateElectedProvers", peers |-> peers]
             m2 == [type |-> "UpdatedThreshold", n |-> n, t |-> th]
             m == Message(v, "ElectedProvers", [n |-> n, t |-> th, peers |-> peers])
             x == cast_message(u, "AppStateEngine", m1)
             y == cast_message(x, "AppStateEngine", m2)
             t == cast_message(y, "GossipEngine", m)
  <1>1. s.running \in 1..2 /\ s.mailbox[a] # <<>>
    BY ElectionFor DEF handle_trigger_election
  <1>2. Ready(num, published, v, s) /\ v \in Places  BY <1>1, Fitting
  <1>3. node'[v] = t /\ gossiped' = gossiped \cup {m}
    <2>1. gossips(v, y, m)  BY DEF handle_trigger_election, Taken
    <2> HIDE DEF y, m
    <2>2. QED  BY <1>2, <2>1 DEF gossips, ListenerInv
  <1>4. /\ peers = Outcome(num).peers /\ n = num - 3
        /\ [n |-> n, t |-> th, peers |-> peers] = Outcome(num)
    <2>1. peers = Outcome(num).peers /\ n = num - 3  BY ProversListed DEF ListenerInv
    <2> HIDE DEF peers, n
    <2>2. QED  BY <2>1 DEF Outcome
  <1>5. Ready(num, published, v, c)
    <2>1. a \in Actors \ {"AppStateEngine"}  BY DEF Actors
    <2> HIDE DEF a
    <2>2. QED  BY <1>1, <1>2, <2>1, TakeReady
  <1> HIDE DEF c
  <1>6. Ready(num, published, v, u)
    <2>1. /\ u = [f \in Fields |-> u[f]] /\ u.current_state = "QuorumElected"
          /\ \A f \in Fields \ {"current_state", "elections"} : u[f] = c[f]
      BY <1>5, FieldNames DEF Ready, Shaped
    <2> HIDE DEF u
    <2>2. /\ u.mailbox = c.mailbox /\ u.handled = c.handled /\ u.running = c.running
          /\ u.polled = c.polled /\ u.got = c.got
          /\ \A f \in Facts \cup {"mailbox", "running"} : u[f] = c[f]
      BY <2>1, FieldNames DEF Facts
    <2>3. Shaped(u)  BY <1>5, <2>1, <2>2 DEF Ready, Shaped
    <2>4. u.got \subseteq published  BY <1>5, <2>2 DEF Ready, Fits, Known
    <2>5. QED  BY <1>5, <2>1, <2>2, <2>3, <2>4, SameReady DEF States
  <1> HIDE DEF u, peers, n
  <1>7. Tellable(num, v, u, m1) /\ Tellable(num, v, x, m2)
    BY <1>4 DEF Tellable, Truthful
  <1>8. \E seq : m = [type |-> "ElectedProvers", from |-> v, data |-> Outcome(num), seq |-> seq]
    BY <1>4 DEF Message
  <1>9. Tellable(num, v, y, m)
    <2>1. m.type = "ElectedProvers"  BY DEF Message
    <2>2. QED  BY <2>1 DEF Tellable, Truthful
  <1>10. "AppStateEngine" \in Actors /\ "GossipEngine" \in Actors  BY DEF Actors
  <1> HIDE DEF m1, m2, m, x, y
  <1>11. Ready(num, published, v, x)  BY <1>6, <1>7, <1>10, CastReady DEF x
  <1>12. Ready(num, published, v, y)  BY <1>7, <1>10, <1>11, CastReady DEF y
  <1>13. Ready(num, published, v, t)  BY <1>9, <1>10, <1>12, CastReady
  <1> HIDE DEF t
  <1>14. QED  BY <1>3, <1>8, <1>13 DEF Ready

\* A prover finds its index in the outcome.
LEMMA IndexFound ==
  ASSUME num \in Nums, NEW v, \E i \in DOMAIN Outcome(num).peers : Outcome(num).peers[i] = v
  PROVE  Numbered(num, v, idx(v, Outcome(num).peers))
  <1> DEFINE peers == Outcome(num).peers
  <1>1. idx(v, peers) \in DOMAIN peers /\ peers[idx(v, peers)] = v  BY DEF idx
  <1>2. DOMAIN peers = 1..(num - 3) /\ \A i \in 1..(num - 3) : peers[i] = i + 1
    BY ProversListed
  <1> HIDE DEF peers
  <1>3. Numbered(num, v, idx(v, peers))  BY <1>1, <1>2 DEF Numbered
  <1>4. QED  BY <1>3 DEF peers

\* A prover's election actor looks whether it was elected.
LEMMA CheckElectedStatusFits ==
  ASSUME ListenerInv, ElectionInv, NEW v \in Nodes, handle_check_elected_status(v)
  PROVE  Fits(num, published, v, node'[v])
  <1> DEFINE s == node[v]
             a == "ElectionEngine"
             m == Head(s.mailbox[a]).of
             peers == m.data.peers
             c == [s EXCEPT !.mailbox[a] = Tail(@)]
             init == [type |-> "Init", of |-> m, idx |-> idx(v, peers), n |-> Len(peers),
                      threshold |-> calculate_threshold(Len(peers))]
             update == [type |-> "UpdateNodeIdx", idx |-> idx(v, peers)]
             t == cast_message(cast_message(c, "DkgEngine", init), "AppStateEngine", update)
  <1>1. s.running \in 1..2 /\ s.mailbox[a] # <<>>
    BY ElectionFor DEF handle_check_elected_status
  <1>2. Ready(num, published, v, s)  BY <1>1, Fitting
  <1>3. node'[v] = c \/ (node'[v] = t /\ \E i \in DOMAIN peers : peers[i] = v)
    <2>1. becomes(v, c) \/ (becomes(v, t) /\ \E i \in DOMAIN peers : peers[i] = v)
      BY DEF handle_check_elected_status, Taken, Next_of
    <2> HIDE DEF c, t, peers
    <2>2. QED  BY <2>1, Fitting
  <1>4. peers = Outcome(num).peers
    <2>1. Head(s.mailbox[a]).type = "CheckElectedStatus"
      BY DEF handle_check_elected_status, has, Next_of
    <2>2. Truthful(num, v, Head(s.mailbox[a]))
      BY <1>1, <1>2, HeadTruthful DEF Actors
    <2>3. QED  BY <2>1, <2>2 DEF Truthful
  <1>5. Ready(num, published, v, c)
    <2>1. a \in Actors \ {"AppStateEngine"}  BY DEF Actors
    <2> HIDE DEF a
    <2>2. QED  BY <1>1, <1>2, <2>1, TakeReady
  <1>6. ASSUME \E i \in DOMAIN peers : peers[i] = v PROVE Ready(num, published, v, t)
    <2> DEFINE e == cast_message(c, "AppStateEngine", update)
    <2>1. Numbered(num, v, idx(v, peers))  BY <1>4, <1>6, IndexFound DEF ListenerInv
    <2>2. Len(peers) = num - 3  BY <1>4, ProversListed DEF ListenerInv
    <2> HIDE DEF c, m, peers
    <2>3. t = cast_message(e, "DkgEngine", init)
      BY <1>5, CastsCommute DEF Ready
    <2>4. Tellable(num, v, c, update) /\ update.type = "UpdateNodeIdx"
      BY <2>1 DEF Tellable, Truthful
    <2>5. Truthful(num, v, init)  BY <2>1, <2>2 DEF Truthful
    <2>6. "DkgEngine" \in Actors /\ "AppStateEngine" \in Actors  BY DEF Actors
    <2> HIDE DEF init, update, t
    <2>7. Ready(num, published, v, e) /\ Told(e, Len(e.mailbox["AppStateEngine"]))
      BY <1>5, <2>4, <2>6, CastReady
    <2>8. init.type # "StoreKeyShares"  BY DEF init
    <2> HIDE DEF e
    <2>9. Tellable(num, v, e, init)  BY <2>5, <2>7, <2>8 DEF Tellable
    <2>10. QED  BY <2>3, <2>6, <2>7, <2>9, CastReady
  <1> HIDE DEF c, t, peers
  <1>7. QED  BY <1>3, <1>5, <1>6 DEF Ready

\* The engine is initialised.
LEMMA InitFits ==
  ASSUME ListenerInv, ElectionInv, NEW v \in Nodes, handle_init(v)
  PROVE  /\ Fits(num, published, v, node'[v])
         /\ \E m : m.type = "InitRoundOutput" /\ gossiped' = gossiped \cup {m}
  <1> DEFINE s == node[v]
             a == "DkgEngine"
             msg == Head(s.mailbox[a])
             c == [s EXCEPT !.mailbox[a] = Tail(@)]
             u == [c EXCEPT
                     !.index = msg.idx, !.total_nodes = msg.n - 1, !.threshold = msg.threshold,
                     !.heard = {}, !.keyed = FALSE, !.handled = Append(@, msg.of)]
             m == Message(v, "InitRoundOutput", <<>>)
             t == cast_message(u, "GossipEngine", m)
  <1>1. s.running \in 1..2 /\ s.mailbox[a] # <<>> /\ v \in Places
    BY Running DEF handle_init, has, Actors
  <1>2. Ready(num, published, v, s)  BY <1>1, Fitting
  <1>3. node'[v] = t /\ gossiped' = gossiped \cup {m}
    <2>1. gossips(v, u, m)  BY DEF handle_init, Taken, Next_of
    <2> HIDE DEF u, m
    <2>2. QED  BY <1>1, <2>1 DEF gossips, ListenerInv
  <1>4. /\ Numbered(num, v, msg.idx) /\ msg.n = num - 3
        /\ msg.threshold = calculate_threshold(num - 3)
        /\ Told(s, Len(s.mailbox["AppStateEngine"]))
    <2>1. msg.type = "Init"  BY DEF handle_init, has, Next_of
    <2>2. QED  BY <1>1, <1>2, <2>1, HeadTruthful DEF Actors, Truthful
  <1>5. Ready(num, published, v, c) /\ Told(c, Len(c.mailbox["AppStateEngine"]))
    <2>1. a \in Actors \ {"AppStateEngine"}  BY DEF Actors
    <2> HIDE DEF a
    <2>2. QED  BY <1>1, <1>2, <1>4, <2>1, TakeReady
  <1>6. /\ msg.idx # 0 /\ msg.n - 1 = num - 4
    <2>1. num \in Nat  BY ListenerAssumption DEF ListenerInv
    <2>2. QED  BY <1>4, <2>1 DEF Numbered
  <1> HIDE DEF c, msg
  <1>7. /\ u = [f \in Fields |-> u[f]]
        /\ u.index = msg.idx /\ u.total_nodes = msg.n - 1 /\ u.threshold = msg.threshold
        /\ u.handled = Append(c.handled, msg.of)
        /\ \A f \in Fields \ {"index", "total_nodes", "threshold", "heard", "keyed", "handled"} :
             u[f] = c[f]
    BY <1>5, FieldNames DEF Ready, Shaped
  <1> HIDE DEF u
  <1>8. /\ u.mailbox = c.mailbox /\ u.running = c.running /\ u.polled = c.polled
        /\ u.got = c.got /\ u.current_state = c.current_state /\ u.my_node_idx = c.my_node_idx
        /\ u.n = c.n /\ u.t = c.t /\ u.active_provers = c.active_provers /\ u.shares = c.shares
    BY <1>7, FieldNames
  <1>9. Ready(num, published, v, u)
    <2>1. Shaped(u)
      <3> DEFINE q == c.handled
      <3>1. Queue(q)  BY <1>5 DEF Ready, Shaped
      <3>2. u.handled = Append(q, msg.of)  BY <1>7
      <3> HIDE DEF q
      <3>3. Queue(Append(q, msg.of))  BY <3>1, Appended
      <3>4. Queue(u.handled)  BY <3>2, <3>3
      <3>5. QED  BY <1>5, <1>7, <1>8, <3>4 DEF Ready, Shaped
    <2>2. Said(num, v, u)  BY <1>5, <1>8 DEF Ready, Fits, Said
    <2>3. Known(num, published, v, u)
      BY <1>4, <1>5, <1>6, <1>7, <1>8 DEF Ready, Fits, Known
    <2>4. \A k : Told(u, k) <=> Told(c, k)  BY <1>8 DEF Told
    <2>5. Tells(u)
      BY <1>5, <1>6, <1>7, <1>8, <2>4 DEF Ready, Fits, Tells
    <2>6. u.running \in 1..2  BY <1>5, <1>8 DEF Ready
    <2>7. QED  BY <2>1, <2>2, <2>3, <2>5, <2>6 DEF Ready, Fits
  <1>10. m.type = "InitRoundOutput"  BY DEF Message
  <1>11. Tellable(num, v, u, m) /\ "GossipEngine" \in Actors
    BY <1>10 DEF Tellable, Truthful, Actors
  <1> HIDE DEF m
  <1>12. Ready(num, published, v, t)  BY <1>9, <1>11, CastReady
  <1>13. QED  BY <1>3, <1>10, <1>12 DEF Ready

\* The engine hears of another participant.
LEMMA InitRoundOutputFits ==
  ASSUME ListenerInv, ElectionInv, NEW v \in Nodes, handle_init_round_output(v)
  PROVE  Fits(num, published, v, node'[v])
  <1> DEFINE s == node[v]
             a == "DkgEngine"
             m == Head(s.mailbox[a]).of
             c == [s EXCEPT !.mailbox[a] = Tail(@)]
             u == [c EXCEPT !.handled = Append(@, m),
                            !.heard = IF s.index = 0 THEN @ ELSE @ \cup {m.from}]
  <1>1. s.running \in 1..2 /\ s.mailbox[a] # <<>>
    BY Running DEF handle_init_round_output, has, Actors
  <1>2. Ready(num, published, v, s)  BY <1>1, Fitting
  <1>3. node'[v] = u
    <2>1. becomes(v, u)  BY DEF handle_init_round_output, Taken, Next_of
    <2> HIDE DEF u
    <2>2. QED  BY <2>1, Fitting
  <1>4. Ready(num, published, v, c)
    <2>1. a \in Actors \ {"AppStateEngine"}  BY DEF Actors
    <2> HIDE DEF a
    <2>2. QED  BY <1>1, <1>2, <2>1, TakeReady
  <1> HIDE DEF c
  <1>5. \A f \in Fields \ {"handled", "heard"} : u[f] = c[f]
    BY <1>4, FieldNames DEF Ready, Shaped
  <1> HIDE DEF u
  <1>6. /\ \A f \in Facts \cup {"mailbox"} : u[f] = c[f]
        /\ u.got = c.got /\ u.current_state = c.current_state
    BY <1>5, FieldNames DEF Facts
  <1>7. /\ Fits(num, published, v, c) /\ c.got \subseteq published
        /\ c.current_state \in States
    BY <1>4 DEF Ready, Fits, Known
  <1>8. QED  BY <1>3, <1>6, <1>7, SameFits

\* The engine ends with a key.
LEMMA StoreSharesFits ==
  ASSUME ListenerInv, ElectionInv, NEW v \in Nodes, store_shares(v)
  PROVE  Fits(num, published, v, node'[v])
  <1> DEFINE s == node[v]
             u == [s EXCEPT !.keyed = TRUE]
             msg == [type |-> "StoreKeyShares"]
             t == cast_message(u, "AppStateEngine", msg)
  <1>1. s.running \in 1..2 /\ s.index # 0  BY Running DEF store_shares
  <1>2. Ready(num, published, v, s)  BY <1>1, Fitting
  <1>3. node'[v] = t
    <2>1. becomes(v, t)  BY DEF store_shares
    <2> HIDE DEF t
    <2>2. QED  BY <2>1, Fitting
  <1>4. /\ u = [f \in Fields |-> u[f]]
        /\ \A f \in Fields \ {"keyed"} : u[f] = s[f]
    BY <1>2, FieldNames DEF Ready, Shaped
  <1> HIDE DEF u
  <1>5. /\ u.mailbox = s.mailbox /\ u.handled = s.handled /\ u.running = s.running
        /\ u.polled = s.polled /\ u.got = s.got /\ u.current_state = s.current_state
        /\ u.index = s.index /\ \A f \in Facts \cup {"mailbox", "running"} : u[f] = s[f]
    BY <1>4, FieldNames DEF Facts
  <1>6. Ready(num, published, v, u)
    <2>1. Shaped(u)  BY <1>2, <1>4, <1>5 DEF Ready, Shaped
    <2>2. /\ u.got \subseteq published
          /\ u.current_state \in States
      BY <1>2, <1>5 DEF Ready, Fits, Known
    <2>3. QED  BY <1>2, <1>5, <2>1, <2>2, SameReady
  <1>7. Tellable(num, v, u, msg) /\ "AppStateEngine" \in Actors
    BY <1>1, <1>5 DEF Tellable, Truthful, Actors
  <1> HIDE DEF msg
  <1>8. Ready(num, published, v, t)  BY <1>6, <1>7, CastReady
  <1>9. QED  BY <1>3, <1>8 DEF Ready

\* What the AppState actor makes of a message: it knows its index, when it files its share.
LEMMA AppStateFits ==
  ASSUME ListenerInv, ElectionInv, NEW v \in Nodes, app_state(v)
  PROVE  Fits(num, published, v, node'[v])
  <1> DEFINE s == node[v]
             A == s.mailbox["AppStateEngine"]
             F == Tail(A)
             msg == Head(A)
             c == [s EXCEPT !.mailbox["AppStateEngine"] = Tail(@)]
             t == node'[v]
  <1>1. s.running \in 1..2 /\ A # <<>>  BY Running DEF app_state, Actors
  <1>2. /\ Shaped(s) /\ Said(num, v, s) /\ Known(num, published, v, s) /\ Tells(s)
        /\ Truthful(num, v, msg)
    <2>1. Ready(num, published, v, s)  BY <1>1, Fitting
    <2>2. Truthful(num, v, msg)  BY <1>1, <2>1, HeadTruthful DEF Actors
    <2>3. QED  BY <2>1, <2>2 DEF Ready, Fits
  <1>3. \/ msg.type = "UpdatedThreshold" /\ t = [c EXCEPT !.n = msg.n, !.t = msg.t]
        \/ msg.type = "UpdateElectedProvers" /\ t = [c EXCEPT !.active_provers = msg.peers]
        \/ msg.type = "UpdateNodeIdx" /\ t = [c EXCEPT !.my_node_idx = msg.idx]
        \/ msg.type = "StoreKeyShares" /\ t = [c EXCEPT !.shares = @ \cup {c.my_node_idx}]
        \/ (msg.type = "UpdateNodeIdx" => node_type(v) # "Prover") /\ t = c
    <2>1. \/ msg.type = "UpdatedThreshold" /\ becomes(v, [c EXCEPT !.n = msg.n, !.t = msg.t])
          \/ /\ msg.type = "UpdateElectedProvers"
             /\ becomes(v, [c EXCEPT !.active_provers = msg.peers])
          \/ msg.type = "UpdateNodeIdx" /\ becomes(v, [c EXCEPT !.my_node_idx = msg.idx])
          \/ /\ msg.type = "StoreKeyShares"
             /\ becomes(v, [c EXCEPT !.shares = @ \cup {c.my_node_idx}])
          \/ (msg.type = "UpdateNodeIdx" => node_type(v) # "Prover") /\ becomes(v, c)
      BY DEF app_state, Taken, Next_of
    <2> HIDE DEF c, msg
    <2>2. QED  BY <2>1, Fitting
  <1>4. msg.type = "UpdateNodeIdx" =>
          Numbered(num, v, msg.idx) /\ node_type(v) = "Prover" /\ msg.idx # 0
    BY <1>2, ProversListed DEF Truthful, ListenerInv
  <1>5. Differs(s, c, "AppStateEngine", F)
    <2>1. "AppStateEngine" \in Actors  BY DEF Actors
    <2> HIDE DEF c
    <2>2. QED  BY <1>1, <1>2, <2>1, Take DEF c
  <1> HIDE DEF c, t
  <1>6. /\ Shaped(c) /\ c.mailbox["AppStateEngine"] = F
        /\ c.mailbox["DkgEngine"] = s.mailbox["DkgEngine"]
        /\ \A b \in Actors \ {"AppStateEngine"} : c.mailbox[b] = s.mailbox[b]
        /\ \A f \in Fields \ {"mailbox"} : c[f] = s[f]
    BY <1>5 DEF Differs, Actors
  <1>7. /\ t.mailbox = c.mailbox /\ t.got = s.got /\ t.current_state = s.current_state
        /\ t.index = s.index /\ t.total_nodes = s.total_nodes /\ t.threshold = s.threshold
        /\ \/ t.n = s.n /\ t.t = s.t
           \/ msg.type = "UpdatedThreshold" /\ t.n = msg.n /\ t.t = msg.t
        /\ \/ t.active_provers = s.active_provers
           \/ msg.type = "UpdateElectedProvers" /\ t.active_provers = msg.peers
        /\ \/ msg.type # "UpdateNodeIdx" /\ t.my_node_idx = s.my_node_idx
           \/ msg.type = "UpdateNodeIdx" /\ t.my_node_idx = msg.idx
        /\ \/ t.shares = s.shares
           \/ msg.type = "StoreKeyShares" /\ t.shares = s.shares \cup {s.my_node_idx}

    <2>1. c = [f \in Fields |-> c[f]]  BY <1>6 DEF Shaped
    <2> HIDE DEF msg
    <2>2. /\ \A f \in Fields \ {"n", "t", "active_provers", "my_node_idx", "shares"} : t[f] = c[f]
          /\ \/ t.n = c.n /\ t.t = c.t
             \/ msg.type = "UpdatedThreshold" /\ t.n = msg.n /\ t.t = msg.t
          /\ \/ t.active_provers = c.active_provers
             \/ msg.type = "UpdateElectedProvers" /\ t.active_provers = msg.peers
          /\ \/ msg.type # "UpdateNodeIdx" /\ t.my_node_idx = c.my_node_idx
             \/ msg.type = "UpdateNodeIdx" /\ t.my_node_idx = msg.idx
          /\ \/ t.shares = c.shares
             \/ msg.type = "StoreKeyShares" /\ t.shares = c.shares \cup {c.my_node_idx}
      <3>1. CASE msg.type = "UpdatedThreshold" /\ t = [c EXCEPT !.n = msg.n, !.t = msg.t]
        BY <2>1, <3>1, FieldNames
      <3>2. CASE msg.type = "UpdateElectedProvers" /\ t = [c EXCEPT !.active_provers = msg.peers]
        BY <2>1, <3>2, FieldNames
      <3>3. CASE msg.type = "UpdateNodeIdx" /\ t = [c EXCEPT !.my_node_idx = msg.idx]
        BY <2>1, <3>3, FieldNames
      <3>4. CASE msg.type = "StoreKeyShares" /\ t = [c EXCEPT !.shares = @ \cup {c.my_node_idx}]
        BY <2>1, <3>4, FieldNames
      <3>5. CASE msg.type # "UpdateNodeIdx" /\ t = c
        BY <3>5
      <3>6. QED  BY <1>3, <1>4, <3>1, <3>2, <3>3, <3>4, <3>5
    <2>3. /\ c.got = s.got /\ c.current_state = s.current_state /\ c.index = s.index
          /\ c.total_nodes = s.total_nodes /\ c.threshold = s.threshold /\ c.n = s.n
          /\ c.t = s.t /\ c.active_provers = s.active_provers /\ c.my_node_idx = s.my_node_idx
          /\ c.shares = s.shares
      BY <1>6, FieldNames
    <2>4. /\ t.mailbox = c.mailbox /\ t.got = c.got /\ t.current_state = c.current_state
          /\ t.index = c.index /\ t.total_nodes = c.total_nodes /\ t.threshold = c.threshold
      BY <2>2, FieldNames
    <2>5. QED  BY <2>2, <2>3, <2>4
  <1>8. /\ Len(A) \in Nat \ {0} /\ Len(F) = Len(A) - 1 /\ msg = A[1]
        /\ \A k \in 1..Len(F) : k + 1 \in 2..Len(A) /\ F[k] = A[k + 1]
    <2>1. Queue(A)  BY <1>2 DEF Shaped, Actors
    <2> HIDE DEF A
    <2>2. QED  BY <1>1, <2>1, TakenFrom
  <1> HIDE DEF F, A, msg
  <1>9. Said(num, v, t)
    <2>1. ASSUME NEW b \in Actors, NEW k \in 1..Len(t.mailbox[b])
          PROVE  Truthful(num, v, t.mailbox[b][k])
      <3>1. CASE b # "AppStateEngine"
        <4>1. t.mailbox[b] = s.mailbox[b]  BY <1>6, <1>7, <3>1
        <4>2. QED  BY <1>2, <4>1 DEF Said
      <3>2. CASE b = "AppStateEngine"
        <4>1. k + 1 \in 1..Len(A) /\ t.mailbox[b][k] = A[k + 1]  BY <1>6, <1>7, <1>8, <3>2
        <4>2. QED  BY <1>2, <4>1, <3>2 DEF Said, A
      <3>3. QED  BY <3>1, <3>2
    <2>2. QED  BY <2>1 DEF Said
  <1>10. msg.type = "StoreKeyShares" => s.index # 0 /\ s.my_node_idx # 0
    <2>1. SUFFICES ASSUME msg.type = "StoreKeyShares" PROVE s.index # 0 /\ s.my_node_idx # 0
      OBVIOUS
    <2>2. 1 \in 1..Len(A) /\ A[1].type = "StoreKeyShares"  BY <1>8, <2>1
    <2>3. s.index # 0 /\ Told(s, 1)  BY <1>2, <2>2 DEF Tells, A
    <2>4. \A j \in 1..1 : A[j].type # "UpdateNodeIdx"  BY <2>2
    <2>5. QED  BY <2>3, <2>4 DEF Told, A
  <1>11. Known(num, published, v, t)
    <2>1. t.my_node_idx # 0 => Numbered(num, v, t.my_node_idx)
      BY <1>2, <1>4, <1>7 DEF Known
    <2>2. t.n # 0 => t.n = num - 3 /\ t.t = calculate_threshold(num - 3)
      BY <1>2, <1>7 DEF Known, Truthful
    <2>3. t.active_provers \in {<<>>, Outcome(num).peers}
      BY <1>2, <1>7 DEF Known, Truthful
    <2>4. \A i \in t.shares : Numbered(num, v, i) /\ t.index # 0
      BY <1>2, <1>7, <1>10 DEF Known
    <2>5. QED  BY <1>2, <1>7, <2>1, <2>2, <2>3, <2>4 DEF Known
  <1>12. ASSUME NEW k \in 1..Len(A), Told(s, k) PROVE Told(t, k - 1)
    <2>1. CASE t.my_node_idx # 0  BY <2>1 DEF Told
    <2>2. CASE t.my_node_idx = 0
      <3>1. msg.type # "UpdateNodeIdx" /\ s.my_node_idx = 0  BY <1>4, <1>7, <2>2
      <3>2. PICK j \in 1..k : A[j].type = "UpdateNodeIdx"  BY <1>12, <3>1 DEF Told, A
      <3>3. j # 1  BY <1>8, <3>1, <3>2
      <3>4. j - 1 \in 1..(k - 1) /\ j - 1 \in 1..Len(F) /\ (j - 1) + 1 = j
        BY <1>8, <3>3
      <3>5. F[j - 1] = A[j]  BY <1>8, <3>4
      <3>6. t.mailbox["AppStateEngine"][j - 1].type = "UpdateNodeIdx"
        BY <1>6, <1>7, <3>2, <3>5
      <3>7. QED  BY <3>4, <3>6 DEF Told
    <2>3. QED  BY <2>1, <2>2
  <1>13. Tells(t)
    <2> DEFINE D == t.mailbox["DkgEngine"]
    <2>1. t.mailbox["AppStateEngine"] = F /\ D = s.mailbox["DkgEngine"]  BY <1>6, <1>7
    <2>2. ASSUME t.index # 0 \/ (\E k \in 1..Len(D) : D[k].type = "Init")
          PROVE  Told(t, Len(F))
      <3>1. Told(s, Len(A))  BY <1>2, <1>7, <2>1, <2>2 DEF Tells, A
      <3>2. Len(A) \in 1..Len(A)  BY <1>8
      <3>3. QED  BY <1>8, <1>12, <3>1, <3>2
    <2>3. ASSUME NEW k \in 1..Len(F), F[k].type = "StoreKeyShares"
          PROVE  t.index # 0 /\ Told(t, k)
      <3>1. k + 1 \in 1..Len(A) /\ A[k + 1].type = "StoreKeyShares" /\ (k + 1) - 1 = k
        BY <1>8, <2>3
      <3>2. s.index # 0 /\ Told(s, k + 1)  BY <1>2, <3>1 DEF Tells, A
      <3>3. Told(t, (k + 1) - 1)  BY <1>12, <3>1, <3>2
      <3>4. QED  BY <1>7, <3>1, <3>2, <3>3
    <2> HIDE DEF D
    <2>4. QED  BY <2>1, <2>2, <2>3 DEF Tells, D
  <1>14. QED  BY <1>9, <1>11, <1>13 DEF Fits, t

\* A process is killed.
LEMMA CrashFits ==
  ASSUME ListenerInv, ElectionInv, NEW v \in Nodes, crash(v)
  PROVE  Fits(num, published, v, node'[v])
  <1>1. becomes(v, Off)  BY DEF crash
  <1> HIDE DEF Off
  <1>2. node'[v] = Off  BY <1>1, Fitting
  <1>3. QED  BY <1>2, OffFits

-----------------------------------------------------------------------------
(***************************************************************************)
(* The invariant, and that all agree.                                      *)
(***************************************************************************)

\* What is gossiped of the election is its outcome.
Announced == \A m \in gossiped : m.type = "ElectedProvers" => m.data = Outcome(num)

\* Nobody but the relay's election actor has anything gossiped about it.
LEMMA AnnouncedKept ==
  ASSUME ListenerInv, ElectionInv, NEW v \in Nodes,
         \/ gossiped' = gossiped
         \/ handle_trigger_election(v) \/ handle_init(v),
         num' = num
  PROVE  Announced'
  <1>1. Announced  BY DEF ElectionInv, Announced
  <1>2. CASE gossiped' = gossiped  BY <1>1, <1>2 DEF Announced
  <1>3. CASE handle_trigger_election(v)
    <2>1. PICK seq : gossiped' = gossiped \cup
            {[type |-> "ElectedProvers", from |-> v, data |-> Outcome(num), seq |-> seq]}
      BY <1>3, TriggerElectionFits
    <2>2. QED  BY <1>1, <2>1 DEF Announced
  <1>4. CASE handle_init(v)
    <2>1. PICK m : m.type = "InitRoundOutput" /\ gossiped' = gossiped \cup {m}
      BY <1>4, InitFits
    <2>2. QED  BY <1>1, <2>1 DEF Announced
  <1>5. QED  BY <1>2, <1>3, <1>4

\* A step of a node keeps what all know of the election, if it keeps what the node does.
LEMMA ElectionStep ==
  ASSUME ListenerInv, ElectionInv, NEW v \in Nodes, Step(v), Announced',
         Fits(num, published, v, node'[v])
  PROVE  ElectionInv'
  <1>1. PICK t : node' = [node EXCEPT ![v] = t]  BY DEF Step
  <1>2. published \subseteq published' /\ num' = num  BY DEF Step
  <1>3. ASSUME NEW w \in Places PROVE Fits(num', published', w, node'[w])
    <2>1. Fits(num, published, w, node'[w])
      <3>1. CASE w = v  BY <3>1
      <3>2. CASE w # v
        <4>1. node'[w] = node[w]  BY <1>1, <3>2 DEF ListenerInv
        <4>2. QED  BY <4>1 DEF ElectionInv
      <3>3. QED  BY <3>1, <3>2
    <2>2. QED  BY <1>2, <2>1, FitsKept
  <1>4. QED  BY <1>3 DEF ElectionInv, Announced

\* Every step keeps it.
LEMMA ElectionKept ==
  ASSUME ListenerInv, ElectionInv, [Next]_vars
  PROVE  ElectionInv'
  <1>1. CASE UNCHANGED vars  BY <1>1 DEF ElectionInv, vars
  <1>2. CASE Next
    <2>1. PICK v \in Nodes :
            \/ main(v) \/ connect(v) \/ crash(v)
            \/ command(v) \/ handle(v)
            \/ \E w \in Nodes : subscribed(v, w)
            \/ \E m \in published : receive(v, m)
      BY <1>2 DEF Next
    <2>2. CASE main(v)
      <3>1. Step(v) /\ gossiped' = gossiped /\ num' = num
        BY <2>2, BecomesStep DEF main, becomes
      <3>2. QED  BY <2>2, <3>1, MainFits, AnnouncedKept, ElectionStep
    <2>3. CASE connect(v)
      <3>1. Step(v) /\ gossiped' = gossiped /\ num' = num
        BY <2>3, BecomesStep DEF connect, becomes
      <3>2. QED  BY <2>3, <3>1, ConnectFits, AnnouncedKept, ElectionStep
    <2>4. CASE crash(v)
      <3>1. becomes(v, Off) /\ num' = num /\ published' = published  BY <2>4 DEF crash
      <3>2. Step(v) /\ gossiped' = gossiped  BY <3>1, BecomesStep DEF becomes
      <3>3. QED  BY <2>4, <3>1, <3>2, CrashFits, AnnouncedKept, ElectionStep
    <2>5. CASE command(v)
      <3>1. Step(v) /\ gossiped' = gossiped /\ num' = num
        BY <2>5, CommandStep DEF command, becomes
      <3>2. QED  BY <2>5, <3>1, CommandFits, AnnouncedKept, ElectionStep
    <2>6. CASE handle(v)
      <3>1. Step(v) /\ num' = num  BY <2>6, HandleStep DEF Step
      <3>2. Fits(num, published, v, node'[v])
        BY <2>6, CheckElectionStatusFits, TriggerElectionFits, CheckElectedStatusFits, InitFits,
           InitRoundOutputFits, StoreSharesFits, AppStateFits DEF handle
      <3>3. gossiped' = gossiped \/ handle_trigger_election(v) \/ handle_init(v)
        BY <2>6 DEF handle, handle_check_election_status, handle_check_elected_status,
                    handle_init_round_output, store_shares, app_state, becomes
      <3>4. QED  BY <3>1, <3>2, <3>3, AnnouncedKept, ElectionStep
    <2>7. ASSUME NEW w \in Nodes, subscribed(v, w) PROVE ElectionInv'
      <3>1. Step(v) /\ gossiped' = gossiped /\ num' = num
        BY <2>7, BecomesStep DEF subscribed, becomes
      <3>2. QED  BY <2>7, <3>1, SubscribedFits, AnnouncedKept, ElectionStep
    <2>8. ASSUME NEW m \in published, receive(v, m) PROVE ElectionInv'
      <3>1. Step(v) /\ gossiped' = gossiped /\ num' = num
        BY <2>8, BecomesStep DEF receive, becomes
      <3>2. QED  BY <2>8, <3>1, ReceiveFits, AnnouncedKept, ElectionStep
    <2>9. QED  BY <2>1, <2>2, <2>3, <2>4, <2>5, <2>6, <2>7, <2>8
  <1>3. QED  BY <1>1, <1>2

\* It is the same for all, at the start and always.
THEOREM ElectionCorrect == Spec => []ElectionInv
  <1>1. Init => ElectionInv
    <2>1. SUFFICES ASSUME Init PROVE ElectionInv  OBVIOUS
    <2>2. node = [v \in Places |-> Off] /\ gossiped = {}  BY <2>1 DEF Init
    <2> HIDE DEF Off
    <2>3. QED  BY <2>2, OffFits DEF ElectionInv
  <1>2. ListenerInv /\ ElectionInv /\ [Next]_vars => ElectionInv'  BY ElectionKept
  <1>3. QED  BY <1>1, <1>2, ListenerInvariant, PTL DEF Spec

\* What the election left in the actors of the provers and the relay fits together, however
\* the messages about it are delayed, and whoever is killed.
THEOREM AgreementCorrect == Spec => []Agreement
  <1>1. ASSUME ListenerInv, ElectionInv PROVE Agreement
    <2>1. /\ num - 3 \in Nat \ {0} /\ Outcome(num).peers = fetch_provers
          /\ \A i \in 1..(num - 3) : fetch_provers[i] = i + 1
          /\ calculate_threshold(num - 3) \in 1..(num - 3)
      BY <1>1, ProversListed DEF ListenerInv
    <2>2. num \in Nat \ 0..3  BY <1>1, ListenerAssumption DEF ListenerInv
    <2>3. Relay \in Nodes  BY <2>2 DEF Relay, Nodes
    <2> DEFINE r == node[Relay]
    <2>4. /\ r.n # 0 => r.n = num - 3 /\ r.t = calculate_threshold(num - 3)
          /\ r.active_provers \in {<<>>, fetch_provers}
      BY <1>1, <2>1, <2>3, Fitting DEF Fits, Known
    <2>5. ASSUME NEW p \in Provers
          PROVE  LET s == node[p] IN
                 /\ s.index # 0 => s.index \in 1..(s.total_nodes + 1)
                                   /\ s.threshold \in 1..(s.total_nodes + 1)
                 /\ s.index # 0 /\ s.my_node_idx # 0 => s.my_node_idx = s.index
                 /\ s.index # 0 /\ s.n # 0 => s.n = s.total_nodes + 1 /\ s.t = s.threshold
                 /\ s.n # 0 /\ r.n # 0 => s.n = r.n /\ s.t = r.t
                 /\ s.index # 0 /\ r.active_provers # <<>> => r.active_provers[s.index] = p
                 /\ s.shares \subseteq {s.index}
      <3> DEFINE s == node[p]
      <3>1. p \in Nodes  BY DEF Provers
      <3>2. Known(num, published, p, s)  BY <1>1, <3>1, Fitting DEF Fits
      <3>3. (num - 4) + 1 = num - 3  BY <2>2
      <3> HIDE DEF s, r
      <3>4. /\ s.index # 0 =>
                 /\ s.index \in 1..(num - 3) /\ p = s.index + 1
                 /\ s.total_nodes + 1 = num - 3 /\ s.threshold = calculate_threshold(num - 3)
            /\ s.my_node_idx # 0 => s.my_node_idx \in 1..(num - 3) /\ p = s.my_node_idx + 1
            /\ s.n # 0 => s.n = num - 3 /\ s.t = calculate_threshold(num - 3)
            /\ \A i \in s.shares : i \in 1..(num - 3) /\ p = i + 1 /\ s.index # 0
        BY <3>2, <3>3 DEF Known, Numbered
      <3>5. \A i, j \in 1..(num - 3) : i + 1 = j + 1 => i = j  OBVIOUS
      <3>6. s.index # 0 => s.index \in 1..(s.total_nodes + 1)
                           /\ s.threshold \in 1..(s.total_nodes + 1)
        BY <2>1, <3>4
      <3>7. s.index # 0 /\ s.my_node_idx # 0 => s.my_node_idx = s.index  BY <3>4, <3>5
      <3>8. s.index # 0 /\ s.n # 0 => s.n = s.total_nodes + 1 /\ s.t = s.threshold  BY <3>4
      <3>9. s.n # 0 /\ r.n # 0 => s.n = r.n /\ s.t = r.t  BY <2>4, <3>4
      <3>10. s.index # 0 /\ r.active_provers # <<>> => r.active_provers[s.index] = p
        BY <2>1, <2>4, <3>4
      <3>11. s.shares \subseteq {s.index}  BY <3>4, <3>5
      <3>12. QED  BY <3>6, <3>7, <3>8, <3>9, <3>10, <3>11 DEF s
    <2>6. QED  BY <2>5 DEF Agreement
  <1>2. QED  BY <1>1, ListenerInvariant, ElectionCorrect, PTL

-----------------------------------------------------------------------------
(***************************************************************************)
(* What is not about one process, and the types.                           *)
(***************************************************************************)

\* A step keeps it.
LEMMA NetworkKept ==
  ASSUME ListenerInv, NetworkInv, [Next]_vars
  PROVE  NetworkInv'
  <1>1. CASE UNCHANGED vars  BY <1>1 DEF NetworkInv, vars, Provers, Nodes, node_type
  <1>2. CASE Next
    <2>1. PICK v \in Nodes :
            \/ main(v) \/ connect(v) \/ crash(v)
            \/ command(v) \/ handle(v)
            \/ \E w \in Nodes : subscribed(v, w)
            \/ \E m \in published : receive(v, m)
      BY <1>2 DEF Next
    <2>2. v \in Places  BY Running
    <2>3. num' = num  BY <2>1 DEF main, connect, crash, command, handle, subscribed, receive
    <2>4. Provers' = Provers  BY <2>3 DEF Provers, Nodes, node_type
    <2>5. invited' \subseteq Provers
      <3>1. invited' = invited \/ invited' = {p \in Provers : node[p].joined}
        BY <2>1 DEF main, connect, crash, command, handle, subscribed, receive
      <3>2. QED  BY <3>1 DEF NetworkInv
    <2>6. crashes' \in 0..MaxCrash[num]
      <3>1. crashes' = crashes \/ (crashes' = crashes + 1 /\ crashes < MaxCrash[num])
        BY <2>1 DEF main, connect, crash, command, handle, subscribed, receive
      <3>2. MaxCrash[num] \in Nat /\ crashes \in 0..MaxCrash[num]
        BY ListenerAssumption DEF ListenerInv, NetworkInv
      <3>3. QED  BY <3>1, <3>2
    <2>7. /\ transit' = [w \in Places |-> transit'[w]]
          /\ \A w \in Places : transit'[w] \subseteq published'
      <3>1. CASE transit' = transit /\ published' = published
        BY <3>1 DEF NetworkInv
      <3>2. CASE crash(v)
        <4>1. transit' = [transit EXCEPT ![v] = {}] /\ published' = published
          BY <3>2 DEF crash
        <4>2. QED  BY <4>1 DEF NetworkInv
      <3>3. CASE command(v)
        <4>1. \/ transit' = transit /\ published' = published
              \/ \E m : /\ published' = published \cup {m}
                        /\ transit' = [w \in Places |->
                             IF w # v /\ node[w].joined THEN transit[w] \cup {m} ELSE transit[w]]
          BY <3>3 DEF command
        <4>2. QED  BY <4>1, <3>1 DEF NetworkInv
      <3>4. (transit' = transit /\ published' = published) \/ crash(v) \/ command(v)
        BY <2>1 DEF main, connect, handle, subscribed, receive
      <3>5. QED  BY <3>1, <3>2, <3>3, <3>4
    <2>8. QED  BY <2>3, <2>4, <2>5, <2>6, <2>7 DEF NetworkInv
  <1>3. QED  BY <1>1, <1>2

\* It is so at the start, and always.
LEMMA NetworkCorrect == Spec => []NetworkInv
  <1>1. Init => NetworkInv
    <2>1. SUFFICES ASSUME Init PROVE NetworkInv  OBVIOUS
    <2>2. MaxCrash[num] \in Nat  BY <2>1, ListenerAssumption DEF Init
    <2>3. QED  BY <2>1, <2>2 DEF Init, NetworkInv
  <1>2. ListenerInv /\ NetworkInv /\ [Next]_vars => NetworkInv'  BY NetworkKept
  <1>3. QED  BY <1>1, <1>2, ListenerInvariant, PTL DEF Spec

\* Everything keeps its type; what a process has handled has come to it, and what has come
\* was published.
THEOREM TypeCorrect == Spec => []TypeOK
  <1>1. ASSUME ListenerInv, ElectionInv, NetworkInv PROVE TypeOK
    <2>1. ASSUME NEW v \in Nodes
          PROVE  /\ node[v].running \in 0..Len(START)
                 /\ node[v].current_state \in States
                 /\ DOMAIN node[v].mailbox = Actors
                 /\ node[v].handled \in Seq(node[v].got) /\ node[v].got \subseteq published
                 /\ transit[v] \subseteq published
      <3> DEFINE s == node[v]
                 h == s.handled
      <3>1. /\ v \in Places /\ Good(gossiped, v, s) /\ s.got \subseteq published
            /\ s.current_state \in States
        BY <1>1, <2>1, Fitting
      <3>2. /\ s.running \in 0..2 /\ s.mailbox = [a \in Actors |-> s.mailbox[a]]
            /\ Queue(h) /\ \A k \in 1..Len(h) : h[k] \in s.got
        BY <3>1 DEF Good, Shaped, Sourced
      <3>3. DOMAIN s.mailbox = Actors  BY <3>2
      <3>4. h \in Seq(s.got)
        <4>1. PICK S : h \in Seq(S)  BY <3>2 DEF Queue
        <4>2. Len(h) \in Nat /\ DOMAIN h = 1..Len(h) /\ h \in [1..Len(h) -> S]
          BY <4>1, LenProperties
        <4> HIDE DEF h
        <4>3. h \in [1..Len(h) -> s.got]  BY <3>2, <4>2
        <4>4. QED  BY <4>2, <4>3, SeqDef
      <3>5. s.running \in 0..Len(START)  BY <3>2 DEF START
      <3>6. transit[v] \subseteq published  BY <1>1, <3>1 DEF NetworkInv
      <3>7. QED  BY <3>1, <3>3, <3>4, <3>5, <3>6
    <2>2. QED  BY <1>1, <2>1 DEF TypeOK, States, ListenerInv, NetworkInv
  <1>2. QED  BY <1>1, ListenerInvariant, ElectionCorrect, NetworkCorrect, PTL
=============================================================================
