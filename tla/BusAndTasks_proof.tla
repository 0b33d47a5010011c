------------------------- MODULE BusAndTasks_proof -------------------------
(***************************************************************************)
(* Proofs about EventBus and TaskFiles.                                    *)
(*                                                                         *)
(* The bus, for any publishers, subscriptions, topics and numbers of       *)
(* events: its invariant Inv, from which type correctness, the order of    *)
(* the deliveries and that none is missed follow.                          *)
(*                                                                         *)
(* The tasks, with AutoCommit, for any tasks, options, calls and faults:   *)
(* the invariant TaskInv, from which type correctness, that answers stand  *)
(* and that a quiet committer has committed follow.                        *)
(***************************************************************************)
EXTENDS EventBus, TaskFiles, SequenceTheorems, TLAPS

-----------------------------------------------------------------------------
(* EventBus.                                                                 *)

\* The subscriptions that are or have been in their topic's slice.
Listed == {s \in Sub : state[s] \in {"open", "closing", "closed"}}

\* In registration order, and without a subscription twice.
Sorted(o, q) == \A i, j \in 1..Len(q) : i < j => Rank(o, q[i]) < Rank(o, q[j])

NoRepeat(o) == \A i, j \in 1..Len(o) : o[i] = o[j] => i = j

\* The history of registrations: no subscription twice, and all there are.
OrderInv ==
  /\ NoRepeat(order)
  /\ \A i \in 1..Len(order) : order[i] \in Listed
  /\ \A s \in Listed : \E i \in 1..Len(order) : order[i] = s

\* A topic's slice holds what is open on it or about to leave it.
SubsInv ==
  /\ \A t \in Topic :
       /\ Sorted(order, subs[t])
       /\ \A i \in 1..Len(subs[t]) :
            topic[subs[t][i]] = t /\ state[subs[t][i]] \in {"open", "closing"}
  /\ \A s \in Sub : state[s] \in {"open", "closing"} =>
       \E i \in 1..Len(subs[topic[s]]) : subs[topic[s]][i] = s

LastInv ==
  \A s \in Sub : state[s] \in {"new", "open"} =>
    \A p \in Publisher : last[s][p] = MaxEvents

\* A publisher in its loop: the snapshot is in order and holds all that is owed
\* the event, and what lies behind in it and is open has had the event.
LoopInv(p) ==
  LET snap == pub[p].snapshot IN
  /\ pub[p].next \in 1..(Len(snap) + 1)
  /\ Sorted(order, snap)
  /\ \A i \in 1..Len(snap) : snap[i] \in Listed
  /\ pub[p].pc = "called" => /\ pub[p].next <= Len(snap)
                             /\ pub[p].sent <= last[snap[pub[p].next]][p]
  /\ pub[p].pc # "idle" =>
       /\ pub[p].sent >= 1
       /\ \A s \in pub[p].owed : \E i \in 1..Len(snap) : snap[i] = s
       /\ \A i \in 1..(pub[p].next - 1) :
            state[snap[i]] = "open" => Delivered(snap[i], Event(p))

\* A handler call belongs to the past of its publisher: to an event before the
\* one in hand, or to a subscription the loop has passed.
LogInv ==
  \A i \in 1..Len(log) :
    LET s == log[i][1]  p == log[i][2][1]  n == log[i][2][2] IN
    /\ s \in Listed /\ n <= pub[p].sent
    /\ n = pub[p].sent /\ pub[p].pc # "idle" =>
         \E k \in 1..(pub[p].next - 1) : pub[p].snapshot[k] = s

Inv == /\ BusTypeOK /\ OrderInv /\ SubsInv /\ LastInv
       /\ \A p \in Publisher : LoopInv(p)
       /\ LogInv /\ OrderedDelivery /\ ClosedMissesLaterEvents

-----------------------------------------------------------------------------
(* Subscriptions: what they leave of the publishers' invariants.            *)

\* A registration has one index.
LEMMA RankIs ==
  ASSUME NEW o \in Seq(Sub), NoRepeat(o), NEW i \in 1..Len(o)
  PROVE  Rank(o, o[i]) = i
  BY DEF NoRepeat, Rank

\* The next registration comes after all the others, which keep their index.
LEMMA RankAppend ==
  ASSUME NEW o \in Seq(Sub), NEW r \in Sub, NoRepeat(Append(o, r))
  PROVE  /\ \A i \in 1..Len(o) : Rank(Append(o, r), o[i]) = i
         /\ Rank(Append(o, r), r) = Len(o) + 1
<1>1. /\ Append(o, r) \in Seq(Sub) /\ Len(o) \in Nat
      /\ Len(Append(o, r)) = Len(o) + 1
      /\ \A i \in 1..Len(o) : Append(o, r)[i] = o[i]
      /\ Append(o, r)[Len(o) + 1] = r
  BY AppendProperties
<1>2. \A i \in 1..Len(Append(o, r)) : Rank(Append(o, r), Append(o, r)[i]) = i
  BY <1>1, RankIs
<1>3. /\ \A i \in 1..Len(o) : i \in 1..Len(Append(o, r))
      /\ Len(o) + 1 \in 1..Len(Append(o, r))
  BY <1>1
<1> QED
  BY <1>1, <1>2, <1>3

\* What is sorted stays so while its ranks do.
LEMMA SortedKept ==
  ASSUME NEW o, NEW oo, NEW q \in Seq(Sub), Sorted(o, q),
         \A i \in 1..Len(q) : Rank(oo, q[i]) = Rank(o, q[i])
  PROVE  Sorted(oo, q)
  BY DEF Sorted

\* Registrations and withdrawals never disturb a Publish under way: what is in
\* its snapshot stays listed and in its place, none of it opens again, and a
\* subscription that closes has still to get what is published already.
LEMMA LifeStep ==
  ASSUME Inv, UNCHANGED <<pub, log, topic>>, BusTypeOK',
         \A s \in Sub : s \in Listed =>
           s \in Listed' /\ Rank(order', s) = Rank(order, s),
         \A s \in Sub : s \in Listed /\ state'[s] = "open" => state[s] = "open",
         \A s \in Sub, p \in Publisher :
           last'[s][p] = last[s][p] \/ last'[s][p] = pub[p].sent
  PROVE  /\ \A p \in Publisher : LoopInv(p)'
         /\ LogInv' /\ OrderedDelivery' /\ ClosedMissesLaterEvents'
<1>t. /\ BusTypeOK /\ LogInv /\ OrderedDelivery /\ ClosedMissesLaterEvents
      /\ pub' = pub /\ log' = log
  BY DEF Inv
<1>1. ASSUME NEW p \in Publisher PROVE LoopInv(p)'
  <2> DEFINE snap == pub[p].snapshot
  <2>1. LoopInv(p)
    BY DEF Inv
  <2>2. /\ snap \in Seq(Sub) /\ Len(snap) \in Nat
        /\ \A i \in 1..Len(snap) : snap[i] \in Sub /\ snap[i] \in Listed
        /\ pub[p] \in Pubs /\ pub[p].sent \in 0..MaxEvents /\ pub[p].next \in Nat
    <3>1. pub[p] \in Pubs
      BY <1>t DEF BusTypeOK
    <3>2. /\ snap \in Seq(Sub)
          /\ pub[p].sent \in 0..MaxEvents /\ pub[p].next \in Nat
      BY <3>1 DEF Pubs
    <3>3. /\ Len(snap) \in Nat
          /\ \A i \in 1..Len(snap) : snap[i] \in Sub
      BY <3>2
    <3>4. \A i \in 1..Len(snap) : snap[i] \in Listed
      BY <2>1 DEF LoopInv
    <3> QED
      BY <3>1, <3>2, <3>3, <3>4
  <2>3. \A i \in 1..Len(snap) :
          snap[i] \in Listed' /\ Rank(order', snap[i]) = Rank(order, snap[i])
    BY <2>2
  <2>4. Sorted(order', snap)
    BY <2>1, <2>2, <2>3, SortedKept DEF LoopInv
  <2>5. pub[p].pc = "called" =>
          pub[p].next <= Len(snap) /\ pub[p].sent <= last'[snap[pub[p].next]][p]
    <3> SUFFICES ASSUME pub[p].pc = "called"
                 PROVE  pub[p].next <= Len(snap) /\ pub[p].sent <= last'[snap[pub[p].next]][p]
      OBVIOUS
    <3>1. /\ pub[p].next \in 1..Len(snap)
          /\ pub[p].sent <= last[snap[pub[p].next]][p]
      BY <2>1, <2>2 DEF LoopInv
    <3>2. snap[pub[p].next] \in Sub
      BY <3>1, <2>2
    <3>3. \/ last'[snap[pub[p].next]][p] = last[snap[pub[p].next]][p]
          \/ last'[snap[pub[p].next]][p] = pub[p].sent
      BY <3>2
    <3> QED
      BY <3>1, <3>3, <2>2
  <2>6. pub[p].pc # "idle" =>
          \A i \in 1..(pub[p].next - 1) :
            state'[snap[i]] = "open" => Delivered(snap[i], Event(p))'
    <3> SUFFICES ASSUME pub[p].pc # "idle", NEW i \in 1..(pub[p].next - 1),
                        state'[snap[i]] = "open"
                 PROVE  Delivered(snap[i], Event(p))'
      OBVIOUS
    <3>1. i \in 1..Len(snap)
      BY <2>1, <2>2 DEF LoopInv
    <3>2. state[snap[i]] = "open"
      BY <3>1, <2>2
    <3>3. Delivered(snap[i], Event(p))
      BY <3>2, <2>1 DEF LoopInv
    <3> QED
      BY <3>3, <1>t DEF Delivered, Event
  <2> QED
    BY <2>1, <2>3, <2>4, <2>5, <2>6, <1>t DEF LoopInv
<1>2. \A i \in 1..Len(log) : /\ log[i][1] \in Sub /\ log[i][2][1] \in Publisher
                             /\ log[i][2][2] \in 1..MaxEvents /\ log[i][1] \in Listed
  <2>1. \A i \in 1..Len(log) : log[i] \in Sub \X (Publisher \X (1..MaxEvents))
    BY <1>t DEF BusTypeOK
  <2> QED
    BY <2>1, <1>t DEF LogInv
<1>3. LogInv'
  BY <1>t, <1>2 DEF LogInv
<1>4. OrderedDelivery'
  BY <1>t, <1>2 DEF OrderedDelivery
<1>5. ClosedMissesLaterEvents'
  <2> SUFFICES ASSUME NEW i \in 1..Len(log)
               PROVE  log[i][2][2] <= last'[log[i][1]][log[i][2][1]]
    BY <1>t DEF ClosedMissesLaterEvents
  <2> DEFINE s == log[i][1]  p == log[i][2][1]  n == log[i][2][2]
  <2>1. s \in Sub /\ p \in Publisher
    BY <1>2
  <2>2. n <= last[s][p] /\ n <= pub[p].sent
    BY <1>t DEF LogInv, ClosedMissesLaterEvents
  <2>3. last'[s][p] = last[s][p] \/ last'[s][p] = pub[p].sent
    BY <2>1
  <2> QED
    BY <2>2, <2>3
<1> QED
  BY <1>1, <1>3, <1>4, <1>5

\* Listed and the registration order, as a registration leaves them.
LEMMA SubscribeOrder ==
  ASSUME Inv, NEW r \in Sub, Subscribe(r)
  PROVE  /\ Listed' = Listed \cup {r} /\ r \notin Listed
         /\ OrderInv'
         /\ \A s \in Listed : /\ Rank(order', s) = Rank(order, s)
                              /\ Rank(order', s) < Rank(order', r)
<1>0. BusTypeOK /\ OrderInv
  BY DEF Inv
<1>1. Listed' = Listed \cup {r} /\ r \notin Listed
  BY <1>0 DEF Subscribe, Listed, BusTypeOK
<1>2. /\ order \in Seq(Sub) /\ order' = Append(order, r) /\ order' \in Seq(Sub)
      /\ Len(order) \in Nat /\ Len(order') = Len(order) + 1
      /\ \A i \in 1..Len(order) : order'[i] = order[i] /\ order[i] \in Sub
      /\ order'[Len(order) + 1] = r
  BY <1>0, AppendProperties DEF Subscribe, BusTypeOK
<1>3. OrderInv'
  <2>1. NoRepeat(order')
    BY <1>0, <1>1, <1>2 DEF OrderInv, NoRepeat
  <2>2. \A i \in 1..Len(order') : order'[i] \in Listed'
    BY <1>0, <1>1, <1>2 DEF OrderInv
  <2>3. ASSUME NEW s \in Listed' PROVE \E i \in 1..Len(order') : order'[i] = s
    <3>1. CASE s = r
      BY <3>1, <1>2
    <3>2. CASE s # r
      <4>1. PICK i \in 1..Len(order) : order[i] = s
        BY <3>2, <1>0, <1>1 DEF OrderInv
      <4> QED
        BY <4>1, <1>2
    <3> QED
      BY <3>1, <3>2
  <2> QED
    BY <2>1, <2>2, <2>3 DEF OrderInv
<1>4. ASSUME NEW s \in Listed
      PROVE  Rank(order', s) = Rank(order, s) /\ Rank(order', s) < Rank(order', r)
  <2>1. PICK i \in 1..Len(order) : order[i] = s
    BY <1>0 DEF OrderInv
  <2>2. Rank(order, s) = i
    BY <2>1, <1>0, RankIs DEF OrderInv, BusTypeOK
  <2>3. Rank(order', s) = i /\ Rank(order', r) = Len(order) + 1
    BY <2>1, <1>2, <1>3, RankAppend DEF OrderInv
  <2> QED
    BY <2>1, <2>2, <2>3, <1>2
<1> QED
  BY <1>1, <1>3, <1>4

LEMMA SubscribeInv ==
  ASSUME Inv, NEW r \in Sub, Subscribe(r)
  PROVE  Inv'
<1>0. BusTypeOK /\ SubsInv /\ LastInv
  BY DEF Inv
<1> DEFINE u == topic[r]
           q == subs[u]
<1>1. /\ state[r] = "new" /\ u \in Topic /\ q \in Seq(Sub)
      /\ subs' = [subs EXCEPT ![u] = Append(q, r)]
      /\ state' = [state EXCEPT ![r] = "open"]
      /\ order' = Append(order, r)
      /\ UNCHANGED <<topic, pub, log, last>>
  BY <1>0 DEF Subscribe, BusTypeOK
<1>2. /\ state' \in [Sub -> Life] /\ state'[r] = "open"
      /\ \A s \in Sub \ {r} : state'[s] = state[s]
  BY <1>0, <1>1 DEF BusTypeOK, Life
<1>3. /\ Append(q, r) \in Seq(Sub) /\ Len(q) \in Nat
      /\ Len(Append(q, r)) = Len(q) + 1
      /\ \A i \in 1..Len(q) : Append(q, r)[i] = q[i] /\ q[i] \in Sub
      /\ Append(q, r)[Len(q) + 1] = r
  BY <1>1, AppendProperties
<1>4. /\ subs'[u] = Append(q, r) /\ \A t \in Topic \ {u} : subs'[t] = subs[t]
  BY <1>0, <1>1 DEF BusTypeOK
<1>5. BusTypeOK'
  <2>1. order' \in Seq(Sub)
    BY <1>0, <1>1, AppendProperties DEF BusTypeOK
  <2>2. subs' \in [Topic -> Seq(Sub)]
    BY <1>0, <1>1, <1>3 DEF BusTypeOK
  <2> QED
    BY <2>1, <2>2, <1>0, <1>1, <1>2 DEF BusTypeOK
<1>6. /\ Listed' = Listed \cup {r} /\ r \notin Listed
      /\ OrderInv'
      /\ \A s \in Listed : /\ Rank(order', s) = Rank(order, s)
                           /\ Rank(order', s) < Rank(order', r)
  BY SubscribeOrder
<1>7. SubsInv'
  <2>1. ASSUME NEW t \in Topic
        PROVE  /\ Sorted(order', subs[t]) /\ subs[t] \in Seq(Sub)
               /\ \A i \in 1..Len(subs[t]) :
                    /\ subs[t][i] \in Listed /\ topic[subs[t][i]] = t
                    /\ state'[subs[t][i]] \in {"open", "closing"}
    <3>1. subs[t] \in Seq(Sub) /\ Sorted(order, subs[t])
      BY <1>0 DEF SubsInv, BusTypeOK
    <3>2. \A i \in 1..Len(subs[t]) :
            /\ subs[t][i] \in Listed /\ topic[subs[t][i]] = t
            /\ state[subs[t][i]] \in {"open", "closing"}
      BY <3>1, <1>0 DEF SubsInv, Listed
    <3>3. \A i \in 1..Len(subs[t]) : state'[subs[t][i]] \in {"open", "closing"}
      BY <3>2, <1>2, <1>6 DEF Listed
    <3>4. Sorted(order', subs[t])
      BY <3>1, <3>2, <1>6, SortedKept
    <3> QED
      BY <3>1, <3>2, <3>3, <3>4
  <2>2. ASSUME NEW t \in Topic
        PROVE  /\ Sorted(order', subs'[t])
               /\ \A i \in 1..Len(subs'[t]) :
                    /\ topic'[subs'[t][i]] = t
                    /\ state'[subs'[t][i]] \in {"open", "closing"}
    <3>1. CASE t # u
      BY <3>1, <2>1, <1>1, <1>4
    <3>2. CASE t = u
      <4>1. /\ Sorted(order', q)
            /\ \A i \in 1..Len(q) : /\ q[i] \in Listed /\ topic[q[i]] = u
                                    /\ state'[q[i]] \in {"open", "closing"}
        BY <1>1, <2>1
      <4> HIDE DEF q, u
      <4>2. Sorted(order', Append(q, r))
        BY <4>1, <1>3, <1>6 DEF Sorted
      <4>3. \A i \in 1..Len(Append(q, r)) :
              /\ topic[Append(q, r)[i]] = u
              /\ state'[Append(q, r)[i]] \in {"open", "closing"}
        BY <4>1, <1>2, <1>3 DEF u
      <4> QED
        BY <4>2, <4>3, <3>2, <1>1, <1>4
    <3> QED
      BY <3>1, <3>2
  <2>3. ASSUME NEW s \in Sub, state'[s] \in {"open", "closing"}
        PROVE  \E i \in 1..Len(subs'[topic'[s]]) : subs'[topic'[s]][i] = s
    <3>1. CASE s = r
      <4>1. Len(q) + 1 \in 1..Len(Append(q, r))
        BY <1>3
      <4> QED
        BY <4>1, <3>1, <1>1, <1>3, <1>4
    <3>2. CASE s # r
      <4>1. PICK i \in 1..Len(subs[topic[s]]) : subs[topic[s]][i] = s
        BY <3>2, <2>3, <1>0, <1>2 DEF SubsInv
      <4>2. topic[s] \in Topic
        BY <1>0 DEF BusTypeOK
      <4>3. CASE topic[s] # u
        BY <4>1, <4>2, <4>3, <1>1, <1>4
      <4>4. CASE topic[s] = u
        <5>1. i \in 1..Len(Append(q, r)) /\ Append(q, r)[i] = s
          BY <4>1, <4>4, <1>3
        <5> QED
          BY <5>1, <4>4, <1>1, <1>4
      <4> QED
        BY <4>3, <4>4
    <3> QED
      BY <3>1, <3>2
  <2> QED
    BY <2>2, <2>3 DEF SubsInv
<1>8. LastInv'
  <2> SUFFICES ASSUME NEW s \in Sub, state'[s] \in {"new", "open"}, NEW p \in Publisher
               PROVE  last[s][p] = MaxEvents
    BY <1>1 DEF LastInv
  <2>1. state[s] \in {"new", "open"}
    BY <1>1, <1>2
  <2> QED
    BY <2>1, <1>0 DEF LastInv
<1>9. \A s \in Sub : s \in Listed /\ state'[s] = "open" => state[s] = "open"
  BY <1>2, <1>6
<1>10. /\ \A p \in Publisher : LoopInv(p)'
       /\ LogInv' /\ OrderedDelivery' /\ ClosedMissesLaterEvents'
  BY <1>1, <1>5, <1>6, <1>9, LifeStep
<1> QED
  BY <1>5, <1>6, <1>7, <1>8, <1>10 DEF Inv

LEMMA SubscribeNilInv ==
  ASSUME Inv, NEW r \in Sub, SubscribeNil(r)
  PROVE  Inv'
<1>0. BusTypeOK /\ OrderInv /\ SubsInv /\ LastInv
  BY DEF Inv
<1>1. /\ state[r] = "new"
      /\ state' = [state EXCEPT ![r] = "nil"]
      /\ UNCHANGED <<subs, topic, pub, log, order, last>>
  BY DEF SubscribeNil, hist
<1>2. BusTypeOK'
  BY <1>0, <1>1 DEF BusTypeOK, Life
<1>3. /\ state'[r] = "nil"
      /\ \A s \in Sub \ {r} : state'[s] = state[s]
  BY <1>0, <1>1 DEF BusTypeOK
<1>4. Listed' = Listed
  BY <1>1, <1>3 DEF Listed
<1>5. OrderInv'
  BY <1>0, <1>1, <1>4 DEF OrderInv
<1>6. SubsInv'
  <2>1. \A s \in Sub : state[s] \in {"open", "closing"} => state'[s] = state[s]
    BY <1>1, <1>3
  <2>2. \A s \in Sub : state'[s] \in {"open", "closing"} => state'[s] = state[s]
    BY <1>1, <1>3
  <2>3. \A t \in Topic : \A i \in 1..Len(subs[t]) : subs[t][i] \in Sub
    BY <1>0 DEF BusTypeOK
  <2> QED
    BY <2>1, <2>2, <2>3, <1>0, <1>1 DEF SubsInv
<1>7. LastInv'
  BY <1>0, <1>1, <1>3 DEF LastInv
<1>8. /\ \A p \in Publisher : LoopInv(p)'
      /\ LogInv' /\ OrderedDelivery' /\ ClosedMissesLaterEvents'
  <2>1. \A s \in Sub : s \in Listed /\ state'[s] = "open" => state[s] = "open"
    BY <1>3
  <2> QED
    BY <2>1, <1>1, <1>2, <1>4, LifeStep
<1> QED
  BY <1>2, <1>5, <1>6, <1>7, <1>8 DEF Inv

\* The flag is set while the slice still lists the subscription: what it may
\* still get is what each publisher has in hand.
LEMMA UnsubscribeCASInv ==
  ASSUME Inv, NEW r \in Sub, UnsubscribeCAS(r)
  PROVE  Inv'
<1>0. BusTypeOK /\ OrderInv /\ SubsInv /\ LastInv
  BY DEF Inv
<1>1. /\ state[r] = "open"
      /\ state' = [state EXCEPT ![r] = "closing"]
      /\ last' = [last EXCEPT ![r] = [p \in Publisher |-> pub[p].sent]]
      /\ UNCHANGED <<subs, topic, pub, log, order>>
  BY DEF UnsubscribeCAS
<1>2. BusTypeOK'
  <2>1. \A p \in Publisher : pub[p].sent \in 0..MaxEvents
    BY <1>0 DEF BusTypeOK, Pubs
  <2> QED
    BY <2>1, <1>0, <1>1 DEF BusTypeOK, Life
<1>3. /\ state'[r] = "closing"
      /\ \A s \in Sub \ {r} : state'[s] = state[s]
      /\ \A s \in Sub \ {r} : last'[s] = last[s]
      /\ \A p \in Publisher : last'[r][p] = pub[p].sent
  BY <1>0, <1>1 DEF BusTypeOK
<1>4. Listed' = Listed
  BY <1>1, <1>3 DEF Listed
<1>5. OrderInv'
  BY <1>0, <1>1, <1>4 DEF OrderInv
<1>6. SubsInv'
  <2>1. \A s \in Sub : state[s] \in {"open", "closing"} <=> state'[s] \in {"open", "closing"}
    BY <1>1, <1>3
  <2>2. \A t \in Topic : \A i \in 1..Len(subs[t]) : subs[t][i] \in Sub
    BY <1>0 DEF BusTypeOK
  <2> QED
    BY <2>1, <2>2, <1>0, <1>1 DEF SubsInv
<1>7. LastInv'
  BY <1>0, <1>1, <1>3 DEF LastInv
<1>8. /\ \A p \in Publisher : LoopInv(p)'
      /\ LogInv' /\ OrderedDelivery' /\ ClosedMissesLaterEvents'
  <2>1. \A s \in Sub : s \in Listed /\ state'[s] = "open" => state[s] = "open"
    BY <1>3
  <2>2. \A s \in Sub, p \in Publisher :
          last'[s][p] = last[s][p] \/ last'[s][p] = pub[p].sent
    BY <1>3
  <2> QED
    BY <2>1, <2>2, <1>1, <1>2, <1>4, LifeStep
<1> QED
  BY <1>2, <1>5, <1>6, <1>7, <1>8 DEF Inv

\* A slice without one of its entries: the others keep their order.
LEMMA RemoveAtProperties ==
  ASSUME NEW S, NEW q \in Seq(S), NEW k \in 1..Len(q)
  PROVE  /\ RemoveAt(q, k) \in Seq(S)
         /\ Len(RemoveAt(q, k)) = Len(q) - 1
         /\ \A i \in 1..(Len(q) - 1) :
              RemoveAt(q, k)[i] = IF i < k THEN q[i] ELSE q[i + 1]
<1>1. Len(q) \in Nat /\ k \in Nat /\ k >= 1 /\ k <= Len(q)
  OBVIOUS
<1> DEFINE a == SubSeq(q, 1, k - 1)
           b == SubSeq(q, k + 1, Len(q))
<1>2. /\ a \in Seq(S) /\ Len(a) = k - 1
      /\ \A i \in 1..(k - 1) : a[i] = q[i]
  <2>1. \A i \in 1..(k - 1) : q[i] \in S
    BY <1>1
  <2>2. 1 \in Int /\ k - 1 \in Int
    BY <1>1
  <2>3. /\ SubSeq(q, 1, k - 1) \in Seq(S)
        /\ Len(SubSeq(q, 1, k - 1)) = IF 1 <= k - 1 THEN (k - 1) - 1 + 1 ELSE 0
        /\ \A i \in 1..((k - 1) - 1 + 1) : SubSeq(q, 1, k - 1)[i] = q[1 + i - 1]
    BY <2>1, <2>2, SubSeqProperties
  <2>4. \A i \in 1..(k - 1) : i \in 1..((k - 1) - 1 + 1) /\ 1 + i - 1 = i
    BY <1>1
  <2>5. \A i \in 1..(k - 1) : a[i] = q[i]
    BY <2>3, <2>4
  <2> QED
    BY <2>3, <2>5, <1>1
<1>3. /\ b \in Seq(S) /\ Len(b) = Len(q) - k
      /\ \A i \in 1..(Len(q) - k) : b[i] = q[k + i]
  <2>1. \A i \in (k + 1)..Len(q) : q[i] \in S
    BY <1>1
  <2>2. k + 1 \in Int /\ Len(q) \in Int
    BY <1>1
  <2>3. /\ SubSeq(q, k + 1, Len(q)) \in Seq(S)
        /\ Len(SubSeq(q, k + 1, Len(q))) =
              IF k + 1 <= Len(q) THEN Len(q) - (k + 1) + 1 ELSE 0
        /\ \A i \in 1..(Len(q) - (k + 1) + 1) :
             SubSeq(q, k + 1, Len(q))[i] = q[k + 1 + i - 1]
    BY <2>1, <2>2, SubSeqProperties
  <2>4. \A i \in 1..(Len(q) - k) : i \in 1..(Len(q) - (k + 1) + 1) /\ k + 1 + i - 1 = k + i
    BY <1>1
  <2>5. \A i \in 1..(Len(q) - k) : b[i] = q[k + i]
    BY <2>3, <2>4
  <2> QED
    BY <2>3, <2>5, <1>1
<1> HIDE DEF a, b
<1>4. RemoveAt(q, k) = a \o b
  BY DEF RemoveAt, a, b
<1>5. /\ a \o b \in Seq(S) /\ Len(a \o b) = Len(a) + Len(b)
      /\ \A i \in 1..(Len(a) + Len(b)) :
           (a \o b)[i] = IF i <= Len(a) THEN a[i] ELSE b[i - Len(a)]
  BY <1>2, <1>3, ConcatProperties
<1>6. ASSUME NEW i \in 1..(Len(q) - 1)
      PROVE  (a \o b)[i] = IF i < k THEN q[i] ELSE q[i + 1]
  <2>1. i \in 1..(Len(a) + Len(b))
    BY <1>1, <1>2, <1>3
  <2>2. CASE i < k
    <3>1. i \in 1..(k - 1) /\ i <= Len(a)
      BY <2>2, <1>1, <1>2
    <3> QED
      BY <2>1, <2>2, <3>1, <1>2, <1>5
  <2>3. CASE ~ (i < k)
    <3>1. i - (k - 1) \in 1..(Len(q) - k) /\ ~ (i <= Len(a)) /\ k + (i - (k - 1)) = i + 1
      BY <2>3, <1>1, <1>2
    <3>2. b[i - (k - 1)] = q[k + (i - (k - 1))]
      BY <3>1, <1>3
    <3>3. (a \o b)[i] = b[i - Len(a)]
      BY <2>1, <3>1, <1>5
    <3> QED
      BY <2>3, <3>1, <3>2, <3>3, <1>2
  <2> QED
    BY <2>2, <2>3
<1> QED
  BY <1>1, <1>2, <1>3, <1>4, <1>5, <1>6

CommitTyped == CommitTypeOK(File) /\ flushTimer # "fired"

LEMMA UnsubscribeRemoveInv ==
  ASSUME Inv, NEW r \in Sub, UnsubscribeRemove(r)
  PROVE  Inv'
<1>0. BusTypeOK /\ OrderInv /\ SubsInv /\ LastInv
  BY DEF Inv
<1> DEFINE u == topic[r]
           q == subs[u]
           k == Slot(r)
           w == RemoveAt(q, k)
<1>1. /\ state[r] = "closing" /\ u \in Topic /\ q \in Seq(Sub)
      /\ state' = [state EXCEPT ![r] = "closed"]
      /\ subs' = [subs EXCEPT ![u] = w]
      /\ UNCHANGED <<topic, pub, log, order, last>>
  BY <1>0 DEF UnsubscribeRemove, BusTypeOK, hist
<1>2. k \in 1..Len(q) /\ q[k] = r
  <2>1. \E i \in 1..Len(q) : q[i] = r
    BY <1>0, <1>1 DEF SubsInv
  <2>2. DOMAIN q = 1..Len(q)
    BY <1>1, LenProperties
  <2> QED
    BY <2>1, <2>2 DEF Slot
<1>3. /\ w \in Seq(Sub) /\ Len(q) \in Nat /\ Len(w) = Len(q) - 1
      /\ \A i \in 1..(Len(q) - 1) : w[i] = IF i < k THEN q[i] ELSE q[i + 1]
  <2> HIDE DEF q, k
  <2>1. q \in Seq(Sub) /\ k \in 1..Len(q)
    BY <1>1, <1>2
  <2> QED
    BY <2>1, RemoveAtProperties, LenProperties
<1>4. /\ subs'[u] = w /\ \A t \in Topic \ {u} : subs'[t] = subs[t]
      /\ state'[r] = "closed" /\ \A s \in Sub \ {r} : state'[s] = state[s]
  BY <1>0, <1>1 DEF BusTypeOK
<1>5. BusTypeOK'
  <2>1. subs' \in [Topic -> Seq(Sub)]
    BY <1>0, <1>1, <1>3 DEF BusTypeOK
  <2>2. state' \in [Sub -> Life]
    BY <1>0, <1>1 DEF BusTypeOK, Life
  <2> QED
    BY <2>1, <2>2, <1>0, <1>1 DEF BusTypeOK
<1>6. Listed' = Listed
  BY <1>1, <1>4 DEF Listed
<1>7. OrderInv'
  BY <1>0, <1>1, <1>6 DEF OrderInv
<1>8. SubsInv'
  <2>1. ASSUME NEW i \in 1..Len(q), NEW j \in 1..Len(q), q[i] = q[j]
        PROVE  i = j
    <3>1. \A m \in 1..Len(q) : q[m] \in Listed /\ Rank(order, q[m]) \in Nat
      <4> SUFFICES ASSUME NEW m \in 1..Len(q)
                   PROVE  q[m] \in Listed /\ Rank(order, q[m]) \in Nat
        OBVIOUS
      <4>1. q[m] \in Listed
        BY <1>0, <1>1 DEF SubsInv, Listed
      <4>2. PICK n \in 1..Len(order) : order[n] = q[m]
        BY <4>1, <1>0 DEF OrderInv
      <4>3. Rank(order, q[m]) = n
        BY <4>2, <1>0, RankIs DEF OrderInv, BusTypeOK
      <4> QED
        BY <4>1, <4>3
    <3>2. i < j => Rank(order, q[i]) < Rank(order, q[j])
      BY <1>0, <1>1 DEF SubsInv, Sorted
    <3>3. j < i => Rank(order, q[j]) < Rank(order, q[i])
      BY <1>0, <1>1 DEF SubsInv, Sorted
    <3>4. ~ (i < j) /\ ~ (j < i)
      BY <2>1, <3>1, <3>2, <3>3
    <3> QED
      BY <3>4
  <2>2. ASSUME NEW t \in Topic, t # u
        PROVE  /\ Sorted(order, subs[t])
               /\ \A i \in 1..Len(subs[t]) :
                    /\ topic[subs[t][i]] = t
                    /\ state'[subs[t][i]] \in {"open", "closing"}
    <3>1. \A i \in 1..Len(subs[t]) :
            /\ subs[t][i] \in Sub /\ topic[subs[t][i]] = t
            /\ state[subs[t][i]] \in {"open", "closing"}
      BY <1>0 DEF SubsInv, BusTypeOK
    <3> QED
      BY <3>1, <2>2, <1>0, <1>4 DEF SubsInv
  <2>3. Sorted(order, w)
    <3> SUFFICES ASSUME NEW i \in 1..Len(w), NEW j \in 1..Len(w), i < j
                 PROVE  Rank(order, w[i]) < Rank(order, w[j])
      BY DEF Sorted
    <3> DEFINE ii == IF i < k THEN i ELSE i + 1
               jj == IF j < k THEN j ELSE j + 1
    <3>1. w[i] = q[ii] /\ w[j] = q[jj]
      BY <1>3
    <3>2. ii \in 1..Len(q) /\ jj \in 1..Len(q) /\ ii < jj
      BY <1>2, <1>3
    <3>3. Sorted(order, q)
      BY <1>0, <1>1 DEF SubsInv
    <3> QED
      BY <3>1, <3>2, <3>3 DEF Sorted
  <2>4. ASSUME NEW i \in 1..Len(w)
        PROVE  topic[w[i]] = u /\ state'[w[i]] \in {"open", "closing"}
    <3> DEFINE ii == IF i < k THEN i ELSE i + 1
    <3>1. w[i] = q[ii] /\ ii \in 1..Len(q) /\ ii # k
      BY <1>2, <1>3
    <3>2. q[ii] # r /\ q[ii] \in Sub
      BY <3>1, <2>1, <1>1, <1>2
    <3>3. topic[q[ii]] = u /\ state[q[ii]] \in {"open", "closing"}
      BY <3>1, <1>0, <1>1 DEF SubsInv
    <3> QED
      BY <3>1, <3>2, <3>3, <1>4
  <2>5. ASSUME NEW s \in Sub, state'[s] \in {"open", "closing"}
        PROVE  \E i \in 1..Len(subs'[topic[s]]) : subs'[topic[s]][i] = s
    <3>1. s # r /\ state[s] \in {"open", "closing"} /\ topic[s] \in Topic
      BY <2>5, <1>0, <1>4 DEF BusTypeOK
    <3>2. PICK i \in 1..Len(subs[topic[s]]) : subs[topic[s]][i] = s
      BY <3>1, <1>0 DEF SubsInv
    <3>3. CASE topic[s] # u
      BY <3>1, <3>2, <3>3, <1>4
    <3>4. CASE topic[s] = u
      <4> DEFINE m == IF i < k THEN i ELSE i - 1
      <4>1. i # k /\ i \in 1..Len(q)
        BY <3>1, <3>2, <3>4, <1>2
      <4>2. m \in 1..Len(w) /\ (IF m < k THEN m ELSE m + 1) = i
        BY <4>1, <1>2, <1>3
      <4>3. w[m] = s
        BY <4>2, <3>2, <3>4, <1>3
      <4> QED
        BY <4>2, <4>3, <3>4, <1>4
    <3> QED
      BY <3>3, <3>4
  <2> HIDE DEF w, k, q, u
  <2>6. \A t \in Topic :
          /\ Sorted(order, subs'[t])
          /\ \A i \in 1..Len(subs'[t]) : topic[subs'[t][i]] = t /\ state'[subs'[t][i]] \in {"open", "closing"}
    BY <2>2, <2>3, <2>4, <1>4
  <2> QED
    BY <2>5, <2>6, <1>1 DEF SubsInv
<1>9. LastInv'
  BY <1>0, <1>1, <1>4 DEF LastInv
<1>10. /\ \A p \in Publisher : LoopInv(p)'
       /\ LogInv' /\ OrderedDelivery' /\ ClosedMissesLaterEvents'
  <2>1. \A s \in Sub : s \in Listed /\ state'[s] = "open" => state[s] = "open"
    BY <1>4
  <2> QED
    BY <2>1, <1>1, <1>5, <1>6, LifeStep
<1> QED
  BY <1>5, <1>7, <1>8, <1>9, <1>10 DEF Inv

-----------------------------------------------------------------------------
(* Publishers.                                                              *)

\* A step of one Publish leaves the registrations and the other loops alone.
LEMMA PublisherStep ==
  ASSUME Inv, UNCHANGED <<subs, state, topic, hist>>, NEW p \in Publisher,
         BusTypeOK', LoopInv(p)', LogInv', OrderedDelivery', ClosedMissesLaterEvents',
         \A r \in Publisher \ {p} : pub'[r] = pub[r],
         \A s, e : Delivered(s, e) => Delivered(s, e)'
  PROVE  Inv'
<1>1. OrderInv' /\ SubsInv' /\ LastInv' /\ Listed' = Listed
  BY DEF Inv, OrderInv, SubsInv, LastInv, hist, Listed
<1>2. ASSUME NEW r \in Publisher, r # p PROVE LoopInv(r)'
  <2>1. LoopInv(r) /\ pub'[r] = pub[r] /\ order' = order /\ last' = last /\ state' = state
    BY <1>2 DEF Inv, hist
  <2>2. Event(r)' = Event(r)
    BY <2>1 DEF Event
  <2> QED
    BY <2>1, <2>2, <1>1 DEF LoopInv
<1> QED
  BY <1>1, <1>2 DEF Inv

\* So does a step in the loop of what handler calls are remembered by.
LEMMA LogKept ==
  ASSUME BusTypeOK, BusTypeOK', LogInv, log' = log, Listed' = Listed,
         \A r \in Publisher :
           /\ pub'[r].sent = pub[r].sent
           /\ pub'[r].pc # "idle" => /\ pub[r].pc # "idle"
                                    /\ pub'[r].snapshot = pub[r].snapshot
                                    /\ pub[r].next <= pub'[r].next
  PROVE  LogInv'
<1> SUFFICES ASSUME NEW i \in 1..Len(log)
             PROVE  LET s == log[i][1]  r == log[i][2][1]  n == log[i][2][2] IN
                      /\ s \in Listed /\ n <= pub'[r].sent
                      /\ n = pub'[r].sent /\ pub'[r].pc # "idle" =>
                           \E k \in 1..(pub'[r].next - 1) : pub'[r].snapshot[k] = s
  BY DEF LogInv
<1> DEFINE s == log[i][1]  r == log[i][2][1]  n == log[i][2][2]
<1>1. log[i] \in Sub \X (Publisher \X (1..MaxEvents))
  BY DEF BusTypeOK
<1>2. r \in Publisher
  BY <1>1
<1>3. pub[r].next \in Nat /\ pub'[r].next \in Nat
  BY <1>2 DEF BusTypeOK, Pubs
<1>4. /\ s \in Listed /\ n <= pub[r].sent
      /\ n = pub[r].sent /\ pub[r].pc # "idle" =>
           \E k \in 1..(pub[r].next - 1) : pub[r].snapshot[k] = s
  BY DEF LogInv
<1> HIDE DEF s, r, n
<1>5. ASSUME n = pub'[r].sent, pub'[r].pc # "idle"
      PROVE  \E k \in 1..(pub'[r].next - 1) : pub'[r].snapshot[k] = s
  <2>1. PICK k \in 1..(pub[r].next - 1) : pub[r].snapshot[k] = s
    BY <1>2, <1>4, <1>5
  <2>2. pub[r].next <= pub'[r].next /\ pub'[r].snapshot = pub[r].snapshot
    BY <1>2, <1>5
  <2>3. k \in 1..(pub'[r].next - 1)
    BY <2>2, <1>3
  <2> QED
    BY <2>1, <2>2, <2>3
<1> QED
  BY <1>2, <1>4, <1>5 DEF s, r, n

LEMMA SnapshotInv ==
  ASSUME Inv, NEW p \in Publisher, NEW t \in Topic, Snapshot(p, t)
  PROVE  Inv'
<1>0. BusTypeOK /\ OrderInv /\ SubsInv /\ LoopInv(p) /\ LogInv
  BY DEF Inv
<1> DEFINE owed == {s \in Sub : state[s] = "open" /\ topic[s] = t}
           P == [pc |-> "looping", sent |-> pub[p].sent + 1, topic |-> t,
                 snapshot |-> subs[t], next |-> 1, owed |-> owed]
<1>1. /\ pub[p].pc = "idle" /\ pub[p].sent < MaxEvents
      /\ pub' = [pub EXCEPT ![p] = P]
      /\ UNCHANGED <<subs, state, topic, log, hist>>
  BY DEF Snapshot
<1>2. /\ pub[p] \in Pubs /\ pub[p].sent \in 0..MaxEvents
      /\ subs[t] \in Seq(Sub) /\ Len(subs[t]) \in Nat
  BY <1>0 DEF BusTypeOK, Pubs
<1>3. P \in Pubs
  BY <1>1, <1>2, MaxEventsAssumption DEF Pubs
<1>4. pub'[p] = P /\ \A r \in Publisher \ {p} : pub'[r] = pub[r]
  BY <1>0, <1>1 DEF BusTypeOK
<1>5. BusTypeOK'
  BY <1>0, <1>1, <1>3 DEF BusTypeOK, hist
<1>6. LoopInv(p)'
  <2>1. /\ Sorted(order, subs[t])
        /\ \A i \in 1..Len(subs[t]) : subs[t][i] \in Listed
    BY <1>0 DEF SubsInv, Listed, BusTypeOK
  <2>2. \A s \in owed : \E i \in 1..Len(subs[t]) : subs[t][i] = s
    BY <1>0 DEF SubsInv
  <2>3. Listed' = Listed /\ order' = order
    BY <1>1 DEF Listed, hist
  <2>4. /\ pub'[p].pc = "looping" /\ pub'[p].sent = pub[p].sent + 1
        /\ pub'[p].snapshot = subs[t] /\ pub'[p].next = 1 /\ pub'[p].owed = owed
    BY <1>4
  <2> HIDE DEF owed, P
  <2> QED
    BY <2>1, <2>2, <2>3, <2>4, <1>2 DEF LoopInv
<1>7. LogInv'
  <2> SUFFICES ASSUME NEW i \in 1..Len(log)
               PROVE  LET s == log[i][1]  r == log[i][2][1]  n == log[i][2][2] IN
                        /\ s \in Listed /\ n <= pub'[r].sent
                        /\ n = pub'[r].sent /\ pub'[r].pc # "idle" =>
                             \E k \in 1..(pub'[r].next - 1) : pub'[r].snapshot[k] = s
    <3>1. Listed' = Listed /\ log' = log
      BY <1>1 DEF Listed
    <3> QED
      BY <3>1 DEF LogInv
  <2> DEFINE s == log[i][1]  r == log[i][2][1]  n == log[i][2][2]
  <2>1. /\ s \in Listed /\ n <= pub[r].sent /\ r \in Publisher /\ n \in 1..MaxEvents
        /\ n = pub[r].sent /\ pub[r].pc # "idle" =>
             \E k \in 1..(pub[r].next - 1) : pub[r].snapshot[k] = s
    <3>1. log[i] \in Sub \X (Publisher \X (1..MaxEvents))
      BY <1>0 DEF BusTypeOK
    <3> QED
      BY <3>1, <1>0 DEF LogInv
  <2>2. CASE r = p
    <3>1. pub'[r].sent = pub[p].sent + 1
      BY <2>2, <1>4
    <3> QED
      BY <3>1, <2>1, <2>2, <1>2
  <2>3. CASE r # p
    BY <2>1, <2>3, <1>4
  <2> QED
    BY <2>2, <2>3
<1>8. OrderedDelivery' /\ ClosedMissesLaterEvents'
  BY <1>1 DEF Inv, OrderedDelivery, ClosedMissesLaterEvents, hist
<1>9. \A s, e : Delivered(s, e) => Delivered(s, e)'
  BY <1>1 DEF Delivered
<1> QED
  BY <1>1, <1>4, <1>5, <1>6, <1>7, <1>8, <1>9, PublisherStep

\* The flag is read before the handler starts: a subscription that closes in
\* between has this event still to come.
LEMMA CheckClosedInv ==
  ASSUME Inv, NEW p \in Publisher, CheckClosed(p)
  PROVE  Inv'
<1>0. BusTypeOK /\ OrderInv /\ LastInv /\ LoopInv(p) /\ LogInv
  BY DEF Inv
<1> DEFINE snap == pub[p].snapshot
           next == pub[p].next
           s == snap[next]
<1>1. /\ pub[p].pc = "looping" /\ next <= Len(snap)
      /\ pub' = [pub EXCEPT ![p].pc = IF Closed(s) THEN "looping" ELSE "called",
                            ![p].next = IF Closed(s) THEN next + 1 ELSE next]
      /\ UNCHANGED <<subs, state, topic, log, hist>>
  BY DEF CheckClosed
<1>2. /\ pub[p] \in Pubs /\ pub[p].sent \in 0..MaxEvents /\ next \in 1..Len(snap)
      /\ snap \in Seq(Sub) /\ Len(snap) \in Nat /\ s \in Sub /\ s \in Listed
  <2>1. /\ pub[p] \in Pubs /\ pub[p].sent \in 0..MaxEvents
        /\ snap \in Seq(Sub) /\ Len(snap) \in Nat
    BY <1>0 DEF BusTypeOK, Pubs
  <2>2. next \in 1..Len(snap)
    BY <2>1, <1>0, <1>1 DEF LoopInv
  <2> QED
    BY <2>1, <2>2, <1>0 DEF LoopInv
<1>3. /\ pub'[p].pc = IF Closed(s) THEN "looping" ELSE "called"
      /\ pub'[p].next = IF Closed(s) THEN next + 1 ELSE next
      /\ pub'[p].snapshot = snap /\ pub'[p].sent = pub[p].sent
      /\ pub'[p].owed = pub[p].owed
      /\ \A r \in Publisher \ {p} : pub'[r] = pub[r]
  BY <1>0, <1>1, <1>2 DEF BusTypeOK, Pubs
<1>5. BusTypeOK'
  <2> DEFINE P == [pub[p] EXCEPT !.pc = IF Closed(s) THEN "looping" ELSE "called",
                                 !.next = IF Closed(s) THEN next + 1 ELSE next]
  <2>1. P \in Pubs
    <3> DEFINE pc == IF Closed(s) THEN "looping" ELSE "called"
               nn == IF Closed(s) THEN next + 1 ELSE next
    <3>1. pc \in {"idle", "looping", "called"} /\ nn \in Nat
      BY <1>2
    <3> HIDE DEF pc, nn
    <3>2. [pub[p] EXCEPT !.pc = pc, !.next = nn] \in Pubs
      BY <3>1, <1>2 DEF Pubs
    <3> QED
      BY <3>2 DEF pc, nn
  <2>2. pub' = [pub EXCEPT ![p] = P]
    BY <1>0, <1>1 DEF BusTypeOK
  <2>3. pub' \in [Publisher -> Pubs]
    BY <2>1, <2>2, <1>0 DEF BusTypeOK
  <2> QED
    BY <2>3, <1>0, <1>1 DEF BusTypeOK, hist
<1>6. LoopInv(p)'
  <2>1. Listed' = Listed /\ order' = order /\ last' = last /\ state' = state /\ log' = log
    BY <1>1 DEF Listed, hist
  <2>2. ~Closed(s) => pub[p].sent <= last[s][p]
    <3> SUFFICES ASSUME ~Closed(s) PROVE pub[p].sent <= last[s][p]
      OBVIOUS
    <3>1. state[s] = "open"
      BY <1>2 DEF Closed, Listed
    <3>2. last[s][p] = MaxEvents
      BY <3>1, <1>0, <1>2 DEF LastInv
    <3> QED
      BY <3>2, <1>2
  <2>3. Event(p)' = Event(p)
    BY <1>3 DEF Event
  <2>4. ASSUME NEW i \in 1..(pub'[p].next - 1), state[snap[i]] = "open"
        PROVE  Delivered(snap[i], Event(p))
    <3>1. CASE i \in 1..(next - 1)
      BY <3>1, <2>4, <1>0, <1>1 DEF LoopInv
    <3>2. CASE i \notin 1..(next - 1)
      <4>1. i = next /\ Closed(s)
        BY <3>2, <1>2, <1>3
      <4> QED
        BY <4>1, <2>4 DEF Closed
    <3> QED
      BY <3>1, <3>2
  <2>5. pub'[p].next \in 1..(Len(snap) + 1)
    BY <1>2, <1>3
  <2>6. pub'[p].pc = "called" => ~Closed(s) /\ pub'[p].next = next
    BY <1>3
  <2>7. \A i \in 1..(pub'[p].next - 1) : state'[pub'[p].snapshot[i]] = "open" =>
          Delivered(pub[p].snapshot[i], Event(p))'
    BY <2>1, <2>3, <2>4, <1>3 DEF Delivered
  <2>8. pub'[p].pc = "called" => /\ pub'[p].next <= Len(snap)
                                /\ pub'[p].sent <= last'[snap[pub'[p].next]][p]
    BY <2>1, <2>2, <2>6, <1>2, <1>3
  <2>9. /\ Sorted(order', pub'[p].snapshot)
        /\ \A i \in 1..Len(pub'[p].snapshot) : pub'[p].snapshot[i] \in Listed'
    BY <2>1, <1>0, <1>3 DEF LoopInv
  <2>10. /\ pub'[p].sent >= 1
         /\ \A v \in pub'[p].owed :
              \E i \in 1..Len(pub'[p].snapshot) : pub'[p].snapshot[i] = v
    BY <1>0, <1>1, <1>3 DEF LoopInv
  <2> HIDE DEF s
  <2> QED
    BY <2>5, <2>7, <2>8, <2>9, <2>10, <1>3 DEF LoopInv
<1>7. LogInv'
  <2>1. Listed' = Listed /\ log' = log
    BY <1>1 DEF Listed
  <2>2. pub[p].next <= pub'[p].next
    BY <1>2, <1>3
  <2>3. \A r \in Publisher :
          /\ pub'[r].sent = pub[r].sent
          /\ pub'[r].pc # "idle" => /\ pub[r].pc # "idle"
                                   /\ pub'[r].snapshot = pub[r].snapshot
                                   /\ pub[r].next <= pub'[r].next
    <3>1. \A r \in Publisher : pub[r].next \in Nat
      BY <1>0 DEF BusTypeOK, Pubs
    <3>2. pub'[p].pc # "idle" /\ pub[p].pc # "idle"
      BY <1>1, <1>3
    <3>3. /\ pub'[p].sent = pub[p].sent /\ pub'[p].snapshot = pub[p].snapshot
          /\ \A r \in Publisher \ {p} : pub'[r] = pub[r]
      BY <1>3
    <3> QED
      BY ONLY <3>1, <3>2, <3>3, <2>2
  <2> QED
    BY <2>1, <2>3, <1>0, <1>5, LogKept
<1>8. OrderedDelivery' /\ ClosedMissesLaterEvents'
  BY <1>1 DEF Inv, OrderedDelivery, ClosedMissesLaterEvents, hist
<1>9. \A u, e : Delivered(u, e) => Delivered(u, e)'
  BY <1>1 DEF Delivered
<1> QED
  BY <1>1, <1>3, <1>5, <1>6, <1>7, <1>8, <1>9, PublisherStep

\* The call is the last the event has had so far, to a subscription that did
\* not have it and none of whose earlier events is still to come.
LEMMA CallHandlerInv ==
  ASSUME Inv, NEW p \in Publisher, CallHandler(p)
  PROVE  Inv'
<1>0. /\ BusTypeOK /\ OrderInv /\ LoopInv(p) /\ LogInv
      /\ OrderedDelivery /\ ClosedMissesLaterEvents
  BY DEF Inv
<1> DEFINE snap == pub[p].snapshot
           next == pub[p].next
           sent == pub[p].sent
           c == <<snap[next], Event(p)>>
           P == [pub[p] EXCEPT !.pc = "looping", !.next = @ + 1]
<1>1. /\ pub[p].pc = "called"
      /\ log' = Append(log, c)
      /\ pub' = [pub EXCEPT ![p].pc = "looping", ![p].next = next + 1]
      /\ UNCHANGED <<subs, state, topic, hist>>
  BY DEF CallHandler
<1>2. /\ pub[p] \in Pubs /\ sent \in 1..MaxEvents /\ next \in 1..Len(snap)
      /\ snap \in Seq(Sub) /\ Len(snap) \in Nat
      /\ snap[next] \in Sub /\ snap[next] \in Listed
  <2>1. /\ pub[p] \in Pubs /\ sent \in 0..MaxEvents
        /\ snap \in Seq(Sub) /\ Len(snap) \in Nat
    BY <1>0 DEF BusTypeOK, Pubs
  <2>2. next \in 1..Len(snap) /\ sent >= 1
    BY <2>1, <1>0, <1>1 DEF LoopInv
  <2> QED
    BY <2>1, <2>2, <1>0 DEF LoopInv
<1>3. /\ pub'[p].pc = "looping" /\ pub'[p].next = next + 1
      /\ pub'[p].snapshot = snap /\ pub'[p].sent = sent
      /\ pub'[p].owed = pub[p].owed
      /\ \A r \in Publisher \ {p} : pub'[r] = pub[r]
  BY <1>0, <1>1, <1>2 DEF BusTypeOK, Pubs
<1>4. /\ log \in Seq(Sub \X (Publisher \X (1..MaxEvents)))
      /\ log' \in Seq(Sub \X (Publisher \X (1..MaxEvents)))
      /\ Len(log) \in Nat /\ Len(log') = Len(log) + 1
      /\ \A i \in 1..Len(log) : log'[i] = log[i]
      /\ log'[Len(log) + 1] = c
  <2>1. c \in Sub \X (Publisher \X (1..MaxEvents))
    BY <1>2 DEF Event
  <2>2. log \in Seq(Sub \X (Publisher \X (1..MaxEvents)))
    BY <1>0 DEF BusTypeOK
  <2> HIDE DEF c
  <2> QED
    BY <2>1, <2>2, <1>1, AppendProperties
<1>5. BusTypeOK'
  <2>1. P \in Pubs
    <3>1. next + 1 \in Nat
      BY <1>2
    <3>2. \A n \in Nat : [pub[p] EXCEPT !.pc = "looping", !.next = n] \in Pubs
      BY <1>2 DEF Pubs
    <3> QED
      BY <3>1, <3>2
  <2>2. pub' = [pub EXCEPT ![p] = P]
    BY <1>0, <1>1 DEF BusTypeOK
  <2>3. pub' \in [Publisher -> Pubs]
    BY <2>1, <2>2, <1>0 DEF BusTypeOK
  <2> QED
    BY <2>3, <1>0, <1>1, <1>4 DEF BusTypeOK, hist
<1>6. Listed' = Listed /\ order' = order /\ last' = last /\ state' = state
  BY <1>1 DEF Listed, hist
<1>7. ASSUME NEW u, NEW e, Delivered(u, e) PROVE Delivered(u, e)'
  <2>1. PICK i \in 1..Len(log) : log[i] = <<u, e>>
    BY <1>7 DEF Delivered
  <2>2. i \in 1..Len(log') /\ log'[i] = <<u, e>>
    BY <2>1, <1>4
  <2> QED
    BY <2>2 DEF Delivered
<1>8. LoopInv(p)'
  <2>1. Event(p)' = Event(p)
    BY <1>3 DEF Event
  <2>2. \E i \in 1..Len(log') : log'[i] = <<snap[next], Event(p)>>
    <3>1. Len(log) + 1 \in 1..Len(log')
      BY <1>4
    <3> QED
      BY <3>1, <1>4
  <2>3. \A i \in 1..(next - 1) : state[snap[i]] = "open" =>
          \E k \in 1..Len(log') : log'[k] = <<snap[i], Event(p)>>
    <3> SUFFICES ASSUME NEW i \in 1..(next - 1), state[snap[i]] = "open"
                 PROVE  \E k \in 1..Len(log') : log'[k] = <<snap[i], Event(p)>>
      OBVIOUS
    <3>1. PICK k \in 1..Len(log) : log[k] = <<snap[i], Event(p)>>
      BY <1>0, <1>1 DEF LoopInv, Delivered
    <3>2. k \in 1..Len(log')
      BY <1>4
    <3> QED
      BY <3>1, <3>2, <1>4
  <2>4. \A i \in 1..(pub'[p].next - 1) : state'[pub'[p].snapshot[i]] = "open" =>
          Delivered(pub[p].snapshot[i], Event(p))'
    <3> SUFFICES ASSUME NEW i \in 1..(pub'[p].next - 1),
                        state'[pub'[p].snapshot[i]] = "open"
                 PROVE  Delivered(pub[p].snapshot[i], Event(p))'
      OBVIOUS
    <3>1. state[snap[i]] = "open"
      BY <1>3, <1>6
    <3>2. i = next \/ i \in 1..(next - 1)
      BY <1>2, <1>3
    <3>3. \E k \in 1..Len(log') : log'[k] = <<snap[i], Event(p)>>
      BY <3>1, <3>2, <2>2, <2>3
    <3> QED
      BY <3>3, <2>1, <1>3 DEF Delivered
  <2>5. /\ Sorted(order', pub'[p].snapshot)
        /\ \A i \in 1..Len(pub'[p].snapshot) : pub'[p].snapshot[i] \in Listed'
    BY <1>0, <1>3, <1>6 DEF LoopInv
  <2>6. /\ pub'[p].sent >= 1
        /\ \A v \in pub'[p].owed :
             \E i \in 1..Len(pub'[p].snapshot) : pub'[p].snapshot[i] = v
    BY <1>0, <1>1, <1>3 DEF LoopInv
  <2>7. pub'[p].next \in 1..(Len(pub'[p].snapshot) + 1) /\ pub'[p].pc = "looping"
    BY <1>2, <1>3
  <2> QED
    BY <2>4, <2>5, <2>6, <2>7 DEF LoopInv
<1>9. ASSUME NEW i \in 1..Len(log)
      PROVE  /\ log[i] \in Sub \X (Publisher \X (1..MaxEvents))
             /\ log[i][2] = Event(p) => Rank(order, log[i][1]) < Rank(order, snap[next])
             /\ log[i][2][1] = p /\ log[i][1] = snap[next] => log[i][2][2] < sent
  <2>1. log[i] \in Sub \X (Publisher \X (1..MaxEvents))
    BY <1>4
  <2>2. /\ log[i][2][1] = p => log[i][2][2] <= sent
        /\ log[i][2][1] = p /\ log[i][2][2] = sent =>
             \E k \in 1..(next - 1) : snap[k] = log[i][1]
    BY <1>0, <1>1 DEF LogInv
  <2>3. ASSUME log[i][2][1] = p, log[i][2][2] = sent
        PROVE  Rank(order, log[i][1]) < Rank(order, snap[next])
    <3>1. PICK k \in 1..(next - 1) : snap[k] = log[i][1]
      BY <2>2, <2>3
    <3>2. k \in 1..Len(snap) /\ k < next
      BY <1>2
    <3> QED
      BY <3>1, <3>2, <1>0, <1>2 DEF LoopInv, Sorted
  <2>4. Rank(order, snap[next]) \in Nat
    <3>1. PICK n \in 1..Len(order) : order[n] = snap[next]
      BY <1>0, <1>2 DEF OrderInv
    <3>2. Rank(order, order[n]) = n
      BY <1>0, RankIs DEF OrderInv, BusTypeOK
    <3> QED
      BY <3>1, <3>2
  <2>5. log[i][2] = Event(p) => log[i][2][1] = p /\ log[i][2][2] = sent
    BY DEF Event
  <2>6. log[i][2][1] = p /\ log[i][1] = snap[next] => log[i][2][2] # sent
    BY <2>3, <2>4
  <2>7. log[i][2][2] \in Nat
    BY <2>1
  <2> QED
    BY <2>1, <2>2, <2>3, <2>5, <2>6, <2>7, <1>2
<1>10. OrderedDelivery'
  <2> SUFFICES ASSUME NEW i \in 1..Len(log'), NEW j \in 1..Len(log'), i < j
               PROVE  /\ log'[i][2] = log'[j][2] =>
                           Rank(order, log'[i][1]) < Rank(order, log'[j][1])
                      /\ log'[i][1] = log'[j][1] /\ log'[i][2][1] = log'[j][2][1] =>
                           log'[i][2][2] < log'[j][2][2]
    BY <1>6 DEF OrderedDelivery
  <2>1. i \in 1..Len(log) /\ log'[i] = log[i]
    BY <1>4
  <2>2. CASE j \in 1..Len(log)
    BY <2>1, <2>2, <1>0, <1>4 DEF OrderedDelivery
  <2>3. CASE j = Len(log) + 1
    <3>1. /\ log'[j] = c /\ c[1] = snap[next] /\ c[2] = Event(p)
          /\ c[2][1] = p /\ c[2][2] = sent
      BY <2>3, <1>4 DEF Event
    <3> HIDE DEF c
    <3> QED
      BY <3>1, <2>1, <1>9
  <2> QED
    BY <2>2, <2>3, <1>4
<1>11. ClosedMissesLaterEvents'
  <2> SUFFICES ASSUME NEW i \in 1..Len(log')
               PROVE  log'[i][2][2] <= last[log'[i][1]][log'[i][2][1]]
    BY <1>6 DEF ClosedMissesLaterEvents
  <2>1. CASE i \in 1..Len(log)
    BY <2>1, <1>0, <1>4 DEF ClosedMissesLaterEvents
  <2>2. CASE i = Len(log) + 1
    <3>1. log'[i] = c /\ c[1] = snap[next] /\ c[2][1] = p /\ c[2][2] = sent
      BY <2>2, <1>4 DEF Event
    <3>2. sent <= last[snap[next]][p]
      BY <1>0, <1>1 DEF LoopInv
    <3> HIDE DEF c
    <3> QED
      BY <3>1, <3>2
  <2> QED
    BY <2>1, <2>2, <1>4
<1>12. LogInv'
  <2> SUFFICES ASSUME NEW i \in 1..Len(log')
               PROVE  LET s == log'[i][1]  r == log'[i][2][1]  n == log'[i][2][2] IN
                        /\ s \in Listed /\ n <= pub'[r].sent
                        /\ n = pub'[r].sent /\ pub'[r].pc # "idle" =>
                             \E k \in 1..(pub'[r].next - 1) : pub'[r].snapshot[k] = s
    BY <1>6 DEF LogInv
  <2>1. CASE i \in 1..Len(log)
    <3> DEFINE s == log[i][1]  r == log[i][2][1]  n == log[i][2][2]
    <3>1. log'[i] = log[i] /\ r \in Publisher
      BY <2>1, <1>4, <1>9
    <3>2. /\ s \in Listed /\ n <= pub[r].sent
          /\ n = pub[r].sent /\ pub[r].pc # "idle" =>
               \E k \in 1..(pub[r].next - 1) : pub[r].snapshot[k] = s
      BY <2>1, <1>0 DEF LogInv
    <3> HIDE DEF s, r, n
    <3>3. CASE r = p
      <4>1. n = sent => \E k \in 1..(pub'[r].next - 1) : pub'[r].snapshot[k] = s
        <5> SUFFICES ASSUME n = sent
                     PROVE  \E k \in 1..(pub'[r].next - 1) : pub'[r].snapshot[k] = s
          OBVIOUS
        <5>1. PICK k \in 1..(next - 1) : snap[k] = s
          BY <3>2, <3>3, <1>1
        <5>2. k \in 1..(pub'[r].next - 1) /\ pub'[r].snapshot[k] = s
          BY <5>1, <3>3, <1>2, <1>3
        <5> QED
          BY <5>2
      <4> QED
        BY <4>1, <3>1, <3>2, <3>3, <1>3 DEF s, r, n
    <3>4. CASE r # p
      <4>1. pub'[r] = pub[r]
        BY <3>1, <3>4, <1>3
      <4> QED
        BY <4>1, <3>1, <3>2 DEF s, r, n
    <3> QED
      BY <3>3, <3>4
  <2>2. CASE i = Len(log) + 1
    <3>1. log'[i] = c /\ c[1] = snap[next] /\ c[2][1] = p /\ c[2][2] = sent
      BY <2>2, <1>4 DEF Event
    <3>2. next \in 1..(pub'[p].next - 1) /\ pub'[p].snapshot[next] = snap[next]
      BY <1>2, <1>3
    <3>3. sent <= sent
      BY <1>2
    <3> HIDE DEF c
    <3> QED
      BY <3>1, <3>2, <3>3, <1>2, <1>3
  <2> QED
    BY <2>1, <2>2, <1>4
<1> QED
  BY <1>1, <1>3, <1>5, <1>7, <1>8, <1>10, <1>11, <1>12, PublisherStep

LEMMA DoneInv ==
  ASSUME Inv, NEW p \in Publisher, Done(p)
  PROVE  Inv'
<1>0. /\ BusTypeOK /\ OrderInv /\ LoopInv(p) /\ LogInv
  BY DEF Inv
<1>1. /\ pub' = [pub EXCEPT ![p].pc = "idle", ![p].snapshot = <<>>, ![p].next = 1,
                            ![p].owed = {}]
      /\ UNCHANGED <<subs, state, topic, log, hist>>
  BY DEF Done
<1>2. pub[p] \in Pubs
  BY <1>0 DEF BusTypeOK
<1>3. /\ pub'[p].pc = "idle" /\ pub'[p].snapshot = <<>> /\ pub'[p].next = 1
      /\ pub'[p].sent = pub[p].sent /\ pub'[p] \in Pubs
      /\ \A r \in Publisher \ {p} : pub'[r] = pub[r]
  <2> DEFINE P == [pub[p] EXCEPT !.pc = "idle", !.snapshot = <<>>, !.next = 1,
                                 !.owed = {}]
  <2>1. P \in Pubs
    <3>1. <<>> \in Seq(Sub) /\ {} \in SUBSET Sub /\ 1 \in Nat
      BY EmptySeq
    <3>2. \A q \in Seq(Sub) : \A w \in SUBSET Sub : \A n \in Nat :
            [pub[p] EXCEPT !.pc = "idle", !.snapshot = q, !.next = n, !.owed = w] \in Pubs
      BY <1>2 DEF Pubs
    <3> QED
      BY <3>1, <3>2
  <2>2. pub' = [pub EXCEPT ![p] = P]
    BY <1>0, <1>1 DEF BusTypeOK
  <2>3. pub'[p] = P /\ \A r \in Publisher \ {p} : pub'[r] = pub[r]
    BY <2>2, <1>0 DEF BusTypeOK
  <2> QED
    BY <2>1, <2>3, <1>2 DEF Pubs
<1>4. BusTypeOK'
  <2>1. pub' \in [Publisher -> Pubs]
    BY <1>0, <1>1, <1>3 DEF BusTypeOK
  <2> QED
    BY <2>1, <1>0, <1>1 DEF BusTypeOK, hist
<1>5. Listed' = Listed
  BY <1>1 DEF Listed
<1>6. LoopInv(p)'
  BY <1>3 DEF LoopInv, Sorted
<1>7. LogInv'
  <2>1. \A r \in Publisher :
          /\ pub'[r].sent = pub[r].sent
          /\ pub'[r].pc # "idle" => /\ pub[r].pc # "idle"
                                   /\ pub'[r].snapshot = pub[r].snapshot
                                   /\ pub[r].next <= pub'[r].next
    <3>1. \A r \in Publisher : pub[r].next \in Nat
      BY <1>0 DEF BusTypeOK, Pubs
    <3> QED
      BY <3>1, <1>3
  <2> QED
    BY <2>1, <1>0, <1>1, <1>4, <1>5, LogKept
<1>8. OrderedDelivery' /\ ClosedMissesLaterEvents'
  BY <1>1 DEF Inv, OrderedDelivery, ClosedMissesLaterEvents, hist
<1>9. \A u, e : Delivered(u, e) => Delivered(u, e)'
  BY <1>1 DEF Delivered
<1> QED
  BY <1>1, <1>3, <1>4, <1>6, <1>7, <1>8, <1>9, PublisherStep

-----------------------------------------------------------------------------
LEMMA BusInitInv == BusInit => Inv
<1> SUFFICES ASSUME BusInit PROVE Inv
  OBVIOUS
<1>1. BusTypeOK
  BY MaxEventsAssumption DEF BusInit, BusTypeOK, Life, Pubs
<1>2. Listed = {} /\ Len(order) = 0 /\ Len(log) = 0
  BY DEF BusInit, Listed
<1>3. OrderInv /\ LogInv /\ OrderedDelivery /\ ClosedMissesLaterEvents
  BY <1>2 DEF OrderInv, NoRepeat, LogInv, OrderedDelivery, ClosedMissesLaterEvents
<1>4. SubsInv /\ LastInv
  BY DEF BusInit, SubsInv, LastInv, Sorted
<1>5. ASSUME NEW p \in Publisher PROVE LoopInv(p)
  BY DEF BusInit, LoopInv, Sorted
<1> QED
  BY <1>1, <1>3, <1>4, <1>5 DEF Inv

\* Every step preserves the invariant.
LEMMA BusNextInv == Inv /\ [BusNext]_busVars => Inv'
<1> SUFFICES ASSUME Inv, [BusNext]_busVars PROVE Inv'
  OBVIOUS
<1>1. ASSUME NEW s \in Sub, Subscribe(s) PROVE Inv'
  BY <1>1, SubscribeInv
<1>2. ASSUME NEW s \in Sub, SubscribeNil(s) PROVE Inv'
  BY <1>2, SubscribeNilInv
<1>3. ASSUME NEW s \in Sub, UnsubscribeCAS(s) PROVE Inv'
  BY <1>3, UnsubscribeCASInv
<1>4. ASSUME NEW s \in Sub, UnsubscribeRemove(s) PROVE Inv'
  BY <1>4, UnsubscribeRemoveInv
<1>5. ASSUME NEW p \in Publisher, NEW t \in Topic, Snapshot(p, t) PROVE Inv'
  BY <1>5, SnapshotInv
<1>6. ASSUME NEW p \in Publisher, CheckClosed(p) PROVE Inv'
  BY <1>6, CheckClosedInv
<1>7. ASSUME NEW p \in Publisher, CallHandler(p) PROVE Inv'
  BY <1>7, CallHandlerInv
<1>8. ASSUME NEW p \in Publisher, Done(p) PROVE Inv'
  BY <1>8, DoneInv
<1>9. CASE UNCHANGED busVars
  <2>0. BusTypeOK'
    BY <1>9 DEF Inv, BusTypeOK, busVars, hist
  <2>1. OrderInv' /\ SubsInv' /\ LastInv'
    BY <1>9 DEF Inv, OrderInv, SubsInv, LastInv, Listed, busVars, hist
  <2>2. LogInv' /\ OrderedDelivery' /\ ClosedMissesLaterEvents'
    BY <1>9 DEF Inv, LogInv, OrderedDelivery, ClosedMissesLaterEvents, Listed, busVars, hist
  <2>3. ASSUME NEW p \in Publisher PROVE LoopInv(p)'
    BY <1>9 DEF Inv, LoopInv, Delivered, Event, Listed, busVars, hist
  <2> QED
    BY <2>0, <2>1, <2>2, <2>3 DEF Inv
<1> QED
  BY <1>1, <1>2, <1>3, <1>4, <1>5, <1>6, <1>7, <1>8, <1>9 DEF BusNext, Publish

\* The invariant holds in every reachable state.
THEOREM BusInvariance == BusSpec => []Inv
  BY BusInitInv, BusNextInv, PTL DEF BusSpec

\* memoryBus and its callers keep slices, flags and snapshots well formed.
THEOREM BusTyped == BusSpec => []BusTypeOK
<1>1. Inv => BusTypeOK
  BY DEF Inv
<1> QED
  BY <1>1, BusInvariance, PTL

\* Publish calls handlers in registration order, each at most once per event
\* and in the order its events were published, and the closed flag keeps back
\* all that is published after it was set, however many goroutines subscribe,
\* unsubscribe and publish at once.
THEOREM DeliveriesCorrect == BusSpec => []Deliveries
<1>1. Inv => Deliveries
  BY DEF Inv, Deliveries
<1> QED
  BY <1>1, BusInvariance, PTL

\* When Publish returns, whatever was active when it was entered and still is
\* has had the event.
THEOREM NothingMissed == BusSpec => NoMissedDelivery
<1>1. ASSUME Inv, [BusNext]_busVars, NEW p \in Publisher,
             pub[p].pc = "looping", pub'[p].pc = "idle",
             NEW s \in pub[p].owed, state[s] = "open"
      PROVE  Delivered(s, Event(p))
  <2>1. pub[p] \in Pubs /\ LoopInv(p) /\ BusTypeOK
    <3>1. BusTypeOK /\ LoopInv(p)
      BY <1>1 DEF Inv
    <3> QED
      BY <3>1 DEF BusTypeOK
  <2>2. pub[p].next > Len(pub[p].snapshot)
    <3> SUFFICES ASSUME BusNext PROVE pub[p].next > Len(pub[p].snapshot)
      BY <1>1 DEF busVars
    <3>1. ASSUME NEW r \in Sub, Subscribe(r) \/ SubscribeNil(r) \/ UnsubscribeCAS(r)
                                 \/ UnsubscribeRemove(r)
          PROVE  FALSE
      BY <1>1, <3>1 DEF Subscribe, SubscribeNil, UnsubscribeCAS, UnsubscribeRemove
    <3>2. ASSUME NEW q \in Publisher, NEW t \in Topic, Snapshot(q, t) PROVE FALSE
      BY <1>1, <2>1, <3>2 DEF Snapshot, BusTypeOK
    <3>3. ASSUME NEW q \in Publisher, CheckClosed(q) PROVE FALSE
      BY <1>1, <2>1, <3>3 DEF CheckClosed, BusTypeOK, Pubs
    <3>4. ASSUME NEW q \in Publisher, CallHandler(q) PROVE FALSE
      BY <1>1, <2>1, <3>4 DEF CallHandler, BusTypeOK, Pubs
    <3>5. ASSUME NEW q \in Publisher, Done(q) PROVE q = p
      BY <1>1, <2>1, <3>5 DEF Done, BusTypeOK, Pubs
    <3> QED
      BY <3>1, <3>2, <3>3, <3>4, <3>5 DEF BusNext, Publish, Done
  <2>3. PICK i \in 1..Len(pub[p].snapshot) : pub[p].snapshot[i] = s
    BY <1>1, <2>1 DEF LoopInv
  <2>4. i \in 1..(pub[p].next - 1)
    BY <2>1, <2>2 DEF Pubs
  <2> QED
    BY <1>1, <2>1, <2>3, <2>4 DEF LoopInv
<1>2. Inv /\ [BusNext]_busVars =>
        [\A p \in Publisher : pub[p].pc = "looping" /\ pub'[p].pc = "idle" =>
           \A s \in pub[p].owed : state[s] = "open" => Delivered(s, Event(p))]_busVars
  BY <1>1
<1> QED
  BY <1>2, BusInvariance, PTL DEF BusSpec, NoMissedDelivery

-----------------------------------------------------------------------------
(* TaskFiles.                                                                *)

Op == {"append", "check", "remove", "spawn", "resolve", "pick"}
Critical == {"write", "rename", "tell", "archive", "unlink", "tell_active", "tell_archive"}
Moving == {"archive", "unlink", "tell_active", "tell_archive"}

CallRecord == [op : Op, doing : Doing, task : Task \cup {None}, pc : Pc,
               arg : BOOLEAN \cup Call \cup Option \cup {None},
               prior : Option \cup {None}, body : File \cup {Absent},
               raced : BOOLEAN, answer : Answer]

\* What a call of each kind can be doing, and to which tasks.
CallInv(c) ==
  LET r == call[c] IN
  /\ r.pc = "idle" => r = Idle
  /\ r.pc # "idle" => r.task \in Task
  /\ r.pc = "done" <=> r.answer # "none"
  /\ r.op \in {"append", "resolve"} /\ Running(c) => r.arg \in BOOLEAN
  /\ r.op = "pick" => r.arg \in Option /\ kind[r.task] = "resolution"
  /\ r.op = "append" /\ r.pc # "idle" =>
       r.doing \in {"append", "refs"} /\ kind[r.task] # "resolution"
  /\ r.op \in {"check", "remove", "spawn"} => r.doing = r.op
  /\ r.op = "resolve" => r.doing = "stamp"
  /\ r.op = "pick" => r.doing \in {"pick", "stamp"}
  /\ r.pc \in {"ingest", "edge"} => r.doing = "pick"
  /\ r.doing = "pick" => r.pc \in {"ingest", "edge", "done"} /\ r.answer \notin {"ok", "archived"}
  /\ r.pc \in Moving => r.doing = "stamp"
  /\ r.pc = "write" => r.body # Absent

TypeInv ==
  /\ CommitTypeOK(File) /\ flushTimer # "fired"
  /\ kind \in [Task -> Kind]
  /\ tmp \in [Task -> File \cup {Absent}]
  /\ mutex \in [{"file", "err", "resolve"} -> Call \cup {None}]
  /\ call \in [Call -> CallRecord]
  /\ \A t \in Task : edges[t] \in Seq(Option) /\ IsInjective(edges[t])
  /\ edges \in [Task -> Seq(Option)]
  /\ \A c \in Call : CallInv(c)

\* A mutex is held by the one call that is in its critical section.
MutexInv ==
  /\ \A c \in Call : call[c].pc \in Critical => mutex[MutexOf(c)] = c
  /\ \A m \in DOMAIN mutex, d \in Call :
       mutex[m] = d => call[d].pc \in Critical /\ MutexOf(d) = m

\* Where the files of a task are while a resolve of it is under way.
ResolveInv == \A c \in Call :
  LET t == call[c].task IN
  call[c].doing = "stamp" =>
    /\ call[c].pc \in {"write", "rename", "tell", "archive"} =>
         disk[Archived(t)] = Absent /\ disk[Active(t)] # Absent
    /\ call[c].pc \in {"unlink", "tell_active", "tell_archive"} => disk[Archived(t)] # Absent

\* A temporary file has a writer that will rename it.
TmpInv == \A t \in Task :
  tmp[t] # Absent => \E c \in Call : call[c].task = t /\ call[c].pc = "rename"

\* An edit that runs while its task is resolved is marked.
RaceInv == \A c \in Call :
  call[c].op \in Editing /\ Running(c) /\ ~call[c].raced => ~Resolving(call[c].task)

TextLines(f) == IF f = Absent THEN {} ELSE f.open \cup f.done

\* The line of an append has reached the active file.
Landed(c) == call[c].op = "append" /\ (call[c].doing = "refs" \/ call[c].pc = "tell" \/ call[c].answer = "ok")

Excused(c) ==
  \/ \E d \in Call : call[d].op = "remove" /\ call[d].arg = c
  \/ \E d \in Call : call[d].task = call[c].task /\ call[d].answer = "rolled_back"

\* The line is archived, or it is in the active file and whoever rewrites that file has it.
Safe(c) ==
  LET t == call[c].task IN
  \/ c \in TextLines(disk[Archived(t)])
  \/ /\ c \in TextLines(disk[Active(t)])
     /\ tmp[t] # Absent => c \in TextLines(tmp[t])
     /\ \A d \in Call : call[d].task = t /\ call[d].pc = "write" => c \in TextLines(call[d].body)
     /\ \A d \in Call : call[d].task = t => call[d].pc # "unlink"

AppendInv == \A c \in Call :
  call[c].op = "append" /\ ~call[c].raced =>
    /\ call[c].doing = "append" /\ call[c].pc = "write" => c \in TextLines(call[c].body)
    /\ call[c].doing = "append" /\ call[c].pc = "rename" =>
         tmp[call[c].task] # Absent /\ c \in TextLines(tmp[call[c].task])
    /\ Landed(c) => Excused(c) \/ Safe(c)

\* The option o of task t is a target, or a pick moved it away.
Kept(t, o) ==
  \/ o \in ToSet(edges[t])
  \/ \E d \in Call : /\ call[d].op = "pick" /\ call[d].doing = "stamp" /\ call[d].task = t
                     /\ call[d].prior = o /\ call[d].arg # o

PickInv == \A c \in Call :
  call[c].op = "pick" =>
    /\ call[c].doing = "stamp" => Kept(call[c].task, call[c].arg)
    /\ call[c].pc = "edge" /\ call[c].prior # None => Kept(call[c].task, call[c].prior)

\* A call that is moving the task finds no active file, or one that an edit
\* which it overlapped has brought back.
GoneInv == \A c \in Call :
  call[c].pc \in {"unlink", "tell_active", "tell_archive"} =>
    disk[Active(call[c].task)] = Absent \/ Raced(call[c].task)

\* What was answered archived is archived, and no move of it can be rolled back.
ArchivedInv == \A c \in Call :
  LET t == call[c].task IN
  call[c].answer = "archived" =>
    disk[Archived(t)] # Absent /\ \A d \in Call : call[d].task = t => call[d].pc # "unlink"

\* An append or spawn that found or left an active file.
Made(c) ==
  /\ call[c].op \in {"append", "spawn"}
  /\ call[c].doing = "refs" \/ call[c].pc = "tell" \/ call[c].answer = "ok"

MadeInv == \A c \in Call : Made(c) => disk[Active(call[c].task)] # Absent \/ Moves(call[c].task)

\* The stamp of a resolve that c is making, or has made.
StampedBy(c) ==
  LET t == call[c].task IN
  /\ call[c].pc = "write" => call[c].body.resolved
  /\ call[c].pc = "rename" => tmp[t] # Absent /\ tmp[t].resolved
  /\ call[c].pc \in {"tell", "archive"} => IsResolved(Active(t))
  /\ call[c].answer \in {"ok", "archived"} => IsResolved(Active(t)) \/ IsResolved(Archived(t))

\* Nobody takes the stamp of a task away, when no edit overlapped a resolve.
StampStays(t) ==
  /\ disk[Archived(t)] # Absent => disk[Archived(t)].resolved
  /\ IsResolved(Active(t)) /\ tmp[t] # Absent => tmp[t].resolved
  /\ \A c \in Call : call[c].task = t =>
       /\ IsResolved(Active(t)) /\ call[c].pc = "write" => call[c].body.resolved
       /\ call[c].doing = "stamp" => StampedBy(c)

StampInv == \A t \in Task : ~Raced(t) => StampStays(t)

\* The paths a call will tell the committer.
Owes(c) ==
  LET t == call[c].task IN
  CASE call[c].pc \in {"tell", "tell_active"} ->
         {Active(t)} \cup (IF call[c].pc = "tell_active" THEN {Archived(t)} ELSE {})
    [] call[c].pc = "unlink" ->
         {Archived(t)} \cup (IF disk[Active(t)] = Absent THEN {Active(t)} ELSE {})
    [] call[c].pc = "tell_archive" -> {Archived(t)}
    [] OTHER -> {}

Batched(p) == p \in pending \/ \E i \in DOMAIN flushing : p \in flushing[i]

Recorded(p) == head[p] = disk[p] /\ index[p] = disk[p]

IndexInv == \A p \in Path : p \in missed \/ index[p] = head[p]

\* No change to a file is forgotten.
CoverInv == \A p \in Path :
  Recorded(p) \/ p \in missed \/ Batched(p) \/ \E c \in Call : p \in Owes(c)

\* An archived file that the committer was not told of is unknown to git.
UntoldInv == \A t \in Task :
  (\/ disk[Archived(t)] = Absent
   \/ \E c \in Call : call[c].task = t /\ call[c].pc \in {"unlink", "tell_active", "tell_archive"})
  => index[Archived(t)] = Absent /\ head[Archived(t)] = Absent /\ ~Batched(Archived(t))

StateInv == TypeInv /\ MutexInv
ToldInv == GoneInv /\ ArchivedInv /\ MadeInv /\ StampInv
FileInv == ResolveInv /\ TmpInv /\ RaceInv
CommitInv == IndexInv /\ CoverInv /\ UntoldInv
-----------------------------------------------------------------------------
(* Texts and calls.                                                          *)

\* What a rewrite of a text keeps of its lines.
LEMMA EditedKeeps ==
  ASSUME NEW c \in Call, NEW f \in File \cup {Absent}, call \in [Call -> CallRecord],
         call[c].doing \in Write \cup {"stamp"},
         call[c].doing = "refs" => call[c].arg \in BOOLEAN
  PROVE  /\ Edited(c, f) \in File \cup {Absent}
         /\ f # Absent => Edited(c, f) # Absent
         /\ \A l \in TextLines(f) :
              (call[c].doing = "remove" /\ call[c].arg = l) \/ l \in TextLines(Edited(c, f))
         /\ call[c].doing = "append" => Edited(c, f) # Absent /\ c \in TextLines(Edited(c, f))
<1> DEFINE e == Edited(c, f)
<1> USE AbsenceAssumption
<1>0. Empty \in File
  BY DEF Empty, File
<1>1. CASE call[c].doing = "append"
  <2> DEFINE g == IF f = Absent THEN Empty ELSE f
  <2>1. g \in File /\ (f # Absent => g = f)
    BY <1>0
  <2>2. e = [g EXCEPT !.open = @ \cup {c}]
    BY <1>1 DEF Edited, Appended
  <2>3. e \in File /\ e.open = g.open \cup {c} /\ e.done = g.done
    BY <2>1, <2>2 DEF File
  <2> QED
    BY <1>1, <2>1, <2>3 DEF TextLines
<1>2. CASE call[c].doing = "spawn"
  BY <1>0, <1>2 DEF Edited, Spawned, TextLines
<1>3. CASE f = Absent /\ call[c].doing \notin {"append", "spawn"}
  BY <1>3 DEF Edited, TextLines, Write, Editing
<1>4. CASE f # Absent /\ call[c].doing = "refs"
  <2>1. e = [f EXCEPT !.refs = call[c].arg]
    BY <1>4 DEF Edited, EditedText, Referenced
  <2>2. e \in File /\ e.open = f.open /\ e.done = f.done
    BY <1>4, <2>1 DEF File
  <2> QED
    BY <1>4, <2>2 DEF TextLines
<1>5. CASE f # Absent /\ call[c].doing = "check"
  <2> DEFINE l == call[c].arg
  <2>1. e = [f EXCEPT !.open = @ \ {l}, !.done = @ \cup ({l} \cap f.open)]
    BY <1>5 DEF Edited, EditedText, Checked
  <2>2. e \in File /\ e.open = f.open \ {l} /\ e.done = f.done \cup ({l} \cap f.open)
    BY <1>5, <2>1 DEF File
  <2> QED
    BY <1>5, <2>2 DEF TextLines
<1>6. CASE f # Absent /\ call[c].doing = "remove"
  <2> DEFINE l == call[c].arg
  <2>1. e = [f EXCEPT !.open = @ \ {l}, !.done = @ \ {l}]
    BY <1>6 DEF Edited, EditedText, Removed
  <2>2. e \in File /\ e.open = f.open \ {l} /\ e.done = f.done \ {l}
    BY <1>6, <2>1 DEF File
  <2> QED
    BY <1>6, <2>2 DEF TextLines
<1>7. CASE f # Absent /\ call[c].doing = "stamp"
  <2>1. e = [f EXCEPT !.resolved = TRUE]
    BY <1>7 DEF Edited, EditedText, Stamped
  <2>2. e \in File /\ e.open = f.open /\ e.done = f.done
    BY <1>7, <2>1 DEF File
  <2> QED
    BY <1>7, <2>2 DEF TextLines
<1> QED
  BY <1>1, <1>2, <1>3, <1>4, <1>5, <1>6, <1>7 DEF Write, Editing

\* What the record of a new call is.
Started(r) ==
  /\ r \in CallRecord /\ r.task \in Task
  /\ r.pc \in {"open", "ingest", "done"} /\ r.body = Absent /\ r.prior = None
  /\ r.pc = "done" => r.answer = "not_found" /\ r.op \in {"resolve", "pick"}
  /\ r.pc # "done" => r.answer = "none"
  /\ r.doing = IF r.op = "resolve" THEN "stamp" ELSE r.op
  /\ r.pc = "ingest" => r.op = "pick"
  /\ r.pc = "open" => r.op # "pick"
  /\ r.op = "append" => kind[r.task] # "resolution"
  /\ r.op \in {"append", "resolve"} /\ r.pc # "done" => r.arg \in BOOLEAN
  /\ r.op = "pick" => r.arg \in Option /\ kind[r.task] = "resolution"
  /\ r.raced = (r.op \in Editing /\ Resolving(r.task))

Starting == StartAppend \/ StartFailure \/ StartSpawn \/ StartTaskResolve \/ StartResolve \/ StartPick

LEMMA StartBegins ==
  ASSUME NEW op \in Op, NEW t \in Task, NEW pc \in {"open", "ingest", "done"}, NEW arg, NEW answer,
         arg \in BOOLEAN \cup Call \cup Option \cup {None}, answer \in Answer,
         Start(op, t, pc, arg, answer),
         pc = "done" => answer = "not_found" /\ op \in {"resolve", "pick"},
         pc # "done" => answer = "none",
         pc = "ingest" => op = "pick", pc = "open" => op # "pick",
         op = "append" => kind[t] # "resolution",
         op \in {"append", "resolve"} /\ pc # "done" => arg \in BOOLEAN,
         op = "pick" => arg \in Option /\ kind[t] = "resolution"
  PROVE  \E c \in Call, r \in CallRecord :
           /\ call[c].pc = "idle" /\ Started(r) /\ call' = [call EXCEPT ![c] = r]
           /\ UNCHANGED <<disk, commitVars, taskVars>>
<1> DEFINE r == [Idle EXCEPT !.op = op, !.doing = IF op = "resolve" THEN "stamp" ELSE op,
                             !.task = t, !.pc = pc, !.arg = arg, !.answer = answer,
                             !.raced = op \in Editing /\ Resolving(t)]
<1>1. PICK c \in Call : call[c].pc = "idle" /\ call' = [call EXCEPT ![c] = r]
  BY DEF Start
<1>2. Idle \in CallRecord
  BY DEF Idle, CallRecord, Op, Doing, Write, Editing, Pc, Answer
<1>3. (op \in Editing /\ Resolving(t)) \in BOOLEAN
  OBVIOUS
<1>4. /\ r \in CallRecord
      /\ r.op = op /\ r.doing = (IF op = "resolve" THEN "stamp" ELSE op)
      /\ r.task = t /\ r.pc = pc /\ r.arg = arg /\ r.answer = answer
      /\ r.raced = (op \in Editing /\ Resolving(t)) /\ r.body = Idle.body /\ r.prior = Idle.prior
  <2> DEFINE d == IF op = "resolve" THEN "stamp" ELSE op
             x == (op \in Editing /\ Resolving(t))
  <2>1. d \in Doing /\ x \in BOOLEAN /\ pc \in Pc
    BY DEF Doing, Write, Editing, Op, Pc
  <2>2. r = [Idle EXCEPT !.op = op, !.doing = d, !.task = t, !.pc = pc, !.arg = arg,
                         !.answer = answer, !.raced = x]
    OBVIOUS
  <2> HIDE DEF r, d, x
  <2>3. /\ r \in CallRecord /\ r.op = op /\ r.doing = d /\ r.task = t /\ r.pc = pc
        /\ r.arg = arg /\ r.answer = answer /\ r.raced = x
        /\ r.body = Idle.body /\ r.prior = Idle.prior
    BY <1>2, <2>1, <2>2 DEF CallRecord
  <2> QED
    BY <2>3 DEF d, x
<1>5. Started(r)
  BY <1>4 DEF Started, Idle
<1>6. UNCHANGED <<disk, commitVars, taskVars>>
  BY DEF Start
<1> QED
  BY <1>1, <1>4, <1>5, <1>6

LEMMA StartingBegins ==
  ASSUME Starting, kind \in [Task -> Kind]
  PROVE  \E c \in Call, r \in CallRecord :
           /\ call[c].pc = "idle" /\ Started(r) /\ call' = [call EXCEPT ![c] = r]
           /\ UNCHANGED <<disk, commitVars, taskVars>>
<1>1. CASE StartAppend
  BY <1>1, StartBegins DEF StartAppend, Op, Answer
<1>2. CASE StartFailure
  BY <1>2, StartBegins DEF StartFailure, Op, Answer
<1>3. CASE StartSpawn
  BY <1>3, StartBegins DEF StartSpawn, Op, Answer
<1>4. CASE StartTaskResolve
  <2>1. PICK t \in Task, mode \in {"check", "remove"}, line \in Call :
          Start(mode, t, "open", line, "none")
    BY <1>4 DEF StartTaskResolve
  <2> QED
    BY <2>1, StartBegins DEF Op, Answer
<1>5. CASE StartResolve
  <2>1. PICK t \in Task, auto \in BOOLEAN :
          Start("resolve", t, "done", None, "not_found") \/ Start("resolve", t, "open", auto, "none")
    BY <1>5 DEF StartResolve
  <2>2. CASE Start("resolve", t, "done", None, "not_found")
    BY <2>2, StartBegins DEF Op, Answer
  <2>3. CASE Start("resolve", t, "open", auto, "none")
    BY <2>3, StartBegins DEF Op, Answer
  <2> QED
    BY <2>1, <2>2, <2>3
<1>6. CASE StartPick
  <2>1. PICK t \in Task, o \in Option :
          /\ kind[t] = "resolution"
          /\ Start("pick", t, "done", o, "not_found") \/ Start("pick", t, "ingest", o, "none")
    BY <1>6 DEF StartPick
  <2>2. CASE Start("pick", t, "done", o, "not_found")
    BY <2>1, <2>2, StartBegins DEF Op, Answer
  <2>3. CASE Start("pick", t, "ingest", o, "none")
    BY <2>1, <2>3, StartBegins DEF Op, Answer
  <2> QED
    BY <2>1, <2>2, <2>3
<1> QED
  BY <1>1, <1>2, <1>3, <1>4, <1>5, <1>6 DEF Starting

-----------------------------------------------------------------------------
(* Types.                                                                    *)

\* The calls that a step of c leaves alone, but for the mark of a race.
OthersKeep(c) == \A d \in Call \ {c} :
  /\ call'[d].op = call[d].op /\ call'[d].doing = call[d].doing /\ call'[d].task = call[d].task
  /\ call'[d].pc = call[d].pc /\ call'[d].arg = call[d].arg /\ call'[d].prior = call[d].prior
  /\ call'[d].body = call[d].body /\ call'[d].answer = call[d].answer
  /\ call[d].raced => call'[d].raced

CallsInv == call \in [Call -> CallRecord] /\ \A c \in Call : CallInv(c)

\* A step of one call leaves the others' invariants.
LEMMA TurnsKeep ==
  ASSUME CallsInv, NEW c \in Call, NEW r \in CallRecord,
         call' = [call EXCEPT ![c] = r], kind' = kind,
         r = call'[c] => CallInv(c)'
  PROVE  CallsInv' /\ OthersKeep(c) /\ call'[c] = r
<1>1. call' \in [Call -> CallRecord] /\ call'[c] = r /\ \A d \in Call \ {c} : call'[d] = call[d]
  BY DEF CallsInv
<1>2. OthersKeep(c)
  BY <1>1 DEF OthersKeep
<1>3. ASSUME NEW d \in Call PROVE CallInv(d)'
  <2>1. CASE d = c
    BY <1>1, <2>1
  <2>2. CASE d # c
    <3>1. call'[d] = call[d] /\ CallInv(d)
      BY <1>1, <2>2 DEF CallsInv
    <3> QED
      BY <3>1 DEF CallInv, Running
  <2> QED
    BY <2>1, <2>2
<1> QED
  BY <1>1, <1>2, <1>3 DEF CallsInv

LEMMA FinishKeeps ==
  ASSUME CallsInv, NEW c \in Call, NEW answer \in Answer \ {"none"}, Finish(c, answer),
         call[c].pc # "idle", kind' = kind, call[c].doing = "pick" => answer \notin {"ok", "archived"}
  PROVE  /\ CallsInv' /\ OthersKeep(c)
         /\ call'[c].pc = "done" /\ call'[c].answer = answer /\ call'[c].body = Absent
         /\ call'[c].op = call[c].op /\ call'[c].doing = call[c].doing
         /\ call'[c].task = call[c].task /\ call'[c].prior = call[c].prior
         /\ call'[c].raced = call[c].raced
         /\ call[c].op \in {"remove", "pick"} => call'[c].arg = call[c].arg
<1> DEFINE a == IF call[c].op \in {"remove", "pick"} THEN call[c].arg ELSE None
           r == [call[c] EXCEPT !.pc = "done", !.answer = answer, !.body = Absent, !.arg = a]
<1>1. call[c] \in CallRecord /\ CallInv(c)
  BY DEF CallsInv
<1>2. /\ r \in CallRecord
      /\ r.pc = "done" /\ r.answer = answer /\ r.body = Absent /\ r.arg = a
      /\ r.op = call[c].op /\ r.doing = call[c].doing /\ r.task = call[c].task
      /\ r.prior = call[c].prior /\ r.raced = call[c].raced
  BY <1>1 DEF CallRecord, Pc
<1>3. call' = [call EXCEPT ![c] = r]
  <2>1. call \in [Call -> CallRecord]
    BY DEF CallsInv
  <2> QED
    BY <2>1 DEF Finish, CallRecord
<1> HIDE DEF r
<1>4. r = call'[c] => CallInv(c)'
  BY <1>1, <1>2 DEF CallInv, Running, Moving
<1>5. CallsInv' /\ OthersKeep(c) /\ call'[c] = r
  BY <1>2, <1>3, <1>4, TurnsKeep
<1> QED
  BY <1>2, <1>5

LEMMA GotoKeeps ==
  ASSUME CallsInv, NEW c \in Call, NEW pc \in {"tell", "archive", "unlink", "tell_active", "tell_archive"},
         Goto(c, pc), call[c].pc \notin {"idle", "done", "ingest", "edge"}, kind' = kind,
         pc # "tell" => call[c].doing = "stamp"
  PROVE  /\ CallsInv' /\ OthersKeep(c)
         /\ call'[c].pc = pc /\ call'[c].answer = call[c].answer /\ call'[c].body = call[c].body
         /\ call'[c].op = call[c].op /\ call'[c].doing = call[c].doing
         /\ call'[c].task = call[c].task /\ call'[c].prior = call[c].prior
         /\ call'[c].raced = call[c].raced /\ call'[c].arg = call[c].arg
<1> DEFINE r == [call[c] EXCEPT !.pc = pc]
<1>1. call[c] \in CallRecord /\ CallInv(c)
  BY DEF CallsInv
<1>2. /\ r \in CallRecord
      /\ r.pc = pc /\ r.answer = call[c].answer /\ r.body = call[c].body /\ r.arg = call[c].arg
      /\ r.op = call[c].op /\ r.doing = call[c].doing /\ r.task = call[c].task
      /\ r.prior = call[c].prior /\ r.raced = call[c].raced
  BY <1>1 DEF CallRecord, Pc
<1>3. call' = [call EXCEPT ![c] = r]
  <2>1. call \in [Call -> CallRecord]
    BY DEF CallsInv
  <2> QED
    BY <2>1 DEF Goto, CallRecord
<1> HIDE DEF r
<1>4. r = call'[c] => CallInv(c)'
  BY <1>1, <1>2 DEF CallInv, Running, Moving
<1>5. CallsInv' /\ OthersKeep(c) /\ call'[c] = r
  BY <1>2, <1>3, <1>4, TurnsKeep
<1> QED
  BY <1>2, <1>5

\* The calls in the middle of their work: what IngestKeeps and the like say of
\* the record of c, whose kind, task and mark stay.
Same(c) == /\ call'[c].op = call[c].op /\ call'[c].task = call[c].task
           /\ call'[c].raced = call[c].raced

LEMMA StartKeeps ==
  ASSUME CallsInv, NEW c \in Call, NEW r \in CallRecord, Started(r), call[c].pc = "idle",
         call' = [call EXCEPT ![c] = r], kind' = kind
  PROVE  CallsInv' /\ OthersKeep(c) /\ call'[c] = r
<1>1. r = call'[c] => CallInv(c)'
  BY DEF CallInv, Running, Moving, Started
<1> QED
  BY <1>1, TurnsKeep

LEMMA IngestKeeps ==
  ASSUME CallsInv, \A t \in Task : edges[t] \in Seq(Option), NEW c \in Call, Ingest(c)
  PROVE  /\ CallsInv' /\ OthersKeep(c) /\ Same(c)
         /\ call'[c].pc \in {"done", "edge"} /\ call'[c].answer # "ok"
         /\ call'[c].doing = call[c].doing /\ call'[c].arg = call[c].arg
         /\ call'[c].answer \notin {"ok", "archived"}
         /\ call'[c].pc = "edge" /\ call'[c].prior # None =>
              call'[c].prior \in ToSet(edges[call[c].task])
<1> DEFINE targets == edges[call[c].task]
           prior == IF targets = <<>> THEN None ELSE Head(targets)
<1>1. call[c] \in CallRecord /\ CallInv(c) /\ call[c].pc = "ingest"
  BY DEF CallsInv, Ingest
<1>2. call[c].doing = "pick" /\ call[c].op = "pick" /\ call[c].task \in Task
  BY <1>1 DEF CallInv, CallRecord, Op
<1>3. kind' = kind
  BY DEF Ingest, taskVars
<1>4. CASE Finish(c, "error")
  BY <1>1, <1>2, <1>3, <1>4, FinishKeeps DEF Answer, Same
<1>5. CASE call' = [call EXCEPT ![c].pc = "edge", ![c].prior = prior]
  <2> DEFINE r == [call[c] EXCEPT !.pc = "edge", !.prior = prior]
  <2>1. prior \in Option \cup {None} /\ (prior # None => prior \in ToSet(targets))
    <3>1. targets \in Seq(Option)
      BY <1>2
    <3>2. targets # <<>> => 1 \in DOMAIN targets /\ Head(targets) = targets[1] /\ targets[1] \in Option
      BY <3>1
    <3> QED
      BY <3>2 DEF ToSet
  <2> HIDE DEF prior
  <2>2. /\ r \in CallRecord /\ r.pc = "edge" /\ r.prior = prior
        /\ r.op = call[c].op /\ r.doing = call[c].doing /\ r.task = call[c].task
        /\ r.arg = call[c].arg /\ r.raced = call[c].raced /\ r.answer = call[c].answer
    BY <1>1, <2>1 DEF CallRecord, Pc
  <2>3. call' = [call EXCEPT ![c] = r]
    <3>1. call \in [Call -> CallRecord]
      BY DEF CallsInv
    <3> QED
      BY <1>5, <3>1 DEF CallRecord
  <2> HIDE DEF r
  <2>4. r = call'[c] => CallInv(c)'
    BY <1>1, <1>2, <1>3, <2>2 DEF CallInv, Running, Moving
  <2>5. CallsInv' /\ OthersKeep(c) /\ call'[c] = r
    BY <1>3, <2>2, <2>3, <2>4, TurnsKeep
  <2>6. call[c].answer = "none"
    BY <1>1 DEF CallInv
  <2> QED
    BY <2>1, <2>2, <2>5, <2>6 DEF Same
<1> QED
  BY <1>4, <1>5 DEF Ingest

LEMMA LandKeeps ==
  ASSUME CallsInv, NEW c \in Call, NEW targets, call[c].pc = "edge", LandEdge(c, targets), kind' = kind
  PROVE  /\ CallsInv' /\ OthersKeep(c) /\ Same(c)
         /\ call'[c].pc = "open" /\ call'[c].doing = "stamp" /\ call'[c].answer = "none"
         /\ call'[c].arg = call[c].arg /\ call'[c].prior = call[c].prior /\ call[c].op = "pick"
<1> DEFINE r == [call[c] EXCEPT !.pc = "open", !.doing = "stamp"]
<1>1. call[c] \in CallRecord /\ CallInv(c)
  BY DEF CallsInv
<1>2. call[c].doing = "pick" /\ call[c].op = "pick" /\ call[c].task \in Task /\ call[c].answer = "none"
  BY <1>1 DEF CallInv, CallRecord, Op
<1>3. /\ r \in CallRecord /\ r.pc = "open" /\ r.doing = "stamp"
      /\ r.op = call[c].op /\ r.prior = call[c].prior /\ r.task = call[c].task
      /\ r.arg = call[c].arg /\ r.raced = call[c].raced /\ r.answer = call[c].answer
  BY <1>1 DEF CallRecord, Pc, Doing
<1>4. call' = [call EXCEPT ![c] = r]
  <2>1. call \in [Call -> CallRecord]
    BY DEF CallsInv
  <2> QED
    BY <2>1 DEF CallRecord, LandEdge
<1> HIDE DEF r
<1>5. r = call'[c] => CallInv(c)'
  BY <1>1, <1>2, <1>3 DEF CallInv, Running, Moving
<1>6. CallsInv' /\ OthersKeep(c) /\ call'[c] = r
  BY <1>3, <1>4, <1>5, TurnsKeep
<1> QED
  BY <1>2, <1>3, <1>6 DEF Same

\* The targets of an edge after a redirection, and after a new one.
LEMMA RetargetIs ==
  ASSUME NEW s \in Seq(Option), IsInjective(s), NEW old, NEW new \in Option,
         old \in ToSet(s), new \notin ToSet(s)
  PROVE  /\ Retarget(s, old, new) \in Seq(Option) /\ IsInjective(Retarget(s, old, new))
         /\ ToSet(Retarget(s, old, new)) = (ToSet(s) \ {old}) \cup {new}
<1> DEFINE q == Retarget(s, old, new)
<1>1. /\ DOMAIN s = 1 .. Len(s) /\ Len(s) \in Nat /\ \A i \in DOMAIN s : s[i] \in Option
  OBVIOUS
<1>2. q = [i \in 1 .. Len(s) |-> IF s[i] = old THEN new ELSE s[i]]
  BY <1>1 DEF Retarget
<1>3. q \in Seq(Option) /\ DOMAIN q = DOMAIN s
  BY <1>1, <1>2
<1>4. \A i \in DOMAIN s : q[i] = IF s[i] = old THEN new ELSE s[i]
  BY <1>1, <1>2
<1> HIDE DEF q
<1>5. \A i \in DOMAIN s : s[i] # new
  BY DEF ToSet
<1>6. IsInjective(q)
  BY <1>3, <1>4, <1>5 DEF IsInjective
<1>7. PICK k \in DOMAIN s : s[k] = old
  BY DEF ToSet
<1>8. q[k] = new
  BY <1>4, <1>7
<1>9. ToSet(q) = (ToSet(s) \ {old}) \cup {new}
  <2>1. ASSUME NEW o \in ToSet(q) PROVE o \in (ToSet(s) \ {old}) \cup {new}
    BY <1>3, <1>4 DEF ToSet
  <2>2. ASSUME NEW o \in ToSet(s) \ {old} PROVE o \in ToSet(q)
    <3>1. PICK i \in DOMAIN s : s[i] = o
      BY DEF ToSet
    <3>2. q[i] = o
      BY <1>4, <3>1
    <3> QED
      BY <1>3, <3>2 DEF ToSet
  <2>3. new \in ToSet(q)
    BY <1>3, <1>7, <1>8 DEF ToSet
  <2> QED
    BY <2>1, <2>2, <2>3
<1> QED
  BY <1>3, <1>6, <1>9 DEF q

LEMMA TargetAppended ==
  ASSUME NEW s \in Seq(Option), IsInjective(s), NEW new \in Option, new \notin ToSet(s)
  PROVE  /\ Append(s, new) \in Seq(Option) /\ IsInjective(Append(s, new))
         /\ ToSet(Append(s, new)) = ToSet(s) \cup {new}
<1> DEFINE q == Append(s, new)
<1>1. /\ DOMAIN s = 1 .. Len(s) /\ Len(s) \in Nat
      /\ q \in Seq(Option) /\ DOMAIN q = 1 .. Len(s) + 1
      /\ q[Len(s) + 1] = new /\ \A i \in 1 .. Len(s) : q[i] = s[i]
  OBVIOUS
<1> HIDE DEF q
<1>2. \A i \in 1 .. Len(s) : s[i] # new
  BY <1>1 DEF ToSet
<1>3. \A i \in DOMAIN q : i = Len(s) + 1 \/ i \in 1 .. Len(s)
  BY <1>1
<1>4. IsInjective(q)
  BY <1>1, <1>2, <1>3 DEF IsInjective
<1>5. ToSet(q) = ToSet(s) \cup {new}
  <2>1. ASSUME NEW o \in ToSet(q) PROVE o \in ToSet(s) \cup {new}
    BY <1>1, <1>3 DEF ToSet
  <2>2. ASSUME NEW o \in ToSet(s) PROVE o \in ToSet(q)
    <3>1. PICK i \in 1 .. Len(s) : s[i] = o
      BY <1>1 DEF ToSet
    <3>2. i \in DOMAIN q /\ q[i] = o
      BY <1>1, <3>1
    <3> QED
      BY <3>2 DEF ToSet
  <2>3. Len(s) + 1 \in DOMAIN q
    BY <1>1
  <2> QED
    BY <1>1, <2>1, <2>2, <2>3 DEF ToSet
<1> QED
  BY <1>1, <1>4, <1>5 DEF q

EdgesInv == edges \in [Task -> Seq(Option)] /\ \A t \in Task : IsInjective(edges[t])

\* A pick lands its option, or finds it there; the target it redirects is gone.
LEMMA WriteEdgeKeeps ==
  ASSUME CallsInv, EdgesInv, NEW c \in Call, WriteEdge(c)
  PROVE  LET t == call[c].task  prior == call[c].prior  new == call[c].arg IN
         /\ CallsInv' /\ EdgesInv' /\ OthersKeep(c) /\ Same(c)
         /\ call'[c].pc \in {"done", "open"} /\ call'[c].answer \notin {"ok", "archived"}
         /\ call'[c].arg = new /\ call'[c].prior = prior /\ call[c].op = "pick"
         /\ \A s \in Task \ {t} : edges'[s] = edges[s]
         /\ call'[c].doing = "stamp" =>
              new \in ToSet(edges'[t]) \/ (prior = new /\ prior # None /\ edges' = edges)
         /\ \A o \in ToSet(edges[t]) :
              o \in ToSet(edges'[t]) \/ (call'[c].doing = "stamp" /\ prior = o /\ new # o)
<1> DEFINE t == call[c].task  prior == call[c].prior  new == call[c].arg  targets == edges[t]
<1>1. call[c] \in CallRecord /\ CallInv(c) /\ call[c].pc = "edge" /\ kind' = kind
  BY DEF CallsInv, WriteEdge
<1>2. call[c].doing = "pick" /\ call[c].op = "pick" /\ t \in Task /\ new \in Option
  BY <1>1 DEF CallInv, CallRecord, Op
<1>3. targets \in Seq(Option) /\ IsInjective(targets) /\ edges \in [Task -> Seq(Option)]
  BY <1>2 DEF EdgesInv
<1>4. ASSUME NEW answer \in {"stale", "error"}, Finish(c, answer), UNCHANGED edges
      PROVE  /\ CallsInv' /\ EdgesInv' /\ OthersKeep(c) /\ Same(c)
             /\ call'[c].pc = "done" /\ call'[c].answer = answer /\ call'[c].doing = "pick"
             /\ call'[c].arg = new /\ call'[c].prior = prior
  BY <1>1, <1>2, <1>4, FinishKeeps DEF Answer, Same, EdgesInv
<1>5. ASSUME NEW q \in Seq(Option), LandEdge(c, q), IsInjective(q)
      PROVE  /\ CallsInv' /\ EdgesInv' /\ OthersKeep(c) /\ Same(c)
             /\ call'[c].pc = "open" /\ call'[c].answer = "none" /\ call'[c].doing = "stamp"
             /\ call'[c].arg = new /\ call'[c].prior = prior
             /\ edges' = [edges EXCEPT ![t] = q] /\ edges'[t] = q
             /\ \A s \in Task \ {t} : edges'[s] = edges[s]
  <2>1. edges' = [edges EXCEPT ![t] = q]
    BY <1>5 DEF LandEdge
  <2>2. EdgesInv' /\ edges'[t] = q /\ \A s \in Task \ {t} : edges'[s] = edges[s]
    BY <1>2, <1>3, <1>5, <2>1 DEF EdgesInv
  <2> QED
    BY <1>1, <1>5, <2>1, <2>2, LandKeeps
<1>6. CASE prior = None /\ LandEdge(c, IF new \in ToSet(targets) THEN targets ELSE Append(targets, new))
  <2> DEFINE q == IF new \in ToSet(targets) THEN targets ELSE Append(targets, new)
  <2>1. q \in Seq(Option) /\ IsInjective(q) /\ ToSet(q) = ToSet(targets) \cup {new}
    BY <1>2, <1>3, TargetAppended
  <2> HIDE DEF q
  <2>2. LandEdge(c, q)
    BY <1>6 DEF q
  <2> QED
    BY <1>2, <1>5, <2>1, <2>2
<1>7. CASE prior = new /\ LandEdge(c, targets)
  <2>1. edges' = edges
    BY <1>2, <1>3, <1>5, <1>7
  <2> QED
    BY <1>2, <1>3, <1>5, <1>7, <2>1, AbsenceAssumption
<1>8. CASE /\ prior \notin {None, new} /\ ~IsStale(targets, prior, new)
           /\ LandEdge(c, Retarget(targets, prior, new))
  <2>1. prior \in ToSet(targets) /\ new \notin ToSet(targets)
    BY <1>8 DEF IsStale
  <2>2. LET q == Retarget(targets, prior, new) IN
        q \in Seq(Option) /\ IsInjective(q) /\ ToSet(q) = (ToSet(targets) \ {prior}) \cup {new}
    BY <1>2, <1>3, <2>1, RetargetIs
  <2> QED
    BY <1>2, <1>5, <1>8, <2>2
<1>9. CASE \E answer \in {"stale", "error"} : Finish(c, answer) /\ UNCHANGED edges
  BY <1>2, <1>4, <1>9
<1> QED
  BY <1>6, <1>7, <1>8, <1>9 DEF WriteEdge

\* A call's step that changes only the fields that its action names.
LEMMA OpenToWriteKeeps ==
  ASSUME TypeInv, NEW c \in Call, OpenToWrite(c)
  PROVE  LET f == disk[Active(call[c].task)]  body == Edited(c, f) IN
         /\ CallsInv' /\ OthersKeep(c) /\ Same(c)
         /\ call[c].pc = "open" /\ call[c].doing \in Write /\ call[c].op \notin {"resolve", "pick"}
         /\ call'[c].doing = call[c].doing /\ call'[c].prior = call[c].prior
         /\ call[c].op = "remove" => call'[c].arg = call[c].arg
         /\ mutex[MutexOf(c)] = None
         /\ \/ /\ call'[c].pc = "done" /\ call'[c].answer = "ok" /\ body = f /\ mutex' = mutex
            \/ /\ call'[c].pc = "write" /\ call'[c].answer = "none" /\ call'[c].body = body
               /\ body \in File /\ mutex' = [mutex EXCEPT ![MutexOf(c)] = c]
<1> DEFINE t == call[c].task  f == disk[Active(t)]  body == Edited(c, f)
<1>1. /\ call[c] \in CallRecord /\ CallInv(c) /\ CallsInv
      /\ call[c].pc = "open" /\ call[c].doing \in Write /\ kind' = kind
  BY DEF CallsInv, OpenToWrite, TypeInv
<1>2. t \in Task /\ Active(t) \in Path /\ f \in File \cup {Absent}
  <2>1. t \in Task
    BY <1>1 DEF CallInv
  <2>2. Active(t) \in Path
    BY <2>1, PathsAssumption DEF Active
  <2> QED
    BY <2>1, <2>2 DEF TypeInv, CommitTypeOK
<1>3. call[c].doing = "refs" => call[c].arg \in BOOLEAN
  <2>1. call[c].doing = "refs" => call[c].op = "append"
    BY <1>1 DEF CallInv, CallRecord, Op
  <2> QED
    BY <1>1, <2>1 DEF CallInv, Running
<1>4. body \in File \cup {Absent} /\ (f # Absent => body # Absent)
  BY <1>1, <1>2, <1>3, EditedKeeps DEF CallsInv
<1>5. call[c].op \notin {"resolve", "pick"} /\ call[c].answer = "none"
  BY <1>1 DEF CallInv, Write, Editing
<1> HIDE DEF body, f, t
<1>6. CASE body = f
  <2>1. mutex[MutexOf(c)] = None /\ Finish(c, "ok") /\ mutex' = mutex
    BY <1>6 DEF OpenToWrite, body, f, t
  <2>2. /\ CallsInv' /\ OthersKeep(c)
        /\ call'[c].pc = "done" /\ call'[c].answer = "ok"
        /\ call'[c].op = call[c].op /\ call'[c].doing = call[c].doing
        /\ call'[c].task = call[c].task /\ call'[c].prior = call[c].prior
        /\ call'[c].raced = call[c].raced
        /\ call[c].op \in {"remove", "pick"} => call'[c].arg = call[c].arg
    BY <1>1, <2>1, FinishKeeps DEF Answer, Write, Editing
  <2> QED
    BY <1>1, <1>5, <1>6, <2>1, <2>2 DEF Same, body, f, t
<1>7. CASE body # f
  <2> DEFINE r == [call[c] EXCEPT !.pc = "write", !.body = body]
  <2>1. mutex[MutexOf(c)] = None /\ mutex' = [mutex EXCEPT ![MutexOf(c)] = c]
    BY <1>7 DEF OpenToWrite, body, f, t, Lock
  <2>2. body \in File
    BY <1>4, <1>7
  <2>3. /\ r \in CallRecord /\ r.pc = "write" /\ r.body = body
        /\ r.op = call[c].op /\ r.doing = call[c].doing /\ r.task = call[c].task
        /\ r.arg = call[c].arg /\ r.raced = call[c].raced /\ r.answer = call[c].answer
        /\ r.prior = call[c].prior
    BY <1>1, <2>2 DEF CallRecord, Pc
  <2>4. call' = [call EXCEPT ![c] = r]
    <3>1. call \in [Call -> CallRecord]
      BY DEF TypeInv
    <3>2. call' = [call EXCEPT ![c].pc = "write", ![c].body = body]
      BY <1>7 DEF OpenToWrite, body, f, t
    <3> QED
      BY <3>1, <3>2 DEF CallRecord
  <2> HIDE DEF r
  <2>5. r = call'[c] => CallInv(c)'
    BY <1>1, <2>2, <2>3, AbsenceAssumption DEF CallInv, Running, Moving, Write, Editing
  <2>6. CallsInv' /\ OthersKeep(c) /\ call'[c] = r
    BY <1>1, <2>3, <2>4, <2>5, TurnsKeep
  <2> QED
    BY <1>1, <1>5, <2>1, <2>2, <2>3, <2>6 DEF Same, body, f, t
<1> QED
  BY <1>6, <1>7

LEMMA WriteTempKeeps ==
  ASSUME CallsInv, NEW c \in Call, WriteTemp(c)
  PROVE  /\ CallsInv' /\ OthersKeep(c) /\ Same(c)
         /\ call[c].pc = "write" /\ call[c].body \in File /\ call'[c].pc = "rename"
         /\ call'[c].doing = call[c].doing /\ call'[c].prior = call[c].prior
         /\ call'[c].arg = call[c].arg /\ call'[c].answer = call[c].answer
<1> DEFINE r == [call[c] EXCEPT !.pc = "rename", !.body = Absent]
<1>1. /\ call[c] \in CallRecord /\ CallInv(c) /\ call[c].pc = "write" /\ kind' = kind
      /\ call' = [call EXCEPT ![c].pc = "rename", ![c].body = Absent]
  BY DEF CallsInv, WriteTemp
<1>2. call[c].body \in File
  BY <1>1 DEF CallInv, CallRecord
<1>3. /\ r \in CallRecord /\ r.pc = "rename"
      /\ r.op = call[c].op /\ r.doing = call[c].doing /\ r.task = call[c].task
      /\ r.arg = call[c].arg /\ r.raced = call[c].raced /\ r.answer = call[c].answer
      /\ r.prior = call[c].prior
  BY <1>1 DEF CallRecord, Pc
<1>4. call' = [call EXCEPT ![c] = r]
  <2>1. call \in [Call -> CallRecord]
    BY DEF CallsInv
  <2> QED
    BY <1>1, <2>1 DEF CallRecord
<1> HIDE DEF r
<1>5. r = call'[c] => CallInv(c)'
  BY <1>1, <1>3 DEF CallInv, Running, Moving
<1>6. CallsInv' /\ OthersKeep(c) /\ call'[c] = r
  BY <1>1, <1>3, <1>4, <1>5, TurnsKeep
<1> QED
  BY <1>1, <1>2, <1>3, <1>6 DEF Same

LEMMA RenameTempKeeps ==
  ASSUME CallsInv, NEW c \in Call, RenameTemp(c)
  PROVE  /\ CallsInv' /\ OthersKeep(c) /\ Same(c)
         /\ call[c].pc = "rename"
         /\ call'[c].doing = call[c].doing /\ call'[c].prior = call[c].prior
         /\ call[c].op \in {"remove", "pick"} => call'[c].arg = call[c].arg
         /\ IF tmp[call[c].task] = Absent
            THEN call'[c].pc = "done" /\ call'[c].answer = "error"
            ELSE call'[c].pc = "tell" /\ call'[c].answer = call[c].answer
<1>1. call[c] \in CallRecord /\ CallInv(c) /\ call[c].pc = "rename" /\ kind' = kind
  BY DEF CallsInv, RenameTemp
<1>2. CASE tmp[call[c].task] = Absent
  <2>1. Finish(c, "error")
    BY <1>2 DEF RenameTemp
  <2> QED
    BY <1>1, <1>2, <2>1, FinishKeeps DEF Same, Answer
<1>3. CASE tmp[call[c].task] # Absent
  <2>1. Goto(c, "tell")
    BY <1>3 DEF RenameTemp
  <2> QED
    BY <1>1, <1>3, <2>1, GotoKeeps DEF Same
<1> QED
  BY <1>2, <1>3

LEMMA TellKeeps ==
  ASSUME CallsInv, NEW c \in Call, Tell(c)
  PROVE  /\ CallsInv' /\ OthersKeep(c) /\ Same(c)
         /\ call[c].pc = "tell" /\ call'[c].prior = call[c].prior
         /\ call[c].op \in {"remove", "pick"} => call'[c].arg = call[c].arg
         /\ \/ /\ call[c].doing = "append" /\ kind[call[c].task] = "text"
               /\ call'[c].pc = "open" /\ call'[c].doing = "refs" /\ Unlock(c)
            \/ /\ call'[c].pc = "archive" /\ call[c].doing = "stamp"
               /\ call'[c].doing = "stamp" /\ mutex' = mutex
            \/ /\ call'[c].pc = "done" /\ call'[c].answer = "ok" /\ Unlock(c)
               /\ call'[c].doing = call[c].doing
               /\ ~(call[c].doing = "append" /\ kind[call[c].task] = "text")
         /\ call'[c].answer # "archived" /\ call'[c].answer # "rolled_back"
<1>1. call[c] \in CallRecord /\ CallInv(c) /\ call[c].pc = "tell" /\ kind' = kind
  BY DEF CallsInv, Tell
<1>2. call[c].answer = "none"
  BY <1>1 DEF CallInv
<1>3. CASE call[c].doing = "append" /\ kind[call[c].task] = "text"
  <2> DEFINE r == [call[c] EXCEPT !.pc = "open", !.doing = "refs"]
  <2>1. Unlock(c) /\ call' = [call EXCEPT ![c].pc = "open", ![c].doing = "refs"]
    BY <1>3 DEF Tell
  <2>2. call[c].op = "append"
    BY <1>1, <1>3 DEF CallInv, CallRecord, Op
  <2>3. /\ r \in CallRecord /\ r.pc = "open" /\ r.doing = "refs"
        /\ r.op = call[c].op /\ r.task = call[c].task /\ r.prior = call[c].prior
        /\ r.arg = call[c].arg /\ r.raced = call[c].raced /\ r.answer = call[c].answer
    BY <1>1 DEF CallRecord, Pc, Doing, Write, Editing
  <2>4. call' = [call EXCEPT ![c] = r]
    <3>1. call \in [Call -> CallRecord]
      BY DEF CallsInv
    <3> QED
      BY <2>1, <3>1 DEF CallRecord
  <2> HIDE DEF r
  <2>5. r = call'[c] => CallInv(c)'
    BY <1>1, <2>2, <2>3 DEF CallInv, Running, Moving
  <2>6. CallsInv' /\ OthersKeep(c) /\ call'[c] = r
    BY <1>1, <2>3, <2>4, <2>5, TurnsKeep
  <2> QED
    BY <1>1, <1>2, <1>3, <2>1, <2>2, <2>3, <2>6 DEF Same
<1>4. CASE ~(call[c].doing = "append" /\ kind[call[c].task] = "text") /\ AutoArchived(c)
  <2>1. Goto(c, "archive") /\ mutex' = mutex
    BY <1>4 DEF Tell
  <2>2. call[c].doing = "stamp"
    BY <1>1, <1>4 DEF AutoArchived, CallInv
  <2> QED
    BY <1>1, <1>2, <2>1, <2>2, GotoKeeps DEF Same
<1>5. CASE ~(call[c].doing = "append" /\ kind[call[c].task] = "text") /\ ~AutoArchived(c)
  <2>1. Finish(c, "ok") /\ Unlock(c)
    BY <1>5 DEF Tell
  <2>2. call[c].doing # "pick"
    BY <1>1 DEF CallInv
  <2> QED
    BY <1>1, <1>5, <2>1, <2>2, FinishKeeps DEF Same, Answer
<1> QED
  BY <1>3, <1>4, <1>5

\* Resolve reads under its mutex, and every edit of the task that runs is marked.
LEMMA OpenToResolveKeeps ==
  ASSUME TypeInv, NEW c \in Call, OpenToResolve(c)
  PROVE  LET t == call[c].task  f == disk[Active(t)] IN
         /\ CallsInv' /\ OthersKeep(c) /\ Same(c)
         /\ call[c].pc = "open" /\ call[c].doing = "stamp" /\ call[c].op \notin Editing
         /\ call'[c].doing = "stamp" /\ call'[c].prior = call[c].prior
         /\ call[c].op = "pick" => call'[c].arg = call[c].arg
         /\ mutex["resolve"] = None
         /\ \/ call'[c].pc = "done" /\ call'[c].answer # "rolled_back" /\ mutex' = mutex
            \/ /\ call'[c].pc \in {"write", "archive"} /\ call'[c].answer = "none"
               /\ call'[c].body = Edited(c, f) /\ disk[Archived(t)] = Absent /\ f # Absent
               /\ Edited(c, f) \in File
               /\ mutex' = [mutex EXCEPT !["resolve"] = c]
               /\ \A d \in Call : call[d].op \in Editing /\ Running(d) /\ call[d].task = t
                                    => call'[d].raced
<1> DEFINE t == call[c].task  f == disk[Active(t)]  body == Edited(c, f)
           next == IF body # f THEN "write" ELSE IF AutoArchived(c) THEN "archive" ELSE "done"
<1>1. /\ call[c] \in CallRecord /\ CallInv(c) /\ CallsInv
      /\ call[c].pc = "open" /\ call[c].doing = "stamp" /\ kind' = kind
  BY DEF CallsInv, OpenToResolve, TypeInv
<1>2. t \in Task /\ Active(t) \in Path /\ f \in File \cup {Absent}
  <2>1. t \in Task
    BY <1>1 DEF CallInv
  <2>2. Active(t) \in Path
    BY <2>1, PathsAssumption DEF Active
  <2> QED
    BY <2>1, <2>2 DEF TypeInv, CommitTypeOK
<1>3. body \in File \cup {Absent} /\ (f # Absent => body # Absent)
  BY <1>1, <1>2, EditedKeeps DEF CallsInv
<1>4. MutexOf(c) = "resolve"
  BY <1>1 DEF MutexOf
<1>5. call[c].op \notin Editing /\ call[c].answer = "none"
  BY <1>1 DEF CallInv, Editing
<1>6. ASSUME NEW answer \in {"archived", "ok", "not_found"},
             mutex["resolve"] = None, Finish(c, answer), mutex' = mutex
      PROVE  /\ CallsInv' /\ OthersKeep(c) /\ Same(c)
             /\ call'[c].doing = "stamp" /\ call'[c].prior = call[c].prior
             /\ call[c].op = "pick" => call'[c].arg = call[c].arg
             /\ mutex["resolve"] = None
             /\ call'[c].pc = "done" /\ call'[c].answer # "rolled_back" /\ mutex' = mutex
  BY <1>1, <1>6, FinishKeeps DEF Same, Answer
<1>7. CASE AlreadyArchived(t) /\ mutex["resolve"] = None /\ Finish(c, Resolved(c)) /\ mutex' = mutex
  <2>1. Resolved(c) \in {"archived", "ok", "not_found"}
    BY DEF Resolved
  <2> QED
    BY <1>1, <1>5, <1>6, <1>7, <2>1
<1>8. CASE mutex["resolve"] = None /\ Finish(c, "not_found") /\ mutex' = mutex
  BY <1>1, <1>5, <1>6, <1>8
<1>9. CASE mutex["resolve"] = None /\ Finish(c, "ok") /\ mutex' = mutex
  BY <1>1, <1>5, <1>6, <1>9
<1>10. CASE /\ ~AlreadyArchived(t) /\ f # Absent /\ next # "done" /\ Lock(c)
            /\ call' = [d \in Call |->
                 IF d = c THEN [call[c] EXCEPT !.pc = next, !.body = body]
                 ELSE [call[d] EXCEPT !.raced = @ \/ (call[d].op \in Editing /\ Running(d)
                                                     /\ call[d].task = t)]]
  <2>1. next \in {"write", "archive"} /\ body \in File /\ disk[Archived(t)] = Absent
    BY <1>2, <1>3, <1>10 DEF AlreadyArchived
  <2>2. mutex["resolve"] = None /\ mutex' = [mutex EXCEPT !["resolve"] = c]
    BY <1>4, <1>10 DEF Lock
  <2> HIDE DEF next, body, f
  <2>3. ASSUME NEW d \in Call \ {c}
        PROVE  LET x == call[d].op \in Editing /\ Running(d) /\ call[d].task = t IN
               /\ call'[d] \in CallRecord
               /\ call'[d].op = call[d].op /\ call'[d].doing = call[d].doing /\ call'[d].task = call[d].task
               /\ call'[d].pc = call[d].pc /\ call'[d].arg = call[d].arg /\ call'[d].prior = call[d].prior
               /\ call'[d].body = call[d].body /\ call'[d].answer = call[d].answer
               /\ call'[d].raced = (call[d].raced \/ x)
               /\ call[d].pc = "idle" => call'[d] = call[d]
    <3> DEFINE x == (call[d].op \in Editing /\ Running(d) /\ call[d].task = t)
    <3>1. call[d] \in CallRecord /\ x \in BOOLEAN
      BY <1>1 DEF CallsInv
    <3>2. call'[d] = [call[d] EXCEPT !.raced = call[d].raced \/ x]
      BY <1>10
    <3>3. call[d].raced \in BOOLEAN /\ (call[d].raced \/ x) \in BOOLEAN
      BY <3>1 DEF CallRecord
    <3> DEFINE v == (call[d].raced \/ x)
    <3> HIDE DEF x, v
    <3>4. call'[d] = [call[d] EXCEPT !.raced = v] /\ v \in BOOLEAN
      BY <3>2, <3>3 DEF v
    <3>5. /\ call'[d] \in CallRecord
          /\ call'[d].op = call[d].op /\ call'[d].doing = call[d].doing /\ call'[d].task = call[d].task
          /\ call'[d].pc = call[d].pc /\ call'[d].arg = call[d].arg /\ call'[d].prior = call[d].prior
          /\ call'[d].body = call[d].body /\ call'[d].answer = call[d].answer
          /\ call'[d].raced = v
      BY <3>1, <3>4 DEF CallRecord
    <3>6. ASSUME call[d].pc = "idle" PROVE call'[d] = call[d]
      <4>1. v = call[d].raced
        BY <3>6, <3>3 DEF v, x, Running
      <4> QED
        BY <3>1, <3>4, <4>1 DEF CallRecord
    <3> QED
      BY <3>5, <3>6 DEF v, x
  <2>4. /\ call'[c] \in CallRecord /\ call'[c].pc = next /\ call'[c].body = body
        /\ call'[c].op = call[c].op /\ call'[c].doing = call[c].doing /\ call'[c].task = call[c].task
        /\ call'[c].arg = call[c].arg /\ call'[c].prior = call[c].prior
        /\ call'[c].raced = call[c].raced /\ call'[c].answer = call[c].answer
    <3>1. call'[c] = [call[c] EXCEPT !.pc = next, !.body = body]
      BY <1>10
    <3> QED
      BY <1>1, <2>1, <3>1 DEF CallRecord, Pc
  <2>5. call' \in [Call -> CallRecord]
    <3>1. /\ call' = [d \in Call |-> call'[d]]
          /\ \A d \in Call : call'[d] \in CallRecord
      BY <1>10, <2>3, <2>4
    <3> QED
      BY <3>1
  <2>6. OthersKeep(c)
    BY <2>3 DEF OthersKeep
  <2>7. CallInv(c)'
    BY <1>1, <1>5, <2>1, <2>4, AbsenceAssumption DEF CallInv, Running, Moving
  <2>8. ASSUME NEW d \in Call \ {c} PROVE CallInv(d)'
    <3>1. CallInv(d)
      BY <1>1 DEF CallsInv
    <3> QED
      BY <1>1, <2>3, <3>1 DEF CallInv, Running
  <2>9. \A d \in Call : call[d].op \in Editing /\ Running(d) /\ call[d].task = t => call'[d].raced
    BY <1>5, <2>3
  <2> QED
    BY <1>1, <1>5, <1>10, <2>1, <2>2, <2>4, <2>5, <2>6, <2>7, <2>8, <2>9 DEF CallsInv, Same, body, f
<1> QED
  BY <1>7, <1>8, <1>9, <1>10 DEF OpenToResolve

\* The rename of the active file to the archive.
Relocated(c) ==
  LET t == call[c].task IN
  disk' = [disk EXCEPT ![Archived(t)] = disk[Active(t)], ![Active(t)] = Absent]

\* The steps of the move to the archive.
LEMMA MoveKeeps ==
  ASSUME CallsInv, NEW c \in Call, Archive(c) \/ Unlink(c) \/ TellActive(c) \/ TellArchive(c)
  PROVE  /\ CallsInv' /\ OthersKeep(c) /\ Same(c)
         /\ call[c].pc \in Moving /\ call[c].doing = "stamp" /\ call'[c].doing = "stamp"
         /\ call[c].op \notin Editing /\ call'[c].prior = call[c].prior
         /\ call[c].op = "pick" => call'[c].arg = call[c].arg
         /\ Archive(c) => \/ call'[c].pc = "unlink" /\ mutex' = mutex /\ Relocated(c)
                          \/ /\ call'[c].pc = "done" /\ call'[c].answer = "error" /\ Unlock(c)
                             /\ disk' = disk
         /\ Unlink(c) => \/ /\ call'[c].pc = "tell_active" /\ mutex' = mutex
                            /\ disk' = [disk EXCEPT ![Active(call[c].task)] = Absent]
                         \/ /\ call'[c].pc = "done" /\ call'[c].answer = "rolled_back" /\ Unlock(c)
                            /\ disk[Active(call[c].task)] # Absent
                            /\ disk' = [disk EXCEPT ![Archived(call[c].task)] = Absent]
         /\ TellActive(c) => call'[c].pc = "tell_archive" /\ mutex' = mutex
         /\ TellArchive(c) => call'[c].pc = "done" /\ call'[c].answer = "archived" /\ Unlock(c)
<1>1. call[c] \in CallRecord /\ CallInv(c) /\ kind' = kind
  BY DEF CallsInv, Archive, Unlink, TellActive, TellArchive, taskVars
<1>2. call[c].pc \in Moving
  BY DEF Archive, Unlink, TellActive, TellArchive, Moving
<1>3. call[c].doing = "stamp" /\ call[c].op \notin Editing
  BY <1>1, <1>2 DEF CallInv, Moving, Editing
<1>4. CASE Archive(c)
  <2>1. call[c].pc = "archive"
    BY <1>4 DEF Archive
  <2>2. CASE Goto(c, "unlink") /\ mutex' = mutex /\ Relocated(c)
    BY <1>1, <1>2, <1>3, <2>1, <2>2, GotoKeeps DEF Same, Unlink, TellActive, TellArchive
  <2>3. CASE Finish(c, "error") /\ Unlock(c) /\ disk' = disk
    BY <1>1, <1>2, <1>3, <2>1, <2>3, FinishKeeps DEF Same, Answer, Unlink, TellActive, TellArchive
  <2> QED
    BY <1>4, <2>2, <2>3 DEF Archive, Relocated
<1>5. CASE Unlink(c)
  <2>1. CASE /\ disk' = [disk EXCEPT ![Active(call[c].task)] = Absent]
             /\ Goto(c, "tell_active") /\ mutex' = mutex
    <3>1. call[c].pc = "unlink"
      BY <1>5 DEF Unlink
    <3> QED
      BY <1>1, <1>2, <1>3, <2>1, <3>1, GotoKeeps DEF Same, Archive, TellActive, TellArchive
  <2>2. CASE /\ disk[Active(call[c].task)] # Absent
             /\ disk' = [disk EXCEPT ![Archived(call[c].task)] = Absent]
             /\ Finish(c, "rolled_back") /\ Unlock(c)
    <3>1. call[c].pc = "unlink"
      BY <1>5 DEF Unlink
    <3> QED
      BY <1>1, <1>2, <1>3, <2>2, <3>1, FinishKeeps DEF Same, Answer, Archive, TellActive, TellArchive
  <2> QED
    BY <1>5, <2>1, <2>2 DEF Unlink
<1>6. CASE TellActive(c)
  <2>1. call[c].pc = "tell_active" /\ Goto(c, "tell_archive") /\ mutex' = mutex
    BY <1>6 DEF TellActive, taskVars
  <2> QED
    BY <1>1, <1>2, <1>3, <2>1, GotoKeeps DEF Same, Unlink, Archive, TellArchive
<1>7. CASE TellArchive(c)
  <2>1. call[c].pc = "tell_archive" /\ Finish(c, "archived") /\ Unlock(c)
    BY <1>7 DEF TellArchive
  <2> QED
    BY <1>1, <1>2, <1>3, <2>1, FinishKeeps DEF Same, Answer, Unlink, Archive, TellActive
<1> QED
  BY <1>4, <1>5, <1>6, <1>7

-----------------------------------------------------------------------------
(* The committer.                                                            *)

LEMMA GitCommitTypes ==
  ASSUME CommitTyped, NEW paths \in SUBSET Path, GitCommit(paths)
  PROVE  /\ {index', head'} \subseteq [Path -> File \cup {Absent}]
         /\ missed' \subseteq Path /\ faults' \in 0 .. MaxFaults
<1>1. Staged(paths) \in [Path -> File \cup {Absent}]
  BY DEF Staged, CommitTyped, CommitTypeOK
<1>2. MaxFaults \in Nat
  BY BoundAssumption
<1>3. GitFault => faults' \in 0 .. MaxFaults
  BY <1>2 DEF GitFault, CommitTyped, CommitTypeOK
<1> QED
  BY <1>1, <1>3 DEF GitCommit, CommitTyped, CommitTypeOK

LEMMA OnWriteTypes ==
  ASSUME CommitTyped, NEW p \in Path, OnWrite(p), disk' \in [Path -> File \cup {Absent}]
  PROVE  CommitTyped'
<1>1. CASE debounced
  BY <1>1 DEF OnWrite, AppendPending, CommitTyped, CommitTypeOK, batch, git
<1>2. CASE ~debounced
  <2>1. GitCommit({p}) /\ UNCHANGED <<batch, debounced>>
    BY <1>2 DEF OnWrite
  <2>2. {index', head'} \subseteq [Path -> File \cup {Absent}] /\ missed' \subseteq Path
        /\ faults' \in 0 .. MaxFaults
    BY <2>1, GitCommitTypes
  <2> QED
    BY <2>1, <2>2 DEF batch, CommitTyped, CommitTypeOK
<1> QED
  BY <1>1, <1>2

\* The drained batches, with and without the one that is committed.
LEMMA DrainIs ==
  ASSUME CommitTyped, flushing' = Drain
  PROVE  /\ flushing' \in Seq(SUBSET Path)
         /\ \A p \in Path : (\E i \in DOMAIN flushing' : p \in flushing'[i]) <=> Batched(p)
<1>1. pending \in SUBSET Path /\ flushing \in Seq(SUBSET Path)
  BY DEF CommitTyped, CommitTypeOK
<1>2. CASE pending = {}
  BY <1>1, <1>2 DEF Drain, Batched
<1>3. CASE pending # {}
  <2>1. flushing' = Append(flushing, pending)
    BY <1>3 DEF Drain
  <2>2. /\ Append(flushing, pending) \in Seq(SUBSET Path)
        /\ Len(flushing) \in Nat /\ DOMAIN flushing = 1 .. Len(flushing)
        /\ DOMAIN Append(flushing, pending) = 1 .. Len(flushing) + 1
        /\ \A i \in 1 .. Len(flushing) : Append(flushing, pending)[i] = flushing[i]
        /\ Append(flushing, pending)[Len(flushing) + 1] = pending
    BY <1>1
  <2>3. /\ Len(flushing) + 1 \in 1 .. Len(flushing) + 1
        /\ \A i \in 1 .. Len(flushing) : i \in 1 .. Len(flushing) + 1
        /\ \A i \in 1 .. Len(flushing) + 1 : i = Len(flushing) + 1 \/ i \in 1 .. Len(flushing)
    BY <2>2
  <2> QED
    BY <2>1, <2>2, <2>3 DEF Batched
<1> QED
  BY <1>2, <1>3

LEMMA DoneBatch ==
  ASSUME CommitTyped, NEW k \in DOMAIN flushing, flushing' = RemoveAt(flushing, k)
  PROVE  /\ flushing' \in Seq(SUBSET Path) /\ flushing[k] \in SUBSET Path
         /\ \A i \in DOMAIN flushing : i # k => \E j \in DOMAIN flushing' : flushing'[j] = flushing[i]
         /\ \A j \in DOMAIN flushing' : \E i \in DOMAIN flushing : flushing'[j] = flushing[i]
<1>1. /\ flushing \in Seq(SUBSET Path) /\ DOMAIN flushing = 1 .. Len(flushing) /\ Len(flushing) \in Nat
      /\ k \in 1 .. Len(flushing) /\ \A i \in DOMAIN flushing : flushing[i] \in SUBSET Path
  BY DEF CommitTyped, CommitTypeOK
<1>2. /\ flushing' \in Seq(SUBSET Path) /\ Len(flushing') = Len(flushing) - 1
      /\ \A i \in 1 .. (Len(flushing) - 1) : flushing'[i] = IF i < k THEN flushing[i] ELSE flushing[i + 1]
  BY <1>1, RemoveAtProperties
<1>3. DOMAIN flushing' = 1 .. (Len(flushing) - 1)
  BY <1>1, <1>2
<1>4. ASSUME NEW i \in DOMAIN flushing, i # k
      PROVE  \E j \in DOMAIN flushing' : flushing'[j] = flushing[i]
  <2>1. CASE i < k
    BY <1>1, <1>2, <1>3, <2>1
  <2>2. CASE ~(i < k)
    <3>1. i - 1 \in 1 .. (Len(flushing) - 1) /\ ~(i - 1 < k) /\ (i - 1) + 1 = i
      BY <1>1, <1>4, <2>2
    <3> QED
      BY <1>2, <1>3, <3>1
  <2> QED
    BY <2>1, <2>2
<1>5. ASSUME NEW j \in DOMAIN flushing'
      PROVE  \E i \in DOMAIN flushing : flushing'[j] = flushing[i]
  <2>1. j \in DOMAIN flushing /\ j + 1 \in DOMAIN flushing
    BY <1>1, <1>3
  <2> QED
    BY <1>2, <1>3, <2>1
<1> QED
  BY <1>1, <1>2, <1>4, <1>5

LEMMA CommitterTypes ==
  ASSUME CommitTyped, CommitterStep
  PROVE  CommitTyped' /\ disk' = disk
<1>1. CASE FireFlush
  BY <1>1, DrainIs DEF FireFlush, CommitTyped, CommitTypeOK, git
<1>2. CASE Close
  BY <1>2, DrainIs DEF Close, CommitTyped, CommitTypeOK, git
<1>3. CASE CommitBatch
  <2>1. PICK k \in DOMAIN flushing :
          /\ GitCommit(flushing[k]) /\ flushing' = RemoveAt(flushing, k)
          /\ UNCHANGED <<disk, pending, flushTimer, closed, debounced>>
    BY <1>3 DEF CommitBatch
  <2>2. flushing' \in Seq(SUBSET Path) /\ flushing[k] \in SUBSET Path
    BY <2>1, DoneBatch
  <2>3. {index', head'} \subseteq [Path -> File \cup {Absent}] /\ missed' \subseteq Path
        /\ faults' \in 0 .. MaxFaults
    BY <2>1, <2>2, GitCommitTypes
  <2> QED
    BY <2>1, <2>2, <2>3 DEF CommitTyped, CommitTypeOK
<1> QED
  BY <1>1, <1>2, <1>3 DEF CommitterStep

LEMMA CallStepKeeps ==
  ASSUME TypeInv, NEW c \in Call, CallStep(c)
  PROVE  CallsInv' /\ OthersKeep(c) /\ Same(c) /\ kind' = kind /\ EdgesInv' /\ call[c].pc # "idle"
<1>1. CallsInv /\ EdgesInv /\ \A t \in Task : edges[t] \in Seq(Option)
  BY DEF CallsInv, TypeInv, EdgesInv
<1>2. kind' = kind
  BY DEF CallStep, Ingest, WriteEdge, OpenToWrite, OpenToResolve, WriteTemp, RenameTemp, Tell,
         Archive, Unlink, TellActive, TellArchive, taskVars
<1>3. CASE WriteEdge(c)
  BY <1>1, <1>2, <1>3, WriteEdgeKeeps DEF WriteEdge
<1>4. CASE ~WriteEdge(c)
  <2>1. edges' = edges
    BY <1>4 DEF CallStep, Ingest, OpenToWrite, OpenToResolve, WriteTemp, RenameTemp, Tell,
         Archive, Unlink, TellActive, TellArchive, taskVars
  <2>2. EdgesInv'
    BY <1>1, <2>1 DEF EdgesInv
  <2>3. call[c].pc # "idle"
    BY <1>4 DEF CallStep, Ingest, OpenToWrite, OpenToResolve, WriteTemp, RenameTemp, Tell,
         Archive, Unlink, TellActive, TellArchive
  <2>4. CASE Ingest(c)
    BY <1>1, <1>2, <2>2, <2>3, <2>4, IngestKeeps
  <2>5. CASE OpenToWrite(c)
    BY <1>1, <1>2, <2>2, <2>3, <2>5, OpenToWriteKeeps
  <2>6. CASE OpenToResolve(c)
    BY <1>1, <1>2, <2>2, <2>3, <2>6, OpenToResolveKeeps
  <2>7. CASE WriteTemp(c)
    BY <1>1, <1>2, <2>2, <2>3, <2>7, WriteTempKeeps
  <2>8. CASE RenameTemp(c)
    BY <1>1, <1>2, <2>2, <2>3, <2>8, RenameTempKeeps
  <2>9. CASE Tell(c)
    BY <1>1, <1>2, <2>2, <2>3, <2>9, TellKeeps
  <2>10. CASE Archive(c) \/ Unlink(c) \/ TellActive(c) \/ TellArchive(c)
    BY <1>1, <1>2, <2>2, <2>3, <2>10, MoveKeeps
  <2> QED
    BY <1>4, <2>4, <2>5, <2>6, <2>7, <2>8, <2>9, <2>10 DEF CallStep
<1> QED
  BY <1>3, <1>4

\* The paths of a task.
LEMMA PathsOf ==
  ASSUME NEW t \in Task
  PROVE  /\ Active(t) \in Path /\ Archived(t) \in Path
         /\ \A s \in Task : /\ Active(t) # Archived(s)
                            /\ (Active(t) = Active(s) => t = s)
                            /\ (Archived(t) = Archived(s) => t = s)
BY PathsAssumption DEF Active, Archived

LEMMA TaskOf ==
  ASSUME CallsInv, NEW c \in Call, call[c].pc # "idle"
  PROVE  call[c].task \in Task
BY DEF CallsInv, CallInv

\* What a call does to the files, the temporary files and the committer.
LEMMA CallStepFiles ==
  ASSUME TypeInv, NEW c \in Call, CallStep(c)
  PROVE  /\ disk' \in [Path -> File \cup {Absent}] /\ tmp' \in [Task -> File \cup {Absent}]
         /\ CommitTyped'
<1> DEFINE t == call[c].task
<1>1. /\ CallsInv /\ CommitTyped /\ disk \in [Path -> File \cup {Absent}]
      /\ tmp \in [Task -> File \cup {Absent}] /\ faults \in 0 .. MaxFaults /\ MaxFaults \in Nat
  BY BoundAssumption DEF CallsInv, TypeInv, CommitTyped, CommitTypeOK
<1>2. call[c].pc # "idle"
  BY CallStepKeeps
<1>3. t \in Task /\ Active(t) \in Path /\ Archived(t) \in Path
  BY <1>1, <1>2, TaskOf, PathsOf
<1>4. CASE WriteTemp(c)
  <2>1. call[c].body \in File /\ tmp' = [tmp EXCEPT ![t] = call[c].body]
    BY <1>1, <1>4, WriteTempKeeps DEF WriteTemp
  <2> QED
    BY <1>1, <1>3, <1>4, <2>1 DEF WriteTemp, commitVars, git, batch, CommitTyped, CommitTypeOK
<1>5. CASE RenameTemp(c)
  <2>1. disk' \in [Path -> File \cup {Absent}] /\ tmp' \in [Task -> File \cup {Absent}]
    BY <1>1, <1>3, <1>5 DEF RenameTemp
  <2> QED
    BY <1>1, <1>5, <2>1 DEF RenameTemp, commitVars, git, batch, CommitTyped, CommitTypeOK
<1>6. CASE Archive(c)
  <2>1. disk' \in [Path -> File \cup {Absent}] /\ tmp' = tmp /\ faults' \in 0 .. MaxFaults
    BY <1>1, <1>3, <1>6 DEF Archive, GitFault
  <2> QED
    BY <1>1, <1>6, <2>1 DEF Archive, batch, CommitTyped, CommitTypeOK
<1>7. CASE Unlink(c)
  <2>1. disk' \in [Path -> File \cup {Absent}] /\ tmp' = tmp /\ faults' \in 0 .. MaxFaults
    BY <1>1, <1>3, <1>7 DEF Unlink, GitFault
  <2> QED
    BY <1>1, <1>7, <2>1 DEF Unlink, batch, CommitTyped, CommitTypeOK
<1>8. CASE Tell(c) \/ TellActive(c) \/ TellArchive(c)
  <2>1. disk' = disk /\ tmp' = tmp /\ (OnWrite(Active(t)) \/ OnWrite(Archived(t)))
    BY <1>8 DEF Tell, TellActive, TellArchive, taskVars
  <2> QED
    BY <1>1, <1>3, <2>1, OnWriteTypes
<1>9. CASE Ingest(c) \/ WriteEdge(c) \/ OpenToWrite(c) \/ OpenToResolve(c)
  <2>1. UNCHANGED <<disk, commitVars, tmp>>
    BY <1>9 DEF Ingest, WriteEdge, OpenToWrite, OpenToResolve, taskVars
  <2> QED
    BY <1>1, <2>1 DEF commitVars, git, batch, CommitTyped, CommitTypeOK
<1> QED
  BY <1>4, <1>5, <1>6, <1>7, <1>8, <1>9 DEF CallStep

-----------------------------------------------------------------------------
(* Who holds a mutex.                                                        *)

MutexTyped == mutex \in [{"file", "err", "resolve"} -> Call \cup {None}]

LEMMA MutexOfIs ==
  ASSUME NEW c \in Call PROVE MutexOf(c) \in {"file", "err", "resolve"}
BY DEF MutexOf

\* A step takes the mutex of its call, gives it back, or does neither.
LEMMA MutexTurn ==
  ASSUME MutexTyped, MutexInv, NEW c \in Call, OthersKeep(c), kind' = kind,
         \/ /\ mutex' = mutex /\ (call'[c].pc \in Critical <=> call[c].pc \in Critical)
            /\ call[c].pc \in Critical => MutexOf(c)' = MutexOf(c)
         \/ /\ mutex[MutexOf(c)] = None /\ mutex' = [mutex EXCEPT ![MutexOf(c)] = c]
            /\ call'[c].pc \in Critical /\ call[c].pc \notin Critical /\ MutexOf(c)' = MutexOf(c)
         \/ /\ call[c].pc \in Critical /\ Unlock(c) /\ call'[c].pc \notin Critical
  PROVE  MutexTyped' /\ MutexInv'
<1>1. \A d \in Call \ {c} : MutexOf(d)' = MutexOf(d) /\ call'[d].pc = call[d].pc
  BY DEF OthersKeep, MutexOf
<1>2. \A d \in Call : MutexOf(d) \in {"file", "err", "resolve"}
  BY MutexOfIs
<1>3. DOMAIN mutex = {"file", "err", "resolve"} /\ None \notin Call
  BY AbsenceAssumption DEF MutexTyped
<1>4. /\ \A d \in Call : call[d].pc \in Critical => mutex[MutexOf(d)] = d
      /\ \A m \in DOMAIN mutex, d \in Call :
           mutex[m] = d => call[d].pc \in Critical /\ MutexOf(d) = m
  BY DEF MutexInv
<1>5. CASE /\ mutex' = mutex /\ (call'[c].pc \in Critical <=> call[c].pc \in Critical)
           /\ call[c].pc \in Critical => MutexOf(c)' = MutexOf(c)
  <2>1. \A d \in Call : call'[d].pc \in Critical => mutex'[MutexOf(d)'] = d
    BY <1>1, <1>4, <1>5
  <2>2. ASSUME NEW m \in DOMAIN mutex', NEW d \in Call, mutex'[m] = d
        PROVE  call'[d].pc \in Critical /\ MutexOf(d)' = m
    <3>1. m \in DOMAIN mutex /\ call[d].pc \in Critical /\ MutexOf(d) = m
      BY <1>4, <1>5, <2>2
    <3> QED
      BY <1>1, <1>5, <3>1
  <2> QED
    BY <1>5, <2>1, <2>2 DEF MutexInv, MutexTyped
<1>6. CASE /\ mutex[MutexOf(c)] = None /\ mutex' = [mutex EXCEPT ![MutexOf(c)] = c]
           /\ call'[c].pc \in Critical /\ call[c].pc \notin Critical /\ MutexOf(c)' = MutexOf(c)
  <2>1. /\ MutexTyped' /\ mutex'[MutexOf(c)] = c /\ DOMAIN mutex' = DOMAIN mutex
        /\ \A m \in DOMAIN mutex \ {MutexOf(c)} : mutex'[m] = mutex[m]
    BY <1>2, <1>3, <1>6 DEF MutexTyped
  <2>2. ASSUME NEW d \in Call, call'[d].pc \in Critical PROVE mutex'[MutexOf(d)'] = d
    <3>1. CASE d = c
      BY <1>6, <2>1, <3>1
    <3>2. CASE d # c
      BY <1>1, <1>2, <1>3, <1>4, <1>6, <2>1, <2>2, <3>2
    <3> QED
      BY <3>1, <3>2
  <2>3. ASSUME NEW m \in DOMAIN mutex', NEW d \in Call, mutex'[m] = d
        PROVE  call'[d].pc \in Critical /\ MutexOf(d)' = m
    <3>1. CASE m = MutexOf(c)
      BY <1>6, <2>1, <2>3, <3>1
    <3>2. CASE m # MutexOf(c)
      <4>1. m \in DOMAIN mutex /\ mutex[m] = d
        BY <2>1, <2>3, <3>2
      <4>2. d # c /\ call[d].pc \in Critical /\ MutexOf(d) = m
        BY <1>4, <1>6, <4>1
      <4> QED
        BY <1>1, <4>2
    <3> QED
      BY <3>1, <3>2
  <2> QED
    BY <2>1, <2>2, <2>3 DEF MutexInv
<1>7. CASE call[c].pc \in Critical /\ Unlock(c) /\ call'[c].pc \notin Critical
  <2>1. /\ MutexTyped' /\ mutex'[MutexOf(c)] = None /\ DOMAIN mutex' = DOMAIN mutex
        /\ \A m \in DOMAIN mutex \ {MutexOf(c)} : mutex'[m] = mutex[m]
    BY <1>2, <1>3, <1>7 DEF MutexTyped, Unlock
  <2>2. mutex[MutexOf(c)] = c
    BY <1>4, <1>7
  <2>3. ASSUME NEW d \in Call, call'[d].pc \in Critical PROVE mutex'[MutexOf(d)'] = d
    <3>1. d # c /\ MutexOf(d)' = MutexOf(d) /\ mutex[MutexOf(d)] = d
      BY <1>1, <1>4, <1>7, <2>3
    <3> QED
      BY <1>2, <1>3, <2>1, <2>2, <3>1
  <2>4. ASSUME NEW m \in DOMAIN mutex', NEW d \in Call, mutex'[m] = d
        PROVE  call'[d].pc \in Critical /\ MutexOf(d)' = m
    <3>1. m # MutexOf(c) /\ m \in DOMAIN mutex /\ mutex[m] = d
      BY <1>3, <2>1, <2>4
    <3>2. d # c /\ call[d].pc \in Critical /\ MutexOf(d) = m
      BY <1>4, <3>1
    <3> QED
      BY <1>1, <3>2
  <2> QED
    BY <2>1, <2>3, <2>4 DEF MutexInv
<1> QED
  BY <1>5, <1>6, <1>7

LEMMA CallStepMutex ==
  ASSUME TypeInv, MutexInv, NEW c \in Call, CallStep(c)
  PROVE  MutexTyped' /\ MutexInv'
<1>1. CallsInv /\ EdgesInv /\ MutexTyped /\ \A t \in Task : edges[t] \in Seq(Option)
  BY DEF CallsInv, TypeInv, EdgesInv, MutexTyped
<1>2. OthersKeep(c) /\ Same(c) /\ kind' = kind
  BY CallStepKeeps
<1>3. CASE Ingest(c)
  BY <1>1, <1>2, <1>3, IngestKeeps, MutexTurn DEF Ingest, taskVars, Critical
<1>4. CASE WriteEdge(c)
  BY <1>1, <1>2, <1>4, WriteEdgeKeeps, MutexTurn DEF WriteEdge, Critical
<1>5. CASE OpenToWrite(c)
  <2>1. MutexOf(c)' = MutexOf(c)
    BY <1>2, <1>5, OpenToWriteKeeps DEF MutexOf, Same
  <2> QED
    BY <1>1, <1>2, <1>5, <2>1, OpenToWriteKeeps, MutexTurn DEF Critical
<1>6. CASE OpenToResolve(c)
  <2>1. MutexOf(c)' = MutexOf(c) /\ MutexOf(c) = "resolve"
    BY <1>2, <1>6, OpenToResolveKeeps DEF MutexOf, Same
  <2> QED
    BY <1>1, <1>2, <1>6, <2>1, OpenToResolveKeeps, MutexTurn DEF Critical
<1>7. CASE WriteTemp(c)
  <2>1. MutexOf(c)' = MutexOf(c)
    BY <1>1, <1>2, <1>7, WriteTempKeeps DEF MutexOf, Same
  <2> QED
    BY <1>1, <1>2, <1>7, <2>1, WriteTempKeeps, MutexTurn DEF Critical, WriteTemp
<1>8. CASE RenameTemp(c)
  <2>1. MutexOf(c)' = MutexOf(c)
    BY <1>1, <1>2, <1>8, RenameTempKeeps DEF MutexOf, Same
  <2> QED
    BY <1>1, <1>2, <1>8, <2>1, RenameTempKeeps, MutexTurn DEF Critical, RenameTemp
<1>9. CASE Tell(c)
  <2>1. MutexOf(c)' = MutexOf(c) \/ call'[c].pc # "archive"
    BY <1>1, <1>2, <1>9, TellKeeps DEF MutexOf, Same
  <2> QED
    BY <1>1, <1>2, <1>9, <2>1, TellKeeps, MutexTurn DEF Critical
<1>10. CASE Archive(c) \/ Unlink(c) \/ TellActive(c) \/ TellArchive(c)
  <2>1. MutexOf(c)' = MutexOf(c)
    BY <1>1, <1>2, <1>10, MoveKeeps DEF MutexOf, Same
  <2> QED
    BY <1>1, <1>2, <1>10, <2>1, MoveKeeps, MutexTurn DEF Critical, Moving
<1> QED
  BY <1>3, <1>4, <1>5, <1>6, <1>7, <1>8, <1>9, <1>10 DEF CallStep

\* Starts and the committer leave the mutexes; a start is of a call that holds none.
LEMMA NextTypes ==
  ASSUME TypeInv, MutexInv, Next
  PROVE  TypeInv' /\ MutexInv'
<1>1. /\ CallsInv /\ EdgesInv /\ MutexTyped /\ CommitTyped /\ kind \in [Task -> Kind]
      /\ disk \in [Path -> File \cup {Absent}] /\ tmp \in [Task -> File \cup {Absent}]
  BY DEF CallsInv, TypeInv, EdgesInv, MutexTyped, CommitTyped, CommitTypeOK
<1>2. ASSUME CallsInv', EdgesInv', MutexTyped', CommitTyped', kind' = kind,
             tmp' \in [Task -> File \cup {Absent}]
      PROVE  TypeInv'
  BY <1>1, <1>2 DEF CallsInv, TypeInv, EdgesInv, MutexTyped, CommitTyped
<1>3. CASE Starting
  <2>1. PICK c \in Call, r \in CallRecord :
           /\ call[c].pc = "idle" /\ Started(r) /\ call' = [call EXCEPT ![c] = r]
           /\ UNCHANGED <<disk, commitVars, taskVars>>
    BY <1>1, <1>3, StartingBegins
  <2>2. CallsInv' /\ OthersKeep(c) /\ call'[c] = r
    BY <1>1, <2>1, StartKeeps DEF taskVars
  <2>3. MutexTyped' /\ MutexInv'
    BY <1>1, <2>1, <2>2, MutexTurn DEF taskVars, Critical, Started
  <2>4. EdgesInv' /\ CommitTyped' /\ kind' = kind /\ tmp' = tmp
    BY <1>1, <2>1 DEF taskVars, commitVars, git, batch, EdgesInv, CommitTyped, CommitTypeOK
  <2> QED
    BY <1>1, <1>2, <2>2, <2>3, <2>4
<1>4. CASE \E c \in Call : CallStep(c)
  <2>1. PICK c \in Call : CallStep(c)
    BY <1>4
  <2> QED
    BY <1>2, <2>1, CallStepKeeps, CallStepFiles, CallStepMutex
<1>5. CASE CommitterStep /\ UNCHANGED <<taskVars, call>>
  <2>1. CommitTyped' /\ disk' = disk
    BY <1>1, <1>5, CommitterTypes
  <2>2. CallsInv' /\ EdgesInv' /\ MutexTyped' /\ MutexInv' /\ kind' = kind /\ tmp' = tmp
    <3>1. UNCHANGED <<kind, tmp, mutex, edges, call>>
      BY <1>5 DEF taskVars
    <3> QED
      BY <1>1, <3>1 DEF CallsInv, CallInv, Running, EdgesInv, MutexTyped, MutexInv, MutexOf
  <2> QED
    BY <1>1, <1>2, <2>1, <2>2
<1> QED
  BY <1>3, <1>4, <1>5 DEF Next, Starting

-----------------------------------------------------------------------------
(* A resolve, the temporary file, and the mark of a race.                    *)

\* Two writers of one mutex, or of one task but for a resolve, are one call.
LEMMA Alone ==
  ASSUME MutexInv, NEW c \in Call, NEW d \in Call,
         call[c].pc \in Critical, call[d].pc \in Critical, MutexOf(c) = MutexOf(d)
  PROVE  c = d
BY DEF MutexInv

LEMMA AloneAtTask ==
  ASSUME MutexInv, NEW c \in Call, NEW d \in Call,
         call[c].pc \in Critical, call[d].pc \in Critical,
         \/ call[c].doing = "stamp" /\ call[d].doing = "stamp"
         \/ call[c].doing # "stamp" /\ call[d].doing # "stamp" /\ call[c].task = call[d].task
  PROVE  c = d
BY Alone DEF MutexOf

\* What a call's step does to the working tree.
LEMMA DiskSteps ==
  ASSUME TypeInv, NEW c \in Call, CallStep(c)
  PROVE  LET t == call[c].task IN
         /\ t \in Task /\ Active(t) \in Path /\ Archived(t) \in Path
         /\ \/ disk' = disk
            \/ RenameTemp(c) /\ tmp[t] # Absent /\ disk' = [disk EXCEPT ![Active(t)] = tmp[t]]
            \/ Archive(c) /\ disk' = [disk EXCEPT ![Archived(t)] = disk[Active(t)], ![Active(t)] = Absent]
            \/ Unlink(c) /\ disk' = [disk EXCEPT ![Active(t)] = Absent]
            \/ /\ Unlink(c) /\ disk[Active(t)] # Absent
               /\ disk' = [disk EXCEPT ![Archived(t)] = Absent]
<1>1. call[c].task \in Task
  BY CallStepKeeps, TaskOf DEF TypeInv, CallsInv
<1>2. CASE RenameTemp(c)
  BY <1>1, <1>2, PathsOf DEF RenameTemp
<1>3. CASE Archive(c)
  BY <1>1, <1>3, PathsOf DEF Archive
<1>4. CASE Unlink(c)
  BY <1>1, <1>4, PathsOf DEF Unlink
<1>5. CASE ~RenameTemp(c) /\ ~Archive(c) /\ ~Unlink(c)
  BY <1>1, <1>5, PathsOf DEF CallStep, Ingest, WriteEdge, OpenToWrite, OpenToResolve, WriteTemp, Tell,
     TellActive, TellArchive
<1> QED
  BY <1>2, <1>3, <1>4, <1>5

\* The task writers' files hold what a resolve under way has found or made.
LEMMA CallStepResolve ==
  ASSUME TypeInv, MutexInv, ResolveInv, NEW c \in Call, CallStep(c)
  PROVE  ResolveInv'
<1> DEFINE t == call[c].task
           Good(d) == /\ call'[d].pc \in {"write", "rename", "tell", "archive"} =>
                           disk'[Archived(call'[d].task)] = Absent /\ disk'[Active(call'[d].task)] # Absent
                      /\ call'[d].pc \in {"unlink", "tell_active", "tell_archive"} =>
                           disk'[Archived(call'[d].task)] # Absent
           Stays(d) == /\ disk' = disk /\ call[d].doing = "stamp" /\ call[d].pc \in Critical
                       /\ (call'[d].pc \in {"write", "rename", "tell", "archive"}
                            <=> call[d].pc \in {"write", "rename", "tell", "archive"})
<1>1. /\ CallsInv /\ disk \in [Path -> File \cup {Absent}]
      /\ \A u \in Task : edges[u] \in Seq(Option)
  BY DEF CallsInv, TypeInv, CommitTypeOK
<1>2. OthersKeep(c) /\ Same(c) /\ CallsInv' /\ t \in Task
  BY CallStepKeeps, DiskSteps
<1>3. ASSUME NEW d \in Call, call'[d].doing = "stamp", call'[d].pc \in Critical,
             d # c \/ Stays(d), disk' = disk \/ RenameTemp(c)
      PROVE  Good(d)
  <2> DEFINE s == call[d].task
  <2>1. /\ call'[d].task = s /\ call[d].doing = "stamp" /\ call[d].pc \in Critical
        /\ (call'[d].pc \in {"write", "rename", "tell", "archive"}
                          <=> call[d].pc \in {"write", "rename", "tell", "archive"})
    BY <1>2, <1>3 DEF OthersKeep, Same
  <2>2. s \in Task
    BY <1>1, <2>1, TaskOf DEF Critical
  <2>3. /\ call[d].pc \in {"write", "rename", "tell", "archive"} =>
             disk[Archived(s)] = Absent /\ disk[Active(s)] # Absent
        /\ call[d].pc \notin {"write", "rename", "tell", "archive"} => disk[Archived(s)] # Absent
    BY <2>1 DEF ResolveInv, Critical
  <2>4. disk'[Archived(s)] = disk[Archived(s)] /\ (disk[Active(s)] # Absent => disk'[Active(s)] # Absent)
    <3>1. CASE disk' = disk
      BY <3>1
    <3>2. CASE disk' # disk
      <4>1. tmp[t] # Absent /\ disk' = [disk EXCEPT ![Active(t)] = tmp[t]]
        BY <1>3, <3>2 DEF RenameTemp
      <4> QED
        BY <1>1, <1>2, <2>2, <4>1, PathsOf
    <3> QED
      BY <3>1, <3>2
  <2> QED
    BY <2>1, <2>3, <2>4
<1>a. ASSUME \A d \in Call : call'[d].doing = "stamp" /\ call'[d].pc \in Critical => Good(d)
      PROVE  ResolveInv'
  BY <1>a DEF ResolveInv, Critical
<1>b. ASSUME disk' = disk \/ RenameTemp(c),
             call'[c].doing = "stamp" /\ call'[c].pc \in Critical => Good(c) \/ Stays(c)
      PROVE  ResolveInv'
  <2> HIDE DEF Good, Stays
  <2> QED
    BY <1>3, <1>a, <1>b
<1>4. CASE Ingest(c) \/ WriteEdge(c)
  <2>1. call'[c].pc \notin Critical /\ disk' = disk
    BY <1>1, <1>4, IngestKeeps, WriteEdgeKeeps DEF TypeInv, EdgesInv, Critical, Ingest, WriteEdge
  <2> QED
    BY <1>b, <2>1 DEF Critical
<1>5. CASE OpenToWrite(c)
  <2>1. call'[c].doing # "stamp" /\ disk' = disk
    BY <1>5, OpenToWriteKeeps DEF Write, Editing, OpenToWrite
  <2> QED
    BY <1>b, <2>1 DEF Critical
<1>6. CASE OpenToResolve(c)
  <2>1. /\ disk' = disk /\ call'[c].task = t
        /\ call'[c].pc \in Critical => /\ call'[c].pc \in {"write", "archive"}
                                       /\ disk[Archived(t)] = Absent /\ disk[Active(t)] # Absent
    BY <1>2, <1>6, OpenToResolveKeeps DEF OpenToResolve, Critical, Same
  <2> QED
    BY <1>b, <2>1 DEF Critical
<1>7. CASE WriteTemp(c)
  <2>1. disk' = disk /\ call'[c].pc = "rename" /\ call[c].pc = "write" /\ call'[c].doing = call[c].doing
    BY <1>1, <1>7, WriteTempKeeps DEF WriteTemp
  <2> QED
    BY <1>b, <2>1 DEF Critical
<1>8. CASE RenameTemp(c)
  <2>1. /\ call[c].pc = "rename" /\ call'[c].doing = call[c].doing /\ call'[c].task = t
        /\ call'[c].pc \in {"done", "tell"}
        /\ call'[c].pc = "tell" => tmp[t] # Absent
    BY <1>1, <1>2, <1>8, RenameTempKeeps DEF Same
  <2>2. ASSUME call'[c].pc = "tell", call[c].doing = "stamp"
        PROVE  disk'[Archived(t)] = Absent /\ disk'[Active(t)] # Absent
    <3>1. disk[Archived(t)] = Absent /\ disk[Active(t)] # Absent
      BY <2>1, <2>2 DEF ResolveInv
    <3>2. disk' = [disk EXCEPT ![Active(t)] = tmp[t]]
      BY <1>8, <2>1, <2>2 DEF RenameTemp
    <3> QED
      BY <1>1, <1>2, <2>1, <2>2, <3>1, <3>2, PathsOf
  <2>3. call'[c].pc = "tell" \/ call'[c].pc \notin Critical
    BY <2>1 DEF Critical
  <2> QED
    BY <1>b, <1>8, <2>1, <2>2, <2>3 DEF Critical
<1>9. CASE Tell(c)
  <2>1. /\ disk' = disk /\ call[c].pc = "tell"
        /\ call'[c].pc \in Critical => call'[c].pc = "archive" /\ call[c].doing = "stamp"
    BY <1>1, <1>9, TellKeeps DEF Tell, Critical
  <2> QED
    BY <1>b, <2>1 DEF Critical
<1>10. CASE TellActive(c) \/ TellArchive(c)
  <2>1. /\ disk' = disk /\ call[c].pc \in {"tell_active", "tell_archive"} /\ call[c].doing = "stamp"
        /\ call'[c].pc \in {"tell_archive", "done"}
    BY <1>1, <1>10, MoveKeeps DEF TellActive, TellArchive
  <2> QED
    BY <1>b, <2>1 DEF Critical
<1>11. CASE Archive(c) \/ Unlink(c)
  <2>1. /\ call[c].pc \in {"archive", "unlink"} /\ call[c].doing = "stamp" /\ call'[c].task = t
        /\ call'[c].pc \in {"unlink", "tell_active", "done"}
    BY <1>1, <1>2, <1>11, MoveKeeps DEF Archive, Unlink, Same
  <2>2. ASSUME NEW d \in Call \ {c}, call'[d].doing = "stamp" PROVE call'[d].pc \notin Critical
    <3>1. call'[d].doing = call[d].doing /\ call'[d].pc = call[d].pc
      BY <1>2 DEF OthersKeep
    <3> QED
      BY <2>1, <2>2, <3>1, AloneAtTask DEF Critical
  <2>3. CASE Archive(c)
    <3>1. call[c].pc = "archive"
      BY <2>3 DEF Archive
    <3>2. disk[Active(t)] # Absent
      BY <2>1, <3>1 DEF ResolveInv
    <3>3. CASE call'[c].pc = "unlink" /\ Relocated(c)
      <4>1. disk'[Archived(t)] # Absent
        BY <1>1, <1>2, <3>2, <3>3, PathsOf DEF Relocated
      <4> QED
        BY <1>a, <2>1, <2>2, <3>3, <4>1
    <3>4. CASE call'[c].pc = "done"
      BY <1>a, <2>2, <3>4 DEF Critical
    <3> QED
      BY <1>1, <2>3, <3>3, <3>4, MoveKeeps
  <2>4. CASE Unlink(c)
    <3>1. call[c].pc = "unlink" /\ call'[c].pc \in {"tell_active", "done"}
      BY <1>1, <2>4, MoveKeeps DEF Unlink
    <3>2. disk[Archived(t)] # Absent
      BY <2>1, <3>1 DEF ResolveInv
    <3>3. call'[c].pc = "tell_active" => disk' = [disk EXCEPT ![Active(t)] = Absent]
      BY <1>1, <2>4, MoveKeeps
    <3>4. call'[c].pc = "tell_active" => disk'[Archived(t)] # Absent
      BY <1>1, <1>2, <3>2, <3>3, PathsOf
    <3> QED
      BY <1>a, <2>1, <2>2, <3>1, <3>4
  <2> QED
    BY <1>11, <2>3, <2>4
<1> QED
  BY <1>4, <1>5, <1>6, <1>7, <1>8, <1>9, <1>10, <1>11 DEF CallStep

LEMMA CallStepTmp ==
  ASSUME TypeInv, MutexInv, TmpInv, NEW c \in Call, CallStep(c)
  PROVE  TmpInv'
<1> DEFINE t == call[c].task
<1>1. CallsInv /\ tmp \in [Task -> File \cup {Absent}]
  BY DEF CallsInv, TypeInv
<1>2. OthersKeep(c) /\ Same(c) /\ t \in Task
  BY CallStepKeeps, DiskSteps
<1>3. ASSUME call[c].pc # "rename" \/ call'[c].pc = "rename", NEW s \in Task, tmp[s] # Absent
      PROVE  \E d \in Call : call'[d].task = s /\ call'[d].pc = "rename"
  <2>1. PICK d \in Call : call[d].task = s /\ call[d].pc = "rename"
    BY <1>3 DEF TmpInv
  <2> QED
    BY <1>2, <1>3, <2>1 DEF OthersKeep, Same
<1>4. CASE WriteTemp(c)
  <2>1. call'[c].pc = "rename" /\ call'[c].task = t /\ tmp' = [tmp EXCEPT ![t] = call[c].body]
    BY <1>1, <1>2, <1>4, WriteTempKeeps DEF WriteTemp, Same
  <2>2. \A s \in Task \ {t} : tmp'[s] = tmp[s]
    BY <1>1, <2>1
  <2> QED
    BY <1>3, <2>1, <2>2 DEF TmpInv
<1>5. CASE RenameTemp(c)
  <2>1. call[c].pc = "rename" /\ tmp'[t] = Absent /\ \A s \in Task \ {t} : tmp'[s] = tmp[s]
    BY <1>1, <1>2, <1>5 DEF RenameTemp
  <2>2. ASSUME NEW s \in Task \ {t}, tmp[s] # Absent
        PROVE  \E d \in Call : call'[d].task = s /\ call'[d].pc = "rename"
    <3>1. PICK d \in Call : call[d].task = s /\ call[d].pc = "rename"
      BY <2>2 DEF TmpInv
    <3> QED
      BY <1>2, <3>1 DEF OthersKeep
  <2> QED
    BY <2>1, <2>2 DEF TmpInv
<1>6. CASE ~WriteTemp(c) /\ ~RenameTemp(c)
  <2>1. tmp' = tmp /\ call[c].pc # "rename"
    BY <1>6 DEF CallStep, Ingest, WriteEdge, OpenToWrite, OpenToResolve, Tell, Archive, Unlink,
       TellActive, TellArchive, taskVars
  <2> QED
    BY <1>3, <2>1 DEF TmpInv
<1> QED
  BY <1>4, <1>5, <1>6

\* Only OpenToResolve makes a task one that is resolved.
LEMMA ResolvingShrinks ==
  ASSUME MutexTyped, NEW c \in Call, OthersKeep(c), Same(c),
         mutex'["resolve"] \in {mutex["resolve"], None}, NEW t, Resolving(t)'
  PROVE  Resolving(t)
<1>1. mutex'["resolve"] # None /\ call'[mutex'["resolve"]].task = t
  BY DEF Resolving
<1>2. mutex'["resolve"] = mutex["resolve"] /\ mutex["resolve"] # None
  BY <1>1
<1>3. mutex["resolve"] \in Call
  BY <1>2 DEF MutexTyped
<1>4. call'[mutex["resolve"]].task = call[mutex["resolve"]].task
  BY <1>3 DEF OthersKeep, Same
<1> QED
  BY <1>1, <1>2, <1>4 DEF Resolving

LEMMA CallStepRace ==
  ASSUME TypeInv, MutexInv, RaceInv, NEW c \in Call, CallStep(c)
  PROVE  RaceInv'
<1> DEFINE t == call[c].task
<1>1. CallsInv /\ MutexTyped /\ EdgesInv /\ \A u \in Task : edges[u] \in Seq(Option)
  BY DEF CallsInv, TypeInv, MutexTyped, EdgesInv
<1>2. OthersKeep(c) /\ Same(c) /\ t \in Task
  BY CallStepKeeps, DiskSteps
<1>3. Running(c)
  BY DEF Running, CallStep, Ingest, WriteEdge, OpenToWrite, OpenToResolve, WriteTemp, RenameTemp, Tell,
     Archive, Unlink, TellActive, TellArchive
<1>4. ASSUME NEW d \in Call, call'[d].op \in Editing, Running(d)', ~call'[d].raced
      PROVE  /\ call[d].op \in Editing /\ Running(d) /\ ~call[d].raced
             /\ call'[d].task = call[d].task /\ ~Resolving(call[d].task)
  <2>1. /\ call[d].op \in Editing /\ Running(d) /\ ~call[d].raced /\ call'[d].task = call[d].task
    BY <1>2, <1>3, <1>4 DEF OthersKeep, Same, Running
  <2> QED
    BY <2>1 DEF RaceInv
<1>5. CASE mutex'["resolve"] \in {mutex["resolve"], None}
  <2> SUFFICES ASSUME NEW d \in Call, call'[d].op \in Editing, Running(d)', ~call'[d].raced,
                      Resolving(call[d].task)', call'[d].task = call[d].task
               PROVE  FALSE
    <3>1. \A d \in Call : Resolving(call[d].task)' => (call'[d].task = call[d].task => Resolving(call[d].task)')
      OBVIOUS
    <3> QED
      BY <1>4 DEF RaceInv
  <2> QED
    BY <1>1, <1>2, <1>4, <1>5, ResolvingShrinks
<1>6. CASE mutex'["resolve"] \notin {mutex["resolve"], None}
  <2>1. OpenToResolve(c)
    <3>1. ASSUME Unlock(c) PROVE FALSE
      BY <1>1, <1>6, <3>1 DEF Unlock, MutexTyped
    <3>2. CASE OpenToWrite(c)
      <4>1. MutexOf(c) # "resolve"
        BY <3>2 DEF OpenToWrite, MutexOf, Write, Editing
      <4> QED
        BY <1>1, <1>6, <3>2, <4>1, OpenToWriteKeeps DEF MutexTyped
    <3>3. CASE ~OpenToWrite(c) /\ ~OpenToResolve(c)
      <4>1. mutex' # mutex
        BY <1>6
      <4> QED
        BY <3>1, <3>3, <4>1 DEF CallStep, Ingest, WriteEdge, WriteTemp, RenameTemp, Tell, Archive, Unlink,
           TellActive, TellArchive, taskVars
    <3> QED
      BY <3>2, <3>3
  <2>2. /\ mutex' = [mutex EXCEPT !["resolve"] = c]
        /\ \A d \in Call : call[d].op \in Editing /\ Running(d) /\ call[d].task = t => call'[d].raced
    BY <1>6, <2>1, OpenToResolveKeeps
  <2>3. mutex'["resolve"] = c /\ call'[c].task = t
    BY <1>1, <1>2, <2>2 DEF MutexTyped, Same
  <2>4. ASSUME NEW d \in Call, call'[d].op \in Editing, Running(d)', ~call'[d].raced
        PROVE  call'[d].task # t
    BY <1>4, <2>2, <2>4
  <2> QED
    BY <2>3, <2>4 DEF RaceInv, Resolving
<1> QED
  BY <1>5, <1>6

-----------------------------------------------------------------------------
(* Appended lines stand.                                                     *)

\* A call at its edit, not overtaken by a resolve, shares its task with nobody.
LEMMA NoResolver ==
  ASSUME TypeInv, MutexInv, RaceInv, NEW e \in Call, NEW d \in Call,
         call[e].op \in Editing, Running(e), ~call[e].raced,
         call[d].doing = "stamp", call[d].pc \in Critical, call[d].task = call[e].task
  PROVE  FALSE
<1>1. MutexOf(d) = "resolve" /\ mutex["resolve"] = d /\ d # None
  BY AbsenceAssumption DEF MutexOf, MutexInv
<1>2. Resolving(call[e].task)
  BY <1>1 DEF Resolving
<1> QED
  BY <1>2 DEF RaceInv

LEMMA NoOther ==
  ASSUME TypeInv, MutexInv, RaceInv, NEW e \in Call, NEW d \in Call, d # e,
         call[e].op \in Editing, call[e].pc \in Critical, ~call[e].raced,
         call[d].pc \in Critical, call[d].task = call[e].task
  PROVE  FALSE
<1>1. CallInv(e) /\ Running(e)
  BY DEF TypeInv, Running, Critical
<1>2. call[e].doing # "stamp"
  BY <1>1 DEF CallInv, Running, Editing
<1> QED
  BY <1>1, <1>2, NoResolver, AloneAtTask

LEMMA ExcusedStays ==
  ASSUME TypeInv, NEW c \in Call, CallStep(c), NEW e \in Call, Excused(e)
  PROVE  Excused(e)'
<1>1. OthersKeep(c) /\ Same(c) /\ CallsInv /\ EdgesInv
  BY CallStepKeeps DEF TypeInv, CallsInv, EdgesInv
<1>2. call'[e].task = call[e].task
  BY <1>1 DEF OthersKeep, Same
<1>3. CASE \E d \in Call : call[d].op = "remove" /\ call[d].arg = e
  <2>1. PICK d \in Call : call[d].op = "remove" /\ call[d].arg = e
    BY <1>3
  <2>2. CASE d # c
    BY <1>1, <2>1, <2>2 DEF Excused, OthersKeep
  <2>3. CASE d = c
    <3>1. call[c].doing = "remove"
      BY <1>1, <2>1, <2>3 DEF CallsInv, CallInv
    <3>2. call'[c].arg = call[c].arg
      <4>1. CASE OpenToWrite(c)
        BY <2>1, <2>3, <4>1, OpenToWriteKeeps
      <4>2. CASE WriteTemp(c)
        BY <1>1, <4>2, WriteTempKeeps
      <4>3. CASE RenameTemp(c)
        BY <1>1, <2>1, <2>3, <4>3, RenameTempKeeps
      <4>4. CASE Tell(c)
        BY <1>1, <2>1, <2>3, <4>4, TellKeeps
      <4>5. CASE Ingest(c) \/ WriteEdge(c)
        BY <1>1, <2>1, <2>3, <4>5, IngestKeeps, WriteEdgeKeeps DEF EdgesInv
      <4>6. CASE OpenToResolve(c) \/ Archive(c) \/ Unlink(c) \/ TellActive(c) \/ TellArchive(c)
        BY <1>1, <3>1, <4>6, MoveKeeps DEF OpenToResolve
      <4> QED
        BY <4>1, <4>2, <4>3, <4>4, <4>5, <4>6 DEF CallStep
    <3> QED
      BY <1>1, <2>1, <2>3, <3>2 DEF Excused, Same
  <2> QED
    BY <2>2, <2>3
<1>4. CASE \E d \in Call : call[d].task = call[e].task /\ call[d].answer = "rolled_back"
  <2>1. PICK d \in Call : call[d].task = call[e].task /\ call[d].answer = "rolled_back"
    BY <1>4
  <2>2. d # c
    <3>1. Running(c)
      BY DEF Running, CallStep, Ingest, WriteEdge, OpenToWrite, OpenToResolve, WriteTemp, RenameTemp, Tell,
         Archive, Unlink, TellActive, TellArchive
    <3> QED
      BY <1>1, <2>1, <3>1 DEF CallsInv, CallInv, Running
  <2> QED
    BY <1>1, <1>2, <2>1, <2>2 DEF Excused, OthersKeep
<1> QED
  BY <1>3, <1>4 DEF Excused

\* A line that is safe stays so, through the steps of any call.
LEMMA SafeStays ==
  ASSUME TypeInv, MutexInv, ResolveInv, TmpInv, NEW c \in Call, CallStep(c),
         NEW e \in Call, call[e].task \in Task, Safe(e)
  PROVE  Safe(e)' \/ Excused(e)'
<1> DEFINE t == call[c].task  s == call[e].task
<1>1. /\ CallsInv /\ disk \in [Path -> File \cup {Absent}] /\ tmp \in [Task -> File \cup {Absent}]
      /\ \A u \in Task : edges[u] \in Seq(Option)
  BY DEF CallsInv, TypeInv, CommitTypeOK
<1>2. OthersKeep(c) /\ Same(c) /\ t \in Task /\ Active(t) \in Path /\ Archived(t) \in Path
      /\ call'[e].task = s /\ Active(s) \in Path /\ Archived(s) \in Path
      /\ Active(t) # Archived(s) /\ Active(s) # Archived(t)
  BY CallStepKeeps, DiskSteps, PathsOf DEF OthersKeep, Same
<1> DEFINE Kept2 == /\ e \in TextLines(disk[Active(s)])
                    /\ tmp[s] # Absent => e \in TextLines(tmp[s])
                    /\ \A d \in Call : call[d].task = s /\ call[d].pc = "write" => e \in TextLines(call[d].body)
                    /\ \A d \in Call : call[d].task = s => call[d].pc # "unlink"
<1>3. e \in TextLines(disk[Archived(s)]) \/ Kept2
  BY DEF Safe
<1>4. ASSUME e \in TextLines(disk'[Archived(s)]) PROVE Safe(e)'
  BY <1>2, <1>4 DEF Safe, TextLines
<1>5. ASSUME e \in TextLines(disk'[Active(s)]),
             tmp'[s] # Absent => e \in TextLines(tmp'[s]),
             \A d \in Call : call'[d].task = s /\ call'[d].pc = "write" => e \in TextLines(call'[d].body),
             \A d \in Call : call'[d].task = s => call'[d].pc # "unlink"
      PROVE  Safe(e)'
  BY <1>2, <1>5 DEF Safe, TextLines
<1>6. CASE Archive(c)
  <2>1. call[c].pc = "archive" /\ call[c].doing = "stamp" /\ tmp' = tmp
    BY <1>1, <1>6, MoveKeeps DEF Archive
  <2>2. CASE Relocated(c) /\ t = s
    <3>1. disk[Archived(s)] = Absent
      BY <2>1, <2>2 DEF ResolveInv
    <3>2. e \in TextLines(disk[Active(s)])
      BY <1>3, <3>1 DEF TextLines
    <3>3. disk'[Archived(s)] = disk[Active(s)]
      BY <1>1, <1>2, <2>2 DEF Relocated
    <3> QED
      BY <1>4, <3>2, <3>3
  <2>3. CASE Relocated(c) /\ t # s
    <3>1. disk'[Archived(s)] = disk[Archived(s)] /\ disk'[Active(s)] = disk[Active(s)]
      BY <1>1, <1>2, <2>3, PathsOf DEF Relocated
    <3>2. call'[c].pc # "write"
      BY <1>1, <1>6, MoveKeeps
    <3>3. Kept2 => Safe(e)'
      BY <1>2, <1>5, <2>1, <2>3, <3>1, <3>2 DEF OthersKeep, Same
    <3> QED
      BY <1>3, <1>4, <3>1, <3>3
  <2>4. CASE disk' = disk /\ call'[c].pc = "done"
    <3>1. Kept2 => Safe(e)'
      BY <1>2, <1>5, <2>1, <2>4 DEF OthersKeep
    <3> QED
      BY <1>3, <1>4, <2>4, <3>1
  <2> QED
    BY <1>1, <1>6, <2>2, <2>3, <2>4, MoveKeeps
<1>7. CASE Unlink(c)
  <2>1. call[c].pc = "unlink" /\ tmp' = tmp
    BY <1>7 DEF Unlink
  <2>2. CASE /\ disk' = [disk EXCEPT ![Archived(t)] = Absent] /\ call'[c].answer = "rolled_back"
    <3>1. CASE t = s
      BY <1>2, <2>2, <3>1 DEF Excused, Same
    <3>2. CASE t # s
      <4>1. disk'[Archived(s)] = disk[Archived(s)] /\ disk'[Active(s)] = disk[Active(s)]
        BY <1>1, <1>2, <2>2, <3>2, PathsOf
      <4>2. Kept2 => Safe(e)'
        BY <1>2, <1>5, <2>1, <3>2, <4>1 DEF OthersKeep, Same
      <4> QED
        BY <1>3, <1>4, <4>1, <4>2
    <3> QED
      BY <3>1, <3>2
  <2>3. CASE disk' = [disk EXCEPT ![Active(t)] = Absent]
    <3>1. disk'[Archived(s)] = disk[Archived(s)] /\ (t # s => disk'[Active(s)] = disk[Active(s)])
      BY <1>1, <1>2, <2>3, PathsOf
    <3>2. Kept2 => t # s
      BY <2>1
    <3>3. Kept2 => Safe(e)'
      BY <1>2, <1>5, <2>1, <3>1, <3>2 DEF OthersKeep, Same
    <3> QED
      BY <1>3, <1>4, <3>1, <3>3
  <2> QED
    BY <1>1, <1>7, <2>2, <2>3, MoveKeeps
<1>8. CASE ~Archive(c) /\ ~Unlink(c)
  <2>1. disk'[Archived(s)] = disk[Archived(s)]
    BY <1>1, <1>2, <1>8, DiskSteps
  <2>2. call'[c].pc # "unlink"
    <3>1. CASE Ingest(c) \/ WriteEdge(c)
      BY <1>1, <3>1, IngestKeeps, WriteEdgeKeeps DEF TypeInv, EdgesInv
    <3>2. CASE OpenToWrite(c) \/ OpenToResolve(c)
      BY <3>2, OpenToWriteKeeps, OpenToResolveKeeps
    <3>3. CASE WriteTemp(c) \/ RenameTemp(c) \/ Tell(c)
      BY <1>1, <3>3, WriteTempKeeps, RenameTempKeeps, TellKeeps
    <3>4. CASE TellActive(c) \/ TellArchive(c)
      BY <1>1, <3>4, MoveKeeps
    <3> QED
      BY <1>8, <3>1, <3>2, <3>3, <3>4 DEF CallStep
  <2>3. Kept2 => \A d \in Call : call'[d].task = s => call'[d].pc # "unlink"
    BY <1>2, <2>2 DEF OthersKeep
  <2>4. ASSUME Kept2, ~Excused(e)', t = s, call'[c].pc = "write"
        PROVE  e \in TextLines(call'[c].body)
    <3>1. OpenToWrite(c) \/ OpenToResolve(c)
      <4>1. CASE Ingest(c) \/ WriteEdge(c)
        BY <1>1, <2>4, <4>1, IngestKeeps, WriteEdgeKeeps DEF TypeInv, EdgesInv
      <4>2. CASE WriteTemp(c) \/ RenameTemp(c) \/ Tell(c)
        BY <1>1, <2>4, <4>2, WriteTempKeeps, RenameTempKeeps, TellKeeps
      <4>3. CASE TellActive(c) \/ TellArchive(c)
        BY <1>1, <2>4, <4>3, MoveKeeps
      <4> QED
        BY <1>8, <4>1, <4>2, <4>3 DEF CallStep
    <3>2. /\ call[c].doing \in Write \cup {"stamp"} /\ call'[c].body = Edited(c, disk[Active(s)])
          /\ call[c].op = "remove" => call'[c].arg = call[c].arg
      <4>1. CASE OpenToWrite(c)
        BY <2>4, <4>1, OpenToWriteKeeps
      <4>2. CASE OpenToResolve(c)
        <5>1. call[c].doing = "stamp" /\ CallInv(c)
          BY <1>1, <4>2 DEF OpenToResolve, CallsInv
        <5>2. call[c].op # "remove"
          BY <5>1 DEF CallInv
        <5> QED
          BY <2>4, <4>2, <5>1, <5>2, OpenToResolveKeeps
      <4> QED
        BY <3>1, <4>1, <4>2
    <3>3. CallInv(c) /\ call[c] \in CallRecord /\ call[c].pc = "open"
      BY <1>1, <3>1 DEF CallsInv, OpenToWrite, OpenToResolve
    <3>4. call[c].doing = "refs" => call[c].arg \in BOOLEAN
      BY <3>3 DEF CallInv, Running, CallRecord, Op
    <3>5. call[c].doing = "remove" => call[c].op = "remove"
      BY <3>3 DEF CallInv, CallRecord, Op
    <3>6. (call[c].doing = "remove" /\ call[c].arg = e) \/ e \in TextLines(Edited(c, disk[Active(s)]))
      BY <1>1, <1>2, <2>4, <3>2, <3>4, EditedKeeps DEF CallsInv
    <3>7. ~(call[c].doing = "remove" /\ call[c].arg = e)
      BY <1>2, <2>4, <3>2, <3>5 DEF Excused, Same
    <3> QED
      BY <3>2, <3>6, <3>7
  <2>5. ASSUME Kept2, ~Excused(e)'
        PROVE  \A d \in Call : call'[d].task = s /\ call'[d].pc = "write" => e \in TextLines(call'[d].body)
    BY <1>2, <2>4, <2>5 DEF OthersKeep, Same
  <2>6. ASSUME Kept2
        PROVE  e \in TextLines(disk'[Active(s)]) /\ (tmp'[s] # Absent => e \in TextLines(tmp'[s]))
    <3>1. CASE WriteTemp(c)
      <4>1. disk' = disk /\ tmp' = [tmp EXCEPT ![t] = call[c].body] /\ call[c].pc = "write"
        BY <3>1 DEF WriteTemp
      <4> QED
        BY <1>1, <1>2, <2>6, <4>1
    <3>2. CASE RenameTemp(c)
      <4>1. CASE tmp[t] = Absent
        BY <2>6, <3>2, <4>1 DEF RenameTemp
      <4>2. CASE tmp[t] # Absent
        <5>1. disk' = [disk EXCEPT ![Active(t)] = tmp[t]] /\ tmp' = [tmp EXCEPT ![t] = Absent]
          BY <3>2, <4>2 DEF RenameTemp
        <5> QED
          BY <1>1, <1>2, <2>6, <4>2, <5>1, PathsOf
      <4> QED
        BY <4>1, <4>2
    <3>3. CASE ~WriteTemp(c) /\ ~RenameTemp(c)
      <4>1. disk' = disk /\ tmp' = tmp
        BY <1>8, <3>3 DEF CallStep, Ingest, WriteEdge, OpenToWrite, OpenToResolve, Tell,
           TellActive, TellArchive, taskVars
      <4> QED
        BY <2>6, <4>1
    <3> QED
      BY <3>1, <3>2, <3>3
  <2> HIDE DEF Kept2
  <2> QED
    BY <1>3, <1>4, <1>5, <2>1, <2>3, <2>5, <2>6
<1> QED
  BY <1>6, <1>7, <1>8

\* The append of c reaches the active file.
LEMMA LineLands ==
  ASSUME TypeInv, MutexInv, TmpInv, RaceInv, NEW c \in Call, CallStep(c),
         call[c].op = "append", ~call[c].raced, ~Landed(c), Landed(c)',
         call[c].doing = "append" /\ call[c].pc = "rename" =>
           tmp[call[c].task] # Absent /\ c \in TextLines(tmp[call[c].task])
  PROVE  Safe(c)'
<1> DEFINE t == call[c].task
<1>1. /\ CallsInv /\ EdgesInv /\ disk \in [Path -> File \cup {Absent}] /\ tmp \in [Task -> File \cup {Absent}]
      /\ \A u \in Task : edges[u] \in Seq(Option)
  BY DEF CallsInv, TypeInv, CommitTypeOK, EdgesInv
<1>2. OthersKeep(c) /\ Same(c) /\ t \in Task /\ Active(t) \in Path /\ CallInv(c)
      /\ call'[c].task = t /\ None \notin Call
  BY <1>1, CallStepKeeps, DiskSteps, AbsenceAssumption DEF Same, CallsInv
<1>3. Running(c) /\ call[c].doing = "append" /\ call[c].pc # "tell"
  BY <1>2, CallStepKeeps DEF Landed, Running, CallInv, CallStep, Ingest, WriteEdge, OpenToWrite,
     OpenToResolve, WriteTemp, RenameTemp, Tell, Archive, Unlink, TellActive, TellArchive
<1>4. ASSUME disk'[Active(t)] # Absent, c \in TextLines(disk'[Active(t)]), tmp'[t] = Absent,
             \A d \in Call \ {c} : call[d].task = t => call[d].pc \notin Critical,
             call'[c].pc \notin {"write", "unlink"}
      PROVE  Safe(c)'
  <2>1. \A d \in Call : call'[d].task = t => call'[d].pc \notin {"write", "unlink"}
    BY <1>2, <1>4 DEF OthersKeep, Critical
  <2> QED
    BY <1>2, <1>4, <2>1 DEF Safe, TextLines
<1>5. CASE RenameTemp(c)
  <2>1. call[c].pc = "rename" /\ tmp[t] # Absent /\ c \in TextLines(tmp[t])
    BY <1>3, <1>5 DEF RenameTemp
  <2>2. disk' = [disk EXCEPT ![Active(t)] = tmp[t]] /\ tmp' = [tmp EXCEPT ![t] = Absent]
    BY <1>5, <2>1 DEF RenameTemp
  <2>3. disk'[Active(t)] = tmp[t] /\ tmp'[t] = Absent
    BY <1>1, <1>2, <2>2
  <2>4. \A d \in Call \ {c} : call[d].task = t => call[d].pc \notin Critical
    BY <2>1, NoOther DEF Critical, Editing
  <2>5. call'[c].pc \notin {"write", "unlink"}
    BY <1>1, <1>5, RenameTempKeeps
  <2> QED
    BY <1>4, <2>1, <2>3, <2>4, <2>5
<1>6. CASE OpenToWrite(c)
  <2> DEFINE f == disk[Active(t)]
  <2>1. /\ call'[c].pc = "done" /\ Edited(c, f) = f /\ mutex[MutexOf(c)] = None
        /\ disk' = disk /\ tmp' = tmp
    BY <1>3, <1>6, OpenToWriteKeeps DEF Landed, OpenToWrite
  <2>2. f # Absent /\ c \in TextLines(f)
    BY <1>1, <1>2, <1>3, <2>1, EditedKeeps DEF Write, Editing, CallsInv
  <2>3. ASSUME NEW d \in Call \ {c}, call[d].task = t, call[d].pc \in Critical PROVE FALSE
    <3>1. CASE call[d].doing = "stamp"
      BY <1>3, <2>3, <3>1, NoResolver DEF Editing
    <3>2. CASE call[d].doing # "stamp"
      <4>1. MutexOf(d) = MutexOf(c)
        BY <1>3, <2>3, <3>2 DEF MutexOf
      <4> QED
        BY <1>2, <2>1, <2>3, <4>1 DEF MutexInv
    <3> QED
      BY <3>1, <3>2
  <2>4. tmp[t] = Absent
    <3> SUFFICES ASSUME tmp[t] # Absent PROVE FALSE
      OBVIOUS
    <3>1. PICK d \in Call : call[d].task = t /\ call[d].pc = "rename"
      BY <1>2 DEF TmpInv
    <3>2. d # c
      BY <1>6, <3>1 DEF OpenToWrite
    <3> QED
      BY <2>3, <3>1, <3>2 DEF Critical
  <2> QED
    BY <1>4, <2>1, <2>2, <2>3, <2>4
<1>7. CASE ~RenameTemp(c) /\ ~OpenToWrite(c)
  <2>1. call'[c].doing = "append" /\ call'[c].pc # "tell" /\ call'[c].answer # "ok"
    <3>1. CASE Ingest(c) \/ WriteEdge(c)
      BY <1>1, <1>3, <3>1 DEF CallsInv, CallInv, Ingest, WriteEdge
    <3>2. CASE WriteTemp(c)
      <4>1. call[c].answer # "ok"
        BY <1>2, <3>2 DEF CallInv, WriteTemp
      <4> QED
        BY <1>1, <1>3, <3>2, <4>1, WriteTempKeeps
    <3>3. CASE Tell(c) \/ OpenToResolve(c) \/ Archive(c) \/ Unlink(c) \/ TellActive(c) \/ TellArchive(c)
      BY <1>1, <1>3, <3>3, MoveKeeps DEF Tell, OpenToResolve
    <3> QED
      BY <1>7, <3>1, <3>2, <3>3 DEF CallStep
  <2> QED
    BY <2>1 DEF Landed
<1> QED
  BY <1>5, <1>6, <1>7

LEMMA CallStepAppend ==
  ASSUME TypeInv, MutexInv, ResolveInv, TmpInv, RaceInv, AppendInv, NEW c \in Call, CallStep(c)
  PROVE  AppendInv'
<1>1. /\ CallsInv /\ EdgesInv /\ tmp \in [Task -> File \cup {Absent}]
      /\ \A u \in Task : edges[u] \in Seq(Option)
  BY DEF CallsInv, TypeInv, EdgesInv
<1>2. OthersKeep(c) /\ Same(c) /\ call[c].task \in Task
  BY CallStepKeeps, DiskSteps
<1> SUFFICES ASSUME NEW e \in Call, call'[e].op = "append", ~call'[e].raced
             PROVE  /\ call'[e].doing = "append" /\ call'[e].pc = "write" => e \in TextLines(call'[e].body)
                    /\ call'[e].doing = "append" /\ call'[e].pc = "rename" =>
                         tmp'[call'[e].task] # Absent /\ e \in TextLines(tmp'[call'[e].task])
                    /\ Landed(e)' => Excused(e)' \/ Safe(e)'
  BY DEF AppendInv, TextLines
<1>3. /\ call[e].op = "append" /\ ~call[e].raced /\ call'[e].task = call[e].task
      /\ CallInv(e) /\ call[e] \in CallRecord
  BY <1>1, <1>2 DEF OthersKeep, Same, CallsInv
<1>4. /\ call[e].doing = "append" /\ call[e].pc = "write" => e \in TextLines(call[e].body)
      /\ call[e].doing = "append" /\ call[e].pc = "rename" =>
           tmp[call[e].task] # Absent /\ e \in TextLines(tmp[call[e].task])
      /\ Landed(e) => Excused(e) \/ Safe(e)
  BY <1>3 DEF AppendInv
<1>5. ASSUME call'[e].doing = "append", call'[e].pc = "write" PROVE e \in TextLines(call'[e].body)
  <2>1. CASE e # c
    BY <1>2, <1>4, <1>5, <2>1 DEF OthersKeep
  <2>2. CASE e = c
    <3>1. OpenToWrite(c)
      <4>1. CASE Ingest(c) \/ WriteEdge(c)
        BY <1>1, <1>5, <2>2, <4>1, IngestKeeps, WriteEdgeKeeps
      <4>2. CASE WriteTemp(c) \/ RenameTemp(c) \/ Tell(c)
        BY <1>1, <1>5, <2>2, <4>2, WriteTempKeeps, RenameTempKeeps, TellKeeps
      <4>3. CASE OpenToResolve(c)
        BY <1>5, <2>2, <4>3, OpenToResolveKeeps
      <4>4. CASE Archive(c) \/ Unlink(c) \/ TellActive(c) \/ TellArchive(c)
        BY <1>1, <1>3, <2>2, <4>4, MoveKeeps DEF Editing
      <4> QED
        BY <4>1, <4>2, <4>3, <4>4 DEF CallStep
    <3>2. call[c].doing = "append" /\ call'[c].body = Edited(c, disk[Active(call[c].task)])
      BY <1>5, <2>2, <3>1, OpenToWriteKeeps
    <3>3. disk[Active(call[c].task)] \in File \cup {Absent}
      BY <1>2, PathsOf DEF TypeInv, CommitTypeOK
    <3> QED
      BY <1>1, <2>2, <3>2, <3>3, EditedKeeps DEF Write, Editing, CallsInv
  <2> QED
    BY <2>1, <2>2
<1>6. ASSUME call'[e].doing = "append", call'[e].pc = "rename"
      PROVE  tmp'[call[e].task] # Absent /\ e \in TextLines(tmp'[call[e].task])
  <2>1. CASE e # c
    <3>1. call[e].doing = "append" /\ call[e].pc = "rename"
      BY <1>2, <1>6, <2>1 DEF OthersKeep
    <3>2. call[c].pc \in Critical => call[c].task # call[e].task
      BY <1>3, <2>1, <3>1, NoOther DEF Critical, Editing
    <3>3. call[c].pc \in Critical \/ tmp' = tmp
      BY DEF Critical, CallStep, Ingest, WriteEdge, OpenToWrite, OpenToResolve, WriteTemp, RenameTemp, Tell,
         Archive, Unlink, TellActive, TellArchive, taskVars
    <3>4. tmp' = tmp \/ tmp' = [tmp EXCEPT ![call[c].task] = call[c].body]
          \/ tmp' = [tmp EXCEPT ![call[c].task] = Absent]
      BY DEF CallStep, Ingest, WriteEdge, OpenToWrite, OpenToResolve, WriteTemp, RenameTemp, Tell,
         Archive, Unlink, TellActive, TellArchive, taskVars
    <3>5. call[e].task \in Task
      BY <1>1, <3>1, TaskOf
    <3>6. tmp'[call[e].task] = tmp[call[e].task]
      BY <1>1, <1>2, <3>2, <3>3, <3>4, <3>5
    <3> QED
      BY <1>4, <3>1, <3>6
  <2>2. CASE e = c
    <3>1. WriteTemp(c)
      <4>1. CASE Ingest(c) \/ WriteEdge(c)
        BY <1>1, <1>6, <2>2, <4>1, IngestKeeps, WriteEdgeKeeps
      <4>2. CASE OpenToWrite(c) \/ RenameTemp(c) \/ Tell(c)
        BY <1>1, <1>6, <2>2, <4>2, OpenToWriteKeeps, RenameTempKeeps, TellKeeps
      <4>3. CASE OpenToResolve(c)
        BY <1>6, <2>2, <4>3, OpenToResolveKeeps
      <4>4. CASE Archive(c) \/ Unlink(c) \/ TellActive(c) \/ TellArchive(c)
        BY <1>1, <1>3, <2>2, <4>4, MoveKeeps DEF Editing
      <4> QED
        BY <4>1, <4>2, <4>3, <4>4 DEF CallStep
    <3>2. /\ call[c].pc = "write" /\ call[c].doing = "append" /\ call[c].body \in File
          /\ tmp' = [tmp EXCEPT ![call[c].task] = call[c].body]
      BY <1>1, <1>6, <2>2, <3>1, WriteTempKeeps DEF WriteTemp
    <3>3. tmp'[call[c].task] = call[c].body
      BY <1>1, <1>2, <3>2
    <3> QED
      BY <1>4, <2>2, <3>2, <3>3, AbsenceAssumption
  <2> QED
    BY <2>1, <2>2
<1>7. ASSUME Landed(e)' PROVE Excused(e)' \/ Safe(e)'
  <2>1. CASE Landed(e)
    <3>1. call[e].task \in Task
      <4>1. call[e].pc # "idle"
        BY <1>3, <2>1 DEF Landed, CallInv, Idle
      <4> QED
        BY <1>1, <4>1, TaskOf
    <3> QED
      BY <1>4, <2>1, <3>1, SafeStays, ExcusedStays
  <2>2. CASE ~Landed(e)
    <3>1. e = c
      BY <1>2, <1>7, <2>2 DEF Landed, OthersKeep
    <3> QED
      BY <1>3, <1>4, <1>7, <2>2, <3>1, LineLands
  <2> QED
    BY <2>1, <2>2
<1> QED
  BY <1>3, <1>5, <1>6, <1>7

-----------------------------------------------------------------------------
(* Picks stand.                                                              *)

LEMMA KeptStays ==
  ASSUME TypeInv, NEW c \in Call, CallStep(c), NEW t \in Task, NEW o, Kept(t, o)
  PROVE  Kept(t, o)'
<1>1. /\ CallsInv /\ EdgesInv /\ \A u \in Task : edges[u] \in Seq(Option)
  BY DEF CallsInv, TypeInv, EdgesInv
<1>2. OthersKeep(c) /\ Same(c) /\ call[c].task \in Task
  BY CallStepKeeps, DiskSteps
<1>3. call[c].op = "pick" => call'[c].arg = call[c].arg
  <2>1. CASE Ingest(c) \/ WriteEdge(c)
    BY <1>1, <2>1, IngestKeeps, WriteEdgeKeeps
  <2>2. CASE OpenToWrite(c) \/ OpenToResolve(c)
    BY <2>2, OpenToWriteKeeps, OpenToResolveKeeps
  <2>3. CASE WriteTemp(c) \/ RenameTemp(c) \/ Tell(c)
    BY <1>1, <2>3, WriteTempKeeps, RenameTempKeeps, TellKeeps
  <2>4. CASE Archive(c) \/ Unlink(c) \/ TellActive(c) \/ TellArchive(c)
    BY <1>1, <2>4, MoveKeeps
  <2> QED
    BY <2>1, <2>2, <2>3, <2>4 DEF CallStep
<1>4. call[c].doing = "stamp" => call'[c].doing = "stamp" /\ call'[c].prior = call[c].prior
  <2>1. CASE Ingest(c) \/ WriteEdge(c)
    BY <1>1, <2>1 DEF CallsInv, CallInv, Ingest, WriteEdge
  <2>2. CASE OpenToWrite(c) \/ OpenToResolve(c)
    BY <2>2, OpenToWriteKeeps, OpenToResolveKeeps
  <2>3. CASE WriteTemp(c) \/ RenameTemp(c) \/ Tell(c)
    BY <1>1, <2>3, WriteTempKeeps, RenameTempKeeps, TellKeeps
  <2>4. CASE Archive(c) \/ Unlink(c) \/ TellActive(c) \/ TellArchive(c)
    BY <1>1, <2>4, MoveKeeps
  <2> QED
    BY <2>1, <2>2, <2>3, <2>4 DEF CallStep
<1>5. CASE \E d \in Call : /\ call[d].op = "pick" /\ call[d].doing = "stamp" /\ call[d].task = t
                           /\ call[d].prior = o /\ call[d].arg # o
  BY <1>2, <1>3, <1>4, <1>5 DEF Kept, OthersKeep, Same
<1>6. CASE o \in ToSet(edges[t])
  <2>1. CASE WriteEdge(c) /\ call[c].task = t
    BY <1>1, <1>2, <1>6, <2>1, WriteEdgeKeeps DEF Kept, Same
  <2>2. CASE ~(WriteEdge(c) /\ call[c].task = t)
    <3>1. edges'[t] = edges[t]
      <4>1. CASE WriteEdge(c)
        BY <1>1, <2>2, <4>1, WriteEdgeKeeps
      <4>2. CASE ~WriteEdge(c)
        BY <4>2 DEF CallStep, Ingest, OpenToWrite, OpenToResolve, WriteTemp, RenameTemp, Tell,
           Archive, Unlink, TellActive, TellArchive, taskVars
      <4> QED
        BY <4>1, <4>2
    <3> QED
      BY <1>6, <3>1 DEF Kept
  <2> QED
    BY <2>1, <2>2
<1> QED
  BY <1>5, <1>6 DEF Kept

\* What a pick says it found or landed.
Told(d, o) ==
  /\ call[d].op = "pick"
  /\ \/ call[d].doing = "stamp" /\ call[d].arg = o
     \/ call[d].pc = "edge" /\ call[d].prior = o

PicksTold == \A d \in Call, t \in Task, o \in Option :
  call[d].task = t /\ Told(d, o) => Kept(t, o)

LEMMA PickInvIs == CallsInv => (PickInv <=> PicksTold)
<1> SUFFICES ASSUME CallsInv PROVE PickInv <=> PicksTold
  OBVIOUS
<1>1. ASSUME NEW d \in Call, call[d].op = "pick"
      PROVE  /\ call[d].task \in Task /\ call[d].arg \in Option
             /\ call[d].prior # None => call[d].prior \in Option
  <2>1. call[d] \in CallRecord /\ CallInv(d)
    BY DEF CallsInv
  <2>2. call[d].pc # "idle"
    BY <1>1, <2>1 DEF CallInv, Idle
  <2> QED
    BY <1>1, <2>1, <2>2 DEF CallInv, CallRecord
<1>2. ASSUME PickInv, NEW d \in Call, NEW t \in Task, NEW o \in Option, call[d].task = t, Told(d, o)
      PROVE  Kept(t, o)
  BY <1>2, AbsenceAssumption DEF PickInv, Told
<1>3. ASSUME \A d \in Call, t \in Task, o \in Option : call[d].task = t /\ Told(d, o) => Kept(t, o)
      PROVE  PickInv
  BY <1>1, <1>3 DEF PickInv, Told
<1> QED
  BY <1>2, <1>3 DEF PicksTold

LEMMA CallStepPick ==
  ASSUME TypeInv, PickInv, NEW c \in Call, CallStep(c)
  PROVE  PickInv'
<1>1. /\ CallsInv /\ EdgesInv /\ \A u \in Task : edges[u] \in Seq(Option)
  BY DEF CallsInv, TypeInv, EdgesInv
<1>2. OthersKeep(c) /\ Same(c) /\ call[c].task \in Task /\ CallsInv'
  BY CallStepKeeps, DiskSteps
<1> SUFFICES ASSUME NEW d \in Call, NEW t \in Task, NEW o \in Option, call'[d].task = t, Told(d, o)'
             PROVE  Kept(t, o)'
  <2>1. PicksTold' => PickInv'
    BY <1>2, PickInvIs, PTL
  <2> QED
    BY <2>1 DEF PicksTold
<1>3. call[d].task = t /\ call[d].op = "pick"
  BY <1>2 DEF Told, OthersKeep, Same
<1>4. CASE Told(d, o)
  BY <1>1, <1>3, <1>4, PickInvIs, KeptStays DEF PicksTold
<1>5. CASE ~Told(d, o)
  <2>1. d = c
    BY <1>2, <1>5 DEF Told, OthersKeep
  <2>2. CASE Ingest(c)
    <3>1. o \in ToSet(edges[t])
      <4>1. CallInv(c) /\ call[c].pc = "ingest"
        BY <1>1, <2>2 DEF CallsInv, Ingest
      <4>2. call'[c].doing = "pick"
        BY <1>1, <2>2, <4>1, IngestKeeps DEF CallInv
      <4> QED
        BY <1>1, <1>3, <2>1, <2>2, <4>2, IngestKeeps, AbsenceAssumption DEF Told
    <3> QED
      BY <1>3, <3>1, KeptStays DEF Kept
  <2>3. CASE WriteEdge(c)
    <3>1. /\ call'[c].arg = call[c].arg /\ call'[c].prior = call[c].prior /\ call[c].pc = "edge"
          /\ call'[c].pc # "edge"
      BY <1>1, <2>3, WriteEdgeKeeps DEF WriteEdge
    <3>2. call'[c].doing = "stamp" /\ call[c].arg = o
      BY <2>1, <3>1 DEF Told
    <3>3. o \in ToSet(edges'[t]) \/ call[c].prior = o
      BY <1>1, <1>3, <2>1, <2>3, <3>2, WriteEdgeKeeps
    <3>4. ~(call[c].prior = o)
      BY <1>3, <1>5, <2>1, <3>1 DEF Told
    <3> QED
      BY <3>3, <3>4 DEF Kept
  <2>4. CASE ~Ingest(c) /\ ~WriteEdge(c)
    <3>1. call[c].doing = "stamp" /\ call'[c].arg = call[c].arg
      <4>1. CASE OpenToWrite(c)
        BY <1>3, <2>1, <4>1, OpenToWriteKeeps
      <4>2. CASE OpenToResolve(c)
        BY <1>3, <2>1, <4>2, OpenToResolveKeeps
      <4>3. CASE Archive(c) \/ Unlink(c) \/ TellActive(c) \/ TellArchive(c)
        BY <1>1, <1>3, <2>1, <4>3, MoveKeeps
      <4>4. CASE WriteTemp(c) \/ RenameTemp(c) \/ Tell(c)
        <5>1. CallInv(c) /\ call[c].pc \in {"write", "rename", "tell"}
          BY <1>1, <4>4 DEF CallsInv, WriteTemp, RenameTemp, Tell
        <5>2. call[c].doing = "stamp"
          BY <1>3, <2>1, <5>1 DEF CallInv
        <5> QED
          BY <1>1, <1>3, <2>1, <4>4, <5>2, WriteTempKeeps, RenameTempKeeps, TellKeeps
      <4> QED
        BY <2>4, <4>1, <4>2, <4>3, <4>4 DEF CallStep
    <3>2. call'[c].pc # "edge"
      <4>1. CallInv(c)'
        BY <1>2 DEF CallsInv
      <4>2. call'[c].doing = "stamp"
        <5>1. CASE OpenToWrite(c)
          BY <3>1, <5>1, OpenToWriteKeeps
        <5>2. CASE OpenToResolve(c)
          BY <5>2, OpenToResolveKeeps
        <5>3. CASE Archive(c) \/ Unlink(c) \/ TellActive(c) \/ TellArchive(c)
          BY <1>1, <5>3, MoveKeeps
        <5>4. CASE WriteTemp(c) \/ RenameTemp(c) \/ Tell(c)
          BY <1>1, <3>1, <5>4, WriteTempKeeps, RenameTempKeeps, TellKeeps
        <5> QED
          BY <2>4, <5>1, <5>2, <5>3, <5>4 DEF CallStep
      <4> QED
        BY <4>1, <4>2 DEF CallInv
    <3>3. call[c].arg = o
      BY <2>1, <3>1, <3>2 DEF Told
    <3> QED
      BY <1>3, <1>5, <2>1, <3>1, <3>3 DEF Told
  <2> QED
    BY <2>2, <2>3, <2>4
<1> QED
  BY <1>4, <1>5


-----------------------------------------------------------------------------
(* What a resolve and a spawn were told stands.                              *)

\* A rewrite keeps the stamp of a text, and a resolve sets it.
LEMMA EditedResolved ==
  ASSUME NEW c \in Call, NEW f \in File, call[c].doing \in Write \cup {"stamp"},
         f.resolved \/ call[c].doing = "stamp"
  PROVE  Edited(c, f).resolved
<1> USE AbsenceAssumption
<1>0. f # Absent
  OBVIOUS
<1>1. CASE call[c].doing = "append"
  <2>1. Edited(c, f) = [f EXCEPT !.open = @ \cup {c}]
    BY <1>0, <1>1 DEF Edited, Appended
  <2> QED
    BY <1>1, <2>1 DEF File
<1>2. CASE call[c].doing = "spawn"
  BY <1>0, <1>2 DEF Edited, Spawned
<1>3. CASE call[c].doing = "refs"
  <2>1. Edited(c, f) = [f EXCEPT !.refs = call[c].arg]
    BY <1>0, <1>3 DEF Edited, EditedText, Referenced
  <2> QED
    BY <1>3, <2>1 DEF File
<1>4. CASE call[c].doing = "check"
  <2> DEFINE l == call[c].arg
  <2>1. Edited(c, f) = [f EXCEPT !.open = @ \ {l}, !.done = @ \cup ({l} \cap f.open)]
    BY <1>0, <1>4 DEF Edited, EditedText, Checked
  <2> QED
    BY <1>4, <2>1 DEF File
<1>5. CASE call[c].doing = "remove"
  <2> DEFINE l == call[c].arg
  <2>1. Edited(c, f) = [f EXCEPT !.open = @ \ {l}, !.done = @ \ {l}]
    BY <1>0, <1>5 DEF Edited, EditedText, Removed
  <2> QED
    BY <1>5, <2>1 DEF File
<1>6. CASE call[c].doing = "stamp"
  <2>1. Edited(c, f) = [f EXCEPT !.resolved = TRUE]
    BY <1>0, <1>6 DEF Edited, EditedText, Stamped
  <2> QED
    BY <2>1 DEF File
<1> QED
  BY <1>1, <1>2, <1>3, <1>4, <1>5, <1>6 DEF Write, Editing

\* What Resolve answers at once, and what it goes on to write.
LEMMA ResolveTells ==
  ASSUME TypeInv, NEW c \in Call, OpenToResolve(c)
  PROVE  LET t == call[c].task IN
         /\ call'[c].answer = "archived" => AlreadyArchived(t)
         /\ call'[c].answer \in {"ok", "archived"} => AlreadyArchived(t) \/ IsResolved(Active(t))
         /\ call'[c].pc = "write" => call'[c].body.resolved
         /\ call'[c].pc = "archive" => IsResolved(Active(t))
<1> DEFINE t == call[c].task  f == disk[Active(t)]  body == Edited(c, f)
           next == IF body # f THEN "write" ELSE IF AutoArchived(c) THEN "archive" ELSE "done"
<1>1. /\ call[c] \in CallRecord /\ CallInv(c) /\ CallsInv /\ kind' = kind
      /\ call[c].pc = "open" /\ call[c].doing = "stamp" /\ call \in [Call -> CallRecord]
  BY DEF CallsInv, OpenToResolve, TypeInv
<1>2. f \in File \cup {Absent} /\ call[c].answer = "none"
  <2>1. Active(t) \in Path
    BY <1>1, PathsOf DEF CallInv
  <2> QED
    BY <1>1, <2>1 DEF TypeInv, CommitTypeOK, CallInv
<1>3. f # Absent => body.resolved
  BY <1>1, <1>2, EditedResolved
<1>4. ASSUME NEW answer \in {"archived", "ok", "not_found"}, Finish(c, answer)
      PROVE  call'[c].pc = "done" /\ call'[c].answer = answer
  BY <1>1, <1>4, FinishKeeps DEF Answer
<1> HIDE DEF body
<1>5. CASE AlreadyArchived(t) /\ Finish(c, Resolved(c))
  BY <1>4, <1>5 DEF Resolved
<1>6. CASE Finish(c, "not_found")
  BY <1>4, <1>6
<1>7. CASE f # Absent /\ next = "done" /\ Finish(c, "ok")
  BY <1>3, <1>4, <1>7 DEF IsResolved
<1>8. CASE /\ f # Absent /\ next # "done"
           /\ call' = [d \in Call |->
                IF d = c THEN [call[c] EXCEPT !.pc = next, !.body = body]
                ELSE [call[d] EXCEPT !.raced = @ \/ (call[d].op \in Editing /\ Running(d)
                                                    /\ call[d].task = t)]]
  <2>1. call'[c] = [call[c] EXCEPT !.pc = next, !.body = body]
    BY <1>8
  <2>2. call'[c].pc = next /\ call'[c].body = body /\ call'[c].answer = call[c].answer
    BY <1>1, <2>1 DEF CallRecord
  <2> QED
    BY <1>2, <1>3, <1>8, <2>2 DEF IsResolved
<1> QED
  BY <1>5, <1>6, <1>7, <1>8 DEF OpenToResolve, body

\* The steps that lead to a place of the move, and to its answer.
LEMMA MovesTo ==
  ASSUME TypeInv, NEW c \in Call, CallStep(c)
  PROVE  /\ call'[c].pc = "unlink" => Archive(c) /\ Relocated(c)
         /\ call'[c].pc = "tell_active" =>
              Unlink(c) /\ disk' = [disk EXCEPT ![Active(call[c].task)] = Absent]
         /\ call'[c].pc = "tell_archive" => TellActive(c)
         /\ call'[c].answer = "archived" => TellArchive(c) \/ OpenToResolve(c)
<1>1. CallsInv /\ EdgesInv /\ \A u \in Task : edges[u] \in Seq(Option)
  BY DEF CallsInv, TypeInv, EdgesInv
<1>2. call[c].answer = "none"
  <2>1. CallInv(c) /\ call[c].pc # "done"
    BY <1>1 DEF CallsInv, CallStep, Ingest, WriteEdge, OpenToWrite, OpenToResolve, WriteTemp, RenameTemp, Tell,
         Archive, Unlink, TellActive, TellArchive
  <2> QED
    BY <2>1 DEF CallInv
<1>3. CASE Ingest(c) \/ WriteEdge(c)
  BY <1>1, <1>3, IngestKeeps, WriteEdgeKeeps
<1>4. CASE OpenToWrite(c)
  BY <1>4, OpenToWriteKeeps
<1>5. CASE OpenToResolve(c)
  BY <1>5, OpenToResolveKeeps
<1>6. CASE WriteTemp(c) \/ RenameTemp(c)
  BY <1>1, <1>2, <1>6, WriteTempKeeps, RenameTempKeeps
<1>7. CASE Tell(c)
  BY <1>1, <1>7, TellKeeps
<1>8. CASE Archive(c) \/ Unlink(c) \/ TellActive(c) \/ TellArchive(c)
  <2>1. CallsInv' /\ \A d \in Call : CallInv(d)'
    BY <1>1, <1>8, MoveKeeps DEF CallsInv
  <2>2. call'[c].pc # "done" => call'[c].answer = "none"
    BY <2>1 DEF CallInv
  <2> QED
    BY <1>1, <1>8, <2>2, MoveKeeps
<1> QED
  BY <1>3, <1>4, <1>5, <1>6, <1>7, <1>8 DEF CallStep

\* Two writers of a task are one, as long as no edit overlapped a resolve.
LEMMA AloneUnraced ==
  ASSUME TypeInv, MutexInv, RaceInv, NEW c \in Call, NEW d \in Call,
         call[c].pc \in Critical, call[d].pc \in Critical, call[c].task = call[d].task,
         ~Raced(call[c].task)
  PROVE  c = d
<1>1. ASSUME NEW e \in Call, call[e].pc \in Critical, call[e].doing # "stamp"
      PROVE  call[e].op \in Editing
  <2>1. CallInv(e) /\ call[e] \in CallRecord
    BY DEF TypeInv
  <2> QED
    BY <1>1, <2>1 DEF CallInv, CallRecord, Op, Editing, Critical
<1>2. ~call[c].raced /\ ~call[d].raced
  BY DEF Raced
<1>3. CASE call[c].doing # "stamp" /\ call[d].doing = "stamp"
  BY <1>1, <1>2, <1>3, NoOther
<1>4. CASE call[c].doing = "stamp" /\ call[d].doing # "stamp"
  BY <1>1, <1>2, <1>4, NoOther
<1>5. CASE \/ call[c].doing = "stamp" /\ call[d].doing = "stamp"
           \/ call[c].doing # "stamp" /\ call[d].doing # "stamp"
  BY <1>5, AloneAtTask
<1> QED
  BY <1>3, <1>4, <1>5

LEMMA RacedStays ==
  ASSUME NEW c \in Call, OthersKeep(c), Same(c), NEW t, Raced(t)
  PROVE  Raced(t)'
<1>1. PICK d \in Call : call[d].task = t /\ call[d].raced
  BY DEF Raced
<1>2. call'[d].task = t /\ call'[d].raced
  BY <1>1 DEF OthersKeep, Same
<1> QED
  BY <1>2 DEF Raced

LEMMA CallStepGone ==
  ASSUME TypeInv, MutexInv, RaceInv, GoneInv, NEW c \in Call, CallStep(c)
  PROVE  GoneInv'
<1> DEFINE t == call[c].task
<1>1. CallsInv /\ disk \in [Path -> File \cup {Absent}]
  BY DEF CallsInv, TypeInv, CommitTypeOK
<1>2. OthersKeep(c) /\ Same(c) /\ t \in Task /\ Active(t) \in Path /\ Archived(t) \in Path
      /\ Active(t) # Archived(t) /\ call'[c].task = t
  BY CallStepKeeps, DiskSteps, PathsOf DEF Same
<1> SUFFICES ASSUME NEW d \in Call, call'[d].pc \in {"unlink", "tell_active", "tell_archive"}
             PROVE  disk'[Active(call[d].task)] = Absent \/ Raced(call[d].task)'
  <2>1. \A d \in Call : call'[d].task = call[d].task
    BY <1>2 DEF OthersKeep, Same
  <2> QED
    BY <2>1 DEF GoneInv, Active, Raced
<1>3. CASE d = c
  <2>1. CASE call'[c].pc = "unlink"
    BY <1>1, <1>2, <1>3, <2>1, MovesTo DEF Relocated
  <2>2. CASE call'[c].pc = "tell_active"
    BY <1>1, <1>2, <1>3, <2>2, MovesTo
  <2>3. CASE call'[c].pc = "tell_archive"
    <3>1. disk' = disk /\ call[c].pc = "tell_active"
      BY <2>3, MovesTo DEF TellActive
    <3>2. disk[Active(t)] = Absent \/ Raced(t)
      BY <3>1 DEF GoneInv
    <3> QED
      BY <1>2, <1>3, <3>1, <3>2, RacedStays
  <2> QED
    BY <1>3, <2>1, <2>2, <2>3
<1>4. CASE d # c
  <2> DEFINE u == call[d].task
  <2>1. call'[d].task = u /\ call[d].pc \in {"unlink", "tell_active", "tell_archive"}
    BY <1>2, <1>4 DEF OthersKeep
  <2>2. u \in Task /\ (disk[Active(u)] = Absent \/ Raced(u))
    BY <1>1, <2>1, TaskOf DEF GoneInv
  <2>3. ASSUME disk[Active(u)] = Absent, disk'[Active(u)] # Absent PROVE Raced(u)
    <3>1. RenameTemp(c) /\ t = u
      BY <1>1, <1>2, <2>2, <2>3, DiskSteps, PathsOf
    <3> QED
      BY <1>4, <2>1, <3>1, AloneUnraced DEF RenameTemp, Critical
  <2> QED
    BY <1>2, <2>1, <2>2, <2>3, RacedStays
<1> QED
  BY <1>3, <1>4

LEMMA CallStepArchived ==
  ASSUME TypeInv, MutexInv, ResolveInv, ArchivedInv, NEW c \in Call, CallStep(c)
  PROVE  ArchivedInv'
<1> DEFINE t == call[c].task
<1>1. CallsInv /\ disk \in [Path -> File \cup {Absent}]
  BY DEF CallsInv, TypeInv, CommitTypeOK
<1>2. OthersKeep(c) /\ Same(c) /\ t \in Task /\ CallsInv' /\ call'[c].task = t
  BY CallStepKeeps, DiskSteps DEF Same
<1> SUFFICES ASSUME NEW e \in Call, call'[e].answer = "archived"
             PROVE  /\ disk'[Archived(call'[e].task)] # Absent
                    /\ \A d \in Call : call'[d].task = call'[e].task => call'[d].pc # "unlink"
  BY DEF ArchivedInv, Archived
<1> DEFINE u == call[e].task
<1>3. call'[e].task = u
  BY <1>2 DEF OthersKeep, Same
<1>4. CASE call[e].answer = "archived"
  <2>1. u \in Task
    <3>1. CallInv(e)
      BY <1>1 DEF CallsInv
    <3> QED
      BY <1>4, <3>1 DEF CallInv
  <2>2. disk[Archived(u)] # Absent /\ \A d \in Call : call[d].task = u => call[d].pc # "unlink"
    BY <1>4 DEF ArchivedInv
  <2>3. call[c].pc = "archive" => t # u
    <3>1. call[c].pc = "archive" => CallInv(c) /\ call[c].doing = "stamp"
      BY <1>1 DEF CallsInv, CallInv, Moving
    <3> QED
      BY <2>2, <3>1 DEF ResolveInv
  <2>4. disk'[Archived(u)] # Absent
    <3>1. Archive(c) => t # u
      BY <2>3 DEF Archive
    <3>2. Unlink(c) => t # u
      BY <2>2 DEF Unlink
    <3> QED
      BY <1>1, <1>2, <2>1, <2>2, <3>1, <3>2, DiskSteps, PathsOf
  <2>5. ASSUME NEW d \in Call, call'[d].task = u PROVE call'[d].pc # "unlink"
    <3>1. CASE d = c
      BY <1>2, <2>3, <2>5, <3>1, MovesTo DEF Archive
    <3>2. CASE d # c
      BY <1>2, <2>2, <2>5, <3>2 DEF OthersKeep
    <3> QED
      BY <3>1, <3>2
  <2> QED
    BY <1>3, <2>4, <2>5
<1>5. CASE call[e].answer # "archived"
  <2>1. e = c
    BY <1>2, <1>5 DEF OthersKeep
  <2>2. (TellArchive(c) \/ OpenToResolve(c)) /\ disk' = disk
    BY <2>1, MovesTo DEF TellArchive, OpenToResolve
  <2>3. ASSUME NEW d \in Call, call'[d].pc = "unlink" PROVE FALSE
    <3>1. d # c
      <4>1. CallInv(c)' /\ call'[c].answer = "archived"
        BY <1>2, <2>1 DEF CallsInv
      <4> QED
        BY <2>3, <4>1 DEF CallInv
    <3>2. call[d].pc = "unlink" /\ CallInv(d)
      BY <1>1, <1>2, <2>3, <3>1 DEF OthersKeep, CallsInv
    <3>3. call[d].doing = "stamp"
      BY <3>2 DEF CallInv, Moving
    <3>4. CASE TellArchive(c)
      <4>1. call[c].pc = "tell_archive" /\ call[c].doing = "stamp"
        BY <1>1, <3>4, MoveKeeps DEF TellArchive
      <4> QED
        BY <3>1, <3>2, <3>3, <4>1, AloneAtTask DEF Critical
    <3>5. CASE OpenToResolve(c)
      <4>1. mutex["resolve"] = None
        BY <3>5, OpenToResolveKeeps
      <4> QED
        BY <3>2, <3>3, <4>1, AbsenceAssumption DEF MutexInv, MutexOf, Critical
    <3> QED
      BY <2>2, <3>4, <3>5
  <2>4. disk[Archived(t)] # Absent
    <3>1. CASE TellArchive(c)
      <4>1. call[c].pc = "tell_archive" /\ call[c].doing = "stamp"
        BY <1>1, <3>1, MoveKeeps DEF TellArchive
      <4> QED
        BY <4>1 DEF ResolveInv
    <3>2. CASE OpenToResolve(c)
      BY <2>1, <3>2, ResolveTells DEF AlreadyArchived
    <3> QED
      BY <2>2, <3>1, <3>2
  <2> QED
    BY <1>3, <2>1, <2>2, <2>3, <2>4
<1> QED
  BY <1>4, <1>5

\* A mover moves on, or gives the task up to the active file that is there.
LEMMA MovesStay ==
  ASSUME TypeInv, NEW c \in Call, CallStep(c), NEW u, Moves(u)
  PROVE  Moves(u)' \/ disk'[Active(u)] # Absent
<1>1. CallsInv /\ disk \in [Path -> File \cup {Absent}] /\ OthersKeep(c) /\ Same(c)
  BY CallStepKeeps DEF CallsInv, TypeInv, CommitTypeOK
<1>2. PICK d \in Call : /\ call[d].task = u
                        /\ \/ call[d].pc \in {"unlink", "tell_active", "tell_archive"}
                           \/ call[d].answer = "archived"
  BY DEF Moves
<1>3. CASE d # c
  BY <1>1, <1>2, <1>3 DEF Moves, OthersKeep
<1>4. CASE d = c
  <2>1. call[c].pc # "done" /\ CallInv(c)
    BY <1>1 DEF CallsInv, CallStep, Ingest, WriteEdge, OpenToWrite, OpenToResolve, WriteTemp, RenameTemp, Tell,
         Archive, Unlink, TellActive, TellArchive
  <2>2. call[c].pc \in {"unlink", "tell_active", "tell_archive"}
    BY <1>2, <1>4, <2>1 DEF CallInv
  <2>3. Unlink(c) \/ TellActive(c) \/ TellArchive(c)
    BY <2>2 DEF CallStep, Ingest, WriteEdge, OpenToWrite, OpenToResolve, WriteTemp, RenameTemp, Tell, Archive
  <2>4. call'[c].task = u
    BY <1>1, <1>2, <1>4 DEF Same
  <2>5. CASE call'[c].pc \in {"tell_active", "tell_archive"} \/ call'[c].answer = "archived"
    BY <2>4, <2>5 DEF Moves
  <2>6. CASE /\ disk[Active(call[c].task)] # Absent
             /\ disk' = [disk EXCEPT ![Archived(call[c].task)] = Absent]
    <3>1. u \in Task /\ Active(u) # Archived(u)
      BY <1>2, <1>4, DiskSteps, PathsOf
    <3> QED
      BY <1>1, <1>2, <1>4, <2>6, <3>1, PathsOf
  <2> QED
    BY <1>1, <2>3, <2>5, <2>6, MoveKeeps
<1> QED
  BY <1>3, <1>4

LEMMA CallStepMade ==
  ASSUME TypeInv, MadeInv, NEW c \in Call, CallStep(c)
  PROVE  MadeInv'
<1> DEFINE t == call[c].task
<1>1. CallsInv /\ disk \in [Path -> File \cup {Absent}] /\ tmp \in [Task -> File \cup {Absent}]
      /\ EdgesInv /\ \A v \in Task : edges[v] \in Seq(Option)
  BY DEF CallsInv, TypeInv, CommitTypeOK, EdgesInv
<1>2. OthersKeep(c) /\ Same(c) /\ t \in Task /\ Active(t) \in Path /\ CallInv(c) /\ call'[c].task = t
  BY <1>1, CallStepKeeps, DiskSteps DEF Same, CallsInv
<1> SUFFICES ASSUME NEW e \in Call, Made(e)', NEW u, u = call[e].task
             PROVE  disk'[Active(u)] # Absent \/ Moves(u)'
  <2>1. \A e \in Call : call'[e].task = call[e].task
    BY <1>2 DEF OthersKeep, Same
  <2> QED
    BY <2>1 DEF MadeInv, Active, Moves
<1>3. CASE Made(e)
  <2>1. u \in Task
    <3>1. call[e].pc # "idle"
      <4>1. CallInv(e)
        BY <1>1 DEF CallsInv
      <4> QED
        BY <1>3, <4>1 DEF Made, CallInv, Idle
    <3> QED
      BY <1>1, <3>1, TaskOf
  <2>2. CASE Moves(u)
    BY <2>2, MovesStay
  <2>3. CASE disk[Active(u)] # Absent
    <3>1. ASSUME disk'[Active(u)] = Absent PROVE t = u /\ (Archive(c) \/ Unlink(c)) /\ disk' # disk
      BY <1>1, <1>2, <2>1, <2>3, <3>1, DiskSteps, PathsOf
    <3>2. ASSUME disk'[Active(u)] = Absent PROVE call'[c].pc \in {"unlink", "tell_active"}
      <4>1. Active(u) # Archived(u) /\ Active(u) \in Path
        BY <2>1, PathsOf
      <4>2. disk' # [disk EXCEPT ![Archived(u)] = Absent]
        BY <1>1, <2>3, <3>2, <4>1
      <4> QED
        BY <1>1, <3>1, <3>2, <4>2, MoveKeeps
    <3> QED
      BY <1>2, <3>1, <3>2 DEF Moves
  <2> QED
    BY <1>3, <2>2, <2>3 DEF MadeInv
<1>4. CASE ~Made(e)
  <2>1. e = c
    BY <1>2, <1>4 DEF Made, OthersKeep
  <2>2. call[c].op \in {"append", "spawn"} /\ call[c].pc # "tell" /\ call[c].doing \in {"append", "spawn"}
    <3>1. call[c].op \in {"append", "spawn"} /\ call[c].pc # "idle"
      BY <1>2, <2>1, CallStepKeeps DEF Made, Same
    <3> QED
      BY <1>2, <1>4, <2>1, <3>1 DEF Made, CallInv
  <2>3. CASE RenameTemp(c)
    <3>1. tmp[t] # Absent /\ disk' = [disk EXCEPT ![Active(t)] = tmp[t]]
      <4>1. tmp[t] # Absent
        BY <1>1, <2>1, <2>2, <2>3, RenameTempKeeps DEF Made
      <4> QED
        BY <2>3, <4>1 DEF RenameTemp
    <3> QED
      BY <1>1, <1>2, <2>1, <3>1
  <2>4. CASE OpenToWrite(c)
    <3> DEFINE f == disk[Active(t)]
    <3>1. Edited(c, f) = f /\ disk' = disk
      BY <2>1, <2>2, <2>4, OpenToWriteKeeps DEF Made, OpenToWrite
    <3>2. Edited(c, f) # Absent
      <4>1. CASE call[c].doing = "append"
        BY <1>1, <1>2, <4>1, EditedKeeps DEF Write, Editing, CallsInv
      <4>2. CASE call[c].doing = "spawn"
        <5>1. Empty \in File
          BY DEF Empty, File
        <5> QED
          BY <4>2, <5>1, AbsenceAssumption DEF Edited, Spawned
      <4> QED
        BY <2>2, <4>1, <4>2
    <3> QED
      BY <2>1, <3>1, <3>2
  <2>5. CASE ~RenameTemp(c) /\ ~OpenToWrite(c)
    <3>1. ~Made(c)'
      <4>1. CASE WriteTemp(c)
        <5>1. call[c].answer # "ok"
          BY <1>2, <4>1 DEF CallInv, WriteTemp
        <5> QED
          BY <1>1, <2>2, <4>1, <5>1, WriteTempKeeps DEF Made
      <4>2. CASE Ingest(c) \/ WriteEdge(c)
        BY <1>2, <2>2, <4>2 DEF CallInv, Ingest, WriteEdge
      <4>3. CASE Tell(c) \/ OpenToResolve(c) \/ Archive(c) \/ Unlink(c) \/ TellActive(c) \/ TellArchive(c)
        BY <1>1, <2>2, <4>3, MoveKeeps DEF Tell, OpenToResolve
      <4> QED
        BY <2>5, <4>1, <4>2, <4>3 DEF CallStep
    <3> QED
      BY <2>1, <3>1
  <2> QED
    BY <2>3, <2>4, <2>5
<1> QED
  BY <1>3, <1>4

\* A step of c that leaves the files of u as they are.
LEMMA StampQuiet ==
  ASSUME NEW c \in Call, OthersKeep(c), NEW u \in Task, StampStays(u),
         disk'[Archived(u)] = disk[Archived(u)], disk'[Active(u)] = disk[Active(u)], tmp'[u] = tmp[u],
         call'[c].task = u =>
           /\ IsResolved(Active(u)) /\ call'[c].pc = "write" => call'[c].body.resolved
           /\ call'[c].doing = "stamp" =>
                /\ call'[c].pc = "write" => call'[c].body.resolved
                /\ call'[c].pc = "rename" => tmp[u] # Absent /\ tmp[u].resolved
                /\ call'[c].pc \in {"tell", "archive"} => IsResolved(Active(u))
                /\ call'[c].answer \in {"ok", "archived"} => IsResolved(Active(u)) \/ IsResolved(Archived(u))
  PROVE  StampStays(u)'
<1>1. /\ disk'[Archived(u)] # Absent => disk'[Archived(u)].resolved
      /\ IsResolved(Active(u))' /\ tmp'[u] # Absent => tmp'[u].resolved
  BY DEF StampStays, IsResolved, Active
<1>2. ASSUME NEW d \in Call, call'[d].task = u
      PROVE  /\ IsResolved(Active(u))' /\ call'[d].pc = "write" => call'[d].body.resolved
             /\ call'[d].doing = "stamp" => StampedBy(d)'
  <2>1. CASE d = c
    BY <1>2, <2>1 DEF StampedBy, IsResolved, Active, Archived
  <2>2. CASE d # c
    <3>1. /\ call[d].task = u /\ call[d].doing = call'[d].doing /\ call[d].pc = call'[d].pc
          /\ call[d].body = call'[d].body /\ call[d].answer = call'[d].answer
      BY <1>2, <2>2 DEF OthersKeep
    <3> QED
      BY <1>2, <3>1 DEF StampStays, StampedBy, IsResolved, Active, Archived
  <2> QED
    BY <2>1, <2>2
<1> QED
  BY <1>1, <1>2 DEF StampStays, Archived

LEMMA CallStepStamp ==
  ASSUME TypeInv, MutexInv, ResolveInv, RaceInv, GoneInv, StampInv, NEW c \in Call, CallStep(c)
  PROVE  StampInv'
<1>1. CallsInv /\ disk \in [Path -> File \cup {Absent}] /\ tmp \in [Task -> File \cup {Absent}]
      /\ EdgesInv /\ \A v \in Task : edges[v] \in Seq(Option)
  BY DEF CallsInv, TypeInv, CommitTypeOK, EdgesInv
<1>2. OthersKeep(c) /\ Same(c) /\ call[c].task \in Task /\ CallInv(c)
  BY <1>1, CallStepKeeps, DiskSteps DEF CallsInv
<1> SUFFICES ASSUME NEW u \in Task, ~Raced(u)' PROVE StampStays(u)'
  BY DEF StampInv
<1>3. ~Raced(u) /\ StampStays(u)
  BY <1>2, RacedStays DEF StampInv
<1>4. /\ Active(u) \in Path /\ Archived(u) \in Path /\ Active(u) # Archived(u)
      /\ disk[Active(u)] \in File \cup {Absent} /\ Absent \notin File
  BY <1>1, PathsOf, AbsenceAssumption
<1>5. CASE call[c].task # u
  <2>1. disk'[Archived(u)] = disk[Archived(u)] /\ disk'[Active(u)] = disk[Active(u)]
    BY <1>1, <1>2, <1>5, DiskSteps, PathsOf
  <2>2. tmp'[u] = tmp[u]
    <3>1. tmp' = tmp \/ tmp' = [tmp EXCEPT ![call[c].task] = call[c].body]
          \/ tmp' = [tmp EXCEPT ![call[c].task] = Absent]
      BY DEF CallStep, Ingest, WriteEdge, OpenToWrite, OpenToResolve, WriteTemp, RenameTemp, Tell,
         Archive, Unlink, TellActive, TellArchive, taskVars
    <3> QED
      BY <1>1, <1>5, <3>1
  <2> QED
    BY <1>2, <1>3, <1>5, <2>1, <2>2, StampQuiet DEF Same
<1>6. CASE call[c].task = u
  <2>1. call'[c].task = u
    BY <1>2, <1>6 DEF Same
  <2>2. call[c].doing = "stamp" => StampedBy(c)
    BY <1>3, <1>6 DEF StampStays
  <2>3. ASSUME call[c].pc \in Critical, NEW d \in Call \ {c}, call'[d].task = u
        PROVE  call[d].pc \notin Critical /\ call'[d].pc \notin Critical
    <3>1. call[d].task = u /\ call'[d].pc = call[d].pc
      BY <1>2, <2>3 DEF OthersKeep
    <3> QED
      BY <1>3, <1>6, <2>3, <3>1, AloneUnraced
  <2>4. ASSUME NEW d \in Call \ {c}, call'[d].task = u, call'[d].doing = "stamp",
               call'[d].answer \in {"ok", "archived"}
        PROVE  IsResolved(Active(u)) \/ IsResolved(Archived(u))
    <3>1. call[d].task = u /\ call[d].doing = "stamp" /\ call[d].answer \in {"ok", "archived"}
      BY <1>2, <2>4 DEF OthersKeep
    <3> QED
      BY <1>3, <3>1 DEF StampStays, StampedBy
  <2>5. CASE Ingest(c) \/ WriteEdge(c)
    <3>1. disk' = disk /\ tmp' = tmp
      BY <2>5 DEF Ingest, WriteEdge, taskVars
    <3>2. call'[c].pc \in {"done", "edge", "open"} /\ call'[c].answer \notin {"ok", "archived"}
      BY <1>1, <2>5, IngestKeeps, WriteEdgeKeeps
    <3> QED
      BY <1>2, <1>3, <3>1, <3>2, StampQuiet
  <2>6. CASE OpenToWrite(c)
    <3>1. disk' = disk /\ tmp' = tmp /\ call'[c].doing # "stamp" /\ call[c].doing \in Write
      BY <2>6, OpenToWriteKeeps DEF OpenToWrite, Write, Editing
    <3>2. ASSUME IsResolved(Active(u)), call'[c].pc = "write" PROVE call'[c].body.resolved
      <4>1. call'[c].body = Edited(c, disk[Active(u)])
        BY <1>6, <2>6, <3>2, OpenToWriteKeeps
      <4> QED
        BY <1>4, <3>1, <3>2, <4>1, EditedResolved DEF IsResolved
    <3> QED
      BY <1>2, <1>3, <3>1, <3>2, StampQuiet
  <2>7. CASE OpenToResolve(c)
    <3>1. disk' = disk /\ tmp' = tmp /\ call'[c].pc \in {"done", "write", "archive"}
      BY <2>7, OpenToResolveKeeps DEF OpenToResolve
    <3>2. AlreadyArchived(u) => IsResolved(Archived(u))
      BY <1>3 DEF AlreadyArchived, StampStays, IsResolved
    <3> QED
      BY <1>2, <1>3, <1>6, <2>7, <3>1, <3>2, StampQuiet, ResolveTells
  <2>8. CASE WriteTemp(c)
    <3>1. /\ disk' = disk /\ call[c].pc = "write" /\ call[c].body \in File
          /\ call'[c].pc = "rename" /\ call'[c].doing = call[c].doing /\ call'[c].answer = "none"
      <4>1. call[c].answer = "none"
        BY <1>2, <2>8 DEF CallInv, WriteTemp
      <4> QED
        BY <1>1, <2>8, <4>1, WriteTempKeeps DEF WriteTemp
    <3>2. tmp'[u] = call[c].body
      BY <1>1, <1>6, <2>8 DEF WriteTemp
    <3>3. IsResolved(Active(u)) \/ call[c].doing = "stamp" => tmp'[u].resolved /\ tmp'[u] # Absent
      BY <1>3, <1>4, <1>6, <2>2, <3>1, <3>2 DEF StampStays, StampedBy
    <3>4. IsResolved(Active(u))' <=> IsResolved(Active(u))
      BY <3>1 DEF IsResolved, Active
    <3>5. ASSUME NEW d \in Call, call'[d].task = u
          PROVE  /\ IsResolved(Active(u))' /\ call'[d].pc = "write" => call'[d].body.resolved
                 /\ call'[d].doing = "stamp" => StampedBy(d)'
      <4>1. CASE d = c
        BY <2>1, <3>1, <3>3, <4>1 DEF StampedBy
      <4>2. CASE d # c
        <5>1. call'[d].pc \notin Critical
          BY <2>3, <3>1, <3>5, <4>2 DEF Critical
        <5> QED
          BY <2>4, <3>1, <3>5, <4>2, <5>1 DEF StampedBy, Critical, IsResolved, Active, Archived
      <4> QED
        BY <4>1, <4>2
    <3> QED
      BY <1>3, <3>1, <3>3, <3>4, <3>5 DEF StampStays, Archived
  <2>9. CASE RenameTemp(c)
    <3>1. call[c].pc = "rename" /\ call'[c].doing = call[c].doing
      BY <1>1, <2>9, RenameTempKeeps
    <3>2. CASE tmp[u] = Absent
      <4>1. disk' = disk /\ tmp' = tmp /\ call'[c].pc = "done" /\ call'[c].answer = "error"
        BY <1>1, <1>6, <2>9, <3>2, RenameTempKeeps DEF RenameTemp
      <4> QED
        BY <1>2, <1>3, <4>1, StampQuiet
    <3>3. CASE tmp[u] # Absent
      <4>1. /\ disk' = [disk EXCEPT ![Active(u)] = tmp[u]] /\ tmp' = [tmp EXCEPT ![u] = Absent]
            /\ call'[c].pc = "tell" /\ call'[c].answer = "none"
        <5>1. call[c].answer = "none"
          BY <1>2, <3>1 DEF CallInv
        <5> QED
          BY <1>1, <1>6, <2>9, <3>3, <5>1, RenameTempKeeps DEF RenameTemp
      <4>2. disk'[Active(u)] = tmp[u] /\ disk'[Archived(u)] = disk[Archived(u)] /\ tmp'[u] = Absent
        BY <1>1, <1>4, <4>1
      <4>3. IsResolved(Active(u)) \/ call[c].doing = "stamp" => tmp[u].resolved
        BY <1>3, <1>6, <2>2, <3>1, <3>3 DEF StampStays, StampedBy
      <4>4. IsResolved(Active(u)) \/ call[c].doing = "stamp" => IsResolved(Active(u))'
        BY <3>3, <4>2, <4>3 DEF IsResolved, Active
      <4>5. IsResolved(Archived(u)) => IsResolved(Archived(u))'
        BY <4>2 DEF IsResolved, Archived
      <4>6. ASSUME NEW d \in Call, call'[d].task = u
            PROVE  call'[d].pc # "write" /\ (call'[d].doing = "stamp" => StampedBy(d)')
        <5>1. CASE d = c
          BY <2>1, <3>1, <4>1, <4>4, <5>1 DEF StampedBy, Active
        <5>2. CASE d # c
          <6>1. call'[d].pc \notin Critical
            BY <2>3, <3>1, <4>6, <5>2 DEF Critical
          <6>2. call'[d].doing = "stamp" /\ call'[d].answer \in {"ok", "archived"} =>
                  IsResolved(Active(u))' \/ IsResolved(Archived(u))'
            BY <2>4, <4>4, <4>5, <4>6, <5>2
          <6> QED
            BY <4>6, <6>1, <6>2 DEF StampedBy, Critical, Active, Archived, IsResolved
        <5> QED
          BY <5>1, <5>2
      <4> QED
        BY <1>3, <4>2, <4>6 DEF StampStays, Archived
    <3> QED
      BY <3>2, <3>3
  <2>10. CASE Tell(c)
    <3>1. disk' = disk /\ tmp' = tmp /\ call[c].pc = "tell"
      BY <2>10 DEF Tell
    <3>2. call[c].doing = "stamp" => IsResolved(Active(u))
      BY <1>6, <2>2, <3>1 DEF StampedBy
    <3>3. /\ call'[c].pc \in {"open", "archive", "done"}
          /\ call'[c].doing = "stamp" => call[c].doing = "stamp"
      BY <1>1, <2>10, TellKeeps
    <3> QED
      BY <1>2, <1>3, <3>1, <3>2, <3>3, StampQuiet
  <2>11. CASE Archive(c)
    <3>1. call[c].pc = "archive" /\ tmp' = tmp /\ call[c].doing = "stamp"
      BY <1>1, <2>11, MoveKeeps DEF Archive
    <3>2. CASE disk' = disk /\ call'[c].pc = "done" /\ call'[c].answer = "error"
      BY <1>2, <1>3, <3>1, <3>2, StampQuiet
    <3>3. CASE Relocated(c) /\ call'[c].pc = "unlink"
      <4>1. IsResolved(Active(u)) /\ call'[c].answer = "none"
        <5>1. CallsInv'
          BY CallStepKeeps
        <5>2. CallInv(c)'
          BY <5>1 DEF CallsInv
        <5> QED
          BY <1>6, <2>2, <3>1, <3>3, <5>2 DEF StampedBy, CallInv
      <4>2. disk'[Archived(u)] = disk[Active(u)] /\ disk'[Active(u)] = Absent
        BY <1>1, <1>4, <1>6, <3>3 DEF Relocated
      <4>3. IsResolved(Archived(u))' /\ ~IsResolved(Active(u))'
        BY <4>1, <4>2 DEF IsResolved, Active, Archived
      <4>4. ASSUME NEW d \in Call, call'[d].task = u, call'[d].doing = "stamp" PROVE StampedBy(d)'
        <5>1. CASE d = c
          BY <3>3, <4>1, <5>1 DEF StampedBy
        <5>2. CASE d # c
          <6>1. call'[d].pc \notin Critical
            BY <2>3, <3>1, <4>4, <5>2 DEF Critical
          <6> QED
            BY <4>3, <4>4, <6>1 DEF StampedBy, Critical, Archived, IsResolved
        <5> QED
          BY <5>1, <5>2
      <4> QED
        BY <4>3, <4>4 DEF StampStays, IsResolved, Archived
    <3> QED
      BY <1>1, <2>11, <3>2, <3>3, MoveKeeps
  <2>12. CASE Unlink(c)
    <3>1. call[c].pc = "unlink" /\ tmp' = tmp /\ disk[Active(u)] = Absent
      <4>1. call[c].pc = "unlink" /\ tmp' = tmp
        BY <2>12 DEF Unlink
      <4> QED
        BY <1>3, <1>6, <4>1 DEF GoneInv
    <3>2. call'[c].pc = "tell_active" /\ disk' = [disk EXCEPT ![Active(u)] = Absent]
      BY <1>1, <1>6, <2>12, <3>1, MoveKeeps
    <3>3. disk'[Archived(u)] = disk[Archived(u)] /\ disk'[Active(u)] = disk[Active(u)]
      BY <1>1, <1>4, <3>1, <3>2
    <3>4. call'[c].answer = "none"
      <4>1. CallsInv'
        BY CallStepKeeps
      <4> QED
        BY <3>2, <4>1 DEF CallsInv, CallInv
    <3> QED
      BY <1>2, <1>3, <3>1, <3>2, <3>3, <3>4, StampQuiet
  <2>13. CASE TellActive(c) \/ TellArchive(c)
    <3>1. /\ disk' = disk /\ tmp' = tmp /\ call[c].doing = "stamp"
          /\ call[c].pc \in {"tell_active", "tell_archive"} /\ call'[c].pc \in {"tell_archive", "done"}
      BY <1>1, <2>13, MoveKeeps DEF TellActive, TellArchive, taskVars
    <3>2. IsResolved(Archived(u))
      BY <1>3, <1>6, <3>1 DEF ResolveInv, StampStays, IsResolved
    <3> QED
      BY <1>2, <1>3, <3>1, <3>2, StampQuiet
  <2> QED
    BY <2>5, <2>6, <2>7, <2>8, <2>9, <2>10, <2>11, <2>12, <2>13 DEF CallStep
<1> QED
  BY <1>5, <1>6

-----------------------------------------------------------------------------
(* Starts, and the committer.                                                *)

\* What a call's start leaves behind.
LEMMA StartingKeeps ==
  ASSUME TypeInv, MutexInv, Starting
  PROVE  \E c \in Call : /\ call[c] = Idle /\ Started(call'[c]) /\ OthersKeep(c) /\ CallsInv'
                         /\ \A t \in Task : Resolving(t)' <=> Resolving(t)
                         /\ UNCHANGED <<disk, commitVars, taskVars>>
<1>1. CallsInv /\ kind \in [Task -> Kind]
  BY DEF TypeInv, CallsInv
<1>2. PICK c \in Call, r \in CallRecord :
        /\ call[c].pc = "idle" /\ Started(r) /\ call' = [call EXCEPT ![c] = r]
        /\ UNCHANGED <<disk, commitVars, taskVars>>
  BY <1>1, StartingBegins
<1>3. call[c] = Idle
  BY <1>1, <1>2 DEF CallsInv, CallInv
<1>4. kind' = kind /\ mutex' = mutex
  BY <1>2 DEF taskVars
<1>5. CallsInv' /\ OthersKeep(c) /\ call'[c] = r
  BY <1>1, <1>2, <1>4, StartKeeps
<1>6. mutex["resolve"] # c
  BY <1>2 DEF MutexInv, Critical, TypeInv
<1>7. ASSUME NEW t \in Task PROVE Resolving(t)' <=> Resolving(t)
  <2>1. mutex["resolve"] \in Call \cup {None}
    BY DEF TypeInv
  <2>2. mutex["resolve"] # None => call'[mutex["resolve"]].task = call[mutex["resolve"]].task
    BY <1>5, <1>6, <2>1 DEF OthersKeep
  <2> QED
    BY <1>4, <2>2 DEF Resolving
<1> QED
  BY <1>2, <1>3, <1>5, <1>7

LEMMA StartingStays ==
  ASSUME StateInv, FileInv, AppendInv, PickInv, Starting
  PROVE  FileInv' /\ AppendInv' /\ PickInv'
<1>1. TypeInv /\ MutexInv /\ ResolveInv /\ TmpInv /\ RaceInv /\ CallsInv
  BY DEF StateInv, FileInv, CallsInv, TypeInv
<1>2. PICK c \in Call : /\ call[c] = Idle /\ Started(call'[c]) /\ OthersKeep(c) /\ CallsInv'
                        /\ \A t \in Task : Resolving(t)' <=> Resolving(t)
                        /\ UNCHANGED <<disk, commitVars, taskVars>>
  BY <1>1, StartingKeeps
<1>3. disk' = disk /\ tmp' = tmp /\ edges' = edges
  BY <1>2 DEF taskVars
<1>4. /\ call[c].pc = "idle" /\ call[c].op = "append" /\ call[c].doing = "append" /\ call[c].answer = "none"
      /\ call'[c].pc \in {"open", "ingest", "done"} /\ call'[c].task \in Task
      /\ call'[c].op = "append" => call'[c].pc = "open" /\ call'[c].doing = "append" /\ call'[c].answer = "none"
      /\ call'[c].op = "pick" => call'[c].doing = "pick" /\ call'[c].pc # "edge"
  BY <1>2 DEF Idle, Started
<1>5. ResolveInv'
  <2> SUFFICES ASSUME NEW d \in Call, call'[d].doing = "stamp"
               PROVE  LET t == call'[d].task IN
                      /\ call'[d].pc \in {"write", "rename", "tell", "archive"} =>
                           disk'[Archived(t)] = Absent /\ disk'[Active(t)] # Absent
                      /\ call'[d].pc \in {"unlink", "tell_active", "tell_archive"} =>
                           disk'[Archived(t)] # Absent
    BY DEF ResolveInv, Active, Archived
  <2>1. CASE d = c
    BY <1>4, <2>1
  <2>2. CASE d # c
    BY <1>1, <1>2, <1>3, <2>2 DEF ResolveInv, OthersKeep
  <2> QED
    BY <2>1, <2>2
<1>6. TmpInv'
  BY <1>1, <1>2, <1>3, <1>4 DEF TmpInv, OthersKeep
<1>7. RaceInv'
  <2> DEFINE Taken(t) == mutex'["resolve"] # None /\ call'[mutex'["resolve"]].task = t
  <2>1. \A t \in Task : Taken(t) <=> Resolving(t)
    BY <1>2 DEF Resolving
  <2>2. call'[c].raced = (call'[c].op \in Editing /\ Taken(call'[c].task))
    <3>1. call'[c].raced = (call'[c].op \in Editing
                            /\ (mutex'["resolve"] # None /\ call'[mutex'["resolve"]].task = call'[c].task))
      BY <1>2 DEF Started, Resolving
    <3> QED
      BY <3>1
  <2>3. ASSUME NEW d \in Call, call'[d].op \in Editing, call'[d].pc \notin {"idle", "done"}, ~call'[d].raced
        PROVE  ~Taken(call'[d].task)
    <3>1. CASE d = c
      BY <2>2, <2>3, <3>1
    <3>2. CASE d # c
      <4>1. /\ call[d].op \in Editing /\ Running(d) /\ ~call[d].raced /\ call'[d].task = call[d].task
        BY <1>2, <2>3, <3>2 DEF OthersKeep, Running
      <4>2. call[d].task \in Task /\ ~Resolving(call[d].task)
        BY <1>1, <4>1, TaskOf DEF RaceInv, Running
      <4> QED
        BY <2>1, <4>1, <4>2
    <3> QED
      BY <3>1, <3>2
  <2> QED
    BY <2>3 DEF RaceInv, Running, Resolving
<1>8. AppendInv'
  <2> SUFFICES ASSUME NEW e \in Call, call'[e].op = "append", ~call'[e].raced
               PROVE  /\ call'[e].doing = "append" /\ call'[e].pc = "write" => e \in TextLines(call'[e].body)
                      /\ call'[e].doing = "append" /\ call'[e].pc = "rename" =>
                           tmp'[call'[e].task] # Absent /\ e \in TextLines(tmp'[call'[e].task])
                      /\ Landed(e)' => Excused(e)' \/ Safe(e)'
    BY DEF AppendInv, TextLines
  <2>1. CASE e = c
    BY <1>4, <2>1 DEF Landed
  <2>2. CASE e # c
    <3>1. /\ call[e].op = "append" /\ ~call[e].raced /\ call'[e].task = call[e].task
          /\ Landed(e)' => Landed(e)
      BY <1>2, <2>2 DEF OthersKeep, Landed
    <3>2. Excused(e) => Excused(e)'
      BY <1>2, <1>4, <3>1 DEF Excused, OthersKeep
    <3>3. Safe(e) => Safe(e)'
      BY <1>2, <1>3, <1>4, <3>1 DEF Safe, OthersKeep
    <3> QED
      BY <1>2, <1>3, <2>2, <3>1, <3>2, <3>3 DEF AppendInv, OthersKeep
  <2> QED
    BY <2>1, <2>2
<1>9. PickInv'
  <2>1. PicksTold' => PickInv'
    BY <1>2, PickInvIs, PTL
  <2>2. PicksTold
    BY <1>1, PickInvIs DEF PickInv
  <2>3. ASSUME NEW d \in Call, NEW t \in Task, NEW o \in Option, call'[d].task = t, Told(d, o)'
        PROVE  Kept(t, o)'
    <3>1. d # c
      BY <1>4, <2>3 DEF Told
    <3>2. call[d].task = t /\ Told(d, o)
      BY <1>2, <2>3, <3>1 DEF Told, OthersKeep
    <3>3. Kept(t, o)
      BY <2>2, <3>2 DEF PicksTold
    <3> QED
      BY <1>2, <1>3, <1>4, <3>3 DEF Kept, OthersKeep
  <2> QED
    BY <2>1, <2>3 DEF PicksTold
<1> QED
  BY <1>5, <1>6, <1>7, <1>8, <1>9 DEF FileInv

\* A start adds a call that has done nothing yet.
LEMMA StartingTold ==
  ASSUME StateInv, ToldInv, Starting
  PROVE  ToldInv'
<1>1. TypeInv /\ MutexInv /\ GoneInv /\ ArchivedInv /\ MadeInv /\ StampInv
  BY DEF StateInv, ToldInv
<1>2. PICK c \in Call : /\ call[c] = Idle /\ Started(call'[c]) /\ OthersKeep(c) /\ CallsInv'
                        /\ UNCHANGED <<disk, commitVars, taskVars>>
  BY <1>1, StartingKeeps
<1>3. disk' = disk /\ tmp' = tmp
  BY <1>2 DEF taskVars
<1>4. /\ call[c].pc = "idle" /\ call[c].answer = "none" /\ call[c].raced = FALSE
      /\ call'[c].pc \in {"open", "ingest", "done"} /\ call'[c].answer \in {"none", "not_found"}
      /\ call'[c].doing # "refs"
  <2>1. call'[c].op \in Op /\ call'[c].doing = IF call'[c].op = "resolve" THEN "stamp" ELSE call'[c].op
    BY <1>2 DEF Started, CallRecord
  <2> QED
    BY <1>2, <2>1 DEF Idle, Started, Op
<1>5. ASSUME NEW u, Raced(u) PROVE Raced(u)'
  <2>1. PICK d \in Call : call[d].task = u /\ call[d].raced
    BY <1>5 DEF Raced
  <2>2. d # c
    BY <1>4, <2>1
  <2> QED
    BY <1>2, <2>1, <2>2 DEF Raced, OthersKeep
<1>6. ASSUME NEW u, Moves(u) PROVE Moves(u)'
  <2>1. PICK d \in Call : /\ call[d].task = u
                          /\ \/ call[d].pc \in {"unlink", "tell_active", "tell_archive"}
                             \/ call[d].answer = "archived"
    BY <1>6 DEF Moves
  <2>2. d # c
    BY <1>4, <2>1
  <2> QED
    BY <1>2, <2>1, <2>2 DEF Moves, OthersKeep
<1>7. GoneInv'
  <2> SUFFICES ASSUME NEW d \in Call, call'[d].pc \in {"unlink", "tell_active", "tell_archive"},
                      NEW u, u = call'[d].task
               PROVE  disk'[Active(u)] = Absent \/ Raced(u)'
    BY DEF GoneInv, Active, Raced
  <2>1. d # c
    BY <1>4
  <2>2. call[d].task = u /\ call[d].pc \in {"unlink", "tell_active", "tell_archive"}
    BY <1>2, <2>1 DEF OthersKeep
  <2> QED
    BY <1>1, <1>3, <1>5, <2>2 DEF GoneInv
<1>8. ArchivedInv'
  <2> SUFFICES ASSUME NEW e \in Call, call'[e].answer = "archived", NEW u, u = call'[e].task
               PROVE  /\ disk'[Archived(u)] # Absent
                      /\ \A d \in Call : call'[d].task = u => call'[d].pc # "unlink"
    BY DEF ArchivedInv, Archived
  <2>1. call[e].answer = "archived" /\ call[e].task = u
    BY <1>2, <1>4 DEF OthersKeep
  <2> QED
    BY <1>1, <1>2, <1>3, <1>4, <2>1 DEF ArchivedInv, OthersKeep
<1>9. MadeInv'
  <2> SUFFICES ASSUME NEW e \in Call, Made(e)', NEW u, u = call'[e].task
               PROVE  disk'[Active(u)] # Absent \/ Moves(u)'
    BY DEF MadeInv, Active, Moves
  <2>1. e # c
    BY <1>4 DEF Made
  <2>2. Made(e) /\ call[e].task = u
    BY <1>2, <2>1 DEF Made, OthersKeep
  <2> QED
    BY <1>1, <1>3, <1>6, <2>2 DEF MadeInv
<1>10. StampInv'
  <2> SUFFICES ASSUME NEW u \in Task, ~Raced(u)' PROVE StampStays(u)'
    BY DEF StampInv
  <2>1. StampStays(u)
    BY <1>1, <1>5 DEF StampInv
  <2> QED
    BY <1>2, <1>3, <1>4, <2>1, StampQuiet
<1> QED
  BY <1>7, <1>8, <1>9, <1>10 DEF ToldInv

\* Everything but the last conjunct, which is about the committer.
FilesInv == StateInv /\ FileInv /\ AppendInv /\ PickInv /\ ToldInv

LEMMA ToldStutters ==
  ASSUME ToldInv, UNCHANGED <<disk, tmp, call>>
  PROVE  ToldInv'
<1>1. GoneInv'
  BY DEF ToldInv, GoneInv, Raced, Active
<1>2. ArchivedInv'
  BY DEF ToldInv, ArchivedInv, Archived
<1>3. MadeInv'
  BY DEF ToldInv, MadeInv, Made, Moves, Active
<1>4. StampInv'
  BY DEF ToldInv, StampInv, StampStays, StampedBy, IsResolved, Raced, Active, Archived
<1> QED
  BY <1>1, <1>2, <1>3, <1>4 DEF ToldInv

LEMMA NextFiles ==
  ASSUME FilesInv, Next
  PROVE  FilesInv'
<1>1. /\ StateInv /\ FileInv /\ AppendInv /\ PickInv /\ ToldInv
      /\ TypeInv /\ MutexInv /\ ResolveInv /\ TmpInv /\ RaceInv
      /\ GoneInv /\ ArchivedInv /\ MadeInv /\ StampInv
  BY DEF FilesInv, StateInv, FileInv, ToldInv
<1>2. StateInv'
  BY <1>1, NextTypes DEF StateInv
<1>3. CASE Starting
  BY <1>1, <1>2, <1>3, StartingStays, StartingTold DEF FilesInv
<1>4. CASE \E c \in Call : CallStep(c)
  <2>1. PICK c \in Call : CallStep(c)
    BY <1>4
  <2>2. FileInv'
    BY <1>1, <2>1, CallStepResolve, CallStepTmp, CallStepRace DEF FileInv
  <2>3. ToldInv'
    BY <1>1, <2>1, CallStepGone, CallStepArchived, CallStepMade, CallStepStamp DEF ToldInv
  <2> QED
    BY <1>1, <1>2, <2>1, <2>2, <2>3, CallStepAppend, CallStepPick DEF FilesInv
<1>5. CASE CommitterStep /\ UNCHANGED <<taskVars, call>>
  <2>1. disk' = disk
    BY <1>1, <1>5, CommitterTypes DEF TypeInv, CommitTyped
  <2>2. tmp' = tmp /\ mutex' = mutex /\ edges' = edges /\ call' = call
    BY <1>5 DEF taskVars
  <2>3. FileInv'
    BY <1>1, <2>1, <2>2 DEF FileInv, ResolveInv, TmpInv, RaceInv, Running, Resolving
  <2>4. AppendInv'
    BY <1>1, <2>1, <2>2 DEF AppendInv, Landed, Excused, Safe
  <2>5. PickInv'
    BY <1>1, <2>2 DEF PickInv, Kept
  <2>6. ToldInv'
    BY <1>1, <2>1, <2>2, ToldStutters
  <2> QED
    BY <1>2, <2>3, <2>4, <2>5, <2>6 DEF FilesInv
<1> QED
  BY <1>3, <1>4, <1>5 DEF Next, Starting, FilesInv


-----------------------------------------------------------------------------
(* Every write reaches HEAD.                                                 *)

\* What git knows of a path after a commit of others.
Unmoved(p) == index'[p] = index[p] /\ head'[p] \in {index[p], head[p]}

Covered(p) == Recorded(p) \/ p \in missed \/ Batched(p)

LEMMA GitCommitKeeps ==
  ASSUME CommitTyped, IndexInv, NEW paths \in SUBSET Path, GitCommit(paths), disk' = disk
  PROVE  /\ IndexInv'
         /\ \A p \in paths : Recorded(p)' \/ p \in missed'
         /\ \A p \in Path \ paths : /\ Unmoved(p)
                                    /\ Recorded(p) => Recorded(p)'
                                    /\ p \in missed => p \in missed'
<1>1. {disk, index, head} \subseteq [Path -> File \cup {Absent}] /\ missed \subseteq Path
  BY DEF CommitTyped, CommitTypeOK
<1>2. CASE index' = Staged(paths) /\ head' = Staged(paths) /\ missed' = missed \ paths
  <2>1. \A p \in paths : index'[p] = disk[p] /\ head'[p] = disk[p]
    BY <1>2 DEF Staged
  <2>2. \A p \in Path \ paths : index'[p] = index[p] /\ head'[p] = index[p]
    BY <1>2 DEF Staged
  <2>3. IndexInv'
    BY <2>1, <2>2 DEF IndexInv
  <2>4. \A p \in paths : Recorded(p)'
    BY <2>1 DEF Recorded
  <2> QED
    BY <1>2, <2>2, <2>3, <2>4 DEF Recorded, Unmoved
<1>3. CASE missed' = missed \cup {p \in paths : ~Unknown(p)} /\ UNCHANGED <<index, head>>
  <2>1. IndexInv'
    BY <1>3 DEF IndexInv
  <2>2. ASSUME NEW p \in paths PROVE Recorded(p)' \/ p \in missed'
    BY <1>3 DEF Unknown, Recorded, IndexInv
  <2> QED
    BY <1>3, <2>1, <2>2 DEF Recorded, Unmoved
<1>4. CASE /\ missed' = missed \cup paths /\ UNCHANGED head
           /\ UNCHANGED index \/ index' = Staged(paths)
  <2>1. \A p \in Path \ paths : index'[p] = index[p]
    BY <1>4 DEF Staged
  <2>2. IndexInv'
    BY <1>4, <2>1 DEF IndexInv
  <2> QED
    BY <1>4, <2>1, <2>2 DEF Recorded, Unmoved
<1> QED
  BY <1>2, <1>3, <1>4 DEF GitCommit

LEMMA OnWriteKeeps ==
  ASSUME CommitTyped, IndexInv, NEW p \in Path, OnWrite(p), disk' = disk
  PROVE  /\ IndexInv' /\ Covered(p)'
         /\ \A q \in Path \ {p} : /\ Unmoved(q) /\ (Batched(q)' <=> Batched(q))
                                  /\ Covered(q) => Covered(q)'
<1>1. CASE debounced /\ closed
  <2>1. missed' = missed \cup {p} /\ UNCHANGED <<index, head, pending, flushing>>
    BY <1>1 DEF OnWrite, AppendPending, batch
  <2> QED
    BY <2>1 DEF IndexInv, Covered, Batched, Recorded, Unmoved
<1>2. CASE debounced /\ ~closed
  <2>1. pending' = pending \cup {p} /\ UNCHANGED <<flushing, index, head, missed>>
    BY <1>2 DEF OnWrite, AppendPending, git
  <2> QED
    BY <2>1 DEF IndexInv, Covered, Batched, Recorded, Unmoved
<1>3. CASE ~debounced
  <2>1. GitCommit({p}) /\ UNCHANGED <<pending, flushing>>
    BY <1>3 DEF OnWrite, batch
  <2>2. /\ IndexInv' /\ (Recorded(p)' \/ p \in missed')
        /\ \A q \in Path \ {p} : Unmoved(q) /\ (Recorded(q) => Recorded(q)') /\ (q \in missed => q \in missed')
    BY <2>1, GitCommitKeeps
  <2>3. \A q \in Path : Batched(q)' <=> Batched(q)
    BY <2>1 DEF Batched
  <2> QED
    BY <2>2, <2>3 DEF Covered
<1> QED
  BY <1>1, <1>2, <1>3

LEMMA CommitterKeeps ==
  ASSUME CommitTyped, IndexInv, CommitterStep
  PROVE  /\ IndexInv'
         /\ \A p \in Path : /\ Covered(p) => Covered(p)'
                            /\ Batched(p)' => Batched(p)
                            /\ ~Batched(p) => Unmoved(p)
<1>1. CASE FireFlush \/ Close
  <2>1. pending' = {} /\ flushing' = Drain /\ UNCHANGED <<disk, index, head, missed>>
    BY <1>1 DEF FireFlush, Close, git
  <2>2. \A p \in Path : Batched(p)' <=> Batched(p)
    BY <2>1, DrainIs DEF Batched
  <2>3. \A p \in Path : Recorded(p)' <=> Recorded(p)
    BY <2>1 DEF Recorded
  <2> QED
    BY <2>1, <2>2, <2>3 DEF IndexInv, Covered, Unmoved
<1>2. CASE CommitBatch
  <2>1. PICK k \in DOMAIN flushing : /\ GitCommit(flushing[k]) /\ flushing' = RemoveAt(flushing, k)
                                     /\ UNCHANGED <<disk, pending>>
    BY <1>2 DEF CommitBatch
  <2> DEFINE paths == flushing[k]
  <2>2. /\ paths \in SUBSET Path
        /\ \A i \in DOMAIN flushing : i # k => \E j \in DOMAIN flushing' : flushing'[j] = flushing[i]
        /\ \A j \in DOMAIN flushing' : \E i \in DOMAIN flushing : flushing'[j] = flushing[i]
    BY <2>1, DoneBatch
  <2>3. /\ IndexInv'
        /\ \A p \in paths : Recorded(p)' \/ p \in missed'
        /\ \A p \in Path \ paths : Unmoved(p) /\ (Recorded(p) => Recorded(p)') /\ (p \in missed => p \in missed')
    BY <2>1, <2>2, GitCommitKeeps
  <2>4. \A p \in Path : Batched(p)' => Batched(p)
    BY <2>1, <2>2 DEF Batched
  <2>5. \A p \in Path \ paths : Batched(p) => Batched(p)'
    BY <2>1, <2>2 DEF Batched
  <2>6. \A p \in Path : ~Batched(p) => p \notin paths
    BY <2>1 DEF Batched
  <2> HIDE DEF paths
  <2> QED
    BY <2>3, <2>4, <2>5, <2>6 DEF Covered
<1> QED
  BY <1>1, <1>2 DEF CommitterStep


Leaving == {"unlink", "tell_active", "tell_archive"}

\* The archive of t is not yet git's business.
Waiting(t) == \/ disk[Archived(t)] = Absent
              \/ \E c \in Call : call[c].task = t /\ call[c].pc \in Leaving
Untold(t) == index[Archived(t)] = Absent /\ head[Archived(t)] = Absent /\ ~Batched(Archived(t))

LEMMA UntoldIs == UntoldInv <=> \A t \in Task : Waiting(t) => Untold(t)
BY DEF UntoldInv, Waiting, Untold, Leaving

LEMMA CoverIs == CoverInv <=> \A p \in Path : Covered(p) \/ \E c \in Call : p \in Owes(c)
BY DEF CoverInv, Covered

\* What the others owe they still owe, unless the file came back.
LEMMA OwesKeeps ==
  ASSUME NEW c \in Call, OthersKeep(c), NEW d \in Call \ {c}, NEW q, q \in Owes(d),
         disk'[q] = Absent \/ disk'[q] = disk[q]
  PROVE  q \in Owes(d)'
<1>1. call'[d].pc = call[d].pc /\ call'[d].task = call[d].task
  BY DEF OthersKeep
<1> QED
  BY <1>1 DEF Owes

\* A step that changes no file and tells nobody.
LEMMA IdleCommit ==
  ASSUME CommitInv, NEW c \in Call, OthersKeep(c), UNCHANGED <<disk, index, head, missed, pending, flushing>>,
         Owes(c) = {}, call'[c].pc \notin Leaving
  PROVE  CommitInv'
<1>1. IndexInv'
  BY DEF CommitInv, IndexInv
<1>2. CoverInv'
  <2> SUFFICES ASSUME NEW p \in Path PROVE Covered(p)' \/ \E d \in Call : p \in Owes(d)'
    BY DEF CoverInv, Covered
  <2>1. CASE Covered(p)
    BY <2>1 DEF Covered, Recorded, Batched
  <2>2. CASE \E d \in Call : p \in Owes(d)
    BY <2>2, OwesKeeps
  <2> QED
    BY <2>1, <2>2, CoverIs DEF CommitInv
<1>3. UntoldInv'
  <2> SUFFICES ASSUME NEW t \in Task, Waiting(t)' PROVE Untold(t)'
    BY DEF UntoldInv, Waiting, Untold, Leaving
  <2>1. Waiting(t)
    BY DEF Waiting, OthersKeep
  <2>2. Untold(t)
    BY <2>1, UntoldIs DEF CommitInv
  <2> QED
    BY <2>2 DEF Untold, Batched
<1> QED
  BY <1>1, <1>2, <1>3 DEF CommitInv

\* A file changes, and the call owes the change.
LEMMA WriteCommit ==
  ASSUME TypeInv, MutexInv, ResolveInv, CommitInv, NEW c \in Call, RenameTemp(c) \/ Archive(c) \/ Unlink(c)
  PROVE  CommitInv'
<1> DEFINE t == call[c].task
<1>1. CallStep(c) /\ CallsInv /\ disk \in [Path -> File \cup {Absent}]
  BY DEF CallStep, CallsInv, TypeInv, CommitTypeOK
<1>2. OthersKeep(c) /\ Same(c) /\ t \in Task /\ Active(t) \in Path /\ Archived(t) \in Path
      /\ Active(t) # Archived(t) /\ call'[c].task = t
  BY <1>1, CallStepKeeps, DiskSteps, PathsOf DEF Same
<1>3. UNCHANGED <<index, head, missed, pending, flushing>>
  BY DEF RenameTemp, Archive, Unlink, commitVars, git, batch
<1>4. IndexInv'
  BY <1>3 DEF CommitInv, IndexInv
<1>5. ASSUME NEW p \in Path, disk'[p] = disk[p], Covered(p) PROVE Covered(p)'
  BY <1>3, <1>5 DEF Covered, Recorded, Batched
<1>6. ASSUME \A p \in Path : \/ p \in Owes(c)' \/ Covered(p)'
                             \/ disk'[p] = disk[p] /\ p \notin Owes(c)
      PROVE  CoverInv'
  <2> SUFFICES ASSUME NEW p \in Path PROVE Covered(p)' \/ \E d \in Call : p \in Owes(d)'
    BY DEF CoverInv, Covered
  <2>1. CASE p \in Owes(c)' \/ Covered(p)'
    BY <2>1
  <2>2. CASE disk'[p] = disk[p] /\ p \notin Owes(c)
    <3>1. Covered(p) \/ \E d \in Call \ {c} : p \in Owes(d)
      BY <2>2, CoverIs DEF CommitInv
    <3> QED
      BY <1>2, <1>5, <2>2, <3>1, OwesKeeps
  <2> QED
    BY <1>6, <2>1, <2>2
<1>7. ASSUME \A s \in Task : Waiting(s)' => Waiting(s) PROVE UntoldInv'
  <2> SUFFICES ASSUME NEW s \in Task, Waiting(s)' PROVE Untold(s)'
    BY DEF UntoldInv, Waiting, Untold, Leaving
  <2>1. Untold(s)
    BY <1>7, UntoldIs DEF CommitInv
  <2> QED
    BY <1>3, <2>1 DEF Untold, Batched
<1>8. CASE RenameTemp(c)
  <2>1. CASE tmp[t] = Absent
    <3>1. disk' = disk /\ call[c].pc = "rename" /\ call'[c].pc = "done"
      BY <1>1, <1>8, <2>1, RenameTempKeeps DEF RenameTemp
    <3>2. Owes(c) = {} /\ call'[c].pc \notin Leaving
      BY <3>1 DEF Owes, Leaving
    <3> QED
      BY <1>2, <1>3, <3>1, <3>2, IdleCommit
  <2>2. CASE tmp[t] # Absent
    <3>1. /\ disk' = [disk EXCEPT ![Active(t)] = tmp[t]] /\ call[c].pc = "rename" /\ call'[c].pc = "tell"
      BY <1>1, <1>8, <2>2, RenameTempKeeps DEF RenameTemp
    <3>2. Owes(c) = {} /\ Active(t) \in Owes(c)'
      BY <1>2, <3>1 DEF Owes
    <3>3. \A p \in Path : p = Active(t) \/ disk'[p] = disk[p]
      BY <1>1, <3>1
    <3>4. CoverInv'
      BY <1>6, <3>2, <3>3
    <3>5. ASSUME NEW s \in Task, Waiting(s)' PROVE Waiting(s)
      <4>1. disk'[Archived(s)] = disk[Archived(s)]
        BY <1>2, <3>3, PathsOf
      <4> QED
        BY <1>2, <3>1, <3>5, <4>1 DEF Waiting, OthersKeep, Leaving
    <3> QED
      BY <1>4, <1>7, <3>4, <3>5 DEF CommitInv
  <2> QED
    BY <2>1, <2>2
<1>9. CASE Archive(c)
  <2>1. call[c].pc = "archive" /\ call[c].doing = "stamp" /\ Owes(c) = {}
    BY <1>1, <1>9, MoveKeeps DEF Archive, Owes
  <2>2. CASE Relocated(c) /\ call'[c].pc = "unlink"
    <3>1. disk[Archived(t)] = Absent
      BY <2>1 DEF ResolveInv
    <3>2. \A p \in Path : p \in {Active(t), Archived(t)} \/ disk'[p] = disk[p]
      BY <1>1, <2>2 DEF Relocated
    <3>3. disk'[Active(t)] = Absent
      BY <1>1, <1>2, <2>2 DEF Relocated
    <3>4. Active(t) \in Owes(c)' /\ Archived(t) \in Owes(c)'
      BY <1>2, <2>2, <3>3 DEF Owes
    <3>5. CoverInv'
      BY <1>6, <2>1, <3>2, <3>4
    <3>6. ASSUME NEW s \in Task, Waiting(s)' PROVE Waiting(s)
      <4>1. CASE s = t
        BY <3>1, <4>1 DEF Waiting
      <4>2. CASE s # t
        <5>1. disk'[Archived(s)] = disk[Archived(s)]
          BY <1>2, <3>2, <4>2, PathsOf
        <5> QED
          BY <1>2, <3>6, <4>2, <5>1 DEF Waiting, OthersKeep
      <4> QED
        BY <4>1, <4>2
    <3> QED
      BY <1>4, <1>7, <3>5, <3>6 DEF CommitInv
  <2>3. CASE disk' = disk /\ call'[c].pc = "done"
    <3>1. call'[c].pc \notin Leaving
      BY <2>3 DEF Leaving
    <3> QED
      BY <1>2, <1>3, <2>1, <2>3, <3>1, IdleCommit
  <2> QED
    BY <1>1, <1>9, <2>2, <2>3, MoveKeeps
<1>10. CASE Unlink(c)
  <2>1. call[c].pc = "unlink"
    BY <1>10 DEF Unlink
  <2>2. Waiting(t) /\ Untold(t)
    BY <1>2, <2>1, UntoldIs DEF Waiting, Leaving, CommitInv
  <2>3. CASE call'[c].pc = "tell_active" /\ disk' = [disk EXCEPT ![Active(t)] = Absent]
    <3>1. Active(t) \in Owes(c)' /\ Archived(t) \in Owes(c)' /\ Owes(c) \subseteq {Active(t), Archived(t)}
      BY <1>2, <2>1, <2>3 DEF Owes
    <3>2. \A p \in Path : p = Active(t) \/ disk'[p] = disk[p]
      BY <1>1, <2>3
    <3>3. CoverInv'
      BY <1>6, <3>1, <3>2
    <3>4. ASSUME NEW s \in Task, Waiting(s)' PROVE Waiting(s)
      <4>1. disk'[Archived(s)] = disk[Archived(s)]
        BY <1>2, <3>2, PathsOf
      <4> QED
        BY <1>2, <2>2, <3>4, <4>1 DEF Waiting, OthersKeep
    <3> QED
      BY <1>4, <1>7, <3>3, <3>4 DEF CommitInv
  <2>4. CASE /\ call'[c].pc = "done" /\ disk[Active(t)] # Absent
             /\ disk' = [disk EXCEPT ![Archived(t)] = Absent]
    <3>1. Owes(c) = {Archived(t)}
      BY <2>1, <2>4 DEF Owes
    <3>2. \A p \in Path : p = Archived(t) \/ disk'[p] = disk[p]
      BY <1>1, <2>4
    <3>3. disk'[Archived(t)] = Absent
      BY <1>1, <1>2, <2>4
    <3>4. \A p \in Path : p = Archived(t) => Covered(p)'
      BY <1>3, <2>2, <3>3 DEF Covered, Recorded, Untold
    <3>5. CoverInv'
      BY <1>6, <3>1, <3>2, <3>4
    <3>6. ASSUME NEW s \in Task, Waiting(s)' PROVE Waiting(s)
      <4>1. CASE s = t
        BY <2>2, <4>1
      <4>2. CASE s # t
        <5>1. disk'[Archived(s)] = disk[Archived(s)]
          BY <1>2, <3>2, <4>2, PathsOf
        <5> QED
          BY <1>2, <3>6, <4>2, <5>1 DEF Waiting, OthersKeep
      <4> QED
        BY <4>1, <4>2
    <3> QED
      BY <1>4, <1>7, <3>5, <3>6 DEF CommitInv
  <2> QED
    BY <1>1, <1>10, <2>3, <2>4, MoveKeeps
<1> QED
  BY <1>8, <1>9, <1>10


\* A path of c's is told to the committer.
LEMMA TellCommit ==
  ASSUME TypeInv, MutexInv, ResolveInv, CommitInv, NEW c \in Call,
         Tell(c) \/ TellActive(c) \/ TellArchive(c)
  PROVE  CommitInv'
<1> DEFINE t == call[c].task
<1>1. CallStep(c) /\ CallsInv /\ CommitTyped /\ IndexInv /\ disk' = disk
  BY DEF CallStep, CallsInv, TypeInv, CommitTyped, CommitInv, Tell, TellActive, TellArchive
<1>2. OthersKeep(c) /\ Same(c) /\ t \in Task /\ Active(t) \in Path /\ Archived(t) \in Path
      /\ Active(t) # Archived(t) /\ call'[c].task = t
  BY <1>1, CallStepKeeps, DiskSteps, PathsOf DEF Same
<1>3. PICK q \in Path :
        /\ OnWrite(q) /\ Owes(c) \subseteq {q} \cup Owes(c)'
        /\ \/ q = Active(t) /\ (call'[c].pc \in Leaving => call[c].pc \in Leaving)
           \/ q = Archived(t) /\ TellArchive(c)
  <2>1. CASE Tell(c)
    <3>1. OnWrite(Active(t)) /\ call[c].pc = "tell" /\ call'[c].pc \notin Leaving
      BY <1>1, <2>1, TellKeeps DEF Tell, Leaving
    <3>2. Owes(c) = {Active(t)}
      BY <3>1 DEF Owes
    <3> QED
      BY <1>2, <3>1, <3>2
  <2>2. CASE TellActive(c)
    <3>1. OnWrite(Active(t)) /\ call[c].pc = "tell_active" /\ call'[c].pc = "tell_archive"
      BY <1>1, <2>2, MoveKeeps DEF TellActive
    <3>2. Owes(c) = {Active(t), Archived(t)} /\ Archived(t) \in Owes(c)'
      BY <1>2, <3>1 DEF Owes
    <3> QED
      BY <1>2, <3>1, <3>2 DEF Leaving
  <2>3. CASE TellArchive(c)
    <3>1. OnWrite(Archived(t)) /\ call[c].pc = "tell_archive"
      BY <2>3 DEF TellArchive
    <3>2. Owes(c) = {Archived(t)}
      BY <3>1 DEF Owes
    <3> QED
      BY <1>2, <2>3, <3>1, <3>2
  <2> QED
    BY <2>1, <2>2, <2>3
<1>4. /\ IndexInv' /\ Covered(q)'
      /\ \A p \in Path \ {q} : Unmoved(p) /\ (Batched(p)' <=> Batched(p)) /\ (Covered(p) => Covered(p)')
  BY <1>1, <1>3, OnWriteKeeps
<1>5. CoverInv'
  <2> SUFFICES ASSUME NEW p \in Path \ {q} PROVE Covered(p)' \/ \E d \in Call : p \in Owes(d)'
    BY <1>4 DEF CoverInv, Covered
  <2>1. CASE Covered(p)
    BY <1>4, <2>1
  <2>2. CASE \E d \in Call : p \in Owes(d)
    <3>1. PICK d \in Call : p \in Owes(d)
      BY <2>2
    <3>2. CASE d = c
      BY <1>3, <3>1, <3>2
    <3>3. CASE d # c
      BY <1>1, <1>2, <3>1, <3>3, OwesKeeps
    <3> QED
      BY <3>2, <3>3
  <2> QED
    BY <2>1, <2>2, CoverIs DEF CommitInv
<1>6. ASSUME NEW s \in Task, Waiting(s)' PROVE Untold(s)'
  <2>1. ASSUME Archived(s) # q, Waiting(s) PROVE Untold(s)'
    <3>1. Untold(s)
      BY <2>1, UntoldIs DEF CommitInv
    <3>2. Archived(s) \in Path \ {q}
      BY <2>1, PathsOf
    <3>3. Unmoved(Archived(s)) /\ (Batched(Archived(s))' <=> Batched(Archived(s)))
      <4>1. ASSUME NEW p \in Path, p = Archived(s)
            PROVE  Unmoved(Archived(s)) /\ (Batched(Archived(s))' <=> Batched(Archived(s)))
        BY <1>4, <3>2, <4>1
      <4> QED
        BY <3>2, <4>1
    <3> QED
      BY <3>1, <3>3 DEF Untold, Unmoved
  <2>2. CASE q = Active(t) /\ (call'[c].pc \in Leaving => call[c].pc \in Leaving)
    <3>1. Archived(s) # q
      BY <1>2, <2>2, PathsOf
    <3>2. Waiting(s)
      BY <1>1, <1>2, <1>6, <2>2 DEF Waiting, OthersKeep
    <3> QED
      BY <2>1, <3>1, <3>2
  <2>3. CASE q = Archived(t) /\ TellArchive(c)
    <3>1. /\ call[c].pc = "tell_archive" /\ call'[c].pc = "done" /\ call[c].doing = "stamp"
      BY <1>1, <2>3, MoveKeeps DEF TellArchive
    <3>2. CASE s # t
      <4>1. Archived(s) # q
        BY <1>2, <2>3, <3>2, PathsOf
      <4>2. Waiting(s)
        BY <1>1, <1>2, <1>6, <3>1 DEF Waiting, OthersKeep, Leaving
      <4> QED
        BY <2>1, <4>1, <4>2
    <3>3. CASE s = t
      <4>1. disk'[Archived(s)] # Absent
        BY <1>1, <3>1, <3>3 DEF ResolveInv
      <4>2. PICK d \in Call : call'[d].task = t /\ call'[d].pc \in Leaving
        BY <1>6, <3>3, <4>1 DEF Waiting
      <4>3. d # c
        BY <3>1, <4>2 DEF Leaving
      <4>4. call[d].pc \in Leaving
        BY <1>2, <4>2, <4>3 DEF OthersKeep
      <4>5. call[d].doing = "stamp"
        BY <1>1, <4>4 DEF CallsInv, CallInv, Leaving, Moving
      <4> QED
        BY <3>1, <4>3, <4>4, <4>5, AloneAtTask DEF Leaving, Critical
    <3> QED
      BY <3>2, <3>3
  <2> QED
    BY <1>3, <2>2, <2>3
<1>7. UntoldInv'
  BY <1>6 DEF UntoldInv, Waiting, Untold, Leaving
<1> QED
  BY <1>4, <1>5, <1>7 DEF CommitInv

LEMMA NextCommit ==
  ASSUME TypeInv, MutexInv, ResolveInv, CommitInv, Next
  PROVE  CommitInv'
<1>1. CallsInv /\ CommitTyped /\ EdgesInv /\ \A u \in Task : edges[u] \in Seq(Option)
  BY DEF CallsInv, TypeInv, CommitTyped, EdgesInv
<1>2. CASE Starting
  <2>1. PICK c \in Call : /\ call[c] = Idle /\ Started(call'[c]) /\ OthersKeep(c)
                          /\ UNCHANGED <<disk, commitVars>>
    BY <1>2, StartingKeeps
  <2>2. call[c].pc = "idle" /\ call'[c].pc \notin Leaving
    BY <2>1 DEF Idle, Started, Leaving
  <2>3. Owes(c) = {} /\ UNCHANGED <<disk, index, head, missed, pending, flushing>>
    BY <2>1, <2>2 DEF Owes, commitVars, git, batch
  <2> QED
    BY <2>1, <2>2, <2>3, IdleCommit
<1>3. CASE \E c \in Call : CallStep(c)
  <2>1. PICK c \in Call : CallStep(c)
    BY <1>3
  <2>2. CASE RenameTemp(c) \/ Archive(c) \/ Unlink(c)
    BY <2>2, WriteCommit
  <2>3. CASE Tell(c) \/ TellActive(c) \/ TellArchive(c)
    BY <2>3, TellCommit
  <2>4. CASE Ingest(c) \/ WriteEdge(c) \/ OpenToWrite(c) \/ OpenToResolve(c) \/ WriteTemp(c)
    <3>1. OthersKeep(c)
      BY <2>1, CallStepKeeps
    <3>2. UNCHANGED <<disk, index, head, missed, pending, flushing>>
      BY <2>4 DEF Ingest, WriteEdge, OpenToWrite, OpenToResolve, WriteTemp, commitVars, git, batch
    <3>3. call[c].pc \in {"ingest", "edge", "open", "write"}
      BY <2>4 DEF Ingest, WriteEdge, OpenToWrite, OpenToResolve, WriteTemp
    <3>4. Owes(c) = {}
      BY <3>3 DEF Owes
    <3>5. call'[c].pc \notin Leaving
      <4>1. CASE Ingest(c) \/ WriteEdge(c)
        BY <1>1, <4>1, IngestKeeps, WriteEdgeKeeps DEF Leaving
      <4>2. CASE OpenToWrite(c) \/ WriteTemp(c)
        BY <1>1, <4>2, OpenToWriteKeeps, WriteTempKeeps DEF Leaving
      <4>3. CASE OpenToResolve(c)
        BY <4>3, OpenToResolveKeeps DEF Leaving
      <4> QED
        BY <2>4, <4>1, <4>2, <4>3
    <3> QED
      BY <3>1, <3>2, <3>4, <3>5, IdleCommit
  <2> QED
    BY <2>1, <2>2, <2>3, <2>4 DEF CallStep
<1>4. CASE CommitterStep /\ UNCHANGED <<taskVars, call>>
  <2>1. /\ IndexInv' /\ call' = call /\ disk' = disk
        /\ \A p \in Path : (Covered(p) => Covered(p)') /\ (Batched(p)' => Batched(p))
                           /\ (~Batched(p) => Unmoved(p))
    BY <1>1, <1>4, CommitterKeeps, CommitterTypes DEF CommitInv
  <2>2. \A c \in Call : Owes(c)' = Owes(c)
    BY <2>1 DEF Owes
  <2>3. CoverInv'
    <3> SUFFICES ASSUME NEW p \in Path PROVE Covered(p)' \/ \E d \in Call : p \in Owes(d)'
      BY DEF CoverInv, Covered
    <3> QED
      BY <2>1, <2>2, CoverIs DEF CommitInv
  <2>4. UntoldInv'
    <3> SUFFICES ASSUME NEW s \in Task, Waiting(s)' PROVE Untold(s)'
      BY DEF UntoldInv, Waiting, Untold, Leaving
    <3>1. Untold(s)
      <4>1. Waiting(s)
        BY <2>1 DEF Waiting
      <4> QED
        BY <4>1, UntoldIs DEF CommitInv
    <3>2. ASSUME NEW p \in Path, p = Archived(s) PROVE Untold(s)'
      <4>1. Unmoved(p) /\ ~Batched(p)'
        BY <2>1, <3>1, <3>2 DEF Untold
      <4> QED
        BY <3>1, <3>2, <4>1 DEF Untold, Unmoved, Batched
    <3> QED
      BY <3>2, PathsOf
  <2> QED
    BY <2>1, <2>3, <2>4 DEF CommitInv
<1> QED
  BY <1>2, <1>3, <1>4 DEF Next, Starting


-----------------------------------------------------------------------------
(* The theorems.                                                             *)

TaskInv == FilesInv /\ CommitInv

LEMMA TaskInit == ASSUME Init PROVE TaskInv
<1>1. \A c \in Call : call[c] = Idle
  BY DEF Init
<1>2. /\ Idle \in CallRecord /\ Idle.op = "append" /\ Idle.doing = "append" /\ Idle.pc = "idle"
      /\ Idle.answer = "none"
  BY DEF Idle, CallRecord, Op, Doing, Write, Editing, Pc, Answer
<1>3. PICK present \in SUBSET Before :
        disk = [p \in Path |-> IF p \notin present THEN Absent
                               ELSE [Empty EXCEPT !.resolved = (p[2] = "archive")]]
  BY DEF Init
<1>4. ASSUME NEW b PROVE [Empty EXCEPT !.resolved = (b = "archive")] \in File
  <2>1. Empty \in File /\ (b = "archive") \in BOOLEAN
    BY DEF Empty, File
  <2> DEFINE x == (b = "archive")
  <2>2. x \in BOOLEAN /\ [Empty EXCEPT !.resolved = x] \in File
    <3> HIDE DEF x
    <3>1. ASSUME NEW y \in BOOLEAN PROVE [Empty EXCEPT !.resolved = y] \in File
      BY <2>1 DEF File
    <3>2. x \in BOOLEAN
      BY <2>1 DEF x
    <3> QED
      BY <3>1, <3>2
  <2> QED
    BY <2>2
<1>5. disk \in [Path -> File \cup {Absent}]
  BY <1>3, <1>4
<1>6. \A t \in Task : edges[t] \in Seq(Option) /\ IsInjective(edges[t])
  <2> SUFFICES ASSUME NEW t \in Task PROVE edges[t] \in Seq(Option) /\ IsInjective(edges[t])
    OBVIOUS
  <2>1. edges[t] = <<>> \/ \E o \in Option : edges[t] = <<o>>
    BY DEF Init
  <2>2. ASSUME NEW o \in Option PROVE <<o>> \in Seq(Option) /\ IsInjective(<<o>>)
    <3>1. <<o>> \in Seq(Option) /\ DOMAIN <<o>> = {1}
      OBVIOUS
    <3> QED
      BY <3>1 DEF IsInjective
  <2>3. <<>> \in Seq(Option) /\ IsInjective(<<>>)
    <3>1. <<>> \in Seq(Option) /\ DOMAIN <<>> = {}
      OBVIOUS
    <3> QED
      BY <3>1 DEF IsInjective
  <2> QED
    BY <2>1, <2>2, <2>3
<1>7. edges \in [Task -> Seq(Option)]
  <2>1. \A o \in Option : <<o>> \in Seq(Option)
    OBVIOUS
  <2>2. ASSUME NEW s \in {<<>>} \cup {<<o>> : o \in Option} PROVE s \in Seq(Option)
    <3>1. CASE s = <<>>
      BY <3>1
    <3>2. CASE s # <<>>
      <4>1. PICK o \in Option : s = <<o>>
        BY <2>2, <3>2
      <4> QED
        BY <2>1, <4>1
    <3> QED
      BY <3>1, <3>2
  <2> QED
    BY <2>2 DEF Init
<1>8. CommitTyped
  <2>1. /\ index = disk /\ head = disk /\ debounced \in BOOLEAN /\ pending = {} /\ flushTimer = "nil"
        /\ closed = FALSE /\ flushing = <<>> /\ missed = {} /\ faults = 0
    BY DEF Init, CommitInit
  <2>2. faults \in 0 .. MaxFaults
    BY <2>1, BoundAssumption
  <2>3. flushing \in Seq(SUBSET Path)
    BY <2>1
  <2>4. {disk, index, head} \subseteq [Path -> File \cup {Absent}]
    BY <1>5, <2>1
  <2>5. /\ pending \subseteq Path /\ missed \subseteq Path /\ closed \in BOOLEAN
        /\ flushTimer # "running" /\ flushTimer # "fired" /\ pending = {}
        /\ flushTimer \in {"nil", "running", "fired"}
    BY <2>1
  <2> QED
    BY <2>1, <2>2, <2>3, <2>4, <2>5 DEF CommitTyped, CommitTypeOK
<1>9. TypeInv
  <2>1. call \in [Call -> CallRecord]
    BY <1>2 DEF Init
  <2>2. \A c \in Call : CallInv(c)
    BY <1>1, <1>2 DEF CallInv, Running, Moving
  <2>3. /\ kind \in [Task -> Kind] /\ tmp \in [Task -> File \cup {Absent}]
        /\ mutex \in [{"file", "err", "resolve"} -> Call \cup {None}]
    BY DEF Init
  <2> QED
    BY <1>6, <1>7, <1>8, <2>1, <2>2, <2>3 DEF TypeInv, CommitTyped
<1>10. MutexInv /\ RaceInv
  BY <1>1, <1>2, AbsenceAssumption DEF Init, MutexInv, RaceInv, Critical, Running
<1>11. ResolveInv /\ TmpInv
  BY <1>1, <1>2 DEF Init, ResolveInv, TmpInv
<1>12. AppendInv /\ PickInv
  BY <1>1, <1>2 DEF AppendInv, PickInv, Landed
<1>13. ToldInv
  <2>1. GoneInv /\ ArchivedInv /\ MadeInv
    BY <1>1, <1>2 DEF GoneInv, ArchivedInv, MadeInv, Made
  <2>2. ASSUME NEW t \in Task PROVE StampStays(t)
    <3>1. disk[Archived(t)] # Absent => disk[Archived(t)].resolved
      <4>1. Archived(t) \in Path /\ Archived(t)[2] = "archive"
        BY PathsOf DEF Archived
      <4>2. disk[Archived(t)] # Absent => disk[Archived(t)] = [Empty EXCEPT !.resolved = TRUE]
        BY <1>3, <4>1
      <4>3. [Empty EXCEPT !.resolved = TRUE].resolved
        BY DEF Empty
      <4> QED
        BY <4>2, <4>3
    <3>2. tmp[t] = Absent
      BY DEF Init
    <3>3. \A c \in Call : call[c].doing = "append" /\ call[c].pc = "idle"
      BY <1>1, <1>2
    <3> QED
      BY <3>1, <3>2, <3>3 DEF StampStays
  <2> QED
    BY <2>1, <2>2 DEF ToldInv, StampInv
<1>14. IndexInv /\ CoverInv
  BY DEF Init, CommitInit, IndexInv, CoverInv, Recorded
<1>15. UntoldInv
  BY <1>1, <1>2, PathsOf DEF Init, CommitInit, UntoldInv, Batched
<1> QED
  BY <1>9, <1>10, <1>11, <1>12, <1>13, <1>14, <1>15 DEF TaskInv, FilesInv, StateInv, FileInv, CommitInv

\* The inductive invariant of the task files and the committer together.
THEOREM TasksInvariant == Spec => []TaskInv
<1>1. Init => TaskInv
  BY TaskInit
<1>2. TaskInv /\ [Next]_vars => TaskInv'
  <2>1. ASSUME TaskInv, Next PROVE TaskInv'
    <3>1. FilesInv /\ CommitInv /\ TypeInv /\ MutexInv /\ ResolveInv
      BY <2>1 DEF TaskInv, FilesInv, StateInv, FileInv
    <3> QED
      BY <2>1, <3>1, NextFiles, NextCommit DEF TaskInv
  <2>2. ASSUME TaskInv, UNCHANGED vars PROVE TaskInv'
    <3>1. UNCHANGED <<disk, index, head, missed, faults, pending, flushTimer, closed, flushing, debounced,
                      kind, tmp, mutex, call, edges>>
      BY <2>2 DEF vars, commitVars, git, batch
    <3>2. StateInv'
      BY <2>2, <3>1 DEF TaskInv, FilesInv, StateInv, TypeInv, CommitTypeOK, CallInv, Running, MutexInv, MutexOf
    <3>3. FileInv'
      BY <2>2, <3>1 DEF TaskInv, FilesInv, FileInv, ResolveInv, TmpInv, RaceInv, Running, Resolving
    <3>4. AppendInv' /\ PickInv'
      BY <2>2, <3>1 DEF TaskInv, FilesInv, AppendInv, Landed, Excused, Safe, PickInv, Kept
    <3>5. ToldInv'
      BY <2>2, <3>1, ToldStutters DEF TaskInv, FilesInv
    <3>6. CommitInv'
      BY <2>2, <3>1 DEF TaskInv, CommitInv, IndexInv, CoverInv, UntoldInv, Recorded, Batched, Owes
    <3> QED
      BY <3>2, <3>3, <3>4, <3>5, <3>6 DEF TaskInv, FilesInv
  <2> QED
    BY <2>1, <2>2
<1> QED
  BY <1>1, <1>2, PTL DEF Spec


\* TypeOK: the types of the working tree, the committer, the temporary files and the
\* calls, and that the holder of each of the three mutexes is in a critical section.
THEOREM TasksTyped == Spec => []TypeOK
<1>1. TaskInv => TypeOK
  <2> SUFFICES ASSUME TaskInv PROVE TypeOK
    OBVIOUS
  <2>1. TypeInv /\ MutexInv
    BY DEF TaskInv, FilesInv, StateInv
  <2>2. ASSUME NEW c \in Call
        PROVE  /\ DOMAIN call[c] = DOMAIN Idle
               /\ call[c].pc \in Pc /\ call[c].answer \in Answer /\ call[c].doing \in Doing
               /\ call[c].pc = "done" <=> call[c].answer # "none"
    <3>1. call[c] \in CallRecord /\ CallInv(c)
      BY <2>1 DEF TypeInv
    <3>2. DOMAIN call[c] = {"op", "doing", "task", "pc", "arg", "prior", "body", "raced", "answer"}
      BY <3>1 DEF CallRecord
    <3>3. DOMAIN Idle = {"op", "doing", "task", "pc", "arg", "prior", "body", "raced", "answer"}
      BY DEF Idle
    <3> QED
      BY <3>1, <3>2, <3>3 DEF CallRecord, CallInv
  <2>3. ASSUME NEW m \in DOMAIN mutex, mutex[m] # None PROVE call[mutex[m]].pc \in Critical
    <3>1. mutex[m] \in Call
      BY <2>1, <2>3 DEF TypeInv
    <3> QED
      BY <2>1, <3>1 DEF MutexInv
  <2> QED
    BY <2>1, <2>2, <2>3 DEF TypeOK, TypeInv, Critical
<1> QED
  BY <1>1, TasksInvariant, PTL

\* AnswersStand: what the handlers of appends, spawns, resolves and picks answered is
\* true of the files and the edge, over any number of calls of the three writers.  An
\* appended line stays in the task's file or its archive; an appended or spawned task is
\* an active file until a resolve moves it; a resolved task has its stamp where it is, and
\* its archived file when the answer was archived; a picked option stays a target of the
\* edge.  The exceptions are those the four conjuncts name.
THEOREM TaskAnswersStand == Spec => []AnswersStand
<1>1. TaskInv => AnswersStand
  <2> SUFFICES ASSUME TaskInv PROVE AnswersStand
    OBVIOUS
  <2>1. AppendInv /\ PickInv /\ CallsInv /\ ArchivedInv /\ MadeInv /\ StampInv
    BY DEF TaskInv, FilesInv, StateInv, TypeInv, CallsInv, ToldInv
  <2>2. ASSUME NEW c \in Call, call[c].op = "append", call[c].answer = "ok", ~call[c].raced
        PROVE  LET t == call[c].task IN
               \/ c \in Lines(Active(t)) \cup Lines(Archived(t))
               \/ \E d \in Call : call[d].op = "remove" /\ call[d].arg = c
               \/ \E d \in Call : call[d].task = t /\ call[d].answer = "rolled_back"
    <3>1. Excused(c) \/ Safe(c)
      BY <2>1, <2>2 DEF AppendInv, Landed
    <3> QED
      BY <3>1 DEF Excused, Safe, Lines, TextLines
  <2>3. ASSUME NEW c \in Call, call[c].op = "pick", call[c].answer = "archived"
        PROVE  Kept(call[c].task, call[c].arg)
    <3>1. CallInv(c)
      BY <2>1 DEF CallsInv
    <3>2. call[c].doing = "stamp"
      BY <2>3, <3>1 DEF CallInv
    <3> QED
      BY <2>1, <2>3, <3>2 DEF PickInv
  <2>4. AppendsStand
    BY <2>2 DEF AppendsStand
  <2>5. PicksStand
    BY <2>3 DEF PicksStand, Kept
  <2>6. SpawnsStand
    BY <2>1 DEF SpawnsStand, MadeInv, Made
  <2>7. ASSUME NEW c \in Call, Resolves(c), call[c].answer \in {"ok", "archived"}, ~Raced(call[c].task)
        PROVE  IsResolved(Active(call[c].task)) \/ IsResolved(Archived(call[c].task))
    <3>1. CallInv(c) /\ call[c].pc = "done"
      BY <2>1, <2>7 DEF CallsInv, CallInv
    <3>2. call[c].task \in Task
      BY <3>1 DEF CallInv
    <3>3. call[c].doing = "stamp"
      BY <2>1, <2>7, <3>1 DEF CallInv, Resolves
    <3> QED
      BY <2>1, <2>7, <3>2, <3>3 DEF StampInv, StampStays, StampedBy
  <2>8. ResolvesStand
    BY <2>1, <2>7 DEF ResolvesStand, ArchivedInv
  <2> QED
    BY <2>4, <2>5, <2>6, <2>8 DEF AnswersStand
<1> QED
  BY <1>1, TasksInvariant, PTL

\* ArchivedIsMoved: the step that answers a resolve or a pick archived is taken with the
\* file in the archive and no active one beside it; an edit that overlapped a resolve and
\* a task that the archive had before are the only exceptions.
THEOREM TaskArchivedIsMoved == Spec => ArchivedIsMoved
<1> DEFINE Moved(c) == LET t == call[c].task IN
             call[c].answer # "archived" /\ call'[c].answer = "archived" =>
               /\ disk'[Archived(t)] # Absent
               /\ \/ disk'[Active(t)] = Absent
                  \/ Raced(t)
                  \/ call[c].pc = "open" /\ AlreadyArchived(t)
<1>1. ASSUME TaskInv, Next, NEW c \in Call, call[c].answer # "archived", call'[c].answer = "archived"
      PROVE  Moved(c)
  <2> DEFINE t == call[c].task
  <2>1. /\ TypeInv /\ MutexInv /\ ResolveInv /\ GoneInv /\ CallsInv
    BY <1>1 DEF TaskInv, FilesInv, StateInv, FileInv, ToldInv, TypeInv, CallsInv
  <2>2. TellArchive(c) \/ OpenToResolve(c)
    <3>1. CASE Starting
      <4>1. PICK d \in Call : Started(call'[d]) /\ OthersKeep(d)
        BY <2>1, <3>1, StartingKeeps
      <4> QED
        BY <1>1, <4>1 DEF Started, OthersKeep
    <3>2. CASE \E d \in Call : CallStep(d)
      <4>1. PICK d \in Call : CallStep(d)
        BY <3>2
      <4>2. d = c
        BY <1>1, <2>1, <4>1, CallStepKeeps DEF OthersKeep
      <4> QED
        BY <1>1, <2>1, <4>1, <4>2, MovesTo
    <3>3. CASE CommitterStep /\ UNCHANGED <<taskVars, call>>
      BY <1>1, <3>3
    <3> QED
      BY <1>1, <3>1, <3>2, <3>3 DEF Next, Starting
  <2>3. CASE TellArchive(c)
    <3>1. disk' = disk /\ call[c].pc = "tell_archive" /\ call[c].doing = "stamp"
      BY <2>1, <2>3, MoveKeeps DEF TellArchive
    <3>2. disk[Archived(t)] # Absent /\ (disk[Active(t)] = Absent \/ Raced(t))
      BY <2>1, <3>1 DEF ResolveInv, GoneInv
    <3> QED
      BY <3>1, <3>2
  <2>4. CASE OpenToResolve(c)
    <3>1. disk' = disk /\ call[c].pc = "open" /\ AlreadyArchived(t)
      BY <1>1, <2>1, <2>4, ResolveTells DEF OpenToResolve
    <3> QED
      BY <3>1 DEF AlreadyArchived
  <2> QED
    BY <2>2, <2>3, <2>4
<1>2. TaskInv /\ [Next]_vars => [\A c \in Call : Moved(c)]_vars
  BY <1>1
<1> QED
  BY <1>2, TasksInvariant, PTL DEF Spec, ArchivedIsMoved

\* QuietIsCommitted: when every call has ended, no timer runs and no batch is being
\* flushed, HEAD has every file of the tasks, but for the paths whose commit git refused:
\* appendPending, fireFlush and Close lose no path between them.
THEOREM TaskQuietIsCommitted == Spec => []QuietIsCommitted
<1>1. TaskInv => QuietIsCommitted
  <2> SUFFICES ASSUME TaskInv, \A c \in Call : ~Running(c), flushTimer # "running", flushing = <<>>,
                      NEW p \in Path
               PROVE  head[p] = disk[p] \/ p \in missed
    BY DEF QuietIsCommitted
  <2>1. TypeInv /\ CoverInv
    BY DEF TaskInv, FilesInv, StateInv, CommitInv
  <2>2. pending = {}
    BY <2>1 DEF TypeInv, CommitTypeOK
  <2>3. ~Batched(p)
    BY <2>2 DEF Batched
  <2>4. \A c \in Call : Owes(c) = {}
    BY DEF Running, Owes
  <2> QED
    BY <2>1, <2>3, <2>4 DEF CoverInv, Recorded
<1> QED
  BY <1>1, TasksInvariant, PTL
=============================================================================
