------------------------------ MODULE EventBus ------------------------------
(***************************************************************************)
(* internal/eventbus/memory.go: the in-process bus.  Publish copies the    *)
(* topic's slice under the read lock, drops the lock and then calls one    *)
(* handler after the other on the publisher's goroutine; Unsubscribe sets  *)
(* the closed flag first and edits the slice in place afterwards.  The     *)
(* publishers, subscribers and unsubscribers are all different goroutines, *)
(* or handlers called in the middle of a Publish.                          *)
(*                                                                         *)
(* An event is <<p, n>>: the n-th event of publisher p.                    *)
(***************************************************************************)
EXTENDS Naturals, Sequences, SequencesExt

CONSTANTS Publisher,
          Sub,       \* *memorySubscription addresses
          Topic,
          MaxEvents  \* bound: events per publisher

ASSUME MaxEventsAssumption == MaxEvents \in Nat

VARIABLES subs,   \* memoryBus.subs: per topic, in registration order
          state,  \* life of each subscription
          topic,  \* memorySubscription.topic
          pub,    \* each publisher's Publish call
          log,    \* history: the handler calls, <<subscription, event>>
          order,  \* history: the subscriptions in registration order
          last    \* history: events published when a subscription closed

hist == <<order, last>>
busVars == <<subs, state, topic, pub, log, hist>>

\* "nil" is the pre-closed subscription of a nil handler; "closing" is
\* Unsubscribe between its CompareAndSwap and the edit of the slice.
Life == {"new", "open", "closing", "closed", "nil"}
Closed(s) == state[s] \in {"closing", "closed", "nil"}

\* "called" is the publisher between the load of the closed flag and the
\* handler's start.
Pubs == [pc : {"idle", "looping", "called"}, sent : 0..MaxEvents,
         topic : Topic, snapshot : Seq(Sub), next : Nat,
         owed : SUBSET Sub]  \* history: active on entry

Event(p) == <<p, pub[p].sent>>

BusInit ==
  /\ subs = [t \in Topic |-> <<>>]
  /\ state = [s \in Sub |-> "new"]
  /\ topic \in [Sub -> Topic]
  /\ \E t \in Topic :
       pub = [p \in Publisher |-> [pc |-> "idle", sent |-> 0, topic |-> t,
                                   snapshot |-> <<>>, next |-> 1, owed |-> {}]]
  /\ log = <<>> /\ order = <<>>
  /\ last = [s \in Sub |-> [p \in Publisher |-> MaxEvents]]

Subscribe(s) ==
  /\ state[s] = "new"
  /\ subs' = [subs EXCEPT ![topic[s]] = Append(@, s)]
  /\ state' = [state EXCEPT ![s] = "open"]
  /\ order' = Append(order, s)
  /\ UNCHANGED <<topic, pub, log, last>>

\* A nil handler: a pre-closed subscription that is in no slice.
SubscribeNil(s) ==
  /\ state[s] = "new"
  /\ state' = [state EXCEPT ![s] = "nil"]
  /\ UNCHANGED <<subs, topic, pub, log, hist>>

\* closed.CompareAndSwap(false, true): only the first call goes on.
UnsubscribeCAS(s) ==
  /\ state[s] = "open"
  /\ state' = [state EXCEPT ![s] = "closing"]
  /\ last' = [last EXCEPT ![s] = [p \in Publisher |-> pub[p].sent]]
  /\ UNCHANGED <<subs, topic, pub, log, order>>

\* Mutated: the slot is cleared, not removed.
UnsubscribeRemove_Clear(s) ==
  /\ state[s] = "closing"
  /\ state' = [state EXCEPT ![s] = "closed"]
  /\ subs' = [subs EXCEPT ![topic[s]] =
                [i \in DOMAIN @ |-> IF @[i] = s THEN "nil" ELSE @[i]]]
  /\ UNCHANGED <<topic, pub, log, hist>>

\* Where the topic's slice lists a subscription.
Slot(s) == CHOOSE i \in DOMAIN subs[topic[s]] : subs[topic[s]][i] = s

\* The edit of the slice under the write lock.
UnsubscribeRemove(s) ==
  /\ state[s] = "closing"
  /\ state' = [state EXCEPT ![s] = "closed"]
  /\ subs' = [subs EXCEPT ![topic[s]] = RemoveAt(@, Slot(s))]
  /\ UNCHANGED <<topic, pub, log, hist>>

\* Publish enters and takes its snapshot under the read lock.
Snapshot(p, t) ==
  /\ pub[p].pc = "idle"
  /\ pub[p].sent < MaxEvents
  /\ pub' = [pub EXCEPT ![p] = [pc |-> "looping", sent |-> @.sent + 1,
                                topic |-> t, snapshot |-> subs[t], next |-> 1,
                owed |-> {s \in Sub : state[s] = "open" /\ topic[s] = t}]]
  /\ UNCHANGED <<subs, state, topic, log, hist>>

\* Mutated: the loop ends at a closed subscription.
CheckClosed_Break(p) ==
  /\ pub[p].pc = "looping"
  /\ pub[p].next <= Len(pub[p].snapshot)
  /\ LET s == pub[p].snapshot[pub[p].next]
     IN  pub' = [pub EXCEPT ![p].pc = IF Closed(s) THEN "looping" ELSE "called",
                            ![p].next = IF Closed(s) THEN Len(pub[p].snapshot) + 1
                                                     ELSE @]
  /\ UNCHANGED <<subs, state, topic, log, hist>>

\* Mutated: the closed flag is not looked at.
CheckClosed_Never(p) ==
  /\ pub[p].pc = "looping"
  /\ pub[p].next <= Len(pub[p].snapshot)
  /\ pub' = [pub EXCEPT ![p].pc = "called"]
  /\ UNCHANGED <<subs, state, topic, log, hist>>

\* The next subscription of the snapshot: skipped if its flag is set.
CheckClosed(p) ==
  /\ pub[p].pc = "looping"
  /\ pub[p].next <= Len(pub[p].snapshot)
  /\ LET s == pub[p].snapshot[pub[p].next]
     IN  pub' = [pub EXCEPT ![p].pc = IF Closed(s) THEN "looping" ELSE "called",
                            ![p].next = IF Closed(s) THEN @ + 1 ELSE @]
  /\ UNCHANGED <<subs, state, topic, log, hist>>

\* sub.handler(ctx, e)
CallHandler(p) ==
  /\ pub[p].pc = "called"
  /\ log' = Append(log, <<pub[p].snapshot[pub[p].next], Event(p)>>)
  /\ pub' = [pub EXCEPT ![p].pc = "looping", ![p].next = @ + 1]
  /\ UNCHANGED <<subs, state, topic, hist>>

\* Publish returns.
Done(p) ==
  /\ pub[p].pc = "looping"
  /\ pub[p].next > Len(pub[p].snapshot)
  /\ pub' = [pub EXCEPT ![p].pc = "idle", ![p].snapshot = <<>>, ![p].next = 1,
                         ![p].owed = {}]
  /\ UNCHANGED <<subs, state, topic, log, hist>>

Publish(p) == CheckClosed(p) \/ CallHandler(p) \/ Done(p)

BusNext ==
  \/ \E s \in Sub : Subscribe(s) \/ SubscribeNil(s)
                    \/ UnsubscribeCAS(s) \/ UnsubscribeRemove(s)
  \/ \E p \in Publisher : Publish(p) \/ \E t \in Topic : Snapshot(p, t)

BusSpec == BusInit /\ [][BusNext]_busVars

-----------------------------------------------------------------------------
Rank(o, s) == CHOOSE i \in 1..Len(o) : o[i] = s
Delivered(s, e) == \E i \in 1..Len(log) : log[i] = <<s, e>>

\* Type correctness.
BusTypeOK ==
  /\ subs \in [Topic -> Seq(Sub)]
  /\ state \in [Sub -> Life]
  /\ topic \in [Sub -> Topic]
  /\ pub \in [Publisher -> Pubs]
  /\ log \in Seq(Sub \X (Publisher \X (1..MaxEvents)))
  /\ order \in Seq(Sub)
  /\ last \in [Sub -> [Publisher -> 0..MaxEvents]]

\* "Delivery order across subscriptions on the same topic is registration
\* order", each handler gets an event at most once, and the events of one
\* publisher reach a handler in the order they were published.
OrderedDelivery ==
  \A i, j \in 1..Len(log) :
    LET s == log[i][1]  t == log[j][1]  e == log[i][2]  f == log[j][2]
    IN  i < j =>
          /\ e = f => Rank(order, s) < Rank(order, t)
          /\ s = t /\ e[1] = f[1] => e[2] < f[2]

\* "Publish delivers the event to every active subscription": when Publish
\* returns, each subscription that was active on entry and still is has been
\* called, whatever was subscribed or unsubscribed around it meanwhile.
NoMissedDelivery ==
  [][\A p \in Publisher : pub[p].pc = "looping" /\ pub'[p].pc = "idle" =>
       \A s \in pub[p].owed : state[s] = "open" => Delivered(s, Event(p))]_busVars

\* memory.go: "the closed flag is the authoritative gate even when the
\* snapshot is stale": what is published after Unsubscribe set the flag never
\* reaches the handler, though the slice may still list the subscription.
ClosedMissesLaterEvents ==
  \A i \in 1..Len(log) :
    LET s == log[i][1]  e == log[i][2]  IN  e[2] <= last[s][e[1]]

\* What a handler is called with.
Deliveries == OrderedDelivery /\ ClosedMissesLaterEvents
=============================================================================
