------------------------ MODULE WorkflowEngine_proof ------------------------
(***************************************************************************)
(* Proofs about WorkflowEngine, for every set of workflow files, every     *)
(* number of dispatchers, every size of queue and ring, every event and    *)
(* every reload.                                                           *)
(***************************************************************************)
EXTENDS WorkflowEngine, SequenceTheorems, FiniteSetTheorems, TLAPS

\* The actions of a workflow run.
Busy == {"acting", "publishing", "awaiting"}

\* processEvent's order of two evaluations on one event.
Before(v, w) ==
  /\ Def[v].catchAll => Def[w].catchAll
  /\ Def[v].catchAll = Def[w].catchAll => Def[v].file < Def[w].file
  /\ Def[v].catchAll /\ Def[w].catchAll => Wildcard(v) = Wildcard(w)

SamePass(v, w) ==
  /\ Def[v].catchAll = Def[w].catchAll
  /\ Def[v].catchAll => Wildcard(v) = Wildcard(w)

\* What is left of the two passes, t and u, comes after what has been
\* evaluated, h.
Ordered(t, u, h) ==
  /\ \A v, w \in t : SamePass(v, w)
  /\ \A v, w \in u : Def[v].catchAll /\ SamePass(v, w)
  /\ u # {} => /\ \A w \in t : ~Def[w].catchAll
               /\ \A i \in 1..Len(h) : ~Def[h[i].wf].catchAll
  /\ \A i \in 1..Len(h) : \A w \in t : Before(h[i].wf, w)
  /\ \A i, j \in 1..Len(h) : i < j => Before(h[i].wf, h[j].wf)

\* A claim is the last evaluation, and nothing is left after it.
ClaimLast(t, u, h) ==
  \A i \in 1..Len(h) : h[i].claimed => i = Len(h) /\ t = {} /\ u = {}

\* Where a runner is: p, t, u, w, s, h are its pc, todo, rest, wf, step, ran.
Where(r, p, t, u, w, s, h) ==
  /\ p \in Busy => w \in t /\ \A v \in t : Def[w].file <= Def[v].file
  /\ p \in {"publishing", "awaiting"} =>
       s <= Len(Def[w].actions) /\ Def[w].actions[s].do \in {"emit", "ingest"}
  /\ ClaimLast(t, u, h)
  /\ r # Worker /\ p = "idle" => u = {} /\ h = <<>>
  /\ r = Worker => Ordered(t, u, h)

RunnerInv(r) == Where(r, pc[r], todo[r], rest[r], wf[r], step[r], ran[r])

\* A key that fired is stamped.
SkipInv ==
  \A w \in Workflow, e \in Target :
    Def[w].dedup = "skip" =>
      fires[<<w, e>>] = 0 \/ (fires[<<w, e>>] = 1 /\ <<w, e>> \in seen)

\* A runner waits for one ingest at a time.
IngestInv ==
  /\ \A i \in ingests : i.waited => pc[i.for] \in {"awaiting", "resolving"}
  /\ \A i, j \in ingests : i.waited /\ j.waited /\ i.for = j.for => i = j

\* The two halves of the type invariant.
SharedOK ==
  /\ queue \in Seq(Event) /\ Len(queue) <= Capacity
  /\ registry \subseteq Workflow
  /\ seen \subseteq Workflow \X Target
  /\ logged \subseteq Workflow \X Seq(Workflow)
  /\ ring \in Seq(Decision) /\ Len(ring) <= RingSize
  /\ stopped \in BOOLEAN
  /\ ingests \subseteq Ingest
  /\ published \in 0..MaxPublish
  /\ result \in [Runner -> Decision \cup {NoDecision}]
  /\ fires \in [Workflow \X Target -> 0..2]

RunnersOK ==
  /\ pc \in [Runner -> PC]
  /\ ev \in [Runner -> Event]
  /\ todo \in [Runner -> SUBSET Workflow]
  /\ rest \in [Runner -> SUBSET Workflow]
  /\ wf \in [Runner -> Workflow \cup {NoWorkflow}]
  /\ step \in [Runner -> Nat \ {0}]
  /\ claimed \in [Runner -> BOOLEAN]
  /\ ran \in [Runner -> Seq(Evaluation)]

Inv == TypeOK /\ SkipInv /\ IngestInv /\ \A r \in Runner : RunnerInv(r)

\* No action resolves an entity with a plugin: what such an ingest publishes
\* carries no chain.
NoResolver ==
  \A w \in Workflow : \A i \in 1..Len(Def[w].actions) : Def[w].actions[i].do # "ingest"

\* The chain names every workflow behind an event but those that only a
\* manual dispatch starts.
Caused(e) == \A w \in e.cause : w \in Elems(e.chain) \/ Def[w].trigger = "manual"

\* An event that a bus publishes, of an entity.
Proper(e) == e.topic \in Topic /\ e.entity \in Entity /\ Caused(e)

EventsProper ==
  /\ \A i \in 1..Len(queue) : Proper(queue[i])
  /\ \A i \in ingests : Proper(i.event)

\* What a runner evaluates: p, e, t, u, w are its pc, ev, todo, rest, wf.
Clear(r, p, e, t, u, w) ==
  /\ Caused(e)
  /\ r = Worker => \A v \in t \cup u : e.entity \in Entity /\ Def[v].trigger # "manual"
  /\ r # Worker => /\ e.cause = {} /\ u = {}
                   /\ e.entity = NoTarget => \A v \in t : Def[v].trigger = "manual"
  /\ p \in Busy => w \notin Elems(e.chain)
  /\ p # "awaiting"

CascadeInv ==
  /\ EventsProper
  /\ \A r \in Runner : Clear(r, pc[r], ev[r], todo[r], rest[r], wf[r])

-----------------------------------------------------------------------------
(* Lemmas about the operators.                                              *)

LEMMA DefIs ==
  ASSUME NEW w \in Workflow
  PROVE  /\ Def[w] \in Definition
         /\ Def[w].trigger \in Topic \cup {"manual"} /\ Def[w].file \in Nat
         /\ Def[w].catchAll \in BOOLEAN /\ Len(Def[w].actions) \in Nat
         /\ \A i \in 1..Len(Def[w].actions) : Def[w].actions[i] \in Action
<1>1. Def[w] \in Definition
  BY DefAssumption
<1>2. Def[w].actions \in Seq(Action)
  BY <1>1 DEF Definition
<1>3. Len(Def[w].actions) \in Nat
  BY <1>2, LenProperties
<1>4. \A i \in 1..Len(Def[w].actions) : Def[w].actions[i] \in Action
  BY <1>2, ElementOfSeq
<1> QED
  BY <1>1, <1>3, <1>4 DEF Definition

\* The newest elements of a sequence are at most so many.
LEMMA NewestIs ==
  ASSUME NEW S, NEW s \in Seq(S), NEW n \in Nat \ {0}
  PROVE  Newest(s, n) \in Seq(S) /\ Len(Newest(s, n)) <= n
<1> DEFINE first == IF Len(s) > n THEN Len(s) - n + 1 ELSE 1
<1>1. Len(s) \in Nat /\ \A i \in 1..Len(s) : s[i] \in S
  BY LenProperties, ElementOfSeq
<1>2. first \in Int /\ first >= 1 /\ Len(s) \in Int /\ Len(s) - first + 1 <= n
  BY <1>1
<1> HIDE DEF first
<1>3. \A i \in first..Len(s) : i \in 1..Len(s)
  BY <1>1, <1>2
<1>4. \A i \in first..Len(s) : s[i] \in S
  BY <1>1, <1>3
<1>5. /\ SubSeq(s, first, Len(s)) \in Seq(S)
      /\ Len(SubSeq(s, first, Len(s))) =
           IF first <= Len(s) THEN Len(s) - first + 1 ELSE 0
  BY <1>2, <1>4, SubSeqProperties
<1>6. Newest(s, n) = SubSeq(s, first, Len(s))
  BY DEF Newest, first
<1> QED
  BY <1>2, <1>5, <1>6

\* The ring takes new decisions and keeps its size.
LEMMA RecordIs ==
  ASSUME ring \in Seq(Decision), NEW ds \in Seq(Decision), Record(ds)
  PROVE  ring' \in Seq(Decision) /\ Len(ring') <= RingSize
<1>1. ring \o ds \in Seq(Decision)
  BY ConcatProperties
<1> QED
  BY <1>1, NewestIs, BoundAssumption DEF Record

LEMMA OneDecision ==
  ASSUME NEW d \in Decision
  PROVE  <<d>> \in Seq(Decision)
  OBVIOUS

\* SetToSeq puts workflows into a sequence of them.
LEMMA InSequence ==
  ASSUME NEW S \in SUBSET Workflow
  PROVE  SetToSeq(S) \in Seq(Workflow)
<1>1. IsFiniteSet(S)
  BY DefAssumption, FS_Subset
<1>2. Cardinality(S) \in Nat /\ ExistsBijection(1..Cardinality(S), S)
  BY <1>1, FS_CardinalityType
<1>3. \E f \in [1..Cardinality(S) -> S] : IsInjective(f)
  BY <1>2 DEF ExistsBijection, Bijection, Injection
<1>4. SetToSeq(S) \in [1..Cardinality(S) -> S]
  BY <1>3 DEF SetToSeq
<1>5. SetToSeq(S) \in [1..Cardinality(S) -> Workflow]
  BY <1>4
<1> QED
  BY <1>2, <1>5

\* One more evaluation, of the first workflow that is left.
LEMMA AppendIs ==
  ASSUME NEW S, NEW h \in Seq(S), NEW e \in S
  PROVE  /\ Append(h, e) \in Seq(S) /\ Len(h) \in Nat
         /\ Len(Append(h, e)) = Len(h) + 1
         /\ \A i \in 1..Len(h) : Append(h, e)[i] = h[i] /\ i \in 1..Len(Append(h, e))
                                 /\ i # Len(h) + 1
         /\ Append(h, e)[Len(h) + 1] = e
         /\ \A i \in 1..Len(Append(h, e)) : i \in 1..Len(h) \/ i = Len(h) + 1
<1>1. /\ Append(h, e) \in Seq(S) /\ Len(h) \in Nat
      /\ Len(Append(h, e)) = Len(h) + 1
      /\ \A i \in 1..Len(h) : Append(h, e)[i] = h[i]
      /\ Append(h, e)[Len(h) + 1] = e
  BY AppendProperties, LenProperties
<1> QED
  BY <1>1

LEMMA OrderedNext ==
  ASSUME NEW t \in SUBSET Workflow, NEW u \in SUBSET Workflow,
         NEW h \in Seq(Evaluation), Ordered(t, u, h),
         NEW w \in t, \A v \in t : Def[w].file <= Def[v].file,
         NEW e \in Evaluation, e.wf = w,
         NEW t2 \in SUBSET (t \ {w}), NEW u2 \in SUBSET u
  PROVE  Ordered(t2, u2, Append(h, e))
<1> DEFINE new == Append(h, e)
<1>1. /\ Len(h) \in Nat /\ new[Len(h) + 1] = e
      /\ \A i \in 1..Len(h) : new[i] = h[i] /\ i # Len(h) + 1
      /\ \A i \in 1..Len(new) : i \in 1..Len(h) \/ i = Len(h) + 1
  BY AppendIs
<1>2. ASSUME NEW v \in t2 PROVE Before(w, v)
  <2>1. v \in t /\ v # w /\ v \in Workflow /\ w \in Workflow
    OBVIOUS
  <2>2. Def[w].file <= Def[v].file /\ Def[w].file # Def[v].file
    BY <2>1, DefAssumption
  <2>3. Def[w].file < Def[v].file
    BY <2>1, <2>2, DefIs
  <2>4. SamePass(w, v)
    BY <2>1 DEF Ordered
  <2> QED
    BY <2>3, <2>4 DEF Before, SamePass
<1> HIDE DEF new
<1>3. /\ \A v, x \in t2 : SamePass(v, x)
      /\ \A v, x \in u2 : Def[v].catchAll /\ SamePass(v, x)
  BY DEF Ordered
<1>4. u2 # {} => /\ \A x \in t2 : ~Def[x].catchAll
                 /\ \A i \in 1..Len(new) : ~Def[new[i].wf].catchAll
  BY <1>1 DEF Ordered
<1>5. \A i \in 1..Len(new) : \A x \in t2 : Before(new[i].wf, x)
  BY <1>1, <1>2 DEF Ordered
<1>6. ASSUME NEW i \in 1..Len(new), NEW j \in 1..Len(new), i < j
      PROVE  Before(new[i].wf, new[j].wf)
  <2>1. i \in 1..Len(h)
    <3>1. Len(new) = Len(h) + 1
      BY AppendIs DEF new
    <3> QED
      BY <1>1, <1>6, <3>1
  <2>2. CASE j \in 1..Len(h)
    BY <1>1, <1>6, <2>1, <2>2 DEF Ordered
  <2>3. CASE j = Len(h) + 1
    BY <1>1, <2>1, <2>3 DEF Ordered
  <2> QED
    BY <1>1, <2>2, <2>3
<1> QED
  BY <1>3, <1>4, <1>5, <1>6 DEF Ordered, new

\* Pass 1 is over.
LEMMA OrderedTwo ==
  ASSUME NEW u, NEW h, Ordered({}, u, h), u # {},
         \A w \in u : Def[w].catchAll \in BOOLEAN
  PROVE  Ordered(u, {}, h)
  BY DEF Ordered, Before

\* A new event.
LEMMA OrderedNew ==
  ASSUME NEW match \in SUBSET Workflow, NEW h, h = <<>>
  PROVE  LET catch == {w \in match : Def[w].catchAll}
         IN  Ordered(match \ catch, PassTwo(catch), h)
<1> DEFINE catch == {w \in match : Def[w].catchAll}
<1>1. Len(h) = 0 /\ 1..Len(h) = {}
  OBVIOUS
<1>2. \A v, w \in match \ catch : SamePass(v, w) /\ ~Def[w].catchAll
  BY DefIs DEF SamePass
<1>3. \A v, w \in PassTwo(catch) : Def[v].catchAll /\ SamePass(v, w)
  <2>1. \A w \in match : Wildcard(w) \in BOOLEAN
    BY DEF Wildcard
  <2>2. \A v, w \in catch : Def[v].catchAll = Def[w].catchAll
    BY DefIs
  <2> QED
    BY <2>1, <2>2 DEF PassTwo, SamePass
<1> HIDE DEF catch
<1> QED
  BY <1>1, <1>2, <1>3 DEF Ordered, catch

\* The newest entry of the ring with some property is an entry of it.
LEMMA NewestHit ==
  ASSUME NEW n \in Nat, NEW hits \in SUBSET (1..n), hits # {}
  PROVE  (CHOOSE i \in hits : \A j \in hits : j <= i) \in hits
<1>1. IsFiniteSet(1..n)
  BY FS_Interval
<1>2. PICK x \in hits : TRUE
  OBVIOUS
<1> DEFINE bounds == {k \in Nat : \A j \in hits : j <= k}
<1>3. n \in bounds
  OBVIOUS
<1>4. PICK k \in bounds : \A y \in bounds : ~ (<<y, k>> \in OpToRel(<, Nat))
  <2>1. bounds \in SUBSET Nat /\ bounds # {}
    BY <1>3
  <2> HIDE DEF bounds
  <2> QED
    BY <2>1, NatLessThanWellFounded, WFMin
<1>5. k \in hits
  <2>1. SUFFICES ASSUME k \notin hits PROVE FALSE
    OBVIOUS
  <2>2. k \in Nat /\ \A j \in hits : j \in Nat /\ 1 <= j /\ j <= k /\ j # k
    BY <2>1
  <2>3. k - 1 \in Nat /\ \A j \in hits : j <= k - 1
    BY <1>2, <2>2
  <2>4. k - 1 \in bounds
    BY <2>3
  <2>5. <<k - 1, k>> \in OpToRel(<, Nat) <=> k - 1 < k
    BY <2>2, <2>3, ZenonT(20) DEF OpToRel
  <2>6. ~ (k - 1 < k)
    BY <1>4, <2>4, <2>5, Zenon
  <2> QED
    BY <2>2, <2>6
<1> QED
  BY <1>5

-----------------------------------------------------------------------------
(* Steps of one runner, and steps of none.                                  *)

LEMMA TypeHalves == TypeOK <=> SharedOK /\ RunnersOK
  BY DEF TypeOK, SharedOK, RunnersOK

LEMMA RunnerType ==
  ASSUME Inv, NEW r \in Runner
  PROVE  /\ pc[r] \in PC /\ ev[r] \in Event
         /\ todo[r] \in SUBSET Workflow /\ rest[r] \in SUBSET Workflow
         /\ wf[r] \in Workflow \cup {NoWorkflow} /\ step[r] \in Nat \ {0}
         /\ claimed[r] \in BOOLEAN /\ ran[r] \in Seq(Evaluation)
         /\ Where(r, pc[r], todo[r], rest[r], wf[r], step[r], ran[r])
         /\ pc[r] \in Busy => wf[r] \in Workflow
         /\ ev[r].entity \in Target /\ ev[r].chain \in Seq(Workflow)
         /\ ev[r].cause \in SUBSET Workflow
<1>1. /\ pc[r] \in PC /\ ev[r] \in Event
      /\ todo[r] \in SUBSET Workflow /\ rest[r] \in SUBSET Workflow
      /\ wf[r] \in Workflow \cup {NoWorkflow} /\ step[r] \in Nat \ {0}
      /\ claimed[r] \in BOOLEAN /\ ran[r] \in Seq(Evaluation)
  BY DEF Inv, TypeOK
<1>2. Where(r, pc[r], todo[r], rest[r], wf[r], step[r], ran[r])
  BY DEF Inv, RunnerInv
<1>3. pc[r] \in Busy => wf[r] \in Workflow
  BY <1>1, <1>2 DEF Where
<1> QED
  BY <1>1, <1>2, <1>3 DEF Event

\* What a runner leaves alone it leaves as it is.
LEMMA Stays ==
  ASSUME Inv, NEW r \in Runner
  PROVE  /\ pc = [pc EXCEPT ![r] = pc[r]] /\ ev = [ev EXCEPT ![r] = ev[r]]
         /\ todo = [todo EXCEPT ![r] = todo[r]] /\ rest = [rest EXCEPT ![r] = rest[r]]
         /\ wf = [wf EXCEPT ![r] = wf[r]] /\ step = [step EXCEPT ![r] = step[r]]
         /\ claimed = [claimed EXCEPT ![r] = claimed[r]]
         /\ ran = [ran EXCEPT ![r] = ran[r]]
<1>1. RunnersOK
  BY TypeHalves DEF Inv
<1> QED
  BY <1>1 DEF RunnersOK

\* The primed state of runner r, and of r alone, is p, e, t, u, w, s, c, h.
Moved(r, p, e, t, u, w, s, c, h) ==
  /\ pc' = [pc EXCEPT ![r] = p] /\ ev' = [ev EXCEPT ![r] = e]
  /\ todo' = [todo EXCEPT ![r] = t] /\ rest' = [rest EXCEPT ![r] = u]
  /\ wf' = [wf EXCEPT ![r] = w] /\ step' = [step EXCEPT ![r] = s]
  /\ claimed' = [claimed EXCEPT ![r] = c] /\ ran' = [ran EXCEPT ![r] = h]

LEMMA RunnerMoves ==
  ASSUME Inv, NEW r \in Runner,
         NEW p \in PC, NEW e \in Event, NEW t \in SUBSET Workflow,
         NEW u \in SUBSET Workflow, NEW w \in Workflow \cup {NoWorkflow},
         NEW s \in Nat \ {0}, NEW c \in BOOLEAN, NEW h \in Seq(Evaluation),
         Moved(r, p, e, t, u, w, s, c, h), Where(r, p, t, u, w, s, h),
         SharedOK', SkipInv', IngestInv'
  PROVE  Inv'
<1>1. RunnersOK
  BY TypeHalves DEF Inv
<1>2. RunnersOK'
  BY <1>1 DEF RunnersOK, Moved
<1>3. TypeOK'
  BY <1>2 DEF TypeOK, SharedOK, RunnersOK
<1>4. ASSUME NEW x \in Runner PROVE RunnerInv(x)'
  <2>1. CASE x = r
    <3>1. /\ pc'[r] = p /\ todo'[r] = t /\ rest'[r] = u
          /\ wf'[r] = w /\ step'[r] = s /\ ran'[r] = h
      BY <1>1 DEF RunnersOK, Moved
    <3> QED
      BY <2>1, <3>1 DEF RunnerInv
  <2>2. CASE x # r
    <3>1. /\ pc'[x] = pc[x] /\ todo'[x] = todo[x] /\ rest'[x] = rest[x]
          /\ wf'[x] = wf[x] /\ step'[x] = step[x] /\ ran'[x] = ran[x]
      BY <1>1, <2>2 DEF RunnersOK, Moved
    <3> QED
      BY <3>1 DEF RunnerInv, Inv
  <2> QED
    BY <2>1, <2>2
<1> QED
  BY <1>3, <1>4 DEF Inv

\* The ingests are as they were, and no runner stops waiting for one.
LEMMA WaitsKept ==
  ASSUME Inv, NEW r \in Runner, NEW p, ingests' = ingests,
         pc' = [pc EXCEPT ![r] = p],
         pc[r] \notin {"awaiting", "resolving"}
  PROVE  IngestInv'
<1>1. \A i \in ingests : i.for \in Runner
  BY DEF Inv, TypeOK, Ingest
<1>2. \A i \in ingests : i.waited => pc[i.for] \in {"awaiting", "resolving"}
  BY DEF Inv, IngestInv
<1>3. \A i \in ingests : i.waited => pc'[i.for] \in {"awaiting", "resolving"}
  BY <1>1, <1>2 DEF Inv, TypeOK
<1> QED
  BY <1>3 DEF Inv, IngestInv

\* No runner moves.
LEMMA NoRunnerMoves ==
  ASSUME Inv, UNCHANGED <<pc, plan, doing, ran>>,
         SharedOK', SkipInv', IngestInv'
  PROVE  Inv'
<1>1. TypeOK'
  BY DEF TypeOK, SharedOK, Inv, plan, doing
<1>2. \A x \in Runner : RunnerInv(x)'
  BY DEF Inv, RunnerInv, plan, doing
<1> QED
  BY <1>1, <1>2 DEF Inv

-----------------------------------------------------------------------------
(* Around the worker.                                                       *)

LEMMA ExternalIs ==
  ASSUME NEW t \in Topic \cup {"manual"}, NEW e \in Target
  PROVE  External(t, e) \in Event
  BY DEF External, Event

LEMMA Inside ==
  ASSUME Inv
  PROVE  SharedOK /\ RunnersOK /\ SkipInv /\ IngestInv
  BY TypeHalves DEF Inv

\* Room in the queue for one more event.
LEMMA Enqueued ==
  ASSUME Inv, NEW e \in Event, Len(queue) < Capacity, queue' = Append(queue, e)
  PROVE  queue' \in Seq(Event) /\ Len(queue') <= Capacity
<1>1. queue \in Seq(Event) /\ Capacity \in Nat
  BY BoundAssumption DEF Inv, TypeOK
<1>2. Append(queue, e) \in Seq(Event) /\ Len(queue) \in Nat
      /\ Len(Append(queue, e)) = Len(queue) + 1
  BY <1>1, AppendIs
<1> QED
  BY <1>1, <1>2

LEMMA PublishInv ==
  ASSUME Inv, NEW i \in Inputs, Publish(i[1], i[2])
  PROVE  Inv'
<1>1. /\ Len(queue) < Capacity /\ queue' = Append(queue, External(i[1], i[2]))
      /\ published < MaxPublish /\ published' = published + 1
      /\ registry' = registry /\ seen' = seen /\ logged' = logged /\ ring' = ring
      /\ stopped' = stopped /\ ingests' = ingests
      /\ result' = result /\ fires' = fires /\ pc' = pc
      /\ UNCHANGED <<pc, plan, doing, ran>>
  BY DEF Publish, hist
<1>2. External(i[1], i[2]) \in Event
  BY BoundAssumption, ExternalIs DEF Target
<1>3. queue' \in Seq(Event) /\ Len(queue') <= Capacity
  BY <1>1, <1>2, Enqueued
<1>4. published' \in 0..MaxPublish
  BY <1>1, BoundAssumption DEF Inv, TypeOK
<1>5. SharedOK'
  BY <1>1, <1>3, <1>4, Inside DEF SharedOK
<1>6. SkipInv' /\ IngestInv'
  BY <1>1, Inside DEF SkipInv, IngestInv
<1> QED
  BY <1>1, <1>5, <1>6, NoRunnerMoves

LEMMA ShutdownInv ==
  ASSUME Inv, Shutdown
  PROVE  Inv'
<1>1. /\ queue' = queue /\ stopped' = TRUE
      /\ registry' = registry /\ seen' = seen /\ logged' = logged /\ ring' = ring
      /\ ingests' = ingests /\ published' = published
      /\ result' = result /\ fires' = fires /\ pc' = pc
      /\ UNCHANGED <<pc, plan, doing, ran>>
  BY DEF Shutdown, hist, outside
<1>2. SharedOK'
  BY <1>1, Inside DEF SharedOK
<1>3. SkipInv' /\ IngestInv'
  BY <1>1, Inside DEF SkipInv, IngestInv
<1> QED
  BY <1>1, <1>2, <1>3, NoRunnerMoves

LEMMA ReconcileInv ==
  ASSUME Inv, NEW l \in Reloads, Reconcile(l)
  PROVE  Inv'
<1>1. /\ queue' = queue /\ stopped' = stopped
      /\ seen' = seen /\ logged' = logged /\ ring' = ring
      /\ ingests' = ingests /\ published' = published
      /\ result' = result /\ fires' = fires /\ pc' = pc
      /\ UNCHANGED <<pc, plan, doing, ran>>
  BY DEF Reconcile, hist, outside
<1>2. registry' \subseteq Workflow
  <2>1. l.files \subseteq Workflow
    BY BoundAssumption
  <2>2. registry \subseteq Workflow
    BY DEF Inv, TypeOK
  <2>3. registry' \subseteq registry \cup l.files
    BY DEF Reconcile
  <2> QED
    BY <2>1, <2>2, <2>3
<1>3. SharedOK'
  BY <1>1, <1>2, Inside DEF SharedOK
<1>4. SkipInv' /\ IngestInv'
  BY <1>1, Inside DEF SkipInv, IngestInv
<1> QED
  BY <1>1, <1>3, <1>4, NoRunnerMoves

LEMMA IngestSavedInv ==
  ASSUME Inv, NEW i \in ingests, IngestSaved(i)
  PROVE  Inv'
<1> DEFINE saved == [i EXCEPT !.saved = TRUE]
<1>1. /\ queue' = queue /\ stopped' = stopped /\ registry' = registry
      /\ seen' = seen /\ logged' = logged /\ ring' = ring
      /\ ingests' = (ingests \ {i}) \cup {saved} /\ published' = published
      /\ result' = result /\ fires' = fires /\ pc' = pc
      /\ UNCHANGED <<pc, plan, doing, ran>>
  BY DEF IngestSaved, hist, engine
<1>2. i \in Ingest
  BY DEF Inv, TypeOK
<1>3. saved \in Ingest /\ saved.for = i.for /\ saved.waited = i.waited
  BY <1>2 DEF Ingest
<1> HIDE DEF saved
<1>4. SharedOK'
  BY <1>1, <1>3, Inside DEF SharedOK
<1>5. IngestInv'
  BY <1>1, <1>3, Inside DEF IngestInv
<1>6. SkipInv'
  BY <1>1, Inside DEF SkipInv
<1> QED
  BY <1>1, <1>4, <1>5, <1>6, NoRunnerMoves

\* partition: the workflows whose probe fails leave a decision each.
LEMMA ErrorsAre ==
  ASSUME Inv, NEW lost \in SUBSET Workflow, NEW e \in Target
  PROVE  LET order == SetToSeq(lost)
             error(w) == [Decide(Worker, w, FALSE, FALSE, FALSE) EXCEPT !.entity = e]
         IN  [n \in DOMAIN order |-> error(order[n])] \in Seq(Decision)
<1> DEFINE order == SetToSeq(lost)
           error(w) == [Decide(Worker, w, FALSE, FALSE, FALSE) EXCEPT !.entity = e]
           errors == [n \in DOMAIN order |-> error(order[n])]
<1>1. order \in Seq(Workflow)
  BY InSequence
<1>2. \A w \in Workflow : error(w) \in Decision
  BY RunnerType DEF Decide, Decision, Runner
<1> HIDE DEF order, error
<1>3. Len(order) \in Nat /\ DOMAIN order = 1..Len(order)
      /\ \A n \in 1..Len(order) : order[n] \in Workflow
  BY <1>1, LenProperties, ElementOfSeq
<1>4. errors \in [1..Len(order) -> Decision]
  BY <1>2, <1>3
<1>5. errors \in Seq(Decision)
  BY <1>3, <1>4, SeqDef
<1> QED
  BY <1>5 DEF order, error

LEMMA DequeueInv ==
  ASSUME Inv, Dequeue
  PROVE  Inv'
<1> DEFINE e == Head(queue)
<1>1. /\ pc[Worker] = "idle" /\ queue # <<>> /\ queue' = Tail(queue)
      /\ pc' = [pc EXCEPT ![Worker] = "chain"]
      /\ ran' = [ran EXCEPT ![Worker] = <<>>]
      /\ registry' = registry /\ seen' = seen /\ logged' = logged
      /\ stopped' = stopped /\ ingests' = ingests /\ published' = published
      /\ wf' = wf /\ step' = step /\ claimed' = claimed
      /\ result' = result /\ fires' = fires
  BY DEF Dequeue, outside, doing
<1>2. e \in Event /\ Tail(queue) \in Seq(Event) /\ Len(Tail(queue)) <= Capacity
  <2>1. queue \in Seq(Event) /\ Len(queue) <= Capacity /\ Capacity \in Nat
    BY BoundAssumption DEF Inv, TypeOK
  <2>2. /\ Head(queue) \in Event /\ Tail(queue) \in Seq(Event)
        /\ Len(Tail(queue)) = Len(queue) - 1 /\ Len(queue) \in Nat
    BY <1>1, <2>1, HeadTailProperties, LenProperties
  <2> QED
    BY <2>1, <2>2
<1>3. PICK lost \in SUBSET {w \in registry : ProbesTarget(w, e)
                                               /\ "failed" \in Def[w].outcomes} :
        LET match == {w \in registry \ lost : Matches(w, e)}
            catch == {w \in match : Def[w].catchAll}
            order == SetToSeq(lost)
            error(w) == [Decide(Worker, w, FALSE, FALSE, FALSE)
                           EXCEPT !.entity = e.entity]
        IN /\ Record([n \in DOMAIN order |-> error(order[n])])
           /\ ev' = [ev EXCEPT ![Worker] = e]
           /\ todo' = [todo EXCEPT ![Worker] = match \ catch]
           /\ rest' = [rest EXCEPT ![Worker] = PassTwo(catch)]
  BY DEF Dequeue
<1> DEFINE match == {w \in registry \ lost : Matches(w, e)}
           catch == {w \in match : Def[w].catchAll}
           t == match \ catch
           u == PassTwo(catch)
<1>4. registry \subseteq Workflow /\ Worker \in Runner /\ lost \subseteq Workflow
  BY DEF Inv, TypeOK, Runner
<1>5. ring' \in Seq(Decision) /\ Len(ring') <= RingSize
  <2> DEFINE order == SetToSeq(lost)
             error(w) == [Decide(Worker, w, FALSE, FALSE, FALSE)
                            EXCEPT !.entity = e.entity]
             errors == [n \in DOMAIN order |-> error(order[n])]
  <2>1. e.entity \in Target
    BY <1>2 DEF Event
  <2>2. errors \in Seq(Decision)
    BY <1>4, <2>1, ErrorsAre
  <2>3. Record(errors)
    BY <1>3
  <2> HIDE DEF errors
  <2> QED
    BY <2>2, <2>3, RecordIs, Inside DEF SharedOK
<1>6. match \in SUBSET Workflow
  BY <1>4
<1>7. Ordered(t, u, <<>>)
  <2> HIDE DEF match
  <2> QED
    BY <1>6, OrderedNew
<1>8. t \in SUBSET Workflow /\ u \in SUBSET Workflow
  BY <1>6 DEF PassTwo
<1>9. /\ ev' = [ev EXCEPT ![Worker] = e]
      /\ todo' = [todo EXCEPT ![Worker] = t]
      /\ rest' = [rest EXCEPT ![Worker] = u]
  BY <1>3
<1> HIDE DEF e, t, u, match
<1>10. Moved(Worker, "chain", e, t, u, wf[Worker], step[Worker], claimed[Worker], <<>>)
  BY <1>1, <1>4, <1>9, Stays DEF Moved
<1>11. Len(<<>>) = 0 /\ <<>> \in Seq(Evaluation)
  OBVIOUS
<1>12. Where(Worker, "chain", t, u, wf[Worker], step[Worker], <<>>)
  BY <1>7, <1>11 DEF Where, Busy, ClaimLast
<1>13. SharedOK'
  BY <1>1, <1>2, <1>5, Inside DEF SharedOK
<1>14. SkipInv'
  BY <1>1, Inside DEF SkipInv
<1>15. IngestInv'
  BY <1>1, <1>4, WaitsKept
<1>16. "chain" \in PC
  BY DEF PC
<1>17. /\ wf[Worker] \in Workflow \cup {NoWorkflow} /\ step[Worker] \in Nat \ {0}
       /\ claimed[Worker] \in BOOLEAN
  BY <1>4, RunnerType
<1>18. e \in Event
  BY <1>2
<1> QED
  BY ONLY Inv, <1>4, <1>8, <1>10, <1>11, <1>12, <1>13, <1>14, <1>15, <1>16, <1>17,
          <1>18, RunnerMoves

\* A runner moves to another place only, with what it holds or without.
LEMMA PlaceStep ==
  ASSUME Inv, NEW r \in Runner, NEW p \in PC,
         NEW t \in SUBSET Workflow, NEW u \in SUBSET Workflow,
         NEW s \in Nat \ {0}, NEW c \in BOOLEAN,
         pc' = [pc EXCEPT ![r] = p],
         todo' = [todo EXCEPT ![r] = t], rest' = [rest EXCEPT ![r] = u],
         step' = [step EXCEPT ![r] = s], claimed' = [claimed EXCEPT ![r] = c],
         UNCHANGED <<ev, wf, ran>>,
         Where(r, p, t, u, wf[r], s, ran[r]),
         SharedOK', SkipInv', IngestInv'
  PROVE  Inv'
<1>1. Moved(r, p, ev[r], t, u, wf[r], s, c, ran[r])
  BY Stays DEF Moved
<1>2. /\ ev[r] \in Event /\ wf[r] \in Workflow \cup {NoWorkflow}
      /\ ran[r] \in Seq(Evaluation)
  BY RunnerType
<1> QED
  BY <1>1, <1>2, RunnerMoves

LEMMA WorkerExitInv ==
  ASSUME Inv, WorkerExit
  PROVE  Inv'
<1> DEFINE r == Worker
<1>1. /\ r \in Runner /\ pc[r] = "idle" /\ pc' = [pc EXCEPT ![r] = "exited"]
      /\ UNCHANGED <<engine, outside, plan, doing, hist>>
  BY DEF WorkerExit, Runner
<1>2. Where(r, "exited", todo[r], rest[r], wf[r], step[r], ran[r])
  BY <1>1, RunnerType DEF Where, Busy
<1>3. SharedOK' /\ SkipInv'
  BY <1>1, Inside DEF SharedOK, SkipInv, engine, outside, hist
<1>4. IngestInv'
  BY <1>1, WaitsKept DEF outside
<1>5. "exited" \in PC
  BY DEF PC
<1>6. /\ todo' = [todo EXCEPT ![r] = todo[r]] /\ rest' = [rest EXCEPT ![r] = rest[r]]
      /\ step' = [step EXCEPT ![r] = step[r]]
      /\ claimed' = [claimed EXCEPT ![r] = claimed[r]]
      /\ UNCHANGED <<ev, wf, ran>>
  BY <1>1, Stays DEF plan, doing, hist
<1>7. /\ todo[r] \in SUBSET Workflow /\ rest[r] \in SUBSET Workflow
      /\ step[r] \in Nat \ {0} /\ claimed[r] \in BOOLEAN
  BY <1>1, RunnerType
<1> HIDE DEF r
<1> QED
  BY <1>1, <1>2, <1>3, <1>4, <1>5, <1>6, <1>7, PlaceStep

LEMMA PassTwoBeginsInv ==
  ASSUME Inv, NEW r \in Runner, PassTwoBegins(r)
  PROVE  Inv'
<1>1. /\ pc[r] = "chain" /\ todo[r] = {} /\ rest[r] # {}
      /\ todo' = [todo EXCEPT ![r] = rest[r]] /\ rest' = [rest EXCEPT ![r] = {}]
      /\ UNCHANGED <<engine, outside, pc, ev, doing, hist>>
  BY DEF PassTwoBegins
<1>2. /\ rest[r] \in SUBSET Workflow /\ ran[r] \in Seq(Evaluation)
      /\ step[r] \in Nat \ {0} /\ claimed[r] \in BOOLEAN
      /\ Where(r, "chain", {}, rest[r], wf[r], step[r], ran[r])
  BY <1>1, RunnerType
<1>3. r = Worker => Ordered(rest[r], {}, ran[r])
  <2>1. \A w \in rest[r] : Def[w].catchAll \in BOOLEAN
    BY <1>2, DefIs
  <2> QED
    BY <1>1, <1>2, <2>1, OrderedTwo DEF Where
<1>4. ClaimLast(rest[r], {}, ran[r])
  BY <1>1, <1>2 DEF Where, ClaimLast
<1>5. Where(r, "chain", rest[r], {}, wf[r], step[r], ran[r])
  BY <1>3, <1>4 DEF Where, Busy
<1>6. SharedOK' /\ SkipInv'
  BY <1>1, Inside DEF SharedOK, SkipInv, engine, outside, hist
<1>7. pc' = [pc EXCEPT ![r] = "chain"]
  BY <1>1, Stays
<1>8. IngestInv'
  BY <1>1, <1>7, WaitsKept DEF outside
<1>9. "chain" \in PC /\ {} \in SUBSET Workflow
  BY DEF PC
<1>10. /\ step' = [step EXCEPT ![r] = step[r]]
       /\ claimed' = [claimed EXCEPT ![r] = claimed[r]]
       /\ UNCHANGED <<ev, wf, ran>>
  BY <1>1, Stays DEF doing, hist
<1> QED
  BY <1>1, <1>2, <1>5, <1>6, <1>7, <1>8, <1>9, <1>10, PlaceStep

LEMMA ChainEndsInv ==
  ASSUME Inv, NEW r \in Runner, ChainEnds(r)
  PROVE  Inv'
<1> DEFINE p == IF r = Worker THEN "idle" ELSE "find"
<1>1. /\ pc[r] = "chain" /\ pc' = [pc EXCEPT ![r] = p]
      /\ UNCHANGED <<engine, outside, plan, doing, hist>>
  BY DEF ChainEnds
<1>2. /\ todo[r] \in SUBSET Workflow /\ rest[r] \in SUBSET Workflow
      /\ step[r] \in Nat \ {0} /\ claimed[r] \in BOOLEAN
      /\ Where(r, "chain", todo[r], rest[r], wf[r], step[r], ran[r])
  BY <1>1, RunnerType
<1>3. p \in PC
  BY DEF PC
<1>4. Where(r, p, todo[r], rest[r], wf[r], step[r], ran[r])
  BY <1>2 DEF Where, Busy
<1> HIDE DEF p
<1>5. SharedOK' /\ SkipInv'
  BY <1>1, Inside DEF SharedOK, SkipInv, engine, outside, hist
<1>6. IngestInv'
  BY <1>1, WaitsKept DEF outside
<1>7. /\ todo' = [todo EXCEPT ![r] = todo[r]] /\ rest' = [rest EXCEPT ![r] = rest[r]]
      /\ step' = [step EXCEPT ![r] = step[r]]
      /\ claimed' = [claimed EXCEPT ![r] = claimed[r]]
      /\ UNCHANGED <<ev, wf, ran>>
  BY <1>1, Stays DEF plan, doing, hist
<1> QED
  BY <1>1, <1>2, <1>3, <1>4, <1>5, <1>6, <1>7, PlaceStep

-----------------------------------------------------------------------------
(* Evaluations.                                                             *)

\* The runner has evaluated the first workflow that was left.
LEMMA Evaluated ==
  ASSUME Inv, NEW r \in Runner, NEW w \in todo[r],
         \A v \in todo[r] : Def[w].file <= Def[v].file,
         NEW e \in Evaluation, e.wf = w,
         NEW t2 \in SUBSET (todo[r] \ {w}), NEW u2 \in SUBSET rest[r],
         e.claimed => t2 = {} /\ u2 = {}
  PROVE  /\ Where(r, "chain", t2, u2, wf[r], step[r], Append(ran[r], e))
         /\ Append(ran[r], e) \in Seq(Evaluation)
<1> DEFINE h == ran[r]
<1>1. /\ h \in Seq(Evaluation)
      /\ todo[r] \in SUBSET Workflow /\ rest[r] \in SUBSET Workflow
      /\ Where(r, pc[r], todo[r], rest[r], wf[r], step[r], h)
  BY RunnerType
<1>2. /\ Append(h, e) \in Seq(Evaluation) /\ Len(h) \in Nat
      /\ Len(Append(h, e)) = Len(h) + 1
      /\ \A i \in 1..Len(h) : Append(h, e)[i] = h[i]
      /\ Append(h, e)[Len(h) + 1] = e
      /\ \A i \in 1..Len(Append(h, e)) : i \in 1..Len(h) \/ i = Len(h) + 1
  BY <1>1, AppendIs
<1>3. \A i \in 1..Len(h) : ~h[i].claimed
  BY <1>1 DEF Where, ClaimLast
<1> HIDE DEF h
<1>4. ClaimLast(t2, u2, Append(h, e))
  BY <1>2, <1>3 DEF ClaimLast
<1>5. r = Worker => Ordered(t2, u2, Append(h, e))
  BY <1>1, OrderedNext DEF Where
<1> QED
  BY <1>2, <1>4, <1>5 DEF Where, Busy, h

LEMMA DecideIs ==
  ASSUME Inv, NEW r \in Runner, NEW w \in Workflow,
         NEW x \in BOOLEAN, NEW y \in BOOLEAN, NEW z \in BOOLEAN
  PROVE  Decide(r, w, x, y, z) \in Decision /\ <<Decide(r, w, x, y, z)>> \in Seq(Decision)
<1>1. ev[r].entity \in Target
  BY RunnerType
<1>2. Decide(r, w, x, y, z) \in Decision
  BY <1>1 DEF Decide, Decision
<1> QED
  BY <1>2, OneDecision

LEMMA GoesOn ==
  ASSUME Inv, NEW r \in Runner, NEW w \in Workflow, Current(r, w), GoOn(r, w),
         seen' = seen, logged' \subseteq Workflow \X Seq(Workflow),
         NEW ds \in Seq(Decision), Record(ds)
  PROVE  Inv'
<1> DEFINE e == [wf |-> w, claimed |-> FALSE]
           t == todo[r] \ {w}
           h == Append(ran[r], e)
<1>1. /\ w \in todo[r] /\ \A v \in todo[r] : Def[w].file <= Def[v].file
      /\ pc[r] = "chain"
  BY DEF Current
<1>2. /\ todo' = [todo EXCEPT ![r] = t] /\ ran' = [ran EXCEPT ![r] = h]
      /\ UNCHANGED <<queue, registry, stopped, outside, pc, ev, rest, doing, result, fires>>
  BY DEF GoOn
<1>3. e \in Evaluation /\ e.wf = w /\ ~e.claimed
  BY DEF Evaluation
<1>4. /\ t \in SUBSET (todo[r] \ {w}) /\ rest[r] \in SUBSET rest[r]
      /\ t \in SUBSET Workflow
  BY RunnerType
<1> HIDE DEF e, t
<1>5. Where(r, "chain", t, rest[r], wf[r], step[r], h) /\ h \in Seq(Evaluation)
  BY <1>1, <1>3, <1>4, Evaluated
<1> HIDE DEF h
<1>6. Moved(r, "chain", ev[r], t, rest[r], wf[r], step[r], claimed[r], h)
  BY <1>1, <1>2, Stays DEF Moved, doing
<1>7. ring' \in Seq(Decision) /\ Len(ring') <= RingSize
  BY RecordIs, Inside DEF SharedOK
<1>8. SharedOK'
  BY <1>2, <1>7, Inside DEF SharedOK, outside
<1>9. SkipInv'
  BY <1>2, Inside DEF SkipInv
<1>10. IngestInv'
  BY <1>2, Inside DEF IngestInv, outside
<1>11. /\ "chain" \in PC /\ ev[r] \in Event /\ rest[r] \in SUBSET Workflow
       /\ wf[r] \in Workflow \cup {NoWorkflow} /\ step[r] \in Nat \ {0}
       /\ claimed[r] \in BOOLEAN
  BY RunnerType DEF PC
<1> QED
  BY ONLY Inv, r \in Runner, <1>4, <1>5, <1>6, <1>8, <1>9, <1>10, <1>11, RunnerMoves

LEMMA EvaluateNoFireInv ==
  ASSUME Inv, NEW r \in Runner, NEW w \in Workflow, EvaluateNoFire(r, w)
  PROVE  Inv'
<1>1. logged' \subseteq Workflow \X Seq(Workflow)
  BY DEF EvaluateNoFire, Inv, TypeOK
<1>2. PICK fired \in BOOLEAN :
        /\ Record(<<Decide(r, w, fired, FALSE, FALSE)>>)
        /\ Current(r, w) /\ GoOn(r, w) /\ UNCHANGED <<seen, logged>>
  BY DefAssumption DEF EvaluateNoFire, Definition
<1>3. <<Decide(r, w, fired, FALSE, FALSE)>> \in Seq(Decision)
  BY DecideIs
<1> QED
  BY <1>1, <1>2, <1>3, GoesOn

LEMMA EvaluateCycleInv ==
  ASSUME Inv, NEW r \in Runner, NEW w \in Workflow, EvaluateCycle(r, w)
  PROVE  Inv'
<1>1. logged' \subseteq Workflow \X Seq(Workflow)
  <2>1. ev[r].chain \in Seq(Workflow)
    BY RunnerType
  <2>2. logged \subseteq Workflow \X Seq(Workflow)
    BY DEF Inv, TypeOK
  <2> QED
    BY <2>1, <2>2 DEF EvaluateCycle
<1>2. <<Decide(r, w, FALSE, TRUE, FALSE)>> \in Seq(Decision)
  BY DecideIs
<1> QED
  BY <1>1, <1>2, GoesOn DEF EvaluateCycle

LEMMA EvaluateSkipInv ==
  ASSUME Inv, NEW r \in Runner, NEW w \in Workflow, EvaluateSkip(r, w)
  PROVE  Inv'
<1>1. logged' \subseteq Workflow \X Seq(Workflow)
  BY DEF EvaluateSkip, Inv, TypeOK
<1>2. <<Decide(r, w, TRUE, FALSE, FALSE)>> \in Seq(Decision)
  BY DecideIs
<1> QED
  BY <1>1, <1>2, GoesOn DEF EvaluateSkip, Fires

\* runActions begins.
LEMMA Starts ==
  ASSUME Inv, NEW r \in Runner, NEW w \in Workflow, Current(r, w),
         NEW outcomes, Start(r, w, outcomes),
         seen' \subseteq Workflow \X Target,
         fires' \in [Workflow \X Target -> 0..2], SkipInv'
  PROVE  Inv'
<1>1. /\ w \in todo[r] /\ \A v \in todo[r] : Def[w].file <= Def[v].file
      /\ pc[r] = "chain"
  BY DEF Current
<1>2. PICK o \in outcomes \cap Def[w].outcomes :
        step' = [step EXCEPT ![r] = IF o = "render_error"
                                    THEN Len(Def[w].actions) + 1 ELSE 1]
  BY DEF Start
<1> DEFINE s == IF o = "render_error" THEN Len(Def[w].actions) + 1 ELSE 1
<1>3. s \in Nat \ {0} /\ step' = [step EXCEPT ![r] = s]
  BY <1>2, DefIs
<1> HIDE DEF s
<1>4. /\ wf' = [wf EXCEPT ![r] = w] /\ claimed' = [claimed EXCEPT ![r] = FALSE]
      /\ pc' = [pc EXCEPT ![r] = "acting"]
      /\ UNCHANGED <<queue, registry, logged, stopped, outside, plan, result, ran>>
  BY DEF Start
<1>5. ring' \in Seq(Decision) /\ Len(ring') <= RingSize
  <2>1. ring' = ring \/ Record(<<Decide(r, w, TRUE, FALSE, FALSE)>>)
    BY DEF Start
  <2>2. <<Decide(r, w, TRUE, FALSE, FALSE)>> \in Seq(Decision)
    BY DecideIs
  <2> QED
    BY <2>1, <2>2, RecordIs, Inside DEF SharedOK
<1>6. SharedOK'
  BY <1>4, <1>5, Inside DEF SharedOK, outside
<1>7. IngestInv'
  BY <1>1, <1>4, WaitsKept DEF outside
<1>8. Moved(r, "acting", ev[r], todo[r], rest[r], w, s, FALSE, ran[r])
  BY <1>3, <1>4, Stays DEF Moved, plan
<1>9. Where(r, "acting", todo[r], rest[r], w, s, ran[r])
  BY <1>1, RunnerType DEF Where, Busy
<1>10. /\ "acting" \in PC /\ ev[r] \in Event /\ todo[r] \in SUBSET Workflow
       /\ rest[r] \in SUBSET Workflow /\ w \in Workflow \cup {NoWorkflow}
       /\ FALSE \in BOOLEAN /\ ran[r] \in Seq(Evaluation)
  BY RunnerType DEF PC
<1> QED
  BY ONLY Inv, r \in Runner, SkipInv', <1>3, <1>6, <1>7, <1>8, <1>9, <1>10, RunnerMoves

LEMMA EvaluateFireInv ==
  ASSUME Inv, NEW r \in Runner, NEW w \in Workflow, EvaluateFire(r, w)
  PROVE  Inv'
<1> DEFINE key == <<w, ev[r].entity>>
<1>1. /\ Current(r, w) /\ ~(Def[w].dedup = "skip" /\ key \in seen)
      /\ seen' = IF Def[w].dedup = "none" THEN seen ELSE seen \cup {key}
      /\ Start(r, w, {"true", "render_error"})
      /\ fires' = [fires EXCEPT ![key] = IF fires[key] = 2 THEN 2 ELSE fires[key] + 1]
  BY DEF EvaluateFire, Fires, Seen, Count
<1>2. key \in Workflow \X Target /\ ev[r].entity \in Target
  BY RunnerType
<1>3. /\ fires \in [Workflow \X Target -> 0..2] /\ seen \subseteq Workflow \X Target
      /\ SkipInv
  BY Inside DEF SharedOK
<1>4. fires' \in [Workflow \X Target -> 0..2]
  <2>1. (IF fires[key] = 2 THEN 2 ELSE fires[key] + 1) \in 0..2
    BY <1>2, <1>3
  <2> QED
    BY <1>1, <1>3, <2>1
<1>5. seen' \subseteq Workflow \X Target
  BY <1>1, <1>2, <1>3
<1>6. SkipInv'
  <2> SUFFICES ASSUME NEW v \in Workflow, NEW e \in Target, Def[v].dedup = "skip"
               PROVE  fires'[<<v, e>>] = 0 \/ (fires'[<<v, e>>] = 1 /\ <<v, e>> \in seen')
    BY DEF SkipInv
  <2>1. fires[<<v, e>>] = 0 \/ (fires[<<v, e>>] = 1 /\ <<v, e>> \in seen)
    BY <1>3 DEF SkipInv
  <2>2. CASE <<v, e>> = key
    <3>1. v = w
      BY <2>2
    <3>2. key \notin seen /\ key \in seen'
      BY <1>1, <3>1
    <3>3. fires[key] = 0
      BY <2>1, <2>2, <3>2
    <3>4. fires'[key] = 1
      BY <1>1, <1>2, <1>3, <3>3
    <3> HIDE DEF key
    <3> QED
      BY <2>2, <3>2, <3>4
  <2>3. CASE <<v, e>> # key
    <3>1. fires'[<<v, e>>] = fires[<<v, e>>]
      BY <1>1, <1>3, <2>3
    <3>2. seen \subseteq seen'
      BY <1>1
    <3> QED
      BY <2>1, <3>1, <3>2
  <2> QED
    BY <2>2, <2>3
<1> QED
  BY <1>1, <1>4, <1>5, <1>6, Starts

LEMMA EvaluateFireNoKeyInv ==
  ASSUME Inv, NEW r \in Runner, NEW w \in Workflow, EvaluateFireNoKey(r, w)
  PROVE  Inv'
<1>1. /\ Current(r, w) /\ Start(r, w, {"blank_key"}) /\ seen' = seen /\ fires' = fires
  BY DEF EvaluateFireNoKey, Fires
<1>2. /\ seen' \subseteq Workflow \X Target /\ fires' \in [Workflow \X Target -> 0..2]
      /\ SkipInv'
  BY <1>1, Inside DEF SharedOK, SkipInv
<1> QED
  BY <1>1, <1>2, Starts

-----------------------------------------------------------------------------
(* Actions.                                                                 *)

LEMMA StepIs ==
  ASSUME Inv, NEW r \in Runner
  PROVE  step[r] + 1 \in Nat \ {0}
<1>1. step[r] \in Nat \ {0}
  BY RunnerType
<1> QED
  BY <1>1

\* The action a runner is at.
LEMMA DoingIs ==
  ASSUME Inv, NEW r \in Runner, pc[r] \in Busy, step[r] <= Len(Def[wf[r]].actions)
  PROVE  Doing(r) \in Action /\ wf[r] \in Workflow
<1>1. wf[r] \in Workflow /\ step[r] \in Nat \ {0}
  BY RunnerType
<1>2. Len(Def[wf[r]].actions) \in Nat
  BY <1>1, DefIs
<1>3. step[r] \in 1..Len(Def[wf[r]].actions)
  BY <1>1, <1>2
<1> QED
  BY <1>1, <1>3, DefIs DEF Doing

LEMMA ChildIs ==
  ASSUME Inv, NEW r \in Runner, pc[r] \in Busy,
         step[r] <= Len(Def[wf[r]].actions), Doing(r).do \in {"emit", "ingest"}
  PROVE  Child(r) \in Event /\ Doing(r).topic \in Topic /\ Doing(r).entity \in Entity
<1>1. Doing(r) \in Action /\ wf[r] \in Workflow
  BY DoingIs
<1>2. Doing(r).topic \in Topic /\ Doing(r).entity \in Entity
  BY <1>1 DEF Action
<1>3. ev[r].chain \in Seq(Workflow) /\ ev[r].cause \in SUBSET Workflow
  BY RunnerType
<1>4. Append(ev[r].chain, wf[r]) \in Seq(Workflow) /\ <<>> \in Seq(Workflow)
  BY <1>1, <1>3, AppendIs
<1>5. (IF ev[r].entity = NoTarget THEN <<>> ELSE Append(ev[r].chain, wf[r])) \in Seq(Workflow)
  BY <1>4
<1> QED
  BY <1>1, <1>2, <1>3, <1>5 DEF Child, Event, Target

LEMMA ActQuietlyInv ==
  ASSUME Inv, NEW r \in Runner, ActQuietly(r) \/ ActClaim(r)
  PROVE  Inv'
<1>1. PICK c \in BOOLEAN : claimed' = [claimed EXCEPT ![r] = c]
  <2>1. CASE ActQuietly(r)
    BY <2>1, Stays, RunnerType DEF ActQuietly
  <2>2. CASE ActClaim(r)
    BY <2>2 DEF ActClaim
  <2> QED
    BY <2>1, <2>2
<1>2. /\ pc[r] = "acting" /\ step' = [step EXCEPT ![r] = step[r] + 1]
      /\ UNCHANGED <<engine, outside, pc, plan, wf, hist>>
  BY DEF ActQuietly, ActClaim, MoreToDo, Advance
<1>3. /\ todo[r] \in SUBSET Workflow /\ rest[r] \in SUBSET Workflow
      /\ Where(r, "acting", todo[r], rest[r], wf[r], step[r], ran[r])
  BY <1>2, RunnerType
<1>4. Where(r, "acting", todo[r], rest[r], wf[r], step[r] + 1, ran[r])
  BY <1>3 DEF Where
<1>5. SharedOK' /\ SkipInv' /\ IngestInv'
  BY <1>2, Inside DEF SharedOK, SkipInv, IngestInv, engine, outside, hist
<1>6. /\ pc' = [pc EXCEPT ![r] = "acting"] /\ "acting" \in PC
      /\ todo' = [todo EXCEPT ![r] = todo[r]] /\ rest' = [rest EXCEPT ![r] = rest[r]]
      /\ UNCHANGED <<ev, wf, ran>>
  BY <1>2, Stays DEF plan, hist, PC
<1> QED
  BY <1>1, <1>2, <1>3, <1>4, <1>5, <1>6, StepIs, PlaceStep

LEMMA ActPublishInv ==
  ASSUME Inv, NEW r \in Runner, ActPublish(r)
  PROVE  Inv'
<1>1. /\ pc[r] = "acting" /\ pc' = [pc EXCEPT ![r] = "publishing"]
      /\ step[r] <= Len(Def[wf[r]].actions) /\ Def[wf[r]].actions[step[r]].do = "emit"
      /\ UNCHANGED <<engine, outside, plan, doing, hist>>
  BY DEF ActPublish, MoreToDo, Doing
<1>2. /\ todo[r] \in SUBSET Workflow /\ rest[r] \in SUBSET Workflow
      /\ step[r] \in Nat \ {0} /\ claimed[r] \in BOOLEAN
      /\ Where(r, "acting", todo[r], rest[r], wf[r], step[r], ran[r])
  BY <1>1, RunnerType
<1>3. Where(r, "publishing", todo[r], rest[r], wf[r], step[r], ran[r])
  BY <1>1, <1>2 DEF Where, Busy
<1>4. SharedOK' /\ SkipInv'
  BY <1>1, Inside DEF SharedOK, SkipInv, engine, outside, hist
<1>5. IngestInv'
  BY <1>1, WaitsKept DEF outside
<1>6. /\ todo' = [todo EXCEPT ![r] = todo[r]] /\ rest' = [rest EXCEPT ![r] = rest[r]]
      /\ step' = [step EXCEPT ![r] = step[r]]
      /\ claimed' = [claimed EXCEPT ![r] = claimed[r]]
      /\ UNCHANGED <<ev, wf, ran>> /\ "publishing" \in PC
  BY <1>1, Stays DEF plan, doing, hist, PC
<1> QED
  BY <1>1, <1>2, <1>3, <1>4, <1>5, <1>6, PlaceStep

LEMMA SendInv ==
  ASSUME Inv, NEW r \in Runner, Send(r) \/ SendStopped(r)
  PROVE  Inv'
<1>1. /\ pc[r] = "publishing" /\ pc' = [pc EXCEPT ![r] = "acting"]
      /\ step' = [step EXCEPT ![r] = step[r] + 1]
      /\ UNCHANGED <<registry, seen, logged, ring, stopped, outside, plan, wf, claimed,
                     hist>>
  BY DEF Send, SendStopped, Advance, engine
<1>2. /\ todo[r] \in SUBSET Workflow /\ rest[r] \in SUBSET Workflow
      /\ claimed[r] \in BOOLEAN
      /\ Where(r, "publishing", todo[r], rest[r], wf[r], step[r], ran[r])
  BY <1>1, RunnerType
<1>3. Where(r, "acting", todo[r], rest[r], wf[r], step[r] + 1, ran[r])
  BY <1>2 DEF Where, Busy
<1>4. queue' \in Seq(Event) /\ Len(queue') <= Capacity
  <2>1. CASE Send(r)
    <3>1. Child(r) \in Event
      BY <1>1, <1>2, ChildIs DEF Where, Busy, Doing
    <3> QED
      BY <2>1, <3>1, Enqueued DEF Send
  <2>2. CASE SendStopped(r)
    BY <2>2, Inside DEF SendStopped, engine, SharedOK
  <2> QED
    BY <2>1, <2>2
<1>5. SharedOK' /\ SkipInv'
  BY <1>1, <1>4, Inside DEF SharedOK, SkipInv, outside, hist
<1>6. IngestInv'
  BY <1>1, WaitsKept DEF outside
<1>7. /\ todo' = [todo EXCEPT ![r] = todo[r]] /\ rest' = [rest EXCEPT ![r] = rest[r]]
      /\ claimed' = [claimed EXCEPT ![r] = claimed[r]]
      /\ UNCHANGED <<ev, wf, ran>> /\ "acting" \in PC
  BY <1>1, Stays DEF plan, hist, PC
<1> QED
  BY <1>1, <1>2, <1>3, <1>5, <1>6, <1>7, StepIs, PlaceStep

\* An ingest begins that a runner waits for.
LEMMA IngestBegins ==
  ASSUME Inv, NEW r \in Runner, pc[r] \notin {"awaiting", "resolving"},
         NEW p \in {"awaiting", "resolving"}, pc' = [pc EXCEPT ![r] = p],
         NEW i, i.for = r, ingests' = ingests \cup {i}
  PROVE  IngestInv'
<1>1. \A j \in ingests : j.for \in Runner
  BY DEF Inv, TypeOK, Ingest
<1>2. \A j \in ingests : j.waited => j.for # r /\ pc[j.for] \in {"awaiting", "resolving"}
  BY DEF Inv, IngestInv
<1>3. \A j \in ingests' : j.waited => pc'[j.for] \in {"awaiting", "resolving"}
  BY <1>1, <1>2 DEF Inv, TypeOK
<1> QED
  BY <1>2, <1>3 DEF Inv, IngestInv

LEMMA ActIngestInv ==
  ASSUME Inv, NEW r \in Runner, ActIngest(r)
  PROVE  Inv'
<1> DEFINE e == [Child(r) EXCEPT !.topic = "entity_created", !.chain = <<>>]
           i == [for |-> r, waited |-> TRUE, saved |-> FALSE, event |-> e]
<1>1. /\ pc[r] = "acting" /\ pc' = [pc EXCEPT ![r] = "awaiting"]
      /\ step[r] <= Len(Def[wf[r]].actions) /\ Def[wf[r]].actions[step[r]].do = "ingest"
      /\ ingests' = ingests \cup {i}
      /\ UNCHANGED <<engine, published, plan, doing, hist>>
  BY DEF ActIngest, MoreToDo, Doing
<1>2. Child(r) \in Event
  BY <1>1, ChildIs DEF Busy, Doing
<1>3. e \in Event
  <2>1. <<>> \in Seq(Workflow) /\ "entity_created" \in Topic \cup {"manual"}
    BY DEF Topic
  <2> QED
    BY <1>2, <2>1 DEF Event
<1> HIDE DEF e
<1>4. i \in Ingest /\ i.for = r
  BY <1>3 DEF Ingest
<1> HIDE DEF i
<1>5. /\ todo[r] \in SUBSET Workflow /\ rest[r] \in SUBSET Workflow
      /\ step[r] \in Nat \ {0} /\ claimed[r] \in BOOLEAN
      /\ Where(r, "acting", todo[r], rest[r], wf[r], step[r], ran[r])
  BY <1>1, RunnerType
<1>6. Where(r, "awaiting", todo[r], rest[r], wf[r], step[r], ran[r])
  BY <1>1, <1>5 DEF Where, Busy
<1>7. SharedOK' /\ SkipInv'
  BY <1>1, <1>4, Inside DEF SharedOK, SkipInv, engine, hist
<1>8. IngestInv'
  BY <1>1, <1>4, IngestBegins
<1>9. /\ todo' = [todo EXCEPT ![r] = todo[r]] /\ rest' = [rest EXCEPT ![r] = rest[r]]
      /\ step' = [step EXCEPT ![r] = step[r]]
      /\ claimed' = [claimed EXCEPT ![r] = claimed[r]]
      /\ UNCHANGED <<ev, wf, ran>> /\ "awaiting" \in PC
  BY <1>1, Stays DEF plan, doing, hist, PC
<1> QED
  BY <1>1, <1>5, <1>6, <1>7, <1>8, <1>9, PlaceStep

LEMMA FinishInv ==
  ASSUME Inv, NEW r \in Runner, Finish(r)
  PROVE  Inv'
<1> DEFINE e == [wf |-> wf[r], claimed |-> claimed[r]]
           t == IF claimed[r] THEN {} ELSE todo[r] \ {wf[r]}
           u == IF claimed[r] THEN {} ELSE rest[r]
           h == Append(ran[r], e)
<1>1. /\ pc[r] = "acting" /\ pc' = [pc EXCEPT ![r] = "chain"]
      /\ todo' = [todo EXCEPT ![r] = t] /\ rest' = [rest EXCEPT ![r] = u]
      /\ ran' = [ran EXCEPT ![r] = h]
      /\ UNCHANGED <<queue, registry, seen, logged, stopped, outside, ev, doing, result,
                     fires>>
  BY DEF Finish
<1>2. /\ todo[r] \in SUBSET Workflow /\ rest[r] \in SUBSET Workflow
      /\ wf[r] \in Workflow /\ claimed[r] \in BOOLEAN
      /\ Where(r, "acting", todo[r], rest[r], wf[r], step[r], ran[r])
  BY <1>1, RunnerType DEF Busy
<1>3. wf[r] \in todo[r] /\ \A v \in todo[r] : Def[wf[r]].file <= Def[v].file
  BY <1>2 DEF Where, Busy
<1>4. e \in Evaluation /\ e.wf = wf[r] /\ e.claimed = claimed[r]
  BY <1>2 DEF Evaluation
<1>5. /\ t \in SUBSET (todo[r] \ {wf[r]}) /\ u \in SUBSET rest[r]
      /\ claimed[r] => t = {} /\ u = {}
      /\ t \in SUBSET Workflow /\ u \in SUBSET Workflow
  BY <1>2
<1> HIDE DEF e, t, u
<1>6. Where(r, "chain", t, u, wf[r], step[r], h) /\ h \in Seq(Evaluation)
  BY <1>3, <1>4, <1>5, Evaluated
<1> HIDE DEF h
<1>7. ring' \in Seq(Decision) /\ Len(ring') <= RingSize
  <2>1. ring' = ring \/ Record(<<Decide(r, wf[r], TRUE, FALSE, claimed[r])>>)
    BY DEF Finish
  <2>2. <<Decide(r, wf[r], TRUE, FALSE, claimed[r])>> \in Seq(Decision)
    BY <1>2, DecideIs
  <2> QED
    BY <2>1, <2>2, RecordIs, Inside DEF SharedOK
<1>8. SharedOK' /\ SkipInv'
  BY <1>1, <1>7, Inside DEF SharedOK, SkipInv, outside
<1>9. IngestInv'
  BY <1>1, WaitsKept DEF outside
<1>10. Moved(r, "chain", ev[r], t, u, wf[r], step[r], claimed[r], h)
  BY <1>1, Stays DEF Moved, doing
<1>11. /\ "chain" \in PC /\ ev[r] \in Event
       /\ wf[r] \in Workflow \cup {NoWorkflow} /\ step[r] \in Nat \ {0}
  BY RunnerType DEF PC
<1> QED
  BY ONLY Inv, r \in Runner, <1>2, <1>5, <1>6, <1>8, <1>9, <1>10, <1>11, RunnerMoves

-----------------------------------------------------------------------------
(* Ingests and dispatches.                                                  *)

\* An ingest is over, or goes on unheard.
LEMMA AnswerInv ==
  ASSUME Inv, NEW i \in ingests, i.waited, NEW ok \in BOOLEAN, Answer(i.for, ok),
         UNCHANGED <<plan, wf, claimed, hist, seen>>, SharedOK',
         \A j \in ingests' : j.waited => j \in ingests /\ j # i
  PROVE  Inv'
<1> DEFINE r == i.for
<1>1. /\ r \in Runner /\ pc[r] \in {"awaiting", "resolving"}
      /\ \A j \in ingests : j.for \in Runner
  BY DEF Inv, TypeOK, Ingest, IngestInv
<1>2. PICK p \in {"publishing", "acting", "chain", "done"}, s \in {step[r], step[r] + 1} :
        /\ pc' = [pc EXCEPT ![r] = p] /\ step' = [step EXCEPT ![r] = s]
        /\ p = "acting" => pc[r] = "awaiting"
        /\ p = "publishing" => pc[r] = "awaiting" /\ s = step[r]
  <2>1. step = [step EXCEPT ![r] = step[r]]
    BY <1>1, Stays
  <2> QED
    BY <1>1, <2>1 DEF Answer, Advance
<1> HIDE DEF r
<1>3. /\ todo[r] \in SUBSET Workflow /\ rest[r] \in SUBSET Workflow
      /\ step[r] \in Nat \ {0} /\ claimed[r] \in BOOLEAN
      /\ Where(r, pc[r], todo[r], rest[r], wf[r], step[r], ran[r])
  BY <1>1, RunnerType
<1>4. Where(r, p, todo[r], rest[r], wf[r], s, ran[r])
  BY <1>2, <1>3 DEF Where, Busy
<1>5. p \in PC /\ s \in Nat \ {0}
  BY <1>1, <1>2, <1>3, StepIs DEF PC
<1>6. SkipInv'
  BY Inside DEF SkipInv, hist
<1>7. IngestInv'
  <2>1. \A j \in ingests' : j.waited =>
          j \in ingests /\ j.for # r /\ pc[j.for] \in {"awaiting", "resolving"}
    BY DEF Inv, IngestInv, r
  <2>2. \A j \in ingests' : j.waited => pc'[j.for] \in {"awaiting", "resolving"}
    BY <1>1, <1>2, <2>1 DEF Inv, TypeOK
  <2> QED
    BY <2>1, <2>2 DEF Inv, IngestInv
<1>8. /\ todo' = [todo EXCEPT ![r] = todo[r]] /\ rest' = [rest EXCEPT ![r] = rest[r]]
      /\ claimed' = [claimed EXCEPT ![r] = claimed[r]]
      /\ UNCHANGED <<ev, wf, ran>>
  BY <1>1, Stays DEF plan, hist
<1> QED
  BY <1>1, <1>2, <1>3, <1>4, <1>5, <1>6, <1>7, <1>8, PlaceStep

LEMMA UnheardInv ==
  ASSUME Inv, UNCHANGED <<pc, step, plan, wf, claimed, hist, seen>>, SharedOK',
         \A j \in ingests' : j.waited => j \in ingests
  PROVE  Inv'
<1>1. SkipInv' /\ IngestInv'
  BY Inside DEF SkipInv, IngestInv, hist
<1> QED
  BY <1>1, NoRunnerMoves DEF doing, hist

LEMMA IngestDoneInv ==
  ASSUME Inv, NEW i \in ingests, IngestDone(i)
  PROVE  Inv'
<1>1. i.event \in Event
  BY DEF Inv, TypeOK, Ingest
<1>2. queue' \in Seq(Event) /\ Len(queue') <= Capacity
  <2>1. CASE queue' = queue
    BY <2>1, Inside DEF SharedOK
  <2>2. CASE Len(queue) < Capacity /\ queue' = Append(queue, i.event)
    BY <1>1, <2>2, Enqueued
  <2> QED
    BY <2>1, <2>2 DEF IngestDone
<1>3. /\ ingests' = ingests \ {i}
      /\ UNCHANGED <<registry, seen, logged, ring, stopped, published, plan, wf, claimed,
                     hist>>
  BY DEF IngestDone
<1>4. SharedOK'
  BY <1>2, <1>3, Inside DEF SharedOK, hist
<1>5. CASE i.waited
  <2>1. PICK ok \in BOOLEAN : Answer(i.for, ok)
    BY <1>5 DEF IngestDone
  <2> QED
    BY <1>3, <1>4, <1>5, <2>1, AnswerInv
<1>6. CASE ~i.waited
  BY <1>3, <1>4, <1>6, UnheardInv DEF IngestDone
<1> QED
  BY <1>5, <1>6

LEMMA IngestSilentInv ==
  ASSUME Inv, NEW i \in ingests, IngestSilent(i)
  PROVE  Inv'
<1>1. /\ ingests' = ingests \ {i}
      /\ UNCHANGED <<engine, published, plan, wf, claimed, hist>>
  BY DEF IngestSilent
<1>2. SharedOK' /\ seen' = seen
  BY <1>1, Inside DEF SharedOK, hist, engine
<1>3. CASE i.waited
  <2>1. PICK ok \in BOOLEAN : Answer(i.for, ok)
    BY <1>3 DEF IngestSilent
  <2> QED
    BY <1>1, <1>2, <1>3, <2>1, AnswerInv
<1>4. CASE ~i.waited
  BY <1>1, <1>2, <1>4, UnheardInv DEF IngestSilent
<1> QED
  BY <1>3, <1>4

LEMMA IngestTimeoutInv ==
  ASSUME Inv, NEW i \in ingests, IngestTimeout(i)
  PROVE  Inv'
<1> DEFINE alone == [i EXCEPT !.waited = FALSE]
<1>1. /\ i.waited /\ ingests' = (ingests \ {i}) \cup {alone} /\ Answer(i.for, FALSE)
      /\ UNCHANGED <<engine, published, plan, wf, claimed, hist>>
  BY DEF IngestTimeout
<1>2. alone \in Ingest /\ ~alone.waited
  BY DEF Inv, TypeOK, Ingest
<1> HIDE DEF alone
<1>3. SharedOK' /\ seen' = seen
  BY <1>1, <1>2, Inside DEF SharedOK, hist, engine
<1> QED
  BY <1>1, <1>2, <1>3, AnswerInv

LEMMA DispatcherIs ==
  ASSUME Inv, NEW d \in Dispatcher, pc[d] = "idle"
  PROVE  /\ d \in Runner /\ d # Worker /\ rest[d] = {} /\ ran[d] = <<>>
         /\ wf[d] \in Workflow \cup {NoWorkflow} /\ step[d] \in Nat \ {0}
         /\ claimed[d] \in BOOLEAN
<1>1. d \in Runner /\ d # Worker
  BY NameAssumption DEF Runner
<1> QED
  BY <1>1, RunnerType DEF Where

LEMMA DispatchRejectedInv ==
  ASSUME Inv, NEW d \in Dispatcher, NEW w \in Workflow, NEW e \in Target,
         DispatchRejected(d, w, e)
  PROVE  Inv'
<1>1. /\ pc[d] = "idle" /\ pc' = [pc EXCEPT ![d] = "done"]
      /\ UNCHANGED <<engine, outside, plan, doing, hist>>
  BY DEF DispatchRejected
<1>2. d \in Runner /\ d # Worker
  BY <1>1, DispatcherIs
<1>3. /\ todo[d] \in SUBSET Workflow /\ rest[d] \in SUBSET Workflow
      /\ step[d] \in Nat \ {0} /\ claimed[d] \in BOOLEAN
      /\ Where(d, "idle", todo[d], rest[d], wf[d], step[d], ran[d])
  BY <1>1, <1>2, RunnerType
<1>4. Where(d, "done", todo[d], rest[d], wf[d], step[d], ran[d])
  BY <1>3 DEF Where, Busy
<1>5. SharedOK' /\ SkipInv'
  BY <1>1, Inside DEF SharedOK, SkipInv, engine, outside, hist
<1>6. IngestInv'
  BY <1>1, <1>2, WaitsKept DEF outside
<1>7. /\ todo' = [todo EXCEPT ![d] = todo[d]] /\ rest' = [rest EXCEPT ![d] = rest[d]]
      /\ step' = [step EXCEPT ![d] = step[d]]
      /\ claimed' = [claimed EXCEPT ![d] = claimed[d]]
      /\ UNCHANGED <<ev, wf, ran>> /\ "done" \in PC
  BY <1>1, <1>2, Stays DEF plan, doing, hist, PC
<1> QED
  BY <1>1, <1>2, <1>3, <1>4, <1>5, <1>6, <1>7, PlaceStep

\* A dispatch has its workflow, and its entity or an ingest that resolves it.
LEMMA Dispatches ==
  ASSUME Inv, NEW d \in Dispatcher, NEW w \in Workflow, NEW e \in Target,
         pc[d] = "idle", NEW p \in {"chain", "resolving"},
         pc' = [pc EXCEPT ![d] = p], ev' = [ev EXCEPT ![d] = External("manual", e)],
         todo' = [todo EXCEPT ![d] = {w}],
         UNCHANGED <<rest, doing, hist, seen>>, SharedOK', IngestInv'
  PROVE  Inv'
<1>1. /\ d \in Runner /\ d # Worker /\ rest[d] = {} /\ ran[d] = <<>>
      /\ wf[d] \in Workflow \cup {NoWorkflow} /\ step[d] \in Nat \ {0}
      /\ claimed[d] \in BOOLEAN
  BY DispatcherIs
<1>2. External("manual", e) \in Event
  BY ExternalIs
<1>3. Moved(d, p, External("manual", e), {w}, {}, wf[d], step[d], claimed[d], <<>>)
  BY <1>1, Stays DEF Moved, doing, hist
<1>4. Len(<<>>) = 0 /\ <<>> \in Seq(Evaluation)
  OBVIOUS
<1>5. Where(d, p, {w}, {}, wf[d], step[d], <<>>)
  BY <1>1, <1>4 DEF Where, ClaimLast, Busy
<1>6. SkipInv'
  BY Inside DEF SkipInv, hist
<1>7. p \in PC /\ {w} \in SUBSET Workflow /\ {} \in SUBSET Workflow
  BY DEF PC
<1> QED
  BY ONLY Inv, SharedOK', IngestInv', <1>1, <1>2, <1>3, <1>4, <1>5, <1>6, <1>7,
          RunnerMoves

LEMMA DispatchInv ==
  ASSUME Inv, NEW d \in Dispatcher, NEW w \in Workflow, NEW e \in Target,
         Dispatch(d, w, e)
  PROVE  Inv'
<1>1. /\ pc[d] = "idle" /\ pc' = [pc EXCEPT ![d] = "chain"]
      /\ ev' = [ev EXCEPT ![d] = External("manual", e)]
      /\ todo' = [todo EXCEPT ![d] = {w}]
      /\ UNCHANGED <<engine, outside, rest, doing, hist>>
  BY DEF Dispatch
<1>2. SharedOK' /\ seen' = seen
  BY <1>1, Inside DEF SharedOK, engine, outside, hist
<1>3. IngestInv'
  BY <1>1, DispatcherIs, WaitsKept DEF outside
<1> QED
  BY <1>1, <1>2, <1>3, Dispatches

LEMMA DispatchURLInv ==
  ASSUME Inv, NEW d \in Dispatcher, NEW w \in Workflow, NEW e \in Entity,
         DispatchURL(d, w, e)
  PROVE  Inv'
<1> DEFINE i == [for |-> d, waited |-> TRUE, saved |-> FALSE,
                 event |-> External("entity_created", e)]
<1>1. /\ pc[d] = "idle" /\ pc' = [pc EXCEPT ![d] = "resolving"]
      /\ ev' = [ev EXCEPT ![d] = External("manual", e)]
      /\ todo' = [todo EXCEPT ![d] = {w}] /\ ingests' = ingests \cup {i}
      /\ UNCHANGED <<engine, published, rest, doing, hist>>
  BY DEF DispatchURL
<1>2. i \in Ingest /\ i.for = d /\ d \in Runner
  <2>1. External("entity_created", e) \in Event
    BY ExternalIs DEF Topic, Target
  <2> QED
    BY <1>1, <2>1, DispatcherIs DEF Ingest
<1> HIDE DEF i
<1>3. SharedOK' /\ seen' = seen
  BY <1>1, <1>2, Inside DEF SharedOK, engine, hist
<1>4. IngestInv'
  BY <1>1, <1>2, IngestBegins
<1>5. e \in Target
  BY DEF Target
<1> QED
  BY <1>1, <1>3, <1>4, <1>5, Dispatches

LEMMA FindInv ==
  ASSUME Inv, NEW d \in Dispatcher, Find(d)
  PROVE  Inv'
<1> DEFINE w == ran[d][Len(ran[d])].wf
           hits == {i \in 1..Len(ring) : ring[i].wf = w /\ ring[i].entity = ev[d].entity}
           found == IF hits = {} THEN NoDecision
                    ELSE ring[CHOOSE i \in hits : \A j \in hits : j <= i]
<1>1. /\ pc[d] = "find" /\ pc' = [pc EXCEPT ![d] = "done"]
      /\ result' = [result EXCEPT ![d] = found]
      /\ UNCHANGED <<engine, outside, plan, doing, ran, fires>>
  BY DEF Find
<1>2. d \in Runner
  BY DEF Runner
<1>3. found \in Decision \cup {NoDecision}
  <2>1. ring \in Seq(Decision) /\ Len(ring) \in Nat
    BY LenProperties DEF Inv, TypeOK
  <2>2. hits \in SUBSET (1..Len(ring))
    OBVIOUS
  <2> HIDE DEF hits
  <2>3. hits # {} => (CHOOSE i \in hits : \A j \in hits : j <= i) \in 1..Len(ring)
    BY <2>1, <2>2, NewestHit
  <2> QED
    BY <2>1, <2>3, ElementOfSeq
<1> HIDE DEF found
<1>4. SharedOK' /\ SkipInv'
  BY <1>1, <1>3, Inside DEF SharedOK, SkipInv, engine, outside
<1>5. /\ todo[d] \in SUBSET Workflow /\ rest[d] \in SUBSET Workflow
      /\ step[d] \in Nat \ {0} /\ claimed[d] \in BOOLEAN
      /\ Where(d, "find", todo[d], rest[d], wf[d], step[d], ran[d])
  BY <1>1, <1>2, RunnerType
<1>6. Where(d, "done", todo[d], rest[d], wf[d], step[d], ran[d])
  BY <1>5 DEF Where, Busy
<1>7. IngestInv'
  BY <1>1, <1>2, WaitsKept DEF outside
<1>8. /\ todo' = [todo EXCEPT ![d] = todo[d]] /\ rest' = [rest EXCEPT ![d] = rest[d]]
      /\ step' = [step EXCEPT ![d] = step[d]]
      /\ claimed' = [claimed EXCEPT ![d] = claimed[d]]
      /\ UNCHANGED <<ev, wf, ran>> /\ "done" \in PC
  BY <1>1, <1>2, Stays DEF plan, doing, PC
<1> QED
  BY <1>1, <1>2, <1>4, <1>5, <1>6, <1>7, <1>8, PlaceStep

-----------------------------------------------------------------------------
(* The specification.                                                       *)

LEMMA InitInv ==
  ASSUME Init
  PROVE  Inv
<1>1. External("manual", NoTarget) \in Event
  BY ExternalIs DEF Target
<1>2. /\ queue \in Seq(Event) /\ Len(queue) = 0
      /\ ring \in Seq(Decision) /\ Len(ring) = 0 /\ <<>> \in Seq(Evaluation)
  BY DEF Init
<1>3. SharedOK
  <2>1. /\ queue \in Seq(Event) /\ Len(queue) <= Capacity
        /\ ring \in Seq(Decision) /\ Len(ring) <= RingSize
        /\ published \in 0..MaxPublish
    BY <1>2, BoundAssumption DEF Init
  <2>2. /\ registry \subseteq Workflow /\ seen \subseteq Workflow \X Target
        /\ logged \subseteq Workflow \X Seq(Workflow)
        /\ stopped \in BOOLEAN /\ ingests \subseteq Ingest
    BY DEF Init
  <2>3. /\ result \in [Runner -> Decision \cup {NoDecision}]
        /\ fires \in [Workflow \X Target -> 0..2]
    BY DEF Init
  <2> QED
    BY <2>1, <2>2, <2>3 DEF SharedOK
<1>4. RunnersOK
  BY <1>1, <1>2 DEF Init, RunnersOK, PC
<1>5. TypeOK
  BY <1>3, <1>4, TypeHalves
<1>6. SkipInv /\ IngestInv
  BY DEF Init, SkipInv, IngestInv, Target
<1>7. ASSUME NEW r \in Runner PROVE RunnerInv(r)
  <2>1. pc[r] = "idle" /\ todo[r] = {} /\ rest[r] = {} /\ ran[r] = <<>> /\ Len(ran[r]) = 0
    BY DEF Init
  <2> QED
    BY <2>1 DEF RunnerInv, Where, Busy, ClaimLast, Ordered
<1> QED
  BY <1>5, <1>6, <1>7 DEF Inv

LEMMA EvaluateInv ==
  ASSUME Inv, NEW r \in Runner, Evaluate(r)
  PROVE  Inv'
<1>1. CASE PassTwoBegins(r)
  BY <1>1, PassTwoBeginsInv
<1>2. CASE ChainEnds(r)
  BY <1>2, ChainEndsInv
<1>3. ASSUME NEW w \in Workflow, EvaluateNoFire(r, w) PROVE Inv'
  BY <1>3, EvaluateNoFireInv
<1>4. ASSUME NEW w \in Workflow, EvaluateCycle(r, w) PROVE Inv'
  BY <1>4, EvaluateCycleInv
<1>5. ASSUME NEW w \in Workflow, EvaluateSkip(r, w) PROVE Inv'
  BY <1>5, EvaluateSkipInv
<1>6. ASSUME NEW w \in Workflow, EvaluateFire(r, w) PROVE Inv'
  BY <1>6, EvaluateFireInv
<1>7. ASSUME NEW w \in Workflow, EvaluateFireNoKey(r, w) PROVE Inv'
  BY <1>7, EvaluateFireNoKeyInv
<1> QED
  BY <1>1, <1>2, <1>3, <1>4, <1>5, <1>6, <1>7 DEF Evaluate

LEMMA ActInv ==
  ASSUME Inv, NEW r \in Runner, Act(r)
  PROVE  Inv'
<1>1. CASE ActQuietly(r) \/ ActClaim(r)
  BY <1>1, ActQuietlyInv
<1>2. CASE ActPublish(r)
  BY <1>2, ActPublishInv
<1>3. CASE ActIngest(r)
  BY <1>3, ActIngestInv
<1>4. CASE Send(r) \/ SendStopped(r)
  BY <1>4, SendInv
<1>5. CASE Finish(r)
  BY <1>5, FinishInv
<1> QED
  BY <1>1, <1>2, <1>3, <1>4, <1>5 DEF Act

LEMMA IngestingInv ==
  ASSUME Inv, NEW i \in ingests, Ingesting(i)
  PROVE  Inv'
<1>1. CASE IngestSaved(i)
  BY <1>1, IngestSavedInv
<1>2. CASE IngestDone(i)
  BY <1>2, IngestDoneInv
<1>3. CASE IngestSilent(i)
  BY <1>3, IngestSilentInv
<1>4. CASE IngestTimeout(i)
  BY <1>4, IngestTimeoutInv
<1> QED
  BY <1>1, <1>2, <1>3, <1>4 DEF Ingesting

LEMMA StutterInv ==
  ASSUME Inv, UNCHANGED vars
  PROVE  Inv'
<1>1. UNCHANGED <<engine, outside, pc, plan, doing, hist>>
  BY DEF vars
<1>2. SharedOK' /\ SkipInv' /\ IngestInv'
  BY <1>1, Inside DEF SharedOK, SkipInv, IngestInv, engine, outside, hist
<1> QED
  BY <1>1, <1>2, NoRunnerMoves DEF hist

LEMMA NextInv ==
  ASSUME Inv, [Next]_vars
  PROVE  Inv'
<1>1. ASSUME NEW i \in Inputs, Publish(i[1], i[2]) PROVE Inv'
  BY <1>1, PublishInv
<1>2. ASSUME NEW l \in Reloads, Reconcile(l) PROVE Inv'
  BY <1>2, ReconcileInv
<1>3. CASE Shutdown
  BY <1>3, ShutdownInv
<1>4. CASE Dequeue
  BY <1>4, DequeueInv
<1>5. CASE WorkerExit
  BY <1>5, WorkerExitInv
<1>6. ASSUME NEW r \in Runner, Evaluate(r) \/ Act(r) PROVE Inv'
  BY <1>6, EvaluateInv, ActInv
<1>7. ASSUME NEW i \in ingests, Ingesting(i) PROVE Inv'
  BY <1>7, IngestingInv
<1>8. ASSUME NEW d \in Dispatcher, NEW w \in Workflow, NEW e \in Target,
             DispatchRejected(d, w, e) \/ Dispatch(d, w, e)
      PROVE  Inv'
  BY <1>8, DispatchRejectedInv, DispatchInv
<1>9. ASSUME NEW d \in Dispatcher, NEW w \in Workflow, NEW e \in Entity,
             DispatchURL(d, w, e)
      PROVE  Inv'
  BY <1>9, DispatchURLInv
<1>10. ASSUME NEW d \in Dispatcher, Find(d) PROVE Inv'
  BY <1>10, FindInv
<1>11. CASE UNCHANGED vars
  BY <1>11, StutterInv
<1> QED
  BY <1>1, <1>2, <1>3, <1>4, <1>5, <1>6, <1>7, <1>8, <1>9, <1>10, <1>11 DEF Next

\* Every reachable state of the engine satisfies the inductive invariant: the
\* types, where each runner is in its two passes, the stamps and the waits.
THEOREM SpecInv == Spec => []Inv
<1>1. Init => Inv
  BY InitInv
<1>2. Inv /\ [Next]_vars => Inv'
  BY NextInv
<1> QED
  BY <1>1, <1>2, PTL DEF Spec

\* The variables keep their types; the queue and the decision ring keep their
\* capacities under every interleaving.
THEOREM TypeCorrect == Spec => []TypeOK
<1>1. Inv => TypeOK
  BY DEF Inv
<1> QED
  BY <1>1, SpecInv, PTL

\* processEvent and runChain: whatever is queued, registered or reloaded while
\* an event is handled, its evaluations are in file order within a pass, pass
\* 1 before pass 2, wildcards never next to kind-specific catch-alls, and a
\* claim is the last of them.
THEOREM HandledInOrder == Spec => []HandlingOrder
<1>1. Inv => HandlingOrder
  <2> SUFFICES ASSUME Inv PROVE ClaimEndsEvent /\ PassOrder
    BY DEF HandlingOrder
  <2>1. \A r \in Runner : ClaimLast(todo[r], rest[r], ran[r])
    BY RunnerType DEF Where
  <2>2. ClaimEndsEvent
    BY <2>1 DEF ClaimEndsEvent, ClaimLast
  <2>3. Worker \in Runner
    BY DEF Runner
  <2>4. Ordered(todo[Worker], rest[Worker], ran[Worker])
    BY <2>3, RunnerType DEF Where
  <2>5. PassOrder
    BY <2>4 DEF PassOrder, Ordered, Before
  <2> QED
    BY <2>2, <2>5
<1> QED
  BY <1>1, SpecInv, PTL

\* applyDedupPolicy: the worker and any number of concurrent dispatches start
\* the actions of a skip workflow once for a key.
THEOREM SkipOnce == Spec => []SkipDispatchesOnce
<1>1. Inv => SkipDispatchesOnce
  <2> SUFFICES ASSUME Inv, NEW w \in Workflow, NEW e \in Target, Def[w].dedup = "skip"
               PROVE  fires[<<w, e>>] <= 1
    BY DEF SkipDispatchesOnce
  <2>1. fires[<<w, e>>] = 0 \/ fires[<<w, e>>] = 1
    BY DEF Inv, SkipInv
  <2> QED
    BY <2>1
<1> QED
  BY <1>1, SpecInv, PTL

-----------------------------------------------------------------------------
(* Cascades.                                                                *)

LEMMA ClearIs ==
  ASSUME CascadeInv, NEW r \in Runner
  PROVE  Clear(r, pc[r], ev[r], todo[r], rest[r], wf[r])
  BY DEF CascadeInv

\* Runner r alone moves.
LEMMA CascadeMoves ==
  ASSUME Inv, CascadeInv, EventsProper', NEW r \in Runner,
         NEW p, NEW e, NEW t, NEW u, NEW w, Clear(r, p, e, t, u, w),
         pc' = [pc EXCEPT ![r] = p], ev' = [ev EXCEPT ![r] = e],
         todo' = [todo EXCEPT ![r] = t], rest' = [rest EXCEPT ![r] = u],
         wf' = [wf EXCEPT ![r] = w]
  PROVE  CascadeInv'
<1>1. RunnersOK
  BY Inside
<1>2. ASSUME NEW x \in Runner
      PROVE  Clear(x, pc'[x], ev'[x], todo'[x], rest'[x], wf'[x])
  <2>1. CASE x = r
    <3>1. pc'[r] = p /\ ev'[r] = e /\ todo'[r] = t /\ rest'[r] = u /\ wf'[r] = w
      BY <1>1 DEF RunnersOK
    <3> QED
      BY <2>1, <3>1
  <2>2. CASE x # r
    <3>1. /\ pc'[x] = pc[x] /\ ev'[x] = ev[x] /\ todo'[x] = todo[x]
          /\ rest'[x] = rest[x] /\ wf'[x] = wf[x]
      BY <1>1, <2>2 DEF RunnersOK
    <3> QED
      BY <3>1, ClearIs
  <2> QED
    BY <2>1, <2>2
<1>3. \A x \in Runner : Clear(x, pc[x], ev[x], todo[x], rest[x], wf[x])'
  BY <1>2 DEF Clear, Caused
<1> QED
  BY <1>3 DEF CascadeInv

\* No runner moves.
LEMMA CascadeRests ==
  ASSUME CascadeInv, EventsProper', UNCHANGED <<pc, plan, wf>>
  PROVE  CascadeInv'
<1>1. pc' = pc /\ ev' = ev /\ todo' = todo /\ rest' = rest /\ wf' = wf
  BY DEF plan
<1> QED
  BY <1>1 DEF CascadeInv, Clear, Caused

\* A runner goes on with its event, and has less left to evaluate.
LEMMA CascadeGoesOn ==
  ASSUME Inv, CascadeInv, EventsProper', NEW r \in Runner,
         NEW p, NEW t, NEW u, p # "awaiting", p \in Busy => pc[r] \in Busy,
         t \subseteq todo[r] \cup rest[r], u \subseteq rest[r],
         pc' = [pc EXCEPT ![r] = p], todo' = [todo EXCEPT ![r] = t],
         rest' = [rest EXCEPT ![r] = u], UNCHANGED <<ev, wf>>
  PROVE  CascadeInv'
<1>1. Clear(r, pc[r], ev[r], todo[r], rest[r], wf[r])
  BY ClearIs
<1>2. Clear(r, p, ev[r], t, u, wf[r])
  BY <1>1 DEF Clear
<1>3. ev' = [ev EXCEPT ![r] = ev[r]] /\ wf' = [wf EXCEPT ![r] = wf[r]]
  BY Stays
<1> QED
  BY <1>2, <1>3, CascadeMoves

LEMMA EventsKept ==
  ASSUME CascadeInv, UNCHANGED <<queue, ingests>>
  PROVE  EventsProper'
  BY DEF CascadeInv, EventsProper, Proper, Caused

\* One more event in the queue.
LEMMA EventQueued ==
  ASSUME Inv, CascadeInv, NEW e \in Event, Proper(e), queue' = Append(queue, e),
         ingests' \subseteq ingests
  PROVE  EventsProper'
<1>1. queue \in Seq(Event) /\ EventsProper
  BY DEF Inv, TypeOK, CascadeInv
<1>2. /\ \A i \in 1..Len(queue') : i \in 1..Len(queue) \/ i = Len(queue) + 1
      /\ \A i \in 1..Len(queue) : queue'[i] = queue[i]
      /\ queue'[Len(queue) + 1] = e
  BY <1>1, AppendIs
<1>3. \A i \in 1..Len(queue') : Proper(queue'[i])
  BY <1>1, <1>2 DEF EventsProper
<1> QED
  BY <1>1, <1>3 DEF EventsProper, Proper, Caused

\* An event from outside has no cause.
LEMMA ExternalProper ==
  ASSUME NEW t \in Topic, NEW e \in Entity
  PROVE  Proper(External(t, e))
  BY DEF Proper, Caused, External

LEMMA PublishCascade ==
  ASSUME Inv, CascadeInv, NEW i \in Inputs, Publish(i[1], i[2])
  PROVE  CascadeInv'
<1>1. i[1] \in Topic /\ i[2] \in Entity
  BY BoundAssumption
<1>2. External(i[1], i[2]) \in Event /\ Proper(External(i[1], i[2]))
  BY <1>1, ExternalIs, ExternalProper DEF Target
<1>3. EventsProper'
  BY <1>2, EventQueued DEF Publish
<1> QED
  BY <1>3, CascadeRests DEF Publish, doing

LEMMA RestCascade ==
  ASSUME CascadeInv, UNCHANGED <<queue, ingests, pc, plan, doing>>
  PROVE  CascadeInv'
  BY EventsKept, CascadeRests DEF doing

LEMMA IngestSavedCascade ==
  ASSUME Inv, CascadeInv, NEW i \in ingests, IngestSaved(i)
  PROVE  CascadeInv'
<1>1. i \in Ingest
  BY DEF Inv, TypeOK
<1>2. [i EXCEPT !.saved = TRUE].event = i.event
  BY <1>1 DEF Ingest
<1>3. EventsProper'
  BY <1>2 DEF CascadeInv, EventsProper, IngestSaved, engine, Proper, Caused
<1> QED
  BY <1>3, CascadeRests DEF IngestSaved, doing

LEMMA DequeueCascade ==
  ASSUME Inv, CascadeInv, Dequeue
  PROVE  CascadeInv'
<1> DEFINE e == Head(queue)
<1>1. /\ queue # <<>> /\ queue' = Tail(queue) /\ ingests' = ingests
      /\ pc' = [pc EXCEPT ![Worker] = "chain"] /\ wf' = wf
      /\ ev' = [ev EXCEPT ![Worker] = e]
  BY DEF Dequeue, outside, doing
<1>2. PICK t, u :
        /\ todo' = [todo EXCEPT ![Worker] = t] /\ rest' = [rest EXCEPT ![Worker] = u]
        /\ \A w \in t \cup u : Matches(w, e)
  <2>1. PICK lost :
          LET match == {w \in registry \ lost : Matches(w, e)}
              catch == {w \in match : Def[w].catchAll}
          IN  /\ todo' = [todo EXCEPT ![Worker] = match \ catch]
              /\ rest' = [rest EXCEPT ![Worker] = PassTwo(catch)]
    BY DEF Dequeue
  <2> DEFINE match == {w \in registry \ lost : Matches(w, e)}
             catch == {w \in match : Def[w].catchAll}
  <2>2. PassTwo(catch) \subseteq catch
    BY DEF PassTwo
  <2>3. \A w \in (match \ catch) \cup PassTwo(catch) : Matches(w, e)
    BY <2>2
  <2> QED
    BY <2>1, <2>3
<1>3. queue \in Seq(Event) /\ EventsProper /\ Worker \in Runner
  BY DEF Inv, TypeOK, CascadeInv, Runner
<1>4. /\ e = queue[1] /\ Len(queue) \in Nat \ {0} /\ Len(Tail(queue)) = Len(queue) - 1
      /\ \A i \in 1..Len(Tail(queue)) : Tail(queue)[i] = queue[i + 1]
  BY <1>1, <1>3
<1>5. Proper(e)
  BY <1>3, <1>4 DEF EventsProper
<1>6. EventsProper'
  <2>1. \A i \in 1..Len(queue') : Proper(queue'[i])
    BY <1>1, <1>3, <1>4 DEF EventsProper
  <2> QED
    BY <1>1, <1>3, <2>1 DEF EventsProper, Proper, Caused
<1>7. \A w \in t \cup u : Def[w].trigger # "manual"
  BY <1>2, <1>5 DEF Matches, Proper, Topic
<1>8. Clear(Worker, "chain", e, t, u, wf[Worker])
  BY <1>5, <1>7 DEF Clear, Proper, Busy
<1>9. wf' = [wf EXCEPT ![Worker] = wf[Worker]]
  BY <1>1, <1>3, Stays
<1> HIDE DEF e
<1> QED
  BY <1>1, <1>2, <1>3, <1>6, <1>8, <1>9, CascadeMoves

LEMMA EvaluateCascade ==
  ASSUME Inv, CascadeInv, NEW r \in Runner, Evaluate(r)
  PROVE  CascadeInv'
<1>1. EventsProper'
  <2>1. queue' = queue /\ ingests' = ingests
    BY DEF Evaluate, PassTwoBegins, ChainEnds, EvaluateNoFire, EvaluateCycle, EvaluateSkip,
           EvaluateFire, EvaluateFireNoKey, GoOn, Start, engine, outside
  <2> QED
    BY <2>1, EventsKept
<1>2. /\ pc = [pc EXCEPT ![r] = pc[r]] /\ todo = [todo EXCEPT ![r] = todo[r]]
      /\ rest = [rest EXCEPT ![r] = rest[r]] /\ ev = [ev EXCEPT ![r] = ev[r]]
  BY Stays
<1>3. Clear(r, pc[r], ev[r], todo[r], rest[r], wf[r])
  BY ClearIs
<1>4. CASE PassTwoBegins(r)
  <2> DEFINE u == {}
  <2>1. /\ pc' = [pc EXCEPT ![r] = "chain"] /\ "chain" \notin Busy
        /\ todo' = [todo EXCEPT ![r] = rest[r]] /\ rest' = [rest EXCEPT ![r] = u]
        /\ UNCHANGED <<ev, wf>>
    BY <1>2, <1>4 DEF PassTwoBegins, doing, Busy
  <2>2. rest[r] \subseteq todo[r] \cup rest[r] /\ u \subseteq rest[r]
    OBVIOUS
  <2> HIDE DEF u
  <2> QED
    BY <1>1, <2>1, <2>2, CascadeGoesOn
<1>5. CASE ChainEnds(r)
  <2> DEFINE p == IF r = Worker THEN "idle" ELSE "find"
  <2>1. /\ pc' = [pc EXCEPT ![r] = p] /\ p # "awaiting" /\ p \notin Busy
        /\ todo' = [todo EXCEPT ![r] = todo[r]] /\ rest' = [rest EXCEPT ![r] = rest[r]]
        /\ UNCHANGED <<ev, wf>>
    BY <1>2, <1>5 DEF ChainEnds, doing, plan, Busy
  <2>2. todo[r] \subseteq todo[r] \cup rest[r] /\ rest[r] \subseteq rest[r]
    OBVIOUS
  <2> HIDE DEF p
  <2> QED
    BY <1>1, <2>1, <2>2, CascadeGoesOn
<1>6. ASSUME NEW w \in Workflow, Current(r, w), GoOn(r, w) PROVE CascadeInv'
  <2>1. /\ pc' = [pc EXCEPT ![r] = pc[r]] /\ pc[r] = "chain"
        /\ todo' = [todo EXCEPT ![r] = todo[r] \ {w}]
        /\ rest' = [rest EXCEPT ![r] = rest[r]]
        /\ UNCHANGED <<ev, wf>>
    BY <1>2, <1>6 DEF Current, GoOn, doing
  <2>2. todo[r] \ {w} \subseteq todo[r] \cup rest[r] /\ rest[r] \subseteq rest[r]
    OBVIOUS
  <2> QED
    BY <1>1, <2>1, <2>2, CascadeGoesOn
<1>7. ASSUME NEW w \in Workflow, NEW outcomes, Fires(r, w), Start(r, w, outcomes)
      PROVE  CascadeInv'
  <2>1. /\ pc' = [pc EXCEPT ![r] = "acting"] /\ wf' = [wf EXCEPT ![r] = w]
        /\ todo' = [todo EXCEPT ![r] = todo[r]] /\ rest' = [rest EXCEPT ![r] = rest[r]]
        /\ ev' = [ev EXCEPT ![r] = ev[r]]
    BY <1>2, <1>7 DEF Start, plan
  <2>2. Clear(r, "acting", ev[r], todo[r], rest[r], w)
    BY <1>3, <1>7 DEF Clear, Fires, InCycle
  <2> QED
    BY <1>1, <2>1, <2>2, CascadeMoves
<1> QED
  BY <1>4, <1>5, <1>6, <1>7 DEF Evaluate, EvaluateNoFire, EvaluateCycle, EvaluateSkip,
     EvaluateFire, EvaluateFireNoKey, Fires

\* What an action publishes: the chain it leaves with names every workflow
\* behind it that an event can start.
LEMMA ChildProper ==
  ASSUME Inv, CascadeInv, NEW r \in Runner, pc[r] = "publishing"
  PROVE  Child(r) \in Event /\ Proper(Child(r))
<1> DEFINE w == wf[r]
           c == ev[r].chain
<1>1. /\ Where(r, "publishing", todo[r], rest[r], w, step[r], ran[r])
      /\ Clear(r, "publishing", ev[r], todo[r], rest[r], w)
      /\ w \in Workflow /\ c \in Seq(Workflow)
  BY RunnerType, ClearIs DEF Busy
<1>2. /\ step[r] <= Len(Def[w].actions) /\ Doing(r).do \in {"emit", "ingest"}
      /\ w \in todo[r]
  BY <1>1 DEF Where, Busy, Doing
<1>3. Child(r) \in Event /\ Doing(r).topic \in Topic /\ Doing(r).entity \in Entity
  BY <1>2, ChildIs DEF Busy
<1>4. \A v \in Elems(c) \cup {w} : v \in Elems(Append(c, w))
  BY <1>1, AppendIs DEF Elems
<1>5. /\ Child(r).topic = Doing(r).topic /\ Child(r).entity = Doing(r).entity
      /\ Child(r).cause = ev[r].cause \cup {w}
      /\ Child(r).chain = IF ev[r].entity = NoTarget THEN <<>> ELSE Append(c, w)
  BY DEF Child
<1>6. Caused(Child(r))
  <2>1. CASE ev[r].entity = NoTarget
    <3>1. r # Worker
      BY <1>1, <1>2, <2>1, NameAssumption DEF Clear
    <3>2. ev[r].cause = {} /\ Def[w].trigger = "manual"
      BY <1>1, <1>2, <2>1, <3>1 DEF Clear
    <3> QED
      BY <1>5, <3>2 DEF Caused
  <2>2. CASE ev[r].entity # NoTarget
    BY <1>1, <1>4, <1>5, <2>2 DEF Caused, Clear
  <2> QED
    BY <2>1, <2>2
<1> QED
  BY <1>3, <1>5, <1>6 DEF Proper

LEMMA ActCascade ==
  ASSUME NoResolver, Inv, CascadeInv, NEW r \in Runner, Act(r)
  PROVE  CascadeInv'
<1>1. /\ todo = [todo EXCEPT ![r] = todo[r]] /\ pc = [pc EXCEPT ![r] = pc[r]]
      /\ rest = [rest EXCEPT ![r] = rest[r]]
  BY Stays
<1>2. ASSUME NEW p, p # "awaiting", p \in Busy => pc[r] \in Busy,
             pc' = [pc EXCEPT ![r] = p], EventsProper', UNCHANGED <<plan, wf>>
      PROVE  CascadeInv'
  <2>1. /\ todo' = [todo EXCEPT ![r] = todo[r]] /\ rest' = [rest EXCEPT ![r] = rest[r]]
        /\ UNCHANGED <<ev, wf>>
    BY <1>1, <1>2 DEF plan
  <2>2. todo[r] \subseteq todo[r] \cup rest[r] /\ rest[r] \subseteq rest[r]
    OBVIOUS
  <2> QED
    BY <1>2, <2>1, <2>2, CascadeGoesOn
<1>3. CASE ActQuietly(r) \/ ActClaim(r)
  <2>1. /\ UNCHANGED <<queue, ingests, plan, wf>> /\ pc' = [pc EXCEPT ![r] = "acting"]
        /\ pc[r] = "acting"
    BY <1>1, <1>3 DEF ActQuietly, ActClaim, MoreToDo, engine, outside
  <2> QED
    BY <1>2, <2>1, EventsKept DEF Busy
<1>4. CASE ActPublish(r)
  <2>1. /\ UNCHANGED <<queue, ingests, plan, wf>> /\ pc' = [pc EXCEPT ![r] = "publishing"]
        /\ pc[r] = "acting"
    BY <1>4 DEF ActPublish, MoreToDo, engine, outside, doing
  <2> QED
    BY <1>2, <2>1, EventsKept DEF Busy
<1>5. CASE ActIngest(r)
  <2>1. /\ pc[r] = "acting" /\ step[r] <= Len(Def[wf[r]].actions)
        /\ Def[wf[r]].actions[step[r]].do = "ingest"
    BY <1>5 DEF ActIngest, MoreToDo, Doing
  <2>2. wf[r] \in Workflow /\ step[r] \in Nat \ {0}
    BY <2>1, RunnerType DEF Busy
  <2>3. step[r] \in 1..Len(Def[wf[r]].actions)
    BY <2>1, <2>2, DefIs
  <2> QED
    BY <2>1, <2>2, <2>3 DEF NoResolver
<1>6. CASE Send(r)
  <2>1. /\ UNCHANGED <<ingests, plan, wf>> /\ pc' = [pc EXCEPT ![r] = "acting"]
        /\ pc[r] = "publishing" /\ queue' = Append(queue, Child(r))
    BY <1>6 DEF Send, outside
  <2>2. EventsProper'
    BY <2>1, ChildProper, EventQueued
  <2> QED
    BY <1>2, <2>1, <2>2 DEF Busy
<1>7. CASE SendStopped(r)
  <2>1. /\ UNCHANGED <<queue, ingests, plan, wf>> /\ pc' = [pc EXCEPT ![r] = "acting"]
        /\ pc[r] = "publishing"
    BY <1>7 DEF SendStopped, engine, outside
  <2> QED
    BY <1>2, <2>1, EventsKept DEF Busy
<1>8. CASE Finish(r)
  <2> DEFINE t == IF claimed[r] THEN {} ELSE todo[r] \ {wf[r]}
             u == IF claimed[r] THEN {} ELSE rest[r]
  <2>1. /\ UNCHANGED <<queue, ingests, ev, wf>> /\ pc' = [pc EXCEPT ![r] = "chain"]
        /\ todo' = [todo EXCEPT ![r] = t] /\ rest' = [rest EXCEPT ![r] = u]
    BY <1>8 DEF Finish, outside, doing
  <2>2. t \subseteq todo[r] \cup rest[r] /\ u \subseteq rest[r]
    OBVIOUS
  <2>3. EventsProper'
    BY <2>1, EventsKept
  <2> HIDE DEF t, u
  <2> QED
    BY <2>1, <2>2, <2>3, CascadeGoesOn DEF Busy
<1> QED
  BY <1>3, <1>4, <1>5, <1>6, <1>7, <1>8 DEF Act

\* Only dispatches wait: none of their answers lets an action go on.
LEMMA AnswerCascade ==
  ASSUME Inv, CascadeInv, NEW i \in ingests, i.waited, NEW ok \in BOOLEAN,
         Answer(i.for, ok), EventsProper', UNCHANGED <<plan, wf>>
  PROVE  CascadeInv'
<1> DEFINE r == i.for
           p == IF ok THEN "chain" ELSE "done"
<1>1. r \in Runner
  BY DEF Inv, TypeOK, Ingest
<1>2. pc[r] # "awaiting"
  BY <1>1, ClearIs DEF Clear
<1>3. pc' = [pc EXCEPT ![r] = p]
  BY <1>2 DEF Answer
<1>4. p # "awaiting" /\ p \notin Busy
  BY DEF Busy
<1>5. /\ todo' = [todo EXCEPT ![r] = todo[r]] /\ rest' = [rest EXCEPT ![r] = rest[r]]
      /\ UNCHANGED <<ev, wf>>
  BY <1>1, Stays DEF plan
<1>6. todo[r] \subseteq todo[r] \cup rest[r] /\ rest[r] \subseteq rest[r]
  OBVIOUS
<1> HIDE DEF p, r
<1> QED
  BY <1>1, <1>3, <1>4, <1>5, <1>6, CascadeGoesOn

LEMMA IngestingCascade ==
  ASSUME Inv, CascadeInv, NEW i \in ingests, Ingesting(i)
  PROVE  CascadeInv'
<1>1. i \in Ingest /\ i.event \in Event /\ Proper(i.event) /\ EventsProper
  BY DEF Inv, TypeOK, Ingest, CascadeInv, EventsProper
<1>2. CASE IngestSaved(i)
  BY <1>2, IngestSavedCascade
<1>3. CASE IngestDone(i)
  <2>1. EventsProper'
    <3>1. CASE queue' = queue
      BY <1>1, <1>3, <3>1 DEF IngestDone, EventsProper, Proper, Caused
    <3>2. CASE queue' = Append(queue, i.event)
      BY <1>1, <1>3, <3>2, EventQueued DEF IngestDone
    <3> QED
      BY <1>3, <3>1, <3>2 DEF IngestDone
  <2>2. UNCHANGED <<plan, wf>>
    BY <1>3 DEF IngestDone
  <2>3. CASE i.waited
    BY <1>3, <2>1, <2>2, <2>3, AnswerCascade DEF IngestDone
  <2>4. CASE ~i.waited
    BY <1>3, <2>1, <2>2, <2>4, CascadeRests DEF IngestDone
  <2> QED
    BY <2>3, <2>4
<1>4. CASE IngestSilent(i)
  <2>1. EventsProper' /\ UNCHANGED <<plan, wf>>
    BY <1>1, <1>4 DEF IngestSilent, EventsProper, Proper, Caused, engine
  <2>2. CASE i.waited
    BY <1>4, <2>1, <2>2, AnswerCascade DEF IngestSilent
  <2>3. CASE ~i.waited
    BY <1>4, <2>1, <2>3, CascadeRests DEF IngestSilent
  <2> QED
    BY <2>2, <2>3
<1>5. CASE IngestTimeout(i)
  <2>1. [i EXCEPT !.waited = FALSE].event = i.event
    BY <1>1 DEF Ingest
  <2>2. EventsProper' /\ UNCHANGED <<plan, wf>>
    BY <1>1, <1>5, <2>1 DEF IngestTimeout, EventsProper, Proper, Caused, engine
  <2> QED
    BY <1>5, <2>2, AnswerCascade DEF IngestTimeout
<1> QED
  BY <1>2, <1>3, <1>4, <1>5 DEF Ingesting

\* A dispatch starts a fresh chain.
LEMMA DispatchCascade ==
  ASSUME Inv, CascadeInv, NEW d \in Dispatcher, NEW w \in Workflow, NEW e \in Target,
         e = NoTarget => Def[w].trigger = "manual", EventsProper', pc[d] = "idle",
         NEW p \in {"chain", "resolving"}, pc' = [pc EXCEPT ![d] = p],
         ev' = [ev EXCEPT ![d] = External("manual", e)],
         todo' = [todo EXCEPT ![d] = {w}], UNCHANGED <<rest, wf>>
  PROVE  CascadeInv'
<1> DEFINE x == External("manual", e)
           t == {w}
           u == {}
<1>1. d \in Runner /\ d # Worker /\ rest[d] = u
  BY DispatcherIs
<1>2. Clear(d, p, x, t, u, wf[d])
  BY <1>1 DEF Clear, Caused, External, Busy
<1>3. /\ rest' = [rest EXCEPT ![d] = u] /\ wf' = [wf EXCEPT ![d] = wf[d]]
      /\ ev' = [ev EXCEPT ![d] = x] /\ todo' = [todo EXCEPT ![d] = t]
  BY <1>1, Stays
<1> HIDE DEF x, t, u
<1>4. pc' = [pc EXCEPT ![d] = p]
  OBVIOUS
<1> QED
  BY ONLY Inv, CascadeInv, EventsProper', <1>1, <1>2, <1>3, <1>4, CascadeMoves

LEMMA CascadeInit ==
  ASSUME Init
  PROVE  CascadeInv
<1>1. \A r \in Runner : Clear(r, pc[r], ev[r], todo[r], rest[r], wf[r])
  BY DEF Init, Clear, Caused, External, Busy
<1>2. EventsProper
  BY DEF Init, EventsProper
<1> QED
  BY <1>1, <1>2 DEF CascadeInv

LEMMA CascadeNext ==
  ASSUME NoResolver, Inv, CascadeInv, [Next]_vars
  PROVE  CascadeInv'
<1>1. ASSUME NEW i \in Inputs, Publish(i[1], i[2]) PROVE CascadeInv'
  BY <1>1, PublishCascade
<1>2. ASSUME NEW l \in Reloads, Reconcile(l) PROVE CascadeInv'
  BY <1>2, RestCascade DEF Reconcile, outside
<1>3. CASE Shutdown
  BY <1>3, RestCascade DEF Shutdown, outside
<1>4. CASE Dequeue
  BY <1>4, DequeueCascade
<1>5. CASE WorkerExit
  <2>1. /\ Worker \in Runner /\ pc' = [pc EXCEPT ![Worker] = "exited"]
        /\ UNCHANGED <<queue, ingests, plan, wf>>
    BY <1>5 DEF WorkerExit, Runner, engine, outside, doing
  <2>2. /\ todo' = [todo EXCEPT ![Worker] = todo[Worker]]
        /\ rest' = [rest EXCEPT ![Worker] = rest[Worker]] /\ UNCHANGED <<ev, wf>>
    BY <2>1, Stays DEF plan
  <2>3. /\ todo[Worker] \subseteq todo[Worker] \cup rest[Worker]
        /\ rest[Worker] \subseteq rest[Worker]
    OBVIOUS
  <2> QED
    BY <2>1, <2>2, <2>3, EventsKept, CascadeGoesOn DEF Busy
<1>6. ASSUME NEW r \in Runner, Evaluate(r) \/ Act(r) PROVE CascadeInv'
  BY <1>6, EvaluateCascade, ActCascade
<1>7. ASSUME NEW i \in ingests, Ingesting(i) PROVE CascadeInv'
  BY <1>7, IngestingCascade
<1>8. ASSUME NEW d \in Dispatcher, NEW w \in Workflow, NEW e \in Target,
             DispatchRejected(d, w, e) \/ Dispatch(d, w, e)
      PROVE  CascadeInv'
  <2>1. CASE DispatchRejected(d, w, e)
    <3>1. /\ pc' = [pc EXCEPT ![d] = "done"] /\ d \in Runner
          /\ UNCHANGED <<queue, ingests, plan, wf>>
      BY <2>1 DEF DispatchRejected, Runner, engine, outside, doing
    <3>2. /\ todo' = [todo EXCEPT ![d] = todo[d]] /\ rest' = [rest EXCEPT ![d] = rest[d]]
          /\ UNCHANGED <<ev, wf>>
      BY <3>1, Stays DEF plan
    <3>3. todo[d] \subseteq todo[d] \cup rest[d] /\ rest[d] \subseteq rest[d]
      OBVIOUS
    <3> QED
      BY <3>1, <3>2, <3>3, EventsKept, CascadeGoesOn DEF Busy
  <2>2. CASE Dispatch(d, w, e)
    <3>1. EventsProper'
      BY <2>2, EventsKept DEF Dispatch, engine, outside
    <3> QED
      BY <2>2, <3>1, DispatchCascade DEF Dispatch, doing
  <2> QED
    BY <1>8, <2>1, <2>2
<1>9. ASSUME NEW d \in Dispatcher, NEW w \in Workflow, NEW e \in Entity,
             DispatchURL(d, w, e)
      PROVE  CascadeInv'
  <2>1. Proper(External("entity_created", e)) /\ e \in Target /\ e # NoTarget
    BY ExternalProper, NameAssumption DEF Topic, Target
  <2>2. EventsProper'
    BY <1>9, <2>1 DEF DispatchURL, CascadeInv, EventsProper, Proper, Caused, engine
  <2> QED
    BY <1>9, <2>1, <2>2, DispatchCascade DEF DispatchURL, doing
<1>10. ASSUME NEW d \in Dispatcher, Find(d) PROVE CascadeInv'
  <2>1. /\ pc' = [pc EXCEPT ![d] = "done"] /\ d \in Runner
        /\ UNCHANGED <<queue, ingests, plan, wf>>
    BY <1>10 DEF Find, Runner, engine, outside, doing
  <2>2. /\ todo' = [todo EXCEPT ![d] = todo[d]] /\ rest' = [rest EXCEPT ![d] = rest[d]]
        /\ UNCHANGED <<ev, wf>>
    BY <2>1, Stays DEF plan
  <2>3. todo[d] \subseteq todo[d] \cup rest[d] /\ rest[d] \subseteq rest[d]
    OBVIOUS
  <2> QED
    BY <2>1, <2>2, <2>3, EventsKept, CascadeGoesOn DEF Busy
<1>11. CASE UNCHANGED vars
  BY <1>11, RestCascade DEF vars, engine, outside
<1> QED
  BY <1>1, <1>2, <1>3, <1>4, <1>5, <1>6, <1>7, <1>8, <1>9, <1>10, <1>11 DEF Next

\* applyCycleCheck, of any cascade over any number of workflows: where no
\* action resolves an entity with a plugin, the actions of a workflow never
\* run on an event that one of its own firings led to.
THEOREM NoLoop ==
  ASSUME NoResolver
  PROVE  Spec => []NoSelfCascade
<1>1. Init => CascadeInv
  BY CascadeInit
<1>2. Inv /\ CascadeInv /\ [Next]_vars => CascadeInv'
  BY CascadeNext
<1>3. Inv /\ CascadeInv => NoSelfCascade
  <2> SUFFICES ASSUME Inv, CascadeInv, NEW r \in Runner, pc[r] \in Busy
               PROVE  wf[r] \notin ev[r].cause
    BY DEF NoSelfCascade, Busy
  <2>1. /\ Where(r, pc[r], todo[r], rest[r], wf[r], step[r], ran[r])
        /\ Clear(r, pc[r], ev[r], todo[r], rest[r], wf[r])
    BY RunnerType, ClearIs
  <2> QED
    BY <2>1 DEF Where, Clear, Caused
<1> QED
  BY <1>1, <1>2, <1>3, SpecInv, PTL DEF Spec
=============================================================================
