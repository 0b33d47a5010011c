--------------------------- MODULE WorkflowEngine ---------------------------
(***************************************************************************)
(* internal/workflow/engine: the workflow engine.  The bus handler puts    *)
(* each event on a bounded FIFO queue; one worker takes the events off,    *)
(* evaluates the matching workflows in two passes and runs the actions of  *)
(* those that fire; the actions publish events of their own on the         *)
(* worker's goroutine.  Manual dispatches evaluate a workflow on the       *)
(* goroutine of their caller, next to the worker.                          *)
(*                                                                         *)
(* A Runner is a goroutine in the evaluation pipeline: the worker or a     *)
(* dispatcher.  What CEL and the templates compute is a choice among the   *)
(* outcomes Def gives the workflow; a dedup key is the entity's id.        *)
(***************************************************************************)
EXTENDS Naturals, FiniteSets, SequencesExt

CONSTANTS Workflow,   \* names of the workflows on disk
          Entity,
          Kind,
          KindOf,     \* the kind of each entity
          Def,        \* what each workflow's file declares
          Dispatcher, \* goroutines in a manual Dispatch
          Worker,     \* the worker goroutine
          NoTarget,   \* the entity id of a target-less dispatch, ""
          NoWorkflow, \* no workflow runs
          NoDecision, \* Dispatch has not returned, or returned an error
          Capacity,   \* queueCapacity
          RingSize,   \* Options.DecisionRingSize
          MaxPublish, \* bound: events published from outside any workflow
          Inputs,     \* bound: the <<topic, entity>> of those events
          Reloads     \* bound: the reloads, by the files the loader reports and the
              \* ones among them that were edited or do not compile

Runner == Dispatcher \cup {Worker}
Topic == {"edge_added", "entity_created", "fill_completed", "entity_updated"}
Target == Entity \cup {NoTarget}

\* What a step of an action list does: publish an event, make the tracker
\* ingest an entity and wait for it, claim the event, or write files only.
Action == [do : {"emit", "ingest"}, topic : Topic, entity : Entity]
            \cup [do : {"claim", "write"}]

\* "false": the condition is false; "failed": the entity does not resolve, or
\* a binding, the condition or the subject errors; "true": the workflow fires;
\* "blank_key": and its dedup key is blank or does not render;
\* "render_error": and a template of an action does not.
Outcome == {"failed", "false", "true", "blank_key", "render_error"}

Definition ==
  [trigger : Topic \cup {"manual"}, kinds : Seq(Kind), file : Nat,
   catchAll : BOOLEAN, active : BOOLEAN, dedup : {"none", "update", "skip"},
   outcomes : SUBSET Outcome, actions : Seq(Action)]

\* No two workflows are of one file.
ASSUME DefAssumption ==
  /\ IsFiniteSet(Workflow)
  /\ Def \in [Workflow -> Definition]
  /\ \A v, w \in Workflow : Def[v].file = Def[w].file => v = w
ASSUME KindAssumption == KindOf \in [Entity -> Kind]
ASSUME NameAssumption ==
  /\ Worker \notin Dispatcher /\ NoTarget \notin Entity
  /\ NoWorkflow \notin Workflow
ASSUME BoundAssumption ==
  /\ Capacity \in Nat \ {0} /\ RingSize \in Nat \ {0} /\ MaxPublish \in Nat
  /\ Inputs \subseteq Topic \X Entity
  /\ Reloads \subseteq [files : SUBSET Workflow, edited : SUBSET Workflow,
                        broken : SUBSET Workflow]

\* chain is the event's WorkflowChain; cause is history: the workflows whose
\* actions really led to the event.
Event == [topic : Topic \cup {"manual"}, entity : Target,
          chain : Seq(Workflow), cause : SUBSET Workflow]
Decision == [wf : Workflow, entity : Target, fired : BOOLEAN,
             suppressed : BOOLEAN, claimed : BOOLEAN, by : Runner]
\* saved: the entity is in the store and its event waits for the queue.
Ingest == [for : Runner, waited : BOOLEAN, saved : BOOLEAN, event : Event]

\* A workflow has been evaluated on an event, and whether it claimed it.
Evaluation == [wf : Workflow, claimed : BOOLEAN]

VARIABLES
  queue,     \* Engine.queue
  registry,  \* Engine.workflows
  seen,      \* Engine.dedupSeen
  logged,    \* Engine.cycleLogged
  ring,      \* Engine.decisions
  stopped,   \* shutdownCh is closed
  ingests,   \* ingest runs that actions and dispatches started
  published, \* events published from outside
  pc,        \* where each runner is
  ev,        \* the event it evaluates
  todo,      \* workflows left in the current pass
  rest,      \* workflows of pass 2, while pass 1 runs
  wf,        \* the workflow whose actions run
  step,      \* the next action
  claimed,   \* a claim_entity action ran
  result,    \* what each Dispatch returned
  ran,       \* history: the workflows evaluated on the event, in order
  fires      \* history: how often a <<workflow, key>> was dispatched, up to 2

engine == <<queue, registry, seen, logged, ring, stopped>>
outside == <<ingests, published>>
plan == <<ev, todo, rest>>
doing == <<wf, step, claimed>>
hist == <<result, ran, fires>>
vars == <<engine, outside, pc, plan, doing, hist>>

PC == {"idle", "chain", "acting", "publishing", "awaiting", "resolving",
       "find", "done", "exited"}

Elems(s) == {s[i] : i \in 1..Len(s)}
External(t, e) == [topic |-> t, entity |-> e, chain |-> <<>>, cause |-> {}]

-----------------------------------------------------------------------------
\* Triggers, catch-all slots and decisions.

\* matchesEvent; the edge type, gap, source and field filters are left out, a
\* workflow that such a filter excludes being one with another trigger.
Matches(w, e) ==
  /\ Def[w].trigger = e.topic
  /\ \/ e.topic = "fill_completed"
     \/ Def[w].kinds = <<>>
     \/ KindOf[e.entity] \in Elems(Def[w].kinds)

\* isCatchAllWildcard
Wildcard(w) ==
  Def[w].trigger \in {"edge_added", "entity_created"} => Def[w].kinds = <<>>

\* catchAllRegistryKey: a catch-all that lists several kinds has the slot of
\* the first one; fill and update catch-alls share one slot per trigger.
Slot(w) ==
  IF Def[w].trigger \in {"edge_added", "entity_created"} /\ Def[w].kinds # <<>>
  THEN <<Head(Def[w].kinds)>> ELSE <<>>

\* findCatchAllConflict
SlotConflict(v, w) ==
  /\ v # w
  /\ Def[v].catchAll /\ Def[w].catchAll
  /\ Def[v].trigger = Def[w].trigger
  /\ Slot(v) = Slot(w)

\* Pass 2 is the kind-specific catch-alls, or the wildcard if there are none.
PassTwo(catch) ==
  LET specific == {w \in catch : ~Wildcard(w)}
  IN  IF specific # {} THEN specific ELSE catch

\* Mutated: only the workflow that published the event itself is looked at.
InCycle_LastOnly(r, w) ==
  ev[r].chain # <<>> /\ ev[r].chain[Len(ev[r].chain)] = w

\* applyCycleCheck's search of the chain.
InCycle(r, w) == w \in Elems(ev[r].chain)

Seen(r, w) == <<w, ev[r].entity>> \in seen

Decide(r, w, fired, suppressed, claim) ==
  [wf |-> w, entity |-> ev[r].entity, fired |-> fired,
   suppressed |-> suppressed, claimed |-> claim, by |-> r]

\* The newest n elements of s.
Newest(s, n) == SubSeq(s, IF Len(s) > n THEN Len(s) - n + 1 ELSE 1, Len(s))

\* Mutated: the ring evicts one entry too late.
Record_Late(ds) == ring' = Newest(ring \o ds, RingSize + 1)

\* recordDecision, for one decision after the other: the full ring evicts its
\* oldest entry.
Record(ds) == ring' = Newest(ring \o ds, RingSize)

Init ==
  /\ queue = <<>> /\ registry = {} /\ seen = {} /\ logged = {} /\ ring = <<>>
  /\ stopped = FALSE /\ ingests = {} /\ published = 0
  /\ pc = [r \in Runner |-> "idle"]
  /\ ev = [r \in Runner |-> External("manual", NoTarget)]
  /\ todo = [r \in Runner |-> {}]
  /\ rest = [r \in Runner |-> {}]
  /\ wf = [r \in Runner |-> NoWorkflow]
  /\ step = [r \in Runner |-> 1]
  /\ claimed = [r \in Runner |-> FALSE]
  /\ result = [r \in Runner |-> NoDecision]
  /\ ran = [r \in Runner |-> <<>>]
  /\ fires = [p \in Workflow \X Target |-> 0]

-----------------------------------------------------------------------------
\* Around the worker: publishers, the loader, shutdown.

\* An event from outside the engine (an ingest, a fill, an edge over HTTP)
\* reaches enqueueEvent, which blocks its publisher while the queue is full.
Publish(t, e) ==
  /\ ~stopped
  /\ published < MaxPublish
  /\ Len(queue) < Capacity
  /\ queue' = Append(queue, External(t, e))
  /\ published' = published + 1
  /\ UNCHANGED <<registry, seen, logged, ring, stopped, ingests, pc, plan, doing, hist>>

\* Unsubscribe from every topic, then close(shutdownCh).
Shutdown ==
  /\ ~stopped
  /\ stopped' = TRUE
  /\ UNCHANGED <<queue, registry, seen, logged, ring, outside, pc, plan, doing, hist>>

\* Reconcile with what the loader reports: a workflow without a file, or with
\* an edited one, is unregistered; then every file that is not registered is
\* compiled and registered in map order, except those whose expressions do not
\* compile and the catch-alls whose slot is taken.
Reconcile(l) ==
  LET kept == (registry \cap l.files) \ l.edited
      candidates == l.files \ (kept \cup l.broken)
  IN  \E added \in SUBSET candidates :
        /\ \A v \in candidates :
             (v \in added) <=> ~\E w \in kept \cup added : SlotConflict(v, w)
        /\ registry' = kept \cup added
        /\ UNCHANGED <<queue, seen, logged, ring, stopped, outside, pc, plan, doing,
                       hist>>

-----------------------------------------------------------------------------
\* The worker and its two passes.

\* The target_kind filter has to resolve the edge's target to know its kind.
ProbesTarget(w, e) ==
  Def[w].trigger = "edge_added" /\ e.topic = "edge_added" /\ Def[w].kinds # <<>>

\* The worker takes an event off the queue and partitions the workflows that
\* match it, from a snapshot of the registry, into the two passes.  Those
\* whose probe of the target fails do not match and record an error.
Dequeue ==
  /\ pc[Worker] = "idle"
  /\ queue # <<>>
  /\ \E lost \in SUBSET {w \in registry : ProbesTarget(w, Head(queue))
                                           /\ "failed" \in Def[w].outcomes} :
       LET match == {w \in registry \ lost : Matches(w, Head(queue))}
           catch == {w \in match : Def[w].catchAll}
           order == SetToSeq(lost)
           error(w) == [Decide(Worker, w, FALSE, FALSE, FALSE)
                          EXCEPT !.entity = Head(queue).entity]
       IN
         /\ Record([n \in DOMAIN order |-> error(order[n])])
         /\ ev' = [ev EXCEPT ![Worker] = Head(queue)]
         /\ todo' = [todo EXCEPT ![Worker] = match \ catch]
         /\ rest' = [rest EXCEPT ![Worker] = PassTwo(catch)]
  /\ queue' = Tail(queue)
  /\ pc' = [pc EXCEPT ![Worker] = "chain"]
  /\ ran' = [ran EXCEPT ![Worker] = <<>>]
  /\ UNCHANGED <<registry, seen, logged, stopped, outside, doing, result, fires>>

\* workerLoop's select finds shutdownCh closed; what is queued stays there.
WorkerExit ==
  /\ pc[Worker] = "idle"
  /\ stopped
  /\ pc' = [pc EXCEPT ![Worker] = "exited"]
  /\ UNCHANGED <<engine, outside, plan, doing, hist>>

\* Pass 1 ran without a claim: the catch-alls are next.
PassTwoBegins(r) ==
  /\ pc[r] = "chain"
  /\ todo[r] = {} /\ rest[r] # {}
  /\ todo' = [todo EXCEPT ![r] = rest[r]]
  /\ rest' = [rest EXCEPT ![r] = {}]
  /\ UNCHANGED <<engine, outside, pc, ev, doing, hist>>

\* The chain is over: the worker returns to its select, Dispatch looks for
\* the decision it is going to return.
ChainEnds(r) ==
  /\ pc[r] = "chain"
  /\ todo[r] = {} /\ rest[r] = {}
  /\ pc' = [pc EXCEPT ![r] = IF r = Worker THEN "idle" ELSE "find"]
  /\ UNCHANGED <<engine, outside, plan, doing, hist>>

\* The workflow of the pass that is evaluated next (sortByFilename).
Current(r, w) ==
  /\ pc[r] = "chain"
  /\ w \in todo[r]
  /\ \A v \in todo[r] : Def[w].file <= Def[v].file

\* evaluateAndRecord ends without actions: the chain goes on.
GoOn(r, w) ==
  /\ todo' = [todo EXCEPT ![r] = @ \ {w}]
  /\ ran' = [ran EXCEPT ![r] = Append(@, [wf |-> w, claimed |-> FALSE])]
  /\ UNCHANGED <<queue, registry, stopped, outside, pc, ev, rest, doing, result, fires>>

\* A paused or draft workflow, a false condition, an entity that does not
\* resolve and a failing expression start no action and record a decision;
\* when it is the subject that fails, the decision says that it fired.
EvaluateNoFire(r, w) ==
  /\ Current(r, w)
  /\ Def[w].active => /\ ~InCycle(r, w)
                      /\ {"failed", "false"} \cap Def[w].outcomes # {}
  /\ \E fired \in {FALSE} \cup {Def[w].active /\ "failed" \in Def[w].outcomes} :
       Record(<<Decide(r, w, fired, FALSE, FALSE)>>)
  /\ GoOn(r, w)
  /\ UNCHANGED <<seen, logged>>

\* applyCycleCheck: the event's chain names the workflow already.
EvaluateCycle(r, w) ==
  /\ Current(r, w)
  /\ Def[w].active /\ InCycle(r, w)
  /\ logged' = logged \cup {<<w, ev[r].chain>>}
  /\ Record(<<Decide(r, w, FALSE, TRUE, FALSE)>>)
  /\ GoOn(r, w)
  /\ UNCHANGED seen

\* What makes the workflow fire.
Fires(r, w) ==
  /\ Current(r, w)
  /\ Def[w].active /\ ~InCycle(r, w)

\* applyDedupPolicy, policy skip, key seen: fired, recorded, not dispatched.
EvaluateSkip(r, w) ==
  /\ Fires(r, w)
  /\ {"true", "render_error"} \cap Def[w].outcomes # {}
  /\ Def[w].dedup = "skip" /\ Seen(r, w)
  /\ Record(<<Decide(r, w, TRUE, FALSE, FALSE)>>)
  /\ GoOn(r, w)
  /\ UNCHANGED <<seen, logged>>

\* runActions begins.  A template that does not render skips every action.  A
\* target-less dispatch (runEvaluation) records its decision here already.
Start(r, w, outcomes) ==
  /\ \E o \in outcomes \cap Def[w].outcomes :
       step' = [step EXCEPT ![r] = IF o = "render_error"
                                   THEN Len(Def[w].actions) + 1 ELSE 1]
  /\ IF ev[r].entity = NoTarget THEN Record(<<Decide(r, w, TRUE, FALSE, FALSE)>>)
                                ELSE UNCHANGED ring
  /\ wf' = [wf EXCEPT ![r] = w]
  /\ claimed' = [claimed EXCEPT ![r] = FALSE]
  /\ pc' = [pc EXCEPT ![r] = "acting"]
  /\ UNCHANGED <<queue, registry, logged, stopped, outside, plan, result, ran>>

Count(r, w) ==
  fires' = [fires EXCEPT ![<<w, ev[r].entity>>] = IF @ = 2 THEN 2 ELSE @ + 1]

\* Mutated: the key is stamped only when the actions have run.
EvaluateFire_StampLate(r, w) ==
  /\ Fires(r, w)
  /\ ~(Def[w].dedup = "skip" /\ Seen(r, w))
  /\ Start(r, w, {"true", "render_error"})
  /\ Count(r, w)
  /\ UNCHANGED seen

\* applyDedupPolicy lets the workflow through and stamps its key, atomically
\* and before the first action runs.
EvaluateFire(r, w) ==
  /\ Fires(r, w)
  /\ ~(Def[w].dedup = "skip" /\ Seen(r, w))
  /\ seen' = IF Def[w].dedup = "none" THEN seen ELSE seen \cup {<<w, ev[r].entity>>}
  /\ Start(r, w, {"true", "render_error"})
  /\ Count(r, w)

\* Without a key to look up, every policy lets the workflow through.
EvaluateFireNoKey(r, w) ==
  /\ Fires(r, w)
  /\ Def[w].dedup # "none"
  /\ Start(r, w, {"blank_key"})
  /\ UNCHANGED <<seen, fires>>

-----------------------------------------------------------------------------
\* The action list of the workflow that fired: in order and best effort.

MoreToDo(r) == pc[r] = "acting" /\ step[r] <= Len(Def[wf[r]].actions)
Doing(r) == Def[wf[r]].actions[step[r]]
Advance(r) == step' = [step EXCEPT ![r] = @ + 1]

\* The action fails, or does nothing the engine sees: the next one runs all
\* the same.
ActQuietly(r) ==
  /\ MoreToDo(r) /\ Doing(r).do # "claim"
  /\ Advance(r)
  /\ UNCHANGED <<engine, outside, pc, plan, wf, claimed, hist>>

ActClaim(r) ==
  /\ MoreToDo(r) /\ Doing(r).do = "claim"
  /\ claimed' = [claimed EXCEPT ![r] = TRUE]
  /\ Advance(r)
  /\ UNCHANGED <<engine, outside, pc, plan, wf, hist>>

\* The action's writer has done its write and calls bus.Publish.
ActPublish(r) ==
  /\ MoreToDo(r) /\ Doing(r).do = "emit"
  /\ pc' = [pc EXCEPT ![r] = "publishing"]
  /\ UNCHANGED <<engine, outside, plan, doing, hist>>

\* Mutated: the action's context keeps the chain of the triggering event.
Child_SameChain(r) ==
  [topic |-> Doing(r).topic, entity |-> Doing(r).entity,
   chain |-> ev[r].chain, cause |-> ev[r].cause \cup {wf[r]}]

\* The event an action publishes: childChain, which the writers read from
\* the context, is the triggering event's chain and this workflow.
\* runEvaluation, the target-less dispatch, puts no chain on the context.
Child(r) ==
  [topic |-> Doing(r).topic, entity |-> Doing(r).entity,
   chain |-> IF ev[r].entity = NoTarget THEN <<>> ELSE Append(ev[r].chain, wf[r]), cause |-> ev[r].cause \cup {wf[r]}]

\* enqueueEvent on the runner's goroutine: blocks until there is room...
Send(r) ==
  /\ pc[r] = "publishing"
  /\ Len(queue) < Capacity
  /\ queue' = Append(queue, Child(r))
  /\ pc' = [pc EXCEPT ![r] = "acting"]
  /\ Advance(r)
  /\ UNCHANGED <<registry, seen, logged, ring, stopped, outside, plan, wf, claimed, hist>>

\* ... or until shutdownCh is closed, which drops the event.
SendStopped(r) ==
  /\ pc[r] = "publishing"
  /\ stopped
  /\ pc' = [pc EXCEPT ![r] = "acting"]
  /\ Advance(r)
  /\ UNCHANGED <<engine, outside, plan, wf, claimed, hist>>

\* add_canonical_edge with a resolver plugin: the tracker ingests the target
\* on a goroutine of its own, on context.Background(), so that the events of
\* the ingest carry no chain; the action waits.
ActIngest(r) ==
  /\ MoreToDo(r) /\ Doing(r).do = "ingest"
  /\ ingests' = ingests \cup
       {[for |-> r, waited |-> TRUE, saved |-> FALSE,
         event |-> [Child(r) EXCEPT !.topic = "entity_created", !.chain = <<>>]]}
  /\ pc' = [pc EXCEPT ![r] = "awaiting"]
  /\ UNCHANGED <<engine, published, plan, doing, hist>>

\* The runner gets its answer: an action goes on to publish the edge or, on
\* an error, to the next action; a dispatch has its entity or an error.
Answer(r, ok) ==
  IF pc[r] = "awaiting"
  THEN /\ pc' = [pc EXCEPT ![r] = IF ok THEN "publishing" ELSE "acting"]
       /\ IF ok THEN UNCHANGED step ELSE Advance(r)
  ELSE /\ pc' = [pc EXCEPT ![r] = IF ok THEN "chain" ELSE "done"]
       /\ UNCHANGED step

\* persistEnvelope has upserted a new entity: the event is pending.
IngestSaved(i) ==
  /\ ~i.saved
  /\ ingests' = (ingests \ {i}) \cup {[i EXCEPT !.saved = TRUE]}
  /\ UNCHANGED <<engine, published, pc, plan, doing, hist>>

\* It returns, well or with a later error, and its deferred Drain publishes
\* the event; then the record leaves the pending state and the waiter, if
\* any, is woken.
IngestDone(i) ==
  /\ i.saved
  /\ Len(queue) < Capacity \/ stopped
  /\ queue' = IF stopped THEN queue ELSE Append(queue, i.event)
  /\ ingests' = ingests \ {i}
  /\ \E ok \in BOOLEAN : IF i.waited THEN Answer(i.for, ok) ELSE UNCHANGED <<pc, step>>
  /\ UNCHANGED <<registry, seen, logged, ring, stopped, published, plan, wf, claimed,
                 hist>>

\* The entity was there already and nothing about it is new, or the ingest
\* fails before the upsert: it publishes nothing.
IngestSilent(i) ==
  /\ ~i.saved
  /\ ingests' = ingests \ {i}
  /\ \E ok \in BOOLEAN : IF i.waited THEN Answer(i.for, ok) ELSE UNCHANGED <<pc, step>>
  /\ UNCHANGED <<engine, published, plan, wf, claimed, hist>>

\* Mutated: the wait has no timer.
IngestTimeout_Never(i) == FALSE /\ UNCHANGED vars

\* wait's timer fires; the ingest goes on without it.
IngestTimeout(i) ==
  /\ i.waited
  /\ ingests' = (ingests \ {i}) \cup {[i EXCEPT !.waited = FALSE]}
  /\ Answer(i.for, FALSE)
  /\ UNCHANGED <<engine, published, plan, wf, claimed, hist>>

\* Mutated: the chain goes on after a claim.
Finish_IgnoreClaim(r) ==
  /\ pc[r] = "acting"
  /\ step[r] > Len(Def[wf[r]].actions)
  /\ IF ev[r].entity = NoTarget
     THEN UNCHANGED ring
     ELSE Record(<<Decide(r, wf[r], TRUE, FALSE, claimed[r])>>)
  /\ ran' = [ran EXCEPT ![r] = Append(@, [wf |-> wf[r], claimed |-> claimed[r]])]
  /\ todo' = [todo EXCEPT ![r] = @ \ {wf[r]}]
  /\ UNCHANGED rest
  /\ pc' = [pc EXCEPT ![r] = "chain"]
  /\ UNCHANGED <<queue, registry, seen, logged, stopped, outside, ev, doing, result,
                 fires>>

\* All actions have run: the decision is recorded (a target-less dispatch
\* recorded its own) and a claim ends the chain, pass 2 included.
Finish(r) ==
  /\ pc[r] = "acting"
  /\ step[r] > Len(Def[wf[r]].actions)
  /\ IF ev[r].entity = NoTarget
     THEN UNCHANGED ring
     ELSE Record(<<Decide(r, wf[r], TRUE, FALSE, claimed[r])>>)
  /\ ran' = [ran EXCEPT ![r] = Append(@, [wf |-> wf[r], claimed |-> claimed[r]])]
  /\ todo' = [todo EXCEPT ![r] = IF claimed[r] THEN {} ELSE @ \ {wf[r]}]
  /\ rest' = [rest EXCEPT ![r] = IF claimed[r] THEN {} ELSE @]
  /\ pc' = [pc EXCEPT ![r] = "chain"]
  /\ UNCHANGED <<queue, registry, seen, logged, stopped, outside, ev, doing, result,
                 fires>>

-----------------------------------------------------------------------------
\* Manual dispatch; a dispatcher is one request.

\* An unknown workflow, or a target-less trigger of an event-driven one.
DispatchRejected(d, w, e) ==
  /\ pc[d] = "idle"
  /\ w \notin registry \/ (e = NoTarget /\ Def[w].trigger # "manual")
  /\ pc' = [pc EXCEPT ![d] = "done"]
  /\ UNCHANGED <<engine, outside, plan, doing, hist>>

\* By entity id, or without a target: a fresh chain.
Dispatch(d, w, e) ==
  /\ pc[d] = "idle"
  /\ w \in registry
  /\ e = NoTarget => Def[w].trigger = "manual"
  /\ ev' = [ev EXCEPT ![d] = External("manual", e)]
  /\ todo' = [todo EXCEPT ![d] = {w}]
  /\ pc' = [pc EXCEPT ![d] = "chain"]
  /\ UNCHANGED <<engine, outside, rest, doing, hist>>

\* By URL: the plugin pipeline ingests it first; the registration found now
\* is the one that runs then.
DispatchURL(d, w, e) ==
  /\ pc[d] = "idle"
  /\ w \in registry
  /\ ev' = [ev EXCEPT ![d] = External("manual", e)]
  /\ todo' = [todo EXCEPT ![d] = {w}]
  /\ ingests' = ingests \cup {[for |-> d, waited |-> TRUE, saved |-> FALSE,
                               event |-> External("entity_created", e)]}
  /\ pc' = [pc EXCEPT ![d] = "resolving"]
  /\ UNCHANGED <<engine, published, rest, doing, hist>>

\* findRecentDecision: the newest entry of the ring with the workflow and the
\* entity of this dispatch.
Find(d) ==
  /\ pc[d] = "find"
  /\ LET w == ran[d][Len(ran[d])].wf
         hits == {i \in 1..Len(ring) : ring[i].wf = w /\ ring[i].entity = ev[d].entity}
     IN  result' = [result EXCEPT ![d] =
           IF hits = {} THEN NoDecision
           ELSE ring[CHOOSE i \in hits : \A j \in hits : j <= i]]
  /\ pc' = [pc EXCEPT ![d] = "done"]
  /\ UNCHANGED <<engine, outside, plan, doing, ran, fires>>

-----------------------------------------------------------------------------
Evaluate(r) ==
  \/ PassTwoBegins(r) \/ ChainEnds(r)
  \/ \E w \in Workflow : \/ EvaluateNoFire(r, w) \/ EvaluateCycle(r, w)
                         \/ EvaluateSkip(r, w) \/ EvaluateFire(r, w)
                         \/ EvaluateFireNoKey(r, w)

Act(r) ==
  \/ ActQuietly(r) \/ ActClaim(r) \/ ActPublish(r) \/ ActIngest(r)
  \/ Send(r) \/ SendStopped(r) \/ Finish(r)

Ingesting(i) ==
  IngestSaved(i) \/ IngestDone(i) \/ IngestSilent(i) \/ IngestTimeout(i)

Next ==
  \/ \E i \in Inputs : Publish(i[1], i[2])
  \/ \E l \in Reloads : Reconcile(l)
  \/ Shutdown
  \/ Dequeue \/ WorkerExit
  \/ \E r \in Runner : Evaluate(r) \/ Act(r)
  \/ \E i \in ingests : Ingesting(i)
  \/ \E d \in Dispatcher, w \in Workflow :
       \/ \E e \in Target : DispatchRejected(d, w, e) \/ Dispatch(d, w, e)
       \/ \E e \in Entity : DispatchURL(d, w, e)
  \/ \E d \in Dispatcher : Find(d)

Spec == Init /\ [][Next]_vars

\* Every goroutine keeps running, an awaited ingest answers or times out, and
\* the worker's select does not ignore a closed shutdownCh for ever.
Fairness ==
  /\ WF_vars(Dequeue) /\ SF_vars(WorkerExit)
  /\ \A r \in Runner : WF_vars(Evaluate(r)) /\ WF_vars(Act(r))
  /\ \A d \in Dispatcher : WF_vars(Find(d))
  /\ WF_vars(\E i \in ingests : Ingesting(i))
  /\ \A r \in Runner : WF_vars(\E i \in ingests : i.for = r /\ i.waited /\ Ingesting(i))

FairSpec == Spec /\ Fairness

-----------------------------------------------------------------------------
\* Type correctness.
TypeOK ==
  /\ queue \in Seq(Event) /\ Len(queue) <= Capacity
  /\ registry \subseteq Workflow
  /\ seen \subseteq Workflow \X Target
  /\ logged \subseteq Workflow \X Seq(Workflow)
  /\ ring \in Seq(Decision) /\ Len(ring) <= RingSize
  /\ stopped \in BOOLEAN
  /\ ingests \subseteq Ingest
  /\ published \in 0..MaxPublish
  /\ pc \in [Runner -> PC]
  /\ ev \in [Runner -> Event]
  /\ todo \in [Runner -> SUBSET Workflow]
  /\ rest \in [Runner -> SUBSET Workflow]
  /\ wf \in [Runner -> Workflow \cup {NoWorkflow}]
  /\ step \in [Runner -> Nat \ {0}]
  /\ claimed \in [Runner -> BOOLEAN]
  /\ result \in [Runner -> Decision \cup {NoDecision}]
  /\ ran \in [Runner -> Seq(Evaluation)]
  /\ fires \in [Workflow \X Target -> 0..2]

\* applyDedupPolicy, "dispatch only on the FIRST fire": under the skip policy
\* the actions of a workflow start at most once for a key, although the
\* worker and any number of dispatches evaluate it at the same time.
SkipDispatchesOnce ==
  \A w \in Workflow, e \in Target : Def[w].dedup = "skip" => fires[<<w, e>>] <= 1

\* runChain and processEvent: a claim is the last thing that happens to an
\* event; no workflow of either pass is evaluated on it afterwards.
ClaimEndsEvent ==
  \A r \in Runner : \A i \in 1..Len(ran[r]) :
    ran[r][i].claimed => i = Len(ran[r])

\* processEvent's order: files in order within a pass, regular workflows
\* before catch-alls, and never a wildcard next to a kind-specific one.
PassOrder ==
  \A i, j \in 1..Len(ran[Worker]) : i < j =>
    LET v == ran[Worker][i].wf  w == ran[Worker][j].wf
    IN  /\ Def[v].catchAll => Def[w].catchAll
        /\ Def[v].catchAll = Def[w].catchAll => Def[v].file < Def[w].file
        /\ Def[v].catchAll /\ Def[w].catchAll => Wildcard(v) = Wildcard(w)

\* applyCycleCheck, "firing it again would close a loop": the actions of a workflow never run
\* on an event that one of its own firings led to, over however many
\* workflows in between.
NoSelfCascade ==
  \A r \in Runner :
    pc[r] \in {"acting", "publishing", "awaiting"} => wf[r] \notin ev[r].cause

\* The events of a cascade run out: whatever is published from outside, the
\* worker comes to rest with an empty queue unless it is shut down.
CascadeEnds == <>[](stopped \/ (queue = <<>> /\ pc[Worker] = "idle"))

\* What an event goes through.
HandlingOrder == ClaimEndsEvent /\ PassOrder

\* Shutdown waits for the worker, which may be in the middle of an action
\* list and blocked on its own full queue: it always exits.
ShutdownEnds == stopped ~> (pc[Worker] = "exited")

\* wait: whoever waits for an ingest gets an answer, also the worker whose
\* own queue is so full that the ingest it waits for cannot publish.
WaitEnds ==
  \A r \in Runner :
    (pc[r] \in {"awaiting", "resolving"}) ~> (pc[r] \notin {"awaiting", "resolving"})

\* Whoever waits gets on, for an ingest or for room in the queue.
BlockedCallsEnd == ShutdownEnds /\ WaitEnds

\* Handler: "Handlers MUST return quickly (... no blocking calls)": a runner
\* that publishes gets past enqueueEvent.
HandlerReturns ==
  \A r \in Runner : (pc[r] = "publishing") ~> (pc[r] # "publishing")
=============================================================================
