----------------------------- MODULE EdgeWrites -----------------------------
(***************************************************************************)
(* Edges and what they start.  An edge onto a label whose kind has a        *)
(* resolver plugin makes edgewrite.Service ask the plugin for the label, on *)
(* the writer's goroutine; the plugin's answer is persisted by a runner of  *)
(* the ingest tracker, which writes edges through the same service.         *)
(*                                                                         *)
(* Clients post and rewrite edges, fill a gap with a label, delete labels   *)
(* and run add_canonical_edge.  A fill has one target and its file is left   *)
(* out (EntityEdits), a task is there or not (TaskFiles), a fetch has one   *)
(* envelope (IngestTracker).  Reads of the store succeed.                   *)
(***************************************************************************)
EXTENDS Naturals, Sequences, FiniteSets

CONSTANTS Label,     \* ids of the kind that has a resolver plugin
          Plain,     \* ids of other canonical kinds
          Lazy,      \* those of them whose rows the daemon makes when an edge needs one
          Source,    \* ids of the plugins' own kinds
          Present,   \* entities that are stored at the start
          EdgeType,
          Client,    \* callers that are under way at once
          Fetch,     \* bound: runners of the tracker, and records somebody waits for
          Request,   \* what clients ask for
          Upstream,  \* what the plugin may answer to a label
          MaxCalls,  \* bound: calls of clients
          MaxSlow,   \* bound: waits that time out though the awaited runner gets on, failing task writes
          None

Id == Label \cup Plain \cup Source
Canonical == Label \cup Plain
Actor == Client \cup Fetch

\* flag: allow_unresolved of a fill, an action's name that carries the kind's prefix.
Requests == [kind : {"post", "rewrite", "fill", "action", "delete"}, type : EdgeType,
             from : Id, to : Id, old : Id, flag : BOOLEAN]
\* The entity of the envelope, a source row or the label itself (resolveCanonicalTarget), and
\* the targets of its edges; or nothing.
Answers == [entity : Label \cup Source \cup {None}, links : Seq(Id), options : BOOLEAN]

ASSUME IdAssumption ==
  /\ Label \cap Plain = {} /\ Canonical \cap Source = {}
  /\ Lazy \subseteq Plain /\ Present \subseteq Id /\ None \notin Id \cup Actor
  /\ {"options", "error"} \cap (Id \cup {None}) = {}
ASSUME ActorAssumption == Client \cap Fetch = {} /\ IsFiniteSet(Actor)
ASSUME InputAssumption ==
  Request \subseteq Requests /\ Upstream \in [Label -> SUBSET Answers] /\ {MaxCalls, MaxSlow} \subseteq Nat

VARIABLES row,    \* the entities table: nothing, a thin row, one with data, a thin one that had data
          edges,  \* the edges table
          lock,   \* writelocks.Manager
          tasks,  \* err-tasks and resolution tasks
          tried,  \* labels a dispatch ended with: what the plugin made of its target, or the target;
                  \* those a client deleted or cut off since are forgotten
          job,    \* what every client and every runner is doing
          calls,  \* calls so far
          slow    \* waits that have timed out on a runner that gets on, task writes that have failed

vars == <<row, edges, lock, tasks, tried, job, calls, slow>>

Rows == {"none", "thin", "full", "wiped"}
Idle == [pc |-> "idle", kind |-> "none", type |-> None, from |-> None, to |-> None, old |-> None,
         flag |-> FALSE, todo |-> <<>>, thin |-> <<>>, target |-> None, then |-> "none",
         waits |-> None, lost |-> FALSE, result |-> None]
Pc == {"idle", "lock", "gate", "recheck", "clear", "rewrite", "delete", "resolved", "ensure", "upsert",
       "edge", "probe", "begin", "wait", "fetch", "persist", "settle", "settled"}

TypeOK ==
  /\ row \in [Id -> Rows]
  /\ edges \subseteq EdgeType \X Id \X Id
  /\ lock \in [Id -> Actor \cup {None}]
  /\ tasks \subseteq {"err", "resolution"} \X Label
  /\ tried \subseteq Label
  /\ calls \in 0..MaxCalls /\ slow \in 0..MaxSlow
  /\ \A x \in Actor :
       /\ job[x].pc \in Pc
       /\ job[x].pc = "wait" <=> job[x].waits # None
       /\ job[x].waits # None => job[x].waits \in Fetch /\ job[job[x].waits].pc # "idle"
       \* A fill and a runner that has a file to write hold their entity.
       /\ \A e \in Id : lock[e] = x => job[x].from = e /\ job[x].pc \notin {"idle", "settled"}
  \* The tracker's key collapses the fetches of a label.
  /\ \A f, g \in Fetch :
       f # g /\ {job[f].pc, job[g].pc} \cap {"idle", "settled"} = {} => job[f].to # job[g].to
  \* The edges table has foreign keys.
  /\ \A e \in edges : row[e[2]] # "none" /\ row[e[3]] # "none"

Init ==
  /\ row = [e \in Id |-> IF e \in Present THEN "full" ELSE "none"]
  /\ edges = {} /\ tasks = {} /\ tried = {} /\ calls = 0 /\ slow = 0
  /\ lock = [e \in Id |-> None]
  /\ job = [x \in Actor |-> Idle]

-----------------------------------------------------------------------------
\* A settled record goes with the last of its waiters.
Forget(jobs) ==
  [x \in Actor |-> IF jobs[x].pc = "settled" /\ \A y \in Actor : jobs[y].waits # x THEN Idle ELSE jobs[x]]
Put(x, j) == job' = Forget([job EXCEPT ![x] = j])
Unlock(x) == lock' = [e \in Id |-> IF lock[e] = x THEN None ELSE lock[e]]

\* A client's call ends.
Done(x) == Put(x, Idle) /\ Unlock(x)

\* CreateEdge of edgewrite.Service for each of todo, of store rows for each of thin before.
WriteEdges(j, from, thin, todo) ==
  [j EXCEPT !.pc = IF thin = <<>> THEN "edge" ELSE "ensure", !.from = from, !.thin = thin, !.todo = todo]

\* isLazyMaterializableKind.
LazyRow(e) == IF e \in Lazy THEN <<e>> ELSE <<>>

Starts(r) ==
  LET j == [Idle EXCEPT !.kind = r.kind, !.type = r.type, !.from = r.from, !.to = r.to,
                        !.old = r.old, !.flag = r.flag]
  IN CASE r.kind = "post" -> WriteEdges(j, r.from, LazyRow(r.to), <<r.to>>)
       [] r.kind = "rewrite" ->
            [j EXCEPT !.pc = IF LazyRow(r.to) = <<>> THEN "rewrite" ELSE "ensure", !.thin = LazyRow(r.to)]
       [] r.kind = "fill" -> [j EXCEPT !.pc = "lock"]
       [] r.kind = "delete" -> [j EXCEPT !.pc = "delete"]
       \* CreateCanonicalEdgeByName in auto mode; a prefixed name is an id.
       [] r.kind = "action" ->
            IF r.flag \/ r.to \notin Label THEN WriteEdges(j, r.from, <<r.to>>, <<r.to>>)
            ELSE [j EXCEPT !.pc = "begin", !.target = r.to, !.then = "resolved"]

Call(x, r) ==
  /\ job[x].pc = "idle" /\ calls < MaxCalls
  /\ calls' = calls + 1
  /\ Put(x, Starts(r))
  /\ UNCHANGED <<row, edges, lock, tasks, tried, slow>>

\* The labels that lose an edge of a plugin's entity when the edges shrink to left.
CutOff(left) == {d[3] : d \in {d \in edges \ left : d[2] \notin Canonical}}

\* UpdateEdgeTarget, one transaction: 409 if the edge is gone or the new one is there, 422 if
\* the target is missing.  It starts no fetch.
Rewrite(x) ==
  LET j == job[x]
      old == <<j.type, j.from, j.old>>
      new == <<j.type, j.from, j.to>>
  IN /\ j.pc = "rewrite"
     /\ edges' = IF old \in edges /\ new \notin edges /\ row[j.to] # "none"
                 THEN (edges \ {old}) \cup {new} ELSE edges
     /\ tried' = tried \ CutOff(edges')
     /\ Done(x)
     /\ UNCHANGED <<row, tasks, calls, slow>>

\* DELETE of an entity: its row, its edges, under its lock; whoever is about it is marked.
Delete(x) ==
  LET e == job[x].to
  IN /\ job[x].pc = "delete"
     /\ IF lock[e] # None THEN UNCHANGED <<row, edges, tried>> /\ Put(x, Idle)
        ELSE /\ row' = [row EXCEPT ![e] = "none"]
             /\ edges' = {d \in edges : e \notin {d[2], d[3]}}
             /\ tried' = tried \ ({e} \cup CutOff(edges'))
             /\ job' = [y \in Actor |-> IF y = x THEN Idle
                                        ELSE IF e \in {job[y].to, job[y].target, job[y].result}
                                        THEN [job[y] EXCEPT !.lost = TRUE] ELSE job[y]]
     /\ UNCHANGED <<lock, tasks, calls, slow>>

FillLock(x) ==
  LET j == job[x]
  IN /\ j.pc = "lock"
     /\ IF lock[j.from] # None \/ row[j.from] = "none" THEN Done(x)
        ELSE /\ lock' = [lock EXCEPT ![j.from] = x]
             /\ Put(x, [j EXCEPT !.pc = IF j.flag \/ j.to \notin Label THEN "clear" ELSE "gate"])
     /\ UNCHANGED <<row, edges, tasks, tried, calls, slow>>

\* Mutant: the gate looks at the outcome of the dispatch only.
Recheck_Trusts(x) ==
  LET j == job[x]
  IN /\ j.pc = "recheck"
     /\ Put(x, [j EXCEPT !.pc = "clear"])
     /\ UNCHANGED <<row, edges, lock, tasks, tried, calls, slow>>

\* checkCanonicalTypeResolverPlugins: a target without a row is fetched first...
Gate(x) ==
  LET j == job[x]
  IN /\ j.pc = "gate"
     /\ Put(x, IF row[j.to] # "none" THEN [j EXCEPT !.pc = "clear"]
               ELSE [j EXCEPT !.pc = "probe", !.target = j.to, !.then = "recheck"])
     /\ UNCHANGED <<row, edges, lock, tasks, tried, calls, slow>>

\* ... and looked up again: 422 if there still is none.
Recheck(x) ==
  LET j == job[x]
  IN /\ j.pc = "recheck"
     /\ IF row[j.to] # "none" THEN Put(x, [j EXCEPT !.pc = "clear"]) /\ UNCHANGED lock ELSE Done(x)
     /\ UNCHANGED <<row, edges, tasks, tried, calls, slow>>

\* The file is written; applyCanonicalTypeEdges replaces the edges of the field.
FillClear(x) ==
  LET j == job[x]
  IN /\ j.pc = "clear"
     /\ edges' = {e \in edges : <<e[1], e[2]>> # <<j.type, j.from>>}
     /\ tried' = tried \ CutOff(edges')
     /\ Put(x, WriteEdges(j, j.from, <<j.to>>, <<j.to>>))
     /\ UNCHANGED <<row, lock, tasks, calls, slow>>

-----------------------------------------------------------------------------
(* Thin rows: EnsureLabelRow, ensureTargetRow, materializeThinLabelRowsFromEdges. *)

\* The row is there, or has just been made.
Ensured(j) ==
  LET rest == Tail(j.thin)
  IN [j EXCEPT !.thin = rest,
               !.pc = IF rest # <<>> THEN "ensure" ELSE IF j.kind = "rewrite" THEN "rewrite" ELSE "edge"]

ProbeRow(x) ==
  LET j == job[x]
  IN /\ j.pc = "ensure"
     /\ Put(x, IF row[Head(j.thin)] # "none" THEN Ensured(j) ELSE [j EXCEPT !.pc = "upsert"])
     /\ UNCHANGED <<row, edges, lock, tasks, tried, calls, slow>>

\* UpsertEntity without data, whatever the row holds by now.
UpsertThin(x) ==
  LET j == job[x]
  IN /\ j.pc = "upsert"
     /\ row' = [row EXCEPT ![Head(j.thin)] = IF @ \in {"full", "wiped"} THEN "wiped" ELSE "thin"]
     /\ Put(x, Ensured(j))
     /\ UNCHANGED <<edges, lock, tasks, tried, calls, slow>>

-----------------------------------------------------------------------------
(* Edges and dispatches.                                                     *)

\* The store's CreateEdge; a client's answer is 422, a runner drops the edge.
EdgeRefused(x) ==
  LET j == job[x]
  IN /\ j.pc = "edge" /\ j.todo # <<>>
     /\ "none" \in {row[j.from], row[Head(j.todo)]}
     /\ IF x \in Client THEN Done(x) ELSE Put(x, [j EXCEPT !.todo = Tail(@)]) /\ UNCHANGED lock
     /\ UNCHANGED <<row, edges, tasks, tried, calls, slow>>

\* fromKindIsCanonical is the recursion break.
CreateEdge(x) ==
  LET j == job[x]
      to == Head(j.todo)
  IN /\ j.pc = "edge" /\ j.todo # <<>>
     /\ "none" \notin {row[j.from], row[to]}
     /\ edges' = edges \cup {<<j.type, j.from, to>>}
     /\ Put(x, IF j.from \in Canonical /\ to \in Label
               THEN [j EXCEPT !.todo = Tail(@), !.pc = "probe", !.target = to, !.then = "edge"]
               ELSE [j EXCEPT !.todo = Tail(@)])
     /\ UNCHANGED <<row, lock, tasks, tried, calls, slow>>

\* All edges are written: the client has its answer, the runner leaves persistEnvelope.
EdgesDone(x) ==
  LET j == job[x]
  IN /\ j.pc = "edge" /\ j.todo = <<>>
     /\ IF x \in Client THEN Done(x)
        ELSE Put(x, [j EXCEPT !.pc = "settle", !.result = j.from]) /\ Unlock(x)
     /\ UNCHANGED <<row, edges, tasks, tried, calls, slow>>

\* hasPluginSourceIncomingEdge.
Connected(e) == \E d \in edges : d[3] = e /\ d[2] \notin Canonical

\* MaybeDispatchResolverAutoFetch up to its last early return.
ProbeSource(x) ==
  LET j == job[x]
  IN /\ j.pc = "probe"
     /\ Put(x, IF Connected(j.target) THEN [j EXCEPT !.pc = j.then, !.target = None, !.then = "none"]
               ELSE [j EXCEPT !.pc = "begin"])
     /\ UNCHANGED <<row, edges, lock, tasks, tried, calls, slow>>

\* Mutant: no byInvocationKey.
Runner_None(e) == {}

\* byInvocationKey: the runner whose record is pending.
Runner(e) == {f \in Fetch : job[f].to = e /\ job[f].pc \notin {"idle", "settled"}}

\* IngestByName and beginAttempt: join the runner of the label, or start one.
Begin(x) ==
  LET j == job[x]
      free == {f \in Fetch : job[f].pc = "idle"}
      f == CHOOSE f \in IF Runner(j.target) # {} THEN Runner(j.target) ELSE free : TRUE
  IN /\ j.pc = "begin"
     /\ Runner(j.target) \cup free # {}
     /\ job' = [job EXCEPT
          ![x] = [j EXCEPT !.pc = "wait", !.waits = f],
          ![f] = IF Runner(j.target) # {} THEN @
                 ELSE [Idle EXCEPT !.pc = "fetch", !.kind = "fetch", !.type = j.type, !.to = j.target]]
     /\ UNCHANGED <<row, edges, lock, tasks, tried, calls, slow>>

\* The answer of a dispatch: a task, and on to what the writer was about; that of
\* add_canonical_edge: a resolution task, or an error, which ends the action.  A task that
\* cannot be written is logged and forgotten.
Ended(x, outcome, spent) ==
  LET j == job[x]
      task == CASE outcome = "options" -> {<<"resolution", j.target>>}
                [] outcome = "error" /\ j.then # "resolved" -> {<<"err", j.target>>}
                [] OTHER -> {}
  IN \E written \in SUBSET task :
     /\ tasks' = tasks \cup written
     /\ slow' = spent + (IF written = task THEN 0 ELSE 1) /\ slow' <= MaxSlow
     /\ IF j.then = "resolved"
        THEN /\ IF outcome \in {"options", "error"} THEN Put(x, Idle)
                ELSE Put(x, [j EXCEPT !.pc = "resolved", !.to = outcome, !.target = None,
                                      !.then = "none", !.waits = None])
             /\ UNCHANGED tried
        ELSE /\ Put(x, [j EXCEPT !.pc = j.then, !.target = None, !.then = "none", !.waits = None])
             /\ tried' = IF j.lost \/ job[j.waits].lost \/ written # task THEN tried
                         ELSE tried \cup {IF outcome \in Id THEN outcome ELSE j.target}

\* resolveCanonicalTarget: the entity itself or a label it has an edge to.
Targets(e) == IF e \in Label THEN {e} ELSE {d[3] : d \in {d \in edges : d[2] = e /\ d[3] \in Label}}

Outcomes(result) ==
  IF result \in {"options", "error"} THEN {result}
  ELSE IF Targets(result) = {} THEN {"error"} ELSE Targets(result)

\* Mutant: options are no error, and nobody writes their task.
Answered_NoTask(x) ==
  LET j == job[x]
  IN /\ j.pc = "wait" /\ job[j.waits].pc = "settled"
     /\ \E o \in Outcomes(job[j.waits].result) :
          IF o = "options"
          THEN Put(x, [j EXCEPT !.pc = IF j.then = "resolved" THEN "idle" ELSE j.then, !.target = None,
                                !.then = "none", !.waits = None])
               /\ tried' = tried \cup {j.target} /\ UNCHANGED tasks
               /\ UNCHANGED slow
          ELSE Ended(x, o, slow)
     /\ UNCHANGED <<row, edges, lock, calls>>

Answered(x) ==
  LET j == job[x]
  IN /\ j.pc = "wait" /\ job[j.waits].pc = "settled"
     /\ \E o \in Outcomes(job[j.waits].result) : Ended(x, o, slow)
     /\ UNCHANGED <<row, edges, lock, calls>>

\* Runners that wait for one another.
Stuck(f) == \E S \in SUBSET Fetch : f \in S /\ \A g \in S : job[g].pc = "wait" /\ job[g].waits \in S

\* Mutant: no timeout.
TimedOut_Never(x) == FALSE /\ UNCHANGED vars

\* defaultResolverTimeout.  The plugin's own timeout is no longer, so that as a rule only
\* runners that wait for one another last that long.
TimedOut(x) ==
  /\ job[x].pc = "wait"
  /\ Ended(x, "error", IF Stuck(job[x].waits) THEN slow ELSE slow + 1)
  /\ UNCHANGED <<row, edges, lock, calls>>

\* CreateCanonicalEdgeByName writes the resolved edge to the store itself.
ResolvedEdge(x) ==
  LET j == job[x]
  IN /\ j.pc = "resolved"
     /\ edges' = IF "none" \in {row[j.from], row[j.to]} THEN edges ELSE edges \cup {<<j.type, j.from, j.to>>}
     /\ Done(x)
     /\ UNCHANGED <<row, tasks, tried, calls, slow>>

-----------------------------------------------------------------------------
(* Runners.                                                                  *)

\* The plugin answers: an envelope, options, or nothing.
Fetched(f) ==
  LET j == job[f]
  IN /\ j.pc = "fetch"
     /\ \E a \in Upstream[j.to] :
          Put(f, IF a.entity = None
                 THEN [j EXCEPT !.pc = "settle", !.result = IF a.options THEN "options" ELSE "error"]
                 ELSE [j EXCEPT !.pc = "persist", !.from = a.entity, !.todo = a.links, !.thin = a.links])
     /\ UNCHANGED <<row, edges, lock, tasks, tried, calls, slow>>

\* persistEnvelope: the lock or an error, the file, the row.
Persist(f) ==
  LET j == job[f]
  IN /\ j.pc = "persist"
     /\ IF lock[j.from] # None
        THEN /\ Put(f, [j EXCEPT !.pc = "settle", !.result = "error", !.from = None, !.todo = <<>>, !.thin = <<>>])
             /\ UNCHANGED <<row, lock, calls>>
        ELSE /\ lock' = [lock EXCEPT ![j.from] = f]
             /\ row' = [row EXCEPT ![j.from] = "full"]
             /\ Put(f, WriteEdges(j, j.from, j.thin, j.todo))
     /\ UNCHANGED <<edges, tasks, tried, calls, slow>>

\* The record settles and its key goes.
Settle(f) ==
  /\ job[f].pc = "settle"
  /\ Put(f, [job[f] EXCEPT !.pc = "settled", !.from = None, !.to = None, !.type = None])
  /\ UNCHANGED <<row, edges, lock, tasks, tried, calls, slow>>

Step(x) ==
  \/ Rewrite(x) \/ Delete(x) \/ FillLock(x) \/ Gate(x) \/ Recheck(x) \/ FillClear(x)
  \/ ProbeRow(x) \/ UpsertThin(x)
  \/ EdgeRefused(x) \/ CreateEdge(x) \/ EdgesDone(x)
  \/ ProbeSource(x) \/ Begin(x) \/ Answered(x) \/ TimedOut(x) \/ ResolvedEdge(x)
Runs(f) == Fetched(f) \/ Persist(f) \/ Settle(f)

Next ==
  \/ \E c \in Client, r \in Request : Call(c, r)
  \/ \E x \in Actor : Step(x)
  \/ \E f \in Fetch : Runs(f)

Spec == Init /\ [][Next]_vars
\* A handler, an action and a runner have goroutines of their own, and a plugin a timeout.
FairSpec == Spec /\ (\A x \in Actor : WF_vars(Step(x))) /\ (\A f \in Fetch : WF_vars(Runs(f)))

-----------------------------------------------------------------------------
(* Properties.                                                               *)

\* A dispatch that has ended leaves a label that a plugin's entity points at or is, or a
\* task that tells the operator (auto_fetch.go, "Outcomes"); labels that a client deleted while
\* it went on, or deleted or cut off from the plugin's entity since, are not in tried, nor those
\* whose task could not be written: auto_fetch.go:254 calls that best effort.
DispatchLeavesTrace ==
  \A e \in tried :
    \/ Connected(e) \/ row[e] \in {"full", "wiped"}
    \/ {<<"err", e>>, <<"resolution", e>>} \cap tasks # {}

\* Only plugins introduce labels of a kind that has a resolver (canonical_edges.go:498): a
\* fill that was not allowed otherwise makes no row for one, but for the row it had found
\* and that was deleted under it.
GateHolds ==
  [][\A c \in Client :
       LET j == job[c]
       IN j.kind = "fill" /\ ~j.flag /\ j.pc = "upsert" /\ Head(j.thin) \in Label /\ job'[c].pc # "upsert"
            => j.lost]_vars

\* Every call is answered and every fetch ends, also when labels the plugin answers with
\* point at one another and their runners wait in a ring.
CallsEnd == \A x \in Actor : []<>(job[x].pc = "idle")
=============================================================================
