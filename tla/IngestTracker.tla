--------------------------- MODULE IngestTracker ---------------------------
(***************************************************************************)
(* internal/api/ingest_tracker.go: requests for a URL share one runner     *)
(* while its record is pending.  The runner streams envelopes from the     *)
(* plugin and persists each one under the entity's write lock: the vault   *)
(* file first, then the rows derived from it; the events it queues are     *)
(* published after the lock is gone.  The first envelope settles the       *)
(* record, and the stream goes on behind it.                               *)
(*                                                                         *)
(* A record and its runner are named after the request that began them.    *)
(* A row is "thin" when another entity's edge materialised it, "full" when *)
(* it carries a plugin's data.  An envelope carries one notation, the URL. *)
(***************************************************************************)
EXTENDS Naturals, FiniteSets

CONSTANTS Request, Url, Entity, None,
          Resolves,     \* the entities a URL's plugin may emit
          Label,        \* the canonical ids its edges may point at
          MaxEnvelopes  \* bound: envelopes per stream

ASSUME NoneAssumption == None \notin Request \cup Url \cup Entity
ASSUME ResolvesAssumption == Resolves \in [Url -> SUBSET Entity]
ASSUME LabelAssumption == Label \subseteq Entity
ASSUME MaxEnvelopesAssumption == MaxEnvelopes \in Nat \ {0}

VARIABLES request,         \* the handlers: the URL asked for, the record
          byInvocationKey, \* ingestTracker.byInvocationKey
          record,          \* ingestRecord.state
          closed,          \* history: closes of ingestRecord.transition
          run,             \* the runner goroutines
          locked,          \* writelocks.Manager: who writes the entity
          vault,           \* provenance kept in the entity's vault file
          row,             \* the entities table
          notation,        \* the entity_notations table
          edges,           \* the edges table
          told,            \* history: what the bus was told
          unprobed         \* history: rows created after a failed probe

tracker == <<byInvocationKey, record, closed>>
store == <<row, notation, edges>>
hist == <<told, unprobed>>
vars == <<request, tracker, run, locked, vault, store, hist>>

\* "found": complete or needs_fill; "nothing": disambiguation or not_found.
Terminal == {"found", "nothing", "failed"}

\* wait only reads the record, and its caller may be gone before it settles;
\* a request that the cache answers waits on nothing.
Requests == [url : Url \cup {None}, on : Request \cup {None}]

\* The places where a runner lets others in.
Steps == {"none", "stream", "acquire", "read", "write", "probe", "upsert",
          "index", "labels", "thin", "release", "settle", "done"}

\* n: envelopes so far; todo: targets without a row yet; at: the target
\* probed last; old: the vault file read; fresh: what the probe said;
\* owed: queued events; failed: persistEnvelope returned an error.
Runner == [pc : Steps, n : 0..MaxEnvelopes, e : Entity \cup {None},
           cites : SUBSET Label, todo : SUBSET Label, at : Label \cup {None},
           old : SUBSET (Request \X (1..MaxEnvelopes)),
           fresh : {"new", "known", "unknown"},
           owed : SUBSET (Entity \cup (Entity \X Label)), failed : BOOLEAN]

Blank == [pc |-> "none", n |-> 0, e |-> None, cites |-> {}, todo |-> {},
          at |-> None, old |-> {}, fresh |-> "unknown", owed |-> {},
          failed |-> FALSE]

Init ==
  /\ request = [q \in Request |-> [url |-> None, on |-> None]]
  /\ byInvocationKey = [u \in Url |-> None]
  /\ record = [r \in Request |-> "none"]
  /\ closed = [r \in Request |-> 0]
  /\ run = [r \in Request |-> Blank]
  /\ locked = [e \in Entity |-> None]
  /\ vault = [e \in Entity |-> {}]
  /\ row = [e \in Entity |-> "absent"]
  /\ notation = [u \in Url |-> None]
  /\ edges = {} /\ told = {} /\ unprobed = {}

----------------------------------------------------------------------------
\* The handlers.  A request may miss the cache although the notation is
\* there: force_refetch, or past cache_expires.
New(q) == request[q].url = None

CacheHit(q, u) ==
  /\ New(q) /\ notation[u] # None /\ row[notation[u]] # "absent"
  /\ request' = [request EXCEPT ![q] = [url |-> u, on |-> None]]
  /\ UNCHANGED <<tracker, run, locked, vault, store, hist>>

Start(q, u) ==
  /\ New(q) /\ byInvocationKey[u] = None
  /\ request' = [request EXCEPT ![q] = [url |-> u, on |-> q]]
  /\ record' = [record EXCEPT ![q] = "pending"]
  /\ byInvocationKey' = [byInvocationKey EXCEPT ![u] = q]
  /\ run' = [run EXCEPT ![q].pc = "stream"]
  /\ UNCHANGED <<closed, locked, vault, store, hist>>

Join(q, u) ==
  /\ New(q) /\ byInvocationKey[u] # None
  /\ request' = [request EXCEPT ![q] = [url |-> u, on |-> byInvocationKey[u]]]
  /\ UNCHANGED <<tracker, run, locked, vault, store, hist>>

----------------------------------------------------------------------------
\* The stream.
At(r, pc) == run[r].pc = pc
Goto(r, pc) == run' = [run EXCEPT ![r].pc = pc]

\* Mutated: the key survives the record's terminal state.
Close_KeepKey(r, state) ==
  /\ record' = [record EXCEPT ![r] = state]
  /\ closed' = [closed EXCEPT ![r] = @ + 1]
  /\ UNCHANGED byInvocationKey

\* The terminal state, the key and the channel change in one critical
\* section; the key only goes if it still names this record.
Close(r, state) ==
  /\ record' = [record EXCEPT ![r] = state]
  /\ closed' = [closed EXCEPT ![r] = @ + 1]
  /\ byInvocationKey' = [u \in Url |-> IF byInvocationKey[u] = r THEN None
                                       ELSE byInvocationKey[u]]

\* An envelope without an entity to persist: disambiguation, all-empty or
\* unusable.  Only a first one counts.
EmitNothing(r) ==
  /\ At(r, "stream") /\ run[r].n < MaxEnvelopes
  /\ run' = [run EXCEPT ![r].n = @ + 1]
  /\ IF run[r].n = 0
       THEN \E state \in {"nothing", "failed"} : Close(r, state)
       ELSE UNCHANGED tracker
  /\ UNCHANGED <<request, locked, vault, store, hist>>

Emit(r) ==
  /\ At(r, "stream") /\ run[r].n < MaxEnvelopes
  /\ \E e \in Resolves[request[r].url] : \E cites \in SUBSET (Label \ {e}) :
       run' = [run EXCEPT ![r].pc = "acquire", ![r].n = @ + 1, ![r].e = e,
                          ![r].cites = cites, ![r].todo = cites]
  /\ UNCHANGED <<request, tracker, locked, vault, store, hist>>

\* Mutated: a clean end is always taken for the end of an answered stream.
StreamEnds_Silent(r) ==
  /\ At(r, "stream") /\ Goto(r, "done")
  /\ UNCHANGED <<request, tracker, locked, vault, store, hist>>

StreamEnds(r) ==
  /\ At(r, "stream") /\ Goto(r, "done")
  /\ IF run[r].n = 0 THEN Close(r, "nothing") ELSE UNCHANGED tracker
  /\ UNCHANGED <<request, locked, vault, store, hist>>

\* Mutated: an error fails the record whether or not it was settled.
StreamFails_Always(r) ==
  /\ At(r, "stream") /\ Goto(r, "done")
  /\ Close(r, "failed")
  /\ UNCHANGED <<request, locked, vault, store, hist>>

StreamFails(r) ==
  /\ At(r, "stream") /\ Goto(r, "done")
  /\ IF run[r].n = 0 THEN Close(r, "failed") ELSE UNCHANGED tracker
  /\ UNCHANGED <<request, locked, vault, store, hist>>

----------------------------------------------------------------------------
\* persistEnvelope, one step per point where another writer may come in.

\* Mutated: the lock is not asked for.
Acquire_Always(r) ==
  /\ At(r, "acquire") /\ Goto(r, "read")
  /\ UNCHANGED <<request, tracker, locked, vault, store, hist>>

Acquire(r) ==
  /\ At(r, "acquire") /\ locked[run[r].e] = None
  /\ locked' = [locked EXCEPT ![run[r].e] = r]
  /\ Goto(r, "read")
  /\ UNCHANGED <<request, tracker, vault, store, hist>>

Conflict(r) ==
  /\ At(r, "acquire") /\ locked[run[r].e] # None
  /\ run' = [run EXCEPT ![r].pc = "settle", ![r].failed = TRUE]
  /\ UNCHANGED <<request, tracker, locked, vault, store, hist>>

\* writeIngestVaultFile: read, merge, replace the file.
ReadVault(r) ==
  /\ At(r, "read")
  /\ run' = [run EXCEPT ![r].pc = "write", ![r].old = vault[run[r].e]]
  /\ UNCHANGED <<request, tracker, locked, vault, store, hist>>

WriteVault(r) ==
  /\ At(r, "write") /\ Goto(r, "probe")
  /\ vault' = [vault EXCEPT ![run[r].e] = run[r].old \cup {<<r, run[r].n>>}]
  /\ UNCHANGED <<request, tracker, locked, store, hist>>

\* preUpsertSnapshot.
Probe(r) ==
  /\ At(r, "probe")
  /\ \E fresh \in {IF row[run[r].e] = "absent" THEN "new" ELSE "known", "unknown"} :
       run' = [run EXCEPT ![r].pc = "upsert", ![r].fresh = fresh]
  /\ UNCHANGED <<request, tracker, locked, vault, store, hist>>

UpsertEntity(r) ==
  /\ At(r, "upsert")
  /\ row' = [row EXCEPT ![run[r].e] = "full"]
  /\ run' = [run EXCEPT ![r].pc = "index",
                        ![r].owed = IF run[r].fresh = "new" THEN {run[r].e} ELSE {}]
  /\ unprobed' = IF run[r].fresh = "unknown" /\ row[run[r].e] = "absent"
                   THEN unprobed \cup {run[r].e} ELSE unprobed
  /\ UNCHANGED <<request, tracker, locked, vault, notation, edges, told>>

\* ReplaceNotations: the entity's other notations go.
Notations(r) ==
  [u \in Url |-> IF u = request[r].url THEN run[r].e
                 ELSE IF notation[u] = run[r].e THEN None ELSE notation[u]]

\* AppendProvenance, ReplaceNotations (when the envelope has any) and
\* ReplaceAliases.
Index(r) ==
  /\ At(r, "index") /\ Goto(r, "labels")
  /\ notation' \in {notation, Notations(r)}
  /\ UNCHANGED <<request, tracker, locked, vault, row, edges, hist>>

\* Mutated: a vault write that fails is only a warning.
PersistFails_VaultWarns(r) ==
  /\ run[r].pc \in {"read", "write", "upsert", "index"}
  /\ run' = [run EXCEPT ![r].pc = IF At(r, "write") THEN "probe" ELSE "release",
                        ![r].failed = ~At(r, "write")]
  /\ UNCHANGED <<request, tracker, locked, vault, store, hist>>

\* An error aborts the stream; what was written before it stays.
PersistFails(r) ==
  /\ run[r].pc \in {"read", "write", "upsert", "index"}
  /\ run' = [run EXCEPT ![r].pc = "release", ![r].failed = TRUE]
  /\ \/ UNCHANGED notation
     \/ At(r, "index") /\ notation' = Notations(r)
  /\ UNCHANGED <<request, tracker, locked, vault, row, edges, hist>>

----------------------------------------------------------------------------
\* materializeThinLabelRowsFromEdges: nobody holds the target's lock.
ProbeLabel(r, t) ==
  /\ At(r, "labels") /\ t \in run[r].todo
  /\ run' = IF row[t] = "absent"
              THEN [run EXCEPT ![r].pc = "thin", ![r].at = t, ![r].todo = @ \ {t}]
              ELSE [run EXCEPT ![r].todo = @ \ {t}]
  /\ UNCHANGED <<request, tracker, locked, vault, store, hist>>

\* A kind the operator did not enable, or a probe that fails.
SkipLabel(r, t) ==
  /\ At(r, "labels") /\ t \in run[r].todo
  /\ run' = [run EXCEPT ![r].todo = @ \ {t}]
  /\ UNCHANGED <<request, tracker, locked, vault, store, hist>>

UpsertThin(r) ==
  /\ At(r, "thin")
  /\ row' = [row EXCEPT ![run[r].at] = "thin"]
  /\ run' = [run EXCEPT ![r].pc = "labels", ![r].owed = @ \cup {run[r].at},
                        ![r].at = None]
  /\ UNCHANGED <<request, tracker, locked, vault, notation, edges, hist>>

UpsertThinFails(r) ==
  /\ At(r, "thin")
  /\ run' = [run EXCEPT ![r].pc = "labels", ![r].at = None]
  /\ UNCHANGED <<request, tracker, locked, vault, store, hist>>

\* persistCanonicalEdges: an edge lands if its target has a row, and is
\* dropped if its type is not enabled or the write fails.
PersistEdges(r) ==
  /\ At(r, "labels") /\ run[r].todo = {}
  /\ \E kept \in SUBSET {t \in run[r].cites : row[t] # "absent"} :
       /\ edges' = edges \cup ({run[r].e} \X kept)
       /\ run' = [run EXCEPT ![r].pc = "release",
                             ![r].owed = @ \cup ({run[r].e} \X kept)]
  /\ UNCHANGED <<request, tracker, locked, vault, row, notation, hist>>

\* The deferred calls, last in first out: release, then Drain.
Release(r) ==
  /\ At(r, "release") /\ Goto(r, "settle")
  /\ locked' = [e \in Entity |-> IF locked[e] = r THEN None ELSE locked[e]]
  /\ UNCHANGED <<request, tracker, vault, store, hist>>

Outcome(r) == IF run[r].failed THEN "failed" ELSE "found"

\* After one envelope the stream goes on, unless persisting it failed.
Rest(r) ==
  [Blank EXCEPT !.n = run[r].n,
                !.pc = IF run[r].failed THEN "done" ELSE "stream"]

\* Mutated: the queue is dropped with the error.
Settle_DropQueue(r) ==
  /\ At(r, "settle")
  /\ told' = IF run[r].failed THEN told ELSE told \cup run[r].owed
  /\ IF run[r].n = 1 THEN Close(r, Outcome(r)) ELSE UNCHANGED tracker
  /\ run' = [run EXCEPT ![r] = Rest(r)]
  /\ UNCHANGED <<request, locked, vault, store, unprobed>>

\* Drain publishes on every path, before the record settles.
Settle(r) ==
  /\ At(r, "settle")
  /\ told' = told \cup run[r].owed
  /\ IF run[r].n = 1 THEN Close(r, Outcome(r)) ELSE UNCHANGED tracker
  /\ run' = [run EXCEPT ![r] = Rest(r)]
  /\ UNCHANGED <<request, locked, vault, store, unprobed>>

----------------------------------------------------------------------------
RunnerStep(r) ==
  \/ EmitNothing(r) \/ Emit(r) \/ StreamEnds(r) \/ StreamFails(r)
  \/ Acquire(r) \/ Conflict(r) \/ ReadVault(r) \/ WriteVault(r) \/ Probe(r)
  \/ UpsertEntity(r) \/ Index(r) \/ PersistFails(r)
  \/ \E t \in Label : ProbeLabel(r, t) \/ SkipLabel(r, t)
  \/ UpsertThin(r) \/ UpsertThinFails(r) \/ PersistEdges(r)
  \/ Release(r) \/ Settle(r)

HandlerStep(q) ==
  \E u \in Url : CacheHit(q, u) \/ Start(q, u) \/ Join(q, u)

Next == \E q \in Request : HandlerStep(q) \/ RunnerStep(q)

Spec == Init /\ [][Next]_vars

\* A runner is a goroutine that waits for no lock, and the plugin's
\* subprocess has a timeout.
FairSpec == Spec /\ \A r \in Request : WF_vars(RunnerStep(r))

----------------------------------------------------------------------------
\* Every variable has its type.
TypeOK ==
  /\ request \in [Request -> Requests]
  /\ byInvocationKey \in [Url -> Request \cup {None}]
  /\ record \in [Request -> Terminal \cup {"none", "pending"}]
  /\ closed \in [Request -> 0..1]
  /\ run \in [Request -> Runner]
  /\ locked \in [Entity -> Request \cup {None}]
  /\ vault \in [Entity -> SUBSET (Request \X (1..MaxEnvelopes))]
  /\ row \in [Entity -> {"absent", "thin", "full"}]
  /\ notation \in [Url -> Entity \cup {None}]
  /\ edges \subseteq Entity \X Label
  /\ told \subseteq Entity \cup (Entity \X Label)
  /\ unprobed \subseteq Entity

\* beginAttempt and clearInvocationKeyLocked: the key of a URL names the one
\* pending record of that URL and nothing else, so a request never joins a
\* runner whose answer is already out, and no URL has two pending runners.
KeyNamesPendingRecord ==
  \A u \in Url, r \in Request :
    byInvocationKey[u] = r <=> record[r] = "pending" /\ request[r].url = u

\* ingestRecord.transition is closed exactly when the record settles and
\* never again: a second close would panic.
ClosedOnce ==
  \A r \in Request : closed[r] = IF record[r] \in Terminal THEN 1 ELSE 0

\* A record settles once and gives up its key with that.
SettlesOnce == KeyNamesPendingRecord /\ ClosedOnce

\* persistEnvelope writes the vault file first: whatever fails afterwards, a
\* row with a plugin's data, and a notation that serves it from the cache,
\* always has its file.
FullRowHasFile ==
  /\ \A e \in Entity : row[e] = "full" => vault[e] # {}
  /\ \A u \in Url : notation[u] # None => vault[notation[u]] # {}

\* writeIngestVaultFile is a read, a merge and a write.  Under the entity's
\* lock no runner loses the provenance another one has added.
NoLostProvenance ==
  [][\A e \in Entity : vault[e] \subseteq vault'[e]]_vars

\* persistEnvelope queues its events before later steps can fail and Drain
\* runs on every path: when no runner is left, the bus was told of every
\* row (unless the probe before its upsert failed) and of every edge.
EveryRowIsTold ==
  (\A r \in Request : run[r].pc \in {"none", "done"}) =>
    /\ \A e \in Entity : row[e] # "absent" => e \in told \cup unprobed
    /\ edges \subseteq told

\* runPluginSimulation: however the stream ends, the record leaves pending,
\* so that its waiters are answered and its URL can be ingested again.
RecordSettles ==
  \A r \in Request : record[r] = "pending" ~> record[r] \in Terminal

----------------------------------------------------------------------------
(* The inductive invariant behind the safety properties. *)

\* The steps of persistEnvelope, those under the entity's lock, and those
\* behind a successful vault write.
Written == {"probe", "upsert", "index", "labels", "thin"}
Held == Written \cup {"read", "write", "release"}
Persisting == Held \cup {"acquire", "settle"}

\* The runner w is not done with its first envelope.
First(w) == \/ w.pc = "stream" /\ w.n = 0
            \/ w.pc \in Persisting /\ w.n = 1

\* A record is pending exactly that long.
PendingInv ==
  \A r \in Request :
    /\ record[r] = "none" <=> run[r].pc = "none"
    /\ run[r].pc = "none" => run[r].n = 0
    /\ run[r].pc # "none" => request[r].url \in Url
    /\ record[r] = "pending" <=> First(run[r])

\* In state w the runner of r holds the lock it needs and knows the file.
Fits(r, w) ==
  /\ w.pc \in Persisting => w.n # 0 /\ w.e \in Entity
  /\ w.pc \in Held => locked[w.e] = r
  /\ w.pc = "write" => w.old = vault[w.e]
  /\ w.pc \in Written => vault[w.e] # {}
  /\ w.pc = "thin" => w.at \in Label

PersistInv == \A r \in Request : Fits(r, run[r])

Inv == TypeOK /\ KeyNamesPendingRecord /\ ClosedOnce /\ FullRowHasFile
         /\ PendingInv /\ PersistInv
=============================================================================
