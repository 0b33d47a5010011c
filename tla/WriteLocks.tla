----------------------------- MODULE WriteLocks -----------------------------
(***************************************************************************)
(* internal/writelocks: the per-artifact write lock.  A Manager is a mutex *)
(* over a map from artifact to *lockEntry; Acquire fails fast,             *)
(* AcquireWithTimeout polls Acquire, and the release closure that both     *)
(* return may be called any number of times (the handlers call it          *)
(* explicitly before they publish and once more through defer).            *)
(*                                                                         *)
(* Entry is the set of *lockEntry addresses: a fresh one per successful    *)
(* Acquire.  closure[e] is the closure over entry e: the artifact it       *)
(* captured, the caller it was returned to and its captured "released"     *)
(* flag.  MaxPolls is timeout / acquireWaitPollInterval.                   *)
(***************************************************************************)
EXTENDS Naturals, FiniteSets

CONSTANTS Caller,    \* goroutines: HTTP handlers, ingest runners, the worker
          Artifact,  \* entity ids
          Entry,     \* *lockEntry addresses
          NoEntry,   \* the map has no key / the call names no entry
          NoClosure, \* the address is not in use
          MaxPolls,  \* sleeps an AcquireWithTimeout makes before its deadline
          MaxHeld    \* bound: closures a caller keeps at the same time

VARIABLES locks,     \* Manager.locks
          closure,   \* the release closures that exist
          call       \* each caller's current Acquire / AcquireWithTimeout

lockVars == <<locks, closure, call>>

Closures == [artifact : Artifact, owner : Caller, released : BOOLEAN]
Phase == {"idle", "trying", "sleeping", "granted", "conflict", "cancelled"}
Calls == {k \in [pc : Phase, artifact : Artifact, polls : 0..MaxPolls,
                 entry : Entry \cup {NoEntry}] :
            k.pc = "sleeping" => k.polls > 0}

ASSUME NoEntryAssumption == NoEntry \notin Entry
ASSUME NoClosureAssumption == NoClosure \notin Closures
ASSUME MaxPollsAssumption == MaxPolls \in Nat

Allocated(e) == closure[e] # NoClosure
Live(e) == Allocated(e) /\ ~closure[e].released

CallOf(pc, a, polls, e) ==
  [pc |-> pc, artifact |-> a, polls |-> polls, entry |-> e]
CallMoves(c, pc, polls, e) ==
  call' = [call EXCEPT ![c] = CallOf(pc, call[c].artifact, polls, e)]
Lock(a, c, r) == [artifact |-> a, owner |-> c, released |-> r]

LocksInit ==
  /\ locks = [a \in Artifact |-> NoEntry]
  /\ closure = [e \in Entry |-> NoClosure]
  /\ call \in [Caller -> {CallOf("idle", a, 0, NoEntry) : a \in Artifact}]

\* A caller starts an Acquire (polls = 0: fail fast, also what
\* AcquireWithTimeout does for timeout <= 0) or a waiting call.
BeginCall(c, a, polls) ==
  /\ call[c].pc = "idle"
  /\ Cardinality({e \in Entry : Allocated(e) /\ closure[e].owner = c}) < MaxHeld
  /\ call' = [call EXCEPT ![c] = CallOf("trying", a, polls, NoEntry)]
  /\ UNCHANGED <<locks, closure>>

\* The body of Acquire, under Manager.mu, when the artifact is not in the map.
AcquireFree(c, e) ==
  /\ call[c].pc = "trying"
  /\ locks[call[c].artifact] = NoEntry
  /\ ~Allocated(e)
  /\ locks' = [locks EXCEPT ![call[c].artifact] = e]
  /\ closure' = [closure EXCEPT ![e] = Lock(call[c].artifact, c, FALSE)]
  /\ CallMoves(c, "granted", call[c].polls, e)

\* Acquire on a locked artifact: a ConflictError naming the holder, the map
\* untouched.  With time remaining the waiting call goes to its select; at
\* the deadline, or failing fast, the error is the call's result.
AcquireHeld(c) ==
  /\ call[c].pc = "trying"
  /\ locks[call[c].artifact] # NoEntry
  /\ CallMoves(c, IF call[c].polls = 0 THEN "conflict" ELSE "sleeping",
               call[c].polls, locks[call[c].artifact])
  /\ UNCHANGED <<locks, closure>>

\* Mutated: the deadline moves with every retry.
Wake_SlidingDeadline(c) ==
  /\ call[c].pc = "sleeping"
  /\ CallMoves(c, "trying", call[c].polls, NoEntry)
  /\ UNCHANGED <<locks, closure>>

\* select in AcquireWithTimeout: time.After fires and the loop tries again...
Wake(c) ==
  /\ call[c].pc = "sleeping"
  /\ CallMoves(c, "trying", call[c].polls - 1, NoEntry)
  /\ UNCHANGED <<locks, closure>>

\* ... or ctx.Done() is ready and the call returns ctx.Err().
Cancel(c) ==
  /\ call[c].pc = "sleeping"
  /\ CallMoves(c, "cancelled", call[c].polls, NoEntry)
  /\ UNCHANGED <<locks, closure>>

\* The call's result reaches the code that made it.
Return(c) ==
  /\ call[c].pc \in {"granted", "conflict", "cancelled"}
  /\ CallMoves(c, "idle", 0, NoEntry)
  /\ UNCHANGED <<locks, closure>>

\* Mutated: every invocation deletes whatever entry the artifact has.
Release_ByArtifact(c, e) ==
  /\ Allocated(e)
  /\ closure[e].owner = c
  /\ ~(call[c].pc = "granted" /\ call[c].entry = e)
  /\ locks' = [locks EXCEPT ![closure[e].artifact] = NoEntry]
  /\ closure' = [closure EXCEPT ![e] = Lock(closure[e].artifact, c, TRUE)]
  /\ UNCHANGED call

\* Mutated: the flag is set, the entry stays in the map.
Release_NoDelete(c, e) ==
  /\ Allocated(e)
  /\ closure[e].owner = c
  /\ ~(call[c].pc = "granted" /\ call[c].entry = e)
  /\ closure' = [closure EXCEPT ![e] = Lock(closure[e].artifact, c, TRUE)]
  /\ UNCHANGED <<locks, call>>

\* One invocation of the closure over e, under Manager.mu: the first deletes
\* the map's entry if it is still e, every later one does nothing.
Release(c, e) ==
  /\ Allocated(e)
  /\ closure[e].owner = c
  /\ ~(call[c].pc = "granted" /\ call[c].entry = e)
  /\ LET a == closure[e].artifact
     IN  locks' = IF ~closure[e].released /\ locks[a] = e
                  THEN [locks EXCEPT ![a] = NoEntry] ELSE locks
  /\ closure' = [closure EXCEPT ![e] = Lock(closure[e].artifact, c, TRUE)]
  /\ UNCHANGED call

\* The function that held a released closure returns; its entry is garbage
\* and the address may be used again.
Discard(c, e) ==
  /\ Allocated(e)
  /\ closure[e].owner = c
  /\ closure[e].released
  /\ closure' = [closure EXCEPT ![e] = NoClosure]
  /\ UNCHANGED <<locks, call>>

LocksNext ==
  \E c \in Caller :
    \/ \E a \in Artifact, polls \in {0, MaxPolls} : BeginCall(c, a, polls)
    \/ \E e \in Entry : AcquireFree(c, e) \/ Release(c, e) \/ Discard(c, e)
    \/ AcquireHeld(c) \/ Wake(c) \/ Cancel(c) \/ Return(c)

\* The scheduler runs every caller, timers fire, and the code's contract is
\* that a closure is called at least once (it is deferred at every call site).
Fairness ==
  \A c \in Caller :
    /\ WF_lockVars((\E e \in Entry : AcquireFree(c, e)) \/ AcquireHeld(c) \/ Return(c))
    /\ WF_lockVars(Wake(c) \/ Cancel(c))
    /\ \A e \in Entry : WF_lockVars(Live(e) /\ Release(c, e))

LocksSpec == LocksInit /\ [][LocksNext]_lockVars
LocksFairSpec == LocksSpec /\ Fairness

-----------------------------------------------------------------------------
\* Type correctness of the map, the closures and the calls.
LocksTypeOK ==
  /\ locks \in [Artifact -> Entry \cup {NoEntry}]
  /\ closure \in [Entry -> Closures \cup {NoClosure}]
  /\ call \in [Caller -> Calls]

\* Acquire / release: two closures that have not been called yet never guard
\* the same artifact, however late, often or interleaved release runs.
MutualExclusion ==
  \A e, f \in Entry :
    Live(e) /\ Live(f) /\ closure[e].artifact = closure[f].artifact => e = f

\* release's defensive identity check: no release, in particular no second
\* release of an old entry, takes another writer's entry out of the map.
LiveIsLocked ==
  \A e \in Entry : Live(e) => locks[closure[e].artifact] = e

\* There is no expiry, so an artifact in the map without a closure that can
\* still remove it would stay locked until restart: cancelled, conflicting
\* and timed-out calls must leave none behind.
NoOrphanLock ==
  \A a \in Artifact : locks[a] # NoEntry =>
    Live(locks[a]) /\ closure[locks[a]].artifact = a

\* The map and the closures agree, which neither of the three says alone and
\* which makes them inductive: a live closure is the only one of its artifact
\* and has the map's entry, and every entry has its live closure.
Inv == LocksTypeOK /\ MutualExclusion /\ LiveIsLocked /\ NoOrphanLock

\* AcquireWithTimeout is bounded: it returns a closure, the conflict or the
\* context's error even if the holder never lets go.
CallReturns ==
  \A c \in Caller : (call[c].pc = "trying") ~> (call[c].pc = "idle")

\* The refinement mapping, computed from the closures the callers hold and
\* not from the map: what a caller believes is what the lock promises.
LivePairs ==
  {p \in Artifact \X Entry : Live(p[2]) /\ closure[p[2]].artifact = p[1]}

Lease == INSTANCE WriteLease WITH Ticket <- Entry, live <- LivePairs

\* Acquire and the release closures implement the abstract lease.
LeaseSpec == Lease!LeaseSpec
=============================================================================
