------------------------ MODULE LocksAndEdges_proof ------------------------
(***************************************************************************)
(* Proofs about WriteLocks and EdgeWrites.                                 *)
(*                                                                         *)
(* The locks, for every set of callers, artifacts and entries and every    *)
(* poll budget: the invariant Inv, from which type correctness, mutual     *)
(* exclusion and the absence of orphan locks follow, and the               *)
(* implementation of WriteLease.                                           *)
(*                                                                         *)
(* The edges, for any labels, requests, answers of the plugin, callers and *)
(* runners: the invariant EdgesInv, from which type correctness, the trace *)
(* of every dispatch and the gate of the fills follow.                     *)
(***************************************************************************)
EXTENDS WriteLocks, EdgeWrites, TLAPS

-----------------------------------------------------------------------------
(* WriteLocks.                                                               *)

\* What a step that leaves the map and the closures alone must show.
LEMMA CallsMove ==
  ASSUME Inv, UNCHANGED <<locks, closure>>, call' \in [Caller -> Calls]
  PROVE  Inv'
  BY DEF Inv, LocksTypeOK, MutualExclusion, LiveIsLocked, NoOrphanLock, Live, Allocated

\* LocksInit establishes the invariant: no entry is allocated.
LEMMA LocksInitInv == LocksInit => Inv
  BY NoEntryAssumption, NoClosureAssumption, MaxPollsAssumption
  DEF LocksInit, CallOf, Inv, LocksTypeOK, Calls, Phase, MutualExclusion, LiveIsLocked,
      NoOrphanLock, Live, Allocated

\* Every operation preserves the invariant.
LEMMA LocksNextInv == Inv /\ [LocksNext]_lockVars => Inv'
<1> USE NoEntryAssumption, NoClosureAssumption, MaxPollsAssumption
        DEF Lock, CallOf, CallMoves
<1> SUFFICES ASSUME Inv, [LocksNext]_lockVars PROVE Inv'
  OBVIOUS
<1>t. LocksTypeOK
  BY DEF Inv
<1>1. ASSUME NEW c \in Caller, NEW a \in Artifact, NEW polls \in {0, MaxPolls},
             BeginCall(c, a, polls)
      PROVE  Inv'
  <2>1. call' \in [Caller -> Calls]
    BY <1>1, <1>t DEF BeginCall, LocksTypeOK, Calls, Phase
  <2> QED
    BY <1>1, <2>1, CallsMove DEF BeginCall
<1>2. ASSUME NEW c \in Caller, NEW e \in Entry, AcquireFree(c, e)
      PROVE  Inv'
  <2> DEFINE a == call[c].artifact
  <2>1. /\ a \in Artifact
        /\ locks[a] = NoEntry
        /\ locks' = [locks EXCEPT ![a] = e]
        /\ closure' = [closure EXCEPT ![e] =
                         Lock(a, c, FALSE)]
        /\ ~Allocated(e)
    BY <1>2, <1>t DEF AcquireFree, LocksTypeOK, Calls
  <2>2. LocksTypeOK'
    <3>1. call' \in [Caller -> Calls]
      BY <1>2, <1>t DEF AcquireFree, LocksTypeOK, Calls, Phase
    <3> QED
      BY <3>1, <2>1, <1>t DEF LocksTypeOK, Closures
  <2>4. /\ closure'[e] = Lock(a, c, FALSE)
        /\ closure'[e] \in Closures
        /\ closure'[e].artifact = a
        /\ Live(e)'
    <3>1. Lock(a, c, FALSE) \in Closures
      BY <2>1 DEF Closures
    <3> QED
      BY <3>1, <2>1, <1>t DEF LocksTypeOK, Live, Allocated
  <2>5. \A f \in Entry : f # e => closure'[f] = closure[f]
    BY <2>1, <1>t DEF LocksTypeOK
  <2>3. \A f \in Entry : Live(f)' <=> Live(f) \/ f = e
    BY <2>4, <2>5 DEF Live, Allocated
  <2>6. ~Live(e)
    BY <2>1 DEF Live
  <2>7. \A f \in Entry : Live(f) => closure[f].artifact # a
    BY <2>1 DEF Inv, LiveIsLocked
  <2>8. \A f \in Entry : Live(f) => closure[f].artifact \in Artifact
    BY <1>t DEF LocksTypeOK, Live, Allocated, Closures
  <2>9. MutualExclusion'
    BY <2>3, <2>4, <2>5, <2>6, <2>7 DEF Inv, MutualExclusion
  <2>10. LiveIsLocked'
    BY <2>1, <2>3, <2>4, <2>5, <2>6, <2>7, <2>8, <1>t
    DEF Inv, LiveIsLocked, LocksTypeOK
  <2>11. NoOrphanLock'
    <3> SUFFICES ASSUME NEW b \in Artifact, locks'[b] # NoEntry
                 PROVE  (Live(locks[b]) /\ closure[locks[b]].artifact = b)'
      BY DEF NoOrphanLock, Live, Allocated
    <3>1. CASE b = a
      <4>1. locks'[b] = e
        BY <3>1, <2>1, <1>t DEF LocksTypeOK
      <4> QED
        BY <4>1, <3>1, <2>4 DEF Live, Allocated
    <3>2. CASE b # a
      <4>1. locks'[b] = locks[b] /\ locks[b] \in Entry
        BY <3>2, <2>1, <1>t DEF LocksTypeOK
      <4>2. Live(locks[b]) /\ closure[locks[b]].artifact = b
        BY <4>1 DEF Inv, NoOrphanLock
      <4> QED
        BY <4>1, <4>2, <2>5, <2>6 DEF Live, Allocated
    <3> QED
      BY <3>1, <3>2
  <2> QED
    BY <2>2, <2>9, <2>10, <2>11 DEF Inv
<1>3. ASSUME NEW c \in Caller, AcquireHeld(c)
      PROVE  Inv'
  <2>1. call[c].artifact \in Artifact /\ locks[call[c].artifact] \in Entry \cup {NoEntry}
    BY <1>t DEF LocksTypeOK, Calls
  <2>2. call' \in [Caller -> Calls]
    BY <1>3, <1>t, <2>1 DEF AcquireHeld, LocksTypeOK, Calls, Phase
  <2> QED
    BY <1>3, <2>2, CallsMove DEF AcquireHeld
<1>4. ASSUME NEW c \in Caller, Wake(c)
      PROVE  Inv'
  <2>1. call' \in [Caller -> Calls]
    <3>1. call[c].artifact \in Artifact /\ call[c].polls - 1 \in 0..MaxPolls
      BY <1>4, <1>t DEF Wake, LocksTypeOK, Calls
    <3> QED
      BY <1>4, <1>t, <3>1 DEF Wake, LocksTypeOK, Calls, Phase
  <2> QED
    BY <1>4, <2>1, CallsMove DEF Wake
<1>5. ASSUME NEW c \in Caller, Cancel(c)
      PROVE  Inv'
  <2>1. call' \in [Caller -> Calls]
    BY <1>5, <1>t DEF Cancel, LocksTypeOK, Calls, Phase
  <2> QED
    BY <1>5, <2>1, CallsMove DEF Cancel
<1>6. ASSUME NEW c \in Caller, Return(c)
      PROVE  Inv'
  <2>1. call' \in [Caller -> Calls]
    BY <1>6, <1>t DEF Return, LocksTypeOK, Calls, Phase
  <2> QED
    BY <1>6, <2>1, CallsMove DEF Return
<1>7. ASSUME NEW c \in Caller, NEW e \in Entry, Release(c, e)
      PROVE  Inv'
  <2> DEFINE a == closure[e].artifact
  <2>1. /\ closure[e] \in Closures
        /\ closure' = [closure EXCEPT ![e] = Lock(closure[e].artifact, c, TRUE)]
        /\ call' = call
        /\ locks' = IF ~closure[e].released /\ locks[a] = e
                    THEN [locks EXCEPT ![a] = NoEntry] ELSE locks
    BY <1>7, <1>t DEF Release, Allocated, LocksTypeOK
  <2>2. a \in Artifact /\ closure'[e] \in Closures
    BY <2>1, <1>t DEF Closures, LocksTypeOK
  <2>3. LocksTypeOK'
    BY <2>1, <2>2, <1>t DEF LocksTypeOK
  <2>4. ~Live(e)'
    BY <2>1, <1>t DEF Live, LocksTypeOK
  <2>5. \A f \in Entry : f # e => closure'[f] = closure[f]
    BY <2>1, <1>t DEF LocksTypeOK
  <2>6. \A f \in Entry : Live(f)' => Live(f) /\ f # e
    BY <2>4, <2>5 DEF Live, Allocated
  <2>7. MutualExclusion'
    BY <2>5, <2>6 DEF Inv, MutualExclusion
  <2>8. \A f \in Entry : Live(f) => closure[f].artifact \in Artifact
    BY <1>t DEF LocksTypeOK, Live, Allocated, Closures
  <2>9. LiveIsLocked'
    <3> SUFFICES ASSUME NEW f \in Entry, Live(f)'
                 PROVE  locks'[closure'[f].artifact] = f
      BY DEF LiveIsLocked
    <3>1. Live(f) /\ f # e /\ closure'[f] = closure[f]
      BY <2>5, <2>6
    <3>2. locks[closure[f].artifact] = f
      BY <3>1 DEF Inv, LiveIsLocked
    <3> QED
      BY <3>1, <3>2, <2>1, <2>2, <2>8, <1>t DEF LocksTypeOK
  <2>10. NoOrphanLock'
    <3> SUFFICES ASSUME NEW b \in Artifact, locks'[b] # NoEntry
                 PROVE  (Live(locks[b]) /\ closure[locks[b]].artifact = b)'
      BY DEF NoOrphanLock, Live, Allocated
    <3>1. locks'[b] = locks[b] /\ locks[b] \in Entry
      BY <2>1, <2>2, <1>t DEF LocksTypeOK
    <3>2. Live(locks[b]) /\ closure[locks[b]].artifact = b
      BY <3>1 DEF Inv, NoOrphanLock
    <3>3. locks[b] # e
      <4> SUFFICES ASSUME locks[b] = e PROVE FALSE
        OBVIOUS
      <4>1. locks' = [locks EXCEPT ![b] = NoEntry]
        BY <2>1, <3>2 DEF Live
      <4> QED
        BY <4>1, <1>t DEF LocksTypeOK
    <3> QED
      BY <3>1, <3>2, <3>3, <2>5 DEF Live, Allocated
  <2> QED
    BY <2>3, <2>7, <2>9, <2>10 DEF Inv
<1>8. ASSUME NEW c \in Caller, NEW e \in Entry, Discard(c, e)
      PROVE  Inv'
  <2>1. ~Live(e) /\ closure' = [closure EXCEPT ![e] = NoClosure]
        /\ UNCHANGED <<locks, call>>
    BY <1>8 DEF Discard, Live
  <2>2. \A f \in Entry : Live(f)' <=> Live(f)
    BY <2>1, <1>t DEF LocksTypeOK, Live, Allocated
  <2>3. \A f \in Entry : Live(f) => closure'[f] = closure[f]
    BY <2>1, <1>t DEF LocksTypeOK
  <2>4. LocksTypeOK'
    BY <2>1, <1>t DEF LocksTypeOK
  <2>5. MutualExclusion' /\ LiveIsLocked'
    BY <2>1, <2>2, <2>3 DEF Inv, MutualExclusion, LiveIsLocked
  <2>6. NoOrphanLock'
    BY <2>1, <2>2, <2>3, <1>t DEF Inv, NoOrphanLock, LocksTypeOK
  <2> QED
    BY <2>4, <2>5, <2>6 DEF Inv
<1>9. CASE UNCHANGED lockVars
  BY <1>9, <1>t, CallsMove DEF lockVars, LocksTypeOK
<1> QED
  BY <1>1, <1>2, <1>3, <1>4, <1>5, <1>6, <1>7, <1>8, <1>9 DEF LocksNext

\* Acquire, AcquireWithTimeout and the release closures keep the map and the
\* live closures in step: exclusion, no lock stolen and none orphaned.
THEOREM LocksInvariance == LocksSpec => []Inv
  BY LocksInitInv, LocksNextInv, PTL DEF LocksSpec

\* The operations of the lock keep every state well typed.
THEOREM LocksTyped == LocksSpec => []LocksTypeOK
<1>1. Inv => LocksTypeOK
  BY DEF Inv
<1> QED
  BY <1>1, LocksInvariance, PTL

\* Release closures, in whatever order and however often they are called,
\* never leave two writers on one artifact.
THEOREM WritersExclude == LocksSpec => []MutualExclusion
<1>1. Inv => MutualExclusion
  BY DEF Inv
<1> QED
  BY <1>1, LocksInvariance, PTL

\* The map holds exactly the live closures: no release takes another
\* writer's entry out of it, and no artifact stays locked without a closure
\* that can still unlock it.
THEOREM MapMatchesClosures == LocksSpec => [](LiveIsLocked /\ NoOrphanLock)
<1>1. Inv => LiveIsLocked /\ NoOrphanLock
  BY DEF Inv
<1> QED
  BY <1>1, LocksInvariance, PTL

\* The map, the poll loop and the release closures implement the lease.
THEOREM ImplementsLease == LocksSpec => LeaseSpec
<1> USE DEF LeaseSpec, Lease!LeaseSpec, Lock
<1>1. LocksInit => Lease!LeaseInit
  BY NoClosureAssumption DEF LocksInit, Lease!LeaseInit, LivePairs, Live, Allocated
<1>2. Inv /\ [LocksNext]_lockVars => [Lease!LeaseNext]_LivePairs
  <2> SUFFICES ASSUME Inv, [LocksNext]_lockVars PROVE [Lease!LeaseNext]_LivePairs
    OBVIOUS
  <2>t. LocksTypeOK
    BY DEF Inv
  <2>1. ASSUME NEW c \in Caller, NEW e \in Entry, AcquireFree(c, e)
        PROVE  Lease!LeaseNext
    <3> DEFINE a == call[c].artifact
    <3>1. /\ a \in Artifact
          /\ locks[a] = NoEntry
          /\ closure' = [closure EXCEPT ![e] =
                           Lock(a, c, FALSE)]
          /\ ~Live(e)
      BY <2>1, <2>t DEF AcquireFree, LocksTypeOK, Calls, Live
    <3>2. \A p \in LivePairs : p[1] # a /\ p[2] # e
      BY <3>1, NoEntryAssumption DEF LivePairs, Inv, LiveIsLocked
    <3>3. Live(e)' /\ closure'[e].artifact = a
      <4>1. Lock(a, c, FALSE) \in Closures
        BY <3>1 DEF Closures
      <4> QED
        BY <4>1, <3>1, <2>t, NoClosureAssumption DEF LocksTypeOK, Live, Allocated
    <3>4. \A f \in Entry : f # e => closure'[f] = closure[f]
      BY <3>1, <2>t DEF LocksTypeOK
    <3>5. LivePairs' = LivePairs \cup {<<a, e>>}
      BY <3>1, <3>3, <3>4 DEF LivePairs, Live, Allocated
    <3>6. Lease!Grant(a, e)
      BY <3>2, <3>5 DEF Lease!Grant
    <3> QED
      BY <3>1, <3>6 DEF Lease!LeaseNext
  <2>2. ASSUME NEW c \in Caller, NEW e \in Entry, Release(c, e)
        PROVE  Lease!LeaseNext \/ UNCHANGED LivePairs
    <3> DEFINE a == closure[e].artifact
    <3>1. /\ closure[e] \in Closures
          /\ closure' = [closure EXCEPT ![e] = Lock(closure[e].artifact, c, TRUE)]
      BY <2>2, <2>t DEF Release, Allocated, LocksTypeOK
    <3>2. a \in Artifact /\ ~Live(e)'
      BY <3>1, <2>t DEF Closures, Live, LocksTypeOK
    <3>3. \A f \in Entry : f # e => closure'[f] = closure[f]
      BY <3>1, <2>t DEF LocksTypeOK
    <3>4. CASE Live(e)
      <4>1. <<a, e>> \in LivePairs
        BY <3>4, <3>2 DEF LivePairs
      <4>2. LivePairs' = LivePairs \ {<<a, e>>}
        BY <3>2, <3>3 DEF LivePairs, Live, Allocated
      <4>3. Lease!HandBack(a, e)
        BY <4>1, <4>2 DEF Lease!HandBack
      <4> QED
        BY <3>2, <4>3 DEF Lease!LeaseNext
    <3>5. CASE ~Live(e)
      BY <3>2, <3>3, <3>5 DEF LivePairs, Live, Allocated
    <3> QED
      BY <3>4, <3>5
  <2>3. ASSUME NEW c \in Caller, NEW e \in Entry, Discard(c, e)
        PROVE  UNCHANGED LivePairs
    <3>1. ~Live(e) /\ closure' = [closure EXCEPT ![e] = NoClosure]
      BY <2>3 DEF Discard, Live
    <3>2. ~Live(e)'
      BY <3>1, <2>t, NoClosureAssumption DEF LocksTypeOK, Live, Allocated
    <3>3. \A f \in Entry : f # e => closure'[f] = closure[f]
      BY <3>1, <2>t DEF LocksTypeOK
    <3> QED
      BY <3>1, <3>2, <3>3 DEF LivePairs, Live, Allocated
  <2>4. ASSUME UNCHANGED closure
        PROVE  UNCHANGED LivePairs
    BY <2>4 DEF LivePairs, Live, Allocated
  <2> QED
    BY <2>1, <2>2, <2>3, <2>4
    DEF LocksNext, BeginCall, AcquireHeld, Wake, Cancel, Return, lockVars
<1> QED
  BY <1>1, <1>2, LocksInitInv, LocksNextInv, PTL DEF LocksSpec

-----------------------------------------------------------------------------
(* EdgeWrites.                                                               *)

Writing == {"ensure", "upsert", "edge", "probe", "begin", "wait"}
Asking == {"probe", "begin", "wait"}

JobRecord == [pc : Pc, kind : {"none", "post", "rewrite", "fill", "action", "delete", "fetch"},
              type : EdgeType \cup {None}, from : Id \cup {None}, to : Id \cup {None},
              old : Id \cup {None}, flag : BOOLEAN, todo : Seq(Id), thin : Seq(Id),
              target : Label \cup {None}, then : {"none", "recheck", "edge", "resolved"},
              waits : Fetch \cup {None}, lost : BOOLEAN,
              result : Label \cup Source \cup {None, "options", "error"}]

-----------------------------------------------------------------------------
(* The updates of a record that the steps make, and what each one leaves.    *)

At(j, p) == [j EXCEPT !.pc = p]
Led(j, p, thin) == [j EXCEPT !.pc = p, !.thin = thin]
Sent(j, p, f, thin, todo) == [j EXCEPT !.pc = p, !.from = f, !.thin = thin, !.todo = todo]
Left(j, todo) == [j EXCEPT !.todo = todo]
Asked(j, p, g, th) == [j EXCEPT !.pc = p, !.target = g, !.then = th]
Probing(j, todo, p, g, th) == [j EXCEPT !.todo = todo, !.pc = p, !.target = g, !.then = th]
Ending(j, p, r) == [j EXCEPT !.pc = p, !.result = r]
Refused(j, p, r, f, todo, thin) == [j EXCEPT !.pc = p, !.result = r, !.from = f, !.todo = todo, !.thin = thin]
Settled(j, p, f, t, ty) == [j EXCEPT !.pc = p, !.from = f, !.to = t, !.type = ty]
Back(j, p, g, th, w) == [j EXCEPT !.pc = p, !.target = g, !.then = th, !.waits = w]
Solved(j, p, t, g, th, w) == [j EXCEPT !.pc = p, !.to = t, !.target = g, !.then = th, !.waits = w]
Awaiting(j, p, w) == [j EXCEPT !.pc = p, !.waits = w]
Marked(j, b) == [j EXCEPT !.lost = b]

IsAt(j, k, p) ==
  /\ k \in JobRecord /\ k.pc = p
  /\ k.kind = j.kind /\ k.type = j.type /\ k.from = j.from /\ k.to = j.to /\ k.old = j.old /\ k.flag = j.flag
  /\ k.todo = j.todo /\ k.thin = j.thin /\ k.target = j.target /\ k.then = j.then /\ k.waits = j.waits /\ k.lost = j.lost
  /\ k.result = j.result
IsLed(j, k, p, thin) ==
  /\ k \in JobRecord /\ k.pc = p /\ k.thin = thin
  /\ k.kind = j.kind /\ k.type = j.type /\ k.from = j.from /\ k.to = j.to /\ k.old = j.old /\ k.flag = j.flag
  /\ k.todo = j.todo /\ k.target = j.target /\ k.then = j.then /\ k.waits = j.waits /\ k.lost = j.lost /\ k.result = j.result
IsSent(j, k, p, f, thin, todo) ==
  /\ k \in JobRecord /\ k.pc = p /\ k.from = f /\ k.thin = thin /\ k.todo = todo
  /\ k.kind = j.kind /\ k.type = j.type /\ k.to = j.to /\ k.old = j.old /\ k.flag = j.flag /\ k.target = j.target
  /\ k.then = j.then /\ k.waits = j.waits /\ k.lost = j.lost /\ k.result = j.result
IsLeft(j, k, todo) ==
  /\ k \in JobRecord /\ k.todo = todo
  /\ k.pc = j.pc /\ k.kind = j.kind /\ k.type = j.type /\ k.from = j.from /\ k.to = j.to /\ k.old = j.old
  /\ k.flag = j.flag /\ k.thin = j.thin /\ k.target = j.target /\ k.then = j.then /\ k.waits = j.waits /\ k.lost = j.lost
  /\ k.result = j.result
IsAsked(j, k, p, g, th) ==
  /\ k \in JobRecord /\ k.pc = p /\ k.target = g /\ k.then = th
  /\ k.kind = j.kind /\ k.type = j.type /\ k.from = j.from /\ k.to = j.to /\ k.old = j.old /\ k.flag = j.flag
  /\ k.todo = j.todo /\ k.thin = j.thin /\ k.waits = j.waits /\ k.lost = j.lost /\ k.result = j.result
IsProbing(j, k, todo, p, g, th) ==
  /\ k \in JobRecord /\ k.todo = todo /\ k.pc = p /\ k.target = g /\ k.then = th
  /\ k.kind = j.kind /\ k.type = j.type /\ k.from = j.from /\ k.to = j.to /\ k.old = j.old /\ k.flag = j.flag
  /\ k.thin = j.thin /\ k.waits = j.waits /\ k.lost = j.lost /\ k.result = j.result
IsEnding(j, k, p, r) ==
  /\ k \in JobRecord /\ k.pc = p /\ k.result = r
  /\ k.kind = j.kind /\ k.type = j.type /\ k.from = j.from /\ k.to = j.to /\ k.old = j.old /\ k.flag = j.flag
  /\ k.todo = j.todo /\ k.thin = j.thin /\ k.target = j.target /\ k.then = j.then /\ k.waits = j.waits /\ k.lost = j.lost
IsRefused(j, k, p, r, f, todo, thin) ==
  /\ k \in JobRecord /\ k.pc = p /\ k.result = r /\ k.from = f /\ k.todo = todo /\ k.thin = thin
  /\ k.kind = j.kind /\ k.type = j.type /\ k.to = j.to /\ k.old = j.old /\ k.flag = j.flag /\ k.target = j.target
  /\ k.then = j.then /\ k.waits = j.waits /\ k.lost = j.lost
IsSettled(j, k, p, f, t, ty) ==
  /\ k \in JobRecord /\ k.pc = p /\ k.from = f /\ k.to = t /\ k.type = ty
  /\ k.kind = j.kind /\ k.old = j.old /\ k.flag = j.flag /\ k.todo = j.todo /\ k.thin = j.thin /\ k.target = j.target
  /\ k.then = j.then /\ k.waits = j.waits /\ k.lost = j.lost /\ k.result = j.result
IsBack(j, k, p, g, th, w) ==
  /\ k \in JobRecord /\ k.pc = p /\ k.target = g /\ k.then = th /\ k.waits = w
  /\ k.kind = j.kind /\ k.type = j.type /\ k.from = j.from /\ k.to = j.to /\ k.old = j.old /\ k.flag = j.flag
  /\ k.todo = j.todo /\ k.thin = j.thin /\ k.lost = j.lost /\ k.result = j.result
IsSolved(j, k, p, t, g, th, w) ==
  /\ k \in JobRecord /\ k.pc = p /\ k.to = t /\ k.target = g /\ k.then = th /\ k.waits = w
  /\ k.kind = j.kind /\ k.type = j.type /\ k.from = j.from /\ k.old = j.old /\ k.flag = j.flag /\ k.todo = j.todo
  /\ k.thin = j.thin /\ k.lost = j.lost /\ k.result = j.result
IsAwaiting(j, k, p, w) ==
  /\ k \in JobRecord /\ k.pc = p /\ k.waits = w
  /\ k.kind = j.kind /\ k.type = j.type /\ k.from = j.from /\ k.to = j.to /\ k.old = j.old /\ k.flag = j.flag
  /\ k.todo = j.todo /\ k.thin = j.thin /\ k.target = j.target /\ k.then = j.then /\ k.lost = j.lost /\ k.result = j.result
IsMarked(j, k, b) ==
  /\ k \in JobRecord /\ k.lost = b
  /\ k.pc = j.pc /\ k.kind = j.kind /\ k.type = j.type /\ k.from = j.from /\ k.to = j.to /\ k.old = j.old
  /\ k.flag = j.flag /\ k.todo = j.todo /\ k.thin = j.thin /\ k.target = j.target /\ k.then = j.then /\ k.waits = j.waits
  /\ k.result = j.result

LEMMA AtIs ==
  ASSUME NEW j \in JobRecord, NEW p \in Pc
  PROVE  IsAt(j, At(j, p), p)
<1> DEFINE k == At(j, p)
<1>1. k \in JobRecord
  BY Zenon DEF At, JobRecord
<1>2. k.pc = p
  BY Zenon DEF At, JobRecord
<1>3. k.kind = j.kind /\ k.type = j.type /\ k.from = j.from /\ k.to = j.to /\ k.old = j.old /\ k.flag = j.flag
  BY Zenon DEF At, JobRecord
<1>4. k.todo = j.todo /\ k.thin = j.thin /\ k.target = j.target /\ k.then = j.then /\ k.waits = j.waits /\ k.lost = j.lost /\ k.result = j.result
  BY Zenon DEF At, JobRecord
<1> HIDE DEF k
<1>5. IsAt(j, k, p)
  BY Zenon, <1>1, <1>2, <1>3, <1>4 DEF IsAt
<1> QED
  BY <1>5 DEF k

LEMMA LedIs ==
  ASSUME NEW j \in JobRecord, NEW p \in Pc, NEW thin \in Seq(Id)
  PROVE  IsLed(j, Led(j, p, thin), p, thin)
<1> DEFINE k == Led(j, p, thin)
<1>1. k \in JobRecord
  BY Zenon DEF Led, JobRecord
<1>2. k.pc = p /\ k.thin = thin
  BY Zenon DEF Led, JobRecord
<1>3. k.kind = j.kind /\ k.type = j.type /\ k.from = j.from /\ k.to = j.to /\ k.old = j.old /\ k.flag = j.flag
  BY Zenon DEF Led, JobRecord
<1>4. k.todo = j.todo /\ k.target = j.target /\ k.then = j.then /\ k.waits = j.waits /\ k.lost = j.lost /\ k.result = j.result
  BY Zenon DEF Led, JobRecord
<1> HIDE DEF k
<1>5. IsLed(j, k, p, thin)
  BY Zenon, <1>1, <1>2, <1>3, <1>4 DEF IsLed
<1> QED
  BY <1>5 DEF k

LEMMA SentIs ==
  ASSUME NEW j \in JobRecord, NEW p \in Pc, NEW f \in Id \cup {None}, NEW thin \in Seq(Id), NEW todo \in Seq(Id)
  PROVE  IsSent(j, Sent(j, p, f, thin, todo), p, f, thin, todo)
<1> DEFINE k == Sent(j, p, f, thin, todo)
<1>1. k \in JobRecord
  BY ZenonT(120) DEF Sent, JobRecord
<1>2. k.pc = p /\ k.from = f /\ k.thin = thin /\ k.todo = todo
  BY Zenon DEF Sent, JobRecord
<1>3. k.kind = j.kind /\ k.type = j.type /\ k.to = j.to /\ k.old = j.old /\ k.flag = j.flag /\ k.target = j.target
  BY Zenon DEF Sent, JobRecord
<1>4. k.then = j.then /\ k.waits = j.waits /\ k.lost = j.lost /\ k.result = j.result
  BY Zenon DEF Sent, JobRecord
<1> HIDE DEF k
<1>5. IsSent(j, k, p, f, thin, todo)
  BY Zenon, <1>1, <1>2, <1>3, <1>4 DEF IsSent
<1> QED
  BY <1>5 DEF k

LEMMA LeftIs ==
  ASSUME NEW j \in JobRecord, NEW todo \in Seq(Id)
  PROVE  IsLeft(j, Left(j, todo), todo)
<1> DEFINE k == Left(j, todo)
<1>1. k \in JobRecord
  BY Zenon DEF Left, JobRecord
<1>2. k.todo = todo
  BY Zenon DEF Left, JobRecord
<1>3. k.pc = j.pc /\ k.kind = j.kind /\ k.type = j.type /\ k.from = j.from /\ k.to = j.to /\ k.old = j.old
  BY Zenon DEF Left, JobRecord
<1>4. k.flag = j.flag /\ k.thin = j.thin /\ k.target = j.target /\ k.then = j.then /\ k.waits = j.waits /\ k.lost = j.lost /\ k.result = j.result
  BY Zenon DEF Left, JobRecord
<1> HIDE DEF k
<1>5. IsLeft(j, k, todo)
  BY Zenon, <1>1, <1>2, <1>3, <1>4 DEF IsLeft
<1> QED
  BY <1>5 DEF k

LEMMA AskedIs ==
  ASSUME NEW j \in JobRecord, NEW p \in Pc, NEW g \in Label \cup {None}, NEW th \in {"none", "recheck", "edge", "resolved"}
  PROVE  IsAsked(j, Asked(j, p, g, th), p, g, th)
<1> DEFINE k == Asked(j, p, g, th)
<1>1. k \in JobRecord
  BY Zenon DEF Asked, JobRecord
<1>2. k.pc = p /\ k.target = g /\ k.then = th
  BY Zenon DEF Asked, JobRecord
<1>3. k.kind = j.kind /\ k.type = j.type /\ k.from = j.from /\ k.to = j.to /\ k.old = j.old /\ k.flag = j.flag
  BY Zenon DEF Asked, JobRecord
<1>4. k.todo = j.todo /\ k.thin = j.thin /\ k.waits = j.waits /\ k.lost = j.lost /\ k.result = j.result
  BY Zenon DEF Asked, JobRecord
<1> HIDE DEF k
<1>5. IsAsked(j, k, p, g, th)
  BY Zenon, <1>1, <1>2, <1>3, <1>4 DEF IsAsked
<1> QED
  BY <1>5 DEF k

LEMMA ProbingIs ==
  ASSUME NEW j \in JobRecord, NEW todo \in Seq(Id), NEW p \in Pc, NEW g \in Label \cup {None}, NEW th \in {"none", "recheck", "edge", "resolved"}
  PROVE  IsProbing(j, Probing(j, todo, p, g, th), todo, p, g, th)
<1> DEFINE k == Probing(j, todo, p, g, th)
<1>1. k \in JobRecord
  BY ZenonT(120) DEF Probing, JobRecord
<1>2. k.todo = todo /\ k.pc = p /\ k.target = g /\ k.then = th
  BY Zenon DEF Probing, JobRecord
<1>3. k.kind = j.kind /\ k.type = j.type /\ k.from = j.from /\ k.to = j.to /\ k.old = j.old /\ k.flag = j.flag
  BY Zenon DEF Probing, JobRecord
<1>4. k.thin = j.thin /\ k.waits = j.waits /\ k.lost = j.lost /\ k.result = j.result
  BY Zenon DEF Probing, JobRecord
<1> HIDE DEF k
<1>5. IsProbing(j, k, todo, p, g, th)
  BY Zenon, <1>1, <1>2, <1>3, <1>4 DEF IsProbing
<1> QED
  BY <1>5 DEF k

LEMMA EndingIs ==
  ASSUME NEW j \in JobRecord, NEW p \in Pc, NEW r \in Label \cup Source \cup {None, "options", "error"}
  PROVE  IsEnding(j, Ending(j, p, r), p, r)
<1> DEFINE k == Ending(j, p, r)
<1>1. k \in JobRecord
  BY Zenon DEF Ending, JobRecord
<1>2. k.pc = p /\ k.result = r
  BY Zenon DEF Ending, JobRecord
<1>3. k.kind = j.kind /\ k.type = j.type /\ k.from = j.from /\ k.to = j.to /\ k.old = j.old /\ k.flag = j.flag
  BY Zenon DEF Ending, JobRecord
<1>4. k.todo = j.todo /\ k.thin = j.thin /\ k.target = j.target /\ k.then = j.then /\ k.waits = j.waits /\ k.lost = j.lost
  BY Zenon DEF Ending, JobRecord
<1> HIDE DEF k
<1>5. IsEnding(j, k, p, r)
  BY Zenon, <1>1, <1>2, <1>3, <1>4 DEF IsEnding
<1> QED
  BY <1>5 DEF k

LEMMA RefusedIs ==
  ASSUME NEW j \in JobRecord, NEW p \in Pc, NEW r \in Label \cup Source \cup {None, "options", "error"}, NEW f \in Id \cup {None}, NEW todo \in Seq(Id), NEW thin \in Seq(Id)
  PROVE  IsRefused(j, Refused(j, p, r, f, todo, thin), p, r, f, todo, thin)
<1> DEFINE k == Refused(j, p, r, f, todo, thin)
<1>1. k \in JobRecord
  BY ZenonT(120) DEF Refused, JobRecord
<1>2. k.pc = p /\ k.result = r /\ k.from = f /\ k.todo = todo /\ k.thin = thin
  BY Zenon DEF Refused, JobRecord
<1>3. k.kind = j.kind /\ k.type = j.type /\ k.to = j.to /\ k.old = j.old /\ k.flag = j.flag /\ k.target = j.target
  BY Zenon DEF Refused, JobRecord
<1>4. k.then = j.then /\ k.waits = j.waits /\ k.lost = j.lost
  BY Zenon DEF Refused, JobRecord
<1> HIDE DEF k
<1>5. IsRefused(j, k, p, r, f, todo, thin)
  BY Zenon, <1>1, <1>2, <1>3, <1>4 DEF IsRefused
<1> QED
  BY <1>5 DEF k

LEMMA SettledIs ==
  ASSUME NEW j \in JobRecord, NEW p \in Pc, NEW f \in Id \cup {None}, NEW t \in Id \cup {None}, NEW ty \in EdgeType \cup {None}
  PROVE  IsSettled(j, Settled(j, p, f, t, ty), p, f, t, ty)
<1> DEFINE k == Settled(j, p, f, t, ty)
<1>1. k \in JobRecord
  BY ZenonT(120) DEF Settled, JobRecord
<1>2. k.pc = p /\ k.from = f /\ k.to = t /\ k.type = ty
  BY Zenon DEF Settled, JobRecord
<1>3. k.kind = j.kind /\ k.old = j.old /\ k.flag = j.flag /\ k.todo = j.todo /\ k.thin = j.thin /\ k.target = j.target
  BY Zenon DEF Settled, JobRecord
<1>4. k.then = j.then /\ k.waits = j.waits /\ k.lost = j.lost /\ k.result = j.result
  BY Zenon DEF Settled, JobRecord
<1> HIDE DEF k
<1>5. IsSettled(j, k, p, f, t, ty)
  BY Zenon, <1>1, <1>2, <1>3, <1>4 DEF IsSettled
<1> QED
  BY <1>5 DEF k

LEMMA BackIs ==
  ASSUME NEW j \in JobRecord, NEW p \in Pc, NEW g \in Label \cup {None}, NEW th \in {"none", "recheck", "edge", "resolved"}, NEW w \in Fetch \cup {None}
  PROVE  IsBack(j, Back(j, p, g, th, w), p, g, th, w)
<1> DEFINE k == Back(j, p, g, th, w)
<1>1. k \in JobRecord
  BY ZenonT(120) DEF Back, JobRecord
<1>2. k.pc = p /\ k.target = g /\ k.then = th /\ k.waits = w
  BY Zenon DEF Back, JobRecord
<1>3. k.kind = j.kind /\ k.type = j.type /\ k.from = j.from /\ k.to = j.to /\ k.old = j.old /\ k.flag = j.flag
  BY Zenon DEF Back, JobRecord
<1>4. k.todo = j.todo /\ k.thin = j.thin /\ k.lost = j.lost /\ k.result = j.result
  BY Zenon DEF Back, JobRecord
<1> HIDE DEF k
<1>5. IsBack(j, k, p, g, th, w)
  BY Zenon, <1>1, <1>2, <1>3, <1>4 DEF IsBack
<1> QED
  BY <1>5 DEF k

LEMMA SolvedIs ==
  ASSUME NEW j \in JobRecord, NEW p \in Pc, NEW t \in Id \cup {None}, NEW g \in Label \cup {None}, NEW th \in {"none", "recheck", "edge", "resolved"}, NEW w \in Fetch \cup {None}
  PROVE  IsSolved(j, Solved(j, p, t, g, th, w), p, t, g, th, w)
<1> DEFINE k == Solved(j, p, t, g, th, w)
<1>1. k \in JobRecord
  BY ZenonT(120) DEF Solved, JobRecord
<1>2. k.pc = p /\ k.to = t /\ k.target = g /\ k.then = th /\ k.waits = w
  BY Zenon DEF Solved, JobRecord
<1>3. k.kind = j.kind /\ k.type = j.type /\ k.from = j.from /\ k.old = j.old /\ k.flag = j.flag /\ k.todo = j.todo
  BY Zenon DEF Solved, JobRecord
<1>4. k.thin = j.thin /\ k.lost = j.lost /\ k.result = j.result
  BY Zenon DEF Solved, JobRecord
<1> HIDE DEF k
<1>5. IsSolved(j, k, p, t, g, th, w)
  BY Zenon, <1>1, <1>2, <1>3, <1>4 DEF IsSolved
<1> QED
  BY <1>5 DEF k

LEMMA AwaitingIs ==
  ASSUME NEW j \in JobRecord, NEW p \in Pc, NEW w \in Fetch \cup {None}
  PROVE  IsAwaiting(j, Awaiting(j, p, w), p, w)
<1> DEFINE k == Awaiting(j, p, w)
<1>1. k \in JobRecord
  BY Zenon DEF Awaiting, JobRecord
<1>2. k.pc = p /\ k.waits = w
  BY Zenon DEF Awaiting, JobRecord
<1>3. k.kind = j.kind /\ k.type = j.type /\ k.from = j.from /\ k.to = j.to /\ k.old = j.old /\ k.flag = j.flag
  BY Zenon DEF Awaiting, JobRecord
<1>4. k.todo = j.todo /\ k.thin = j.thin /\ k.target = j.target /\ k.then = j.then /\ k.lost = j.lost /\ k.result = j.result
  BY Zenon DEF Awaiting, JobRecord
<1> HIDE DEF k
<1>5. IsAwaiting(j, k, p, w)
  BY Zenon, <1>1, <1>2, <1>3, <1>4 DEF IsAwaiting
<1> QED
  BY <1>5 DEF k

LEMMA MarkedIs ==
  ASSUME NEW j \in JobRecord, NEW b \in BOOLEAN
  PROVE  IsMarked(j, Marked(j, b), b)
<1> DEFINE k == Marked(j, b)
<1>1. k \in JobRecord
  BY Zenon DEF Marked, JobRecord
<1>2. k.lost = b
  BY Zenon DEF Marked, JobRecord
<1>3. k.pc = j.pc /\ k.kind = j.kind /\ k.type = j.type /\ k.from = j.from /\ k.to = j.to /\ k.old = j.old
  BY Zenon DEF Marked, JobRecord
<1>4. k.flag = j.flag /\ k.todo = j.todo /\ k.thin = j.thin /\ k.target = j.target /\ k.then = j.then /\ k.waits = j.waits /\ k.result = j.result
  BY Zenon DEF Marked, JobRecord
<1> HIDE DEF k
<1>5. IsMarked(j, k, b)
  BY Zenon, <1>1, <1>2, <1>3, <1>4 DEF IsMarked
<1> QED
  BY <1>5 DEF k


-----------------------------------------------------------------------------
(* The invariant.                                                            *)

\* Where a call of each kind, and a runner, can be.
Placed(j) ==
  /\ j.kind = "none" <=> j.pc = "idle"
  /\ j.kind = "post" => j.pc \in Writing
  /\ j.kind = "rewrite" => j.pc \in {"ensure", "upsert", "rewrite"}
  /\ j.kind = "fill" => j.pc \in Writing \cup {"lock", "gate", "recheck", "clear"}
  /\ j.kind = "action" => j.pc \in Writing \cup {"resolved"}
  /\ j.kind = "delete" => j.pc = "delete"
  /\ j.kind = "fetch" => j.pc \in Writing \cup {"fetch", "persist", "settle", "settled"}

\* What the record of a call or of a runner says at each place.
JobOK(x, j) ==
  /\ Placed(j) /\ (j.pc = "idle" => j = Idle)
  /\ x \in Client => j.kind # "fetch"
  /\ x \in Fetch => j.kind \in {"none", "fetch"}
  /\ j.pc \notin {"idle", "settled"} => j.type \in EdgeType /\ j.to \in Id
  /\ x \in Fetch /\ j.pc \notin {"idle", "settled"} => j.to \in Label
  /\ x \in Client /\ j.pc # "idle" => j.from \in Id
  /\ x \in Fetch /\ j.pc \in Writing \cup {"persist"} => j.from \in Label \cup Source
  /\ j.pc \in {"ensure", "upsert"} => j.thin # <<>>
  /\ j.pc \in Asking => j.target \in Label /\ j.then # "none"
  /\ j.then = "recheck" => j.kind = "fill"
  /\ j.then = "resolved" => j.kind = "action"
  /\ j.pc = "wait" <=> j.waits # None
  /\ j.pc \in {"settle", "settled"} => j.result # None

JobsInv == job \in [Actor -> JobRecord] /\ \A x \in Actor : JobOK(x, job[x])

TypeInv ==
  /\ row \in [Id -> Rows]
  /\ edges \subseteq EdgeType \X Id \X Id
  /\ lock \in [Id -> Actor \cup {None}]
  /\ tasks \subseteq {"err", "resolution"} \X Label
  /\ tried \subseteq Label
  /\ calls \in 0..MaxCalls /\ slow \in 0..MaxSlow
  /\ JobsInv

\* Whoever is awaited is a runner that goes on, or a record that waits for its readers.
WaitInv == \A x \in Actor : job[x].waits # None => job[job[x].waits].pc # "idle"

\* A fill holds its entity from its start to its end, a runner the one it writes, and nobody else one.
LockInv ==
  /\ \A e \in Id, x \in Actor : lock[e] = x =>
       /\ job[x].from = e
       /\ x \in Client => job[x].kind = "fill" /\ job[x].pc # "lock"
       /\ x \in Fetch => job[x].pc \in Writing
  /\ \A f \in Fetch : job[f].pc \in Writing => lock[job[f].from] = f

\* The label's runner is the only one.
KeyInv == \A f, g \in Fetch :
  f # g /\ {job[f].pc, job[g].pc} \cap {"idle", "settled"} = {} => job[f].to # job[g].to

\* The edges table has foreign keys.
EndsInv == \A e \in edges : row[e[2]] # "none" /\ row[e[3]] # "none"

Filled(e) == row[e] \in {"full", "wiped"}

\* What a runner stored is there until it lets go, and after it unless somebody deletes it.
ResultOK(j) ==
  /\ j.pc \in Writing => Filled(j.from)
  /\ j.pc \in {"settle", "settled"} /\ j.result \in Label /\ ~j.lost => Filled(j.result)
ResultInv == \A f \in Fetch : ResultOK(job[f])

Traced(e) == Connected(e) \/ Filled(e) \/ {<<"err", e>>, <<"resolution", e>>} \cap tasks # {}
TraceInv == \A e \in tried : Traced(e)

\* A fill that the gate let through found a row for its label.
GateOK(j) ==
  j.kind = "fill" =>
    /\ j.pc = "gate" => j.to \in Label
    /\ j.pc \in {"ensure", "upsert"} => j.thin = <<j.to>>
    /\ ~j.flag /\ j.to \in Label /\ j.pc \in {"clear", "ensure"} => row[j.to] # "none" \/ j.lost
    /\ ~j.flag /\ j.to \in Label /\ j.pc = "upsert" => j.lost
GateInv == \A c \in Client : GateOK(job[c])

EdgesInv == TypeInv /\ WaitInv /\ LockInv /\ KeyInv /\ EndsInv /\ ResultInv /\ TraceInv /\ GateInv
-----------------------------------------------------------------------------
(* Turns.                                                                    *)

\* What x's turn leaves of the jobs: x's own is j, and settled records may be forgotten.
Turn(x, j) ==
  /\ job'[x] = j \/ (j.pc = "settled" /\ job'[x] = Idle)
  /\ \A y \in Actor \ {x} : job'[y] = job[y] \/ (job[y].pc = "settled" /\ job'[y] = Idle)

LEMMA IdleJob ==
  /\ Idle \in JobRecord /\ Idle.pc = "idle" /\ Idle.kind = "none" /\ Idle.waits = None
  /\ Idle.thin = <<>> /\ Idle.from = None /\ Idle.to = None
  /\ \A x \in Actor : JobOK(x, Idle)
<1>1. <<>> \in Seq(Id)
  OBVIOUS
<1>2. Idle \in JobRecord
  BY <1>1 DEF Idle, JobRecord, Pc
<1>3. \A x \in Actor : JobOK(x, Idle)
  BY DEF Idle, JobOK, Placed, Writing, Asking
<1> QED
  BY <1>2, <1>3 DEF Idle

LEMMA PutTurns ==
  ASSUME TypeInv, WaitInv, KeyInv, NEW x \in Actor, NEW j \in JobRecord, JobOK(x, j), Put(x, j),
         j.pc # "wait",
         x \in Fetch => /\ j.pc # "idle" /\ job[x].pc \notin {"idle", "settled"}
                        /\ j.pc # "settled" => j.to = job[x].to
  PROVE  JobsInv' /\ WaitInv' /\ KeyInv' /\ Turn(x, j)
<1> DEFINE jobs == [job EXCEPT ![x] = j]
<1>1. JobsInv /\ job \in [Actor -> JobRecord] /\ None \notin Actor
  BY IdAssumption DEF TypeInv, JobsInv
<1>2. /\ jobs \in [Actor -> JobRecord] /\ jobs[x] = j
      /\ \A y \in Actor \ {x} : jobs[y] = job[y]
      /\ \A y \in Actor : JobOK(y, jobs[y])
  BY <1>1 DEF JobsInv
<1>3. \A y \in Actor : job'[y] = IF jobs[y].pc = "settled" /\ \A z \in Actor : jobs[z].waits # y
                                 THEN Idle ELSE jobs[y]
  BY DEF Put, Forget
<1>4. DOMAIN job' = Actor /\ job' = [y \in Actor |-> job'[y]]
  BY DEF Put, Forget
<1> HIDE DEF jobs
<1>5. JobsInv'
  <2>1. \A y \in Actor : job'[y] \in JobRecord /\ JobOK(y, job'[y])
    BY <1>2, <1>3, IdleJob
  <2>2. job' \in [Actor -> JobRecord]
    BY <1>4, <2>1
  <2> QED
    BY <2>1, <2>2 DEF JobsInv
<1>6. Turn(x, j)
  BY <1>2, <1>3 DEF Turn
<1>7. j.waits = None
  BY DEF JobOK
<1>8. ASSUME NEW y \in Actor, job'[y].waits # None PROVE job'[job'[y].waits].pc # "idle"
  <2>1. job'[y] = jobs[y] /\ y # x /\ jobs[y] = job[y]
    BY <1>2, <1>3, <1>7, <1>8, IdleJob
  <2> DEFINE f == job[y].waits
  <2>2. f \in Fetch /\ f \in Actor /\ f # None
    BY <1>1, <1>8, <2>1 DEF JobRecord, Actor
  <2>3. job[f].pc # "idle"
    BY <1>8, <2>1 DEF WaitInv
  <2>4. job'[f] = jobs[f]
    BY <1>3, <2>1, <2>2
  <2>5. jobs[f].pc # "idle"
    BY <1>2, <2>2, <2>3
  <2> QED
    BY <2>1, <2>4, <2>5
<1>9. WaitInv'
  BY <1>8 DEF WaitInv
<1>10. KeyInv'
  <2> SUFFICES ASSUME NEW f \in Fetch, NEW g \in Fetch, f # g,
                      {job'[f].pc, job'[g].pc} \cap {"idle", "settled"} = {}
               PROVE  job'[f].to # job'[g].to
    BY DEF KeyInv
  <2>1. f \in Actor /\ g \in Actor
    BY DEF Actor
  <2>2. ASSUME NEW h \in Fetch, job'[h].pc \notin {"idle", "settled"}
        PROVE  job[h].pc \notin {"idle", "settled"} /\ job'[h].to = job[h].to
    <3>1. h \in Actor
      BY DEF Actor
    <3> QED
      BY <1>6, <2>2, <3>1, IdleJob DEF Turn
  <2>3. {job[f].pc, job[g].pc} \cap {"idle", "settled"} = {} /\ job'[f].to = job[f].to /\ job'[g].to = job[g].to
    BY <2>2
  <2> QED
    BY <2>3 DEF KeyInv
<1> QED
  BY <1>5, <1>6, <1>9, <1>10


\* How a turn may leave the locks.
LockMove(x, j) ==
  \/ Unlock(x) /\ (x \in Fetch => j.pc \notin Writing)
  \/ lock' = lock /\ (\A e \in Id : lock[e] # x) /\ (x \in Fetch => j.pc \notin Writing)
  \/ /\ lock' = lock /\ j.from = job[x].from /\ j.pc # "settled"
     /\ x \in Client => j.kind = job[x].kind /\ j.pc # "lock"
     /\ x \in Fetch => job[x].pc \in Writing /\ j.pc \in Writing
  \/ /\ \A e \in Id : lock[e] # x
     /\ j.from \in Id /\ lock[j.from] = None /\ lock' = [lock EXCEPT ![j.from] = x]
     /\ x \in Client => j.kind = "fill" /\ j.pc \notin {"lock", "settled"}
     /\ x \in Fetch => j.pc \in Writing

LEMMA LocksMove ==
  ASSUME TypeInv, LockInv, NEW x \in Actor, NEW j \in JobRecord, Turn(x, j), LockMove(x, j)
  PROVE  LockInv' /\ lock' \in [Id -> Actor \cup {None}]
<1>1. /\ lock \in [Id -> Actor \cup {None}] /\ None \notin Actor
      /\ \A y \in Actor : JobOK(y, job[y])
  BY IdAssumption DEF TypeInv, JobsInv
<1>2. lock' \in [Id -> Actor \cup {None}]
  BY <1>1 DEF LockMove, Unlock
<1>3. ASSUME NEW f \in Fetch, job[f].pc \in Writing PROVE job[f].from \in Id /\ lock[job[f].from] = f /\ f \in Actor
  <2>1. f \in Actor /\ JobOK(f, job[f])
    BY <1>1 DEF Actor
  <2> QED
    BY <1>3, <2>1 DEF JobOK, LockInv, Id
<1>4. ASSUME NEW y \in Actor, y # x, NEW e \in Id, lock'[e] = y PROVE lock[e] = y
  BY <1>1, <1>4 DEF LockMove, Unlock
<1>5. ASSUME NEW y \in Actor, y # x, NEW e \in Id, lock[e] = y PROVE lock'[e] = y
  BY <1>1, <1>5 DEF LockMove, Unlock
<1>6. ASSUME NEW e \in Id, NEW y \in Actor, lock'[e] = y
      PROVE  /\ job'[y].from = e
             /\ y \in Client => job'[y].kind = "fill" /\ job'[y].pc # "lock"
             /\ y \in Fetch => job'[y].pc \in Writing
  <2>1. CASE y # x
    <3>1. lock[e] = y
      BY <1>4, <1>6, <2>1
    <3>2. /\ job[y].from = e
          /\ y \in Client => job[y].kind = "fill" /\ job[y].pc # "lock"
          /\ y \in Fetch => job[y].pc \in Writing
      BY <3>1 DEF LockInv
    <3>3. job[y].pc # "settled"
      <4>1. JobOK(y, job[y])
        BY <1>1
      <4> QED
        BY <3>2, <4>1 DEF JobOK, Placed, Writing, Actor
    <3> QED
      BY <2>1, <3>2, <3>3 DEF Turn
  <2>2. CASE y = x
    <3>1. ~Unlock(x)
      BY <1>1, <1>6, <2>2 DEF Unlock
    <3>2. j.from = e /\ (x \in Client => j.kind = "fill" /\ j.pc # "lock") /\ (x \in Fetch => j.pc \in Writing)
      <4>1. CASE lock' = lock
        BY <1>1, <1>6, <2>2, <3>1, <4>1 DEF LockMove, LockInv
      <4>2. CASE lock' # lock
        BY <1>1, <1>6, <2>2, <3>1, <4>2 DEF LockMove
      <4> QED
        BY <4>1, <4>2
    <3>3. j.pc # "settled"
      BY <1>1, <1>6, <2>2, <3>1, <3>2 DEF LockMove, Writing, Actor
    <3>4. job'[x] = j
      BY <3>3 DEF Turn
    <3> QED
      BY <2>2, <3>2, <3>4
  <2> QED
    BY <2>1, <2>2
<1>7. ASSUME NEW f \in Fetch, job'[f].pc \in Writing PROVE lock'[job'[f].from] = f
  <2>1. f \in Actor
    BY DEF Actor
  <2>2. CASE f # x
    <3>1. job'[f] = job[f]
      BY <1>7, <2>1, <2>2, IdleJob DEF Turn, Writing
    <3> QED
      BY <1>3, <1>5, <1>7, <2>1, <2>2, <3>1
  <2>3. CASE f = x
    <3>1. job'[x] = j /\ j.pc \in Writing
      BY <1>7, <2>3, IdleJob DEF Turn, Writing
    <3>2. CASE lock' = lock /\ j.from = job[x].from /\ job[x].pc \in Writing
      BY <1>3, <2>3, <3>1, <3>2
    <3>3. CASE j.from \in Id /\ lock' = [lock EXCEPT ![j.from] = x]
      BY <1>1, <2>3, <3>1, <3>3
    <3> QED
      BY <2>3, <3>1, <3>2, <3>3 DEF LockMove
  <2> QED
    BY <2>2, <2>3
<1>8. LockInv'
  BY <1>6, <1>7 DEF LockInv
<1> QED
  BY <1>2, <1>8


\* Rows stay rows and data stays data.
RowsStay == \A e \in Id : (row[e] # "none" => row'[e] # "none") /\ (Filled(e) => row'[e] \in {"full", "wiped"})

LEMMA RowsTurn ==
  ASSUME TypeInv, ResultInv, GateInv, NEW x \in Actor, NEW j \in JobRecord, Turn(x, j), RowsStay,
         x \in Fetch => ResultOK(j)', x \in Client => GateOK(j)'
  PROVE  ResultInv' /\ GateInv'
<1>1. \A y \in Actor : job[y] \in JobRecord /\ JobOK(y, job[y])
  BY DEF TypeInv, JobsInv
<1>2. ASSUME NEW k \in JobRecord, NEW y \in Actor, JobOK(y, k)
      PROVE  /\ y \in Fetch /\ ResultOK(k) => ResultOK(k)'
             /\ y \in Client /\ GateOK(k) => GateOK(k)'
  <2>1. ASSUME y \in Fetch, ResultOK(k) PROVE ResultOK(k)'
    <3>1. k.pc \in Writing => k.from \in Id
      BY <1>2, <2>1 DEF JobOK, Id
    <3>2. k.result \in Label => k.result \in Id
      BY DEF Id
    <3> QED
      BY <2>1, <3>1, <3>2 DEF ResultOK, Filled, RowsStay
  <2>2. ASSUME GateOK(k) PROVE GateOK(k)'
    <3>1. k.to \in Label => k.to \in Id
      BY DEF Id
    <3> QED
      BY <2>2, <3>1 DEF GateOK, RowsStay
  <2> QED
    BY <2>1, <2>2
<1>3. ResultOK(Idle)' /\ GateOK(Idle)'
  BY DEF Idle, ResultOK, GateOK, Writing
<1>4. ASSUME NEW f \in Fetch PROVE ResultOK(job[f])'
  <2>1. f \in Actor
    BY DEF Actor
  <2> DEFINE k == job'[f]
  <2>2. ASSUME NEW m \in JobRecord, m = job[f] PROVE ResultOK(m)'
    <3>1. ResultOK(m) /\ JobOK(f, m)
      BY <1>1, <2>1, <2>2 DEF ResultInv
    <3> QED
      BY <1>2, <2>1, <3>1
  <2>3. ASSUME NEW m, m = k PROVE ResultOK(m)'
    <3>1. m = Idle \/ m = job[f] \/ (x \in Fetch /\ m = j)
      BY <2>1, <2>3 DEF Turn
    <3> QED
      BY <1>1, <1>3, <2>1, <2>2, <3>1
  <2> QED
    BY <2>3 DEF ResultOK, Filled
<1>5. ASSUME NEW c \in Client PROVE GateOK(job[c])'
  <2>1. c \in Actor
    BY DEF Actor
  <2> DEFINE k == job'[c]
  <2>2. ASSUME NEW m \in JobRecord, m = job[c] PROVE GateOK(m)'
    <3>1. GateOK(m) /\ JobOK(c, m)
      BY <1>1, <2>1, <2>2 DEF GateInv
    <3> QED
      BY <1>2, <2>1, <3>1
  <2>3. ASSUME NEW m, m = k PROVE GateOK(m)'
    <3>1. m = Idle \/ m = job[c] \/ (x \in Client /\ m = j)
      BY <2>1, <2>3 DEF Turn
    <3> QED
      BY <1>1, <1>3, <2>1, <2>2, <3>1
  <2> QED
    BY <2>3 DEF GateOK
<1> QED
  BY <1>4, <1>5 DEF ResultInv, GateInv

TablesTyped ==
  /\ row \in [Id -> Rows] /\ edges \subseteq EdgeType \X Id \X Id
  /\ tasks \subseteq {"err", "resolution"} \X Label /\ tried \subseteq Label
  /\ calls \in 0 .. MaxCalls /\ slow \in 0 .. MaxSlow

\* A turn keeps the invariant that keeps the tables.
LEMMA TurnKeeps ==
  ASSUME EdgesInv, NEW x \in Actor, NEW j \in JobRecord, JobOK(x, j), Put(x, j), j.pc # "wait",
         x \in Fetch => /\ j.pc # "idle" /\ job[x].pc \notin {"idle", "settled"}
                        /\ j.pc # "settled" => j.to = job[x].to,
         LockMove(x, j), RowsStay, TablesTyped', EndsInv', TraceInv',
         x \in Fetch => ResultOK(j)', x \in Client => GateOK(j)'
  PROVE  EdgesInv'
<1>1. JobsInv' /\ WaitInv' /\ KeyInv' /\ Turn(x, j)
  BY PutTurns DEF EdgesInv
<1>2. LockInv' /\ lock' \in [Id -> Actor \cup {None}]
  BY <1>1, LocksMove DEF EdgesInv
<1>3. ResultInv' /\ GateInv'
  BY <1>1, RowsTurn DEF EdgesInv
<1>4. TypeInv'
  BY <1>1, <1>2 DEF TypeInv, TablesTyped
<1> QED
  BY <1>1, <1>2, <1>3, <1>4 DEF EdgesInv

\* Tables that only grow keep the traces and the keys.
LEMMA TablesGrow ==
  ASSUME TypeInv, EndsInv, TraceInv, RowsStay, edges \subseteq edges', tasks \subseteq tasks',
         \A d \in edges' \ edges : /\ d[2] \in Id /\ d[3] \in Id
                                   /\ row'[d[2]] # "none" /\ row'[d[3]] # "none",
         \A e \in tried' : e \in tried \/ Traced(e)'
  PROVE  EndsInv' /\ TraceInv'
<1>1. EndsInv'
  <2> SUFFICES ASSUME NEW d \in edges' PROVE row'[d[2]] # "none" /\ row'[d[3]] # "none"
    BY DEF EndsInv
  <2>1. CASE d \in edges
    <3>1. d[2] \in Id /\ d[3] \in Id
      BY <2>1 DEF TypeInv
    <3> QED
      BY <2>1, <3>1 DEF EndsInv, RowsStay
  <2> QED
    BY <2>1
<1>2. ASSUME NEW e \in tried' PROVE Traced(e)'
  <2>1. CASE e \in tried
    <3>1. e \in Id /\ Traced(e)
      BY <2>1 DEF TypeInv, TraceInv, Id
    <3>2. CASE Connected(e)
      BY <3>2 DEF Traced, Connected
    <3>3. CASE Filled(e)
      BY <3>1, <3>3 DEF Traced, Filled, RowsStay
    <3>4. CASE {<<"err", e>>, <<"resolution", e>>} \cap tasks # {}
      BY <3>4 DEF Traced
    <3> QED
      BY <3>1, <3>2, <3>3, <3>4 DEF Traced
  <2> QED
    BY <1>2, <2>1
<1> QED
  BY <1>1, <1>2 DEF TraceInv

\* The tables are left alone.
LEMMA TablesRest ==
  ASSUME TypeInv, EndsInv, TraceInv, UNCHANGED <<row, edges, tasks, tried>>,
         calls' \in 0 .. MaxCalls, slow' \in 0 .. MaxSlow
  PROVE  RowsStay /\ TablesTyped' /\ EndsInv' /\ TraceInv'
<1>1. RowsStay
  BY DEF RowsStay, Filled
<1>2. TablesTyped'
  BY DEF TypeInv, TablesTyped
<1>3. EndsInv' /\ TraceInv'
  BY <1>1, TablesGrow
<1> QED
  BY <1>1, <1>2, <1>3

LEMMA QuietTurn ==
  ASSUME EdgesInv, NEW x \in Actor, NEW j \in JobRecord, JobOK(x, j), Put(x, j), j.pc # "wait",
         x \in Fetch => /\ j.pc # "idle" /\ job[x].pc \notin {"idle", "settled"}
                        /\ j.pc # "settled" => j.to = job[x].to,
         LockMove(x, j), UNCHANGED <<row, edges, tasks, tried, slow>>, calls' \in 0 .. MaxCalls,
         x \in Fetch => ResultOK(j), x \in Client => GateOK(j)
  PROVE  EdgesInv'
<1>1. RowsStay /\ TablesTyped' /\ EndsInv' /\ TraceInv'
  BY TablesRest DEF EdgesInv, TypeInv
<1>2. (x \in Fetch => ResultOK(j)') /\ (x \in Client => GateOK(j)')
  BY DEF ResultOK, GateOK, Filled
<1> QED
  BY <1>1, <1>2, TurnKeeps


-----------------------------------------------------------------------------
(* The steps that change no table.                                           *)

LEMMA JobFacts ==
  ASSUME TypeInv, NEW x \in Actor
  PROVE  /\ job[x] \in JobRecord /\ JobOK(x, job[x])
         /\ job[x].todo \in Seq(Id) /\ job[x].thin \in Seq(Id)
         /\ x \in Client <=> x \notin Fetch
BY ActorAssumption DEF TypeInv, JobsInv, JobRecord, Actor

\* Who is in no position to hold an entity.
LEMMA NoLock ==
  ASSUME TypeInv, LockInv, NEW x \in Actor,
         x \in Client => job[x].kind # "fill" \/ job[x].pc = "lock",
         x \in Fetch => job[x].pc \notin Writing
  PROVE  \A e \in Id : lock[e] # x
BY DEF LockInv, Actor

LEMMA DoneIs ==
  ASSUME NEW x \in Actor, Done(x)
  PROVE  Put(x, Idle) /\ Unlock(x)
BY DEF Done

\* A client's call ends and the tables are left alone.
LEMMA DoneKeeps ==
  ASSUME EdgesInv, NEW x \in Client, Done(x), UNCHANGED <<row, edges, tasks, tried, calls, slow>>
  PROVE  EdgesInv'
<1>1. x \in Actor /\ x \notin Fetch /\ calls' \in 0 .. MaxCalls
  BY ActorAssumption DEF Actor, EdgesInv, TypeInv
<1>2. LockMove(x, Idle) /\ Put(x, Idle)
  BY <1>1 DEF LockMove, Done
<1>3. GateOK(Idle)
  BY DEF GateOK, Idle
<1> QED
  BY <1>1, <1>2, <1>3, IdleJob, QuietTurn

\* Where the edges to write are begun.
First(thin) == IF thin = <<>> THEN "edge" ELSE "ensure"

LEMMA FirstIs == ASSUME NEW thin PROVE First(thin) \in Pc /\ First(thin) \in {"edge", "ensure"}
                                       /\ (First(thin) = "ensure" <=> thin # <<>>)
BY DEF First, Pc

LEMMA WriteEdgesIs ==
  ASSUME NEW j \in JobRecord, NEW from \in Id \cup {None}, NEW thin \in Seq(Id), NEW todo \in Seq(Id)
  PROVE  IsSent(j, WriteEdges(j, from, thin, todo), First(thin), from, thin, todo)
<1>1. WriteEdges(j, from, thin, todo) = Sent(j, First(thin), from, thin, todo)
  BY Zenon DEF WriteEdges, Sent, First
<1>2. First(thin) \in Pc
  BY FirstIs
<1> QED
  BY <1>1, <1>2, SentIs

LEMMA StartsIs ==
  ASSUME NEW r \in Requests, NEW x \in Client
  PROVE  /\ Starts(r) \in JobRecord /\ JobOK(x, Starts(r)) /\ GateOK(Starts(r))
         /\ Starts(r).pc # "wait"
<1> DEFINE j == [Idle EXCEPT !.kind = r.kind, !.type = r.type, !.from = r.from, !.to = r.to,
                             !.old = r.old, !.flag = r.flag]
<1>1. /\ r.kind \in {"post", "rewrite", "fill", "action", "delete"} /\ r.type \in EdgeType
      /\ r.from \in Id /\ r.to \in Id /\ r.old \in Id /\ r.flag \in BOOLEAN
  BY DEF Requests
<1>2. /\ j \in JobRecord /\ j.kind = r.kind /\ j.type = r.type /\ j.from = r.from /\ j.to = r.to
      /\ j.old = r.old /\ j.flag = r.flag /\ j.pc = "idle" /\ j.todo = <<>> /\ j.thin = <<>>
      /\ j.target = None /\ j.then = "none" /\ j.waits = None /\ j.lost = FALSE /\ j.result = None
  BY <1>1, IdleJob DEF JobRecord, Idle
<1>3. x \notin Fetch
  BY ActorAssumption
<1> HIDE DEF j
<1>4. <<r.to>> \in Seq(Id) /\ <<r.to>> # <<>> /\ LazyRow(r.to) \in Seq(Id)
  BY <1>1 DEF LazyRow
<1>5. ASSUME NEW k \in JobRecord, k.kind = r.kind, k.type = r.type, k.from = r.from, k.to = r.to,
             k.then = "none" \/ (k.then = "resolved" /\ k.kind = "action"),
             k.waits = None, k.pc # "wait", k.pc # "idle", k.pc \notin {"settle", "settled", "persist"},
             k.pc \in {"ensure", "upsert"} => k.thin # <<>>,
             k.pc \in Asking => k.target \in Label /\ k.then # "none", Placed(k)
      PROVE  JobOK(x, k)
  BY <1>1, <1>3, <1>5 DEF JobOK
<1>6. ASSUME NEW from, from = r.from, NEW thin \in Seq(Id), NEW todo \in Seq(Id), r.kind \in {"post", "action"}
      PROVE  LET k == WriteEdges(j, from, thin, todo) IN
             k \in JobRecord /\ JobOK(x, k) /\ GateOK(k) /\ k.pc # "wait"
  <2> DEFINE k == WriteEdges(j, from, thin, todo)
  <2>1. IsSent(j, k, First(thin), from, thin, todo)
    BY <1>1, <1>2, <1>6, WriteEdgesIs
  <2> HIDE DEF k
  <2>2. /\ k \in JobRecord /\ k.pc \in {"edge", "ensure"} /\ (k.pc = "ensure" => k.thin # <<>>)
        /\ k.kind = j.kind /\ k.type = j.type /\ k.from = j.from /\ k.to = j.to /\ k.then = j.then
        /\ k.waits = j.waits
    BY <1>2, <1>6, <2>1, FirstIs DEF IsSent
  <2>3. Placed(k)
    BY <1>2, <1>6, <2>2 DEF Placed, Writing
  <2>4. JobOK(x, k)
    BY <1>2, <1>5, <1>6, <2>2, <2>3 DEF Asking
  <2>5. k.pc # "wait" /\ k.kind # "fill"
    BY <1>2, <1>6, <2>2
  <2>6. GateOK(k)
    BY <2>5 DEF GateOK
  <2> QED
    BY <2>2, <2>4, <2>5, <2>6 DEF k
<1>7. CASE r.kind = "post"
  <2>1. Starts(r) = WriteEdges(j, r.from, LazyRow(r.to), <<r.to>>)
    BY <1>7 DEF Starts, j
  <2> QED
    BY <1>4, <1>6, <1>7, <2>1
<1>8. CASE r.kind = "rewrite"
  <2> DEFINE pc == IF LazyRow(r.to) = <<>> THEN "rewrite" ELSE "ensure"
             k == Led(j, pc, LazyRow(r.to))
  <2>1. Starts(r) = k
    BY Zenon, <1>8 DEF Starts, Led, j
  <2>2. pc \in {"rewrite", "ensure"} /\ (pc = "ensure" => LazyRow(r.to) # <<>>)
    OBVIOUS
  <2> HIDE DEF pc
  <2>3. /\ k \in JobRecord /\ k.pc = pc /\ k.thin = LazyRow(r.to) /\ k.kind = j.kind /\ k.type = j.type
        /\ k.from = j.from /\ k.to = j.to /\ k.then = j.then /\ k.waits = j.waits
    <3>1. IsLed(j, k, pc, LazyRow(r.to))
      BY <1>2, <1>4, <2>2, LedIs DEF Pc
    <3> QED
      BY <3>1 DEF IsLed
  <2> HIDE DEF k
  <2>4. Placed(k)
    BY <1>2, <1>8, <2>2, <2>3 DEF Placed
  <2>5. JobOK(x, k)
    BY <1>2, <1>5, <2>2, <2>3, <2>4 DEF Asking
  <2> QED
    BY <1>2, <1>8, <2>1, <2>2, <2>3, <2>5 DEF GateOK
<1>9. CASE r.kind \in {"fill", "delete"}
  <2> DEFINE pc == IF r.kind = "fill" THEN "lock" ELSE "delete"
             k == At(j, pc)
  <2>1. Starts(r) = k
    <3>1. r.kind = "fill" \/ r.kind = "delete"
      BY <1>9
    <3> QED
      BY Zenon, <3>1 DEF Starts, At, j
  <2>2. pc \in {"lock", "delete"} /\ (pc = "lock" <=> r.kind = "fill")
    OBVIOUS
  <2> HIDE DEF pc
  <2>3. /\ k \in JobRecord /\ k.pc = pc /\ k.kind = j.kind /\ k.type = j.type
        /\ k.from = j.from /\ k.to = j.to /\ k.then = j.then /\ k.waits = j.waits
    <3>1. IsAt(j, k, pc)
      BY <1>2, <2>2, AtIs DEF Pc
    <3> QED
      BY <3>1 DEF IsAt
  <2> HIDE DEF k
  <2>4. Placed(k)
    BY <1>2, <1>9, <2>2, <2>3 DEF Placed
  <2>5. JobOK(x, k)
    BY <1>2, <1>5, <2>2, <2>3, <2>4 DEF Asking
  <2> QED
    BY <2>1, <2>2, <2>3, <2>5 DEF GateOK
<1>10. CASE r.kind = "action"
  <2>1. CASE r.flag \/ r.to \notin Label
    <3>1. Starts(r) = WriteEdges(j, r.from, <<r.to>>, <<r.to>>)
      BY <1>10, <2>1 DEF Starts, j
    <3> QED
      BY <1>4, <1>6, <1>10, <3>1
  <2>2. CASE ~(r.flag \/ r.to \notin Label)
    <3> DEFINE k == Asked(j, "begin", r.to, "resolved")
    <3>1. Starts(r) = k
      BY Zenon, <1>10, <2>2 DEF Starts, Asked, j
    <3>2. /\ k \in JobRecord /\ k.pc = "begin" /\ k.target = r.to /\ k.then = "resolved" /\ k.kind = j.kind
          /\ k.type = j.type /\ k.from = j.from /\ k.to = j.to /\ k.waits = j.waits
      <4>1. IsAsked(j, k, "begin", r.to, "resolved")
        BY <1>1, <1>2, <2>2, AskedIs DEF Pc
      <4> QED
        BY <4>1 DEF IsAsked
    <3> HIDE DEF k
    <3>3. Placed(k)
      BY <1>2, <1>10, <3>2 DEF Placed, Writing
    <3>4. JobOK(x, k)
      BY <1>2, <1>5, <1>10, <2>2, <3>2, <3>3
    <3> QED
      BY <1>2, <1>10, <3>1, <3>2, <3>4 DEF GateOK
  <2> QED
    BY <2>1, <2>2
<1> QED
  BY <1>1, <1>7, <1>8, <1>9, <1>10

LEMMA CallKeeps ==
  ASSUME EdgesInv, NEW x \in Client, NEW r \in Request, Call(x, r)
  PROVE  EdgesInv'
<1>1. r \in Requests
  BY InputAssumption
<1>2. PICK j \in JobRecord : j = Starts(r)
  BY <1>1, StartsIs
<1>3. JobOK(x, j) /\ GateOK(j) /\ j.pc # "wait" /\ Put(x, j)
  BY <1>1, <1>2, StartsIs DEF Call
<1>4. TypeInv /\ LockInv /\ x \in Actor /\ x \notin Fetch
  BY ActorAssumption DEF EdgesInv, Actor
<1>5. JobOK(x, job[x]) /\ job[x].pc = "idle"
  BY <1>4, JobFacts DEF Call
<1>6. \A e \in Id : lock[e] # x
  <2>1. job[x].kind # "fill"
    BY <1>5, IdleJob DEF JobOK
  <2> QED
    BY <1>4, <2>1, NoLock
<1>7. LockMove(x, j)
  BY <1>4, <1>6 DEF LockMove, Call
<1>8. calls' \in 0 .. MaxCalls /\ UNCHANGED <<row, edges, tasks, tried, slow>>
  BY <1>4, InputAssumption DEF Call, TypeInv
<1> QED
  BY <1>3, <1>4, <1>7, <1>8, QuietTurn


\* Who is where.
LEMMA PlaceOf ==
  ASSUME TypeInv, NEW x \in Actor
  PROVE  /\ job[x].pc \in {"lock", "gate", "recheck", "clear"} => x \in Client /\ job[x].kind = "fill"
         /\ job[x].pc = "rewrite" => x \in Client /\ job[x].kind = "rewrite"
         /\ job[x].pc = "delete" => x \in Client /\ job[x].kind = "delete"
         /\ job[x].pc = "resolved" => x \in Client /\ job[x].kind = "action"
         /\ job[x].pc \in {"fetch", "persist", "settle", "settled"} => x \in Fetch /\ job[x].kind = "fetch"
<1> PICK j : j = job[x]
  OBVIOUS
<1>1. JobOK(x, j) /\ j \in JobRecord
  BY JobFacts
<1>2. /\ x \in Client \/ x \in Fetch
      /\ x \in Client => j.kind # "fetch"
      /\ x \in Fetch => j.kind \in {"none", "fetch"}
  BY <1>1 DEF JobOK, Actor
<1>3. Placed(j) /\ j.kind \in {"none", "post", "rewrite", "fill", "action", "delete", "fetch"}
  BY <1>1 DEF JobOK, JobRecord
<1> QED
  BY <1>2, <1>3 DEF Placed, Writing

\* A turn that keeps its place among the locks.
LEMMA StaysPut ==
  ASSUME TypeInv, NEW x \in Actor, NEW k, lock' = lock, k.from = job[x].from, k.kind = job[x].kind,
         k.pc \in (Writing \cup {"resolved", "rewrite", "gate", "recheck", "clear"}),
         x \in Fetch => job[x].pc \in Writing /\ k.pc \in Writing
  PROVE  LockMove(x, k)
BY DEF LockMove, Writing

LEMMA FillLockKeeps ==
  ASSUME EdgesInv, NEW x \in Actor, FillLock(x)
  PROVE  EdgesInv'
<1> PICK j : j = job[x]
  OBVIOUS
<1>1. /\ TypeInv /\ LockInv /\ x \in Client /\ x \notin Fetch /\ j \in JobRecord /\ JobOK(x, j)
      /\ j.kind = "fill" /\ j.pc = "lock" /\ calls' \in 0 .. MaxCalls
      /\ UNCHANGED <<row, edges, tasks, tried, calls, slow>>
  BY JobFacts, PlaceOf DEF EdgesInv, FillLock, TypeInv
<1>2. CASE lock[j.from] # None \/ row[j.from] = "none"
  BY <1>1, <1>2, DoneKeeps DEF FillLock
<1>3. CASE ~(lock[j.from] # None \/ row[j.from] = "none")
  <2> DEFINE pc == IF j.flag \/ j.to \notin Label THEN "clear" ELSE "gate"
  <2>1. pc \in Pc /\ pc \in {"clear", "gate"} /\ (pc = "clear" <=> j.flag \/ j.to \notin Label)
    BY DEF Pc
  <2>2. Put(x, At(j, pc)) /\ lock' = [lock EXCEPT ![j.from] = x]
    BY Zenon, <1>3 DEF FillLock, At
  <2> HIDE DEF pc
  <2>3. PICK k : k = At(j, pc)
    OBVIOUS
  <2>4. IsAt(j, k, pc)
    BY <1>1, <2>1, <2>3, AtIs
  <2>5. /\ k \in JobRecord /\ k.pc = pc /\ k.kind = "fill" /\ k.from = j.from /\ k.to = j.to
        /\ k.type = j.type /\ k.flag = j.flag /\ k.then = j.then /\ k.waits = j.waits
    BY <1>1, <2>4 DEF IsAt
  <2>6. JobOK(x, k)
    <3>1. Placed(k)
      BY <2>1, <2>5 DEF Placed
    <3> QED
      BY <1>1, <2>1, <2>5, <3>1 DEF JobOK, Writing, Asking
  <2>7. LockMove(x, k)
    <3>1. \A e \in Id : lock[e] # x
      BY <1>1, NoLock
    <3>2. j.from \in Id
      BY <1>1 DEF JobOK
    <3> QED
      BY <1>1, <1>3, <2>1, <2>2, <2>5, <3>1, <3>2 DEF LockMove
  <2>8. GateOK(k)
    BY <2>1, <2>5 DEF GateOK
  <2> QED
    BY <1>1, <2>1, <2>2, <2>3, <2>5, <2>6, <2>7, <2>8, QuietTurn
<1> QED
  BY <1>2, <1>3


LEMMA GateKeeps ==
  ASSUME EdgesInv, NEW x \in Actor, Gate(x)
  PROVE  EdgesInv'
<1> PICK j : j = job[x]
  OBVIOUS
<1>1. /\ TypeInv /\ x \in Client /\ x \notin Fetch /\ j \in JobRecord /\ JobOK(x, j)
      /\ j.kind = "fill" /\ j.pc = "gate" /\ calls' \in 0 .. MaxCalls
      /\ UNCHANGED <<row, edges, lock, tasks, tried, calls, slow>>
  BY JobFacts, PlaceOf DEF EdgesInv, Gate, TypeInv
<1>2. j.type \in EdgeType /\ j.to \in Id /\ j.from \in Id /\ j.waits = None
  BY <1>1 DEF JobOK
<1>3. CASE row[j.to] # "none"
  <2>1. PICK k : k = At(j, "clear")
    OBVIOUS
  <2>2. Put(x, k)
    BY Zenon, <1>3, <2>1 DEF Gate, At
  <2>3. IsAt(j, k, "clear")
    BY <1>1, <2>1, AtIs DEF Pc
  <2>4. /\ k \in JobRecord /\ k.pc = "clear" /\ k.kind = "fill" /\ k.from = j.from /\ k.to = j.to
        /\ k.type = j.type /\ k.flag = j.flag /\ k.then = j.then /\ k.waits = j.waits
    BY <1>1, <2>3 DEF IsAt
  <2>5. JobOK(x, k)
    <3>1. Placed(k)
      BY <2>4 DEF Placed
    <3> QED
      BY <1>1, <1>2, <2>4, <3>1 DEF JobOK, Writing, Asking
  <2>6. LockMove(x, k)
    BY <1>1, <2>4, StaysPut
  <2>7. GateOK(k)
    BY <1>3, <2>4 DEF GateOK
  <2> QED
    BY <1>1, <2>2, <2>4, <2>5, <2>6, <2>7, QuietTurn
<1>4. CASE row[j.to] = "none"
  <2>1. PICK k : k = Asked(j, "probe", j.to, "recheck")
    OBVIOUS
  <2>2. Put(x, k)
    BY Zenon, <1>4, <2>1 DEF Gate, Asked
  <2>3. j.to \in Label
    <3>1. GateOK(j)
      BY <1>1 DEF EdgesInv, GateInv
    <3> QED
      BY <1>1, <3>1 DEF GateOK
  <2>4. IsAsked(j, k, "probe", j.to, "recheck")
    BY <1>1, <2>1, <2>3, AskedIs DEF Pc
  <2>5. /\ k \in JobRecord /\ k.pc = "probe" /\ k.kind = "fill" /\ k.from = j.from /\ k.to = j.to
        /\ k.type = j.type /\ k.flag = j.flag /\ k.then = "recheck" /\ k.waits = j.waits /\ k.target = j.to
    BY <1>1, <2>4 DEF IsAsked
  <2>6. JobOK(x, k)
    <3>1. Placed(k)
      BY <2>5 DEF Placed, Writing
    <3> QED
      BY <1>1, <1>2, <2>3, <2>5, <3>1 DEF JobOK, Writing, Asking
  <2>7. LockMove(x, k)
    BY <1>1, <2>5, StaysPut DEF Writing
  <2>8. GateOK(k)
    BY <2>5 DEF GateOK
  <2> QED
    BY <1>1, <2>2, <2>5, <2>6, <2>7, <2>8, QuietTurn
<1> QED
  BY <1>3, <1>4

LEMMA RecheckKeeps ==
  ASSUME EdgesInv, NEW x \in Actor, Recheck(x)
  PROVE  EdgesInv'
<1> PICK j : j = job[x]
  OBVIOUS
<1>1. /\ TypeInv /\ x \in Client /\ x \notin Fetch /\ j \in JobRecord /\ JobOK(x, j)
      /\ j.kind = "fill" /\ j.pc = "recheck" /\ calls' \in 0 .. MaxCalls
      /\ UNCHANGED <<row, edges, tasks, tried, calls, slow>>
  BY JobFacts, PlaceOf DEF EdgesInv, Recheck, TypeInv
<1>2. j.type \in EdgeType /\ j.to \in Id /\ j.from \in Id /\ j.waits = None
  BY <1>1 DEF JobOK
<1>3. CASE row[j.to] # "none"
  <2>1. PICK k : k = At(j, "clear")
    OBVIOUS
  <2>2. Put(x, k) /\ lock' = lock
    BY Zenon, <1>3, <2>1 DEF Recheck, At
  <2>3. IsAt(j, k, "clear")
    BY <1>1, <2>1, AtIs DEF Pc
  <2>4. /\ k \in JobRecord /\ k.pc = "clear" /\ k.kind = "fill" /\ k.from = j.from /\ k.to = j.to
        /\ k.type = j.type /\ k.flag = j.flag /\ k.then = j.then /\ k.waits = j.waits
    BY <1>1, <2>3 DEF IsAt
  <2>5. JobOK(x, k)
    <3>1. Placed(k)
      BY <2>4 DEF Placed
    <3> QED
      BY <1>1, <1>2, <2>4, <3>1 DEF JobOK, Writing, Asking
  <2>6. LockMove(x, k)
    BY <1>1, <2>2, <2>4, StaysPut
  <2>7. GateOK(k)
    BY <1>3, <2>4 DEF GateOK
  <2> QED
    BY <1>1, <2>2, <2>4, <2>5, <2>6, <2>7, QuietTurn
<1>4. CASE row[j.to] = "none"
  BY <1>1, <1>4, DoneKeeps DEF Recheck
<1> QED
  BY <1>3, <1>4


\* What is left to do when a row is there.
After(j) == IF Tail(j.thin) # <<>> THEN "ensure" ELSE IF j.kind = "rewrite" THEN "rewrite" ELSE "edge"

LEMMA EnsuredIs ==
  ASSUME NEW j \in JobRecord, j.thin # <<>>
  PROVE  IsLed(j, Ensured(j), After(j), Tail(j.thin)) /\ Tail(j.thin) \in Seq(Id) /\ Head(j.thin) \in Id
<1>1. j.thin \in Seq(Id)
  BY DEF JobRecord
<1>2. Tail(j.thin) \in Seq(Id) /\ Head(j.thin) \in Id
  BY <1>1
<1>3. After(j) \in Pc
  BY DEF After, Pc
<1>4. Ensured(j) = Led(j, After(j), Tail(j.thin))
  BY Zenon DEF Ensured, Led, After
<1> QED
  BY <1>2, <1>3, <1>4, LedIs

\* A step to the next row, or on to the edges.
LEMMA EnsuredOK ==
  ASSUME TypeInv, NEW x \in Actor, NEW j \in JobRecord, j = job[x], j.pc \in {"ensure", "upsert"},
         x \in Client => GateOK(j), NEW k, k = Ensured(j)
  PROVE  /\ k \in JobRecord /\ JobOK(x, k) /\ k.pc \in {"ensure", "rewrite", "edge"}
         /\ k.from = j.from /\ k.to = j.to
         /\ k.kind = "fill" => k.pc = "edge" \/ x \notin Client
         /\ lock' = lock => LockMove(x, k)
         /\ x \in Fetch => j.pc \in Writing /\ k.pc \in Writing
<1>1. JobOK(x, j) /\ j.thin # <<>>
  BY JobFacts DEF JobOK
<1>2. IsLed(j, k, After(j), Tail(j.thin))
  BY <1>1, EnsuredIs
<1>3. /\ k \in JobRecord /\ k.pc = After(j) /\ k.thin = Tail(j.thin) /\ k.kind = j.kind /\ k.type = j.type
      /\ k.from = j.from /\ k.to = j.to /\ k.flag = j.flag /\ k.then = j.then /\ k.waits = j.waits
      /\ k.target = j.target
  BY <1>2 DEF IsLed
<1>4. /\ k.pc \in {"ensure", "rewrite", "edge"} /\ (k.pc = "ensure" => k.thin # <<>>)
      /\ (k.pc = "rewrite" => k.kind = "rewrite") /\ (k.kind = "rewrite" => k.pc \in {"ensure", "rewrite"})
  BY <1>3 DEF After
<1>5. Placed(k)
  BY <1>1, <1>3, <1>4 DEF JobOK, Placed, Writing
<1>6. JobOK(x, k)
  BY <1>1, <1>3, <1>4, <1>5 DEF JobOK, Asking, Writing
<1>7. x \in Fetch => k.kind = "fetch"
  BY <1>1, <1>3 DEF JobOK, Placed
<1>8. x \in Fetch => j.pc \in Writing /\ k.pc \in Writing
  BY <1>4, <1>7 DEF Writing
<1>9. k.kind = "fill" /\ x \in Client => k.pc = "edge"
  <2> SUFFICES ASSUME k.kind = "fill", x \in Client PROVE k.pc = "edge"
    OBVIOUS
  <2>1. j.thin = <<j.to>>
    BY <1>3 DEF GateOK
  <2>2. Tail(j.thin) = <<>>
    BY <2>1
  <2> QED
    BY <1>3, <2>2 DEF After
<1>10. lock' = lock => LockMove(x, k)
  BY <1>3, <1>4, <1>8 DEF LockMove, Writing
<1> QED
  BY <1>3, <1>4, <1>6, <1>8, <1>9, <1>10

LEMMA ProbeRowKeeps ==
  ASSUME EdgesInv, NEW x \in Actor, ProbeRow(x)
  PROVE  EdgesInv'
<1> PICK j : j = job[x]
  OBVIOUS
<1>1. /\ TypeInv /\ j \in JobRecord /\ JobOK(x, j) /\ j.pc = "ensure" /\ calls' \in 0 .. MaxCalls
      /\ UNCHANGED <<row, edges, lock, tasks, tried, calls, slow>>
      /\ x \in Fetch => ResultOK(j) /\ j.kind = "fetch"
      /\ x \in Client => GateOK(j) /\ x \notin Fetch
  BY JobFacts DEF EdgesInv, ProbeRow, TypeInv, ResultInv, GateInv, JobOK, Placed
<1>2. CASE row[Head(j.thin)] # "none"
  <2>1. PICK k : k = Ensured(j)
    OBVIOUS
  <2>2. Put(x, k)
    BY <1>2, <2>1 DEF ProbeRow
  <2>3. /\ k \in JobRecord /\ JobOK(x, k) /\ k.pc \in {"ensure", "rewrite", "edge"} /\ k.from = j.from /\ k.to = j.to
        /\ LockMove(x, k)
        /\ k.kind = "fill" => k.pc = "edge" \/ x \notin Client
        /\ x \in Fetch => j.pc \in Writing /\ k.pc \in Writing
    BY <1>1, <2>1, EnsuredOK
  <2>4. x \in Fetch => ResultOK(k)
    BY <1>1, <2>3 DEF ResultOK
  <2>5. x \in Client => GateOK(k)
    BY <2>3 DEF GateOK
  <2> QED
    BY <1>1, <2>2, <2>3, <2>4, <2>5, QuietTurn
<1>3. CASE row[Head(j.thin)] = "none"
  <2>1. PICK k : k = At(j, "upsert")
    OBVIOUS
  <2>2. Put(x, k)
    BY Zenon, <1>3, <2>1 DEF ProbeRow, At
  <2>3. IsAt(j, k, "upsert")
    BY <1>1, <2>1, AtIs DEF Pc
  <2>4. /\ k \in JobRecord /\ k.pc = "upsert" /\ k.kind = j.kind /\ k.from = j.from /\ k.to = j.to /\ k.lost = j.lost
        /\ k.type = j.type /\ k.flag = j.flag /\ k.then = j.then /\ k.waits = j.waits /\ k.thin = j.thin
    BY <1>1, <2>3 DEF IsAt
  <2>5. JobOK(x, k)
    <3>1. Placed(k)
      BY <1>1, <2>4 DEF JobOK, Placed, Writing
    <3> QED
      BY <1>1, <2>4, <3>1 DEF JobOK, Writing, Asking
  <2>6. LockMove(x, k)
    BY <1>1, <2>4, StaysPut DEF Writing
  <2>7. x \in Fetch => ResultOK(k)
    BY <1>1, <2>4 DEF ResultOK, Writing
  <2>8. x \in Client => GateOK(k)
    <3> SUFFICES ASSUME x \in Client, k.kind = "fill" PROVE GateOK(k)
      BY DEF GateOK
    <3>1. j.thin = <<j.to>> /\ (~j.flag /\ j.to \in Label => row[j.to] # "none" \/ j.lost)
      BY <1>1, <2>4 DEF GateOK
    <3>2. Head(j.thin) = j.to
      BY <3>1
    <3> QED
      BY <1>3, <2>4, <3>1, <3>2 DEF GateOK
  <2> QED
    BY <1>1, <2>2, <2>4, <2>5, <2>6, <2>7, <2>8, QuietTurn
<1> QED
  BY <1>2, <1>3


LEMMA EdgeRefusedKeeps ==
  ASSUME EdgesInv, NEW x \in Actor, EdgeRefused(x)
  PROVE  EdgesInv'
<1> PICK j : j = job[x]
  OBVIOUS
<1>1. /\ TypeInv /\ j \in JobRecord /\ JobOK(x, j) /\ j.pc = "edge" /\ j.todo # <<>> /\ calls' \in 0 .. MaxCalls
      /\ UNCHANGED <<row, edges, tasks, tried, calls, slow>>
      /\ x \in Client <=> x \notin Fetch
      /\ x \in Fetch => ResultOK(j) /\ j.kind = "fetch"
  BY JobFacts DEF EdgesInv, EdgeRefused, TypeInv, ResultInv, JobOK, Placed
<1>2. CASE x \in Client
  BY <1>1, <1>2, DoneKeeps DEF EdgeRefused
<1>3. CASE x \in Fetch
  <2>1. PICK k : k = Left(j, Tail(j.todo))
    OBVIOUS
  <2>2. Put(x, k) /\ lock' = lock
    BY Zenon, <1>1, <1>3, <2>1 DEF EdgeRefused, Left
  <2>3. IsLeft(j, k, Tail(j.todo))
    <3>1. Tail(j.todo) \in Seq(Id)
      BY <1>1, JobFacts
    <3> QED
      BY <1>1, <2>1, <3>1, LeftIs
  <2>4. /\ k \in JobRecord /\ k.pc = "edge" /\ k.kind = j.kind /\ k.from = j.from /\ k.to = j.to
        /\ k.type = j.type /\ k.then = j.then /\ k.waits = j.waits
    BY <1>1, <2>3 DEF IsLeft
  <2>5. JobOK(x, k)
    <3>1. Placed(k)
      BY <1>1, <2>4 DEF JobOK, Placed, Writing
    <3> QED
      BY <1>1, <2>4, <3>1 DEF JobOK, Writing, Asking
  <2>6. LockMove(x, k)
    BY <1>1, <2>2, <2>4, StaysPut DEF Writing
  <2>7. ResultOK(k)
    BY <1>1, <1>3, <2>4 DEF ResultOK, Writing
  <2> QED
    BY <1>1, <1>3, <2>2, <2>4, <2>5, <2>6, <2>7, QuietTurn
<1> QED
  BY <1>1, <1>2, <1>3

LEMMA EdgesDoneKeeps ==
  ASSUME EdgesInv, NEW x \in Actor, EdgesDone(x)
  PROVE  EdgesInv'
<1> PICK j : j = job[x]
  OBVIOUS
<1>1. /\ TypeInv /\ j \in JobRecord /\ JobOK(x, j) /\ j.pc = "edge" /\ calls' \in 0 .. MaxCalls
      /\ UNCHANGED <<row, edges, tasks, tried, calls, slow>>
      /\ x \in Client <=> x \notin Fetch
      /\ x \in Fetch => ResultOK(j) /\ j.kind = "fetch"
  BY JobFacts DEF EdgesInv, EdgesDone, TypeInv, ResultInv, JobOK, Placed
<1>2. CASE x \in Client
  BY <1>1, <1>2, DoneKeeps DEF EdgesDone
<1>3. CASE x \in Fetch
  <2>1. PICK k : k = Ending(j, "settle", j.from)
    OBVIOUS
  <2>2. Put(x, k) /\ Unlock(x)
    BY Zenon, <1>1, <1>3, <2>1 DEF EdgesDone, Ending
  <2>3. j.from \in Label \cup Source /\ j.from # None
    BY <1>1, <1>3, IdAssumption DEF JobOK, Writing, Id
  <2>4. IsEnding(j, k, "settle", j.from)
    BY <1>1, <2>1, <2>3, EndingIs DEF Pc
  <2>5. /\ k \in JobRecord /\ k.pc = "settle" /\ k.kind = j.kind /\ k.from = j.from /\ k.to = j.to
        /\ k.type = j.type /\ k.then = j.then /\ k.waits = j.waits /\ k.result = j.from
    BY <1>1, <2>4 DEF IsEnding
  <2>6. JobOK(x, k)
    <3>1. Placed(k)
      BY <1>1, <1>3, <2>5 DEF Placed
    <3> QED
      BY <1>1, <1>3, <2>3, <2>5, <3>1 DEF JobOK, Writing, Asking
  <2>7. LockMove(x, k)
    BY <2>2, <2>5 DEF LockMove, Writing
  <2>8. ResultOK(k)
    BY <1>1, <1>3, <2>5 DEF ResultOK, Writing
  <2> QED
    BY <1>1, <1>3, <2>2, <2>5, <2>6, <2>7, <2>8, QuietTurn
<1> QED
  BY <1>1, <1>2, <1>3

LEMMA ProbeSourceKeeps ==
  ASSUME EdgesInv, NEW x \in Actor, ProbeSource(x)
  PROVE  EdgesInv'
<1> PICK j : j = job[x]
  OBVIOUS
<1>1. /\ TypeInv /\ j \in JobRecord /\ JobOK(x, j) /\ j.pc = "probe" /\ calls' \in 0 .. MaxCalls
      /\ UNCHANGED <<row, edges, lock, tasks, tried, calls, slow>>
      /\ x \in Client <=> x \notin Fetch
      /\ x \in Fetch => ResultOK(j) /\ j.kind = "fetch"
  BY JobFacts DEF EdgesInv, ProbeSource, TypeInv, ResultInv, JobOK, Placed
<1>2. j.target \in Label /\ j.then \in {"recheck", "edge", "resolved"}
  BY <1>1 DEF JobOK, Asking, JobRecord
<1>3. CASE Connected(j.target)
  <2>1. PICK k : k = Asked(j, j.then, None, "none")
    OBVIOUS
  <2>2. Put(x, k)
    BY Zenon, <1>3, <2>1 DEF ProbeSource, Asked
  <2>3. IsAsked(j, k, j.then, None, "none")
    BY <1>1, <1>2, <2>1, AskedIs DEF Pc
  <2>4. /\ k \in JobRecord /\ k.pc = j.then /\ k.kind = j.kind /\ k.from = j.from /\ k.to = j.to
        /\ k.type = j.type /\ k.then = "none" /\ k.waits = j.waits
    BY <1>1, <2>3 DEF IsAsked
  <2>5. Placed(k)
    BY <1>1, <1>2, <2>4 DEF JobOK, Placed, Writing
  <2>6. k.pc \in {"recheck", "edge", "resolved"} /\ (x \in Fetch => k.pc = "edge")
    BY <1>1, <1>2, <2>4 DEF JobOK
  <2>7. JobOK(x, k)
    BY <1>1, <2>4, <2>5, <2>6 DEF JobOK, Writing, Asking
  <2>8. LockMove(x, k)
    BY <1>1, <2>4, <2>6, StaysPut DEF Writing
  <2>9. x \in Fetch => ResultOK(k)
    BY <1>1, <2>4, <2>6 DEF ResultOK, Writing
  <2>10. x \in Client => GateOK(k)
    BY <2>6 DEF GateOK
  <2> QED
    BY <1>1, <2>2, <2>4, <2>6, <2>7, <2>8, <2>9, <2>10, QuietTurn
<1>4. CASE ~Connected(j.target)
  <2>1. PICK k : k = At(j, "begin")
    OBVIOUS
  <2>2. Put(x, k)
    BY Zenon, <1>4, <2>1 DEF ProbeSource, At
  <2>3. IsAt(j, k, "begin")
    BY <1>1, <2>1, AtIs DEF Pc
  <2>4. /\ k \in JobRecord /\ k.pc = "begin" /\ k.kind = j.kind /\ k.from = j.from /\ k.to = j.to
        /\ k.type = j.type /\ k.then = j.then /\ k.waits = j.waits /\ k.target = j.target
    BY <1>1, <2>3 DEF IsAt
  <2>5. JobOK(x, k)
    <3>1. Placed(k)
      BY <1>1, <2>4 DEF JobOK, Placed, Writing
    <3> QED
      BY <1>1, <1>2, <2>4, <3>1 DEF JobOK, Writing, Asking
  <2>6. LockMove(x, k)
    BY <1>1, <2>4, StaysPut DEF Writing
  <2>7. x \in Fetch => ResultOK(k)
    BY <1>1, <2>4 DEF ResultOK, Writing
  <2>8. x \in Client => GateOK(k)
    BY <2>4 DEF GateOK
  <2> QED
    BY <1>1, <2>2, <2>4, <2>5, <2>6, <2>7, <2>8, QuietTurn
<1> QED
  BY <1>3, <1>4

LEMMA FetchedKeeps ==
  ASSUME EdgesInv, NEW x \in Fetch, Fetched(x)
  PROVE  EdgesInv'
<1> PICK j : j = job[x]
  OBVIOUS
<1>1. /\ x \in Actor /\ TypeInv /\ LockInv /\ j \in JobRecord /\ JobOK(x, j) /\ j.pc = "fetch" /\ calls' \in 0 .. MaxCalls
      /\ UNCHANGED <<row, edges, lock, tasks, tried, calls, slow>>
      /\ x \notin Client
  BY JobFacts, ActorAssumption DEF EdgesInv, Fetched, TypeInv, Actor
<1>2. j.to \in Label /\ j.kind = "fetch"
  BY <1>1 DEF JobOK, Placed
<1>3. PICK a \in Upstream[j.to] :
        Put(x, IF a.entity = None
               THEN [j EXCEPT !.pc = "settle", !.result = IF a.options THEN "options" ELSE "error"]
               ELSE [j EXCEPT !.pc = "persist", !.from = a.entity, !.todo = a.links, !.thin = a.links])
  BY Zenon DEF Fetched
<1>4. a.entity \in Label \cup Source \cup {None} /\ a.links \in Seq(Id)
  BY <1>2, InputAssumption DEF Answers
<1>5. \A e \in Id : lock[e] # x
  BY <1>1, NoLock DEF Writing
<1>6. CASE a.entity = None
  <2> DEFINE result == IF a.options THEN "options" ELSE "error"
  <2>1. result \in {"options", "error"} /\ result \notin Label /\ result # None
    BY IdAssumption DEF Id
  <2>2. Put(x, Ending(j, "settle", result))
    BY Zenon, <1>3, <1>6 DEF Ending
  <2> HIDE DEF result
  <2>3. PICK k : k = Ending(j, "settle", result)
    OBVIOUS
  <2>4. IsEnding(j, k, "settle", result)
    BY <1>1, <2>1, <2>3, EndingIs DEF Pc
  <2>5. /\ k \in JobRecord /\ k.pc = "settle" /\ k.kind = j.kind /\ k.from = j.from /\ k.to = j.to
        /\ k.type = j.type /\ k.then = j.then /\ k.waits = j.waits /\ k.result = result
    BY <1>1, <2>4 DEF IsEnding
  <2>6. JobOK(x, k)
    <3>1. Placed(k)
      BY <1>2, <2>5 DEF Placed
    <3> QED
      BY <1>1, <2>1, <2>5, <3>1 DEF JobOK, Writing, Asking
  <2>7. LockMove(x, k)
    BY <1>1, <1>5, <2>5 DEF LockMove, Writing
  <2>8. ResultOK(k)
    BY <2>1, <2>5 DEF ResultOK, Writing
  <2> QED
    BY <1>1, <2>2, <2>3, <2>5, <2>6, <2>7, <2>8, QuietTurn
<1>7. CASE a.entity # None
  <2>1. PICK k : k = Sent(j, "persist", a.entity, a.links, a.links)
    OBVIOUS
  <2>2. Put(x, k)
    <3>1. Put(x, [j EXCEPT !.pc = "persist", !.from = a.entity, !.todo = a.links, !.thin = a.links])
      BY Zenon, <1>3, <1>7
    <3>2. [j EXCEPT !.pc = "persist", !.from = a.entity, !.todo = a.links, !.thin = a.links] = k
      BY Zenon, <1>1, <2>1 DEF Sent, JobRecord
    <3> QED
      BY Zenon, <3>1, <3>2
  <2>3. IsSent(j, k, "persist", a.entity, a.links, a.links)
    BY <1>1, <1>4, <2>1, SentIs DEF Pc, Id
  <2>4. /\ k \in JobRecord /\ k.pc = "persist" /\ k.kind = j.kind /\ k.from = a.entity /\ k.to = j.to
        /\ k.type = j.type /\ k.then = j.then /\ k.waits = j.waits
    BY <1>1, <2>3 DEF IsSent
  <2>5. JobOK(x, k)
    <3>1. Placed(k)
      BY <1>2, <2>4 DEF Placed
    <3> QED
      BY <1>1, <1>4, <1>7, <2>4, <3>1 DEF JobOK, Writing, Asking
  <2>6. LockMove(x, k)
    BY <1>1, <1>5, <2>4 DEF LockMove, Writing
  <2>7. ResultOK(k)
    BY <2>4 DEF ResultOK, Writing
  <2> QED
    BY <1>1, <2>2, <2>4, <2>5, <2>6, <2>7, QuietTurn
<1> QED
  BY <1>6, <1>7

LEMMA SettleKeeps ==
  ASSUME EdgesInv, NEW x \in Fetch, Settle(x)
  PROVE  EdgesInv'
<1> PICK j : j = job[x]
  OBVIOUS
<1>1. /\ x \in Actor /\ TypeInv /\ LockInv /\ j \in JobRecord /\ JobOK(x, j) /\ j.pc = "settle" /\ calls' \in 0 .. MaxCalls
      /\ UNCHANGED <<row, edges, lock, tasks, tried, calls, slow>>
      /\ x \notin Client /\ ResultOK(j)
  BY JobFacts, ActorAssumption DEF EdgesInv, Settle, TypeInv, Actor, ResultInv
<1>2. j.kind = "fetch"
  BY <1>1 DEF JobOK, Placed
<1>3. PICK k : k = Settled(j, "settled", None, None, None)
  OBVIOUS
<1>4. Put(x, k)
  BY Zenon, <1>3 DEF Settle, Settled
<1>5. IsSettled(j, k, "settled", None, None, None)
  BY <1>1, <1>3, SettledIs DEF Pc
<1>6. /\ k \in JobRecord /\ k.pc = "settled" /\ k.kind = j.kind /\ k.then = j.then /\ k.waits = j.waits
      /\ k.result = j.result /\ k.lost = j.lost
  BY <1>1, <1>5 DEF IsSettled
<1>7. JobOK(x, k)
  <2>1. Placed(k)
    BY <1>2, <1>6 DEF Placed
  <2> QED
    BY <1>1, <1>6, <2>1 DEF JobOK, Writing, Asking
<1>8. LockMove(x, k)
  <2>1. \A e \in Id : lock[e] # x
    BY <1>1, NoLock DEF Writing
  <2> QED
    BY <1>1, <1>6, <2>1 DEF LockMove, Writing
<1>9. ResultOK(k)
  BY <1>1, <1>6 DEF ResultOK, Writing
<1> QED
  BY <1>1, <1>4, <1>6, <1>7, <1>8, <1>9, QuietTurn


-----------------------------------------------------------------------------
(* The steps that add to the tables.                                         *)

LEMMA UpsertThinKeeps ==
  ASSUME EdgesInv, NEW x \in Actor, UpsertThin(x)
  PROVE  EdgesInv'
<1> PICK j : j = job[x]
  OBVIOUS
<1>1. /\ TypeInv /\ EndsInv /\ TraceInv /\ j \in JobRecord /\ JobOK(x, j) /\ j.pc = "upsert"
      /\ UNCHANGED <<edges, lock, tasks, tried, calls, slow>>
      /\ x \in Client <=> x \notin Fetch
      /\ x \in Fetch => ResultOK(j)
      /\ x \in Client => GateOK(j)
  BY JobFacts DEF EdgesInv, UpsertThin, ResultInv, GateInv
<1>2. PICK k : k = Ensured(j)
  OBVIOUS
<1>3. PICK e : e = Head(j.thin)
  OBVIOUS
<1>4. Put(x, k) /\ row' = [row EXCEPT ![e] = IF @ \in {"full", "wiped"} THEN "wiped" ELSE "thin"]
  BY <1>2, <1>3 DEF UpsertThin
<1>5. /\ k \in JobRecord /\ JobOK(x, k) /\ k.pc \in {"ensure", "rewrite", "edge"} /\ k.from = j.from /\ k.to = j.to
      /\ LockMove(x, k)
      /\ k.kind = "fill" => k.pc = "edge" \/ x \notin Client
      /\ x \in Fetch => j.pc \in Writing /\ k.pc \in Writing
  BY <1>1, <1>2, EnsuredOK
<1>6. e \in Id
  BY <1>1, <1>3, EnsuredIs DEF JobOK
<1>7. RowsStay /\ row' \in [Id -> Rows]
  BY <1>1, <1>4, <1>6 DEF RowsStay, Filled, TypeInv, Rows
<1>8. EndsInv' /\ TraceInv'
  BY <1>1, <1>7, TablesGrow
<1>9. TablesTyped'
  BY <1>1, <1>7 DEF TablesTyped, TypeInv
<1>10. x \in Fetch => ResultOK(k)'
  <2> SUFFICES ASSUME x \in Fetch PROVE Filled(k.from)'
    BY <1>5 DEF ResultOK
  <2>1. Filled(j.from) /\ j.from \in Id
    BY <1>1, <1>5 DEF ResultOK, JobOK, Id
  <2> QED
    BY <1>5, <1>7, <2>1 DEF RowsStay, Filled
<1>11. x \in Client => GateOK(k)'
  BY <1>5 DEF GateOK
<1> QED
  BY <1>1, <1>4, <1>5, <1>7, <1>8, <1>9, <1>10, <1>11, TurnKeeps

LEMMA CreateEdgeKeeps ==
  ASSUME EdgesInv, NEW x \in Actor, CreateEdge(x)
  PROVE  EdgesInv'
<1> PICK j : j = job[x]
  OBVIOUS
<1>1. /\ TypeInv /\ EndsInv /\ TraceInv /\ j \in JobRecord /\ JobOK(x, j) /\ j.pc = "edge" /\ j.todo # <<>>
      /\ UNCHANGED <<row, lock, tasks, tried, calls, slow>>
      /\ x \in Client <=> x \notin Fetch
      /\ x \in Fetch => ResultOK(j) /\ j.kind = "fetch"
      /\ x \in Client => GateOK(j)
  BY JobFacts DEF EdgesInv, CreateEdge, ResultInv, GateInv, JobOK, Placed
<1>2. PICK to : to = Head(j.todo)
  OBVIOUS
<1>3. /\ "none" \notin {row[j.from], row[to]}
      /\ edges' = edges \cup {<<j.type, j.from, to>>}
  BY <1>2 DEF CreateEdge
<1>4. to \in Id /\ Tail(j.todo) \in Seq(Id) /\ j.from \in Id /\ j.type \in EdgeType
  <2>1. to \in Id /\ Tail(j.todo) \in Seq(Id)
    BY <1>1, <1>2, JobFacts
  <2>2. j.from \in Id /\ j.type \in EdgeType
    BY <1>1 DEF JobOK, Writing, Id
  <2> QED
    BY <2>1, <2>2
<1>5. RowsStay
  BY <1>1 DEF RowsStay, Filled
<1>6. EndsInv' /\ TraceInv'
  <2>1. \A d \in edges' \ edges : d[2] = j.from /\ d[3] = to
    BY <1>3
  <2>2. /\ edges \subseteq edges' /\ tasks \subseteq tasks' /\ tried' = tried
        /\ \A d \in edges' \ edges : /\ d[2] \in Id /\ d[3] \in Id
                                     /\ row'[d[2]] # "none" /\ row'[d[3]] # "none"
    BY <1>1, <1>3, <1>4, <2>1
  <2> QED
    BY <1>1, <1>5, <2>2, TablesGrow
<1>7. TablesTyped'
  BY <1>1, <1>3, <1>4 DEF TablesTyped, TypeInv
<1>8. ASSUME NEW k \in JobRecord, Put(x, k), k.pc \in {"edge", "probe"}, k.kind = j.kind, k.type = j.type,
             k.from = j.from, k.to = j.to, k.waits = j.waits,
             k.pc = "probe" => k.target \in Label, k.then = "edge" \/ (k.pc = "edge" /\ k.then = j.then)
      PROVE  EdgesInv'
  <2>1. Placed(k)
    BY <1>1, <1>8 DEF JobOK, Placed, Writing
  <2>2. JobOK(x, k)
    BY <1>1, <1>8, <2>1 DEF JobOK, Writing, Asking
  <2>3. LockMove(x, k)
    BY <1>1, <1>8, StaysPut DEF Writing
  <2>4. x \in Fetch => ResultOK(k)'
    BY <1>1, <1>8 DEF ResultOK, Writing, Filled
  <2>5. x \in Client => GateOK(k)'
    BY <1>8 DEF GateOK
  <2> QED
    BY <1>1, <1>5, <1>6, <1>7, <1>8, <2>2, <2>3, <2>4, <2>5, TurnKeeps
<1>9. CASE j.from \in Canonical /\ to \in Label
  <2>1. PICK k : k = Probing(j, Tail(j.todo), "probe", to, "edge")
    OBVIOUS
  <2>2. Put(x, k)
    BY Zenon, <1>2, <1>9, <2>1 DEF CreateEdge, Probing
  <2>3. IsProbing(j, k, Tail(j.todo), "probe", to, "edge")
    BY <1>1, <1>4, <1>9, <2>1, ProbingIs DEF Pc
  <2> QED
    BY <1>1, <1>8, <1>9, <2>2, <2>3 DEF IsProbing
<1>10. CASE ~(j.from \in Canonical /\ to \in Label)
  <2>1. PICK k : k = Left(j, Tail(j.todo))
    OBVIOUS
  <2>2. Put(x, k)
    BY Zenon, <1>2, <1>10, <2>1 DEF CreateEdge, Left
  <2>3. IsLeft(j, k, Tail(j.todo))
    BY <1>1, <1>4, <2>1, LeftIs
  <2> QED
    BY <1>1, <1>8, <2>2, <2>3 DEF IsLeft
<1> QED
  BY <1>9, <1>10

LEMMA ResolvedEdgeKeeps ==
  ASSUME EdgesInv, NEW x \in Actor, ResolvedEdge(x)
  PROVE  EdgesInv'
<1> PICK j : j = job[x]
  OBVIOUS
<1>1. /\ TypeInv /\ EndsInv /\ TraceInv /\ j \in JobRecord /\ JobOK(x, j) /\ j.pc = "resolved" /\ x \in Client
      /\ UNCHANGED <<row, tasks, tried, calls, slow>>
      /\ x \notin Fetch
  BY JobFacts, PlaceOf DEF EdgesInv, ResolvedEdge
<1>2. /\ edges' = IF "none" \in {row[j.from], row[j.to]} THEN edges ELSE edges \cup {<<j.type, j.from, j.to>>}
      /\ Put(x, Idle) /\ Unlock(x)
  BY DEF ResolvedEdge, Done
<1>3. j.from \in Id /\ j.to \in Id /\ j.type \in EdgeType
  BY <1>1 DEF JobOK
<1>4. RowsStay
  BY <1>1 DEF RowsStay, Filled
<1>5. EndsInv' /\ TraceInv'
  <2>1. /\ edges \subseteq edges' /\ tasks \subseteq tasks' /\ tried' = tried
        /\ \A d \in edges' \ edges : /\ d[2] \in Id /\ d[3] \in Id
                                     /\ row'[d[2]] # "none" /\ row'[d[3]] # "none"
    BY <1>1, <1>2, <1>3
  <2> QED
    BY <1>1, <1>4, <2>1, TablesGrow
<1>6. TablesTyped'
  BY <1>1, <1>2, <1>3 DEF TablesTyped, TypeInv
<1>7. LockMove(x, Idle)
  BY <1>1, <1>2 DEF LockMove
<1>8. GateOK(Idle)'
  BY IdleJob DEF GateOK
<1> QED
  BY <1>1, <1>2, <1>4, <1>5, <1>6, <1>7, <1>8, IdleJob, TurnKeeps

LEMMA PersistKeeps ==
  ASSUME EdgesInv, NEW x \in Fetch, Persist(x)
  PROVE  EdgesInv'
<1> PICK j : j = job[x]
  OBVIOUS
<1>1. /\ x \in Actor /\ TypeInv /\ LockInv /\ EndsInv /\ TraceInv /\ j \in JobRecord /\ JobOK(x, j) /\ j.pc = "persist"
      /\ UNCHANGED <<edges, tasks, tried, calls, slow>> /\ calls' \in 0 .. MaxCalls
      /\ x \notin Client
  BY JobFacts, ActorAssumption DEF EdgesInv, Persist, TypeInv, Actor
<1>2. /\ j.kind = "fetch" /\ j.from \in Label \cup Source /\ j.from \in Id
      /\ j.thin \in Seq(Id) /\ j.todo \in Seq(Id) /\ <<>> \in Seq(Id)
  BY <1>1, JobFacts DEF JobOK, Placed, Id
<1>3. \A e \in Id : lock[e] # x
  BY <1>1, NoLock DEF Writing
<1>4. CASE lock[j.from] # None
  <2>1. PICK k : k = Refused(j, "settle", "error", None, <<>>, <<>>)
    OBVIOUS
  <2>2. Put(x, k) /\ UNCHANGED <<row, lock>>
    BY Zenon, <1>4, <2>1 DEF Persist, Refused
  <2>3. IsRefused(j, k, "settle", "error", None, <<>>, <<>>)
    BY <1>1, <1>2, <2>1, RefusedIs DEF Pc
  <2>4. /\ k \in JobRecord /\ k.pc = "settle" /\ k.kind = j.kind /\ k.to = j.to
        /\ k.type = j.type /\ k.then = j.then /\ k.waits = j.waits /\ k.result = "error"
    BY <1>1, <2>3 DEF IsRefused
  <2>5. "error" \notin Label /\ "error" # None
    BY IdAssumption DEF Id
  <2>6. JobOK(x, k)
    <3>1. Placed(k)
      BY <1>2, <2>4 DEF Placed
    <3> QED
      BY <1>1, <2>4, <2>5, <3>1 DEF JobOK, Writing, Asking
  <2>7. LockMove(x, k)
    BY <1>1, <1>3, <2>2, <2>4 DEF LockMove, Writing
  <2>8. ResultOK(k)
    BY <2>4, <2>5 DEF ResultOK, Writing
  <2> QED
    BY <1>1, <2>2, <2>4, <2>6, <2>7, <2>8, QuietTurn
<1>5. CASE lock[j.from] = None
  <2>1. PICK k : k = WriteEdges(j, j.from, j.thin, j.todo)
    OBVIOUS
  <2>2. Put(x, k) /\ lock' = [lock EXCEPT ![j.from] = x] /\ row' = [row EXCEPT ![j.from] = "full"]
    BY <1>5, <2>1 DEF Persist
  <2>3. IsSent(j, k, First(j.thin), j.from, j.thin, j.todo)
    BY <1>1, <1>2, <2>1, WriteEdgesIs
  <2>4. /\ k \in JobRecord /\ k.pc = First(j.thin) /\ k.kind = j.kind /\ k.from = j.from /\ k.to = j.to
        /\ k.type = j.type /\ k.then = j.then /\ k.waits = j.waits /\ k.thin = j.thin
    BY <1>1, <2>3 DEF IsSent
  <2>5. k.pc \in {"edge", "ensure"} /\ (k.pc = "ensure" => k.thin # <<>>)
    BY <2>4, FirstIs
  <2>6. JobOK(x, k)
    <3>1. Placed(k)
      BY <1>2, <2>4, <2>5 DEF Placed, Writing
    <3> QED
      BY <1>1, <1>2, <2>4, <2>5, <3>1 DEF JobOK, Writing, Asking
  <2>7. LockMove(x, k)
    BY <1>1, <1>2, <1>3, <1>5, <2>2, <2>4, <2>5 DEF LockMove, Writing
  <2>8. RowsStay /\ row' \in [Id -> Rows] /\ row'[j.from] = "full"
    BY <1>1, <1>2, <2>2 DEF RowsStay, Filled, TypeInv, Rows
  <2>9. EndsInv' /\ TraceInv'
    BY <1>1, <2>8, TablesGrow
  <2>10. TablesTyped'
    BY <1>1, <2>8 DEF TablesTyped, TypeInv
  <2>11. ResultOK(k)'
    BY <2>4, <2>5, <2>8 DEF ResultOK, Filled
  <2> QED
    BY <1>1, <2>2, <2>4, <2>5, <2>6, <2>7, <2>8, <2>9, <2>10, <2>11, TurnKeeps
<1> QED
  BY <1>4, <1>5


-----------------------------------------------------------------------------
(* The steps that take edges away.                                           *)

\* A label that keeps the edges of the plugins' entities, and its row, keeps its trace.
LEMMA TracesShrink ==
  ASSUME TraceInv, tried' \subseteq tried, tried' \cap CutOff(edges') = {}, tasks' = tasks,
         \A e \in tried' : row'[e] = row[e]
  PROVE  TraceInv'
<1> SUFFICES ASSUME NEW e \in tried' PROVE Traced(e)'
  BY DEF TraceInv
<1>1. Traced(e) /\ row'[e] = row[e]
  BY DEF TraceInv
<1>2. CASE Connected(e)
  <2>1. PICK d \in edges : d[3] = e /\ d[2] \notin Canonical
    BY <1>2 DEF Connected
  <2>2. d \in edges'
    BY <2>1 DEF CutOff
  <2> QED
    BY <2>1, <2>2 DEF Traced, Connected
<1>3. CASE Filled(e)
  BY <1>1, <1>3 DEF Traced, Filled
<1>4. CASE {<<"err", e>>, <<"resolution", e>>} \cap tasks # {}
  BY <1>4 DEF Traced
<1> QED
  BY <1>1, <1>2, <1>3, <1>4 DEF Traced

LEMMA RewriteKeeps ==
  ASSUME EdgesInv, NEW x \in Actor, Rewrite(x)
  PROVE  EdgesInv'
<1> PICK j : j = job[x]
  OBVIOUS
<1>1. /\ TypeInv /\ EndsInv /\ TraceInv /\ j \in JobRecord /\ JobOK(x, j) /\ j.pc = "rewrite" /\ x \in Client
      /\ UNCHANGED <<row, tasks, calls, slow>> /\ tried' = tried \ CutOff(edges')
      /\ x \notin Fetch
  BY JobFacts, PlaceOf DEF EdgesInv, Rewrite
<1> DEFINE old == <<j.type, j.from, j.old>>
           new == <<j.type, j.from, j.to>>
<1>2. /\ edges' = IF old \in edges /\ new \notin edges /\ row[j.to] # "none"
                  THEN (edges \ {old}) \cup {new} ELSE edges
      /\ Put(x, Idle) /\ Unlock(x)
  BY DEF Rewrite, Done
<1>3. j.from \in Id /\ j.to \in Id /\ j.type \in EdgeType
  BY <1>1 DEF JobOK
<1>4. RowsStay
  BY <1>1 DEF RowsStay, Filled
<1>5. TraceInv'
  <2>1. tried' \subseteq tried /\ tried' \cap CutOff(edges') = {}
    BY <1>1
  <2> QED
    BY <1>1, <2>1, TracesShrink
<1>6. EndsInv'
  <2> SUFFICES ASSUME NEW d \in edges' PROVE row'[d[2]] # "none" /\ row'[d[3]] # "none"
    BY DEF EndsInv
  <2>1. CASE d \in edges
    BY <1>1, <2>1 DEF EndsInv
  <2>2. CASE d \notin edges
    <3>1. d = new /\ old \in edges /\ row[j.to] # "none"
      BY <1>2, <2>2
    <3>2. row[old[2]] # "none"
      BY <1>1, <3>1 DEF EndsInv
    <3>3. row[j.from] # "none"
      BY <3>2
    <3> QED
      BY <1>1, <3>1, <3>3
  <2> QED
    BY <2>1, <2>2
<1>7. TablesTyped'
  BY <1>1, <1>2, <1>3 DEF TablesTyped, TypeInv
<1>8. LockMove(x, Idle)
  BY <1>1, <1>2 DEF LockMove
<1>9. GateOK(Idle)'
  BY IdleJob DEF GateOK
<1> QED
  BY <1>1, <1>2, <1>4, <1>5, <1>6, <1>7, <1>8, <1>9, IdleJob, TurnKeeps

LEMMA FillClearKeeps ==
  ASSUME EdgesInv, NEW x \in Actor, FillClear(x)
  PROVE  EdgesInv'
<1> PICK j : j = job[x]
  OBVIOUS
<1>1. /\ TypeInv /\ EndsInv /\ TraceInv /\ j \in JobRecord /\ JobOK(x, j) /\ j.pc = "clear" /\ x \in Client
      /\ j.kind = "fill" /\ GateOK(j)
      /\ UNCHANGED <<row, lock, tasks, calls, slow>> /\ tried' = tried \ CutOff(edges')
      /\ x \notin Fetch
  BY JobFacts, PlaceOf DEF EdgesInv, FillClear, GateInv
<1>2. PICK k : k = WriteEdges(j, j.from, <<j.to>>, <<j.to>>)
  OBVIOUS
<1>3. Put(x, k) /\ edges' \subseteq edges
  BY <1>2 DEF FillClear
<1>4. j.from \in Id /\ j.to \in Id /\ j.type \in EdgeType /\ <<j.to>> \in Seq(Id) /\ <<j.to>> # <<>>
  BY <1>1 DEF JobOK
<1>5. IsSent(j, k, First(<<j.to>>), j.from, <<j.to>>, <<j.to>>) /\ First(<<j.to>>) = "ensure"
  BY <1>1, <1>2, <1>4, WriteEdgesIs, FirstIs
<1>6. /\ k \in JobRecord /\ k.pc = "ensure" /\ k.kind = j.kind /\ k.from = j.from /\ k.to = j.to /\ k.flag = j.flag
      /\ k.type = j.type /\ k.then = j.then /\ k.waits = j.waits /\ k.thin = <<j.to>> /\ k.lost = j.lost
  BY <1>1, <1>5 DEF IsSent
<1>7. JobOK(x, k)
  <2>1. Placed(k)
    BY <1>1, <1>6 DEF Placed, Writing
  <2> QED
    BY <1>1, <1>4, <1>6, <2>1 DEF JobOK, Writing, Asking
<1>8. LockMove(x, k)
  BY <1>1, <1>6, StaysPut DEF Writing
<1>9. RowsStay
  BY <1>1 DEF RowsStay, Filled
<1>10. TraceInv'
  <2>1. tried' \subseteq tried /\ tried' \cap CutOff(edges') = {}
    BY <1>1
  <2> QED
    BY <1>1, <2>1, TracesShrink
<1>11. EndsInv' /\ TablesTyped'
  BY <1>1, <1>3 DEF EndsInv, TablesTyped, TypeInv
<1>12. GateOK(k)'
  BY <1>1, <1>6 DEF GateOK
<1> QED
  BY <1>1, <1>3, <1>6, <1>7, <1>8, <1>9, <1>10, <1>11, <1>12, TurnKeeps


-----------------------------------------------------------------------------
(* The end of a dispatch.                                                    *)

LEMMA EndedKeeps ==
  ASSUME EdgesInv, NEW x \in Actor, job[x].pc = "wait", NEW o \in Label \cup {"options", "error"},
         NEW spent \in Nat, Ended(x, o, spent), UNCHANGED <<row, edges, lock, calls>>,
         o \in Label => job[job[x].waits].lost \/ Connected(o) \/ Filled(o)
  PROVE  EdgesInv'
<1> PICK j : j = job[x]
  OBVIOUS
<1>1. /\ TypeInv /\ LockInv /\ EndsInv /\ TraceInv /\ j \in JobRecord /\ JobOK(x, j) /\ j.pc = "wait"
      /\ x \in Client <=> x \notin Fetch
      /\ x \in Fetch => ResultOK(j) /\ j.kind = "fetch"
  BY JobFacts DEF EdgesInv, ResultInv, JobOK, Placed
<1>2. /\ j.target \in Label /\ j.then \in {"recheck", "edge", "resolved"} /\ j.type \in EdgeType /\ j.to \in Id
      /\ j.then = "resolved" => x \in Client /\ j.kind = "action" /\ j.from \in Id
      /\ {"options", "error"} \cap Id = {}
  BY <1>1, IdAssumption DEF JobOK, Asking, JobRecord
<1>3. o \in Id <=> o \in Label
  BY <1>2 DEF Id
<1>4. PICK task : task = CASE o = "options" -> {<<"resolution", j.target>>}
                           [] o = "error" /\ j.then # "resolved" -> {<<"err", j.target>>}
                           [] OTHER -> {}
  OBVIOUS
<1>5. PICK written \in SUBSET task :
        /\ tasks' = tasks \cup written
        /\ slow' = spent + (IF written = task THEN 0 ELSE 1) /\ slow' <= MaxSlow
        /\ IF j.then = "resolved"
           THEN /\ IF o \in {"options", "error"} THEN Put(x, Idle)
                   ELSE Put(x, Solved(j, "resolved", o, None, "none", None))
                /\ tried' = tried
           ELSE /\ Put(x, Back(j, j.then, None, "none", None))
                /\ tried' = IF j.lost \/ job[j.waits].lost \/ written # task THEN tried
                            ELSE tried \cup {IF o \in Id THEN o ELSE j.target}
  BY Zenon, <1>4 DEF Ended, Solved, Back
<1>6. /\ task \subseteq {"err", "resolution"} \X Label
      /\ o \notin Label /\ j.then # "resolved" => task \cap {<<"err", j.target>>, <<"resolution", j.target>>} # {}
  <2>1. CASE o = "options"
    <3>1. task = {<<"resolution", j.target>>}
      BY <1>4, <2>1
    <3> QED
      BY <1>2, <3>1
  <2>2. CASE o = "error" /\ j.then # "resolved"
    <3>1. task = {<<"err", j.target>>}
      BY <1>4, <2>2
    <3> QED
      BY <1>2, <3>1
  <2>3. CASE o # "options" /\ ~(o = "error" /\ j.then # "resolved")
    <3>1. task = {}
      BY <1>4, <2>3
    <3> QED
      BY <2>3, <3>1
  <2> QED
    BY <2>1, <2>2, <2>3
<1>7. slow' \in 0 .. MaxSlow
  BY <1>5, InputAssumption
<1>8. RowsStay
  BY DEF RowsStay, Filled
<1>9. CASE j.then = "resolved"
  <2>1. /\ IF o \in {"options", "error"} THEN Put(x, Idle)
           ELSE Put(x, Solved(j, "resolved", o, None, "none", None))
        /\ tried' = tried
    BY <1>5, <1>9
  <2>2. EndsInv' /\ TraceInv'
    BY <1>1, <1>5, <1>8, <2>1, TablesGrow
  <2>3. TablesTyped'
    BY <1>1, <1>5, <1>6, <1>7, <2>1 DEF TablesTyped, TypeInv
  <2>4. CASE o \in {"options", "error"}
    <3>1. \A e \in Id : lock[e] # x
      BY <1>1, <1>2, <1>9, NoLock
    <3>2. LockMove(x, Idle)
      BY <1>1, <1>2, <1>9, <3>1 DEF LockMove
    <3>3. GateOK(Idle)'
      BY IdleJob DEF GateOK
    <3>4. Put(x, Idle)
      BY <2>1, <2>4
    <3> QED
      BY <1>1, <1>2, <1>8, <1>9, <2>2, <2>3, <3>2, <3>3, <3>4, IdleJob, TurnKeeps
  <2>5. CASE o \notin {"options", "error"}
    <3>1. PICK k : k = Solved(j, "resolved", o, None, "none", None)
      OBVIOUS
    <3>2. Put(x, k) /\ o \in Label /\ o \in Id
      BY <1>3, <2>1, <2>5, <3>1
    <3>3. IsSolved(j, k, "resolved", o, None, "none", None)
      BY <1>1, <3>1, <3>2, SolvedIs DEF Pc
    <3>4. /\ k \in JobRecord /\ k.pc = "resolved" /\ k.kind = j.kind /\ k.from = j.from /\ k.to = o
          /\ k.type = j.type /\ k.then = "none" /\ k.waits = None
      BY <1>1, <3>3 DEF IsSolved
    <3>5. JobOK(x, k)
      <4>1. Placed(k)
        BY <1>2, <1>9, <3>4 DEF Placed
      <4> QED
        BY <1>1, <1>2, <1>9, <3>2, <3>4, <4>1 DEF JobOK, Writing, Asking
    <3>6. LockMove(x, k)
      BY <1>1, <1>2, <1>9, <3>4, StaysPut
    <3>7. GateOK(k)'
      BY <1>2, <1>9, <3>4 DEF GateOK
    <3> QED
      BY <1>1, <1>2, <1>8, <1>9, <2>2, <2>3, <3>2, <3>4, <3>5, <3>6, <3>7, TurnKeeps
  <2> QED
    BY <2>4, <2>5
<1>10. CASE j.then # "resolved"
  <2>1. PICK k : k = Back(j, j.then, None, "none", None)
    OBVIOUS
  <2>2. /\ Put(x, k)
        /\ tried' = IF j.lost \/ job[j.waits].lost \/ written # task THEN tried
                    ELSE tried \cup {IF o \in Id THEN o ELSE j.target}
    BY <1>5, <1>10, <2>1
  <2>3. tried' \subseteq Label
    BY <1>1, <1>2, <1>3, <2>2 DEF TypeInv
  <2>4. \A e \in tried' : e \in tried \/ Traced(e)'
    <3> SUFFICES ASSUME NEW e \in tried', e \notin tried PROVE Traced(e)'
      OBVIOUS
    <3>1. CASE o \in Label
      <4>1. e = o /\ (Connected(o) \/ Filled(o))
        BY <1>3, <2>2, <3>1
      <4> QED
        BY <4>1 DEF Traced, Connected, Filled
    <3>2. CASE o \notin Label
      <4>1. e = j.target
        BY <1>3, <2>2, <3>2
      <4>2. written = task
        BY <2>2
      <4>3. {<<"err", e>>, <<"resolution", e>>} \cap tasks' # {}
        BY <1>5, <1>6, <1>10, <3>2, <4>1, <4>2
      <4> QED
        BY <4>3 DEF Traced
    <3> QED
      BY <3>1, <3>2
  <2>5. EndsInv' /\ TraceInv'
    BY <1>1, <1>5, <1>8, <2>4, TablesGrow
  <2>6. TablesTyped'
    BY <1>1, <1>5, <1>6, <1>7, <2>3 DEF TablesTyped, TypeInv
  <2>7. IsBack(j, k, j.then, None, "none", None)
    <3>1. j.then \in Pc
      BY <1>2 DEF Pc
    <3>2. None \in Label \cup {None} /\ "none" \in {"none", "recheck", "edge", "resolved"} /\ None \in Fetch \cup {None}
      OBVIOUS
    <3> QED
      BY Zenon, <1>1, <2>1, <3>1, <3>2, BackIs
  <2>8. /\ k \in JobRecord /\ k.pc = j.then /\ k.kind = j.kind /\ k.from = j.from /\ k.to = j.to
        /\ k.type = j.type /\ k.then = "none" /\ k.waits = None
    BY <1>1, <2>7 DEF IsBack
  <2>9. k.pc \in {"recheck", "edge"} /\ (k.pc = "recheck" => k.kind = "fill") /\ (x \in Fetch => k.pc = "edge")
    BY <1>1, <1>2, <1>10, <2>8 DEF JobOK
  <2>10. JobOK(x, k)
    <3>1. Placed(k)
      BY <1>1, <2>8, <2>9 DEF JobOK, Placed, Writing
    <3> QED
      BY <1>1, <1>2, <2>8, <2>9, <3>1 DEF JobOK, Writing, Asking
  <2>11. LockMove(x, k)
    BY <1>1, <2>8, <2>9, StaysPut DEF Writing
  <2>12. x \in Fetch => ResultOK(k)'
    BY <1>1, <2>8, <2>9 DEF ResultOK, Writing, Filled
  <2>13. GateOK(k)'
    BY <2>9 DEF GateOK
  <2> QED
    BY <1>1, <1>8, <2>2, <2>5, <2>6, <2>8, <2>9, <2>10, <2>11, <2>12, <2>13, TurnKeeps
<1> QED
  BY <1>9, <1>10

LEMMA AnsweredKeeps ==
  ASSUME EdgesInv, NEW x \in Actor, Answered(x)
  PROVE  EdgesInv'
<1> PICK f : f = job[x].waits
  OBVIOUS
<1> PICK r : r = job[f].result
  OBVIOUS
<1>1. TypeInv /\ job[x].pc = "wait" /\ job[f].pc = "settled" /\ UNCHANGED <<row, edges, lock, calls>>
  BY DEF EdgesInv, Answered
<1>2. PICK o \in Outcomes(r) : Ended(x, o, slow)
  BY DEF Answered
<1>3. f \in Fetch /\ f \in Actor
  <2>1. job[x].waits # None /\ job[x].waits \in Fetch \cup {None}
    BY <1>1, JobFacts DEF JobOK, JobRecord
  <2> QED
    BY <2>1 DEF Actor
<1>4. r \in Label \cup Source \cup {"options", "error"}
  <2>1. job[f].result # None /\ job[f].result \in Label \cup Source \cup {None, "options", "error"}
    BY <1>1, <1>3, JobFacts DEF JobOK, JobRecord
  <2> QED
    BY <2>1
<1>5. job[f].lost \/ r \notin Label \/ Filled(r)
  <2>1. ResultOK(job[f])
    BY <1>3 DEF EdgesInv, ResultInv
  <2> QED
    BY <1>1, <2>1 DEF ResultOK
<1>6. Label \cap Source = {} /\ {"options", "error"} \cap (Label \cup Source) = {} /\ Source \cap Canonical = {}
  BY IdAssumption DEF Canonical, Id
<1>8. o \in Label \cup {"options", "error"} /\ (o \in Label => job[f].lost \/ Connected(o) \/ Filled(o))
  <2>1. CASE r \in {"options", "error"} \/ Targets(r) = {}
    <3>1. o \in {"options", "error"}
      BY <1>2, <2>1 DEF Outcomes
    <3> QED
      BY <1>6, <3>1
  <2>2. CASE r \in Label
    <3>1. o = r
      BY <1>2, <1>6, <2>2 DEF Outcomes, Targets
    <3> QED
      BY <1>5, <2>2, <3>1
  <2>3. CASE r \in Source /\ Targets(r) # {}
    <3>1. o \in Targets(r)
      BY <1>2, <1>6, <2>3 DEF Outcomes
    <3>2. PICK d \in edges : d[3] = o /\ d[2] = r /\ d[3] \in Label
      BY <1>6, <2>3, <3>1 DEF Targets
    <3> QED
      BY <1>6, <2>3, <3>2 DEF Connected
  <2> QED
    BY <1>4, <2>1, <2>2, <2>3
<1>9. slow \in Nat
  BY <1>1 DEF TypeInv
<1> QED
  BY <1>1, <1>2, <1>8, <1>9, EndedKeeps

LEMMA TimedOutKeeps ==
  ASSUME EdgesInv, NEW x \in Actor, TimedOut(x)
  PROVE  EdgesInv'
<1>1. slow \in 0 .. MaxSlow /\ MaxSlow \in Nat
  BY InputAssumption DEF EdgesInv, TypeInv
<1>2. PICK spent \in Nat : spent = IF Stuck(job[x].waits) THEN slow ELSE slow + 1
  BY <1>1
<1>3. "error" \notin Label
  BY IdAssumption DEF Id
<1>4. job[x].pc = "wait" /\ Ended(x, "error", spent) /\ UNCHANGED <<row, edges, lock, calls>>
  BY <1>2 DEF TimedOut
<1> QED
  BY <1>2, <1>3, <1>4, EndedKeeps


-----------------------------------------------------------------------------
(* The start of a dispatch.                                                  *)

\* The record of a new runner.
NewRunner(type, to) == [Idle EXCEPT !.pc = "fetch", !.kind = "fetch", !.type = type, !.to = to]

LEMMA NewRunnerIs ==
  ASSUME NEW type \in EdgeType, NEW to \in Label, NEW k, k = NewRunner(type, to)
  PROVE  /\ k \in JobRecord /\ k.pc = "fetch" /\ k.kind = "fetch" /\ k.type = type /\ k.to = to
         /\ k.waits = None /\ k.then = "none"
<1>1. type \in EdgeType \cup {None} /\ to \in Id \cup {None} /\ "fetch" \in Pc
  BY DEF Pc, Id
<1>2. k \in JobRecord
  BY Zenon, <1>1, IdleJob DEF NewRunner, JobRecord
<1>3. k.pc = "fetch" /\ k.kind = "fetch" /\ k.type = type /\ k.to = to
  BY Zenon DEF NewRunner, Idle
<1>4. k.waits = None /\ k.then = "none"
  BY Zenon DEF NewRunner, Idle
<1> QED
  BY <1>2, <1>3, <1>4

\* What a start leaves of the jobs: x waits for f, whose runner is the label's or a new one.
Began(x, j, f, k, r) ==
  /\ k \in JobRecord /\ k.pc = "wait" /\ k.waits = f /\ k.kind = j.kind /\ k.type = j.type
  /\ k.from = j.from /\ k.to = j.to /\ k.flag = j.flag /\ k.target = j.target /\ k.then = j.then
  /\ f \in Fetch /\ f \in Actor /\ job' \in [Actor -> JobRecord] /\ job'[x] = k
  /\ \/ /\ job[f].to = j.target /\ job[f].pc \notin {"idle", "settled"}
        /\ \A y \in Actor \ {x} : job'[y] = job[y]
     \/ /\ \A g \in Fetch : job[g].to # j.target \/ job[g].pc \in {"idle", "settled"}
        /\ job[f].pc = "idle" /\ f # x
        /\ r \in JobRecord /\ r.pc = "fetch" /\ r.kind = "fetch" /\ r.type = j.type /\ r.to = j.target
        /\ r.waits = None /\ r.then = "none"
        /\ job'[f] = r
        /\ \A y \in Actor \ {x, f} : job'[y] = job[y]

LEMMA BeginIs ==
  ASSUME TypeInv, NEW x \in Actor, NEW j, j = job[x], Begin(x)
  PROVE  \E f, k, r : Began(x, j, f, k, r)
<1>1. /\ j \in JobRecord /\ JobOK(x, j) /\ j.pc = "begin" /\ job \in [Actor -> JobRecord]
  BY JobFacts DEF Begin, TypeInv, JobsInv
<1>2. j.type \in EdgeType /\ j.target \in Label
  BY <1>1 DEF JobOK, Asking
<1> DEFINE free == {f \in Fetch : job[f].pc = "idle"}
           pool == IF Runner(j.target) # {} THEN Runner(j.target) ELSE free
<1>3. PICK f : f = CHOOSE g \in pool : TRUE
  OBVIOUS
<1>4. pool # {} /\ pool \subseteq Fetch
  BY DEF Begin, Runner
<1>5. f \in pool /\ f \in Fetch /\ f \in Actor
  BY <1>3, <1>4 DEF Actor
<1>6. PICK k : k = Awaiting(j, "wait", f)
  OBVIOUS
<1>7. PICK r : r = NewRunner(j.type, j.target)
  OBVIOUS
<1>8. job' = [job EXCEPT ![x] = k, ![f] = IF Runner(j.target) # {} THEN @ ELSE r]
  BY Zenon, <1>3, <1>6, <1>7 DEF Begin, Awaiting, NewRunner
<1>9. IsAwaiting(j, k, "wait", f)
  BY <1>1, <1>5, <1>6, AwaitingIs DEF Pc
<1>10. /\ k \in JobRecord /\ k.pc = "wait" /\ k.waits = f /\ k.kind = j.kind /\ k.type = j.type
       /\ k.from = j.from /\ k.to = j.to /\ k.flag = j.flag /\ k.target = j.target /\ k.then = j.then
  BY <1>9 DEF IsAwaiting
<1>11. /\ r \in JobRecord /\ r.pc = "fetch" /\ r.kind = "fetch" /\ r.type = j.type /\ r.to = j.target
       /\ r.waits = None /\ r.then = "none"
  BY <1>2, <1>7, NewRunnerIs
<1>12. CASE Runner(j.target) # {}
  <2>1. job[f].to = j.target /\ job[f].pc \notin {"idle", "settled"}
    BY <1>5, <1>12 DEF Runner
  <2>2. job' \in [Actor -> JobRecord] /\ job'[x] = k /\ \A y \in Actor \ {x} : job'[y] = job[y]
    BY <1>1, <1>5, <1>8, <1>10, <1>12
  <2> QED
    BY <1>5, <1>10, <2>1, <2>2 DEF Began
<1>13. CASE Runner(j.target) = {}
  <2>1. job[f].pc = "idle" /\ f # x
    BY <1>1, <1>5, <1>13
  <2>2. \A g \in Fetch : job[g].to # j.target \/ job[g].pc \in {"idle", "settled"}
    BY <1>13 DEF Runner
  <2>3. /\ job' \in [Actor -> JobRecord] /\ job'[x] = k /\ job'[f] = r
        /\ \A y \in Actor \ {x, f} : job'[y] = job[y]
    BY <1>1, <1>5, <1>8, <1>10, <1>11, <1>13, <2>1
  <2> QED
    BY <1>5, <1>10, <1>11, <2>1, <2>2, <2>3 DEF Began
<1> QED
  BY <1>12, <1>13

LEMMA BeginKeeps ==
  ASSUME EdgesInv, NEW x \in Actor, Begin(x)
  PROVE  EdgesInv'
<1> PICK j : j = job[x]
  OBVIOUS
<1>1. /\ TypeInv /\ WaitInv /\ LockInv /\ KeyInv /\ EndsInv /\ ResultInv /\ TraceInv /\ GateInv
      /\ UNCHANGED <<row, edges, lock, tasks, tried, calls, slow>> /\ j.pc = "begin"
      /\ \A y \in Actor : job[y] \in JobRecord /\ JobOK(y, job[y]) /\ (y \in Client <=> y \notin Fetch)
  BY JobFacts DEF EdgesInv, Begin
<1>2. PICK f, k, r : Began(x, j, f, k, r)
  BY <1>1, BeginIs
<1>3. /\ k \in JobRecord /\ k.pc = "wait" /\ k.waits = f /\ k.kind = j.kind /\ k.type = j.type
      /\ k.from = j.from /\ k.to = j.to /\ k.flag = j.flag /\ k.target = j.target /\ k.then = j.then
      /\ f \in Fetch /\ f \in Actor /\ job' \in [Actor -> JobRecord] /\ job'[x] = k
  BY <1>2 DEF Began
<1>4. j.target \in Label /\ j.then # "none" /\ j.type \in EdgeType
  BY <1>1 DEF JobOK, Asking
<1>5. Label \subseteq Id /\ None \notin Actor
  BY IdAssumption DEF Id
<1>6. JobOK(x, k)
  <2>1. Placed(k)
    BY <1>1, <1>3 DEF JobOK, Placed, Writing
  <2>2. f # None
    BY <1>3, <1>5
  <2> QED
    BY <1>1, <1>3, <1>4, <2>1, <2>2 DEF JobOK, Writing, Asking
\* The runner is one that goes on already, or a new one whose record is r.
<1>7. \A y \in Actor : \/ y = x /\ job'[y] = k
                       \/ y # x /\ job'[y] = job[y]
                       \/ /\ y # x /\ y = f /\ job'[y] = r /\ job[f].pc = "idle"
                          /\ r.pc = "fetch" /\ r.kind = "fetch" /\ r.type = j.type /\ r.to = j.target
                          /\ r.waits = None /\ r.then = "none"
                          /\ \A g \in Fetch : job[g].to # j.target \/ job[g].pc \in {"idle", "settled"}
  BY <1>2 DEF Began
<1>8. ASSUME r.pc = "fetch", r.kind = "fetch", r.type = j.type, r.to = j.target, r.waits = None, r.then = "none"
      PROVE  JobOK(f, r)
  <2>1. Placed(r)
    BY <1>8 DEF Placed
  <2> QED
    BY <1>1, <1>3, <1>4, <1>5, <1>8, <2>1 DEF JobOK, Writing, Asking
<1>9. JobsInv'
  BY <1>1, <1>3, <1>6, <1>7, <1>8 DEF JobsInv
<1>10. \A y \in Actor : job[y].pc # "idle" => job'[y].pc # "idle"
  BY <1>3, <1>7
<1>11. job'[f].pc # "idle"
  <2>1. CASE f = x
    BY <1>3, <2>1
  <2>2. CASE f # x
    BY <1>2, <1>3, <2>2 DEF Began
  <2> QED
    BY <2>1, <2>2
<1>12. WaitInv'
  <2> SUFFICES ASSUME NEW y \in Actor, job'[y].waits # None PROVE job'[job'[y].waits].pc # "idle"
    BY DEF WaitInv
  <2>1. CASE y = x
    BY <1>3, <1>11, <2>1
  <2>2. CASE y # x
    <3>1. job'[y] = job[y]
      BY <1>7, <2>2
    <3>2. job[y].waits \in Actor /\ job[job[y].waits].pc # "idle"
      <4>1. job[y].waits \in Fetch
        BY <1>1, <3>1 DEF JobRecord
      <4> QED
        BY <1>1, <3>1, <4>1 DEF WaitInv, Actor
    <3> QED
      BY <1>10, <3>1, <3>2
  <2> QED
    BY <2>1, <2>2
<1>13. KeyInv'
  <2> SUFFICES ASSUME NEW g \in Fetch, NEW h \in Fetch, g # h,
                      {job'[g].pc, job'[h].pc} \cap {"idle", "settled"} = {}
               PROVE  job'[g].to # job'[h].to
    BY DEF KeyInv
  <2>1. g \in Actor /\ h \in Actor
    BY DEF Actor
  <2>2. ASSUME NEW y \in Actor, job'[y].pc \notin {"idle", "settled"}
        PROVE  \/ job'[y].to = job[y].to /\ job[y].pc \notin {"idle", "settled"}
               \/ /\ y = f /\ job'[y].to = j.target
                  /\ \A i \in Fetch : job[i].to # j.target \/ job[i].pc \in {"idle", "settled"}
    BY <1>1, <1>3, <1>7, <2>2
  <2>3. job'[g].pc \notin {"idle", "settled"} /\ job'[h].pc \notin {"idle", "settled"}
    OBVIOUS
  <2>4. CASE g = f
    BY <1>1, <2>1, <2>2, <2>3, <2>4 DEF KeyInv
  <2>5. CASE h = f
    BY <1>1, <2>1, <2>2, <2>3, <2>5 DEF KeyInv
  <2>6. CASE g # f /\ h # f
    BY <1>1, <2>1, <2>2, <2>3, <2>6 DEF KeyInv
  <2> QED
    BY <2>4, <2>5, <2>6
<1>14. LockInv'
  <2>1. j.pc \in Writing /\ k.pc \in Writing
    BY <1>1, <1>3 DEF Writing
  <2>2. ASSUME NEW e \in Id, NEW y \in Actor, lock[e] = y
        PROVE  /\ job'[y].from = e
               /\ y \in Client => job'[y].kind = "fill" /\ job'[y].pc # "lock"
               /\ y \in Fetch => job'[y].pc \in Writing
    <3>1. /\ job[y].from = e
          /\ y \in Client => job[y].kind = "fill" /\ job[y].pc # "lock"
          /\ y \in Fetch => job[y].pc \in Writing
      BY <1>1, <2>2 DEF LockInv
    <3>2. CASE y = x
      BY <1>3, <2>1, <3>1, <3>2
    <3>3. CASE y # x
      <4>1. y = f => job[f].pc # "idle"
        BY <1>3, <3>1 DEF Writing
      <4>2. job'[y] = job[y]
        BY <1>7, <3>3, <4>1
      <4> QED
        BY <3>1, <4>2
    <3> QED
      BY <3>2, <3>3
  <2>3. ASSUME NEW g \in Fetch, job'[g].pc \in Writing PROVE lock[job'[g].from] = g
    <3>1. g \in Actor
      BY DEF Actor
    <3>2. job[g].pc \in Writing /\ job'[g].from = job[g].from
      <4>1. "fetch" \notin Writing
        BY DEF Writing
      <4> QED
        BY <1>3, <1>7, <2>1, <2>3, <3>1, <4>1
    <3> QED
      BY <1>1, <3>2 DEF LockInv
  <2> QED
    BY <1>1, <2>2, <2>3 DEF LockInv
<1>15. ResultInv'
  <2> SUFFICES ASSUME NEW g \in Fetch PROVE ResultOK(job[g])'
    BY DEF ResultInv
  <2>1. g \in Actor /\ ResultOK(job[g])
    BY <1>1 DEF Actor, ResultInv
  <2>2. CASE g = x
    BY <1>1, <1>3, <2>1, <2>2 DEF ResultOK, Writing, Filled
  <2>3. CASE g # x /\ job'[g] = job[g]
    BY <1>1, <2>1, <2>3 DEF ResultOK, Filled
  <2>4. CASE job'[g].pc = "fetch"
    BY <2>4 DEF ResultOK, Writing
  <2> QED
    BY <1>7, <2>1, <2>2, <2>3, <2>4
<1>16. GateInv'
  <2> SUFFICES ASSUME NEW c \in Client PROVE GateOK(job[c])'
    BY DEF GateInv
  <2>1. c \in Actor /\ GateOK(job[c]) /\ c # f
    BY <1>1, <1>3 DEF Actor, GateInv
  <2>2. CASE c = x
    BY <1>3, <2>2 DEF GateOK
  <2>3. CASE c # x
    <3>1. job'[c] = job[c]
      BY <1>7, <2>1, <2>3
    <3> QED
      BY <1>1, <2>1, <3>1 DEF GateOK
  <2> QED
    BY <2>2, <2>3
<1>17. TypeInv' /\ EndsInv' /\ TraceInv'
  BY <1>1, <1>9, TablesRest, InputAssumption DEF TypeInv, TablesTyped
<1> QED
  BY <1>12, <1>13, <1>14, <1>15, <1>16, <1>17 DEF EdgesInv


-----------------------------------------------------------------------------
(* The end of an entity.                                                     *)

\* What a delete of e leaves of the record j of somebody else.
Lives(e, j, k) ==
  /\ k \in JobRecord /\ k.pc = j.pc /\ k.kind = j.kind /\ k.type = j.type /\ k.from = j.from /\ k.to = j.to
  /\ k.flag = j.flag /\ k.thin = j.thin /\ k.target = j.target /\ k.then = j.then /\ k.waits = j.waits
  /\ k.result = j.result /\ (j.lost => k.lost)
  /\ e \in {j.to, j.target, j.result} => k.lost
  /\ e \notin {j.to, j.target, j.result} => k = j

LEMMA DeleteIs ==
  ASSUME TypeInv, NEW x \in Actor, NEW e, e = job[x].to, lock[e] = None, Delete(x)
  PROVE  /\ DOMAIN job' = Actor /\ job' = [y \in Actor |-> job'[y]] /\ job'[x] = Idle
         /\ \A y \in Actor \ {x} : Lives(e, job[y], job'[y])
<1>1. job' = [y \in Actor |-> IF y = x THEN Idle
                               ELSE IF e \in {job[y].to, job[y].target, job[y].result}
                               THEN Marked(job[y], TRUE) ELSE job[y]]
  BY Zenon DEF Delete, Marked
<1>2. ASSUME NEW y \in Actor, y # x PROVE Lives(e, job[y], job'[y])
  <2>1. PICK j : j = job[y]
    OBVIOUS
  <2>2. PICK k : k = job'[y]
    OBVIOUS
  <2>3. j \in JobRecord
    BY <2>1, JobFacts
  <2>4. CASE e \in {j.to, j.target, j.result}
    <3>1. k = Marked(j, TRUE)
      BY <1>1, <1>2, <2>1, <2>2, <2>4
    <3>2. IsMarked(j, k, TRUE)
      BY <2>3, <3>1, MarkedIs
    <3>3. Lives(e, j, k)
      BY <2>4, <3>2 DEF IsMarked, Lives
    <3> QED
      BY <2>1, <2>2, <3>3
  <2>5. CASE e \notin {j.to, j.target, j.result}
    <3>1. k = j
      BY <1>1, <1>2, <2>1, <2>2, <2>5
    <3>2. Lives(e, j, k)
      BY <2>3, <2>5, <3>1 DEF Lives
    <3> QED
      BY <2>1, <2>2, <3>2
  <2> QED
    BY <2>4, <2>5
<1> QED
  BY <1>1, <1>2

LEMMA DeleteKeeps ==
  ASSUME EdgesInv, NEW x \in Actor, Delete(x)
  PROVE  EdgesInv'
<1> PICK e : e = job[x].to
  OBVIOUS
<1>1. /\ TypeInv /\ WaitInv /\ LockInv /\ KeyInv /\ EndsInv /\ ResultInv /\ TraceInv /\ GateInv
      /\ UNCHANGED <<lock, tasks, calls, slow>> /\ job[x].pc = "delete" /\ x \in Client /\ x \notin Fetch
      /\ job[x].kind = "delete"
      /\ \A y \in Actor : job[y] \in JobRecord /\ JobOK(y, job[y]) /\ (y \in Client <=> y \notin Fetch)
  BY JobFacts, PlaceOf DEF EdgesInv, Delete
<1>2. e \in Id /\ e # None
  BY <1>1, IdAssumption DEF JobOK
<1>3. \A d \in Id : lock[d] # x
  BY <1>1, NoLock
<1>4. CASE lock[e] # None
  <2>1. UNCHANGED <<row, edges, tried>> /\ Put(x, Idle)
    BY <1>4 DEF Delete
  <2>2. LockMove(x, Idle)
    BY <1>1, <1>3 DEF LockMove
  <2>3. GateOK(Idle) /\ calls' \in 0 .. MaxCalls
    BY <1>1, IdleJob DEF GateOK, TypeInv
  <2> QED
    BY <1>1, <2>1, <2>2, <2>3, IdleJob, QuietTurn
<1>5. CASE lock[e] = None
  <2>1. /\ row' = [row EXCEPT ![e] = "none"]
        /\ edges' = {d \in edges : e \notin {d[2], d[3]}}
        /\ tried' = tried \ ({e} \cup CutOff(edges'))
    BY <1>5 DEF Delete
  <2>2. /\ DOMAIN job' = Actor /\ job' = [y \in Actor |-> job'[y]] /\ job'[x] = Idle
        /\ \A y \in Actor \ {x} : Lives(e, job[y], job'[y])
    BY <1>1, <1>5, DeleteIs
  <2>3. ASSUME NEW y \in Actor PROVE job'[y] \in JobRecord /\ JobOK(y, job'[y])
    <3>1. CASE y = x
      BY <2>2, <3>1, IdleJob
    <3>2. CASE y # x
      <4>1. PICK j : j = job[y]
        OBVIOUS
      <4>2. PICK k : k = job'[y]
        OBVIOUS
      <4>3. JobOK(y, j) /\ Lives(e, j, k)
        BY <1>1, <2>2, <3>2, <4>1, <4>2
      <4>4. j.pc = "idle" => k = Idle
        <5> SUFFICES ASSUME j.pc = "idle" PROVE k = Idle
          OBVIOUS
        <5>1. j = Idle
          BY <4>3 DEF JobOK
        <5>2. e \notin {j.to, j.target, j.result}
          BY <1>2, <5>1 DEF Idle
        <5> QED
          BY <4>3, <5>1, <5>2 DEF Lives
      <4>5. Placed(k)
        BY <4>3 DEF JobOK, Lives, Placed
      <4>6. JobOK(y, k)
        BY <4>3, <4>4, <4>5 DEF JobOK, Lives
      <4> QED
        BY <4>2, <4>3, <4>6 DEF Lives
    <3> QED
      BY <3>1, <3>2
  <2>4. JobsInv'
    <3>1. job' \in [Actor -> JobRecord]
      BY <2>2, <2>3
    <3> QED
      BY <2>3, <3>1 DEF JobsInv
  <2>5. \A y \in Actor \ {x} : /\ job'[y].pc = job[y].pc /\ job'[y].kind = job[y].kind /\ job'[y].from = job[y].from
                               /\ job'[y].to = job[y].to /\ job'[y].waits = job[y].waits
                               /\ job'[y].flag = job[y].flag /\ job'[y].thin = job[y].thin
                               /\ job'[y].result = job[y].result
                               /\ job[y].lost \/ e \in {job[y].to, job[y].target, job[y].result} => job'[y].lost
    BY <2>2 DEF Lives
  <2>6. WaitInv'
    <3> SUFFICES ASSUME NEW y \in Actor, job'[y].waits # None PROVE job'[job'[y].waits].pc # "idle"
      BY DEF WaitInv
    <3>1. y # x /\ job'[y].waits = job[y].waits
      BY <2>2, <2>5, IdleJob
    <3>2. job[y].waits \in Fetch /\ job[job[y].waits].pc # "idle"
      BY <1>1, <3>1 DEF WaitInv, JobRecord
    <3>3. job[y].waits \in Actor \ {x}
      BY <1>1, <3>2 DEF Actor
    <3> QED
      BY <2>5, <3>1, <3>2, <3>3
  <2>7. KeyInv'
    <3>1. \A f \in Fetch : f \in Actor \ {x}
      BY <1>1 DEF Actor
    <3> QED
      BY <1>1, <2>5, <3>1 DEF KeyInv
  <2>8. LockInv'
    <3>1. \A f \in Fetch : f \in Actor \ {x}
      BY <1>1 DEF Actor
    <3>2. ASSUME NEW d \in Id, NEW y \in Actor, lock[d] = y
          PROVE  /\ job'[y].from = d
                 /\ y \in Client => job'[y].kind = "fill" /\ job'[y].pc # "lock"
                 /\ y \in Fetch => job'[y].pc \in Writing
      BY <1>1, <1>3, <2>5, <3>2 DEF LockInv
    <3>3. ASSUME NEW f \in Fetch, job'[f].pc \in Writing PROVE lock[job'[f].from] = f
      BY <1>1, <2>5, <3>1, <3>3 DEF LockInv
    <3> QED
      BY <1>1, <3>2, <3>3 DEF LockInv
  <2>9. EndsInv'
    <3> SUFFICES ASSUME NEW d \in edges' PROVE row'[d[2]] # "none" /\ row'[d[3]] # "none"
      BY DEF EndsInv
    <3>1. d \in edges /\ e # d[2] /\ e # d[3]
      BY <2>1
    <3>2. row[d[2]] # "none" /\ row[d[3]] # "none" /\ d[2] \in Id /\ d[3] \in Id
      BY <1>1, <3>1 DEF EndsInv, TypeInv
    <3> QED
      BY <1>1, <2>1, <3>1, <3>2 DEF TypeInv
  <2>10. ASSUME NEW d \in Id, d # e PROVE row'[d] = row[d]
    BY <1>1, <2>1, <2>10 DEF TypeInv
  <2>11. TraceInv'
    <3>1. tried' \subseteq tried /\ tried' \cap CutOff(edges') = {} /\ e \notin tried'
      BY <2>1
    <3>2. \A d \in tried' : row'[d] = row[d]
      BY <1>1, <2>10, <3>1 DEF TypeInv, Id
    <3> QED
      BY <1>1, <3>1, <3>2, TracesShrink
  <2>12. ResultInv'
    <3> SUFFICES ASSUME NEW f \in Fetch PROVE ResultOK(job[f])'
      BY DEF ResultInv
    <3>1. f \in Actor \ {x} /\ f \in Actor /\ ResultOK(job[f])
      BY <1>1 DEF Actor, ResultInv
    <3>2. ASSUME job'[f].pc \in Writing PROVE Filled(job[f].from)'
      <4>1. job[f].pc \in Writing /\ job'[f].from = job[f].from
        BY <2>5, <3>1, <3>2
      <4>2. job[f].from \in Id /\ lock[job[f].from] = f
        BY <1>1, <3>1, <4>1 DEF JobOK, LockInv, Id
      <4>3. job[f].from # e
        BY <1>5, <3>1, <4>2, IdAssumption
      <4>4. Filled(job[f].from)
        BY <3>1, <4>1 DEF ResultOK
      <4> QED
        BY <2>10, <4>1, <4>2, <4>3, <4>4 DEF Filled
    <3>3. ASSUME job'[f].pc \in {"settle", "settled"}, job'[f].result \in Label, ~job'[f].lost
          PROVE  Filled(job[f].result)'
      <4>1. job[f].pc \in {"settle", "settled"} /\ job[f].result \in Label /\ job'[f].result = job[f].result
            /\ ~job[f].lost /\ e # job[f].result
        BY <2>5, <3>1, <3>3
      <4>2. Filled(job[f].result) /\ job[f].result \in Id
        BY <3>1, <4>1 DEF ResultOK, Id
      <4> QED
        BY <2>10, <4>1, <4>2 DEF Filled
    <3> QED
      BY <3>2, <3>3 DEF ResultOK
  <2>13. GateInv'
    <3> SUFFICES ASSUME NEW c \in Client PROVE GateOK(job[c])'
      BY DEF GateInv
    <3>1. c \in Actor /\ GateOK(job[c])
      BY <1>1 DEF Actor, GateInv
    <3>2. CASE c = x
      <4>1. job'[c] = Idle
        BY <2>2, <3>2
      <4> QED
        BY <4>1, IdleJob DEF GateOK
    <3>3. CASE c # x
      <4>1. job[c].to \in Label /\ job[c].to # e => row'[job[c].to] = row[job[c].to]
        BY <2>10 DEF Id
      <4> QED
        BY <2>5, <3>1, <3>3, <4>1 DEF GateOK
    <3> QED
      BY <3>2, <3>3
  <2>14. TypeInv'
    <3>1. row' \in [Id -> Rows]
      BY <1>1, <2>1 DEF TypeInv, Rows
    <3> QED
      BY <1>1, <2>1, <2>4, <3>1 DEF TypeInv
  <2> QED
    BY <2>6, <2>7, <2>8, <2>9, <2>11, <2>12, <2>13, <2>14 DEF EdgesInv
<1> QED
  BY <1>4, <1>5

-----------------------------------------------------------------------------
(* The start, and all steps.                                                 *)

LEMMA InitHolds ==
  ASSUME Init
  PROVE  EdgesInv
<1>1. \A x \in Actor : job[x] = Idle
  BY DEF Init
<1>2. job \in [Actor -> JobRecord] /\ None \notin Actor
  BY IdleJob, IdAssumption DEF Init
<1>3. JobsInv
  BY <1>1, <1>2, IdleJob DEF JobsInv
<1>4. TypeInv
  BY <1>3, InputAssumption DEF Init, TypeInv, Rows
<1>5. \A f \in Fetch : f \in Actor
  BY DEF Actor
<1>6. \A c \in Client : c \in Actor
  BY DEF Actor
<1>7. WaitInv
  BY <1>1, IdleJob DEF WaitInv
<1>8. LockInv
  BY <1>1, <1>2, <1>5, IdleJob DEF LockInv, Init, Writing
<1>9. KeyInv
  BY <1>1, <1>5, IdleJob DEF KeyInv
<1>10. EndsInv /\ TraceInv
  BY DEF EndsInv, TraceInv, Init
<1>11. ResultInv
  BY <1>1, <1>5, IdleJob DEF ResultInv, ResultOK, Writing
<1>12. GateInv
  BY <1>1, <1>6, IdleJob DEF GateInv, GateOK
<1> QED
  BY <1>4, <1>7, <1>8, <1>9, <1>10, <1>11, <1>12 DEF EdgesInv

LEMMA NextKeeps ==
  ASSUME EdgesInv, [Next]_vars
  PROVE  EdgesInv'
<1>1. CASE \E c \in Client, r \in Request : Call(c, r)
  BY <1>1, CallKeeps
<1>2. ASSUME NEW x \in Actor, Step(x) PROVE EdgesInv'
  <2>1. CASE Rewrite(x) \/ Delete(x) \/ FillClear(x)
    BY <2>1, RewriteKeeps, DeleteKeeps, FillClearKeeps
  <2>2. CASE FillLock(x) \/ Gate(x) \/ Recheck(x) \/ ProbeRow(x) \/ UpsertThin(x)
    BY <2>2, FillLockKeeps, GateKeeps, RecheckKeeps, ProbeRowKeeps, UpsertThinKeeps
  <2>3. CASE EdgeRefused(x) \/ CreateEdge(x) \/ EdgesDone(x) \/ ResolvedEdge(x)
    BY <2>3, EdgeRefusedKeeps, CreateEdgeKeeps, EdgesDoneKeeps, ResolvedEdgeKeeps
  <2>4. CASE ProbeSource(x) \/ Begin(x) \/ Answered(x) \/ TimedOut(x)
    BY <2>4, ProbeSourceKeeps, BeginKeeps, AnsweredKeeps, TimedOutKeeps
  <2> QED
    BY <1>2, <2>1, <2>2, <2>3, <2>4 DEF Step
<1>3. ASSUME NEW f \in Fetch, Runs(f) PROVE EdgesInv'
  BY <1>3, FetchedKeeps, PersistKeeps, SettleKeeps DEF Runs
<1>4. CASE UNCHANGED vars
  <2>1. UNCHANGED <<row, edges, lock, tasks, tried, job, calls, slow>>
    BY <1>4 DEF vars
  <2>2. TypeInv' /\ WaitInv' /\ LockInv' /\ KeyInv' /\ EndsInv'
    BY <2>1 DEF EdgesInv, TypeInv, JobsInv, WaitInv, LockInv, KeyInv, EndsInv
  <2>3. ResultInv' /\ TraceInv' /\ GateInv'
    BY <2>1 DEF EdgesInv, ResultInv, ResultOK, Filled, TraceInv, Traced, Connected, GateInv, GateOK
  <2> QED
    BY <2>2, <2>3 DEF EdgesInv
<1> QED
  BY <1>1, <1>2, <1>3, <1>4 DEF Next

\* The records of clients and runners say where they are, locks and keys are held by whoever
\* writes, and what plugins stored and what dispatches ended with is still to be seen
\* (auto_fetch.go, canonical_edges.go, ingest_tracker.go).
THEOREM EdgesInvariant == Spec => []EdgesInv
<1>1. Init => EdgesInv
  BY InitHolds
<1>2. EdgesInv /\ [Next]_vars => EdgesInv'
  BY NextKeeps
<1> QED
  BY <1>1, <1>2, PTL DEF Spec

\* The state is typed; a fill and a runner hold the lock of the entity they write and nobody
\* else holds one, a label has one runner at a time, and an edge has rows at both ends.
THEOREM EdgesTyped == Spec => []TypeOK
<1>1. EdgesInv => TypeOK
  <2> SUFFICES ASSUME EdgesInv PROVE TypeOK
    OBVIOUS
  <2>1. TypeInv /\ WaitInv /\ LockInv /\ KeyInv /\ EndsInv
    BY DEF EdgesInv
  <2>2. ASSUME NEW x \in Actor
        PROVE  /\ job[x].pc \in Pc
               /\ job[x].pc = "wait" <=> job[x].waits # None
               /\ job[x].waits # None => job[x].waits \in Fetch /\ job[job[x].waits].pc # "idle"
               /\ \A e \in Id : lock[e] = x => job[x].from = e /\ job[x].pc \notin {"idle", "settled"}
    <3>1. job[x] \in JobRecord /\ JobOK(x, job[x]) /\ (x \in Client <=> x \notin Fetch)
      BY <2>1, JobFacts
    <3>2. job[x].pc \in Pc /\ job[x].waits \in Fetch \cup {None}
      BY <3>1 DEF JobRecord
    <3>3. \A e \in Id : lock[e] = x => job[x].from = e /\ job[x].pc \notin {"idle", "settled"}
      BY <2>1, <3>1 DEF LockInv, JobOK, Placed, Writing
    <3>4. job[x].pc = "wait" <=> job[x].waits # None
      BY <3>1 DEF JobOK
    <3> QED
      BY <2>1, <3>2, <3>3, <3>4 DEF WaitInv
  <2> QED
    BY <2>1, <2>2 DEF TypeOK, TypeInv, KeyInv, EndsInv
<1> QED
  BY <1>1, EdgesInvariant, PTL

\* A dispatch that has ended leaves the label's row, an edge of a plugin's entity or a task
\* (auto_fetch.go, "Outcomes"), whoever else writes, deletes and fetches meanwhile.
THEOREM EdgesDispatchLeavesTrace == Spec => []DispatchLeavesTrace
<1>1. EdgesInv => DispatchLeavesTrace
  BY DEF EdgesInv, TraceInv, Traced, Filled, DispatchLeavesTrace
<1> QED
  BY <1>1, EdgesInvariant, PTL

\* The gate of fills (canonical_edges.go:498): a fill makes no row for a label, but for one it
\* had found and that was deleted under it.
THEOREM EdgesGateHolds == Spec => GateHolds
<1> DEFINE A == \A c \in Client :
                  LET j == job[c]
                  IN j.kind = "fill" /\ ~j.flag /\ j.pc = "upsert" /\ Head(j.thin) \in Label /\ job'[c].pc # "upsert"
                       => j.lost
<1>1. EdgesInv /\ [Next]_vars => [A]_vars
  <2> SUFFICES ASSUME EdgesInv, NEW c \in Client, job[c].kind = "fill", ~job[c].flag, job[c].pc = "upsert",
                      Head(job[c].thin) \in Label
               PROVE  job[c].lost
    OBVIOUS
  <2>1. GateOK(job[c])
    BY DEF EdgesInv, GateInv
  <2>2. job[c].thin = <<job[c].to>>
    BY <2>1 DEF GateOK
  <2>3. Head(job[c].thin) = job[c].to
    BY <2>2
  <2> QED
    BY <2>1, <2>3 DEF GateOK
<1>2. Spec => [][A]_vars
  BY <1>1, EdgesInvariant, PTL DEF Spec
<1> QED
  BY <1>2 DEF GateHolds
=============================================================================
