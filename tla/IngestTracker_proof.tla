------------------------ MODULE IngestTracker_proof ------------------------
(***************************************************************************)
(* Proofs about IngestTracker, for every set of requests, URLs, entities   *)
(* and labels and every length of stream: the invariant Inv, and from it   *)
(* the one-runner rule of the invocation key, the single close of a        *)
(* record's channel, the vault-first rule, that no runner loses another    *)
(* one's provenance, and that the bus is told of every row and edge.       *)
(***************************************************************************)
EXTENDS IngestTracker, TLAPS

\* The part of TypeOK that persistEnvelope writes to.
StoreOK ==
  /\ locked \in [Entity -> Request \cup {None}]
  /\ vault \in [Entity -> SUBSET (Request \X (1..MaxEnvelopes))]
  /\ row \in [Entity -> {"absent", "thin", "full"}]
  /\ notation \in [Url -> Entity \cup {None}]
  /\ edges \subseteq Entity \X Label
  /\ told \subseteq Entity \cup (Entity \X Label)
  /\ unprobed \subseteq Entity

\* What a step of r's runner must show when it leaves the tracker alone.
LEMMA RunnerFrame ==
  ASSUME Inv, NEW r \in Request, UNCHANGED <<request, tracker>>,
         run' \in [Request -> Runner], \A q \in Request \ {r} : run'[q] = run[q],
         run[r].pc # "none", run'[r].pc # "none",
         First(run[r]) <=> First(run'[r]),
         StoreOK', FullRowHasFile', Fits(r, run[r])',
         \A q \in Request \ {r} : run[q].pc \in Held =>
           locked'[run[q].e] = q /\ vault'[run[q].e] = vault[run[q].e]
  PROVE  Inv'
<1>t. TypeOK
  BY DEF Inv
<1>1. TypeOK'
  BY <1>t DEF TypeOK, StoreOK, tracker
<1>2. KeyNamesPendingRecord' /\ ClosedOnce'
  BY DEF Inv, KeyNamesPendingRecord, ClosedOnce, tracker
<1>3. PendingInv'
  <2> SUFFICES ASSUME NEW q \in Request
               PROVE  /\ record[q] = "none" <=> run'[q].pc = "none"
                      /\ run'[q].pc = "none" => run'[q].n = 0
                      /\ run'[q].pc # "none" => request[q].url \in Url
                      /\ record[q] = "pending" <=> First(run'[q])
    BY DEF PendingInv, tracker, First
  <2>1. CASE q = r
    BY <2>1 DEF Inv, PendingInv
  <2>2. CASE q # r
    BY <2>2 DEF Inv, PendingInv
  <2> QED
    BY <2>1, <2>2
<1>4. PersistInv'
  <2> SUFFICES ASSUME NEW q \in Request PROVE Fits(q, run[q])'
    BY DEF PersistInv
  <2>1. CASE q = r
    BY <2>1
  <2>2. CASE q # r
    BY <2>2 DEF Inv, PersistInv, Fits, Held, Written
  <2> QED
    BY <2>1, <2>2
<1> QED
  BY <1>1, <1>2, <1>3, <1>4 DEF Inv

\* What a step of r's runner must show when it settles the pending record.
LEMMA CloseFrame ==
  ASSUME Inv, NEW r \in Request, NEW state \in Terminal, Close(r, state),
         UNCHANGED <<request, locked, vault, store, unprobed>>,
         told' \subseteq Entity \cup (Entity \X Label),
         run' \in [Request -> Runner], \A q \in Request \ {r} : run'[q] = run[q],
         First(run[r]), run'[r].pc \in {"stream", "done"},
         run'[r].n # 0 \/ run'[r].pc = "done"
  PROVE  Inv'
<1>t. TypeOK
  BY DEF Inv
<1>r. record[r] = "pending" /\ closed[r] = 0
  BY DEF Inv, PendingInv, ClosedOnce, Terminal
<1>c. /\ record' = [record EXCEPT ![r] = state]
      /\ closed' = [closed EXCEPT ![r] = 1]
      /\ byInvocationKey' = [u \in Url |-> IF byInvocationKey[u] = r THEN None
                                           ELSE byInvocationKey[u]]
  BY <1>t, <1>r DEF Close, TypeOK
<1>1. TypeOK'
  BY <1>t, <1>c DEF TypeOK, store
<1>2. KeyNamesPendingRecord'
  <2> SUFFICES ASSUME NEW u \in Url, NEW q \in Request
               PROVE  byInvocationKey'[u] = q <=> record'[q] = "pending" /\ request[q].url = u
    BY DEF KeyNamesPendingRecord
  <2>1. CASE q = r
    BY <2>1, <1>t, <1>c, NoneAssumption DEF TypeOK, Terminal
  <2>2. CASE q # r
    BY <2>2, <1>t, <1>c, NoneAssumption DEF TypeOK, Inv, KeyNamesPendingRecord
  <2> QED
    BY <2>1, <2>2
<1>3. ClosedOnce'
  BY <1>t, <1>c DEF TypeOK, Inv, ClosedOnce
<1>4. FullRowHasFile'
  BY DEF Inv, FullRowHasFile, store
<1>5. PendingInv'
  <2> SUFFICES ASSUME NEW q \in Request
               PROVE  /\ record'[q] = "none" <=> run'[q].pc = "none"
                      /\ run'[q].pc = "none" => run'[q].n = 0
                      /\ run'[q].pc # "none" => request[q].url \in Url
                      /\ record'[q] = "pending" <=> First(run'[q])
    BY DEF PendingInv, First
  <2>1. CASE q = r
    <3>1. run[r].pc # "none"
      BY DEF First, Persisting, Held, Written
    <3>2. ~First(run'[r])
      BY DEF First, Persisting, Held, Written
    <3> QED
      BY <2>1, <3>1, <3>2, <1>t, <1>c DEF TypeOK, Terminal, Inv, PendingInv
  <2>2. CASE q # r
    BY <2>2, <1>t, <1>c DEF TypeOK, Inv, PendingInv
  <2> QED
    BY <2>1, <2>2
<1>6. PersistInv'
  <2> SUFFICES ASSUME NEW q \in Request PROVE Fits(q, run[q])'
    BY DEF PersistInv
  <2>1. CASE q = r
    BY <2>1 DEF Fits, Persisting, Held, Written
  <2>2. CASE q # r
    BY <2>2 DEF Inv, PersistInv, Fits
  <2> QED
    BY <2>1, <2>2
<1> QED
  BY <1>1, <1>2, <1>3, <1>4, <1>5, <1>6 DEF Inv

\* Init establishes the invariant: nothing is pending or locked.
LEMMA InitInv == Init => Inv
<1> SUFFICES ASSUME Init PROVE Inv
  OBVIOUS
<1>1. Blank \in Runner /\ Blank.pc = "none" /\ Blank.n = 0
  BY MaxEnvelopesAssumption DEF Blank, Runner, Steps
<1>2. TypeOK
  BY <1>1 DEF Init, TypeOK, Requests
<1>3. KeyNamesPendingRecord /\ ClosedOnce /\ FullRowHasFile
  BY NoneAssumption
  DEF Init, KeyNamesPendingRecord, ClosedOnce, FullRowHasFile, Terminal
<1>4. PendingInv /\ PersistInv
  BY <1>1 DEF Init, PendingInv, PersistInv, Fits, First, Persisting, Held, Written
<1> QED
  BY <1>2, <1>3, <1>4 DEF Inv

\* The handlers: a new runner has sent nothing and owns the free key.
LEMMA HandlerInv ==
  ASSUME Inv, NEW q \in Request, HandlerStep(q)
  PROVE  Inv'
<1>t. TypeOK
  BY DEF Inv
<1>1. ASSUME NEW u \in Url, CacheHit(q, u) \/ Join(q, u)
      PROVE  Inv'
  <2>1. /\ New(q)
        /\ UNCHANGED <<tracker, run, locked, vault, store, hist>>
        /\ \E on \in Request \cup {None} :
             request' = [request EXCEPT ![q] = [url |-> u, on |-> on]]
    BY <1>1, <1>t DEF CacheHit, Join, TypeOK
  <2>2. TypeOK'
    BY <2>1, <1>t DEF TypeOK, Requests, tracker, store, hist
  <2>3. record[q] # "pending" /\ run[q].pc = "none"
    BY <2>1, NoneAssumption DEF Inv, PendingInv, New
  <2>4. \A p \in Request : p # q => request'[p] = request[p]
    BY <2>1, <1>t DEF TypeOK
  <2>5. KeyNamesPendingRecord'
    BY <2>1, <2>3, <2>4 DEF Inv, KeyNamesPendingRecord, tracker, New
  <2>6. ClosedOnce' /\ FullRowHasFile'
    BY <2>1 DEF Inv, ClosedOnce, FullRowHasFile, tracker, store
  <2>7. PendingInv'
    BY <2>1, <2>3, <2>4 DEF Inv, PendingInv, tracker
  <2>8. PersistInv'
    BY <2>1 DEF Inv, PersistInv, Fits
  <2> QED
    BY <2>2, <2>5, <2>6, <2>7, <2>8 DEF Inv
<1>2. ASSUME NEW u \in Url, Start(q, u)
      PROVE  Inv'
  <2>1. /\ New(q) /\ byInvocationKey[u] = None
        /\ request' = [request EXCEPT ![q] = [url |-> u, on |-> q]]
        /\ record' = [record EXCEPT ![q] = "pending"]
        /\ byInvocationKey' = [byInvocationKey EXCEPT ![u] = q]
        /\ run' = [run EXCEPT ![q].pc = "stream"]
        /\ UNCHANGED <<closed, locked, vault, store, hist>>
    BY <1>2 DEF Start
  <2>2. record[q] = "none" /\ run[q].pc = "none" /\ run[q].n = 0
    BY <2>1, NoneAssumption DEF Inv, PendingInv, New
  <2>3. /\ run' \in [Request -> Runner]
        /\ run'[q].pc = "stream" /\ run'[q].n = 0
        /\ \A p \in Request : p # q => run'[p] = run[p]
    <3>1. [run[q] EXCEPT !.pc = "stream"] \in Runner
      BY <1>t DEF TypeOK, Runner, Steps
    <3> QED
      BY <2>1, <2>2, <3>1, <1>t DEF TypeOK, Runner
  <2>4. /\ request'[q].url = u /\ record'[q] = "pending"
        /\ \A p \in Request : p # q => /\ request'[p] = request[p]
                                      /\ record'[p] = record[p]
    BY <2>1, <1>t DEF TypeOK
  <2>5. TypeOK'
    BY <2>1, <2>3, <1>t DEF TypeOK, Requests, store, hist
  <2>6. KeyNamesPendingRecord'
    <3> SUFFICES ASSUME NEW v \in Url, NEW p \in Request
                 PROVE  byInvocationKey'[v] = p
                          <=> record'[p] = "pending" /\ request'[p].url = v
      BY DEF KeyNamesPendingRecord
    <3>1. \A w \in Url : byInvocationKey'[w] = IF w = u THEN q ELSE byInvocationKey[w]
      BY <2>1, <1>t DEF TypeOK
    <3>2. byInvocationKey[v] # q
      BY <2>2 DEF Inv, KeyNamesPendingRecord
    <3>3. p # q => byInvocationKey[u] # p
      BY <2>1, NoneAssumption
    <3> QED
      BY <3>1, <3>2, <3>3, <2>4 DEF Inv, KeyNamesPendingRecord
  <2>7. ClosedOnce'
    BY <2>1, <2>2, <2>4 DEF Inv, ClosedOnce, Terminal
  <2>8. FullRowHasFile'
    BY <2>1 DEF Inv, FullRowHasFile, store
  <2>9. PendingInv'
    BY <2>3, <2>4 DEF Inv, PendingInv, First
  <2>10. PersistInv'
    <3> SUFFICES ASSUME NEW p \in Request PROVE Fits(p, run[p])'
      BY DEF PersistInv
    <3>1. CASE p = q
      BY <3>1, <2>3 DEF Fits, Persisting, Held, Written
    <3>2. CASE p # q
      BY <3>2, <2>1, <2>3 DEF Inv, PersistInv, Fits
    <3> QED
      BY <3>1, <3>2
  <2> QED
    BY <2>5, <2>6, <2>7, <2>8, <2>9, <2>10 DEF Inv
<1> QED
  BY <1>1, <1>2 DEF HandlerStep

\* RunnerFrame for a step into w that leaves the locks and the files alone.
LEMMA TableStep ==
  ASSUME Inv, NEW r \in Request, NEW w \in Runner,
         run' = [run EXCEPT ![r] = w],
         UNCHANGED <<request, tracker, locked, vault>>,
         StoreOK', FullRowHasFile',
         run[r].pc # "none", w.pc # "none",
         First(run[r]) <=> First(w), Fits(r, w)
  PROVE  Inv'
<1>1. \A q \in Request \ {r} : run[q].pc \in Held =>
        locked'[run[q].e] = q /\ vault'[run[q].e] = vault[run[q].e]
  BY DEF Inv, PersistInv, Fits
<1>2. /\ run' \in [Request -> Runner] /\ run'[r] = w
      /\ \A q \in Request \ {r} : run'[q] = run[q]
  BY DEF Inv, TypeOK
<1>3. Fits(r, run[r])'
  BY <1>2 DEF Fits
<1> QED
  BY <1>1, <1>2, <1>3, RunnerFrame

\* TableStep for a step that writes none of what Inv relates.
LEMMA QuietStep ==
  ASSUME Inv, NEW r \in Request, NEW w \in Runner,
         run' = [run EXCEPT ![r] = w],
         UNCHANGED <<request, tracker, locked, vault, row, notation, hist>>,
         edges' \subseteq Entity \X Label,
         run[r].pc # "none", w.pc # "none",
         First(run[r]) <=> First(w), Fits(r, w)
  PROVE  Inv'
<1>1. StoreOK' /\ FullRowHasFile'
  BY DEF Inv, TypeOK, StoreOK, FullRowHasFile, hist
<1> QED
  BY <1>1, TableStep

\* The steps of persistEnvelope that leave the shared tables alone.
LEMMA QuietInv ==
  ASSUME Inv, NEW r \in Request,
         \/ Emit(r) \/ Conflict(r) \/ ReadVault(r) \/ Probe(r)
         \/ \E t \in Label : ProbeLabel(r, t) \/ SkipLabel(r, t)
         \/ UpsertThinFails(r) \/ PersistEdges(r)
  PROVE  Inv'
<1>t. run \in [Request -> Runner] /\ run[r] \in Runner
  BY DEF Inv, TypeOK
<1>f. Fits(r, run[r])
  BY DEF Inv, PersistInv
<1> USE <1>t, <1>f DEF At, Goto, First, Fits, Persisting, Held, Written
<1>1. CASE Conflict(r)
  <2> DEFINE w == [run[r] EXCEPT !.pc = "settle", !.failed = TRUE]
  <2>1. w \in Runner /\ Fits(r, w) /\ w.pc # "none"
        /\ run[r].pc # "none" /\ (First(run[r]) <=> First(w))
    BY <1>1 DEF Conflict, Runner, Steps, Inv, TypeOK
  <2>2. /\ run' = [run EXCEPT ![r] = w] /\ edges' \subseteq Entity \X Label
        /\ UNCHANGED <<request, tracker, locked, vault, row, notation, hist>>
    BY <1>1 DEF Conflict, Inv, TypeOK, store
  <2> QED
    BY <2>1, <2>2, QuietStep
<1>2. CASE ReadVault(r)
  <2> DEFINE w == [run[r] EXCEPT !.pc = "write", !.old = vault[run[r].e]]
  <2>1. w \in Runner /\ Fits(r, w) /\ w.pc # "none"
        /\ run[r].pc # "none" /\ (First(run[r]) <=> First(w))
    BY <1>2 DEF ReadVault, Runner, Steps, Inv, TypeOK
  <2>2. /\ run' = [run EXCEPT ![r] = w] /\ edges' \subseteq Entity \X Label
        /\ UNCHANGED <<request, tracker, locked, vault, row, notation, hist>>
    BY <1>2 DEF ReadVault, Inv, TypeOK, store
  <2> QED
    BY <2>1, <2>2, QuietStep
<1>3. CASE Probe(r)
  <2>p. PICK fresh \in {"new", "known", "unknown"} :
          run' = [run EXCEPT ![r].pc = "upsert", ![r].fresh = fresh]
    BY <1>3 DEF Probe
  <2> DEFINE w == [run[r] EXCEPT !.pc = "upsert", !.fresh = fresh]
  <2>1. w \in Runner /\ Fits(r, w) /\ w.pc # "none"
        /\ run[r].pc # "none" /\ (First(run[r]) <=> First(w))
    BY <1>3, <2>p DEF Probe, Runner, Steps, Inv, TypeOK
  <2>2. /\ run' = [run EXCEPT ![r] = w] /\ edges' \subseteq Entity \X Label
        /\ UNCHANGED <<request, tracker, locked, vault, row, notation, hist>>
    BY <1>3, <2>p DEF Probe, Inv, TypeOK, store
  <2> QED
    BY <2>1, <2>2, QuietStep
<1>4. ASSUME NEW t \in Label, ProbeLabel(r, t), row[t] = "absent"
      PROVE  Inv'
  <2> DEFINE w == [run[r] EXCEPT !.pc = "thin", !.at = t, !.todo = @ \ {t}]
  <2>1. w \in Runner /\ Fits(r, w) /\ w.pc # "none"
        /\ run[r].pc # "none" /\ (First(run[r]) <=> First(w))
    BY <1>4 DEF ProbeLabel, Runner, Steps, Inv, TypeOK
  <2>2. /\ run' = [run EXCEPT ![r] = w] /\ edges' \subseteq Entity \X Label
        /\ UNCHANGED <<request, tracker, locked, vault, row, notation, hist>>
    BY <1>4 DEF ProbeLabel, Inv, TypeOK, store
  <2> QED
    BY <2>1, <2>2, QuietStep
<1>5. ASSUME NEW t \in Label,
             SkipLabel(r, t) \/ (ProbeLabel(r, t) /\ row[t] # "absent")
      PROVE  Inv'
  <2> DEFINE w == [run[r] EXCEPT !.todo = @ \ {t}]
  <2>1. w \in Runner /\ Fits(r, w) /\ w.pc # "none"
        /\ run[r].pc # "none" /\ (First(run[r]) <=> First(w))
    BY <1>5 DEF SkipLabel, ProbeLabel, Runner, Steps, Inv, TypeOK
  <2>2. /\ run' = [run EXCEPT ![r] = w] /\ edges' \subseteq Entity \X Label
        /\ UNCHANGED <<request, tracker, locked, vault, row, notation, hist>>
    BY <1>5 DEF SkipLabel, ProbeLabel, Inv, TypeOK, store
  <2> QED
    BY <2>1, <2>2, QuietStep
<1>6. CASE UpsertThinFails(r)
  <2> DEFINE w == [run[r] EXCEPT !.pc = "labels", !.at = None]
  <2>1. w \in Runner /\ Fits(r, w) /\ w.pc # "none"
        /\ run[r].pc # "none" /\ (First(run[r]) <=> First(w))
    BY <1>6 DEF UpsertThinFails, Runner, Steps, Inv, TypeOK
  <2>2. /\ run' = [run EXCEPT ![r] = w] /\ edges' \subseteq Entity \X Label
        /\ UNCHANGED <<request, tracker, locked, vault, row, notation, hist>>
    BY <1>6 DEF UpsertThinFails, Inv, TypeOK, store
  <2> QED
    BY <2>1, <2>2, QuietStep
<1>7. CASE PersistEdges(r)
  <2>p. PICK kept \in SUBSET run[r].cites :
          /\ edges' = edges \cup ({run[r].e} \X kept)
          /\ run' = [run EXCEPT ![r].pc = "release",
                                ![r].owed = @ \cup ({run[r].e} \X kept)]
    BY <1>7 DEF PersistEdges
  <2> DEFINE w == [run[r] EXCEPT !.pc = "release",
                          !.owed = @ \cup ({run[r].e} \X kept)]
  <2>1. w \in Runner /\ Fits(r, w) /\ w.pc # "none"
        /\ run[r].pc # "none" /\ (First(run[r]) <=> First(w))
    BY <1>7, <2>p DEF PersistEdges, Runner, Steps, Inv, TypeOK
  <2>3. {run[r].e} \X kept \subseteq Entity \X Label
    BY <1>7, <2>p DEF PersistEdges, Runner
  <2>2. /\ run' = [run EXCEPT ![r] = w] /\ edges' \subseteq Entity \X Label
        /\ UNCHANGED <<request, tracker, locked, vault, row, notation, hist>>
    BY <1>7, <2>p, <2>3 DEF PersistEdges, Inv, TypeOK, store
  <2> QED
    BY <2>1, <2>2, QuietStep
<1>8. CASE Emit(r)
  <2>p. PICK e \in Entity, cites \in SUBSET Label :
          run' = [run EXCEPT ![r].pc = "acquire", ![r].n = @ + 1, ![r].e = e,
                             ![r].cites = cites, ![r].todo = cites]
    <3>1. request[r].url \in Url
      BY <1>8 DEF Emit, Inv, PendingInv
    <3> QED
      BY <1>8, <3>1, ResolvesAssumption DEF Emit
  <2> DEFINE w == [run[r] EXCEPT !.pc = "acquire", !.n = @ + 1, !.e = e,
                          !.cites = cites, !.todo = cites]
  <2>3. /\ run[r].pc = "stream" /\ run[r].n \in 0..MaxEnvelopes
        /\ run[r].n < MaxEnvelopes
    BY <1>8 DEF Emit, Runner
  <2>4. run[r].n + 1 \in 0..MaxEnvelopes /\ run[r].n + 1 # 0
    BY <2>3, MaxEnvelopesAssumption
  <2>5. w \in Runner /\ w.n = run[r].n + 1 /\ w.pc = "acquire" /\ w.e = e
    BY <2>4 DEF Runner, Steps
  <2>1. w \in Runner /\ Fits(r, w) /\ w.pc # "none"
        /\ run[r].pc # "none" /\ (First(run[r]) <=> First(w))
    BY <2>3, <2>4, <2>5
  <2>2. /\ run' = [run EXCEPT ![r] = w] /\ edges' \subseteq Entity \X Label
        /\ UNCHANGED <<request, tracker, locked, vault, row, notation, hist>>
    BY <1>8, <2>p, MaxEnvelopesAssumption DEF Emit, Inv, TypeOK, store
  <2> QED
    BY <2>1, <2>2, QuietStep
<1>9. CASE \E t \in Label : ProbeLabel(r, t) \/ SkipLabel(r, t)
  BY <1>4, <1>5, <1>9
<1> HIDE DEF At, Goto, First, Fits
<1> QED
  BY <1>1, <1>2, <1>3, <1>6, <1>7, <1>8, <1>9

\* The steps that may settle the record.
LEMMA SettleInv ==
  ASSUME Inv, NEW r \in Request,
         EmitNothing(r) \/ StreamEnds(r) \/ StreamFails(r) \/ Settle(r)
  PROVE  Inv'
<1>t. run \in [Request -> Runner] /\ run[r] \in Runner
  BY DEF Inv, TypeOK
<1>1. CASE EmitNothing(r)
  <2> DEFINE w == [run[r] EXCEPT !.n = @ + 1]
  <2>1. /\ run[r].pc = "stream" /\ run[r].n \in 0..MaxEnvelopes
        /\ run[r].n < MaxEnvelopes /\ run' = [run EXCEPT ![r] = w]
    BY <1>1, <1>t DEF EmitNothing, At, Runner
  <2>2. run[r].n + 1 \in 0..MaxEnvelopes /\ run[r].n + 1 # 0
    BY <2>1, MaxEnvelopesAssumption
  <2>3. w \in Runner /\ w.n = run[r].n + 1 /\ w.pc = "stream"
    BY <2>1, <2>2, <1>t DEF Runner, Steps
  <2>4. CASE run[r].n = 0
    <3>1. PICK state \in Terminal : Close(r, state)
      BY <1>1, <2>4 DEF EmitNothing, Terminal
    <3>2. First(run[r])
      BY <2>1, <2>4 DEF First
    <3>3. /\ run' \in [Request -> Runner] /\ run'[r].pc = "stream" /\ run'[r].n # 0
          /\ \A q \in Request \ {r} : run'[q] = run[q]
      BY <2>1, <2>2, <2>3, <1>t
    <3>4. /\ UNCHANGED <<request, locked, vault, store, unprobed>>
          /\ told' \subseteq Entity \cup (Entity \X Label)
      BY <1>1 DEF EmitNothing, hist, Inv, TypeOK
    <3> QED
      BY <3>1, <3>2, <3>3, <3>4, CloseFrame
  <2>5. CASE run[r].n # 0
    <3>1. /\ UNCHANGED <<request, tracker, locked, vault, row, notation, hist>>
          /\ edges' \subseteq Entity \X Label
      BY <1>1, <2>5 DEF EmitNothing, store, Inv, TypeOK
    <3>2. First(run[r]) <=> First(w)
      BY <2>1, <2>3, <2>5 DEF First, Persisting, Held, Written
    <3>3. Fits(r, w) /\ run[r].pc # "none" /\ w.pc # "none"
      BY <2>1, <2>3 DEF Fits, Persisting, Held, Written
    <3> QED
      BY <2>1, <2>3, <3>1, <3>2, <3>3, QuietStep
  <2> QED
    BY <2>4, <2>5
<1>2. CASE StreamEnds(r) \/ StreamFails(r)
  <2> DEFINE w == [run[r] EXCEPT !.pc = "done"]
  <2>1. run[r].pc = "stream" /\ run' = [run EXCEPT ![r] = w]
    BY <1>2 DEF StreamEnds, StreamFails, At, Goto
  <2>2. w \in Runner /\ w.pc = "done"
    BY <1>t DEF Runner, Steps
  <2>3. CASE run[r].n = 0
    <3>1. PICK state \in Terminal : Close(r, state)
      BY <1>2, <2>3 DEF StreamEnds, StreamFails, Terminal
    <3>2. First(run[r])
      BY <2>1, <2>3 DEF First
    <3>3. /\ run' \in [Request -> Runner] /\ run'[r].pc = "done"
          /\ \A q \in Request \ {r} : run'[q] = run[q]
      BY <2>1, <2>2, <1>t
    <3>4. /\ UNCHANGED <<request, locked, vault, store, unprobed>>
          /\ told' \subseteq Entity \cup (Entity \X Label)
      BY <1>2 DEF StreamEnds, StreamFails, hist, Inv, TypeOK
    <3> QED
      BY <3>1, <3>2, <3>3, <3>4, CloseFrame
  <2>4. CASE run[r].n # 0
    <3>1. /\ UNCHANGED <<request, tracker, locked, vault, row, notation, hist>>
          /\ edges' \subseteq Entity \X Label
      BY <1>2, <2>4 DEF StreamEnds, StreamFails, store, Inv, TypeOK
    <3>2. /\ Fits(r, w) /\ run[r].pc # "none" /\ w.pc # "none"
          /\ First(run[r]) <=> First(w)
      BY <2>1, <2>2, <2>4 DEF First, Fits, Persisting, Held, Written
    <3> QED
      BY <2>1, <2>2, <3>1, <3>2, QuietStep
  <2> QED
    BY <2>3, <2>4
<1>3. CASE Settle(r)
  <2>1. /\ run[r].pc = "settle" /\ run' = [run EXCEPT ![r] = Rest(r)]
        /\ UNCHANGED <<request, locked, vault, store, unprobed>>
    BY <1>3 DEF Settle, At
  <2>2. /\ Rest(r) \in Runner /\ Rest(r).pc \in {"stream", "done"}
        /\ Rest(r).n = run[r].n
    BY <1>t DEF Rest, Blank, Runner, Steps
  <2>3. run[r].n # 0
    BY <2>1 DEF Inv, PersistInv, Fits, Persisting
  <2>4. /\ run' \in [Request -> Runner] /\ run'[r] = Rest(r)
        /\ \A q \in Request \ {r} : run'[q] = run[q]
    BY <2>1, <2>2, <1>t
  <2>5. told' \subseteq Entity \cup (Entity \X Label)
    BY <1>3, <1>t DEF Settle, Inv, TypeOK, Runner
  <2>6. CASE run[r].n = 1
    <3>1. Outcome(r) \in Terminal /\ Close(r, Outcome(r))
      BY <1>3, <2>6 DEF Settle, Outcome, Terminal
    <3>2. First(run[r])
      BY <2>1, <2>6 DEF First, Persisting
    <3> QED
      BY <2>1, <2>2, <2>3, <2>4, <2>5, <3>1, <3>2, CloseFrame
  <2>7. CASE run[r].n # 1
    <3>1. UNCHANGED <<request, tracker>>
      BY <1>3, <2>7 DEF Settle
    <3>2. StoreOK' /\ FullRowHasFile'
      BY <2>1, <2>5 DEF Inv, TypeOK, StoreOK, FullRowHasFile, store
    <3>3. /\ run[r].pc # "none" /\ run'[r].pc # "none"
          /\ First(run[r]) <=> First(run'[r])
          /\ Fits(r, run[r])'
      BY <2>1, <2>2, <2>3, <2>4, <2>7 DEF First, Fits, Persisting, Held, Written
    <3>4. \A q \in Request \ {r} : run[q].pc \in Held =>
            locked'[run[q].e] = q /\ vault'[run[q].e] = vault[run[q].e]
      BY <2>1 DEF Inv, PersistInv, Fits
    <3> QED
      BY <2>4, <3>1, <3>2, <3>3, <3>4, RunnerFrame
  <2> QED
    BY <2>6, <2>7
<1> QED
  BY <1>1, <1>2, <1>3

\* Two runners under a lock write different entities.
LEMMA OwnEntity ==
  ASSUME Inv, NEW r \in Request, NEW q \in Request \ {r},
         run[r].pc \in Held, run[q].pc \in Held
  PROVE  run[q].e # run[r].e
  BY DEF Inv, PersistInv, Fits

\* The steps that take or drop the lock, or write under it.
LEMMA WriteInv ==
  ASSUME Inv, NEW r \in Request,
         \/ Acquire(r) \/ Release(r) \/ WriteVault(r) \/ UpsertEntity(r)
         \/ UpsertThin(r) \/ Index(r) \/ PersistFails(r)
  PROVE  Inv'
<1>t. /\ run \in [Request -> Runner] /\ run[r] \in Runner
      /\ StoreOK /\ FullRowHasFile
  BY DEF Inv, TypeOK, StoreOK
<1>f. /\ Fits(r, run[r])
      /\ \A q \in Request : Fits(q, run[q])
  BY DEF Inv, PersistInv
<1>1. CASE Acquire(r)
  <2> DEFINE w == [run[r] EXCEPT !.pc = "read"]
  <2>1. /\ run[r].pc = "acquire" /\ locked[run[r].e] = None
        /\ run' = [run EXCEPT ![r] = w] /\ locked' = [locked EXCEPT ![run[r].e] = r]
        /\ UNCHANGED <<request, tracker, vault, store, hist>>
    BY <1>1 DEF Acquire, At, Goto
  <2>2. w \in Runner /\ w.pc = "read" /\ w.n = run[r].n /\ w.e = run[r].e
    BY <1>t DEF Runner, Steps
  <2>3. /\ run' \in [Request -> Runner] /\ run'[r] = w
        /\ \A q \in Request \ {r} : run'[q] = run[q]
    BY <2>1, <2>2, <1>t
  <2>4. run[r].e \in Entity
    BY <2>1, <1>f DEF Fits, Persisting
  <2>5. StoreOK' /\ FullRowHasFile'
    BY <2>1, <1>t DEF StoreOK, FullRowHasFile, store, hist
  <2>6. /\ run[r].pc # "none" /\ run'[r].pc # "none"
        /\ First(run[r]) <=> First(run'[r])
        /\ Fits(r, run[r])'
    BY <2>1, <2>2, <2>3, <2>4, <1>t, <1>f
    DEF StoreOK, First, Fits, Persisting, Held, Written
  <2>7. \A q \in Request \ {r} : run[q].pc \in Held =>
          locked'[run[q].e] = q /\ vault'[run[q].e] = vault[run[q].e]
    BY <2>1, <1>t, <1>f, NoneAssumption DEF StoreOK, Fits
  <2> QED
    BY <2>1, <2>3, <2>5, <2>6, <2>7, RunnerFrame
<1>2. CASE Release(r)
  <2> DEFINE w == [run[r] EXCEPT !.pc = "settle"]
  <2>1. /\ run[r].pc = "release" /\ run' = [run EXCEPT ![r] = w]
        /\ locked' = [e \in Entity |-> IF locked[e] = r THEN None ELSE locked[e]]
        /\ UNCHANGED <<request, tracker, vault, store, hist>>
    BY <1>2 DEF Release, At, Goto
  <2>2. w \in Runner /\ w.pc = "settle" /\ w.n = run[r].n /\ w.e = run[r].e
    BY <1>t DEF Runner, Steps
  <2>3. /\ run' \in [Request -> Runner] /\ run'[r] = w
        /\ \A q \in Request \ {r} : run'[q] = run[q]
    BY <2>1, <2>2, <1>t
  <2>5. StoreOK' /\ FullRowHasFile'
    BY <2>1, <1>t DEF StoreOK, FullRowHasFile, store, hist
  <2>6. /\ run[r].pc # "none" /\ run'[r].pc # "none"
        /\ First(run[r]) <=> First(run'[r])
        /\ Fits(r, run[r])'
    BY <2>1, <2>2, <2>3, <1>f DEF First, Fits, Persisting, Held, Written
  <2>7. \A q \in Request \ {r} : run[q].pc \in Held =>
          locked'[run[q].e] = q /\ vault'[run[q].e] = vault[run[q].e]
    BY <2>1, <1>t, <1>f DEF StoreOK, Fits, Persisting
  <2> QED
    BY <2>1, <2>3, <2>5, <2>6, <2>7, RunnerFrame
<1>3. CASE WriteVault(r)
  <2> DEFINE w == [run[r] EXCEPT !.pc = "probe"]
  <2>1. /\ run[r].pc = "write" /\ run' = [run EXCEPT ![r] = w]
        /\ vault' = [vault EXCEPT ![run[r].e] = run[r].old \cup {<<r, run[r].n>>}]
        /\ UNCHANGED <<request, tracker, locked, store, hist>>
    BY <1>3 DEF WriteVault, At, Goto
  <2>2. w \in Runner /\ w.pc = "probe" /\ w.n = run[r].n /\ w.e = run[r].e
    BY <1>t DEF Runner, Steps
  <2>3. /\ run' \in [Request -> Runner] /\ run'[r] = w
        /\ \A q \in Request \ {r} : run'[q] = run[q]
    BY <2>1, <2>2, <1>t
  <2>4. run[r].e \in Entity /\ run[r].n \in 1..MaxEnvelopes
    BY <2>1, <1>t, <1>f, MaxEnvelopesAssumption DEF Fits, Persisting, Held, Runner
  <2>5. /\ run[r].old \cup {<<r, run[r].n>>} \subseteq Request \X (1..MaxEnvelopes)
        /\ run[r].old \cup {<<r, run[r].n>>} # {}
    <3>1. run[r].old \in SUBSET (Request \X (1..MaxEnvelopes))
      BY <1>t DEF Runner
    <3>2. <<r, run[r].n>> \in Request \X (1..MaxEnvelopes)
      BY <2>4
    <3> QED
      BY <3>1, <3>2
  <2>6. StoreOK'
    BY <2>1, <2>5, <1>t DEF StoreOK, store, hist
  <2>7. FullRowHasFile' /\ vault'[run[r].e] # {}
    <3>1. vault'[run[r].e] # {}
      BY <2>1, <2>4, <2>5, <1>t DEF StoreOK
    <3>2. \A e \in Entity : e # run[r].e => vault'[e] = vault[e]
      BY <2>1, <1>t DEF StoreOK
    <3>3. \A e \in Entity : vault[e] # {} => vault'[e] # {}
      BY <3>1, <3>2
    <3>4. /\ row' = row /\ notation' = notation
          /\ notation \in [Url -> Entity \cup {None}]
      BY <2>1, <1>t DEF StoreOK, store
    <3> QED
      BY <3>1, <3>3, <3>4, <1>t DEF FullRowHasFile
  <2>8. /\ run[r].pc # "none" /\ run'[r].pc # "none"
        /\ First(run[r]) <=> First(run'[r])
        /\ Fits(r, run[r])'
    BY <2>1, <2>2, <2>3, <2>7, <1>f DEF First, Fits, Persisting, Held, Written
  <2>9. \A q \in Request \ {r} : run[q].pc \in Held =>
          locked'[run[q].e] = q /\ vault'[run[q].e] = vault[run[q].e]
    <3> SUFFICES ASSUME NEW q \in Request \ {r}, run[q].pc \in Held
                 PROVE  locked'[run[q].e] = q /\ vault'[run[q].e] = vault[run[q].e]
      OBVIOUS
    <3>1. run[q].e # run[r].e
      BY <2>1, OwnEntity DEF Held
    <3> QED
      BY <3>1, <2>1, <1>t, <1>f DEF StoreOK, Fits
  <2> QED
    BY <2>1, <2>3, <2>6, <2>7, <2>8, <2>9, RunnerFrame
<1>4. CASE UpsertEntity(r)
  <2>1. PICK owed \in SUBSET Entity :
          run' = [run EXCEPT ![r].pc = "index", ![r].owed = owed]
    BY <1>4, <1>f DEF UpsertEntity, At, Fits, Persisting, Held, Written
  <2> DEFINE w == [run[r] EXCEPT !.pc = "index", !.owed = owed]
  <2>2. /\ run[r].pc = "upsert" /\ row' = [row EXCEPT ![run[r].e] = "full"]
        /\ unprobed' \in {unprobed, unprobed \cup {run[r].e}}
        /\ UNCHANGED <<request, tracker, locked, vault, notation, edges, told>>
    BY <1>4 DEF UpsertEntity, At
  <2>3. run[r].e \in Entity /\ vault[run[r].e] # {}
    BY <2>2, <1>f DEF Fits, Persisting, Held, Written
  <2>4. /\ w \in Runner /\ Fits(r, w) /\ w.pc # "none"
        /\ run[r].pc # "none" /\ (First(run[r]) <=> First(w))
    BY <2>2, <1>t, <1>f DEF Runner, Steps, Fits, First, Persisting, Held, Written
  <2>5. StoreOK' /\ FullRowHasFile'
    BY <2>2, <2>3, <1>t DEF StoreOK, FullRowHasFile
  <2> QED
    BY <2>1, <2>2, <2>4, <2>5, TableStep
<1>5. CASE UpsertThin(r)
  <2> DEFINE w == [run[r] EXCEPT !.pc = "labels",
                                 !.owed = @ \cup {run[r].at}, !.at = None]
  <2>1. /\ run[r].pc = "thin" /\ run' = [run EXCEPT ![r] = w]
        /\ row' = [row EXCEPT ![run[r].at] = "thin"]
        /\ UNCHANGED <<request, tracker, locked, vault, notation, edges, hist>>
    BY <1>5 DEF UpsertThin, At
  <2>2. run[r].at \in Entity
    BY <2>1, <1>f, LabelAssumption DEF Fits
  <2>3. /\ w \in Runner /\ Fits(r, w) /\ w.pc # "none"
        /\ run[r].pc # "none" /\ (First(run[r]) <=> First(w))
    BY <2>1, <2>2, <1>t, <1>f
    DEF Runner, Steps, Fits, First, Persisting, Held, Written
  <2>4. StoreOK' /\ FullRowHasFile'
    BY <2>1, <2>2, <1>t DEF StoreOK, FullRowHasFile, hist
  <2> QED
    BY <2>1, <2>3, <2>4, TableStep
<1>6. CASE Index(r) \/ PersistFails(r)
  <2>1. PICK w \in {[run[r] EXCEPT !.pc = "labels"],
                    [run[r] EXCEPT !.pc = "release", !.failed = TRUE]} :
          run' = [run EXCEPT ![r] = w]
    BY <1>6 DEF Index, PersistFails, Goto
  <2>2. /\ run[r].pc \in {"read", "write", "upsert", "index"}
        /\ w.pc = "labels" => run[r].pc = "index"
        /\ notation' # notation => run[r].pc = "index" /\ notation' = Notations(r)
        /\ UNCHANGED <<request, tracker, locked, vault, row, edges, hist>>
    BY <1>6, <2>1, <1>t DEF Index, PersistFails, At, Goto, Runner
  <2>3. run[r].e \in Entity
    BY <2>2, <1>f DEF Fits, Persisting, Held, Written
  <2>4. /\ w \in Runner /\ Fits(r, w) /\ w.pc # "none"
        /\ run[r].pc # "none" /\ (First(run[r]) <=> First(w))
    BY <2>1, <2>2, <1>t, <1>f
    DEF Runner, Steps, Fits, First, Persisting, Held, Written
  <2>5. notation' \in [Url -> Entity \cup {None}]
    BY <2>2, <2>3, <1>t DEF StoreOK, Notations
  <2>6. \A u \in Url : notation'[u] # None => vault[notation'[u]] # {}
    BY <2>2, <1>t, <1>f DEF FullRowHasFile, Notations, Fits, Written
  <2>7. StoreOK' /\ FullRowHasFile'
    BY <2>2, <2>5, <2>6, <1>t DEF StoreOK, FullRowHasFile, hist
  <2> QED
    BY <2>1, <2>2, <2>4, <2>7, TableStep
<1> QED
  BY <1>1, <1>2, <1>3, <1>4, <1>5, <1>6

\* Every step of the specification preserves the invariant.
LEMMA NextInv ==
  ASSUME Inv, [Next]_vars
  PROVE  Inv'
<1>1. CASE UNCHANGED vars
  BY <1>1 DEF vars, tracker, store, hist, Inv, TypeOK, KeyNamesPendingRecord,
     ClosedOnce, FullRowHasFile, PendingInv, First, PersistInv, Fits
<1>2. ASSUME NEW q \in Request, HandlerStep(q)
      PROVE  Inv'
  BY <1>2, HandlerInv DEF HandlerStep
<1>3. ASSUME NEW r \in Request, RunnerStep(r)
      PROVE  Inv'
  BY <1>3, QuietInv, SettleInv, WriteInv DEF RunnerStep
<1> QED
  BY <1>1, <1>2, <1>3 DEF Next

\* The inductive invariant holds in every reachable state.
LEMMA Invariance == Spec => []Inv
  BY InitInv, NextInv, PTL DEF Spec

\* Every variable of the tracker, its runners and the store keeps its type,
\* for any number of requests, URLs, entities and envelopes.
THEOREM TypeCorrect == Spec => []TypeOK
<1>1. Inv => TypeOK
  BY DEF Inv
<1> QED
  BY <1>1, Invariance, PTL

\* beginAttempt and clearInvocationKeyLocked keep one pending runner per URL,
\* a key never leads to a record that has its answer, and the transition of a
\* record is closed once, by whichever of the stream's ends, its first
\* envelope and its failures comes first.
THEOREM SettlesRecords == Spec => []SettlesOnce
<1>1. Inv => SettlesOnce
  BY DEF Inv, SettlesOnce
<1> QED
  BY <1>1, Invariance, PTL

\* persistEnvelope: no failure and no interleaving of runners leaves a full
\* row, or a notation, without the vault file it was derived from.
THEOREM VaultFirst == Spec => []FullRowHasFile
<1>1. Inv => FullRowHasFile
  BY DEF Inv
<1> QED
  BY <1>1, Invariance, PTL

\* writeIngestVaultFile: the entity's lock makes read, merge and replace one
\* step to every other runner, so no provenance is lost.
THEOREM KeepsProvenance == Spec => NoLostProvenance
<1> DEFINE Kept == \A e \in Entity : vault[e] \subseteq vault'[e]
<1>1. Inv /\ [Next]_vars => [Kept]_vars
  <2> SUFFICES ASSUME Inv, Next
               PROVE  Kept
    OBVIOUS
  <2>1. CASE vault' = vault
    BY <2>1
  <2>2. ASSUME NEW r \in Request, WriteVault(r)
        PROVE  Kept
    <3>1. /\ run[r].old = vault[run[r].e]
          /\ vault' = [vault EXCEPT ![run[r].e] = run[r].old \cup {<<r, run[r].n>>}]
      BY <2>2 DEF WriteVault, At, Inv, PersistInv, Fits
    <3> QED
      BY <3>1 DEF Inv, TypeOK
  <2>3. vault' = vault \/ \E r \in Request : WriteVault(r)
    BY DEF Next, HandlerStep, CacheHit, Start, Join, RunnerStep, EmitNothing,
       Emit, StreamEnds, StreamFails, Acquire, Conflict, ReadVault, Probe,
       UpsertEntity, Index, PersistFails, ProbeLabel, SkipLabel, UpsertThin,
       UpsertThinFails, PersistEdges, Release, Settle
  <2> QED
    BY <2>1, <2>2, <2>3
<1> QED
  BY <1>1, Invariance, PTL DEF Spec, NoLostProvenance

----------------------------------------------------------------------------
(* Events.  What is in the store was told, or a runner owes it.             *)

Owing == {"index", "labels", "thin", "release", "settle"}
Owed(x) == \E r \in Request : x \in run[r].owed

\* Nobody owes anything outside persistEnvelope, and a row that the probe saw
\* is still there.
Accounted(w) ==
  /\ w.owed # {} => w.pc \in Owing
  /\ w.pc = "upsert" /\ w.fresh = "known" => row[w.e] # "absent"

ToldInv ==
  /\ \A e \in Entity : row[e] # "absent" => e \in told \cup unprobed \/ Owed(e)
  /\ \A x \in edges : x \in told \/ Owed(x)
  /\ \A r \in Request : Accounted(run[r])

\* What a step of r's runner, into w, must show.
LEMMA ToldFrame ==
  ASSUME Inv, ToldInv, NEW r \in Request, NEW w, run' = [run EXCEPT ![r] = w],
         told \subseteq told', unprobed \subseteq unprobed',
         run[r].owed \subseteq w.owed \cup told',
         \A e \in Entity : row[e] # "absent" => row'[e] # "absent",
         \A e \in Entity : row'[e] # "absent" =>
           row[e] # "absent" \/ e \in w.owed \cup unprobed',
         edges' \subseteq edges \cup w.owed,
         w.owed # {} => w.pc \in Owing,
         w.pc = "upsert" /\ w.fresh = "known" => row'[w.e] # "absent"
  PROVE  ToldInv'
<1>1. /\ run \in [Request -> Runner] /\ run'[r] = w
      /\ \A q \in Request : q # r => run'[q] = run[q]
  BY DEF Inv, TypeOK
<1>2. \A x : Owed(x) => Owed(x)' \/ x \in told'
  BY <1>1 DEF Owed
<1>3. \A x \in w.owed : Owed(x)'
  BY <1>1 DEF Owed
<1>4. ASSUME NEW e \in Entity, row'[e] # "absent"
      PROVE  e \in told' \cup unprobed' \/ Owed(e)'
  BY <1>2, <1>3, <1>4 DEF ToldInv
<1>5. ASSUME NEW x \in edges'
      PROVE  x \in told' \/ Owed(x)'
  BY <1>2, <1>3, <1>5 DEF ToldInv
<1>6. ASSUME NEW q \in Request
      PROVE  Accounted(run[q])'
  <2>1. CASE q = r
    BY <1>1, <2>1 DEF Accounted
  <2>2. CASE q # r
    <3>1. Accounted(run[q]) /\ run'[q] = run[q]
      BY <1>1, <2>2 DEF ToldInv
    <3>2. run[q].pc = "upsert" => run[q].e \in Entity
      BY DEF Inv, PersistInv, Fits, Persisting, Held, Written
    <3> QED
      BY <3>1, <3>2 DEF Accounted
  <2> QED
    BY <2>1, <2>2
<1> QED
  BY <1>4, <1>5, <1>6 DEF ToldInv

\* A step that writes neither rows nor edges and publishes nothing.
LEMMA ToldQuiet ==
  ASSUME Inv, ToldInv, NEW r \in Request, NEW w, run' = [run EXCEPT ![r] = w],
         UNCHANGED <<row, edges, hist>>, w.owed = run[r].owed,
         w.owed # {} => w.pc \in Owing,
         w.pc = "upsert" /\ w.fresh = "known" => row[w.e] # "absent"
  PROVE  ToldInv'
<1>1. told' = told /\ unprobed' = unprobed /\ row' = row /\ edges' = edges
  BY DEF hist
<1> QED
  BY <1>1, ToldFrame

LEMMA ToldInit == Init => ToldInv
  BY DEF Init, ToldInv, Accounted, Blank

LEMMA ToldHandler ==
  ASSUME Inv, ToldInv, NEW q \in Request, HandlerStep(q)
  PROVE  ToldInv'
<1>1. ASSUME NEW u \in Url, CacheHit(q, u) \/ Join(q, u)
      PROVE  ToldInv'
  BY <1>1 DEF CacheHit, Join, ToldInv, Accounted, Owed, store, hist
<1>2. ASSUME NEW u \in Url, Start(q, u)
      PROVE  ToldInv'
  <2> DEFINE w == [run[q] EXCEPT !.pc = "stream"]
  <2>1. /\ run[q] \in Runner /\ run[q].pc = "none"
        /\ run' = [run EXCEPT ![q] = w] /\ UNCHANGED <<row, edges, hist>>
    BY <1>2, NoneAssumption DEF Start, New, Inv, TypeOK, PendingInv, store
  <2>2. run[q].owed = {}
    BY <2>1 DEF ToldInv, Accounted, Owing
  <2>3. w.owed = {} /\ w.pc = "stream"
    BY <2>1, <2>2 DEF Runner
  <2> QED
    BY <2>1, <2>2, <2>3, ToldQuiet
<1> QED
  BY <1>1, <1>2 DEF HandlerStep

\* The steps of a runner that owe nothing new.
LEMMA ToldQuietSteps ==
  ASSUME Inv, ToldInv, NEW r \in Request,
         \/ EmitNothing(r) \/ Emit(r) \/ StreamEnds(r) \/ StreamFails(r)
         \/ Acquire(r) \/ Conflict(r) \/ ReadVault(r) \/ WriteVault(r) \/ Probe(r)
         \/ Index(r) \/ PersistFails(r) \/ UpsertThinFails(r) \/ Release(r)
         \/ \E t \in Label : ProbeLabel(r, t) \/ SkipLabel(r, t)
  PROVE  ToldInv'
<1>t. run[r] \in Runner /\ Accounted(run[r])
  BY DEF Inv, TypeOK, ToldInv
<1>1. UNCHANGED <<row, edges, hist>>
  BY DEF EmitNothing, Emit, StreamEnds, StreamFails, Acquire, Conflict, ReadVault,
     WriteVault, Probe, Index, PersistFails, UpsertThinFails, Release, ProbeLabel,
     SkipLabel, store
<1>2. CASE Probe(r)
  <2>1. PICK fresh \in {IF row[run[r].e] = "absent" THEN "new" ELSE "known", "unknown"} :
          run' = [run EXCEPT ![r].pc = "upsert", ![r].fresh = fresh]
    BY <1>2 DEF Probe
  <2> DEFINE w == [run[r] EXCEPT !.pc = "upsert", !.fresh = fresh]
  <2>2. run[r].pc = "probe" /\ run' = [run EXCEPT ![r] = w]
    BY <1>2, <2>1 DEF Probe, At
  <2>3. w.owed = run[r].owed /\ w.fresh = fresh /\ w.e = run[r].e
    BY <1>t DEF Runner
  <2>4. run[r].owed = {}
    BY <1>t, <2>2 DEF Accounted, Owing
  <2> HIDE DEF w
  <2> QED
    BY <1>1, <2>1, <2>2, <2>3, <2>4, ToldQuiet
<1>3. CASE ~Probe(r)
  <2>1. PICK w \in Runner :
          /\ run' = [run EXCEPT ![r] = w] /\ w.owed = run[r].owed
          /\ w.owed # {} => w.pc \in Owing
          /\ w.pc # "upsert"
    <3>1. CASE EmitNothing(r)
      <4> DEFINE w == [run[r] EXCEPT !.n = @ + 1]
      <4>1. run' = [run EXCEPT ![r] = w] /\ w \in Runner /\ w.owed = run[r].owed
            /\ w.pc = "stream"
        BY <1>t, <3>1, MaxEnvelopesAssumption DEF EmitNothing, Runner, At
      <4> QED
        BY <1>t, <3>1, <4>1 DEF EmitNothing, At, Accounted
    <3>2. CASE Emit(r)
      <4>0. PICK e \in Resolves[request[r].url] :
              \E cites \in SUBSET (Label \ {e}) :
                run' = [run EXCEPT ![r].pc = "acquire", ![r].n = @ + 1, ![r].e = e,
                            ![r].cites = cites, ![r].todo = cites]
        BY <3>2 DEF Emit
      <4>1. PICK cites \in SUBSET (Label \ {e}) :
              run' = [run EXCEPT ![r].pc = "acquire", ![r].n = @ + 1, ![r].e = e,
                          ![r].cites = cites, ![r].todo = cites]
        BY <4>0
      <4> DEFINE w == [run[r] EXCEPT !.pc = "acquire", !.n = @ + 1, !.e = e,
                                     !.cites = cites, !.todo = cites]
      <4>2. request[r].url \in Url /\ run[r].pc = "stream" /\ run[r].n < MaxEnvelopes
        BY <3>2 DEF Emit, At, Inv, PendingInv
      <4>3. e \in Entity
        BY <4>2, ResolvesAssumption
      <4>a. run[r].n + 1 \in 0..MaxEnvelopes /\ "acquire" \in Steps /\ cites \in SUBSET Label
        BY <1>t, <4>2, MaxEnvelopesAssumption DEF Runner, Steps
      <4>b. w \in Runner
        BY <1>t, <4>3, <4>a DEF Runner
      <4>c. w.owed = run[r].owed /\ w.pc = "acquire"
        BY <1>t DEF Runner
      <4>4. run' = [run EXCEPT ![r] = w] /\ w \in Runner /\ w.owed = run[r].owed
            /\ w.pc = "acquire"
        BY <4>1, <4>b, <4>c
      <4> QED
        BY <1>t, <4>2, <4>4 DEF Accounted, Owing
    <3>3. CASE StreamEnds(r) \/ StreamFails(r)
      <4> DEFINE w == [run[r] EXCEPT !.pc = "done"]
      <4>1. run' = [run EXCEPT ![r] = w] /\ w \in Runner /\ w.owed = run[r].owed
            /\ w.pc = "done" /\ run[r].pc = "stream"
        BY <1>t, <3>3 DEF StreamEnds, StreamFails, Runner, Steps, At, Goto
      <4> QED
        BY <1>t, <4>1 DEF Accounted, Owing
    <3>4. CASE Acquire(r)
      <4> DEFINE w == [run[r] EXCEPT !.pc = "read"]
      <4>1. run' = [run EXCEPT ![r] = w] /\ w \in Runner /\ w.owed = run[r].owed
            /\ w.pc = "read" /\ run[r].pc = "acquire"
        BY <1>t, <3>4 DEF Acquire, Runner, Steps, At, Goto
      <4> QED
        BY <1>t, <4>1 DEF Accounted, Owing
    <3>5. CASE Conflict(r)
      <4> DEFINE w == [run[r] EXCEPT !.pc = "settle", !.failed = TRUE]
      <4>1. run' = [run EXCEPT ![r] = w] /\ w \in Runner /\ w.owed = run[r].owed
            /\ w.pc = "settle"
        BY <1>t, <3>5 DEF Conflict, Runner, Steps, At
      <4> QED
        BY <4>1 DEF Owing
    <3>6. CASE ReadVault(r)
      <4> DEFINE w == [run[r] EXCEPT !.pc = "write", !.old = vault[run[r].e]]
      <4>1. run[r].pc = "read" /\ run[r].e \in Entity
        BY <3>6 DEF ReadVault, At, Inv, PersistInv, Fits, Persisting, Held
      <4>2. run' = [run EXCEPT ![r] = w] /\ w \in Runner /\ w.owed = run[r].owed
            /\ w.pc = "write"
        BY <1>t, <3>6, <4>1 DEF ReadVault, Runner, Steps, Inv, TypeOK
      <4> QED
        BY <1>t, <4>1, <4>2 DEF Accounted, Owing
    <3>7. CASE WriteVault(r)
      <4> DEFINE w == [run[r] EXCEPT !.pc = "probe"]
      <4>1. run' = [run EXCEPT ![r] = w] /\ w \in Runner /\ w.owed = run[r].owed
            /\ w.pc = "probe" /\ run[r].pc = "write"
        BY <1>t, <3>7 DEF WriteVault, Runner, Steps, At, Goto
      <4> QED
        BY <1>t, <4>1 DEF Accounted, Owing
    <3>8. CASE Index(r)
      <4> DEFINE w == [run[r] EXCEPT !.pc = "labels"]
      <4>1. run' = [run EXCEPT ![r] = w] /\ w \in Runner /\ w.owed = run[r].owed
            /\ w.pc = "labels"
        BY <1>t, <3>8 DEF Index, Runner, Steps, At, Goto
      <4> QED
        BY <4>1 DEF Owing
    <3>9. CASE PersistFails(r)
      <4> DEFINE w == [run[r] EXCEPT !.pc = "release", !.failed = TRUE]
      <4>1. run' = [run EXCEPT ![r] = w] /\ w \in Runner /\ w.owed = run[r].owed
            /\ w.pc = "release"
        BY <1>t, <3>9 DEF PersistFails, Runner, Steps
      <4> QED
        BY <4>1 DEF Owing
    <3>10. CASE UpsertThinFails(r)
      <4> DEFINE w == [run[r] EXCEPT !.pc = "labels", !.at = None]
      <4>1. run' = [run EXCEPT ![r] = w] /\ w \in Runner /\ w.owed = run[r].owed
            /\ w.pc = "labels"
        BY <1>t, <3>10 DEF UpsertThinFails, Runner, Steps
      <4> QED
        BY <4>1 DEF Owing
    <3>11. CASE Release(r)
      <4> DEFINE w == [run[r] EXCEPT !.pc = "settle"]
      <4>1. run' = [run EXCEPT ![r] = w] /\ w \in Runner /\ w.owed = run[r].owed
            /\ w.pc = "settle"
        BY <1>t, <3>11 DEF Release, Runner, Steps, Goto
      <4> QED
        BY <4>1 DEF Owing
    <3>12. ASSUME NEW t \in Label, ProbeLabel(r, t) \/ SkipLabel(r, t)
           PROVE  \E w \in Runner :
                    /\ run' = [run EXCEPT ![r] = w] /\ w.owed = run[r].owed
                    /\ w.owed # {} => w.pc \in Owing
                    /\ w.pc # "upsert"
      <4>1. PICK w \in {[run[r] EXCEPT !.pc = "thin", !.at = t, !.todo = @ \ {t}],
                        [run[r] EXCEPT !.todo = @ \ {t}]} : run' = [run EXCEPT ![r] = w]
        BY <3>12 DEF ProbeLabel, SkipLabel
      <4>0. run[r].pc = "labels" /\ "thin" \in Steps
        BY <3>12 DEF ProbeLabel, SkipLabel, At, Steps
      <4>a. w \in Runner
        BY <1>t, <4>0, <4>1 DEF Runner
      <4>2. w \in Runner /\ w.owed = run[r].owed /\ w.pc \in {"thin", "labels"}
        BY <1>t, <4>0, <4>1, <4>a DEF Runner
      <4> QED
        BY <4>1, <4>2 DEF Owing
    <3> QED
      BY <1>3, <3>1, <3>2, <3>3, <3>4, <3>5, <3>6, <3>7, <3>8, <3>9, <3>10, <3>11, <3>12
  <2> QED
    BY <1>1, <2>1, ToldQuiet
<1> QED
  BY <1>2, <1>3

\* The steps that make rows and edges, and the one that publishes.
LEMMA ToldWrites ==
  ASSUME Inv, ToldInv, NEW r \in Request,
         UpsertEntity(r) \/ UpsertThin(r) \/ PersistEdges(r) \/ Settle(r)
  PROVE  ToldInv'
<1>t. run[r] \in Runner /\ Accounted(run[r]) /\ Fits(r, run[r])
      /\ row \in [Entity -> {"absent", "thin", "full"}]
  BY DEF Inv, TypeOK, ToldInv, PersistInv
<1>1. CASE UpsertEntity(r)
  <2> DEFINE e == run[r].e
             owed == IF run[r].fresh = "new" THEN {e} ELSE {}
             w == [run[r] EXCEPT !.pc = "index", !.owed = owed]
  <2>1. /\ run[r].pc = "upsert" /\ row' = [row EXCEPT ![e] = "full"]
        /\ run' = [run EXCEPT ![r] = w] /\ edges' = edges /\ told' = told
        /\ unprobed' = IF run[r].fresh = "unknown" /\ row[e] = "absent"
                       THEN unprobed \cup {e} ELSE unprobed
    BY <1>1 DEF UpsertEntity, At
  <2>2. run[r].owed = {} /\ e \in Entity /\ run[r].fresh \in {"new", "known", "unknown"}
    BY <1>t, <2>1 DEF Accounted, Owing, Fits, Persisting, Held, Written, Runner
  <2>3. w.owed = owed /\ w.pc = "index"
    BY <1>t DEF Runner
  <2>4. row[e] # "absent" \/ e \in owed \cup unprobed'
    BY <1>t, <2>1, <2>2 DEF Accounted
  <2>5. \A x \in Entity : row'[x] = IF x = e THEN "full" ELSE row[x]
    BY <1>t, <2>1
  <2> HIDE DEF w, owed, e
  <2>6. w.pc \in Owing /\ w.pc # "upsert"
    BY <2>3 DEF Owing
  <2>7. /\ \A x \in Entity : row[x] # "absent" => row'[x] # "absent"
        /\ \A x \in Entity : row'[x] # "absent" =>
             row[x] # "absent" \/ x \in w.owed \cup unprobed'
    <3>1. unprobed \subseteq unprobed'
      BY <2>1
    <3> QED
      BY <2>3, <2>4, <2>5, <3>1
  <2>8. /\ told \subseteq told' /\ unprobed \subseteq unprobed'
        /\ run[r].owed \subseteq w.owed \cup told' /\ edges' \subseteq edges \cup w.owed
        /\ run' = [run EXCEPT ![r] = w]
    BY <2>1, <2>2, <2>3
  <2> QED
    BY <2>6, <2>7, <2>8, ToldFrame
<1>2. CASE UpsertThin(r)
  <2> DEFINE e == run[r].at
             owed == run[r].owed \cup {e}
             w == [run[r] EXCEPT !.pc = "labels", !.owed = owed, !.at = None]
  <2>1. /\ row' = [row EXCEPT ![e] = "thin"]
        /\ run' = [run EXCEPT ![r] = w] /\ edges' = edges /\ told' = told
        /\ unprobed' = unprobed
    BY <1>2 DEF UpsertThin, At, hist
  <2>3. w.owed = owed /\ w.pc = "labels" /\ run[r].owed \subseteq owed /\ e \in owed
    BY <1>t DEF Runner
  <2>5. \A x \in Entity : row'[x] = IF x = e THEN "thin" ELSE row[x]
    BY <1>t, <2>1
  <2> HIDE DEF w, owed, e
  <2>6. w.pc \in Owing /\ w.pc # "upsert"
    BY <2>3 DEF Owing
  <2>7. /\ \A x \in Entity : row[x] # "absent" => row'[x] # "absent"
        /\ \A x \in Entity : row'[x] # "absent" =>
             row[x] # "absent" \/ x \in w.owed \cup unprobed'
    BY <2>3, <2>5
  <2>8. /\ told \subseteq told' /\ unprobed \subseteq unprobed'
        /\ run[r].owed \subseteq w.owed \cup told' /\ edges' \subseteq edges \cup w.owed
        /\ run' = [run EXCEPT ![r] = w]
    BY <2>1, <2>3
  <2> QED
    BY <2>6, <2>7, <2>8, ToldFrame
<1>3. CASE PersistEdges(r)
  <2>1. PICK kept : /\ edges' = edges \cup ({run[r].e} \X kept)
                    /\ run' = [run EXCEPT ![r].pc = "release",
                                          ![r].owed = @ \cup ({run[r].e} \X kept)]
    BY <1>3 DEF PersistEdges
  <2> DEFINE new == {run[r].e} \X kept
             w == [run[r] EXCEPT !.pc = "release", !.owed = @ \cup new]
  <2>2. /\ run' = [run EXCEPT ![r] = w] /\ row' = row /\ told' = told
        /\ unprobed' = unprobed /\ edges' = edges \cup new
    BY <1>3, <2>1 DEF PersistEdges, hist
  <2>3. w.owed = run[r].owed \cup new /\ w.pc = "release"
    BY <1>t DEF Runner
  <2> HIDE DEF w, new
  <2>6. w.pc \in Owing /\ w.pc # "upsert"
    BY <2>3 DEF Owing
  <2> QED
    BY <2>2, <2>3, <2>6, ToldFrame
<1>4. CASE Settle(r)
  <2>1. /\ told' = told \cup run[r].owed /\ run' = [run EXCEPT ![r] = Rest(r)]
        /\ row' = row /\ edges' = edges /\ unprobed' = unprobed
    BY <1>4 DEF Settle, store
  <2>2. Rest(r).owed = {} /\ Rest(r).pc # "upsert"
    BY DEF Rest, Blank
  <2> QED
    BY <2>1, <2>2, ToldFrame
<1> QED
  BY <1>1, <1>2, <1>3, <1>4

\* persistEnvelope and Drain: through every failure and every interleaving of
\* runners, the bus has been told of every row and edge when no runner is left.
THEOREM TellsEverything == Spec => []EveryRowIsTold
<1>1. Init => ToldInv
  BY ToldInit
<1>2. Inv /\ ToldInv /\ [Next]_vars => ToldInv'
  <2> SUFFICES ASSUME Inv, ToldInv, [Next]_vars PROVE ToldInv'
    OBVIOUS
  <2>1. CASE UNCHANGED vars
    BY <2>1 DEF vars, store, hist, ToldInv, Accounted, Owed
  <2>2. ASSUME NEW q \in Request, HandlerStep(q)
        PROVE  ToldInv'
    BY <2>2, ToldHandler
  <2>3. ASSUME NEW r \in Request, RunnerStep(r)
        PROVE  ToldInv'
    BY <2>3, ToldQuietSteps, ToldWrites DEF RunnerStep
  <2> QED
    BY <2>1, <2>2, <2>3 DEF Next
<1>3. ToldInv => EveryRowIsTold
  BY DEF ToldInv, EveryRowIsTold, Accounted, Owed, Owing
<1> QED
  BY <1>1, <1>2, <1>3, Invariance, PTL DEF Spec
=============================================================================
