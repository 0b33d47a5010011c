------------------------ MODULE WorkflowLoader_proof ------------------------
(***************************************************************************)
(* Proofs about WorkflowLoader, for every directory, every set of names    *)
(* and contents and every number of edits: the registry stays consistent   *)
(* although two loads and the editor run side by side.                     *)
(***************************************************************************)
EXTENDS WorkflowLoader, WellFoundedInduction, TLAPS

\* A set of numbers that is not empty has a least one: the next path of a load.
LEMMA MinIsThere ==
  ASSUME NEW S \in SUBSET Nat, S # {}
  PROVE  Min(S) \in S
<1>1. PICK x \in S : \A y \in S : ~ (<<y, x>> \in OpToRel(<, Nat))
  BY NatLessThanWellFounded, WFMin
<1>2. ASSUME NEW y \in S PROVE x =< y
  <2>1. x \in Nat /\ y \in Nat
    OBVIOUS
  <2>2. <<y, x>> \in OpToRel(<, Nat) <=> y < x
    BY <2>1, ZenonT(20) DEF OpToRel
  <2>3. ~ (y < x)
    BY <1>1, <2>2, Zenon
  <2> QED
    BY <2>1, <2>3
<1> QED
  BY <1>2 DEF Min

\* The state of one load after a step of it.
LEMMA LoadStored ==
  ASSUME TypeOK, NEW l \in Loads, NEW s \in LoadStates,
         load' = [load EXCEPT ![l] = s]
  PROVE  load' \in [Loads -> LoadStates]
  BY DEF TypeOK

Inv == TypeOK /\ RegistryIsConsistent

\* Whatever leaves the registry alone keeps it consistent.
LEMMA RegistryKept ==
  ASSUME RegistryIsConsistent, UNCHANGED <<workflows, perFile>>
  PROVE  RegistryIsConsistent'
  BY DEF RegistryIsConsistent, OneFilePerName, OneCatchAllPerSlot, SameSlot

\* What the edits and the steps of a load that hold no lock must show.
LEMMA OtherStep ==
  ASSUME Inv, UNCHANGED <<workflows, perFile, mtimes>>,
         file' \in [Path -> Files \cup {None}], edits' \in 0..MaxEdits,
         load' \in [Loads -> LoadStates], booted' \in BOOLEAN,
         engine' \in [Name -> Workflows \cup {None}]
  PROVE  Inv'
  BY RegistryKept DEF Inv, TypeOK

\* The files at boot are stamped within the bound.
LEMMA InitInv == Init => Inv
<1> SUFFICES ASSUME Init PROVE Inv
  OBVIOUS
<1> USE ContentAssumption, NoneAssumption, BoundAssumption
<1>1. file \in [Path -> Files \cup {None}]
  <2>1. PICK present \in [Path -> Content \cup {None}] :
          file = [p \in Path |-> IF present[p] = None THEN None
                                 ELSE [content |-> present[p], mtime |-> p]]
    BY DEF Init
  <2>2. \A p \in Path : p \in 1..MaxEdits
    BY DEF Path
  <2> QED
    BY <2>1, <2>2 DEF Files
<1>2. Idle \in LoadStates
  BY DEF Idle, LoadStates, LoadRecords
<1>3. TypeOK
  <2>1. edits \in 0..MaxEdits /\ mtimes \in [Path -> 0..MaxEdits]
    BY DEF Init
  <2> QED
    BY <1>1, <1>2, <2>1 DEF Init, TypeOK
<1>4. RegistryIsConsistent
  BY DEF Init, RegistryIsConsistent, OneFilePerName, OneCatchAllPerSlot
<1> QED
  BY <1>3, <1>4 DEF Inv

\* A load that lets go of its path is well formed again.
LEMMA CommittedTypes ==
  ASSUME TypeOK, NEW l \in Loads, Committed(l)
  PROVE  /\ file' \in [Path -> Files \cup {None}]
         /\ edits' \in 0..MaxEdits
         /\ load' \in [Loads -> LoadStates]
         /\ booted' \in BOOLEAN
         /\ engine' \in [Name -> Workflows \cup {None}]
         /\ load[l].at \in Path /\ load[l].mtime \in 0..MaxEdits
         /\ load[l].read \in Content \cup {None}
  BY NoneAssumption, BoundAssumption DEF Committed, TypeOK, LoadStates, LoadRecords

\* The operator's edits and the endpoints' writes.
LEMMA EditInv ==
  ASSUME Inv, Edit, file' \in [Path -> Files \cup {None}]
  PROVE  Inv'
<1>1. edits' \in 0..MaxEdits
  BY BoundAssumption DEF Edit, Inv, TypeOK
<1> QED
  BY <1>1, OtherStep DEF Edit, Inv, TypeOK

\* A written file carries the new stamp.
LEMMA WriteInv ==
  ASSUME Inv, NEW p \in Path, NEW c \in Content, Edit,
         file' = [file EXCEPT ![p] = [content |-> c, mtime |-> edits + 1]]
  PROVE  Inv'
<1>1. [content |-> c, mtime |-> edits + 1] \in Files
  BY BoundAssumption DEF Edit, Inv, TypeOK, Files
<1> QED
  BY <1>1, EditInv DEF Inv, TypeOK

\* Dropping the names of vanished paths keeps names and paths paired.
LEMMA DropInv ==
  ASSUME Inv, NEW l \in Loads, DropVanished(l)
  PROVE  Inv'
<1> DEFINE vanished == {p \in Path \ load[l].seen : perFile[p] # None}
           gone(n) == \E p \in vanished : perFile[p] = n
<1> USE NoneAssumption, BoundAssumption
<1>0. TypeOK /\ OneFilePerName /\ OneCatchAllPerSlot
  BY DEF Inv, RegistryIsConsistent
<1>1. /\ workflows' = [n \in Name |-> IF gone(n) THEN None ELSE workflows[n]]
      /\ perFile' = [p \in Path |-> IF p \in vanished THEN None ELSE perFile[p]]
      /\ mtimes' = [p \in Path |-> IF p \in vanished THEN 0 ELSE mtimes[p]]
  BY DEF DropVanished
<1>2. load' \in [Loads -> LoadStates]
  BY <1>0 DEF DropVanished, TypeOK, LoadStates, LoadRecords
<1>3. TypeOK'
  BY <1>0, <1>1, <1>2 DEF DropVanished, TypeOK
<1>4. OneFilePerName'
  <2>1. ASSUME NEW p \in Path, perFile'[p] # None
        PROVE  workflows'[perFile'[p]] # None /\ workflows'[perFile'[p]].path = p
    <3>1. p \notin vanished /\ perFile'[p] = perFile[p] /\ perFile[p] \in Name
      BY <2>1, <1>0, <1>1 DEF TypeOK
    <3>2. workflows[perFile[p]] # None /\ workflows[perFile[p]].path = p
      BY <3>1, <1>0 DEF OneFilePerName
    <3>3. ~gone(perFile[p])
      BY <3>1, <3>2, <1>0 DEF OneFilePerName
    <3> QED
      BY <3>1, <3>2, <3>3, <1>1
  <2>2. ASSUME NEW n \in Name, workflows'[n] # None
        PROVE  perFile'[workflows'[n].path] = n
    <3>1. ~gone(n) /\ workflows'[n] = workflows[n]
      BY <2>2, <1>1
    <3>2. perFile[workflows[n].path] = n /\ workflows[n].path \in Path
      BY <3>1, <2>2, <1>0 DEF OneFilePerName, TypeOK, Workflows
    <3> QED
      BY <3>1, <3>2, <1>1
  <2> QED
    BY <2>1, <2>2 DEF OneFilePerName
<1>5. OneCatchAllPerSlot'
  <2>1. \A n \in Name : workflows'[n] # None => workflows'[n] = workflows[n]
    BY <1>1
  <2> QED
    BY <2>1, <1>0 DEF OneCatchAllPerSlot, SameSlot
<1> QED
  BY <1>3, <1>4, <1>5 DEF Inv, RegistryIsConsistent

\* A refused file takes its own name out and no other.
LEMMA RejectInv ==
  ASSUME Inv, NEW l \in Loads, Reject(l)
  PROVE  Inv'
<1> DEFINE p == load[l].at
<1> USE NoneAssumption, BoundAssumption
<1>0. TypeOK /\ OneFilePerName /\ OneCatchAllPerSlot
  BY DEF Inv, RegistryIsConsistent
<1>1. /\ workflows' = [n \in Name |-> IF n = perFile[p] THEN None ELSE workflows[n]]
      /\ perFile' = [perFile EXCEPT ![p] = None]
      /\ mtimes' = [mtimes EXCEPT ![p] = load[l].mtime]
  BY DEF Reject
<1>2. p \in Path /\ load[l].mtime \in 0..MaxEdits
  BY <1>0, CommittedTypes DEF Reject
<1>3. TypeOK'
  BY <1>0, <1>1, <1>2, CommittedTypes DEF Reject, TypeOK
<1>4. OneFilePerName'
  <2>1. ASSUME NEW q \in Path, perFile'[q] # None
        PROVE  workflows'[perFile'[q]] # None /\ workflows'[perFile'[q]].path = q
    <3>1. q # p /\ perFile'[q] = perFile[q] /\ perFile[q] \in Name
      BY <2>1, <1>0, <1>1, <1>2 DEF TypeOK
    <3>2. workflows[perFile[q]] # None /\ workflows[perFile[q]].path = q
      BY <3>1, <1>0 DEF OneFilePerName
    <3>3. perFile[q] # perFile[p]
      BY <3>1, <3>2, <1>0, <1>2 DEF OneFilePerName
    <3> QED
      BY <3>1, <3>2, <3>3, <1>1
  <2>2. ASSUME NEW n \in Name, workflows'[n] # None
        PROVE  perFile'[workflows'[n].path] = n
    <3>1. n # perFile[p] /\ workflows'[n] = workflows[n]
      BY <2>2, <1>1
    <3>2. perFile[workflows[n].path] = n /\ workflows[n].path \in Path
      BY <3>1, <2>2, <1>0 DEF OneFilePerName, TypeOK, Workflows
    <3> QED
      BY <3>1, <3>2, <1>0, <1>1 DEF TypeOK
  <2> QED
    BY <2>1, <2>2 DEF OneFilePerName
<1>5. OneCatchAllPerSlot'
  <2>1. \A n \in Name : workflows'[n] # None => workflows'[n] = workflows[n]
    BY <1>1
  <2> QED
    BY <2>1, <1>0 DEF OneCatchAllPerSlot, SameSlot
<1> QED
  BY <1>3, <1>4, <1>5 DEF Inv, RegistryIsConsistent

\* The check under the lock is what a registration needs: its name and its slot
\* are with no other path.
LEMMA RegisterInv ==
  ASSUME Inv, NEW l \in Loads, Register(l)
  PROVE  Inv'
<1> DEFINE p == load[l].at
           c == load[l].read
           w == [content |-> c, path |-> p]
<1> USE NoneAssumption, BoundAssumption
<1>0. TypeOK /\ OneFilePerName /\ OneCatchAllPerSlot
  BY DEF Inv, RegistryIsConsistent
<1>1. /\ workflows' = [n \in Name |-> IF n = NameIn[c] THEN w
                                      ELSE IF n = perFile[p] THEN None ELSE workflows[n]]
      /\ perFile' = [perFile EXCEPT ![p] = NameIn[c]]
      /\ mtimes' = [mtimes EXCEPT ![p] = load[l].mtime]
      /\ ~Collides(c, p)
  BY DEF Register
<1>2. p \in Path /\ load[l].mtime \in 0..MaxEdits
  BY <1>0, CommittedTypes DEF Register
<1>3. c \in Content /\ NameIn[c] \in Name
  BY ContentAssumption DEF Register, Accepted
<1>4. TypeOK'
  BY <1>0, <1>1, <1>2, <1>3, CommittedTypes DEF Register, TypeOK, Workflows
<1>5. \A q \in Path \ {p} : perFile'[q] = perFile[q] /\ perFile[q] # NameIn[c]
  BY <1>0, <1>1 DEF Collides, NameElsewhere, TypeOK
<1>6. perFile'[p] = NameIn[c] /\ workflows'[NameIn[c]] = w
  BY <1>0, <1>1, <1>2, <1>3 DEF TypeOK
<1>7. ASSUME NEW n \in Name \ {NameIn[c]}, workflows'[n] # None
      PROVE  /\ n # perFile[p] /\ workflows'[n] = workflows[n]
             /\ workflows[n].path \in Path \ {p} /\ perFile[workflows[n].path] = n
  <2>1. n # perFile[p] /\ workflows'[n] = workflows[n]
    BY <1>1, <1>7
  <2> QED
    BY <2>1, <1>7, <1>0 DEF OneFilePerName, TypeOK, Workflows
<1>8. OneFilePerName'
  <2>1. ASSUME NEW q \in Path, perFile'[q] # None, q # p
        PROVE  workflows'[perFile'[q]] # None /\ workflows'[perFile'[q]].path = q
    <3>1. perFile'[q] = perFile[q] /\ perFile[q] \in Name /\ perFile[q] # NameIn[c]
      BY <2>1, <1>0, <1>5 DEF TypeOK
    <3>2. workflows[perFile[q]] # None /\ workflows[perFile[q]].path = q
      BY <3>1, <1>0 DEF OneFilePerName
    <3>3. perFile[q] # perFile[p]
      BY <2>1, <3>1, <3>2, <1>0, <1>2 DEF OneFilePerName
    <3> QED
      BY <3>1, <3>2, <3>3, <1>1
  <2>2. w # None
    BY <1>2, <1>3 DEF Workflows
  <2>3. \A n \in Name : workflows'[n] # None => perFile'[workflows'[n].path] = n
    BY <1>5, <1>6, <1>7
  <2> QED
    BY <1>6, <2>1, <2>2, <2>3 DEF OneFilePerName
<1>9. OneCatchAllPerSlot'
  <2>1. ASSUME NEW n \in Name \ {NameIn[c]}, workflows'[n] # None
        PROVE  ~SameSlot(c, workflows'[n].content)
    BY <2>1, <1>1, <1>7 DEF Collides, SlotElsewhere
  <2>2. \A n \in Name \ {NameIn[c]} :
          workflows'[n] # None => ~SameSlot(workflows'[n].content, c)
    BY <2>1 DEF SameSlot
  <2>3. ASSUME NEW m \in Name \ {NameIn[c]}, NEW n \in Name \ {NameIn[c]}, m # n,
               workflows'[m] # None, workflows'[n] # None
        PROVE  ~SameSlot(workflows'[m].content, workflows'[n].content)
    BY <2>3, <1>0, <1>7 DEF OneCatchAllPerSlot
  <2>4. ASSUME NEW m \in Name, NEW n \in Name, m # n,
               workflows'[m] # None, workflows'[n] # None
        PROVE  ~SameSlot(workflows'[m].content, workflows'[n].content)
    BY <2>1, <2>2, <2>3, <2>4, <1>6
  <2> QED
    BY <2>4 DEF OneCatchAllPerSlot, SameSlot
<1> QED
  BY <1>4, <1>8, <1>9 DEF Inv, RegistryIsConsistent

\* A step of a load keeps the invariant.
LEMMA LoadStepInv ==
  ASSUME Inv, NEW l \in Loads, LoadStep(l)
  PROVE  Inv'
<1> USE NoneAssumption, BoundAssumption
<1>t. TypeOK
  BY DEF Inv
<1>1. CASE Enumerate(l)
  <2> DEFINE there == {p \in Path : file[p] # None}
             s == [Idle EXCEPT !.pc = "drop", !.seen = there, !.todo = there]
  <2>1. s \in LoadStates
    <3>1. s \in LoadRecords
      <4>1. there \in SUBSET Path /\ 0 \in 0..MaxEdits
        OBVIOUS
      <4> HIDE DEF there
      <4> QED
        BY <4>1 DEF Idle, LoadRecords
    <3>2. s.at = None /\ s.pc = "drop"
      BY DEF Idle
    <3> QED
      BY <3>1, <3>2 DEF LoadStates
  <2>2. load' \in [Loads -> LoadStates]
    BY <2>1, <1>1, <1>t, LoadStored DEF Enumerate
  <2> QED
    BY <2>2, <1>1, <1>t, OtherStep DEF Enumerate, TypeOK
<1>2. CASE DropVanished(l)
  BY <1>2, DropInv
<1>3. CASE StatFile(l)
  <2> DEFINE p == Min(load[l].todo)
  <2>1. p \in Path
    <3>1. load[l].todo \in SUBSET Path /\ load[l].todo # {}
      BY <1>3, <1>t DEF StatFile, TypeOK, LoadStates, LoadRecords
    <3>2. load[l].todo \in SUBSET Nat
      BY <3>1 DEF Path
    <3> HIDE DEF p
    <3> QED
      BY <3>1, <3>2, MinIsThere DEF p
  <2> HIDE DEF p
  <2>2. file[p] # None => file[p].mtime \in 0..MaxEdits
    BY <2>1, <1>t DEF TypeOK, Files
  <2> DEFINE same == file[p] = None \/ mtimes[p] = file[p].mtime
             s == [load[l] EXCEPT !.todo = @ \ {p},
                                  !.pc = IF same THEN "next" ELSE "parse",
                                  !.at = IF same THEN None ELSE p,
                                  !.mtime = IF same THEN 0 ELSE file[p].mtime]
  <2>3. s \in LoadStates
    <3>1. load[l] \in LoadRecords
      BY <1>t DEF TypeOK, LoadStates
    <3> HIDE DEF same
    <3>2. s \in LoadRecords
      <4> DEFINE at == IF same THEN None ELSE p
                 mtime == IF same THEN 0 ELSE file[p].mtime
                 pc == IF same THEN "next" ELSE "parse"
      <4>1. at \in Path \cup {None} /\ pc \in {"next", "parse"}
        BY <2>1
      <4>2. mtime \in 0..MaxEdits
        BY <2>2 DEF same
      <4> HIDE DEF at, mtime, pc
      <4>3. [load[l] EXCEPT !.todo = @ \ {p}, !.pc = pc, !.at = at,
                            !.mtime = mtime] \in LoadRecords
        BY <3>1, <4>1, <4>2 DEF LoadRecords
      <4> QED
        BY <4>3 DEF at, mtime, pc
    <3>3. /\ s.at = IF same THEN None ELSE p
          /\ s.pc = IF same THEN "next" ELSE "parse"
      BY <3>1 DEF LoadRecords
    <3> HIDE DEF s
    <3>4. CASE same
      BY <3>2, <3>3, <3>4 DEF LoadStates
    <3>5. CASE ~same
      BY <3>2, <3>3, <3>5, <2>1 DEF LoadStates
    <3> QED
      BY <3>4, <3>5
  <2>4. load' = [load EXCEPT ![l] = s]
    BY <1>3, <1>t DEF StatFile, TypeOK, p
  <2>5. load' \in [Loads -> LoadStates]
    BY <2>3, <2>4, <1>t, LoadStored
  <2> QED
    BY <2>5, <1>3, <1>t, OtherStep DEF StatFile, TypeOK
<1>4. CASE ParseFile(l)
  <2>1. load[l].at \in Path
    BY <1>4, <1>t DEF ParseFile, TypeOK, LoadStates, LoadRecords
  <2>2. file[load[l].at] # None => file[load[l].at].content \in Content
    BY <2>1, <1>t DEF TypeOK, Files
  <2> DEFINE p == load[l].at
             s == [load[l] EXCEPT !.pc = "commit",
                     !.read = IF file[p] = None THEN None ELSE file[p].content]
  <2>3. s \in LoadStates
    <3>1. load[l] \in LoadRecords
      BY <1>t DEF TypeOK, LoadStates
    <3>2. s \in LoadRecords
      BY <3>1, <2>2 DEF LoadRecords
    <3>3. s.at = p /\ s.pc = "commit"
      BY <3>1 DEF LoadRecords
    <3> QED
      BY <3>2, <3>3, <2>1 DEF LoadStates
  <2>4. load' = [load EXCEPT ![l] = s]
    BY <1>4, <1>t DEF ParseFile, TypeOK
  <2>5. load' \in [Loads -> LoadStates]
    BY <2>3, <2>4, <1>t, LoadStored
  <2> QED
    BY <2>5, <1>4, <1>t, OtherStep DEF ParseFile, TypeOK
<1>5. CASE Reject(l)
  BY <1>5, RejectInv
<1>6. CASE Collide(l)
  BY <1>6, <1>t, CommittedTypes, OtherStep DEF Collide
<1>7. CASE Register(l)
  BY <1>7, RegisterInv
<1>8. CASE LoadEnds(l)
  <2>1. load' \in [Loads -> LoadStates]
    BY <1>8, <1>t DEF LoadEnds, Idle, LoadStates, LoadRecords, TypeOK
  <2> QED
    BY <2>1, <1>8, <1>t, OtherStep DEF LoadEnds, TypeOK
<1> QED
  BY <1>1, <1>2, <1>3, <1>4, <1>5, <1>6, <1>7, <1>8 DEF LoadStep

\* Every step preserves the invariant.
LEMMA NextInv == Inv /\ [Next]_vars => Inv'
<1> SUFFICES ASSUME Inv, [Next]_vars PROVE Inv'
  OBVIOUS
<1>t. TypeOK
  BY DEF Inv
<1>1. ASSUME NEW p \in Path, NEW c \in Content, Write(p, c) PROVE Inv'
  BY <1>1, WriteInv DEF Write
<1>2. ASSUME NEW p \in Path, NEW q \in Path, Rename(p, q) PROVE Inv'
  <2>1. file' \in [Path -> Files \cup {None}]
    BY <1>2, <1>t DEF Rename, TypeOK
  <2> QED
    BY <2>1, <1>2, EditInv DEF Rename
<1>3. ASSUME NEW n \in Name, NEW c \in Parses, Define(n, c) PROVE Inv'
  <2>1. PathOf[n] \in Path /\ c \in Content
    BY <1>3, ContentAssumption
  <2> QED
    BY <2>1, <1>3, WriteInv DEF Define
<1>4. ASSUME NEW p \in Path, Remove(p) PROVE Inv'
  <2>1. file' \in [Path -> Files \cup {None}]
    BY <1>4, <1>t DEF Remove, TypeOK
  <2> QED
    BY <2>1, <1>4, EditInv DEF Remove
<1>5. ASSUME NEW n \in Name, Delete(n) PROVE Inv'
  <2>1. PathOf[n] \in Path
    BY ContentAssumption
  <2> QED
    BY <2>1, <1>4, <1>5 DEF Delete
<1>6. ASSUME NEW l \in Loads, LoadStep(l) PROVE Inv'
  BY <1>6, LoadStepInv
<1>7. CASE Reconcile
  <2>1. engine' \in [Name -> Workflows \cup {None}]
    BY <1>7, <1>t DEF Reconcile, TypeOK, Runnable
  <2> QED
    BY <2>1, <1>7, <1>t, OtherStep DEF Reconcile, TypeOK
<1>8. CASE UNCHANGED vars
  BY <1>8, <1>t, OtherStep DEF vars, TypeOK
<1> QED
  BY <1>1, <1>2, <1>3, <1>4, <1>5, <1>6, <1>7, <1>8 DEF Next

\* The invariant holds in every reachable state.
THEOREM SpecInv == Spec => []Inv
  BY InitInv, NextInv, PTL DEF Spec

\* maybeReloadFile and Reconcile keep files, registry, loads and engine well
\* formed.
THEOREM TypeCorrect == Spec => []TypeOK
<1>1. Inv => TypeOK
  BY DEF Inv
<1> QED
  BY <1>1, SpecInv, PTL

\* nameRegisteredElsewhere and catchAllConflictsWith under Loader.mu: a name
\* belongs to one path, a path has one name and a slot one catch-all, for any
\* number of files and whatever the two loads and the editor do in between.
THEOREM RegistryConsistent == Spec => []RegistryIsConsistent
<1>1. Inv => RegistryIsConsistent
  BY DEF Inv
<1> QED
  BY <1>1, SpecInv, PTL
=============================================================================
