--------------------------- MODULE VaultIndex_proof ---------------------------
(***************************************************************************)
(* What the store is worth after a reindex pass, for any number of         *)
(* entities, handlers and citations.  A pass is followed from its begin to *)
(* its end by one invariant, PassInv: until something disturbs it, each    *)
(* file is either as it was when the pass began or indexed, and the sweep  *)
(* and the rederivation only ever lack edges that the pass remembers.      *)
(***************************************************************************)
EXTENDS VaultIndex, TLAPS

Store == [Id -> Rows \cup {None}]

LEMMA PathParts ==
  /\ Walked \subseteq Path
  /\ \A p \in Path : p[2] \in Id
  /\ \A i \in Id : Flat(i) \in Walked /\ Archive(i) \in Path
  /\ \A i \in Id : <<"sub", i>> \in Path => <<"sub", i>> \in Walked
  /\ \A i \in UserContent : <<"flat", i>> \in Walked /\ <<"sub", i>> \in Walked
  BY UserContentAssumption DEF Walked, Path, Flat, Archive

\* A file that is written, archived or moved is in the walk or in the archive.
LEMMA WritePathType ==
  ASSUME TypeOK, NEW i \in Id
  PROVE  /\ WritePath(i) \in Walked /\ ActivePath(i) \in Walked
         /\ Readable(i) \subseteq {p \in Path : file[p] # None}
<1>1. \A place : At(place, i) \subseteq {p \in Path : file[p] # None}
  BY DEF At
<1>2. At("sub", i) # {} => <<"sub", i>> \in Path
  BY DEF At
<1> QED
  BY <1>1, <1>2, PathParts DEF WritePath, ActivePath, Readable

LEMMA DisturbType ==
  ASSUME TypeOK, Disturb
  PROVE  pass' \in Passes
  BY BoundAssumption DEF TypeOK, Disturb, Passes

LEMMA NoPassType == NoPass \in Passes
  BY BoundAssumption DEF NoPass, Passes

LEMMA OwesType ==
  ASSUME TypeOK, NEW h \in Handler, NEW i \in Id, NEW s \in 0..MaxStamp, NEW new,
         NEW do \in {"ingest", "edit", "archive", "restore", "destroy", "rename"},
         IF do = "rename" THEN new \in Id ELSE new = None,
         Owes(h, i, do, new, s), file' \in [Path -> Files \cup {None}],
         stamp' \in 0..MaxStamp
  PROVE  TypeOK'
<1>1. [do |-> do, id |-> i, new |-> new, stamp |-> s] \in Ops
  BY DEF Ops
<1>2. op' \in [Handler -> Ops]
  BY <1>1 DEF Owes, TypeOK
<1>3. pass' \in Passes
  BY DisturbType DEF Owes
<1> QED
  BY <1>2, <1>3 DEF Owes, TypeOK

\* What a handler owes is about an entity.
LEMMA OwedType ==
  ASSUME TypeOK, NEW h \in Handler, op[h].do # "none"
  PROVE  /\ op[h].id \in Id /\ op[h].stamp \in 0..MaxStamp
         /\ op[h].do = "rename" => op[h].new \in Id
<1>1. op[h] \in Ops /\ op[h] # Idle
  BY DEF TypeOK, Idle
<1> QED
  BY <1>1 DEF Ops

LEMMA SettleType ==
  ASSUME TypeOK, NEW h \in Handler, NEW do, Settle(h, do),
         row' \in Store, edge' \subseteq Id \X Id
  PROVE  TypeOK'
<1>1. op' \in [Handler -> Ops]
  BY DEF Settle, TypeOK, Ops
<1>2. pass' \in Passes
  BY DisturbType DEF Settle
<1> QED
  BY <1>1, <1>2 DEF Settle, TypeOK, Store

LEMMA UpsertedType ==
  ASSUME NEW r \in Store, NEW i \in Id, NEW s \in 0..MaxStamp
  PROVE  /\ Upserted(r, i, s) \in Store
         /\ Upserted(r, i, s)[i] # None /\ Upserted(r, i, s)[i].stamp = s
         /\ r[i] # None => Upserted(r, i, s)[i].archived = r[i].archived
         /\ r[i] = None => ~Upserted(r, i, s)[i].archived
         /\ \A k \in Id \ {i} : Upserted(r, i, s)[k] = r[k]
<1> DEFINE u == [stamp |-> s, archived |-> r[i] # None /\ r[i].archived]
<1>1. u \in Rows
  <2>1. r[i] # None => r[i].archived \in BOOLEAN
    BY DEF Store, Rows
  <2>2. (r[i] # None /\ r[i].archived) \in BOOLEAN
    BY <2>1
  <2> QED
    BY <2>2 DEF Rows
<1>2. /\ u # None /\ u.stamp = s /\ (r[i] # None => u.archived = r[i].archived)
      /\ r[i] = None => ~u.archived
  <2>1. r[i] # None => r[i].archived \in BOOLEAN
    BY DEF Store, Rows
  <2>2. r[i] # None => (r[i] # None /\ r[i].archived) = r[i].archived
    BY <2>1
  <2> QED
    BY <1>1, <2>2, NoneAssumption
<1>3. Upserted(r, i, s) = [r EXCEPT ![i] = u]
  BY DEF Upserted
<1> HIDE DEF u
<1> QED
  BY <1>1, <1>2, <1>3 DEF Store

LEMMA WithThinType ==
  ASSUME NEW r \in Store, NEW ids
  PROVE  /\ WithThin(r, ids) \in Store
         /\ \A k \in Id : r[k] # None => WithThin(r, ids)[k] = r[k]
         /\ \A k \in Id : r[k] = None => WithThin(r, ids)[k] \in {None, Thin}
         /\ \A k \in Id : k \in ids => WithThin(r, ids)[k] # None
<1>0. MaxStamp \in Nat /\ FALSE \in BOOLEAN
  BY BoundAssumption
<1>a. Thin \in Rows
  BY <1>0 DEF Thin, Rows
<1>1. Thin \in Rows /\ Thin # None
  BY <1>a, NoneAssumption
<1> QED
  BY <1>1 DEF WithThin, Store

\* applyVaultEdges makes the edges of i those of its file, and gives a thin
\* row to whatever lacks one; an empty block is the exception.
LEMMA ApplyEdgesType ==
  ASSUME TypeOK, NEW r \in Store, NEW i \in Id, NEW f \in Files, ApplyEdges(r, i, f)
  PROVE  row' \in Store /\ edge' \subseteq Id \X Id
<1>1. WithThin(r, f.to) \in Store
  BY WithThinType
<1>2. f.to \subseteq Id
  BY DEF Files
<1> QED
  BY <1>1, <1>2 DEF ApplyEdges, TypeOK

LEMMA ApplySomeEdgesType ==
  ASSUME TypeOK, NEW r \in Store, NEW i \in Id, NEW f \in Files, ApplySomeEdges(r, i, f)
  PROVE  row' \in Store /\ edge' \subseteq Id \X Id
<1>1. CASE row' = r /\ edge' = edge
  BY <1>1 DEF TypeOK
<1>2. CASE \E thin \in SUBSET f.to : \E cited \in SUBSET thin :
        /\ row' = IF Guarded THEN WithThin(r, thin) ELSE r
        /\ edge' = (edge \ ({i} \X Id)) \cup
             {e \in {i} \X cited : row'[e[1]] # None /\ row'[e[2]] # None}
  <2>a. PICK thin \in SUBSET f.to : \E cited \in SUBSET thin :
          /\ row' = IF Guarded THEN WithThin(r, thin) ELSE r
          /\ edge' = (edge \ ({i} \X Id)) \cup
               {e \in {i} \X cited : row'[e[1]] # None /\ row'[e[2]] # None}
    BY <1>2
  <2>1. PICK cited \in SUBSET thin :
          /\ row' = IF Guarded THEN WithThin(r, thin) ELSE r
          /\ edge' = (edge \ ({i} \X Id)) \cup
               {e \in {i} \X cited : row'[e[1]] # None /\ row'[e[2]] # None}
    BY <2>a
  <2>2. cited \subseteq Id /\ WithThin(r, thin) \in Store
    BY <2>1, WithThinType DEF Files
  <2> QED
    BY <2>1, <2>2 DEF TypeOK
<1> QED
  BY <1>1, <1>2 DEF ApplySomeEdges

LEMMA ApplyEdgesResult ==
  ASSUME TypeOK, Guarded, NEW r \in Store, NEW i \in Id, NEW f \in Files, r[i] # None,
         f.to = {} => \A j \in Id : <<i, j>> \notin edge, ApplyEdges(r, i, f)
  PROVE  /\ \A k \in Id : r[k] # None => row'[k] = r[k]
         /\ \A k \in Id : r[k] = None => row'[k] \in {None, Thin}
         /\ \A j \in Id : <<i, j>> \in edge' <=> j \in f.to
         /\ \A k \in Id \ {i}, j \in Id : <<k, j>> \in edge' <=> <<k, j>> \in edge
<1>1. CASE f.to = {}
  BY <1>1 DEF ApplyEdges
<1>2. CASE f.to # {}
  <2> DEFINE rows == WithThin(r, f.to)
  <2>1. row' = rows /\ edge' = (edge \ ({i} \X Id)) \cup
                         {e \in {i} \X f.to : rows[e[1]] # None /\ rows[e[2]] # None}
    BY <1>2 DEF ApplyEdges
  <2>2. f.to \subseteq Id
    BY DEF Files
  <2>3. /\ \A k \in Id : r[k] # None => rows[k] = r[k]
        /\ \A k \in Id : r[k] = None => rows[k] \in {None, Thin}
        /\ \A k \in f.to : rows[k] # None
    BY <2>2, WithThinType
  <2> HIDE DEF rows
  <2>4. \A e \in {i} \X f.to : rows[e[1]] # None /\ rows[e[2]] # None
    BY <2>2, <2>3
  <2>5. edge' = (edge \ ({i} \X Id)) \cup ({i} \X f.to)
    BY <2>1, <2>4
  <2> QED
    BY <2>1, <2>2, <2>3, <2>5
<1> QED
  BY <1>1, <1>2

----------------------------------------------------------------------------
(* Types.                                                                   *)

LEMMA HandleType ==
  ASSUME TypeOK, NEW h \in Handler, Handle(h)
  PROVE  TypeOK'
<1>b. stamp \in 0..MaxStamp /\ MaxStamp \in Nat /\ 0 \in 0..MaxStamp
  BY BoundAssumption DEF TypeOK
<1>1. ASSUME NEW i \in Id, NEW do \in {"ingest", "edit"}, WriteFile(h, i, do)
      PROVE  TypeOK'
  <2>1. stamp + 1 \in Stamp /\ stamp' \in 0..MaxStamp /\ stamp + 1 \in 0..MaxStamp
    BY <1>1, <1>b DEF WriteFile, Stamp
  <2>2. PICK to \in IF do = "edit" THEN {file[p].to : p \in Readable(i)} ELSE {Link[i]} :
          file' = [file EXCEPT ![WritePath(i)] = [stamp |-> stamp + 1, to |-> to]]
    BY <1>1 DEF WriteFile
  <2>3. to \in SUBSET Id
    <3>1. Link[i] \in SUBSET Id
      BY LinkAssumption
    <3>2. \A p \in Readable(i) : file[p] \in Files
      BY WritePathType DEF TypeOK
    <3> QED
      BY <2>2, <3>1, <3>2 DEF Files
  <2>4. [stamp |-> stamp + 1, to |-> to] \in Files
    BY <2>1, <2>3 DEF Files
  <2>5. file' \in [Path -> Files \cup {None}]
    BY <2>2, <2>4 DEF TypeOK
  <2> QED
    BY <1>1, <2>1, <2>5, OwesType DEF WriteFile
<1>2. ASSUME NEW i \in Id, NEW do \in {"archive", "restore"}, Transition(h, i, do)
      PROVE  TypeOK'
  <2>1. ActivePath(i) \in Path /\ Flat(i) \in Path /\ Archive(i) \in Path
    BY WritePathType, PathParts
  <2>2. file' \in [Path -> Files \cup {None}]
    BY <1>2, <2>1 DEF Transition, MoveBetween, TypeOK
  <2>3. stamp' \in 0..MaxStamp /\ Owes(h, i, do, None, 0)
    BY <1>2, <1>b DEF Transition
  <2> QED
    BY <1>b, <2>2, <2>3, OwesType
<1>3. ASSUME NEW i \in Id, DestroyFile(h, i)
      PROVE  TypeOK'
  <2>1. file' \in [Path -> Files \cup {None}]
    BY <1>3 DEF DestroyFile, TypeOK
  <2>2. stamp' \in 0..MaxStamp /\ Owes(h, i, "destroy", None, 0)
    BY <1>3, <1>b DEF DestroyFile
  <2> QED
    BY <1>b, <2>1, <2>2, OwesType
<1>4. ASSUME NEW i \in Id, NEW j \in Id, MayRename(h, i, j)
      PROVE  /\ stamp' \in 0..MaxStamp /\ stamp + 1 \in 0..MaxStamp
             /\ RenamedFiles(i, j) \in [Path -> Files \cup {None}]
  <2>1. stamp' = stamp + 1 /\ stamp + 1 \in Stamp
    BY <1>4, <1>b DEF MayRename, Stamp
  <2>2. file[ActivePath(i)] \in Files
    BY <1>4, WritePathType, PathParts DEF MayRename, TypeOK
  <2>3. [file[ActivePath(i)] EXCEPT !.stamp = stamp + 1] \in Files
    BY <2>1, <2>2 DEF Files
  <2> DEFINE f == [file[ActivePath(i)] EXCEPT !.stamp = stamp + 1]
  <2>4. RenamedFiles(i, j) = [file EXCEPT ![<<ActivePath(i)[1], j>>] = f]
    BY DEF RenamedFiles
  <2> HIDE DEF f
  <2>5. RenamedFiles(i, j) \in [Path -> Files \cup {None}]
    BY <2>3, <2>4 DEF TypeOK, f
  <2> QED
    BY <1>b, <2>1, <2>5 DEF Stamp
<1>5. ASSUME NEW i \in Id, NEW j \in Id, RenameFile(h, i, j)
      PROVE  TypeOK'
  <2>1. file' \in [Path -> Files \cup {None}]
    BY <1>4, <1>5 DEF RenameFile
  <2>2. stamp' \in 0..MaxStamp /\ stamp + 1 \in 0..MaxStamp
        /\ Owes(h, i, "rename", j, stamp + 1)
    BY <1>4, <1>5 DEF RenameFile
  <2> QED
    BY <2>1, <2>2, OwesType
<1>6. ASSUME NEW i \in Id, NEW j \in Id, RenameDies(h, i, j)
      PROVE  TypeOK'
  <2>1. file' \in [Path -> Files \cup {None}] /\ stamp' \in 0..MaxStamp
    BY <1>4, <1>6 DEF RenameDies
  <2>2. op' \in [Handler -> Ops] /\ pass' \in Passes
    BY <1>6, NoPassType DEF RenameDies, Ops
  <2> QED
    BY <1>6, <2>1, <2>2 DEF RenameDies, TypeOK
<1>7. CASE IngestRow(h)
  <2>1. op[h].do = "ingest" /\ Settle(h, "ingest")
    BY <1>7 DEF IngestRow, Settle
  <2>2. op[h].id \in Id /\ op[h].stamp \in 0..MaxStamp
    BY <2>1, OwedType
  <2>3. row' \in Store
    BY <1>7, <2>2, UpsertedType, WithThinType DEF IngestRow, TypeOK, Store
  <2>4. edge' \subseteq Id \X Id
    BY <1>7, <2>2, LinkAssumption DEF IngestRow, TypeOK
  <2> QED
    BY <2>1, <2>3, <2>4, SettleType
<1>8. CASE EditRow(h)
  <2>1. op[h].do = "edit" /\ Settle(h, "edit") /\ edge' = edge
    BY <1>8 DEF EditRow, Settle
  <2>2. op[h].id \in Id /\ op[h].stamp \in 0..MaxStamp
    BY <2>1, OwedType
  <2>3. row' \in Store
    BY <1>8, <2>2, UpsertedType DEF EditRow, TypeOK, Store
  <2> QED
    BY <2>1, <2>3, SettleType DEF TypeOK
<1>9. CASE DestroyRow(h)
  <2>1. Settle(h, "destroy") /\ row' \in Store /\ edge' \subseteq Id \X Id
    BY <1>9 DEF DestroyRow, Cascade, TypeOK, Store
  <2> QED
    BY <2>1, SettleType
<1>10. CASE RenameRow(h)
  <2> DEFINE i == op[h].id
             j == op[h].new
             Renamed(k) == IF k = i THEN j ELSE k
  <2>1. op[h].do = "rename" /\ Settle(h, "rename")
    BY <1>10 DEF RenameRow, Settle
  <2>2. i \in Id /\ j \in Id /\ op[h].stamp \in 0..MaxStamp
    BY <2>1, OwedType
  <2>3. CASE row[i] = None \/ row[j] # None
    BY <1>10, <2>1, <2>3, SettleType DEF RenameRow, TypeOK, Store
  <2>4. CASE row[i] # None /\ row[j] = None
    <3>1. /\ row' = [row EXCEPT ![j] = [row[i] EXCEPT !.stamp = op[h].stamp],
                                ![i] = None]
          /\ edge' = {<<Renamed(e[1]), Renamed(e[2])>> : e \in edge}
      BY <1>10, <2>4 DEF RenameRow
    <3>2. [row[i] EXCEPT !.stamp = op[h].stamp] \in Rows
      BY <2>2, <2>4 DEF TypeOK, Rows
    <3>3. row' \in Store
      BY <3>1, <3>2 DEF TypeOK, Store
    <3>4. \A e \in edge : Renamed(e[1]) \in Id /\ Renamed(e[2]) \in Id
      BY <2>2 DEF TypeOK
    <3>5. edge' \subseteq Id \X Id
      BY <3>1, <3>4
    <3> QED
      BY <2>1, <3>3, <3>5, SettleType
  <2> QED
    BY <2>3, <2>4
<1>11. ASSUME NEW do \in {"archive", "restore"}, ToggleRow(h, do)
       PROVE  TypeOK'
  <2> DEFINE i == op[h].id
  <2>1. op[h].do = do /\ Settle(h, do) /\ edge' = edge
    BY <1>11 DEF ToggleRow, Settle
  <2>2. i \in Id
    BY <2>1, OwedType
  <2>3. row' \in Store
    <3>1. CASE row[i] = None
      BY <1>11, <3>1 DEF ToggleRow, TypeOK, Store
    <3>2. CASE row[i] # None
      <4>1. row' = [row EXCEPT ![i].archived = (do = "archive")]
        BY <1>11, <3>2 DEF ToggleRow
      <4>2. [row[i] EXCEPT !.archived = (do = "archive")] \in Rows
        BY <2>2, <3>2 DEF TypeOK, Rows
      <4> QED
        BY <4>1, <4>2 DEF TypeOK, Store
    <3> QED
      BY <3>1, <3>2
  <2> QED
    BY <2>1, <2>3, SettleType DEF TypeOK
<1>12. CASE MirrorFails(h)
  <2>1. op' \in [Handler -> Ops] /\ pass' \in Passes
    BY <1>12, DisturbType DEF MirrorFails, TypeOK, Ops
  <2> QED
    BY <1>12, <2>1 DEF MirrorFails, TypeOK
<1> QED
  BY <1>1, <1>2, <1>3, <1>5, <1>6, <1>7, <1>8, <1>9, <1>10, <1>11, <1>12
     DEF Handle, ArchiveAction, RestoreAction, DestroyPage

LEMMA OutsideType ==
  ASSUME TypeOK,
         \/ \E i \in UserContent, place \in {"flat", "sub"} : MoveFile(i, place)
         \/ Crash
         \/ \E p \in Walked : HandDelete(p) \/ \E to \in {{}, Link[p[2]]} : HandWrite(p, to)
  PROVE  TypeOK'
<1>1. ASSUME NEW i \in UserContent, NEW place \in {"flat", "sub"}, MoveFile(i, place)
      PROVE  TypeOK'
  <2>1. ActivePath(i) \in Path /\ <<place, i>> \in Path
    BY UserContentAssumption, WritePathType, PathParts
  <2>2. file' \in [Path -> Files \cup {None}]
    BY <1>1, <2>1 DEF MoveFile, Moved, TypeOK
  <2>3. pass' \in Passes
    BY <1>1, DisturbType DEF MoveFile
  <2> QED
    BY <1>1, <2>2, <2>3 DEF MoveFile, TypeOK
<1>2. CASE Crash
  BY <1>2, NoPassType DEF Crash, TypeOK, Ops
<1>3. ASSUME NEW p \in Walked, HandDelete(p)
      PROVE  TypeOK'
  <2>1. pass' \in Passes
    BY <1>3, DisturbType DEF HandDelete
  <2> QED
    BY <1>3, <2>1 DEF HandDelete, TypeOK
<1>4. ASSUME NEW p \in Walked, NEW to \in {{}, Link[p[2]]}, HandWrite(p, to)
      PROVE  TypeOK'
  <2>1. pass' \in Passes
    BY <1>4, DisturbType DEF HandWrite
  <2>2. to \in SUBSET Id
    BY LinkAssumption, PathParts
  <2>3. stamp + 1 \in Stamp /\ stamp' \in 0..MaxStamp
    BY <1>4, BoundAssumption DEF HandWrite, TypeOK, Stamp
  <2>4. [stamp |-> stamp + 1, to |-> to] \in Files
    BY <2>2, <2>3 DEF Files
  <2> QED
    BY <1>4, <2>1, <2>3, <2>4 DEF HandWrite, TypeOK
<1> QED
  BY <1>1, <1>2, <1>3, <1>4

LEMMA WalkType ==
  ASSUME TypeOK,
         \/ \E full \in BOOLEAN : BeginPass(full)
         \/ Walk
         \/ \E place \in {"flat", "sub"} : WalkUnreadable(place)
         \/ WalkEnds
  PROVE  TypeOK'
<1>b. MaxRaces \in Nat \ {0} /\ MaxStamp \in Nat
  BY BoundAssumption
<1>1. ASSUME NEW full \in BOOLEAN, BeginPass(full)
      PROVE  TypeOK'
  <2> DEFINE wiped == [p \in Walked |-> 0]
             prior == IF full THEN wiped ELSE book
             races == IF \A h \in Handler : op[h] = Idle THEN 0 ELSE 1
  <2>0. wiped \in [Walked -> 0..MaxStamp] /\ races \in 0..MaxRaces
    BY <1>b
  <2>2. prior \in [Walked -> 0..MaxStamp]
    BY <2>0 DEF TypeOK
  <2>a. /\ book' = prior /\ file' = file /\ stamp' = stamp /\ op' = op
        /\ row' = IF full THEN [i \in Id |-> None] ELSE row
        /\ edge' = IF full THEN {} ELSE edge
        /\ pass' = [NoPass EXCEPT !.pc = "walk", !.full = full, !.prior = prior,
                       !.todo = Walked, !.races = races, !.sound = Sound(full)]
    BY <1>1 DEF BeginPass
  <2> HIDE DEF prior, races, wiped
  <2>1. book' \in [Walked -> 0..MaxStamp] /\ row' \in [Id -> Rows \cup {None}]
        /\ edge' \subseteq Id \X Id
    BY <2>2, <2>a DEF TypeOK
  <2>3. Sound(full) \in BOOLEAN
    BY DEF Sound, OnePlace, Repairable, Truthful
  <2>4. pass' \in Passes
    <3> DEFINE P == [NoPass EXCEPT !.pc = "walk", !.full = full, !.prior = prior,
                       !.todo = Walked, !.races = races, !.sound = Sound(full)]
    <3>1. P \in Passes
      BY <2>0, <2>2, <2>3, NoPassType DEF Passes
    <3> QED
      BY <2>a, <3>1
  <2> QED
    BY <2>1, <2>4, <2>a DEF TypeOK
<1>2. CASE Walk
  <2>1. PICK p \in Walked : WalkRead(p) \/ WalkMiss(p) \/ WalkFails(p)
    BY <1>2 DEF Walk
  <2>2. file[p] \in Files
    BY <2>1, PathParts DEF WalkRead, WalkMiss, WalkFails, TypeOK
  <2>a. pass \in Passes
    BY DEF TypeOK
  <2>b. pass.races < MaxRaces => pass.races + 1 \in 0..MaxRaces
    BY <1>b, <2>a DEF Passes
  <2>3. pass' \in Passes
    <3>1. CASE WalkRead(p)
      BY <2>2, <2>a, <3>1 DEF WalkRead, Passes
    <3>2. CASE WalkMiss(p)
      BY <2>a, <3>2 DEF WalkMiss, Passes
    <3>3. CASE WalkFails(p)
      BY <2>a, <2>b, <3>3 DEF WalkFails, Passes
    <3> QED
      BY <2>1, <3>1, <3>2, <3>3
  <2> QED
    BY <2>1, <2>3 DEF WalkRead, WalkMiss, WalkFails, TypeOK
<1>3. ASSUME NEW place \in {"flat", "sub"}, WalkUnreadable(place)
      PROVE  TypeOK'
  <2>a. pass \in Passes /\ pass.races < MaxRaces
    BY <1>3 DEF TypeOK, WalkUnreadable
  <2>b. pass.races + 1 \in 0..MaxRaces
    BY <1>b, <2>a DEF Passes
  <2> DEFINE under == {p \in Walked : place = "flat" \/ p[1] = place}
             left == pass.todo \ under
  <2>c. pass' = [pass EXCEPT !.todo = left, !.races = pass.races + 1] /\ left \subseteq Walked
    BY <1>3, <2>a DEF WalkUnreadable, Passes
  <2> HIDE DEF left
  <2>1. pass' \in Passes
    BY <2>a, <2>b, <2>c DEF Passes
  <2> QED
    BY <1>3, <2>1 DEF WalkUnreadable, TypeOK
<1>4. CASE WalkEnds
  <2>1. pass' \in Passes
    BY <1>4 DEF WalkEnds, TypeOK, Passes
  <2> QED
    BY <1>4, <2>1 DEF WalkEnds, TypeOK
<1> QED
  BY <1>1, <1>2, <1>3, <1>4

LEMMA ApplyType ==
  ASSUME TypeOK, WalkApply \/ WalkApplyFails, pass.at \in Walked, pass.read \in Files
  PROVE  TypeOK'
<1> DEFINE i == pass.at[2]
           s == pass.read.stamp
<1>1. i \in Id /\ s \in 0..MaxStamp /\ row \in Store /\ pass \in Passes
      /\ MaxRaces \in Nat \ {0}
  BY PathParts, BoundAssumption DEF Files, Stamp, TypeOK, Store
<1>2. Upserted(row, i, s) \in Store
  BY <1>1, UpsertedType
<1>3. CASE WalkApply
  <2>1. ApplyEdges(Upserted(row, i, s), i, pass.read)
    BY <1>3 DEF WalkApply
  <2>2. row' \in Store /\ edge' \subseteq Id \X Id
    BY <1>1, <1>2, <2>1, ApplyEdgesType
  <2>3. pass' \in Passes
    BY <1>1, <1>3 DEF WalkApply, Passes
  <2>4. book' \in [Walked -> 0..MaxStamp]
    BY <1>1, <1>3 DEF WalkApply, TypeOK
  <2> QED
    BY <1>3, <2>2, <2>3, <2>4 DEF WalkApply, TypeOK, Store
<1>4. CASE WalkApplyFails
  <2>1. row' \in Store /\ edge' \subseteq Id \X Id
    <3>1. CASE UNCHANGED <<row, edge, book>>
      BY <1>1, <3>1 DEF TypeOK
    <3>2. CASE ApplySomeEdges(Upserted(row, i, s), i, pass.read)
      BY <1>1, <1>2, <3>2, ApplySomeEdgesType
    <3> QED
      BY <1>4, <3>1, <3>2 DEF WalkApplyFails
  <2>2. pass.races + 1 \in 0..MaxRaces
    BY <1>1, <1>4 DEF WalkApplyFails, Passes
  <2>3. pass' \in Passes
    BY <1>1, <1>4, <2>2 DEF WalkApplyFails, Passes
  <2>4. book' \in [Walked -> 0..MaxStamp]
    BY <1>1, <1>4 DEF WalkApplyFails, TypeOK
  <2> QED
    BY <1>4, <2>1, <2>3, <2>4 DEF WalkApplyFails, TypeOK, Store
<1> QED
  BY <1>3, <1>4

LEMMA SweepType ==
  ASSUME TypeOK,
         \/ \E p \in Walked : Sweep(p) \/ SweepFails(p)
         \/ SweepEnds
         \/ \E j \in Id : Rederive(j) \/ RederiveFails(j)
         \/ RederiveEnds \/ EndPass
  PROVE  TypeOK'
<1>b. MaxRaces \in Nat /\ MaxStamp \in Nat /\ pass \in Passes
  BY BoundAssumption DEF TypeOK
<1>1. ASSUME NEW p \in Walked, Sweep(p)
      PROVE  TypeOK'
  <2>1. Referrers(p[2]) \subseteq Id
    BY DEF Referrers
  <2>2. pass' \in Passes
    BY <1>1, <1>b, <2>1 DEF Sweep, Passes
  <2>3. book' \in [Walked -> 0..MaxStamp]
    <3>1. book' = [book EXCEPT ![p] = 0]
      BY <1>1 DEF Sweep
    <3>2. 0 \in 0..MaxStamp
      BY <1>b
    <3> QED
      BY <3>1, <3>2 DEF TypeOK
  <2>4. row' \in [Id -> Rows \cup {None}] /\ edge' \subseteq Id \X Id
    BY <1>1 DEF Sweep, Cascade, TypeOK
  <2>5. file' = file /\ stamp' = stamp /\ op' = op
    BY <1>1 DEF Sweep
  <2> QED
    BY <2>2, <2>3, <2>4, <2>5 DEF TypeOK
<1>2. ASSUME NEW p \in Walked, SweepFails(p)
      PROVE  TypeOK'
  <2>1. Referrers(p[2]) \subseteq Id
    BY DEF Referrers
  <2>a. pass.races + 1 \in 0..MaxRaces
    <3>1. pass.races < MaxRaces
      BY <1>2 DEF SweepFails
    <3>2. pass.races \in 0..MaxRaces
      BY <1>b DEF Passes
    <3> QED
      BY <1>b, <3>1, <3>2
  <2>b. PICK cut \in {{}, Referrers(p[2])} :
          pass' = [pass EXCEPT !.todo = @ \ {p}, !.cut = @ \cup cut, !.races = @ + 1]
    BY <1>2 DEF SweepFails
  <2>c. cut \subseteq Id
    BY <2>1, <2>b
  <2>2. pass' \in Passes
    BY <1>b, <2>a, <2>b, <2>c DEF Passes
  <2>3. book' \in [Walked -> 0..MaxStamp]
    <3>1. book' \in {book, [book EXCEPT ![p] = 0]}
      BY <1>2 DEF SweepFails
    <3>2. 0 \in 0..MaxStamp
      BY <1>b
    <3> QED
      BY <3>1, <3>2 DEF TypeOK
  <2>4. row' \in [Id -> Rows \cup {None}] /\ edge' \subseteq Id \X Id
    BY <1>2 DEF SweepFails, Cascade, TypeOK
  <2>5. file' = file /\ stamp' = stamp /\ op' = op
    BY <1>2 DEF SweepFails
  <2> QED
    BY <2>2, <2>3, <2>4, <2>5 DEF TypeOK
<1>3. CASE SweepEnds \/ RederiveEnds \/ EndPass
  <2>1. pass' \in Passes
    BY <1>3, <1>b, NoPassType DEF SweepEnds, RederiveEnds, EndPass, Passes
  <2> QED
    BY <1>3, <2>1 DEF SweepEnds, RederiveEnds, EndPass, TypeOK
<1>4. ASSUME NEW j \in Id, Rederive(j)
      PROVE  TypeOK'
  <2>1. row' \in Store /\ edge' \subseteq Id \X Id
    <3>1. CASE UNCHANGED <<row, edge>>
      BY <3>1 DEF TypeOK, Store
    <3>2. ASSUME NEW p \in PathsOf(j), file[p] # None, ApplyEdges(row, j, file[p])
          PROVE  row' \in Store /\ edge' \subseteq Id \X Id
      <4>1. file[p] \in Files /\ row \in Store
        BY <3>2, PathParts DEF PathsOf, TypeOK, Store
      <4> QED
        BY <3>2, <4>1, ApplyEdgesType
    <3> QED
      BY <1>4, <3>1, <3>2 DEF Rederive, Surviving
  <2>2. pass' \in Passes
    BY <1>4, <1>b DEF Rederive, Passes
  <2> QED
    BY <1>4, <2>1, <2>2 DEF Rederive, TypeOK, Store
<1>5. ASSUME NEW j \in Id, RederiveFails(j)
      PROVE  TypeOK'
  <2>1. row' \in Store /\ edge' \subseteq Id \X Id
    <3>1. CASE UNCHANGED <<row, edge>>
      BY <3>1 DEF TypeOK, Store
    <3>2. ASSUME NEW p \in PathsOf(j), file[p] # None, ApplySomeEdges(row, j, file[p])
          PROVE  row' \in Store /\ edge' \subseteq Id \X Id
      <4>1. file[p] \in Files /\ row \in Store
        BY <3>2, PathParts DEF PathsOf, TypeOK, Store
      <4> QED
        BY <3>2, <4>1, ApplySomeEdgesType
    <3> QED
      BY <1>5, <3>1, <3>2 DEF RederiveFails, Surviving
  <2>2. pass.races + 1 \in 0..MaxRaces
    <3>1. pass.races < MaxRaces /\ pass.races \in 0..MaxRaces
      BY <1>5, <1>b DEF RederiveFails, Passes
    <3> QED
      BY <1>b, <3>1
  <2>3. pass' \in Passes
    BY <1>5, <1>b, <2>2 DEF RederiveFails, Passes
  <2> QED
    BY <1>5, <2>1, <2>3 DEF RederiveFails, TypeOK, Store
<1> QED
  BY <1>1, <1>2, <1>3, <1>4, <1>5

----------------------------------------------------------------------------
(* The invariant of a pass.                                                 *)

Present == {p \in Walked : file[p] # None}
Known == Present \cup {p \in Walked : pass.prior[p] # 0}

\* The file p was walked and its rows are written.
Done(p) == p \in pass.seen /\ ~(pass.pc = "apply" /\ p = pass.at)

\* The walk took what is there and nothing else, and knows what it holds.
Reading ==
  /\ pass.seen \subseteq Present /\ pass.cut = {}
  /\ Present \subseteq pass.seen \cup pass.todo /\ pass.seen \cap pass.todo = {}
  /\ pass.pc = "apply" => pass.at \in pass.seen /\ pass.read = file[pass.at]

\* What a file is until the walk has it.
Ahead(p) ==
  /\ book[p] = pass.prior[p]
  /\ Booked(p) => Matches(p[2], file[p])
  /\ row[p[2]] # None => ~row[p[2]].archived
  /\ file[p].to = {} => \A j \in Id : <<p[2], j>> \notin edge

Walking ==
  /\ Reading
  /\ \A p \in Present : IF Done(p) THEN Booked(p) /\ Matches(p[2], file[p]) ELSE Ahead(p)
  /\ \A i \in Id : IsFull(i) /\ (row[i].archived => pass.full) =>
       Known \cap PathsOf(i) # {}

\* Only edges to what vanished are missing, and each is known to be.
Swept(p) ==
  /\ Booked(p) /\ row[p[2]] # None
  /\ row[p[2]].stamp = file[p].stamp /\ ~row[p[2]].archived
  /\ \A j \in Id : <<p[2], j>> \in edge => j \in file[p].to
  /\ \/ \A j \in file[p].to : <<p[2], j>> \in edge
     \/ p[2] \in pass.cut /\ pass.prior[p] # 0

Sweeping ==
  /\ pass.seen = Present /\ pass.gone = Known \ Present
  /\ pass.todo \subseteq pass.gone /\ (pass.pc # "sweep" => pass.todo = {})
  /\ pass.pc = "end" => pass.cut = {}
  /\ \A p \in Present : Swept(p)
  /\ \A i \in Id : IsFull(i) /\ (row[i].archived => pass.full) =>
       (Present \cup pass.todo) \cap PathsOf(i) # {}

\* The pass so far, of one that nothing disturbed and that can repair.
Undisturbed == pass.pc # "idle" /\ Guarded /\ pass.races = 0 /\ pass.sound

PassInv ==
  Undisturbed =>
    /\ pass.full => \A p \in Walked : pass.prior[p] = 0
    /\ OnePlace(Known)
    /\ \A p \in Present, q \in Known \ Present :
         pass.prior[p] = 0 => q[2] \notin file[p].to
    /\ IF pass.pc \in {"walk", "apply"} THEN Walking ELSE Sweeping

\* Disturbed or not, the walk knows which file it has in hand.
HandInv == pass.pc = "apply" => pass.at \in Walked /\ pass.read \in Files

Inv == TypeOK /\ HandInv /\ PassInv

\* A disturbed pass promises nothing.
LEMMA DisturbedPass ==
  ASSUME Inv, Disturb \/ pass' = NoPass
  PROVE  HandInv' /\ PassInv'
<1>1. CASE pass' = NoPass
  BY <1>1 DEF NoPass, HandInv, PassInv, Undisturbed
<1>2. CASE Disturb
  <2>1. pass \in Passes /\ pass.races \in Nat
    BY BoundAssumption DEF Inv, TypeOK, Passes
  <2>2. /\ pass'.pc = pass.pc /\ pass'.at = pass.at /\ pass'.read = pass.read
        /\ pass.pc # "idle" => pass'.races = pass.races + 1
    BY <1>2, <2>1 DEF Disturb, Passes
  <2>3. pass'.pc # "idle" => pass'.races # 0
    BY <2>1, <2>2
  <2> QED
    BY <2>2, <2>3 DEF Inv, HandInv, PassInv, Undisturbed
<1> QED
  BY <1>1, <1>2

\* Handlers, crashes and editors disturb.
LEMMA OutsidePass ==
  ASSUME Inv,
         \/ \E h \in Handler : Handle(h)
         \/ \E i \in UserContent, place \in {"flat", "sub"} : MoveFile(i, place)
         \/ Crash
         \/ \E p \in Walked : HandDelete(p) \/ \E to \in {{}, Link[p[2]]} : HandWrite(p, to)
  PROVE  HandInv' /\ PassInv'
<1>1. Disturb \/ pass' = NoPass
  BY DEF Handle, WriteFile, ArchiveAction, RestoreAction, Transition, DestroyPage,
     DestroyFile, RenameFile, RenameDies, Owes, IngestRow, EditRow, DestroyRow,
     RenameRow, ToggleRow, Settle, MirrorFails, MoveFile, Crash, HandDelete, HandWrite
<1> QED
  BY <1>1, DisturbedPass

\* So do the failures inside a pass.
LEMMA FailuresPass ==
  ASSUME Inv,
         \/ \E p \in Walked : WalkMiss(p) \/ WalkFails(p) \/ SweepFails(p)
         \/ \E place \in {"flat", "sub"} : WalkUnreadable(place)
         \/ WalkApplyFails \/ \E j \in Id : RederiveFails(j)
  PROVE  HandInv' /\ PassInv'
<1>1. pass \in Passes /\ pass.races \in Nat
  BY BoundAssumption DEF Inv, TypeOK, Passes
<1>2. pass'.pc \in {"walk", "sweep", "rederive"} /\ pass'.races # 0
  <2>1. CASE \E p \in Walked : WalkMiss(p)
    BY <1>1, <2>1 DEF WalkMiss, Passes
  <2>2. CASE \E p \in Walked : WalkFails(p)
    <3>1. PICK p \in Walked : WalkFails(p)
      BY <2>2
    <3>2. pass'.pc = pass.pc /\ pass'.races = pass.races + 1 /\ pass.pc = "walk"
      BY <1>1, <3>1 DEF WalkFails, Passes
    <3> QED
      BY <1>1, <3>2
  <2>3. CASE \E p \in Walked : SweepFails(p)
    <3>1. PICK p \in Walked : SweepFails(p)
      BY <2>3
    <3>2. pass'.pc = pass.pc /\ pass'.races = pass.races + 1 /\ pass.pc = "sweep"
      BY <1>1, <3>1 DEF SweepFails, Passes
    <3> QED
      BY <1>1, <3>2
  <2>4. CASE \E place \in {"flat", "sub"} : WalkUnreadable(place)
    BY <1>1, <2>4 DEF WalkUnreadable, Passes
  <2>5. CASE WalkApplyFails
    BY <1>1, <2>5 DEF WalkApplyFails, Passes
  <2>6. CASE \E j \in Id : RederiveFails(j)
    <3>1. PICK j \in Id : RederiveFails(j)
      BY <2>6
    <3>2. pass'.pc = pass.pc /\ pass'.races = pass.races + 1 /\ pass.pc = "rederive"
      BY <1>1, <3>1 DEF RederiveFails, Passes
    <3> QED
      BY <1>1, <3>2
  <2> QED
    BY <2>1, <2>2, <2>3, <2>4, <2>5, <2>6
<1> QED
  BY <1>2 DEF HandInv, PassInv, Undisturbed

----------------------------------------------------------------------------
(* The steps of a pass.                                                     *)

LEMMA BeginInv ==
  ASSUME Inv, NEW full \in BOOLEAN, BeginPass(full)
  PROVE  HandInv' /\ PassInv'
<1> DEFINE wiped == [p \in Walked |-> 0]
           prior == IF full THEN wiped ELSE book
           races == IF \A h \in Handler : op[h] = Idle THEN 0 ELSE 1
<1>1. /\ book' = prior /\ file' = file
      /\ row' = IF full THEN [i \in Id |-> None] ELSE row
      /\ edge' = IF full THEN {} ELSE edge
      /\ pass' = [NoPass EXCEPT !.pc = "walk", !.full = full, !.prior = prior,
                     !.todo = Walked, !.races = races, !.sound = Sound(full)]
  BY DEF BeginPass
<1> HIDE DEF races, prior
<1>2. /\ pass'.pc = "walk" /\ pass'.full = full /\ pass'.prior = prior
      /\ pass'.todo = Walked /\ pass'.seen = {} /\ pass'.cut = {}
      /\ pass'.sound = Sound(full)
  BY <1>1 DEF NoPass
<1> SUFFICES ASSUME Sound(full)
             PROVE  PassInv'
  BY <1>2 DEF HandInv, PassInv, Undisturbed
<1>3. Present' = Present
  BY <1>1 DEF Present
<1>4. Reading'
  BY <1>2, <1>3 DEF Reading, Present
<1>5. \A p \in Walked : ~Done(p)'
  BY <1>2 DEF Done
<1>6. \A p \in Present : p \in Walked /\ file[p] \in Files /\ file[p].stamp # 0
  BY PathParts DEF Inv, TypeOK, Present, Files, Stamp
<1>7. CASE full
  <2>1. \A p \in Walked : prior[p] = 0
    BY <1>7 DEF prior
  <2>2. Known' = Present
    BY <1>2, <1>3, <2>1 DEF Known, Present
  <2>3. \A p \in Present : Ahead(p)'
    BY <1>1, <1>2, <1>6, <1>7, <2>1, PathParts DEF Ahead, Booked
  <2>4. \A i \in Id : ~IsFull(i)'
    BY <1>1, <1>7 DEF IsFull
  <2>5. OnePlace(Present)'
    BY <1>3, <1>7 DEF Sound, Present, OnePlace
  <2> QED
    BY <1>2, <1>3, <1>4, <1>5, <1>6, <2>1, <2>2, <2>3, <2>4, <2>5
       DEF PassInv, Walking, OnePlace
<1>8. CASE ~full
  <2>1. prior = book /\ row' = row /\ edge' = edge /\ book' = book
    BY <1>1, <1>8 DEF prior
  <2>2. Known' = Present \cup {p \in Walked : book[p] # 0}
    BY <1>2, <1>3, <2>1 DEF Known
  <2>3. Repairable
    BY <1>8 DEF Sound
  <2>4. \A p \in Present : Ahead(p)'
    <3>1. \A p \in Walked : Booked(p) => Matches(p[2], file[p])
      BY <2>3 DEF Repairable, Truthful
    <3>2. ASSUME NEW p \in Present, file[p].to = {}
          PROVE  \A j \in Id : <<p[2], j>> \notin edge
      BY <2>3, <3>2 DEF Repairable, Present
    <3>3. \A p \in Present : row[p[2]] # None => ~row[p[2]].archived
      BY <2>3 DEF Repairable, Present
    <3> QED
      BY <1>1, <1>2, <1>6, <2>1, <3>1, <3>2, <3>3 DEF Ahead, Booked, Matches
  <2>5. OnePlace(Known')
    BY <2>2, <2>3 DEF Repairable, Present
  <2>6. \A p \in Present, q \in Known' \ Present : book[p] = 0 => q[2] \notin file[p].to
    BY <2>2, <2>3 DEF Repairable, Present
  <2>7. \A i \in Id : IsFull(i) /\ ~row[i].archived => Known' \cap PathsOf(i) # {}
    BY <2>2, <2>3 DEF Repairable, Present
  <2>8. Walking'
    <3>1. \A i \in Id : IsFull(i)' = IsFull(i)
      BY <2>1 DEF IsFull
    <3> QED
      BY <1>2, <1>3, <1>4, <1>5, <1>6, <1>8, <2>1, <2>4, <2>7, <3>1 DEF Walking, PathsOf
  <2> QED
    BY <1>1, <1>2, <1>3, <1>8, <2>1, <2>5, <2>6, <2>8 DEF PassInv, OnePlace
<1> QED
  BY <1>7, <1>8

LEMMA ReadInv ==
  ASSUME Inv, NEW p \in Walked, WalkRead(p)
  PROVE  HandInv' /\ PassInv'
<1> DEFINE skip == pass.prior[p] = file[p].stamp
<1>1. /\ pass'.seen = pass.seen \cup {p} /\ pass'.todo = pass.todo \ {p}
      /\ pass'.pc = (IF skip THEN "walk" ELSE "apply")
      /\ pass'.at = (IF skip THEN None ELSE p)
      /\ pass'.read = (IF skip THEN None ELSE file[p]) /\ pass'.cut = pass.cut
      /\ pass'.prior = pass.prior /\ pass'.full = pass.full
      /\ pass'.races = pass.races /\ pass'.sound = pass.sound
  BY DEF WalkRead, Inv, TypeOK, Passes
<1>2. file[p] \in Files /\ p \in Present /\ p \in pass.todo /\ pass.pc = "walk"
  BY PathParts DEF WalkRead, Inv, TypeOK, Present
<1>3. HandInv'
  BY <1>1, <1>2 DEF HandInv
<1>4. row' = row /\ edge' = edge /\ book' = book /\ file' = file
  BY DEF WalkRead
<1> SUFFICES ASSUME Undisturbed
             PROVE  PassInv'
  BY <1>1, <1>2, <1>3 DEF PassInv, Undisturbed
<1>5. /\ Walking /\ OnePlace(Known)
      /\ pass.full => \A q \in Walked : pass.prior[q] = 0
      /\ \A q \in Present, s \in Known \ Present :
           pass.prior[q] = 0 => s[2] \notin file[q].to
  BY <1>2 DEF Inv, PassInv
<1>6. Present' = Present /\ Known' = Known
  BY <1>1, <1>4 DEF Present, Known
<1>7. Reading'
  BY <1>1, <1>2, <1>4, <1>5, <1>6 DEF Reading, Walking
<1>8. ~Done(p)
  BY <1>2, <1>5 DEF Done, Walking, Reading
<1>9. \A q \in Present : Ahead(q)' = Ahead(q) /\ Booked(q)' = Booked(q)
                       /\ Matches(q[2], file[q])' = Matches(q[2], file[q])
  BY <1>1, <1>4 DEF Ahead, Booked, Matches
<1>10. ASSUME NEW q \in Present
       PROVE  IF Done(q)' THEN Booked(q) /\ Matches(q[2], file[q]) ELSE Ahead(q)
  <2>1. CASE q = p
    <3>1. Ahead(p)
      BY <1>2, <1>5, <1>8 DEF Walking
    <3>2. CASE skip
      BY <2>1, <1>2, <3>1, <3>2 DEF Ahead, Booked, Present
    <3>3. CASE ~skip
      BY <1>1, <2>1, <3>1, <3>3 DEF Done
    <3> QED
      BY <3>2, <3>3
  <2>2. CASE q # p
    <3>1. Done(q)' <=> Done(q)
      BY <1>1, <1>2, <2>2 DEF Done
    <3> QED
      BY <1>5, <3>1 DEF Walking
  <2> QED
    BY <2>1, <2>2
<1>11. Walking'
  BY <1>1, <1>4, <1>5, <1>6, <1>7, <1>9, <1>10 DEF Walking, IsFull, PathsOf
<1> QED
  BY <1>1, <1>4, <1>5, <1>6, <1>11 DEF PassInv, OnePlace

LEMMA ApplyInv ==
  ASSUME Inv, WalkApply
  PROVE  HandInv' /\ PassInv'
<1>p. PICK p \in Walked : p = pass.at
  BY DEF Inv, HandInv, WalkApply
<1>f. PICK f \in Files : f = pass.read
  BY DEF Inv, HandInv, WalkApply
<1> DEFINE i == p[2]
           r == Upserted(row, i, f.stamp)
<1>1. /\ pass'.pc = "walk" /\ pass'.seen = pass.seen /\ pass'.todo = pass.todo
      /\ pass'.prior = pass.prior /\ pass'.full = pass.full /\ pass'.cut = pass.cut
      /\ pass'.races = pass.races /\ pass'.sound = pass.sound
      /\ pass.pc = "apply" /\ file' = file /\ book' = [book EXCEPT ![p] = f.stamp]
      /\ ApplyEdges(r, i, f)
  BY <1>p, <1>f DEF WalkApply, Inv, TypeOK, Passes
<1>2. HandInv'
  BY <1>1 DEF HandInv
<1> SUFFICES ASSUME Undisturbed
             PROVE  PassInv'
  BY <1>1, <1>2 DEF PassInv, Undisturbed
<1>3. /\ Walking /\ OnePlace(Known)
      /\ pass.full => \A q \in Walked : pass.prior[q] = 0
      /\ \A q \in Present, s \in Known \ Present :
           pass.prior[q] = 0 => s[2] \notin file[q].to
  BY <1>1 DEF Inv, PassInv
<1>4. Present' = Present /\ Known' = Known /\ Present \subseteq Walked
      /\ Present \subseteq Known
  BY <1>1 DEF Present, Known
<1>5. p \in Present /\ f = file[p] /\ ~Done(p) /\ p \in pass.seen
  BY <1>1, <1>3, <1>p, <1>f DEF Walking, Reading, Done
<1>6. f \in Files /\ i \in Id /\ row \in Store /\ f.stamp \in 0..MaxStamp
  BY <1>5, PathParts DEF Present, Inv, TypeOK, Files, Stamp, Store
<1>7. /\ r \in Store /\ r[i] # None /\ r[i].stamp = f.stamp
      /\ row[i] # None => r[i].archived = row[i].archived
      /\ row[i] = None => ~r[i].archived
      /\ \A k \in Id \ {i} : r[k] = row[k]
  BY <1>6, UpsertedType
<1>8. /\ f.to = {} => \A j \in Id : <<i, j>> \notin edge
      /\ ~r[i].archived
  BY <1>3, <1>5, <1>7 DEF Walking, Ahead
<1> HIDE DEF r
<1>9. /\ \A k \in Id : r[k] # None => row'[k] = r[k]
      /\ \A k \in Id : r[k] = None => row'[k] \in {None, Thin}
      /\ \A j \in Id : <<i, j>> \in edge' <=> j \in f.to
      /\ \A k \in Id \ {i}, j \in Id : <<k, j>> \in edge' <=> <<k, j>> \in edge
  BY <1>1, <1>6, <1>7, <1>8, ApplyEdgesResult DEF Inv, Undisturbed
<1>10. \A q \in Present : q # p => q[2] # i /\ q[2] \in Id
  BY <1>3, <1>4, <1>5, PathParts DEF OnePlace
<1>11. Matches(i, f)' /\ Booked(p)'
  <2>1. book'[p] = f.stamp
    BY <1>1, <1>4, <1>5 DEF Inv, TypeOK
  <2> QED
    BY <1>1, <1>4, <1>5, <1>6, <1>7, <1>8, <1>9, <2>1 DEF Matches, Booked, Present
<1>12. ASSUME NEW q \in Present, q # p
       PROVE  /\ Done(q)' <=> Done(q)
              /\ Booked(q)' <=> Booked(q) /\ book'[q] = book[q]
              /\ Matches(q[2], file[q]) => Matches(q[2], file[q])'
              /\ \A j \in Id : <<q[2], j>> \in edge' <=> <<q[2], j>> \in edge
              /\ (row[q[2]] # None => ~row[q[2]].archived) =>
                   (row'[q[2]] # None => ~row'[q[2]].archived)
  <2>1. book'[q] = book[q]
    BY <1>1, <1>4, <1>12 DEF Inv, TypeOK
  <2>2. Done(q)' <=> Done(q)
    BY <1>1, <1>12, <1>p DEF Done
  <2>3. \A j \in Id : <<q[2], j>> \in edge' <=> <<q[2], j>> \in edge
    BY <1>9, <1>10, <1>12
  <2>4. row[q[2]] # None => row'[q[2]] = row[q[2]]
    BY <1>7, <1>9, <1>10, <1>12
  <2>5. Matches(q[2], file[q]) => Matches(q[2], file[q])'
    BY <1>1, <2>3, <2>4 DEF Matches
  <2>6. row[q[2]] = None => row'[q[2]] \in {None, Thin}
    BY <1>7, <1>9, <1>10, <1>12
  <2> QED
    BY <1>1, <2>1, <2>2, <2>3, <2>4, <2>5, <2>6 DEF Booked, Thin
<1>13. \A q \in Present :
         IF Done(q)' THEN Booked(q)' /\ Matches(q[2], file[q])' ELSE Ahead(q)'
  <2>1. ASSUME NEW q \in Present, q # p
        PROVE  IF Done(q)' THEN Booked(q)' /\ Matches(q[2], file[q])' ELSE Ahead(q)'
    <3>1. IF Done(q) THEN Booked(q) /\ Matches(q[2], file[q]) ELSE Ahead(q)
      BY <1>3 DEF Walking
    <3> QED
      BY <1>1, <1>12, <2>1, <3>1 DEF Ahead
  <2>2. Done(p)'
    BY <1>1, <1>5 DEF Done
  <2> QED
    BY <1>1, <1>5, <1>11, <2>1, <2>2
<1>14. Reading'
  BY <1>1, <1>3, <1>4 DEF Walking, Reading
<1>15. ASSUME NEW k \in Id, IsFull(k)', row'[k].archived => pass.full
       PROVE  Known \cap PathsOf(k) # {}
  <2>1. CASE k = i
    BY <1>4, <1>5, <2>1 DEF PathsOf
  <2>2. CASE k # i
    <3>1. row'[k] # None /\ row'[k] # Thin
      BY <1>15 DEF IsFull, Thin
    <3>2. row'[k] = row[k]
      BY <1>7, <1>9, <2>2, <3>1
    <3> QED
      BY <1>3, <1>15, <3>2 DEF Walking, IsFull
  <2> QED
    BY <2>1, <2>2
<1>16. Walking'
  BY <1>1, <1>4, <1>13, <1>14, <1>15 DEF Walking, PathsOf
<1> QED
  BY <1>1, <1>3, <1>4, <1>16 DEF PassInv, OnePlace

LEMMA WalkEndsInv ==
  ASSUME Inv, WalkEnds
  PROVE  HandInv' /\ PassInv'
<1> DEFINE gone == {p \in Walked : pass.prior[p] # 0 /\ p \notin pass.seen}
<1>1. /\ pass.pc = "walk" /\ \A p \in pass.todo : file[p] = None
      /\ pass'.pc = (IF pass.full THEN "end" ELSE "sweep")
      /\ pass'.gone = (IF pass.full THEN {} ELSE gone)
      /\ pass'.todo = (IF pass.full THEN {} ELSE gone)
      /\ pass'.prior = pass.prior /\ pass'.full = pass.full /\ pass'.cut = pass.cut
      /\ pass'.races = pass.races /\ pass'.sound = pass.sound /\ pass'.seen = pass.seen
      /\ UNCHANGED <<file, row, edge, book>>
  BY DEF WalkEnds, Inv, TypeOK, Passes
<1>2. HandInv'
  BY <1>1 DEF HandInv
<1> SUFFICES ASSUME Undisturbed
             PROVE  PassInv'
  BY <1>1, <1>2 DEF PassInv, Undisturbed
<1>3. /\ Walking /\ OnePlace(Known)
      /\ pass.full => \A q \in Walked : pass.prior[q] = 0
      /\ \A q \in Present, s \in Known \ Present :
           pass.prior[q] = 0 => s[2] \notin file[q].to
  BY <1>1 DEF Inv, PassInv
<1>4. Present' = Present /\ Known' = Known /\ Present \subseteq Known
  BY <1>1 DEF Present, Known
<1>5. pass.seen = Present
  BY <1>1, <1>3 DEF Walking, Reading, Present
<1>6. gone = Known \ Present
  BY <1>5 DEF Known, Present
<1>7. pass'.gone = Known \ Present /\ pass'.todo = pass'.gone
  BY <1>1, <1>3, <1>6 DEF Known, Present
<1>8. pass'.pc = "end" => pass'.todo = {}
  BY <1>1
<1>9. ASSUME NEW p \in Present
      PROVE  Swept(p)'
  <2>1. Booked(p) /\ Matches(p[2], file[p])
    BY <1>1, <1>3, <1>5 DEF Walking, Done
  <2>2. file[p].to \subseteq Id
    BY PathParts DEF Present, Inv, TypeOK, Files
  <2> QED
    BY <1>1, <2>1, <2>2 DEF Swept, Booked, Matches
<1>10. \A k \in Id : IsFull(k) /\ (row[k].archived => pass.full) =>
         (Present \cup pass'.todo) \cap PathsOf(k) # {}
  BY <1>3, <1>4, <1>7 DEF Walking
<1>11. Sweeping'
  <2>1. \A k \in Id : IsFull(k)' <=> IsFull(k)
    BY <1>1 DEF IsFull
  <2> QED
    BY <1>1, <1>3, <1>4, <1>5, <1>7, <1>8, <1>9, <1>10, <2>1
       DEF Sweeping, Walking, Reading, PathsOf
<1> QED
  BY <1>1, <1>3, <1>4, <1>11 DEF PassInv, OnePlace

LEMMA SweepInv ==
  ASSUME Inv, NEW p \in Walked, Sweep(p)
  PROVE  HandInv' /\ PassInv'
<1> DEFINE i == p[2]
<1>1. /\ pass.pc = "sweep" /\ p \in pass.todo /\ file' = file
      /\ row' = [row EXCEPT ![i] = None] /\ edge' = edge \ EdgesOf(i)
      /\ book' = [book EXCEPT ![p] = 0]
      /\ pass'.pc = "sweep" /\ pass'.todo = pass.todo \ {p}
      /\ pass'.cut = pass.cut \cup Referrers(i)
      /\ pass'.prior = pass.prior /\ pass'.full = pass.full /\ pass'.gone = pass.gone
      /\ pass'.races = pass.races /\ pass'.sound = pass.sound /\ pass'.seen = pass.seen
  BY DEF Sweep, Cascade, Inv, TypeOK, Passes
<1>2. HandInv'
  BY <1>1 DEF HandInv
<1> SUFFICES ASSUME Undisturbed
             PROVE  PassInv'
  BY <1>1, <1>2 DEF PassInv, Undisturbed
<1>3. /\ Sweeping /\ OnePlace(Known)
      /\ pass.full => \A q \in Walked : pass.prior[q] = 0
      /\ \A q \in Present, s \in Known \ Present :
           pass.prior[q] = 0 => s[2] \notin file[q].to
  BY <1>1 DEF Inv, PassInv
<1>4. /\ Present' = Present /\ Known' = Known /\ Present \subseteq Known
      /\ Present \subseteq Walked
  BY <1>1 DEF Present, Known
<1>5. p \in Known \ Present /\ i \in Id /\ pass.gone = Known \ Present
  BY <1>1, <1>3, PathParts DEF Sweeping
<1>6. ASSUME NEW q \in Present
      PROVE  Swept(q)'
  <2> DEFINE k == q[2]
  <2>1. k \in Id /\ k # i /\ q # p
    BY <1>3, <1>4, <1>5, PathParts DEF OnePlace
  <2>2. Swept(q)
    BY <1>3 DEF Sweeping
  <2>3. file[q].to \subseteq Id
    BY <1>4, PathParts DEF Present, Inv, TypeOK, Files
  <2>4. row'[k] = row[k] /\ book'[q] = book[q]
    BY <1>1, <1>4, <2>1 DEF Inv, TypeOK
  <2>5. \A j \in Id : <<k, j>> \in edge' <=> <<k, j>> \in edge /\ j # i
    BY <1>1, <2>1 DEF EdgesOf
  <2>6. k \notin {g[2] : g \in pass.gone}
    BY <1>3, <1>4, <1>5 DEF OnePlace
  <2>7. \/ \A j \in file[q].to : <<k, j>> \in edge'
        \/ k \in pass'.cut /\ pass.prior[q] # 0
    <3>1. CASE k \in pass.cut /\ pass.prior[q] # 0
      BY <1>1, <3>1
    <3>2. CASE \A j \in file[q].to : <<k, j>> \in edge
      <4>1. CASE i \in file[q].to
        <5>1. <<k, i>> \in edge
          BY <3>2, <4>1
        <5>2. k \in Referrers(i)
          BY <2>1, <2>6, <5>1 DEF Referrers
        <5>3. pass.prior[q] # 0
          BY <1>3, <1>5, <4>1
        <5> QED
          BY <1>1, <5>2, <5>3
      <4>2. CASE i \notin file[q].to
        BY <2>3, <2>5, <3>2, <4>2
      <4> QED
        BY <4>1, <4>2
    <3> QED
      BY <2>2, <3>1, <3>2 DEF Swept
  <2>8. Booked(q)'
    BY <1>1, <2>2, <2>4 DEF Swept, Booked
  <2> QED
    BY <1>1, <2>2, <2>4, <2>5, <2>7, <2>8 DEF Swept
<1>7. ASSUME NEW k \in Id, IsFull(k)', row'[k].archived => pass.full
      PROVE  (Present \cup pass'.todo) \cap PathsOf(k) # {}
  <2>1. k # i /\ row'[k] = row[k]
    BY <1>1, <1>5, <1>7 DEF IsFull, Inv, TypeOK
  <2>2. PICK q \in Present \cup pass.todo : q \in PathsOf(k)
    BY <1>3, <1>7, <2>1 DEF Sweeping, IsFull
  <2>3. q # p
    BY <2>1, <2>2 DEF PathsOf
  <2> QED
    BY <1>1, <2>2, <2>3
<1>8. Sweeping'
  BY <1>1, <1>3, <1>4, <1>6, <1>7 DEF Sweeping, PathsOf
<1> QED
  BY <1>1, <1>3, <1>4, <1>8 DEF PassInv, OnePlace

LEMMA RederiveInv ==
  ASSUME Inv, NEW i \in Id, Rederive(i)
  PROVE  HandInv' /\ PassInv'
<1> DEFINE known == {p \in PathsOf(i) \cap pass.seen : pass.prior[p] # 0 /\ file[p] # None}
<1>1. /\ pass.pc = "rederive" /\ file' = file /\ book' = book
      /\ IF known = {} THEN UNCHANGED <<row, edge>>
                       ELSE \E p \in known : ApplyEdges(row, i, file[p])
      /\ pass'.pc = "rederive" /\ pass'.todo = pass.todo /\ pass'.cut = pass.cut \ {i}
      /\ pass'.prior = pass.prior /\ pass'.full = pass.full /\ pass'.gone = pass.gone
      /\ pass'.races = pass.races /\ pass'.sound = pass.sound /\ pass'.seen = pass.seen
  BY DEF Rederive, Surviving, Inv, TypeOK, Passes
<1>2. HandInv'
  BY <1>1 DEF HandInv
<1> SUFFICES ASSUME Undisturbed
             PROVE  PassInv'
  BY <1>1, <1>2 DEF PassInv, Undisturbed
<1>3. /\ Sweeping /\ OnePlace(Known)
      /\ pass.full => \A q \in Walked : pass.prior[q] = 0
      /\ \A q \in Present, s \in Known \ Present :
           pass.prior[q] = 0 => s[2] \notin file[q].to
  BY <1>1 DEF Inv, PassInv
<1>4. /\ Present' = Present /\ Known' = Known /\ Present \subseteq Known
      /\ Present \subseteq Walked /\ pass.seen = Present
  BY <1>1, <1>3 DEF Present, Known, Sweeping
<1>5. \A q \in Present : Swept(q) /\ q[2] \in Id /\ file[q] \in Files /\ file[q].to \subseteq Id
  BY <1>3, <1>4, PathParts DEF Sweeping, Present, Inv, TypeOK, Files
<1>6. /\ \A q \in Present : Swept(q)'
      /\ \A k \in Id : IsFull(k)' => row'[k] = row[k]
  <2>1. CASE known = {}
    <3>1. ASSUME NEW q \in Present
          PROVE  Swept(q)'
      <4>1. q[2] = i => pass.prior[q] = 0
        BY <1>4, <2>1 DEF PathsOf, Present
      <4> QED
        BY <1>1, <1>5, <2>1, <4>1 DEF Swept, Booked
    <3> QED
      BY <1>1, <2>1, <3>1
  <2>2. CASE known # {}
    <3>1. PICK p \in known : ApplyEdges(row, i, file[p])
      BY <1>1, <2>2
    <3>2. p \in Present /\ p[2] = i
      BY <1>4 DEF PathsOf
    <3>3. Swept(p) /\ row \in Store /\ file[p] \in Files
      BY <1>5, <3>2 DEF Inv, TypeOK, Store
    <3>4. file[p].to = {} => \A j \in Id : <<i, j>> \notin edge
      BY <3>2, <3>3 DEF Swept
    <3>5. row[i] # None
      BY <3>2, <3>3 DEF Swept
    <3>6. /\ \A k \in Id : row[k] # None => row'[k] = row[k]
          /\ \A k \in Id : row[k] = None => row'[k] \in {None, Thin}
          /\ \A j \in Id : <<i, j>> \in edge' <=> j \in file[p].to
          /\ \A k \in Id \ {i}, j \in Id : <<k, j>> \in edge' <=> <<k, j>> \in edge
      BY <3>1, <3>3, <3>4, <3>5, ApplyEdgesResult DEF Inv, Undisturbed
    <3>7. Swept(p)'
      BY <1>1, <1>5, <3>2, <3>3, <3>6 DEF Swept, Booked
    <3>8. ASSUME NEW q \in Present, q # p
          PROVE  Swept(q)'
      <4>1. q[2] \in Id \ {i}
        BY <1>3, <1>4, <1>5, <3>2, <3>8 DEF OnePlace
      <4> QED
        BY <1>1, <1>5, <3>6, <4>1 DEF Swept, Booked
    <3>9. \A k \in Id : IsFull(k)' => row'[k] = row[k]
      BY <3>6 DEF IsFull, Thin
    <3> QED
      BY <3>7, <3>8, <3>9
  <2> QED
    BY <2>1, <2>2
<1>7. \A k \in Id : IsFull(k)' /\ (row'[k].archived => pass.full) =>
        (Present \cup pass.todo) \cap PathsOf(k) # {}
  BY <1>3, <1>6 DEF Sweeping, IsFull
<1>8. Sweeping'
  BY <1>1, <1>3, <1>4, <1>6, <1>7 DEF Sweeping, PathsOf
<1> QED
  BY <1>1, <1>3, <1>4, <1>8 DEF PassInv, OnePlace

LEMMA PhaseInv ==
  ASSUME Inv, SweepEnds \/ RederiveEnds
  PROVE  HandInv' /\ PassInv'
<1>1. /\ \/ pass.pc = "sweep" /\ pass'.pc = "rederive" /\ pass.todo = {}
         \/ pass.pc = "rederive" /\ pass'.pc = "end" /\ pass.cut = {}
      /\ pass'.todo = pass.todo /\ pass'.cut = pass.cut
      /\ pass'.prior = pass.prior /\ pass'.full = pass.full /\ pass'.gone = pass.gone
      /\ pass'.races = pass.races /\ pass'.sound = pass.sound /\ pass'.seen = pass.seen
      /\ UNCHANGED <<file, row, edge, book>>
  BY DEF SweepEnds, RederiveEnds, Inv, TypeOK, Passes
<1>2. HandInv'
  BY <1>1 DEF HandInv
<1> SUFFICES ASSUME Undisturbed
             PROVE  PassInv'
  BY <1>1, <1>2 DEF PassInv, Undisturbed
<1>3. /\ Sweeping /\ OnePlace(Known)
      /\ pass.full => \A q \in Walked : pass.prior[q] = 0
      /\ \A q \in Present, s \in Known \ Present :
           pass.prior[q] = 0 => s[2] \notin file[q].to
  BY <1>1 DEF Inv, PassInv
<1>4. Present' = Present /\ Known' = Known
  BY <1>1 DEF Present, Known
<1>5. Sweeping'
  BY <1>1, <1>3, <1>4 DEF Sweeping, Swept, Booked, IsFull, PathsOf
<1> QED
  BY <1>1, <1>3, <1>4, <1>5 DEF PassInv, OnePlace

----------------------------------------------------------------------------
(* The theorems.                                                            *)

LEMMA InitInv == Init => Inv
<1> SUFFICES ASSUME Init
             PROVE  Inv
  OBVIOUS
<1>1. 0 \in 0..MaxStamp
  BY BoundAssumption
<1>2. TypeOK
  BY <1>1, NoPassType DEF Init, TypeOK, Ops
<1>3. HandInv /\ PassInv
  BY DEF Init, NoPass, HandInv, PassInv, Undisturbed
<1> QED
  BY <1>2, <1>3 DEF Inv

LEMMA NextInv == Inv /\ [Next]_vars => Inv'
<1> SUFFICES ASSUME Inv, [Next]_vars
             PROVE  Inv'
  OBVIOUS
<1>1. CASE UNCHANGED vars
  BY <1>1 DEF vars, Inv, TypeOK, HandInv, PassInv, Undisturbed, Present, Known,
     Walking, Reading, Done, Ahead, Sweeping, Swept, Booked, Matches, IsFull, PathsOf,
     OnePlace
<1>2. CASE Pass
  <2>1. TypeOK'
    <3>1. CASE WalkApply \/ WalkApplyFails
      BY <3>1, ApplyType DEF Inv, HandInv, WalkApply, WalkApplyFails
    <3> QED
      BY <1>2, <3>1, WalkType, SweepType DEF Pass, Inv
  <2>2. HandInv' /\ PassInv'
    BY <1>2, BeginInv, ReadInv, ApplyInv, WalkEndsInv, SweepInv, RederiveInv, PhaseInv,
       FailuresPass, DisturbedPass DEF Pass, Walk, EndPass
  <2> QED
    BY <2>1, <2>2 DEF Inv
<1>3. CASE Next /\ ~Pass
  <2>1. TypeOK'
    BY <1>3, HandleType, OutsideType DEF Next, Inv
  <2>2. HandInv' /\ PassInv'
    BY <1>3, OutsidePass DEF Next
  <2> QED
    BY <2>1, <2>2 DEF Inv
<1> QED
  BY <1>1, <1>2, <1>3

\* The inductive invariant holds.
THEOREM Invariance == Spec => []Inv
  BY InitInv, NextInv, PTL DEF Spec

\* Files, rows, edges, bookkeeping and passes stay well typed.
THEOREM TypeCorrect == Spec => []TypeOK
<1>1. Inv => TypeOK
  BY DEF Inv
<1> QED
  BY <1>1, Invariance, PTL

\* Reindexer.Run, full: whatever the store held before, an undisturbed pass
\* over a vault with one place per entity leaves it a function of the vault.
THEOREM FullPass == Spec => []FullPassRebuilds
<1>1. Inv => FullPassRebuilds
  <2> SUFFICES ASSUME Inv, Whole(TRUE)
               PROVE  Rebuilt
    BY DEF FullPassRebuilds
  <2>1. Sweeping /\ pass.full /\ pass.pc = "end"
    BY DEF Inv, PassInv, Undisturbed, Whole
  <2>2. \A p \in Present : Booked(p) /\ Matches(p[2], file[p])
    BY <2>1 DEF Sweeping, Swept, Matches
  <2>3. \A i \in Id : IsFull(i) => Present \cap PathsOf(i) # {}
    BY <2>1 DEF Sweeping
  <2> QED
    BY <2>2, <2>3 DEF Rebuilt, Present
<1> QED
  BY <1>1, Invariance, PTL

\* Reindexer.Run, incremental: over truthful bookkeeping and where no archived
\* row has a file in the walk, the pass leaves every file indexed, unarchived
\* and with all its edges, those to what vanished included (#447), and no
\* unarchived row without a file.  What a cut-off restore leaves is outside
\* its premise: the pass does not repair it (the premise is Repairable).
THEOREM IncrementalPass == Spec => []IncrementalPassRepairs
<1>1. Inv => IncrementalPassRepairs
  <2> SUFFICES ASSUME Inv, Whole(FALSE)
               PROVE  /\ \A p \in Walked : file[p] # None =>
                           Matches(p[2], file[p]) /\ Booked(p)
                      /\ \A i \in Id : IsFull(i) /\ ~row[i].archived =>
                           \E p \in PathsOf(i) : file[p] # None
    BY DEF IncrementalPassRepairs
  <2>1. Sweeping /\ pass.pc = "end"
    BY DEF Inv, PassInv, Undisturbed, Whole
  <2>2. \A p \in Present : Booked(p) /\ Matches(p[2], file[p])
    BY <2>1 DEF Sweeping, Swept, Matches
  <2>3. \A i \in Id : IsFull(i) /\ ~row[i].archived => Present \cap PathsOf(i) # {}
    BY <2>1 DEF Sweeping
  <2> QED
    BY <2>2, <2>3 DEF Present
<1> QED
  BY <1>1, Invariance, PTL
=============================================================================
