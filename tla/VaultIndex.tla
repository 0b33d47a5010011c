----------------------------- MODULE VaultIndex -----------------------------
(***************************************************************************)
(* The vault's files and the rows derived from them.  Handlers change a    *)
(* file first and its rows after that; a reindex pass reads the files and  *)
(* makes the rows agree again, whatever was left behind by an error, a     *)
(* crash or an operator's editor (internal/vault/writer.go,                *)
(* internal/reindex/reindex.go, internal/store, the archive, delete, move  *)
(* and rename handlers of internal/api and their workflow counterparts).   *)
(*                                                                         *)
(* A file is named by its place and its entity: flat, one folder down (only *)
(* for user content), or in the archive, which the walk skips.  Every write *)
(* takes a new stamp, so that a stamp stands for a file's content and mtime *)
(* and a moved file keeps it.  There is one edge type.                     *)
(***************************************************************************)
EXTENDS Naturals

CONSTANTS Id,           \* entity ids
          UserContent,  \* those of kind user-content
          Link,         \* the entities that a plugin's data cites
          Handler,      \* request handlers and workflow actions
          Guarded,      \* whether passes have the operator's registry
          None,
          MaxStamp,     \* bound: writes of files
          MaxRaces      \* bound: what disturbs one pass

ASSUME UserContentAssumption == UserContent \subseteq Id
ASSUME LinkAssumption == Link \in [Id -> SUBSET Id]
ASSUME GuardedAssumption == Guarded \in BOOLEAN
ASSUME BoundAssumption == {MaxStamp, MaxRaces} \subseteq Nat \ {0}

VARIABLES file,   \* the vault
          row,    \* the entities table
          edge,   \* the edges table
          book,   \* the reindex_files table
          stamp,  \* stamps given so far
          op,     \* the handlers between their file and their rows
          pass    \* the reindex pass

vars == <<file, row, edge, book, stamp, op, pass>>

Walked == ({"flat"} \X Id) \cup ({"sub"} \X UserContent)
Path == Walked \cup ({"archive"} \X Id)
Stamp == 1..MaxStamp
Files == [stamp : Stamp, to : SUBSET Id]
\* stamp 0: a thin row, which an edge materialised.
Rows == [stamp : 0..MaxStamp, archived : BOOLEAN]

ASSUME NoneAssumption == None \notin Id \cup Rows \cup Files

Idle == [do |-> "none", id |-> None, new |-> None, stamp |-> 0]
\* What a handler still owes the store.
Ops == {Idle}
  \cup [do : {"ingest", "edit", "archive", "restore", "destroy"},
        id : Id, new : {None}, stamp : 0..MaxStamp]
  \cup [do : {"rename"}, id : Id, new : Id, stamp : 0..MaxStamp]

\* prior: the bookkeeping at the start; seen, todo: the walk; at, read: the
\* file in hand; gone: vanished paths; cut: referrers that lost an edge.
\* races, sound: history, see Disturb and Repairable.
NoPass == [pc |-> "idle", full |-> FALSE,
           prior |-> [p \in Walked |-> 0], seen |-> {}, todo |-> {}, at |-> None,
           read |-> None, gone |-> {}, cut |-> {}, races |-> 0, sound |-> FALSE]
Passes ==
  [pc : {"idle", "walk", "apply", "sweep", "rederive", "end"}, full : BOOLEAN,
   prior : [Walked -> 0..MaxStamp], seen : SUBSET Walked,
   todo : SUBSET Walked, at : Walked \cup {None}, read : Files \cup {None},
   gone : SUBSET Walked, cut : SUBSET Id, races : 0..MaxRaces, sound : BOOLEAN]

TypeOK ==
  /\ file \in [Path -> Files \cup {None}]
  /\ row \in [Id -> Rows \cup {None}]
  /\ edge \subseteq Id \X Id
  /\ book \in [Walked -> 0..MaxStamp]
  /\ stamp \in 0..MaxStamp
  /\ op \in [Handler -> Ops]
  /\ pass \in Passes

Init ==
  /\ file = [p \in Path |-> None]
  /\ row = [i \in Id |-> None]
  /\ edge = {}
  /\ book = [p \in Walked |-> 0]
  /\ stamp = 0
  /\ op = [h \in Handler |-> Idle]
  /\ pass = NoPass

----------------------------------------------------------------------------
(* The vault's layout.                                                      *)

Flat(i) == <<"flat", i>>
Archive(i) == <<"archive", i>>
At(place, i) == {p \in Path : p = <<place, i>> /\ file[p] # None}

\* ReadByID: flat, then the one folder that has it, then the archive.
Readable(i) ==
  LET places == {pl \in {"flat", "sub", "archive"} : At(pl, i) # {}} IN
  IF "flat" \in places THEN At("flat", i)
  ELSE IF "sub" \in places THEN At("sub", i) ELSE At("archive", i)

\* writeAtomic: a user-content file stays in the folder it is in.
WritePath(i) ==
  IF file[Flat(i)] = None /\ At("sub", i) # {} THEN <<"sub", i>> ELSE Flat(i)

\* Where Archive, MoveToSubfolder and Rename look for the active file.
ActivePath(i) == WritePath(i)

Thin == [stamp |-> 0, archived |-> FALSE]
IsFull(i) == row[i] # None /\ row[i].stamp > 0

\* Mutant: UpsertEntity without the archived_at column.
Upserted_NoColumn(r, i, s) == [r EXCEPT ![i] = [stamp |-> s]]

\* UpsertEntity leaves archived_at alone.
Upserted(r, i, s) ==
  [r EXCEPT ![i] = [stamp |-> s, archived |-> r[i] # None /\ r[i].archived]]
\* EnsureLabelRow.
WithThin(r, ids) == [i \in Id |-> IF i \in ids /\ r[i] = None THEN Thin ELSE r[i]]

\* DeleteEntityCascade: the row and its edges in both directions.
EdgesOf(i) == ({i} \X Id) \cup (Id \X {i})
Cascade(i) == row' = [row EXCEPT ![i] = None] /\ edge' = edge \ EdgesOf(i)

\* Handlers, editors and errors disturb the pass they run next to.
Disturb == /\ pass.races < MaxRaces
           /\ pass' = [pass EXCEPT !.races = IF pass.pc = "idle" THEN 0 ELSE @ + 1]
\* acquireWriteLock: one handler per entity.
Unlocked(h, i) == \A g \in Handler \ {h} : op[g].id # i

----------------------------------------------------------------------------
(* Handlers: the file.                                                      *)

\* A handler that owes the store an update of i.
Owes(h, i, do, new, s) ==
  /\ op' = [op EXCEPT ![h] = [do |-> do, id |-> i, new |-> new, stamp |-> s]]
  /\ Disturb
  /\ UNCHANGED <<row, edge, book>>

\* The ingest tracker's and every edit's write; an edit needs a row and
\* keeps the edges of the file it read.
WriteFile(h, i, do) ==
  /\ op[h] = Idle /\ Unlocked(h, i) /\ stamp < MaxStamp
  /\ do = "edit" => row[i] # None /\ Readable(i) # {}
  /\ \E to \in IF do = "edit" THEN {file[p].to : p \in Readable(i)} ELSE {Link[i]} :
       file' = [file EXCEPT ![WritePath(i)] = [stamp |-> stamp + 1, to |-> to]]
  /\ stamp' = stamp + 1
  /\ Owes(h, i, do, None, stamp + 1)

\* moveBetweenArchive: a file that is already there is fine, none in either
\* place is an error.
MoveBetween(i, do) ==
  LET active == IF do = "archive" THEN ActivePath(i) ELSE Flat(i)
      src == IF do = "archive" THEN active ELSE Archive(i)
      dst == IF do = "archive" THEN Archive(i) ELSE active IN
  /\ file[src] # None \/ file[dst] # None
  /\ file' = IF file[src] = None THEN file
             ELSE [file EXCEPT ![dst] = file[src], ![src] = None]

\* The archive and restore endpoints.
Transition(h, i, do) ==
  /\ op[h] = Idle /\ Unlocked(h, i) /\ row[i] # None
  /\ MoveBetween(i, do)
  /\ Owes(h, i, do, None, 0)
  /\ UNCHANGED stamp

\* The workflow actions take the same two steps; they skip a missing row.
ArchiveAction(h, i) == Transition(h, i, "archive")
RestoreAction(h, i) == Transition(h, i, "restore")

\* The delete endpoint: only what is archived, and DestroyArchivedWithCommit
\* may find the file missing.
DestroyFile(h, i) ==
  /\ op[h] = Idle /\ Unlocked(h, i)
  /\ row[i] # None /\ row[i].archived
  /\ file' = [file EXCEPT ![Archive(i)] = None]
  /\ Owes(h, i, "destroy", None, 0)
  /\ UNCHANGED stamp

\* DELETE /v1/user-content looks for the file first, in the vault or its archive.
DestroyPage(h, i) == i \in UserContent /\ Readable(i) # {} /\ DestroyFile(h, i)

\* userContentSlugConflict: neither the store nor the vault has the new id.
SlugIsFree(j) == row[j] = None /\ Readable(j) = {}

\* RenameUserContentSlug, which stays in the folder: the new file is there
\* before the old one goes.
RenamedFiles(i, j) ==
  LET old == ActivePath(i) IN
  [file EXCEPT ![<<old[1], j>>] = [file[old] EXCEPT !.stamp = stamp + 1]]

MayRename(h, i, j) ==
  /\ op[h] = Idle /\ Unlocked(h, i) /\ {i, j} \subseteq UserContent /\ i # j
  /\ row[i] # None /\ file[ActivePath(i)] # None /\ SlugIsFree(j)
  /\ stamp < MaxStamp
  /\ stamp' = stamp + 1

RenameFile(h, i, j) ==
  /\ MayRename(h, i, j)
  /\ file' = [RenamedFiles(i, j) EXCEPT ![ActivePath(i)] = None]
  /\ Owes(h, i, "rename", j, stamp + 1)

\* The daemon dies with both files in place.
RenameDies(h, i, j) ==
  /\ MayRename(h, i, j)
  /\ file' = RenamedFiles(i, j)
  /\ op' = [g \in Handler |-> Idle] /\ pass' = NoPass
  /\ UNCHANGED <<row, edge, book>>

\* MoveToSubfolder: a rename on disk, which replaces what is at the
\* destination.
Moved(i, place) ==
  [file EXCEPT ![<<place, i>>] = file[ActivePath(i)], ![ActivePath(i)] = None]

\* The move endpoint, "flat" being the empty subfolder; the store keeps.
MoveFile(i, place) ==
  /\ i \in UserContent /\ place \in {"flat", "sub"} /\ place # ActivePath(i)[1]
  /\ \A h \in Handler : op[h].id # i
  /\ row[i] # None /\ file[ActivePath(i)] # None
  /\ file' = Moved(i, place)
  /\ Disturb
  /\ UNCHANGED <<row, edge, book, stamp, op>>

----------------------------------------------------------------------------
(* Handlers: the rows.                                                      *)

Settle(h, do) == /\ op[h].do = do
                 /\ op' = [op EXCEPT ![h] = Idle]
                 /\ Disturb
                 /\ UNCHANGED <<file, book, stamp>>

IngestRow(h) ==
  LET i == op[h].id IN
  /\ Settle(h, "ingest")
  /\ row' = WithThin(Upserted(row, i, op[h].stamp), Link[i])
  /\ edge' = edge \cup ({i} \X Link[i])

EditRow(h) ==
  /\ Settle(h, "edit")
  /\ row' = Upserted(row, op[h].id, op[h].stamp)
  /\ UNCHANGED edge

\* ArchiveEntity and RestoreEntity; a row that is gone is reported.
ToggleRow(h, do) ==
  LET i == op[h].id IN
  /\ Settle(h, do)
  /\ row' = IF row[i] = None THEN row
            ELSE [row EXCEPT ![i].archived = (do = "archive")]
  /\ UNCHANGED edge

DestroyRow(h) ==
  LET i == op[h].id IN
  /\ Settle(h, "destroy")
  /\ Cascade(i)

\* RenameEntity fails, and changes nothing, when the old row is gone or the
\* new one has come.
RenameRow(h) ==
  LET i == op[h].id  j == op[h].new
      Renamed(k) == IF k = i THEN j ELSE k IN
  /\ Settle(h, "rename")
  /\ IF row[i] = None \/ row[j] # None THEN UNCHANGED <<row, edge>>
     ELSE /\ row' = [row EXCEPT ![j] = [row[i] EXCEPT !.stamp = op[h].stamp],
                                ![i] = None]
          /\ edge' = {<<Renamed(e[1]), Renamed(e[2])>> : e \in edge}

\* The store call fails: the file stays ahead of its rows.
MirrorFails(h) ==
  /\ op[h] # Idle
  /\ op' = [op EXCEPT ![h] = Idle]
  /\ Disturb
  /\ UNCHANGED <<file, row, edge, book, stamp>>

\* The daemon dies between any two calls.
Crash ==
  /\ op' = [h \in Handler |-> Idle]
  /\ pass' = NoPass
  /\ UNCHANGED <<file, row, edge, book, stamp>>

----------------------------------------------------------------------------
(* The operator's editor, git, and the cache purge of the command line.     *)

HandWrite(p, to) ==
  /\ stamp < MaxStamp /\ p \in Walked
  /\ file' = [file EXCEPT ![p] = [stamp |-> stamp + 1, to |-> to]]
  /\ stamp' = stamp + 1
  /\ Disturb
  /\ UNCHANGED <<row, edge, book, op>>

HandDelete(p) ==
  /\ p \in Walked /\ file[p] # None
  /\ file' = [file EXCEPT ![p] = None]
  /\ Disturb
  /\ UNCHANGED <<row, edge, book, stamp, op>>
----------------------------------------------------------------------------
(* A reindex pass: Reindexer.Run.  The daemon's passes are Guarded by the      *)
(* operator's registry; those of the command line and its cache purge not.   *)

PathsOf(i) == {p \in Walked : p[2] = i}
\* The row and the edges of i are those of its file, which is not archived.
Matches(i, f) ==
  /\ row[i] # None /\ row[i].stamp = f.stamp /\ ~row[i].archived
  /\ \A j \in Id : <<i, j>> \in edge <=> j \in f.to

\* What the bookkeeping says is indexed is indexed.
Booked(p) == file[p] # None /\ book[p] = file[p].stamp
Truthful == \A p \in Walked : Booked(p) => Matches(p[2], file[p])

\* One place per entity.
OnePlace(paths) == \A p, q \in paths : p[2] = q[2] => p = q

\* What an incremental pass can repair: truthful bookkeeping, one place per
\* entity in the walk and in the bookkeeping, no full row that neither knows,
\* no archived row with a file in the walk (the walk never looks at
\* archived_at, though entities_archive.go:53 has it reconcile a restore that
\* was cut off), no edge of a file without any, and no file outside the
\* bookkeeping that cites what vanished.
Repairable ==
  LET present == {p \in Walked : file[p] # None}
      known == present \cup {p \in Walked : book[p] # 0} IN
  /\ Truthful
  /\ OnePlace(known)
  /\ \A i \in Id : IsFull(i) /\ ~row[i].archived => known \cap PathsOf(i) # {}
  /\ \A p \in present : row[p[2]] # None => ~row[p[2]].archived
  /\ \A p \in present : file[p].to = {} => edge \cap ({p[2]} \X Id) = {}
  /\ \A p \in present : book[p] = 0 =>
       \A q \in known \ present : q[2] \notin file[p].to

Sound(full) ==
  IF full THEN OnePlace({p \in Walked : file[p] # None}) ELSE Repairable

\* Mutant: the wipe empties the bookkeeping only.
BeginPass_NoWipe(full) ==
  /\ pass.pc = "idle"
  /\ book' = [p \in Walked |-> IF full THEN 0 ELSE book[p]]
  /\ pass' = [NoPass EXCEPT !.pc = "walk", !.full = full, !.prior = book',
                !.todo = Walked, !.races = IF \A h \in Handler : op[h] = Idle THEN 0 ELSE 1,
                !.sound = Sound(full)]
  /\ UNCHANGED <<file, row, edge, stamp, op>>

\* Full: WipeDerivedState first.
BeginPass(full) ==
  LET wiped == [p \in Walked |-> 0] IN
  /\ pass.pc = "idle"
  /\ IF full THEN /\ row' = [i \in Id |-> None]
                  /\ edge' = {}
                  /\ book' = wiped
             ELSE UNCHANGED <<row, edge, book>>
  /\ pass' = [NoPass EXCEPT !.pc = "walk", !.full = full,
                !.prior = IF full THEN wiped ELSE book,
                !.todo = Walked,
                !.races = IF \A h \in Handler : op[h] = Idle THEN 0 ELSE 1, !.sound = Sound(full)]
  /\ UNCHANGED <<file, stamp, op>>

\* The walk reads a file, unless the bookkeeping has this very content.
WalkRead(p) ==
  /\ pass.pc = "walk" /\ p \in pass.todo /\ file[p] # None
  /\ pass' = [pass EXCEPT !.seen = @ \cup {p}, !.todo = @ \ {p},
       !.pc = IF pass.prior[p] = file[p].stamp THEN "walk" ELSE "apply",
       !.at = IF pass.prior[p] = file[p].stamp THEN None ELSE p,
       !.read = IF pass.prior[p] = file[p].stamp THEN None ELSE file[p]]
  /\ UNCHANGED <<file, row, edge, book, stamp, op>>

\* A file that came after its directory was listed.
WalkMiss(p) ==
  /\ pass.pc = "walk" /\ p \in pass.todo /\ file[p] # None /\ pass.races > 0
  /\ pass' = [pass EXCEPT !.todo = @ \ {p}]
  /\ UNCHANGED <<file, row, edge, book, stamp, op>>

\* stat, read or parse fails: the file is seen and stays as it was indexed.
WalkFails(p) ==
  /\ pass.pc = "walk" /\ p \in pass.todo /\ file[p] # None /\ pass.races < MaxRaces
  /\ pass' = [pass EXCEPT !.seen = @ \cup {p}, !.todo = @ \ {p}, !.races = @ + 1]
  /\ UNCHANGED <<file, row, edge, book, stamp, op>>

\* A directory that cannot be listed is skipped with everything under it.
WalkUnreadable(place) ==
  LET under == {p \in Walked : place = "flat" \/ p[1] = place} IN
  /\ pass.races < MaxRaces /\ pass.pc = "walk" /\ under \subseteq pass.todo /\ under # {}
  /\ pass' = [pass EXCEPT !.todo = @ \ under, !.races = @ + 1]
  /\ UNCHANGED <<file, row, edge, book, stamp, op>>

\* applyVaultEdges: an empty edges block changes nothing; otherwise the old
\* edges go and the cited ones come, to thin rows when guarded, and only
\* between the rows there are when not.
ApplyEdges(r, i, f) ==
  LET rows == IF Guarded THEN WithThin(r, f.to) ELSE r IN
  IF f.to = {} THEN row' = r /\ UNCHANGED edge
  ELSE /\ row' = rows
       /\ edge' = (edge \ ({i} \X Id)) \cup
            {e \in {i} \X f.to : rows[e[1]] # None /\ rows[e[2]] # None}

\* The writes of applyVaultEdges fail one by one, reported and passed over:
\* the old edges stay, or only some of the cited ones come.
ApplySomeEdges(r, i, f) ==
  \/ row' = r /\ UNCHANGED edge
  \/ /\ f.to # {}
     /\ \E thin \in SUBSET f.to : \E cited \in SUBSET thin :
          /\ row' = IF Guarded THEN WithThin(r, thin) ELSE r
          /\ edge' = (edge \ ({i} \X Id)) \cup
               {e \in {i} \X cited : row'[e[1]] # None /\ row'[e[2]] # None}

WalkApply ==
  LET p == pass.at  f == pass.read IN
  /\ pass.pc = "apply"
  /\ ApplyEdges(Upserted(row, p[2], f.stamp), p[2], f)
  /\ book' = [book EXCEPT ![p] = f.stamp]
  /\ pass' = [pass EXCEPT !.pc = "walk", !.at = None, !.read = None]
  /\ UNCHANGED <<file, stamp, op>>

\* upsertEntity fails; or its edges do, in part, and the file is booked
\* nevertheless; or UpsertReindexFile does, after the edges.
WalkApplyFails ==
  LET p == pass.at  f == pass.read IN
  /\ pass.pc = "apply" /\ pass.races < MaxRaces
  /\ \/ UNCHANGED <<row, edge, book>>
     \/ /\ ApplySomeEdges(Upserted(row, p[2], f.stamp), p[2], f)
        /\ book' \in {book, [book EXCEPT ![p] = f.stamp]}
  /\ pass' = [pass EXCEPT !.pc = "walk", !.at = None, !.read = None, !.races = @ + 1]
  /\ UNCHANGED <<file, stamp, op>>

\* After the walk; a full pass has nothing to sweep.
WalkEnds ==
  LET gone == {p \in Walked : pass.prior[p] # 0 /\ p \notin pass.seen} IN
  /\ pass.pc = "walk" /\ \A p \in pass.todo : file[p] = None
  /\ pass' = [pass EXCEPT !.pc = IF pass.full THEN "end" ELSE "sweep",
                          !.gone = IF pass.full THEN {} ELSE gone,
                          !.todo = IF pass.full THEN {} ELSE gone]
  /\ UNCHANGED <<file, row, edge, book, stamp, op>>

\* Mutant: before #447, no referrer was remembered.
Referrers_None(i) == {}

\* Surviving entities that cite i, before the cascade strips their edge.
Referrers(i) == {j \in Id : <<j, i>> \in edge} \ {p[2] : p \in pass.gone}

Sweep(p) ==
  /\ pass.pc = "sweep" /\ p \in pass.todo
  /\ Cascade(p[2])
  /\ book' = [book EXCEPT ![p] = 0]
  /\ pass' = [pass EXCEPT !.todo = @ \ {p}, !.cut = @ \cup Referrers(p[2])]
  /\ UNCHANGED <<file, stamp, op>>

\* The referrers cannot be listed, which stops nothing; the cascade fails, and
\* the path stays booked; or only the path's unbooking fails.
SweepFails(p) ==
  /\ pass.pc = "sweep" /\ p \in pass.todo /\ pass.races < MaxRaces
  /\ \/ UNCHANGED <<row, edge, book>>
     \/ Cascade(p[2]) /\ book' \in {book, [book EXCEPT ![p] = 0]}
  /\ \E cut \in {{}, Referrers(p[2])} :
       pass' = [pass EXCEPT !.todo = @ \ {p}, !.cut = @ \cup cut, !.races = @ + 1]
  /\ UNCHANGED <<file, stamp, op>>

SweepEnds ==
  /\ pass.pc = "sweep" /\ pass.todo = {}
  /\ pass' = [pass EXCEPT !.pc = "rederive"]
  /\ UNCHANGED <<file, row, edge, book, stamp, op>>

\* A stripped referrer's file, when the old bookkeeping knows it.
Surviving(j) ==
  {p \in PathsOf(j) \cap pass.seen : pass.prior[p] # 0 /\ file[p] # None}

Rederive(j) ==
  /\ pass.pc = "rederive" /\ j \in pass.cut
  /\ IF Surviving(j) = {} THEN UNCHANGED <<row, edge>>
     ELSE \E p \in Surviving(j) : ApplyEdges(row, j, file[p])
  /\ pass' = [pass EXCEPT !.cut = @ \ {j}]
  /\ UNCHANGED <<file, book, stamp, op>>

\* It cannot be read or parsed, or some of its edges cannot be written.
RederiveFails(j) ==
  /\ pass.pc = "rederive" /\ j \in pass.cut /\ pass.races < MaxRaces
  /\ \/ UNCHANGED <<row, edge>>
     \/ \E p \in Surviving(j) : ApplySomeEdges(row, j, file[p])
  /\ pass' = [pass EXCEPT !.cut = @ \ {j}, !.races = @ + 1]
  /\ UNCHANGED <<file, book, stamp, op>>

RederiveEnds ==
  /\ pass.pc = "rederive" /\ pass.cut = {}
  /\ pass' = [pass EXCEPT !.pc = "end"]
  /\ UNCHANGED <<file, row, edge, book, stamp, op>>

EndPass ==
  /\ pass.pc = "end"
  /\ pass' = NoPass
  /\ UNCHANGED <<file, row, edge, book, stamp, op>>

Walk == \E p \in Walked : WalkRead(p) \/ WalkMiss(p) \/ WalkFails(p)
Pass ==
  \/ \E full \in BOOLEAN : BeginPass(full)
  \/ Walk
  \/ \E place \in {"flat", "sub"} : WalkUnreadable(place)
  \/ WalkApply \/ WalkApplyFails \/ WalkEnds
  \/ \E p \in Walked : Sweep(p) \/ SweepFails(p)
  \/ SweepEnds
  \/ \E j \in Id : Rederive(j) \/ RederiveFails(j)
  \/ RederiveEnds \/ EndPass

Handle(h) ==
  \/ \E i \in Id, do \in {"ingest", "edit"} : WriteFile(h, i, do)
  \/ \E i \in Id : ArchiveAction(h, i) \/ RestoreAction(h, i)
  \/ \E i \in Id : DestroyPage(h, i) \/ DestroyFile(h, i)
  \/ \E i, j \in Id : RenameFile(h, i, j) \/ RenameDies(h, i, j)
  \/ IngestRow(h) \/ EditRow(h) \/ DestroyRow(h) \/ RenameRow(h)
  \/ \E do \in {"archive", "restore"} : ToggleRow(h, do)
  \/ MirrorFails(h)

Next ==
  \/ \E h \in Handler : Handle(h)
  \/ \E i \in UserContent, place \in {"flat", "sub"} : MoveFile(i, place)
  \/ Crash
  \/ \E p \in Walked : HandDelete(p) \/ \E to \in {{}, Link[p[2]]} : HandWrite(p, to)
  \/ Pass

Spec == Init /\ [][Next]_vars

----------------------------------------------------------------------------
(* Properties                                                               *)

\* The rows and edges are those of the walked files and of nothing else.
Rebuilt ==
  /\ \A p \in Walked : file[p] # None => Matches(p[2], file[p]) /\ Booked(p)
  /\ \A i \in Id : IsFull(i) => \E p \in PathsOf(i) : file[p] # None

Whole(full) ==
  pass.pc = "end" /\ Guarded /\ pass.full = full /\ pass.races = 0 /\ pass.sound

\* A full pass that nothing disturbed leaves the store a function of the
\* vault (WipeDerivedState and one walk), whatever the store held before:
\* rows of the archive, which the walk skips, and half-done restores included.
FullPassRebuilds == Whole(TRUE) => Rebuilt

\* #447: over what Repairable asks, an undisturbed incremental pass leaves
\* every file in the walk indexed, unarchived and with all its edges, those to
\* what vanished included, and no row without a file, the archived ones apart.
\* A row whose restore was cut off half-way is not repaired, see Repairable.
IncrementalPassRepairs ==
  Whole(FALSE) =>
    /\ \A p \in Walked : file[p] # None => Matches(p[2], file[p]) /\ Booked(p)
    /\ \A i \in Id : IsFull(i) /\ ~row[i].archived =>
         \E p \in PathsOf(i) : file[p] # None
=============================================================================
