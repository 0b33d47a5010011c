--------------------------- MODULE WorkflowLoader ---------------------------
(***************************************************************************)
(* Workflow files, the loader's registry and the engine that follows it    *)
(* (internal/workflow/loader/loader.go, Engine.Reconcile, the workflow     *)
(* endpoints and the wiring of cmd/yaad-index/main.go).  At boot two       *)
(* loads run side by side: the polling goroutine's first one and the       *)
(* synchronous one before the first Reconcile.                             *)
(*                                                                         *)
(* Paths are numbers, in the order of the directory.  An edit counter      *)
(* stamps the files: it is their mtime, and no two files share one.        *)
(***************************************************************************)
EXTENDS Naturals, FiniteSets, FiniteSetsExt

CONSTANTS Paths,     \* how many file names there are
          Name,      \* workflow names
          Content,   \* what a file may hold
          NameIn,    \* its frontmatter name
          SlotIn,    \* its catch-all slot, None for a regular workflow
          Parses,    \* contents that parse
          Valid,     \* those that pass every registry check
          Compiles,  \* those whose expressions compile
          PathOf,    \* the path at which the endpoints keep a name
          None,
          MaxEdits   \* bound: edits of the directory

Path == 1..Paths
Files == [content : Content, mtime : 1..MaxEdits]
Workflows == [content : Content, path : Path]

ASSUME ContentAssumption ==
  /\ NameIn \in [Content -> Name]
  /\ Compiles \subseteq Valid /\ Valid \subseteq Parses /\ Parses \subseteq Content
  /\ PathOf \in [Name -> Path]
ASSUME NoneAssumption == /\ None \notin Name \cup Content \cup Path
                         /\ None \notin Files /\ None \notin Workflows
ASSUME BoundAssumption == Paths \in Nat /\ MaxEdits \in Nat /\ Paths <= MaxEdits

VARIABLES file,       \* the directory
          edits,      \* edits so far
          workflows,  \* Loader.workflows
          perFile,    \* Loader.perFile
          mtimes,     \* Loader.mtimes, 0 where there is none
          load,       \* the loads under way
          booted,     \* whether the synchronous load has returned
          engine      \* Engine.workflows

vars == <<file, edits, workflows, perFile, mtimes, load, booted, engine>>

Loads == {"run", "boot"}
\* at: the path in hand, with the mtime that was read and what was parsed.
Idle == [pc |-> "idle", seen |-> {}, todo |-> {}, at |-> None, mtime |-> 0, read |-> None]
LoadRecords ==
  [pc : {"idle", "drop", "next", "parse", "commit"}, seen : SUBSET Path,
   todo : SUBSET Path, at : Path \cup {None}, mtime : 0..MaxEdits,
   read : Content \cup {None}]
LoadStates ==
  {s \in LoadRecords : s.at = None <=> s.pc \notin {"parse", "commit"}}

TypeOK ==
  /\ file \in [Path -> Files \cup {None}]
  /\ edits \in 0..MaxEdits
  /\ workflows \in [Name -> Workflows \cup {None}]
  /\ perFile \in [Path -> Name \cup {None}]
  /\ mtimes \in [Path -> 0..MaxEdits]
  /\ load \in [Loads -> LoadStates]
  /\ booted \in BOOLEAN
  /\ engine \in [Name -> Workflows \cup {None}]

Init ==
  /\ \E present \in [Path -> Content \cup {None}] :
       file = [p \in Path |-> IF present[p] = None THEN None
                              ELSE [content |-> present[p], mtime |-> p]]
  /\ edits = Paths
  /\ workflows = [n \in Name |-> None]
  /\ perFile = [p \in Path |-> None]
  /\ mtimes = [p \in Path |-> 0]
  /\ load = [l \in Loads |-> Idle]
  /\ booted = FALSE
  /\ engine = [n \in Name |-> None]

----------------------------------------------------------------------------
(* The directory: the operator's editor and the workflow endpoints.         *)

Edit == /\ edits < MaxEdits
        /\ edits' = edits + 1
        /\ UNCHANGED <<workflows, perFile, mtimes, load, booted, engine>>

Write(p, c) == /\ Edit
               /\ file' = [file EXCEPT ![p] = [content |-> c, mtime |-> edits + 1]]

\* A file renamed by hand keeps its mtime.  It goes to a later name only: one
\* moved away and back while a load runs is never seen again.
Rename(p, q) == /\ Edit /\ p < q /\ file[p] # None
                /\ file' = [file EXCEPT ![q] = file[p], ![p] = None]

\* handleWorkflowDefine refuses what does not parse or has another name, before
\* it writes; plugins, kinds, edge types and collisions are left to the loader.
Define(n, c) == /\ Edit /\ NameIn[c] = n
                /\ file' = [file EXCEPT ![PathOf[n]] =
                              [content |-> c, mtime |-> edits + 1]]

Remove(p) == /\ Edit /\ file[p] # None
             /\ file' = [file EXCEPT ![p] = None]

\* handleWorkflowDelete: no file is fine.
Delete(n) == Remove(PathOf[n])

----------------------------------------------------------------------------
(* Loader.Load.                                                             *)

\* enumerateMarkdownFiles.
Enumerate(l) ==
  LET there == {p \in Path : file[p] # None} IN
  /\ load[l].pc = "idle"
  /\ l = "boot" => ~booted
  /\ load' = [load EXCEPT ![l] = [Idle EXCEPT !.pc = "drop", !.seen = there,
                                              !.todo = there]]
  /\ UNCHANGED <<file, edits, workflows, perFile, mtimes, booted, engine>>

\* Workflow names whose file is not in the listing any more.
DropVanished(l) ==
  LET vanished == {p \in Path \ load[l].seen : perFile[p] # None} IN
  /\ load[l].pc = "drop"
  /\ workflows' = [n \in Name |-> IF \E p \in vanished : perFile[p] = n
                                  THEN None ELSE workflows[n]]
  /\ perFile' = [p \in Path |-> IF p \in vanished THEN None ELSE perFile[p]]
  /\ mtimes' = [p \in Path |-> IF p \in vanished THEN 0 ELSE mtimes[p]]
  /\ load' = [load EXCEPT ![l].pc = "next"]
  /\ UNCHANGED <<file, edits, booted, engine>>

\* maybeReloadFile: stat, and nothing more when the mtime is the known one.
StatFile(l) ==
  /\ load[l].pc = "next" /\ load[l].todo # {}
  /\ LET p == Min(load[l].todo)
         same == file[p] = None \/ mtimes[p] = file[p].mtime IN
     load' = [load EXCEPT ![l].todo = @ \ {p},
                          ![l].pc = IF same THEN "next" ELSE "parse",
                          ![l].at = IF same THEN None ELSE p,
                          ![l].mtime = IF same THEN 0 ELSE file[p].mtime]
  /\ UNCHANGED <<file, edits, workflows, perFile, mtimes, booted, engine>>

\* The file is read later than its mtime.
ParseFile(l) ==
  LET p == load[l].at IN
  /\ load[l].pc = "parse"
  /\ load' = [load EXCEPT ![l].pc = "commit",
                 ![l].read = IF file[p] = None THEN None ELSE file[p].content]
  /\ UNCHANGED <<file, edits, workflows, perFile, mtimes, booted, engine>>

\* Mutant: an early return that leaves the path in hand.
Committed_KeepsPath(l) ==
  /\ load[l].pc = "commit"
  /\ load' = [load EXCEPT ![l].pc = "next"]
  /\ UNCHANGED <<file, edits, booted, engine>>

Committed(l) == /\ load[l].pc = "commit"
                /\ load' = [load EXCEPT ![l].pc = "next", ![l].at = None,
                                        ![l].mtime = 0, ![l].read = None]
                /\ UNCHANGED <<file, edits, booted, engine>>

\* Nothing is read where the file has gone.
Accepted(c) == c \in Valid

\* A file that does not parse, or asks for what is not loaded or configured,
\* loses what it had registered.
Reject(l) ==
  LET p == load[l].at IN
  /\ Committed(l) /\ ~Accepted(load[l].read)
  /\ workflows' = [n \in Name |-> IF n = perFile[p] THEN None ELSE workflows[n]]
  /\ perFile' = [perFile EXCEPT ![p] = None]
  /\ mtimes' = [mtimes EXCEPT ![p] = load[l].mtime]

NameElsewhere(c, p) == \E q \in Path \ {p} : perFile[q] = NameIn[c]

\* Two catch-alls of one trigger type and kind.
SameSlot(c, d) == SlotIn[c] # None /\ SlotIn[c] = SlotIn[d]

\* catchAllConflictsWith: another file's registered workflow has the slot.
SlotElsewhere(c, p) ==
  \E q \in Path \ {p} : /\ perFile[q] # None
                         /\ workflows[perFile[q]] # None
                         /\ SameSlot(c, workflows[perFile[q]].content)

Collides(c, p) == NameElsewhere(c, p) \/ SlotElsewhere(c, p)

\* Mutant: the mtime of a refused file is remembered.
Collide_Remembers(l) ==
  /\ Committed(l) /\ Accepted(load[l].read)
  /\ Collides(load[l].read, load[l].at)
  /\ mtimes' = [mtimes EXCEPT ![load[l].at] = load[l].mtime]
  /\ UNCHANGED <<workflows, perFile>>

\* A later file of the same name or slot is refused and tried again at every
\* poll; what its path had registered stays.
Collide(l) ==
  /\ Committed(l) /\ Accepted(load[l].read)
  /\ Collides(load[l].read, load[l].at)
  /\ UNCHANGED <<workflows, perFile, mtimes>>

\* Mutant: the lookup was made before the lock was taken.
Register_NoRecheck(l) ==
  LET p == load[l].at  c == load[l].read IN
  /\ Committed(l) /\ Accepted(c)
  /\ workflows' = [n \in Name |-> IF n = NameIn[c] THEN [content |-> c, path |-> p]
                                  ELSE IF n = perFile[p] THEN None ELSE workflows[n]]
  /\ perFile' = [perFile EXCEPT ![p] = NameIn[c]]
  /\ mtimes' = [mtimes EXCEPT ![p] = load[l].mtime]

Register(l) ==
  LET p == load[l].at  c == load[l].read IN
  /\ Committed(l) /\ Accepted(c) /\ ~Collides(c, p)
  /\ workflows' = [n \in Name |-> IF n = NameIn[c] THEN [content |-> c, path |-> p]
                                  ELSE IF n = perFile[p] THEN None ELSE workflows[n]]
  /\ perFile' = [perFile EXCEPT ![p] = NameIn[c]]
  /\ mtimes' = [mtimes EXCEPT ![p] = load[l].mtime]

LoadEnds(l) ==
  /\ load[l].pc = "next" /\ load[l].todo = {}
  /\ load' = [load EXCEPT ![l] = Idle]
  /\ booted' = (booted \/ l = "boot")
  /\ UNCHANGED <<file, edits, workflows, perFile, mtimes, engine>>

LoadStep(l) == \/ Enumerate(l) \/ DropVanished(l) \/ StatFile(l) \/ ParseFile(l)
               \/ Reject(l) \/ Collide(l) \/ Register(l) \/ LoadEnds(l)

----------------------------------------------------------------------------
(* Engine.Reconcile.                                                        *)

\* registerLocked: what the loader took may still fail to compile.
Runnable(n) == workflows[n] # None /\ workflows[n].content \in Compiles

\* A registration with the same content hash is left as it is, filename
\* included; one that does not compile stays out.
Reconcile ==
  LET same(n) == /\ workflows[n] # None /\ engine[n] # None
                 /\ workflows[n].content = engine[n].content IN
  /\ booted
  /\ engine' = [n \in Name |->
       IF same(n) THEN engine[n]
       ELSE IF Runnable(n) THEN workflows[n] ELSE None]
  /\ UNCHANGED <<file, edits, workflows, perFile, mtimes, load, booted>>

Next ==
  \/ \E p \in Path, c \in Content : Write(p, c)
  \/ \E p, q \in Path : Rename(p, q)
  \/ \E n \in Name, c \in Parses : Define(n, c)
  \/ \E p \in Path : Remove(p)
  \/ \E n \in Name : Delete(n)
  \/ \E l \in Loads : LoadStep(l)
  \/ Reconcile

\* The tickers of main.go and of Loader.Run keep firing; nothing makes the
\* operator edit.
Fairness == /\ \A l \in Loads : WF_vars(LoadStep(l))
            /\ WF_vars(Reconcile)

Spec == Init /\ [][Next]_vars /\ Fairness

----------------------------------------------------------------------------
(* Properties                                                               *)

\* nameRegisteredElsewhere under the lock: whatever two loads and the editor
\* do, a registered name belongs to one path, and a path has one name.
OneFilePerName ==
  /\ \A p \in Path : perFile[p] # None =>
       workflows[perFile[p]] # None /\ workflows[perFile[p]].path = p
  /\ \A n \in Name : workflows[n] # None => perFile[workflows[n].path] = n

\* #169: no two registered workflows are the catch-all of one slot.
OneCatchAllPerSlot ==
  \A m, n \in Name :
    m # n /\ workflows[m] # None /\ workflows[n] # None =>
      ~SameSlot(workflows[m].content, workflows[n].content)

\* What loader and engine go by, at every moment.
RegistryIsConsistent == OneFilePerName /\ OneCatchAllPerSlot

\* A path shows in the registry what is on disk, or waits for a collision to
\* go away.
UpToDate(p) ==
  IF file[p] = None \/ file[p].content \notin Valid THEN perFile[p] = None
  ELSE \/ /\ perFile[p] = NameIn[file[p].content]
          /\ workflows[perFile[p]].content = file[p].content
       \/ Collides(file[p].content, p)
Follows(n) ==
  IF Runnable(n) THEN engine[n] # None /\ engine[n].content = workflows[n].content
  ELSE engine[n] = None

\* Loader.Run and the Reconcile ticker: once the edits stop, registry and
\* engine come to agree with the directory, whatever raced before.
CatchesUp == <>[]((\A p \in Path : UpToDate(p)) /\ (\A n \in Name : Follows(n)))
=============================================================================
