----------------------------- MODULE TaskFiles -----------------------------
(***************************************************************************)
(* The task files tasks/<id>.md and tasks/_archive/<id>.md, and who writes *)
(* them: FileTaskWriter (task_append, task_resolve, resolution tasks) and  *)
(* FileErrTaskWriter of internal/workflow/actions for the workflows,       *)
(* tasks.Writer of internal/workflow/tasks for POST /v1/tasks/{id}/resolve *)
(* (internal/api/tasks.go, resolve_task.go).  Each of the three has its    *)
(* own mutex around a read-modify-write of the same files, through the     *)
(* same temporary file.  AutoCommit records their writes in git.           *)
(*                                                                         *)
(* A text is the sets of its open and its done lines, one line per append, *)
(* whether it shows missing references, and its resolved_at stamp.         *)
(* The store row of a task is a best-effort mirror that nothing here       *)
(* reads, and is left out; a resolution task is about one edge, whose      *)
(* targets are edges[t], oldest first.                                     *)
(***************************************************************************)
EXTENDS AutoCommit, FiniteSets

CONSTANTS
  Task,
  Option,       \* the candidates of a resolution task
  Before,       \* the paths that may exist at start-up
  MaxCalls,     \* bound on the calls of a behaviour
  MaxInFlight,  \* bound on the calls that run at the same time
  None

ASSUME PathsAssumption == Path = Task \X {"active", "archive"} /\ Before \subseteq Path
ASSUME BoundAssumption == {MaxCalls, MaxInFlight, MaxFaults} \subseteq Nat

VARIABLES
  kind,   \* which writer spawns the task; never changes
  tmp,    \* <path>.tmp of the active files
  mutex,  \* who holds FileTaskWriter.mu, FileErrTaskWriter.mu, Writer.mu
  call,   \* the calls: a workflow's action or a request
  edges   \* the targets of a resolution task's edge

vars == <<disk, commitVars, kind, tmp, mutex, call, edges>>
taskVars == <<kind, tmp, mutex, edges>>

Call == 1 .. MaxCalls
Kind == {"text", "err", "resolution"}
Editing == {"append", "check", "remove", "spawn"}
Write == Editing \cup {"refs"}
Doing == Write \cup {"pick", "stamp"}
Answer == {"none", "ok", "archived", "not_found", "error", "stale", "rolled_back"}
Pc == {"idle", "open", "write", "rename", "tell", "ingest", "edge",
       "archive", "unlink", "tell_active", "tell_archive", "done"}

File == [open : SUBSET Call, done : SUBSET Call, refs : BOOLEAN, resolved : BOOLEAN]

ASSUME AbsenceAssumption == None \notin Call \cup Option /\ Absent \notin File

Active(t) == <<t, "active">>
Archived(t) == <<t, "archive">>
Lines(p) == IF disk[p] = Absent THEN {} ELSE disk[p].open \cup disk[p].done
Running(c) == call[c].pc \notin {"idle", "done"}

Idle == [op |-> "append", doing |-> "append", task |-> None, pc |-> "idle",
         arg |-> None, prior |-> None, body |-> Absent,
         raced |-> FALSE, answer |-> "none"]

Empty == [open |-> {}, done |-> {}, refs |-> FALSE, resolved |-> FALSE]

Init ==
  /\ \E present \in SUBSET Before :
       disk = [p \in Path |-> IF p \notin present THEN Absent
                              ELSE [Empty EXCEPT !.resolved = (p[2] = "archive")]]
  /\ CommitInit
  /\ kind \in [Task -> Kind]
  /\ tmp = [t \in Task |-> Absent]
  /\ mutex = [m \in {"file", "err", "resolve"} |-> None]
  /\ call = [c \in Call |-> Idle]
  /\ edges \in [Task -> {<<>>} \cup {<<o>> : o \in Option}]
  /\ \A t \in Task : kind[t] # "resolution" => edges[t] = <<>>

(***************************************************************************)
(* Locks and the ends of a call.                                           *)
(***************************************************************************)
MutexOf(c) == IF call[c].doing = "stamp" THEN "resolve"
              ELSE IF kind[call[c].task] = "err" THEN "err" ELSE "file"

Unlock(c) == mutex' = [mutex EXCEPT ![MutexOf(c)] = None]

Goto(c, pc) == call' = [call EXCEPT ![c].pc = pc]
\* What nothing asks of a call that ended is forgotten.
Finish(c, answer) ==
  call' = [call EXCEPT ![c].pc = "done", ![c].answer = answer,
                       ![c].body = Absent,
                       ![c].arg = IF call[c].op \in {"remove", "pick"} THEN @ ELSE None]

\* The flag that the handlers answer as auto_archived.
AutoArchived(c) == call[c].op = "pick" \/ (call[c].op = "resolve" /\ call[c].arg)
Resolved(c) == IF AutoArchived(c) THEN "archived" ELSE "ok"

(***************************************************************************)
(* Calls start.  raced is the model's own: a writer of the file that ran   *)
(* while a resolve of its task was between its read and its last commit.   *)
(***************************************************************************)
Resolving(t) == mutex["resolve"] # None /\ call[mutex["resolve"]].task = t

Start(op, t, pc, arg, answer) ==
  /\ Cardinality({c \in Call : Running(c)}) < MaxInFlight
  /\ \E c \in Call :
       /\ call[c].pc = "idle" /\ \A b \in 1 .. c - 1 : call[b].pc # "idle"
       /\ call' = [call EXCEPT ![c] = [Idle EXCEPT
            !.op = op, !.doing = IF op = "resolve" THEN "stamp" ELSE op,
            !.task = t, !.pc = pc, !.arg = arg, !.answer = answer,
            !.raced = op \in Editing /\ Resolving(t)]]
  /\ UNCHANGED <<disk, commitVars, taskVars>>

\* A workflow appends a line and reports its missing references, a failure is
\* noted in the err task, a resolver plugin's answer was ambiguous.
StartAppend == \E t \in Task, refs \in BOOLEAN :
  kind[t] = "text" /\ Start("append", t, "open", refs, "none")
StartFailure == \E t \in Task :
  kind[t] = "err" /\ Start("append", t, "open", FALSE, "none")
StartSpawn == \E t \in Task :
  kind[t] = "resolution" /\ Start("spawn", t, "open", None, "none")

\* task_resolve of a workflow checks or removes the line that matches.
StartTaskResolve == \E t \in Task, mode \in {"check", "remove"}, line \in Call :
  kind[t] = "text" /\ call[line].op = "append" /\ Start(mode, t, "open", line, "none")

\* handleTaskResolve: it loads the file first, to know whether the workflow
\* said auto_archive_on_done: false; err and resolution tasks cannot.
StartResolve == \E t \in Task, auto \in BOOLEAN :
  /\ kind[t] # "text" => auto
  /\ IF disk[Active(t)] = Absent
     THEN Start("resolve", t, "done", None, "not_found")
     ELSE Start("resolve", t, "open", auto, "none")

\* handleResolutionTaskResolve, with one of the recorded options.
StartPick == \E t \in Task, o \in Option :
  /\ kind[t] = "resolution"
  /\ IF disk[Active(t)] = Absent
     THEN Start("pick", t, "done", o, "not_found")
     ELSE Start("pick", t, "ingest", o, "none")

(***************************************************************************)
(* The pick's edge.  Its ingest of the chosen candidate takes up to a      *)
(* minute, and may fail or disambiguate again; the probe follows it.       *)
(***************************************************************************)
Ingest(c) ==
  /\ call[c].pc = "ingest"
  /\ LET targets == edges[call[c].task] IN
     \/ Finish(c, "error")
     \/ call' = [call EXCEPT ![c].pc = "edge",
                             ![c].prior = IF targets = <<>> THEN None ELSE Head(targets)]
  /\ UNCHANGED <<disk, commitVars, taskVars>>

\* store.UpdateEdgeTarget: the probed edge must be there still, and the new
\* one must not; the row keeps its place in the order of creation.
Retarget(targets, old, new) ==
  [i \in DOMAIN targets |-> IF targets[i] = old THEN new ELSE targets[i]]
IsStale(targets, old, new) == old \notin ToSet(targets) \/ new \in ToSet(targets)

LandEdge(c, targets) ==
  /\ edges' = [edges EXCEPT ![call[c].task] = targets]
  /\ call' = [call EXCEPT ![c].pc = "open", ![c].doing = "stamp"]

WriteEdge(c) ==
  /\ call[c].pc = "edge"
  /\ LET targets == edges[call[c].task]  prior == call[c].prior  new == call[c].arg IN
     \/ prior = None /\ LandEdge(c, IF new \in ToSet(targets) THEN targets
                                    ELSE Append(targets, new))
     \/ prior = new /\ LandEdge(c, targets)
     \/ /\ prior \notin {None, new}
        /\ IF IsStale(targets, prior, new) THEN Finish(c, "stale") /\ UNCHANGED edges
           ELSE LandEdge(c, Retarget(targets, prior, new))
     \* One of the two entities has no row.
     \/ prior # new /\ Finish(c, "error") /\ UNCHANGED edges
  /\ UNCHANGED <<disk, commitVars, kind, tmp, mutex>>

(***************************************************************************)
(* The read half, under the writer's mutex.                                *)
(***************************************************************************)
\* A line goes into an existing text or a fresh one; of a resolution task only
\* a fresh text is written.
Appended(c, f) == [IF f = Absent THEN Empty ELSE f EXCEPT !.open = @ \cup {c}]
Spawned(f) == IF f = Absent THEN Empty ELSE f

\* rewriteMissingRefsSection, and the line that task_resolve matched.
Referenced(refs, f) == [f EXCEPT !.refs = refs]
Checked(line, f) == [f EXCEPT !.open = @ \ {line}, !.done = @ \cup ({line} \cap f.open)]
Removed(line, f) == [f EXCEPT !.open = @ \ {line}, !.done = @ \ {line}]

\* The first stamp stays.
Stamped(f) == [f EXCEPT !.resolved = TRUE]

EditedText(c, f) ==
  CASE call[c].doing = "refs" -> Referenced(call[c].arg, f)
    [] call[c].doing = "check" -> Checked(call[c].arg, f)
    [] call[c].doing = "remove" -> Removed(call[c].arg, f)
    [] call[c].doing = "stamp" -> Stamped(f)

Edited(c, f) ==
  CASE call[c].doing = "append" -> Appended(c, f)
    [] call[c].doing = "spawn" -> Spawned(f)
    [] OTHER -> IF f = Absent THEN f ELSE EditedText(c, f)

\* Mutant: the mutex excludes nobody.
Lock_Free(c) == mutex' = [mutex EXCEPT ![MutexOf(c)] = c]

Lock(c) ==
  /\ mutex[MutexOf(c)] = None
  /\ mutex' = [mutex EXCEPT ![MutexOf(c)] = c]

OpenToWrite(c) ==
  /\ call[c].pc = "open" /\ call[c].doing \in Write
  /\ LET f == disk[Active(call[c].task)]  body == Edited(c, f) IN
     IF body = f
     THEN mutex[MutexOf(c)] = None /\ Finish(c, "ok") /\ UNCHANGED mutex
     ELSE /\ Lock(c)
          /\ call' = [call EXCEPT ![c].pc = "write", ![c].body = body]
  /\ UNCHANGED <<disk, commitVars, kind, tmp, edges>>

\* Writer.Resolve looks for the archived file before the active one.
AlreadyArchived(t) == disk[Archived(t)] # Absent

OpenToResolve(c) ==
  /\ call[c].pc = "open" /\ call[c].doing = "stamp"
  /\ LET t == call[c].task
         f == disk[Active(t)]
         body == Edited(c, f)
         next == IF body # f THEN "write" ELSE IF AutoArchived(c) THEN "archive" ELSE "done" IN
     \/ /\ AlreadyArchived(t) /\ mutex["resolve"] = None
        /\ Finish(c, Resolved(c)) /\ UNCHANGED mutex
     \/ /\ ~AlreadyArchived(t) /\ f = Absent /\ mutex["resolve"] = None
        /\ Finish(c, "not_found") /\ UNCHANGED mutex
     \/ /\ ~AlreadyArchived(t) /\ f # Absent /\ next = "done" /\ mutex["resolve"] = None
        /\ Finish(c, "ok") /\ UNCHANGED mutex
     \/ /\ ~AlreadyArchived(t) /\ f # Absent /\ next # "done" /\ Lock(c)
        /\ call' = [d \in Call |->
             IF d = c THEN [call[c] EXCEPT !.pc = next, !.body = body]
             ELSE [call[d] EXCEPT !.raced = @ \/ (call[d].op \in Editing /\ Running(d)
                                                 /\ call[d].task = t)]]
  /\ UNCHANGED <<disk, commitVars, kind, tmp, edges>>

(***************************************************************************)
(* The write half: a temporary file, the rename, the committer.            *)
(***************************************************************************)
WriteTemp(c) ==
  /\ call[c].pc = "write"
  /\ tmp' = [tmp EXCEPT ![call[c].task] = call[c].body]
  /\ call' = [call EXCEPT ![c].pc = "rename", ![c].body = Absent]
  /\ UNCHANGED <<disk, commitVars, kind, mutex, edges>>

\* The file renamed is whatever the last writer left under the shared name,
\* and a writer that comes second finds none.
RenameTemp(c) ==
  /\ call[c].pc = "rename"
  /\ LET t == call[c].task IN
     IF tmp[t] = Absent
     THEN Finish(c, "error") /\ Unlock(c) /\ UNCHANGED <<disk, tmp>>
     ELSE /\ disk' = [disk EXCEPT ![Active(t)] = tmp[t]]
          /\ tmp' = [tmp EXCEPT ![t] = Absent]
          /\ Goto(c, "tell")
          /\ UNCHANGED mutex
  /\ UNCHANGED <<commitVars, kind, edges>>

\* notifyCommit.  task_append goes on to the missing references with a second
\* read-modify-write.
Tell(c) ==
  /\ call[c].pc = "tell"
  /\ LET t == call[c].task IN
     /\ OnWrite(Active(t))
     /\ IF call[c].doing = "append" /\ kind[t] = "text"
        THEN /\ Unlock(c)
             /\ call' = [call EXCEPT ![c].pc = "open", ![c].doing = "refs"]
        ELSE IF AutoArchived(c) THEN Goto(c, "archive") /\ UNCHANGED mutex
        ELSE Finish(c, "ok") /\ Unlock(c)
  /\ UNCHANGED <<disk, kind, tmp, edges>>

(***************************************************************************)
(* Writer.Resolve moves the file to the archive.                           *)
(***************************************************************************)
\* Mutant: the rename falls back to a copy and nobody looks, as before #368.
Archive_Copies(c) ==
  /\ call[c].pc = "archive"
  /\ LET t == call[c].task IN disk' = [disk EXCEPT ![Archived(t)] = disk[Active(t)]]
  /\ Goto(c, "tell_active")
  /\ UNCHANGED <<commitVars, taskVars>>

\* MkdirAll or Rename may fail: the stamped file stays where it is.
Archive(c) ==
  /\ call[c].pc = "archive"
  /\ LET t == call[c].task IN
     \/ /\ disk' = [disk EXCEPT ![Archived(t)] = disk[Active(t)], ![Active(t)] = Absent]
        /\ Goto(c, "unlink")
        /\ UNCHANGED <<mutex, faults>>
     \/ /\ GitFault
        /\ Finish(c, "error") /\ Unlock(c)
        /\ UNCHANGED disk
  /\ UNCHANGED <<index, head, missed, batch, debounced, kind, tmp, edges>>

\* The defensive unlink: an active file somebody wrote since goes too, or,
\* when it cannot go, the archived copy does.
Unlink(c) ==
  /\ call[c].pc = "unlink"
  /\ LET t == call[c].task IN
     \/ /\ disk' = [disk EXCEPT ![Active(t)] = Absent]
        /\ Goto(c, "tell_active")
        /\ UNCHANGED <<mutex, faults>>
     \/ /\ disk[Active(t)] # Absent /\ GitFault
        /\ disk' = [disk EXCEPT ![Archived(t)] = Absent]
        /\ Finish(c, "rolled_back") /\ Unlock(c)
  /\ UNCHANGED <<index, head, missed, batch, debounced, kind, tmp, edges>>

TellActive(c) ==
  /\ call[c].pc = "tell_active"
  /\ OnWrite(Active(call[c].task))
  /\ Goto(c, "tell_archive")
  /\ UNCHANGED <<disk, taskVars>>

TellArchive(c) ==
  /\ call[c].pc = "tell_archive"
  /\ OnWrite(Archived(call[c].task))
  /\ Finish(c, "archived") /\ Unlock(c)
  /\ UNCHANGED <<disk, kind, tmp, edges>>

CallStep(c) ==
  \/ Ingest(c) \/ WriteEdge(c) \/ OpenToWrite(c) \/ OpenToResolve(c)
  \/ WriteTemp(c) \/ RenameTemp(c) \/ Tell(c)
  \/ Archive(c) \/ Unlink(c) \/ TellActive(c) \/ TellArchive(c)

Next ==
  \/ StartAppend \/ StartFailure \/ StartSpawn \/ StartTaskResolve \/ StartResolve \/ StartPick
  \/ \E c \in Call : CallStep(c)
  \/ CommitterStep /\ UNCHANGED <<taskVars, call>>

Spec == Init /\ [][Next]_vars
-----------------------------------------------------------------------------
(* Properties *)

\* The types of the state, and who holds a mutex holds it in a critical section.
TypeOK ==
  /\ CommitTypeOK(File)
  /\ kind \in [Task -> Kind]
  /\ tmp \in [Task -> File \cup {Absent}]
  /\ mutex \in [{"file", "err", "resolve"} -> Call \cup {None}]
  /\ \A c \in Call :
       /\ DOMAIN call[c] = DOMAIN Idle
       /\ call[c].pc \in Pc /\ call[c].answer \in Answer /\ call[c].doing \in Doing
       /\ call[c].pc = "done" <=> call[c].answer # "none"
  /\ \A m \in DOMAIN mutex : mutex[m] # None =>
       call[mutex[m]].pc \in {"write", "rename", "tell", "archive", "unlink",
                              "tell_active", "tell_archive"}
  /\ \A t \in Task : edges[t] \in Seq(Option) /\ IsInjective(edges[t])

\* A line that AppendTaskSection or AppendErrTask answered is in the active
\* or the archived file, whatever was appended, checked, spawned or resolved
\* before and since; only a task_resolve that removes it takes it away.  The
\* exceptions are what the separate mutexes and the rollback of Resolve really
\* lose: an append that overlapped a resolve of its task.
AppendsStand == \A c \in Call :
  LET t == call[c].task IN
  (call[c].op = "append" /\ call[c].answer = "ok" /\ ~call[c].raced) =>
    \/ c \in Lines(Active(t)) \cup Lines(Archived(t))
    \/ \E d \in Call : call[d].op = "remove" /\ call[d].arg = c
    \/ \E d \in Call : call[d].task = t /\ call[d].answer = "rolled_back"

\* A pick that handleResolutionTaskResolve answered landed the edge to its
\* option, and the edge is there unless a later pick redirected that edge; of
\* two picks that saw the same prior edge one is told edge_stale.
PicksStand == \A c \in Call :
  (call[c].op = "pick" /\ call[c].answer = "archived") =>
    \/ call[c].arg \in ToSet(edges[call[c].task])
    \/ \E d \in Call : /\ call[d].op = "pick" /\ call[d].doing = "stamp"
                       /\ call[d].task = call[c].task
                       /\ call[d].prior = call[c].arg /\ call[d].arg # call[c].arg

\* The task was edited while a resolve of it was under way: what separate
\* mutexes lose.
Raced(t) == \E d \in Call : call[d].task = t /\ call[d].raced

Resolves(c) == call[c].op \in {"resolve", "pick"}
IsResolved(p) == disk[p] # Absent /\ disk[p].resolved

\* A resolve or pick that was answered has stamped the task, in whichever place
\* it is; one that was answered archived has an archived file for ever.
ResolvesStand == \A c \in Call :
  LET t == call[c].task IN
  Resolves(c) =>
    /\ call[c].answer = "archived" => disk[Archived(t)] # Absent
    /\ call[c].answer \in {"ok", "archived"} =>
         IsResolved(Active(t)) \/ IsResolved(Archived(t)) \/ Raced(t)

\* Who moves the task, or has moved it.
Moves(t) == \E d \in Call :
  /\ call[d].task = t
  /\ call[d].pc \in {"unlink", "tell_active", "tell_archive"} \/ call[d].answer = "archived"

\* A task that was answered as appended to or spawned is an active file, until
\* a resolve or a pick moves it.
SpawnsStand == \A c \in Call :
  (call[c].op \in {"append", "spawn"} /\ call[c].answer = "ok") =>
    disk[Active(call[c].task)] # Absent \/ Moves(call[c].task)

\* What a workflow or the operator was told is true of the files and the edge,
\* over appends, spawns, resolves and picks of the three writers.
AnswersStand == AppendsStand /\ SpawnsStand /\ ResolvesStand /\ PicksStand

\* Writer.Resolve's move is all or nothing (#368): when a resolve or a pick is
\* answered archived, the file is in the archive and no active one is left
\* beside it, unless an edit overlapped the resolve or the archive had the task
\* before: writer.go:107 then answers without a look at the active file, though
\* writer.go:144 wants no such answer while both exist.  Left in place by a move that
\* failed, it is moved by the resolve that comes next.
ArchivedIsMoved ==
  [][\A c \in Call :
       LET t == call[c].task IN
       call[c].answer # "archived" /\ call'[c].answer = "archived" =>
         /\ disk'[Archived(t)] # Absent
         /\ \/ disk'[Active(t)] = Absent
            \/ Raced(t)
            \/ call[c].pc = "open" /\ AlreadyArchived(t)
    ]_vars

\* When no call runs, no timer is armed and no batch waits, HEAD is the
\* working tree: no write of a window slips between appendPending, fireFlush
\* and Close.  Excused are the paths whose commit git refused: a failing
\* command, a write after Close, and a batch that names a file which came and
\* went within its window, since git add then stages nothing of the batch.
QuietIsCommitted ==
  ((\A c \in Call : ~Running(c)) /\ flushTimer # "running" /\ flushing = <<>>)
    => \A p \in Path : head[p] = disk[p] \/ p \in missed
=============================================================================
