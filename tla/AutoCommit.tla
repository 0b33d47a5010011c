----------------------------- MODULE AutoCommit -----------------------------
(***************************************************************************)
(* GitCommitter of internal/vault/autocommit.go: every writer of the vault *)
(* calls OnWrite after it changed a file, and the committer records the    *)
(* change in git, either at once (no debounce) or with the other writes of *)
(* a debounce window.  The module keeps the working tree, the index and    *)
(* HEAD; the module that extends it says who writes the working tree.      *)
(*                                                                         *)
(* One git command pair (add, commit) runs under c.mu and touches nothing  *)
(* another goroutine of the daemon reads before it ends, so it is one      *)
(* step.  A pushed commit changes nothing here: tryPush is left out, and   *)
(* so are messages and authors.                                            *)
(***************************************************************************)
EXTENDS Naturals, Sequences, SequencesExt

CONSTANTS
  Path,      \* the paths below the vault root
  Absent,    \* no file
  MaxFaults  \* bound on the failing system calls of a behaviour

VARIABLES
  disk,       \* the working tree
  index,      \* what git has staged
  head,       \* the tree of the last commit
  debounced,  \* vault.auto_commit_debounce_seconds > 0
  pending,    \* the paths of the pending batch
  flushTimer, \* "nil", "running", or "fired" when it was left behind
  closed,
  flushing,   \* the batches that fireFlush or Close drained and must commit
  missed,     \* the paths whose last commit git refused
  faults      \* failing system calls so far

git == <<index, head, missed, faults>>
batch == <<pending, flushTimer, closed, flushing>>
commitVars == <<git, batch, debounced>>

\* Start-up finds the working tree committed.
CommitInit ==
  /\ index = disk /\ head = disk
  /\ debounced \in BOOLEAN
  /\ pending = {} /\ flushTimer = "nil" /\ closed = FALSE /\ flushing = <<>>
  /\ missed = {} /\ faults = 0

\* A path git knows nothing of: "pathspec did not match any files".
Unknown(p) == disk[p] = Absent /\ index[p] = Absent

Staged(paths) == [p \in Path |-> IF p \in paths THEN disk[p] ELSE index[p]]

\* Another git process holds index.lock through both attempts, a hook fails.
GitFault == faults < MaxFaults /\ faults' = faults + 1

(***************************************************************************)
(* git add -A -- paths, then git commit: the add stages all the paths or,  *)
(* when it does not know one of them, none; the commit takes the whole     *)
(* index, also what an earlier failed commit left there.                   *)
(***************************************************************************)
GitCommit(paths) ==
  \/ /\ \A p \in paths : ~Unknown(p)
     /\ index' = Staged(paths) /\ head' = Staged(paths)
     /\ missed' = missed \ paths
     /\ UNCHANGED faults
  \/ /\ \E p \in paths : Unknown(p)
     /\ missed' = missed \cup {p \in paths : ~Unknown(p)}
     /\ UNCHANGED <<index, head, faults>>
  \/ /\ GitFault
     /\ missed' = missed \cup paths
     /\ UNCHANGED head
     /\ \/ UNCHANGED index
        \/ (\A p \in paths : ~Unknown(p)) /\ index' = Staged(paths)

AppendPending(p) ==
  IF closed
  THEN missed' = missed \cup {p} /\ UNCHANGED <<index, head, faults, batch>>
  ELSE /\ pending' = pending \cup {p}
       /\ flushTimer' = IF flushTimer = "nil" THEN "running" ELSE flushTimer
       /\ UNCHANGED <<closed, flushing, git>>

\* The per-operation commit does not look at closed.
OnWrite(p) ==
  /\ IF debounced THEN AppendPending(p) ELSE GitCommit({p}) /\ UNCHANGED batch
  /\ UNCHANGED debounced

Drain == IF pending = {} THEN flushing ELSE Append(flushing, pending)

\* Mutant: the flush leaves its timer behind, and later writes arm none.
FireFlush_KeepsTimer ==
  /\ flushTimer = "running"
  /\ flushTimer' = "fired"
  /\ pending' = {}
  /\ flushing' = Drain
  /\ UNCHANGED <<disk, closed, git, debounced>>

\* The timer fires fireFlush, which takes the pending batch.
FireFlush ==
  /\ flushTimer = "running"
  /\ flushTimer' = "nil"
  /\ pending' = {}
  /\ flushing' = Drain
  /\ UNCHANGED <<disk, closed, git, debounced>>

\* The drained batches queue for c.mu in no fixed order.
CommitBatch ==
  \E i \in DOMAIN flushing :
    /\ GitCommit(flushing[i])
    /\ flushing' = RemoveAt(flushing, i)
    /\ UNCHANGED <<disk, pending, flushTimer, closed, debounced>>

\* Mutant: the timer is not stopped.
Close_KeepsTimer ==
  /\ debounced /\ ~closed
  /\ closed' = TRUE
  /\ pending' = {}
  /\ flushing' = Drain
  /\ UNCHANGED <<disk, flushTimer, git, debounced>>

\* Shutdown; a second Close returns at once.  Without a debounce there is
\* nothing to drain and nothing that reads closed.
Close ==
  /\ debounced /\ ~closed
  /\ closed' = TRUE
  /\ flushTimer' = "nil"
  /\ pending' = {}
  /\ flushing' = Drain
  /\ UNCHANGED <<disk, git, debounced>>

CommitterStep == FireFlush \/ CommitBatch \/ Close

CommitTypeOK(File) ==
  /\ {disk, index, head} \subseteq [Path -> File \cup {Absent}]
  /\ debounced \in BOOLEAN /\ closed \in BOOLEAN
  /\ pending \subseteq Path /\ missed \subseteq Path
  /\ flushTimer \in {"nil", "running", "fired"}
  /\ flushing \in Seq(SUBSET Path)
  /\ faults \in 0 .. MaxFaults
  \* A committer without a timer has nothing to flush, a closed one no timer.
  /\ pending # {} <=> flushTimer = "running"
  /\ closed => flushTimer = "nil"
=============================================================================
