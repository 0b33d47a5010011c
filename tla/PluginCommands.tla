--------------------------- MODULE PluginCommands ---------------------------
(***************************************************************************)
(* A command request, `gmail: !fetch`, from the handler to the mailbox.    *)
(* internal/api/ingest_command_fanout.go walks the plugin's instances and  *)
(* waits for one record each; internal/plugins/subprocess runs the plugin  *)
(* and looks at its output when the process is over; internal/gmail polls  *)
(* the instance's mailbox and labels every message it has written out.     *)
(*                                                                         *)
(* A record and its runner are named <<request, instance>>.  The label is  *)
(* the only memory of a poll: labelled mail is never fetched again.        *)
(* persistEnvelope is one write under the mail's lock; IngestTracker has   *)
(* its steps.  Mail does not arrive during a behaviour.                    *)
(***************************************************************************)
EXTENDS Naturals, SequencesExt

CONSTANTS Request, Mail, None,
          Configured,  \* the plugin's instances in the operator's order
          Enabled,     \* those not switched off
          EnvFails,    \* those whose environment does not resolve
          Box,         \* instance -> folders, each a sequence of mail
          Malformed,   \* mail that ParseMessage refuses
          Bare,        \* the request that names no instance
          MaxTroubles  \* bound: failures, timeouts, callers that leave and stops of the daemon

Instance == Range(Configured)
Form == {Bare} \cup Instance
Record == Request \X Instance

\* validateInstances: instance names are unique within a plugin.
ASSUME ConfiguredAssumption ==
  Configured \in Seq(Instance) /\ IsInjective(Configured)
ASSUME EnabledAssumption == Enabled \subseteq Instance /\ EnvFails \subseteq Instance
ASSUME BoxAssumption == Box \in [Instance -> Seq(Seq(Mail))]
ASSUME MalformedAssumption == Malformed \subseteq Mail
ASSUME BareAssumption == Bare \notin Instance
ASSUME NoneAssumption == None \notin Record \cup Instance
ASSUME TroublesAssumption == MaxTroubles \in Nat

VARIABLES request,         \* the handlers
          byInvocationKey, \* ingestTracker.byInvocationKey
          record,          \* ingestRecord.state
          run,             \* the runner goroutines and their subprocesses
          labelled,        \* the mail that carries ingestedLabel
          vault,           \* the mail files and the instance they name
          lost,            \* history: labelled mail dropped unwritten
          troubles

store == <<labelled, vault, lost>>
vars == <<request, byInvocationKey, record, run, store, troubles>>

Terminal == {"complete", "not_found", "failed"}
\* What is reported of an instance before its record settles.
Unwaited == {"queued", "cancelled"}

\* todo: the instances still to walk, by their places in the configuration; on:
\* the record waited for.
NewRequest == [pc |-> "new", form |-> Bare, todo |-> {}, on |-> None,
               results |-> <<>>]

\* env: the instance whose environment the process got; folder, uids: where
\* the poll is, a UID being the mail's place in its folder; out: stdout; died: cmd.Run's error; partial: something was
\* passed over.
NoRun == [pc |-> "none", env |-> None, folder |-> 0, uids |-> {},
          out |-> <<>>, died |-> FALSE, partial |-> FALSE]

Polling == {"search", "emit", "mark"}

Init ==
  /\ request = [q \in Request |-> NewRequest]
  /\ byInvocationKey = [k \in Form \X Instance |-> None]
  /\ record = [r \in Record |-> "none"]
  /\ run = [r \in Record |-> NoRun]
  /\ labelled = {} /\ vault = {} /\ lost = {}
  /\ troubles = 0

Trouble == troubles < MaxTroubles /\ troubles' = troubles + 1

----------------------------------------------------------------------------
(* The handler. *)

Is(q, pc) == request[q].pc = pc

\* enabledInstances.
Targets(form) ==
  {n \in DOMAIN Configured : /\ Configured[n] \in Enabled
                             /\ form \in {Bare, Configured[n]}}

\* An instance that is switched off, or none that is not: the request is
\* refused before anything runs.
Ask(q, form) ==
  /\ Is(q, "new")
  /\ request' = [request EXCEPT ![q] =
       [NewRequest EXCEPT !.form = form, !.todo = Targets(form),
          !.pc = IF Targets(form) = {} THEN "refused" ELSE "walk"]]
  /\ UNCHANGED <<byInvocationKey, record, run, store, troubles>>

\* In the order of the configuration.
Walking(q) == Is(q, "walk") /\ request[q].todo # {}
Place(q) == Min(request[q].todo)
Target(q) == Configured[Place(q)]

\* One instance's result is in, whatever it is: on to the next.
Result(q, state) == [place |-> Place(q), state |-> state, on |-> request[q].on]

Report(q, state) ==
  [request EXCEPT ![q].pc = "walk", ![q].on = None,
                  ![q].todo = @ \ {Place(q)},
                  ![q].results = Append(@, Result(q, state))]

\* buildInstanceEnv refers to a variable the daemon does not have.
EnvFailure(q) ==
  /\ Walking(q) /\ Target(q) \in EnvFails
  /\ request' = Report(q, "failed")
  /\ UNCHANGED <<byInvocationKey, record, run, store, troubles>>

\* Mutated: the key names the plugin and the input only.
Key_NoInstance(q) == <<request[q].form, Configured[1]>>

Key(q) == <<request[q].form, Target(q)>>

\* beginAttempt joins the pending record of the key or begins one.
Begin(q) ==
  /\ Walking(q) /\ Target(q) \notin EnvFails
  /\ LET mine == <<q, Target(q)>>
         found == byInvocationKey[Key(q)]
     IN \/ /\ found # None
           /\ request' = [request EXCEPT ![q].pc = "wait", ![q].on = found]
           /\ UNCHANGED <<byInvocationKey, record, run>>
        \/ /\ found = None
           /\ request' = [request EXCEPT ![q].pc = "wait", ![q].on = mine]
           /\ byInvocationKey' = [byInvocationKey EXCEPT ![Key(q)] = mine]
           /\ record' = [record EXCEPT ![mine] = "pending"]
           /\ run' = [run EXCEPT ![mine] =
                        [NoRun EXCEPT !.pc = "search", !.env = Target(q),
                                      !.folder = 1]]
  /\ UNCHANGED <<store, troubles>>

\* Mutated: the record's state as it is.
Reported_Raw(state) == state

\* Neither answer has a branch for not_found: it is an unknown state there.
Reported(state) == IF state = "complete" THEN "complete" ELSE "failed"

Answer(q) ==
  /\ Is(q, "wait") /\ record[request[q].on] # "pending"
  /\ request' = Report(q, Reported(record[request[q].on]))
  /\ UNCHANGED <<byInvocationKey, record, run, store, troubles>>

\* wait_seconds are over, or were 0.
Timeout(q) ==
  /\ Is(q, "wait") /\ record[request[q].on] = "pending"
  /\ Trouble
  /\ request' = Report(q, "queued")
  /\ UNCHANGED <<byInvocationKey, record, run, store>>

\* The caller is gone: the code's "failed", which nobody reads, has a name of
\* its own here.  The walk goes on, and its later waits end at once as well.
Abandon(q) ==
  LET told == {request[q].results[n].state : n \in DOMAIN request[q].results}
  IN /\ Is(q, "wait") /\ record[request[q].on] = "pending"
     /\ IF "cancelled" \in told THEN UNCHANGED troubles ELSE Trouble
     /\ request' = Report(q, "cancelled")
     /\ UNCHANGED <<byInvocationKey, record, run, store>>

Respond(q) ==
  /\ Is(q, "walk") /\ request[q].todo = {}
  /\ request' = [request EXCEPT ![q].pc = "answered"]
  /\ UNCHANGED <<byInvocationKey, record, run, store, troubles>>

----------------------------------------------------------------------------
(* The plugin's process: Poller.Tick. *)

At(r, pc) == run[r].pc = pc
Folders(r) == Box[run[r].env]
Folder(r) == Folders(r)[run[r].folder]
Uid(r) == Min(run[r].uids)
Message(r) == Folder(r)[Uid(r)]

PollStep(r, new) ==
  /\ run' = [run EXCEPT ![r] = new]
  /\ UNCHANGED <<request, byInvocationKey, record, vault, lost>>

\* SelectFolder, SearchUningested and FetchMessages: the folder's unlabelled
\* mail.
Search(r) ==
  /\ At(r, "search") /\ run[r].folder <= Len(Folders(r))
  /\ PollStep(r, [run[r] EXCEPT !.pc = "emit",
       !.uids = {n \in DOMAIN Folder(r) : Folder(r)[n] \notin labelled}])
  /\ UNCHANGED <<labelled, troubles>>

SearchFails(r) ==
  /\ At(r, "search") /\ run[r].folder <= Len(Folders(r))
  /\ Trouble
  /\ PollStep(r, [run[r] EXCEPT !.folder = @ + 1, !.partial = TRUE])
  /\ UNCHANGED labelled

FolderDone(r) ==
  /\ At(r, "emit") /\ run[r].uids = {}
  /\ PollStep(r, [run[r] EXCEPT !.pc = "search", !.folder = @ + 1])
  /\ UNCHANGED <<labelled, troubles>>

Exit(r) ==
  /\ At(r, "search") /\ run[r].folder > Len(Folders(r))
  /\ PollStep(r, [run[r] EXCEPT !.pc = "dispatch"])
  /\ UNCHANGED <<labelled, troubles>>

\* A bad message is passed over and keeps its place for the next poll.
ParseFails(r) ==
  /\ At(r, "emit") /\ run[r].uids # {} /\ Message(r) \in Malformed
  /\ PollStep(r, [run[r] EXCEPT !.uids = @ \ {Uid(r)}])
  /\ UNCHANGED <<labelled, troubles>>

\* So is one whose body could not be read.
ReadFails(r) ==
  /\ At(r, "emit") /\ run[r].uids # {}
  /\ Trouble
  /\ PollStep(r, [run[r] EXCEPT !.uids = @ \ {Uid(r)}, !.partial = TRUE])
  /\ UNCHANGED labelled

Emit(r) ==
  /\ At(r, "emit") /\ run[r].uids # {} /\ Message(r) \notin Malformed
  /\ PollStep(r, [run[r] EXCEPT !.pc = "mark", !.out = Append(@, Message(r))])
  /\ UNCHANGED <<labelled, troubles>>

Marked(r) == [run[r] EXCEPT !.pc = "emit", !.uids = @ \ {Uid(r)}]

MarkIngested(r) ==
  /\ At(r, "mark")
  /\ labelled' = labelled \cup {Message(r)}
  /\ PollStep(r, Marked(r))
  /\ UNCHANGED troubles

MarkFails(r) ==
  /\ At(r, "mark")
  /\ Trouble
  /\ PollStep(r, Marked(r))
  /\ UNCHANGED labelled

\* Mutated: Stream returns the error and leaves the output.
Killed_DropsOutput(r) ==
  /\ run[r].pc \in Polling
  /\ Trouble
  /\ PollStep(r, [run[r] EXCEPT !.pc = "dispatch", !.died = TRUE,
                                !.partial = TRUE, !.out = <<>>])
  /\ UNCHANGED labelled

\* The process fails, or FetchTimeout ends it: what it had written is kept.
Killed(r) ==
  /\ run[r].pc \in Polling
  /\ Trouble
  /\ PollStep(r, [run[r] EXCEPT !.pc = "dispatch", !.died = TRUE,
                                !.partial = TRUE])
  /\ UNCHANGED labelled

----------------------------------------------------------------------------
(* The runner: Stream hands the output to the tracker, line by line. *)

\* The first envelope, or its absence, settles the record.
Settled(r, state) ==
  IF record[r] = "pending"
    THEN /\ record' = [record EXCEPT ![r] = state]
         /\ byInvocationKey' = [k \in Form \X Instance |->
              IF byInvocationKey[k] = r THEN None ELSE byInvocationKey[k]]
    ELSE UNCHANGED <<record, byInvocationKey>>

Locked(m) == \E r \in Record : At(r, "persist") /\ Head(run[r].out) = m

PersistBegins(r) ==
  /\ At(r, "dispatch") /\ run[r].out # <<>> /\ ~Locked(Head(run[r].out))
  /\ run' = [run EXCEPT ![r].pc = "persist"]
  /\ UNCHANGED <<request, byInvocationKey, record, store, troubles>>

Persist(r) ==
  /\ At(r, "persist")
  /\ vault' = vault \cup {<<Head(run[r].out), r[2]>>}
  /\ run' = [run EXCEPT ![r].pc = "dispatch", ![r].out = Tail(@)]
  /\ Settled(r, "complete")
  /\ UNCHANGED <<request, labelled, lost, troubles>>

InVault == {file[1] : file \in vault}

\* The error of one envelope ends the stream.
Abort(r) ==
  /\ lost' = lost \cup ((Range(run[r].out) \cap labelled) \ InVault)
  /\ run' = [run EXCEPT ![r] =
               [@ EXCEPT !.pc = "done", !.out = <<>>, !.partial = TRUE]]
  /\ Settled(r, "failed")
  /\ UNCHANGED <<request, labelled, vault>>

Conflict(r) ==
  /\ At(r, "dispatch") /\ run[r].out # <<>> /\ Locked(Head(run[r].out))
  /\ Abort(r) /\ UNCHANGED troubles

PersistFails(r) == At(r, "persist") /\ Trouble /\ Abort(r)

\* Mutated: a stream without an envelope leaves the record alone.
StreamEnds_Silent(r) ==
  /\ At(r, "dispatch") /\ run[r].out = <<>>
  /\ run' = [run EXCEPT ![r].pc = "done"]
  /\ UNCHANGED <<request, byInvocationKey, record, store, troubles>>

StreamEnds(r) ==
  /\ At(r, "dispatch") /\ run[r].out = <<>>
  /\ run' = [run EXCEPT ![r].pc = "done"]
  /\ Settled(r, IF run[r].died THEN "failed" ELSE "not_found")
  /\ UNCHANGED <<request, store, troubles>>

----------------------------------------------------------------------------
Live(q) == request[q].pc \in {"walk", "wait"}
Running(r) == run[r].pc \notin {"none", "done"}

Waiting == UNION {Range(run[r].out) : r \in Record}

\* The daemon stops and takes its processes along; a label that is being
\* written may still arrive.
Crash ==
  /\ Trouble
  /\ \E r \in Record : Running(r)
  /\ \E late \in SUBSET {Message(r) : r \in {r \in Record : At(r, "mark")}} :
       labelled' = labelled \cup late
  /\ lost' = lost \cup ((Waiting \cap labelled') \ InVault)
  /\ request' = [q \in Request |->
       IF Live(q) THEN [request[q] EXCEPT !.pc = "gone"] ELSE request[q]]
  /\ record' = [r \in Record |-> IF record[r] = "pending" THEN "none" ELSE record[r]]
  /\ byInvocationKey' = [k \in Form \X Instance |-> None]
  /\ run' = [r \in Record |->
       IF Running(r) THEN [NoRun EXCEPT !.pc = "done", !.env = run[r].env,
                                        !.partial = TRUE]
       ELSE run[r]]
  /\ UNCHANGED vault

HandlerStep(q) == EnvFailure(q) \/ Begin(q) \/ Answer(q) \/ Respond(q)

ProcessStep(r) ==
  \/ Search(r) \/ FolderDone(r) \/ Exit(r) \/ ParseFails(r) \/ Emit(r)
  \/ MarkIngested(r)

StreamStep(r) ==
  PersistBegins(r) \/ Persist(r) \/ Conflict(r) \/ StreamEnds(r)

Next ==
  \/ \E q \in Request : HandlerStep(q) \/ Timeout(q) \/ Abandon(q) \/ \E f \in Form : Ask(q, f)
  \/ \E r \in Record :
       \/ ProcessStep(r) \/ StreamStep(r)
       \/ SearchFails(r) \/ ReadFails(r) \/ MarkFails(r) \/ Killed(r)
       \/ PersistFails(r)
  \/ Crash

Spec == Init /\ [][Next]_vars

\* A handler is a goroutine, a process is ended by FetchTimeout at the latest,
\* and the runner goroutine waits for no lock.
\* Nothing that is a trouble is counted on.
FairSpec ==
  /\ Spec
  /\ \A q \in Request : WF_vars(HandlerStep(q))
  /\ \A r \in Record : WF_vars(ProcessStep(r)) /\ WF_vars(StreamStep(r))

----------------------------------------------------------------------------
\* Every variable has its type.
Results ==
  [place : DOMAIN Configured, state : {"complete", "failed"} \cup Unwaited,
   on : Record \cup {None}]
Requests ==
  [pc : {"new", "walk", "wait", "answered", "refused", "gone"}, form : Form,
   todo : SUBSET (DOMAIN Configured), on : Record \cup {None},
   results : Seq(Results)]
Runs ==
  [pc : Polling \cup {"none", "dispatch", "persist", "done"},
   env : Instance \cup {None}, folder : Nat, uids : SUBSET Nat, out : Seq(Mail),
   died : BOOLEAN, partial : BOOLEAN]

TypeOK ==
  /\ request \in [Request -> Requests]
  /\ byInvocationKey \in [Form \X Instance -> Record \cup {None}]
  /\ record \in [Record -> Terminal \cup {"none", "pending"}]
  /\ run \in [Record -> Runs]
  /\ labelled \in SUBSET Mail /\ lost \in SUBSET labelled
  /\ vault \in SUBSET (Mail \X Instance)
  /\ troubles \in 0..MaxTroubles

Mails(i) == UNION {Range(Box[i][f]) : f \in DOMAIN Box[i]}
Wellformed(i) == Mails(i) \ Malformed

\* Poller.Tick labels a message only after Stream is sure to see it, and
\* Stream hands over what a failed process had written: labelled mail, which
\* no poll will fetch again, has its file, or waits in a runner's output, or
\* was dropped with the rest of a stream by an envelope that failed or with
\* the daemon.  A poll that nothing went wrong with leaves no wellformed mail
\* of its mailbox behind, whatever other polls did to the labels meanwhile.
MailIsKept ==
  /\ labelled \subseteq InVault \cup Waiting \cup lost
  /\ \A r \in Record :
       At(r, "done") /\ ~run[r].partial =>
         Wellformed(r[2]) \subseteq InVault \cup labelled

\* dispatchFanOut and beginAttempt: the results name the request's enabled
\* instances in their order, each rests on a record of that instance alone
\* which ended as reported, no failure cuts the list short, and the mail of
\* a mailbox is filed under the instance it was fetched for.
AnswersAreOwn ==
  /\ \A q \in Request :
       LET results == request[q].results
           targets == Targets(request[q].form)
       IN /\ Is(q, "answered") => targets = {results[n].place : n \in DOMAIN results}
          /\ \A m, n \in DOMAIN results :
               m < n => results[m].place < results[n].place
          /\ \A n \in DOMAIN results :
               LET e == results[n]  i == Configured[e.place] IN
               /\ e.place \in targets
               /\ IF e.on = None THEN i \in EnvFails
                  ELSE /\ e.on[2] = i
                       /\ e.state \notin Unwaited => e.state = Reported(record[e.on])
  /\ \A file \in vault : file[1] \in Wellformed(file[2])

\* runPluginSimulation settles every record, so a request is answered without
\* its wait timing out, unless the daemon stops.
RequestsEnd ==
  \A q \in Request : Is(q, "walk") ~> ~Live(q)
=============================================================================
