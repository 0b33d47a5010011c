---------------------------- MODULE EntityEdits ----------------------------
(***************************************************************************)
(* Everything that edits the file of an entity in place: the fill, note,   *)
(* section and frontmatter endpoints, POST /v1/canonical-entities and      *)
(* /v1/user-content, and the workflow actions add_note, add_gap,           *)
(* set_property and add_canonical_edge.  Each call reads the file, changes *)
(* its copy, replaces the file and mirrors it to the entity's row, and     *)
(* these steps of several calls interleave.                                *)
(*                                                                         *)
(* An entity is a user-content page or a canonical label of a registered   *)
(* kind, whose missing file is materialized where the code would.  A fill  *)
(* or a frontmatter edit carries one field.  A value, a note and the text  *)
(* of a section are the number of the call that wrote them, 0 where there  *)
(* is none; the sections stand for the ETag.                               *)
(***************************************************************************)
EXTENDS Naturals, Sequences, FiniteSets

CONSTANTS Entity, Gap, Heading, Operator, Paragraph, None,
          Page,       \* the entities of kind user-content
          ConfigGap,  \* gaps the kind's configuration declares
          EdgeGap,    \* those of type canonical_type, and the mapped fields of pages
          AgentGap,   \* those of fill_strategy agent
          OnDisk,     \* labels that have a file at the start
          Request,    \* the requests that clients and workflows make
          MaxCalls,   \* bound: calls that are made
          MaxFaults,  \* bound: calls that end with an error, or a warning, of a write
          MaxInFlight \* bound: calls that are under way at once

Kind == {"fill", "clear", "defer", "undefer", "post_note", "edit_note", "delete_note",
         "section_replace", "section_add", "section_rename", "section_delete",
         "create", "add_note", "add_gap", "set_property", "add_edge",
         "page_create", "frontmatter"}
Fills == {"fill", "clear", "defer", "undefer"}
Actions == {"add_note", "add_gap", "set_property"}
Sections == {"section_replace", "section_add", "section_rename", "section_delete"}
Frontmatter == {"page_create", "frontmatter"}
Label == Entity \ Page
Num == 0..MaxCalls

ASSUME PageAssumption == Page \subseteq Entity /\ OnDisk \subseteq Entity \ Page
ASSUME GapAssumption == EdgeGap \subseteq ConfigGap /\ ConfigGap \cup AgentGap \subseteq Gap
\* target and para: the label of an edge and what its dataview records; note: the
\* call that added the note; direct: operator-trigger; shaped: add_gap has inline metadata.
ASSUME RequestAssumption ==
  /\ Request \subseteq [kind : Kind, on : Entity, gap : Gap, target : Label,
                        para : Paragraph \cup {None}, note : 1..MaxCalls, by : Operator,
                        sec : Heading, newsec : Heading,
                        direct : BOOLEAN, force : BOOLEAN, shaped : BOOLEAN]
  /\ \A r \in Request : (r.kind \in Frontmatter => r.on \in Page /\ r.para = None)
                         /\ (r.kind = "create" => r.on \in Label)
                         /\ (r.on \in Page /\ r.kind \in Fills => r.gap \notin EdgeGap)
ASSUME BoundAssumption == MaxCalls \in Nat /\ MaxInFlight \in Nat /\ MaxFaults \in Nat

VARIABLES file,    \* the vault, None where there is no file
          row,     \* the gap_state column, None where there is no row
          edges,   \* the edges of each entity's EdgeGap
          lock,    \* writelocks.Manager: the call that holds the entity, 0 if none
          calls,   \* every call made so far
          commits  \* the vault's history, latest last

vars == <<file, row, edges, lock, calls, commits>>

GapStates == [at : {"pending", "filled", "deferred"}, shape : BOOLEAN]
GapMap == [Gap -> GapStates \cup {None}]
Files == [notes : [1..MaxCalls -> Num], body : [Heading -> Num], owner : Operator \cup {None},
          data : [Gap -> Num], open : SUBSET Gap, state : GapMap, dataview : SUBSET Paragraph]
ASSUME NoneAssumption ==
  None \notin Entity \cup Paragraph \cup Operator \cup GapStates \cup GapMap \cup Files

Results == {"none", "ok", "warned", "conflict", "timeout", "missing", "refused", "failed"}
Calls == [req : Request, seen : [Heading -> Num], copy : Files \cup {None}, base : Files \cup {None},
          pc : {"lock", "load", "write", "mirror", "edge", "append", "paragraph", "done"},
          result : Results]
\* outdated: the file had changed since the call read it.
Commits == [call : 1..MaxCalls, on : Entity, outdated : BOOLEAN]

TypeOK ==
  /\ file \in [Entity -> Files \cup {None}]
  /\ row \in [Entity -> GapMap \cup {None}]
  /\ edges \in [Entity -> SUBSET (EdgeGap \X Entity)]
  /\ lock \in [Entity -> Num]
  /\ calls \in Seq(Calls) /\ Len(calls) <= MaxCalls
  /\ commits \in Seq(Commits)
  /\ \A c \in DOMAIN calls :
       \* A handler that has read the file holds the lock, unless its surface has none.
       /\ calls[c].pc \in {"load", "write", "mirror"} /\ calls[c].req.kind # "post_note"
            => lock[calls[c].req.on] = c
       /\ calls[c].pc = "paragraph" => lock[calls[c].req.target] = c
       /\ calls[c].pc = "done" => c \notin {lock[e] : e \in Entity}

NoGapState == [g \in Gap |-> None]
NoSections == [h \in Heading |-> 0]
NoData == [g \in Gap |-> 0]
NewLabel ==
  [notes |-> [n \in 1..MaxCalls |-> 0], body |-> NoSections, owner |-> None,
   data |-> NoData, open |-> ConfigGap, state |-> NoGapState, dataview |-> {}]

Init ==
  /\ row = [e \in Entity |-> IF e \in OnDisk THEN NoGapState ELSE None]
  /\ file = [e \in Entity |-> IF e \in OnDisk THEN NewLabel ELSE None]
  /\ edges = [e \in Entity |-> {}]
  /\ lock = [e \in Entity |-> 0]
  /\ calls = <<>>
  /\ commits = <<>>

----------------------------------------------------------------------------
(* What each handler does to the file it reads: the answer it stops with, or  *)
(* the file that it goes on to write.                                        *)

Stop(result) == [result |-> result, file |-> None]
Keep(f) == [result |-> "none", file |-> f]

\* resolveEffectiveGaps has the gap; no kind's configuration speaks of pages.
Known(r, f) ==
  (r.gap \in ConfigGap /\ r.on \in Label) \/ (f.state[r.gap] # None /\ f.state[r.gap].shape)

\* The branches of parseOperatorFillOps for an open gap, an overwrite and an ad-hoc field.
MayParse(r, f) ==
  IF r.gap \in f.open THEN ~(r.gap \in AgentGap /\ Known(r, f) /\ r.direct)
  ELSE r.kind \notin {"defer", "undefer"} /\ IF f.data[r.gap] # 0 THEN r.force ELSE r.direct

MayDefer(r, f) == r.kind = "defer" => f.data[r.gap] = 0

ApplyOp(c, r, f) ==
  CASE r.kind = "fill" ->
         [f EXCEPT !.data[r.gap] = c, !.open = @ \ {r.gap},
                   !.state[r.gap] = [at |-> "filled", shape |-> FALSE]]
    [] r.kind = "clear" ->
         [f EXCEPT !.data[r.gap] = 0, !.state[r.gap] = None,
                   !.open = IF Known(r, f) THEN @ \cup {r.gap} ELSE @]
    [] r.kind = "defer" -> [f EXCEPT !.state[r.gap] = [at |-> "deferred", shape |-> FALSE]]
    [] OTHER -> [f EXCEPT !.state[r.gap] = None]

Stored(r) == row[r.on] # None /\ file[r.on] # None

\* A label without a row is a new one, whatever file there is; a page is not found.
OperatorFill(c, r) ==
  LET f == IF Stored(r) THEN file[r.on] ELSE NewLabel
  IN IF r.on \in Page /\ ~Stored(r) THEN Stop("missing")
     ELSE IF MayParse(r, f) /\ MayDefer(r, f) THEN Keep(ApplyOp(c, r, f)) ELSE Stop("refused")

PostNote(c, r) ==
  IF row[r.on] = None \/ (file[r.on] = None /\ (r.on \in Page \/ ~r.direct)) THEN Stop("missing")
  ELSE Keep([(IF file[r.on] = None THEN NewLabel ELSE file[r.on]) EXCEPT !.notes[c] = c])

\* loadEntityForNoteMutation, and only for the note's author.
ChangeNote(r, text) ==
  IF ~Stored(r) THEN Stop("missing")
  ELSE IF file[r.on].notes[r.note] = 0 THEN Stop("missing")
  ELSE IF calls[r.note].req.by # r.by THEN Stop("refused")
  ELSE Keep([file[r.on] EXCEPT !.notes[r.note] = text])
EditNote(c, r) == ChangeNote(r, c)
DeleteNote(c, r) == ChangeNote(r, 0)

Editable(r) == IF file[r.on] = None THEN NewLabel ELSE file[r.on]

\* Mutant: no If-Match.
MayEditBody_Blind(c, r, f) == f.owner = r.by \/ (f.owner = None /\ r.on \in Label)

\* canEditSectionBody and the If-Match header.
MayEditBody(c, r, f) ==
  /\ f.owner = r.by \/ (f.owner = None /\ r.on \in Label)
  /\ calls[c].seen = f.body

\* The first edit of a label's body claims it.
EditBody(c, r, ok, body) ==
  IF row[r.on] = None \/ (r.on \in Page /\ file[r.on] = None) THEN Stop("missing")
  ELSE IF ~MayEditBody(c, r, Editable(r)) THEN Stop("refused")
  ELSE IF ~ok THEN Stop("missing")
  ELSE Keep([Editable(r) EXCEPT !.body = body, !.owner = r.by])

SectionReplace(c, r) ==
  LET b == Editable(r).body IN EditBody(c, r, b[r.sec] # 0, [b EXCEPT ![r.sec] = c])
SectionAdd(c, r) ==
  LET b == Editable(r).body IN EditBody(c, r, b[r.sec] = 0, [b EXCEPT ![r.sec] = c])
\* To another heading than any sibling's.
SectionRenameHeading(c, r) ==
  LET b == Editable(r).body
  IN EditBody(c, r, b[r.sec] # 0 /\ b[r.newsec] = 0,
              [b EXCEPT ![r.newsec] = b[r.sec], ![r.sec] = 0])
SectionDelete(c, r) ==
  LET b == Editable(r).body IN EditBody(c, r, b[r.sec] # 0, [b EXCEPT ![r.sec] = 0])

\* It looks for a row only.
CreateCanonicalEntity(r) == IF row[r.on] # None THEN Stop("refused") ELSE Keep(NewLabel)

\* Neither a row nor a file, anywhere in the vault.  The page belongs to its creator.
CreatePage(c, r) ==
  IF row[r.on] # None \/ file[r.on] # None THEN Stop("refused")
  ELSE Keep([NewLabel EXCEPT !.open = {}, !.owner = r.by, !.body[r.sec] = c, !.data[r.gap] = c])

\* What the request names replaces all of the data, and none of the rest.
EditFrontmatter(c, r) ==
  IF ~Stored(r) THEN Stop("missing")
  ELSE IF file[r.on].owner # r.by THEN Stop("refused")
  ELSE Keep([file[r.on] EXCEPT !.data = [NoData EXCEPT ![r.gap] = c]])

\* The workflow actions materialize nothing.
AppendNote(c, r) ==
  IF Stored(r) THEN Keep([file[r.on] EXCEPT !.notes[c] = c]) ELSE Stop("missing")
SetProperties(c, r) ==
  IF Stored(r) THEN Keep([file[r.on] EXCEPT !.data[r.gap] = c]) ELSE Stop("missing")
AddGap(r) ==
  LET s == file[r.on].state[r.gap]
  IN IF ~Stored(r) THEN Stop("missing")
     ELSE IF r.gap \in file[r.on].open /\ ~r.shaped THEN Stop("ok")
     ELSE Keep([file[r.on] EXCEPT
            !.open = @ \cup {r.gap},
            !.state[r.gap] = IF s = None THEN [at |-> "pending", shape |-> r.shaped]
                             ELSE [at |-> s.at, shape |-> s.shape \/ r.shaped]])

Handled(c) ==
  LET r == calls[c].req
  IN CASE r.kind \in Fills -> OperatorFill(c, r)
       [] r.kind = "post_note" -> PostNote(c, r)
       [] r.kind = "edit_note" -> EditNote(c, r)
       [] r.kind = "delete_note" -> DeleteNote(c, r)
       [] r.kind = "section_replace" -> SectionReplace(c, r)
       [] r.kind = "section_add" -> SectionAdd(c, r)
       [] r.kind = "section_rename" -> SectionRenameHeading(c, r)
       [] r.kind = "section_delete" -> SectionDelete(c, r)
       [] r.kind = "create" -> CreateCanonicalEntity(r)
       [] r.kind = "page_create" -> CreatePage(c, r)
       [] r.kind = "frontmatter" -> EditFrontmatter(c, r)
       [] r.kind = "add_note" -> AppendNote(c, r)
       [] r.kind = "set_property" -> SetProperties(c, r)
       [] r.kind = "add_gap" -> AddGap(r)

----------------------------------------------------------------------------
(* Calls and locks.                                                          *)

Goto(c, pc) == calls' = [calls EXCEPT ![c].pc = pc]
\* The call goes on with copy f of the file base.
Carry(c, pc, f, base) ==
  calls' = [calls EXCEPT ![c].pc = pc, ![c].copy = f, ![c].base = base]
Close(c, result) ==
  calls' = [calls EXCEPT ![c].pc = "done", ![c].result = result,
                         ![c].copy = None, ![c].base = None]

\* Mutant: a handler that refuses forgets the lock.
Answer_KeepsLock(c, result) ==
  /\ Close(c, result)
  /\ lock' = [e \in Entity |-> IF lock[e] = c /\ result # "refused" THEN 0 ELSE lock[e]]

\* The deferred release, then the answer.
Answer(c, result) ==
  /\ Close(c, result)
  /\ lock' = [e \in Entity |-> IF lock[e] = c THEN 0 ELSE lock[e]]

\* A section edit sends the ETag of the body its client has just read.
Call(r) ==
  /\ Len(calls) < MaxCalls
  /\ Cardinality({c \in DOMAIN calls : calls[c].pc # "done"}) < MaxInFlight
  /\ calls' = Append(calls,
       [req |-> r, copy |-> None, base |-> None, result |-> "none",
        seen |-> IF r.kind \in Sections THEN Editable(r).body ELSE NoSections,
        pc |-> CASE r.kind = "post_note" -> "load" [] r.kind = "add_edge" -> "edge"
                 [] OTHER -> "lock"])
  /\ UNCHANGED <<file, row, edges, lock, commits>>

\* The endpoints fail fast, the workflow actions wait for the lock or time out.
Lock(c) ==
  LET r == calls[c].req
  IN /\ calls[c].pc = "lock"
     /\ \/ lock[r.on] = 0 /\ lock' = [lock EXCEPT ![r.on] = c] /\ Goto(c, "load")
        \/ lock[r.on] # 0 /\ r.kind \notin Actions /\ Answer(c, "conflict")
        \/ lock[r.on] # 0 /\ r.kind \in Actions /\ Answer(c, "timeout")
     /\ UNCHANGED <<file, row, edges, commits>>

Load(c) ==
  /\ calls[c].pc = "load"
  /\ IF Handled(c).result # "none" THEN Answer(c, Handled(c).result)
     ELSE /\ Carry(c, "write", Handled(c).file, file[calls[c].req.on])
          /\ UNCHANGED lock
  /\ UNCHANGED <<file, row, edges, commits>>

\* WriteWithCommit replaces the whole file by the copy.
Replace(c, e, f) ==
  /\ file' = [file EXCEPT ![e] = f]
  /\ commits' = Append(commits, [call |-> c, on |-> e, outdated |-> file[e] # calls[c].base])

Write(c) ==
  /\ calls[c].pc = "write"
  /\ Replace(c, calls[c].req.on, calls[c].copy)
  /\ Goto(c, "mirror")
  /\ UNCHANGED <<row, edges, lock>>

MayFail == Cardinality({c \in DOMAIN calls : calls[c].result \in {"failed", "warned"}}) < MaxFaults

WriteFails(c) ==
  /\ MayFail
  /\ calls[c].pc = "write"
  /\ Answer(c, "failed")
  /\ UNCHANGED <<file, row, edges, commits>>

\* Mutant: the note handlers hand over no gap state either.
Mirrored_NotesNullIt(c) ==
  IF calls[c].req.kind \in Sections \cup {"edit_note", "delete_note", "add_note"}
  THEN NoGapState ELSE calls[c].copy.state

\* The section and page handlers hand UpsertEntity no gap state, which nulls the column.
NullsRow == Sections \cup Frontmatter
Mirrored(c) == IF calls[c].req.kind \in NullsRow THEN NoGapState ELSE calls[c].copy.state

\* A frontmatter edit clears the edges of a field it leaves out, a creation has none.
HasEdges(r) ==
  r.kind = "frontmatter" \/ (r.kind \in {"fill", "clear", "page_create"} /\ r.gap \in EdgeGap)

Mirror(c) ==
  LET r == calls[c].req
  IN /\ calls[c].pc = "mirror"
     /\ row' = [row EXCEPT ![r.on] = Mirrored(c)]
     /\ IF HasEdges(r)
        THEN Goto(c, "edge") /\ UNCHANGED lock ELSE Answer(c, "ok")
     /\ UNCHANGED <<file, edges, commits>>

\* A failed mirror is an error to an endpoint's caller and a warning to an action.
MirrorFails(c) ==
  /\ MayFail
  /\ calls[c].pc = "mirror"
  /\ Answer(c, IF calls[c].req.kind \in Actions THEN "warned" ELSE "failed")
  /\ UNCHANGED <<file, row, edges, commits>>

\* applyCanonicalTypeEdges and CreateCanonicalEdgeByName.
EdgesLeft(r) ==
  CASE r.kind = "add_edge" -> edges[r.on]
    [] r.kind = "frontmatter" -> {}
    [] OTHER -> {x \in edges[r.on] : x[1] # r.gap}
NewEdges(r) == IF r.kind = "clear" \/ r.gap \notin EdgeGap THEN {} ELSE {<<r.gap, r.target>>}
Edge(c) ==
  LET r == calls[c].req
  IN /\ calls[c].pc = "edge"
     /\ edges' = [edges EXCEPT ![r.on] = EdgesLeft(r) \cup NewEdges(r)]
     /\ row' = IF NewEdges(r) # {} /\ row[r.target] = None
               THEN [row EXCEPT ![r.target] = NoGapState] ELSE row
     /\ IF NewEdges(r) # {} /\ r.para # None
        THEN Goto(c, "append") /\ UNCHANGED lock ELSE Answer(c, "ok")
     /\ UNCHANGED <<file, commits>>

\* Of a fill, the earlier edges may be gone by then.
EdgeFails(c) ==
  LET r == calls[c].req
  IN /\ MayFail
     /\ calls[c].pc = "edge"
     /\ edges' \in {edges, [edges EXCEPT ![r.on] = EdgesLeft(r)]}
     /\ Answer(c, "failed")
     /\ UNCHANGED <<file, row, commits>>

\* Mutant: waits for the target's lock.
AppendLock_Waits(c) ==
  LET r == calls[c].req
      f == IF file[r.target] = None THEN NewLabel ELSE file[r.target]
  IN /\ calls[c].pc = "append" /\ lock[r.target] = 0
     /\ IF r.para \in f.dataview THEN Answer(c, "ok")
        ELSE /\ lock' = [lock EXCEPT ![r.target] = c]
             /\ Carry(c, "paragraph", f, file[r.target])
     /\ UNCHANGED <<file, row, edges, commits>>

\* AppendDataviewParagraph takes the target's lock under the caller's, and fails fast.
AppendLock(c) ==
  LET r == calls[c].req
      f == IF file[r.target] = None THEN NewLabel ELSE file[r.target]
  IN /\ calls[c].pc = "append"
     /\ CASE lock[r.target] # 0 -> Answer(c, "failed")
          [] lock[r.target] = 0 /\ r.para \in f.dataview -> Answer(c, "ok")
          [] OTHER -> /\ lock' = [lock EXCEPT ![r.target] = c]
                      /\ Carry(c, "paragraph", f, file[r.target])
     /\ UNCHANGED <<file, row, edges, commits>>

AppendWrite(c) ==
  LET r == calls[c].req
  IN /\ calls[c].pc = "paragraph"
     /\ Replace(c, r.target, [calls[c].copy EXCEPT !.dataview = @ \cup {r.para}])
     /\ Answer(c, "ok")
     /\ UNCHANGED <<row, edges>>

AppendFails(c) ==
  /\ MayFail
  /\ calls[c].pc = "paragraph"
  /\ Answer(c, "failed")
  /\ UNCHANGED <<file, row, edges, commits>>

Step(c) ==
  /\ c \in DOMAIN calls
  /\ \/ Lock(c) \/ Load(c) \/ Write(c) \/ WriteFails(c) \/ Mirror(c) \/ MirrorFails(c)
     \/ Edge(c) \/ EdgeFails(c) \/ AppendLock(c) \/ AppendWrite(c) \/ AppendFails(c)

Next == (\E r \in Request : Call(r)) \/ (\E c \in 1..MaxCalls : Step(c))

Spec == Init /\ [][Next]_vars
\* Every handler and action runs on a goroutine of its own.
FairSpec == Spec /\ \A c \in 1..MaxCalls : WF_vars(Step(c))

----------------------------------------------------------------------------
(* Properties.                                                               *)

Answered(c) == calls[c].result \in {"ok", "warned"}
\* Commits of the call's own edit; the others append a paragraph to a target, which
\* for the action add_canonical_edge may be the entity itself.
Own(i) == LET r == calls[commits[i].call].req IN commits[i].on = r.on /\ r.kind # "add_edge"

\* A section edit is in a body b.
Written(c, r, b) ==
  CASE r.kind \in {"section_replace", "section_add"} -> b[r.sec] = c
    [] r.kind = "section_rename" -> b[r.newsec] # 0
    [] r.kind = "section_delete" -> b[r.sec] = 0

\* The edit of call c, which asked r, is in a file f of its entity.
Effect(c, r, f) ==
  CASE r.kind \in {"fill", "set_property"} \cup Frontmatter -> f.data[r.gap] = c
    [] r.kind = "clear" -> f.data[r.gap] = 0
    [] r.kind = "defer" -> f.state[r.gap] # None /\ f.state[r.gap].at = "deferred"
    [] r.kind = "undefer" -> f.state[r.gap] = None
    [] r.kind \in {"post_note", "add_note"} -> f.notes[c] = c
    [] r.kind = "edit_note" -> f.notes[r.note] = c
    [] r.kind = "delete_note" -> f.notes[r.note] = 0
    [] r.kind \in Sections -> Written(c, r, f.body)
    [] r.kind = "add_gap" -> r.gap \in f.open
    [] OTHER -> TRUE

\* A later edit that may undo c's: one of the same field or note, and of a body only
\* the one whose client had seen it.
Supersedes(new, seen, c, old) ==
  LET gap(kinds) == new.kind \in kinds /\ new.gap = old.gap
  IN CASE old.kind \in {"fill", "set_property", "clear"} \cup Frontmatter ->
            gap({"fill", "clear", "set_property"}) \/ new.kind = "frontmatter"
       [] old.kind \in {"defer", "undefer"} -> gap(Fills \cup {"add_gap"})
       [] old.kind = "add_gap" -> gap({"fill"})
       [] old.kind \in {"post_note", "add_note"} ->
            new.kind \in {"edit_note", "delete_note"} /\ new.note = c
       [] old.kind = "edit_note" ->
            new.kind \in {"edit_note", "delete_note"} /\ new.note = old.note
       [] old.kind \in Sections ->
            new.kind \in Sections /\ Written(c, old, seen)
       [] OTHER -> FALSE

Stands(i) ==
  LET c == commits[i].call
  IN \/ Effect(c, calls[c].req, file[commits[i].on])
     \/ \E j \in i + 1..Len(commits) :
          LET d == calls[commits[j].call]
          IN commits[j].on = commits[i].on /\ Own(j) /\ Supersedes(d.req, d.seen, c, calls[c].req)

\* The notes endpoint takes no lock: it replaced a file that changed under it, or
\* another replaced the file it had changed.
Noted(e) ==
  \E i \in DOMAIN commits : commits[i].on = e /\ calls[commits[i].call].req.kind = "post_note"
Clobbered(e) ==
  Noted(e) /\ \E i \in DOMAIN commits : commits[i].on = e /\ commits[i].outdated

\* What a caller was told is stored is in the file until somebody edits the same thing
\* again; the edits of other fields, notes and sections that ran meanwhile keep it.
\* The one way to lose it is the notes endpoint, which takes no lock (writelock_helper.go
\* skips it: notes "don't conflict at the storage layer").
AnsweredEditsStand ==
  \A i \in DOMAIN commits :
    Own(i) /\ Answered(commits[i].call) => Stands(i) \/ Clobbered(commits[i].on)

\* The gap_state column is the file's, null where the latest edit hands over none.
ColumnFollowsFile ==
  \A i \in DOMAIN commits :
    LET e == commits[i].on
        c == commits[i].call
    IN Own(i) /\ calls[c].result = "ok" /\ ~Noted(e)
         /\ (\A j \in i + 1..Len(commits) : commits[j].on = e => ~Own(j))
         => row[e] = IF calls[c].req.kind \in NullsRow THEN NoGapState ELSE file[e].state

\* The edges of a field are those of its latest fill or frontmatter edit, and of actions.
AddedByActions(e) ==
  {<<calls[c].req.gap, calls[c].req.target>> :
     c \in {d \in DOMAIN calls : calls[d].req.kind = "add_edge" /\ calls[d].req.on = e}}
EdgesFollowFile ==
  \A i \in DOMAIN commits :
    LET e == commits[i].on
        c == commits[i].call
        r == calls[c].req
    IN Own(i) /\ HasEdges(r) /\ calls[c].result = "ok"
         /\ (\A j \in i + 1..Len(commits) :
               commits[j].on = e /\ Own(j) => ~HasEdges(calls[commits[j].call].req))
         => /\ NewEdges(r) \subseteq edges[e]
            /\ \A x \in edges[e] : x[1] = r.gap \/ r.kind = "frontmatter"
                 => x \in NewEdges(r) \cup AddedByActions(e)

\* After the latest edit of a file that was answered without an error, the store has the
\* gap state of the file and the edges of its fields, in whatever order edits queued for
\* the lock.  Not so the gap state of a file the notes endpoint wrote: the endpoint may
\* mirror late what it had read.
MirrorFollowsFile == ColumnFollowsFile /\ EdgesFollowFile

\* Every call is answered, also of two that each hold the lock the other's dataview needs.
EveryCallEnds == []<>(\A c \in DOMAIN calls : calls[c].pc = "done")

=============================================================================
