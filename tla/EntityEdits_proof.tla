--------------------------- MODULE EntityEdits_proof ---------------------------
(***************************************************************************)
(* What an answered edit is worth, for any number of entities, clients and *)
(* calls in any interleaving.  Each edit of a file keeps what it is not    *)
(* about, so that an edit can only be lost to one of the same thing, or to *)
(* a copy that was read before it; and the entity's lock leaves the notes  *)
(* endpoint as the only source of such copies.                             *)
(***************************************************************************)
EXTENDS EntityEdits, SequenceTheorems, TLAPS

LEMMA RequestType ==
  ASSUME NEW r \in Request
  PROVE  /\ r.kind \in Kind /\ r.on \in Entity /\ r.gap \in Gap /\ r.target \in Label
         /\ r.para \in Paragraph \cup {None} /\ r.note \in 1..MaxCalls /\ r.by \in Operator
         /\ r.sec \in Heading /\ r.newsec \in Heading
         /\ r.direct \in BOOLEAN /\ r.force \in BOOLEAN /\ r.shaped \in BOOLEAN
         /\ r.kind = "create" => r.on \in Label
         /\ r.kind \in Frontmatter => r.on \in Page /\ r.para = None
         /\ r.on \in Page /\ r.kind \in Fills => r.gap \notin EdgeGap
  BY RequestAssumption

LEMMA NoneDiffers ==
  /\ \A x \in Entity \cup Paragraph \cup Operator \cup GapStates \cup GapMap \cup Files : x # None
  /\ NoGapState \in GapMap
<1>1. NoGapState \in GapMap
  BY DEF NoGapState, GapMap
<1> QED
  BY <1>1, NoneAssumption

LEMMA NewLabelType ==
  /\ NewLabel \in Files
  /\ \A n \in 1..MaxCalls : NewLabel.notes[n] = 0
  /\ NewLabel.state = NoGapState
<1>1. 0 \in Num /\ ConfigGap \subseteq Gap
  BY BoundAssumption, GapAssumption DEF Num
<1>2. /\ NoSections \in [Heading -> Num] /\ NoData \in [Gap -> Num]
      /\ NoGapState \in GapMap /\ [n \in 1..MaxCalls |-> 0] \in [1..MaxCalls -> Num]
  BY <1>1, NoneDiffers DEF NoSections, NoData
<1>3. NewLabel \in Files
  BY <1>1, <1>2 DEF NewLabel, Files
<1> QED
  BY <1>3 DEF NewLabel

LEMMA CallType ==
  ASSUME TypeOK, NEW c \in DOMAIN calls
  PROVE  /\ calls[c] \in Calls /\ calls[c].req \in Request /\ c \in 1..MaxCalls /\ c \in Num
         /\ c # 0 /\ DOMAIN calls = 1..Len(calls)
<1>1. calls \in Seq(Calls) /\ Len(calls) \in Nat /\ Len(calls) <= MaxCalls
      /\ DOMAIN calls = 1..Len(calls) /\ MaxCalls \in Nat
  BY BoundAssumption DEF TypeOK
<1>2. calls[c] \in Calls
  BY <1>1
<1> QED
  BY <1>1, <1>2 DEF Calls, Num

----------------------------------------------------------------------------
(* What an edit leaves alone.                                               *)

\* What the edit of call c in file b leaves alone in its copy f.
KeepsRest(c, r, seen, b, f) ==
  /\ \A g \in Gap : f.data[g] # b.data[g] =>
       r.kind = "frontmatter" \/ (r.kind \in {"fill", "clear", "set_property"} /\ r.gap = g)
  /\ \A g \in Gap : f.state[g] # b.state[g] => r.kind \in Fills \cup {"add_gap"} /\ r.gap = g
  /\ \A g \in b.open \ f.open : r.kind = "fill" /\ r.gap = g
  /\ \A n \in 1..MaxCalls : f.notes[n] # b.notes[n] =>
       \/ r.kind \in {"post_note", "add_note"} /\ n = c
       \/ r.kind \in {"edit_note", "delete_note"} /\ n = r.note
  /\ f.body # b.body => r.kind \in Sections /\ seen = b.body

\* A copy f of b made by call c for request r.
Edited(c, r, seen, b, f) ==
  /\ f \in Files
  /\ Effect(c, r, f)
  /\ b = None \/ row[r.on] = None \/ KeepsRest(c, r, seen, b, f)
  /\ r.kind \in {"edit_note", "delete_note"} => b # None /\ b.notes[r.note] # 0
  /\ r.kind \in Actions \cup {"post_note"} => row[r.on] # None
  /\ \A n \in 1..MaxCalls : f.notes[n] # 0 => n = c \/ (b # None /\ b.notes[n] # 0)

Edits(c, r, h) == h.result = "none" => Edited(c, r, calls[c].seen, file[r.on], h.file)

LEMMA FillEdits ==
  ASSUME TypeOK, NEW c \in DOMAIN calls, NEW r \in Request, r.kind \in Fills
  PROVE  Edits(c, r, OperatorFill(c, r))
<1> DEFINE f == IF Stored(r) THEN file[r.on] ELSE NewLabel
           n == ApplyOp(c, r, f)
<1>1. r.on \in Entity /\ r.gap \in Gap /\ c \in Num
  BY RequestType, CallType
<1>2. f \in Files
  BY <1>1, NewLabelType DEF TypeOK, Stored
<1>3. ~Stored(r) => file[r.on] = None \/ row[r.on] = None
  BY DEF Stored
<1>a. Stored(r) => f = file[r.on]
  OBVIOUS
<1>b. ~Stored(r) => f = NewLabel
  OBVIOUS
<1> SUFFICES ASSUME OperatorFill(c, r).result = "none"
             PROVE  Edited(c, r, calls[c].seen, file[r.on], n) /\ OperatorFill(c, r).file = n
  BY DEF Edits
<1>4. OperatorFill(c, r).file = n /\ MayDefer(r, f)
  BY DEF OperatorFill, Keep, Stop
<1> HIDE DEF f
<1>5. n \in Files /\ Effect(c, r, n) /\ n.notes = f.notes
      /\ KeepsRest(c, r, calls[c].seen, f, n)
  <2>0. 0 \in Num /\ None \in GapStates \cup {None} /\ [at |-> "filled", shape |-> FALSE] \in GapStates
        /\ [at |-> "deferred", shape |-> FALSE] \in GapStates
    BY BoundAssumption DEF Num, GapStates
  <2>1. CASE r.kind = "fill"
    <3>1. n = [f EXCEPT !.data[r.gap] = c, !.open = f.open \ {r.gap},
                        !.state[r.gap] = [at |-> "filled", shape |-> FALSE]]
      BY <2>1 DEF ApplyOp
    <3> HIDE DEF n
    <3>2. n \in Files
      BY <1>1, <1>2, <2>0, <3>1 DEF Files, GapMap
    <3>3. n.data[r.gap] = c
      BY <1>1, <1>2, <3>1 DEF Files
    <3>4. KeepsRest(c, r, calls[c].seen, f, n)
      BY <1>1, <1>2, <2>1, <3>1 DEF KeepsRest, Files, GapMap, Fills
    <3>5. Effect(c, r, n)
      BY <2>1, <3>3 DEF Effect, Frontmatter, Sections
    <3>6. n.notes = f.notes
      BY <1>2, <3>1 DEF Files
    <3> QED
      BY <3>2, <3>4, <3>5, <3>6
  <2>2. CASE r.kind = "clear"
    <3> DEFINE open == IF Known(r, f) THEN f.open \cup {r.gap} ELSE f.open
    <3>1. n = [f EXCEPT !.data[r.gap] = 0, !.state[r.gap] = None, !.open = open]
      BY <2>2 DEF ApplyOp
    <3>a. open \in SUBSET Gap /\ f.open \subseteq open
      BY <1>1, <1>2 DEF Files
    <3> HIDE DEF n, open
    <3>2. n \in Files
      BY <1>1, <1>2, <2>0, <3>1, <3>a DEF Files, GapMap
    <3>3. n.data[r.gap] = 0
      BY <1>1, <1>2, <3>1 DEF Files
    <3>4. KeepsRest(c, r, calls[c].seen, f, n)
      BY <1>1, <1>2, <2>2, <3>1, <3>a DEF KeepsRest, Files, GapMap, Fills
    <3>5. Effect(c, r, n)
      BY <2>2, <3>3 DEF Effect, Frontmatter, Sections
    <3>6. n.notes = f.notes
      BY <1>2, <3>1 DEF Files
    <3> QED
      BY <3>2, <3>4, <3>5, <3>6
  <2>3. CASE r.kind = "defer"
    <3>1. n = [f EXCEPT !.state[r.gap] = [at |-> "deferred", shape |-> FALSE]]
      BY <2>3 DEF ApplyOp
    <3> HIDE DEF n
    <3>2. n \in Files
      BY <1>1, <1>2, <2>0, <3>1 DEF Files, GapMap
    <3>3. n.state[r.gap] = [at |-> "deferred", shape |-> FALSE]
      BY <1>1, <1>2, <3>1 DEF Files, GapMap
    <3>4. KeepsRest(c, r, calls[c].seen, f, n)
      BY <1>1, <1>2, <2>3, <3>1 DEF KeepsRest, Files, GapMap, Fills
    <3>5. Effect(c, r, n)
      <4>0. \A x \in GapStates : x # None
        BY NoneDiffers
      <4>1. n.state[r.gap] # None /\ n.state[r.gap].at = "deferred"
        <5>1. n.state[r.gap] \in GapStates
          BY <2>0, <3>3
        <5>2. n.state[r.gap].at = "deferred"
          BY <3>3
        <5> QED
          BY <4>0, <5>1, <5>2
      <4> QED
        BY <2>3, <4>1 DEF Effect, Frontmatter, Sections
    <3>6. n.notes = f.notes
      BY <1>2, <3>1 DEF Files
    <3> QED
      BY <3>2, <3>4, <3>5, <3>6
  <2>4. CASE r.kind = "undefer"
    <3>1. n = [f EXCEPT !.state[r.gap] = None]
      BY <2>4 DEF ApplyOp
    <3> HIDE DEF n
    <3>2. n \in Files
      BY <1>1, <1>2, <2>0, <3>1 DEF Files, GapMap
    <3>3. n.state[r.gap] = None
      BY <1>1, <1>2, <3>1 DEF Files, GapMap
    <3>4. KeepsRest(c, r, calls[c].seen, f, n)
      BY <1>1, <1>2, <2>4, <3>1 DEF KeepsRest, Files, GapMap, Fills
    <3>5. Effect(c, r, n)
      BY <2>4, <3>3 DEF Effect, Frontmatter, Sections
    <3>6. n.notes = f.notes
      BY <1>2, <3>1 DEF Files
    <3> QED
      BY <3>2, <3>4, <3>5, <3>6
  <2> QED
    BY <2>1, <2>2, <2>3, <2>4 DEF Fills
<1> HIDE DEF n
<1>6. file[r.on] = None \/ row[r.on] = None \/ KeepsRest(c, r, calls[c].seen, file[r.on], n)
  BY <1>3, <1>5, <1>a
<1>7. \A k \in 1..MaxCalls : n.notes[k] # 0 => file[r.on] # None /\ file[r.on].notes[k] # 0
  BY <1>5, <1>a, <1>b, NewLabelType DEF Stored
<1> QED
  BY <1>4, <1>5, <1>6, <1>7 DEF Edited, Fills, Actions

\* AppendNote and PostNote write the note of their own call.
LEMMA NewNote ==
  ASSUME TypeOK, NEW c \in DOMAIN calls, NEW r \in Request,
         r.kind \in {"post_note", "add_note"}, row[r.on] # None,
         NEW f \in Files, f = IF file[r.on] = None THEN NewLabel ELSE file[r.on]
  PROVE  Edited(c, r, calls[c].seen, file[r.on], [f EXCEPT !.notes[c] = c])
<1> DEFINE n == [f EXCEPT !.notes[c] = c]
<1>1. c \in 1..MaxCalls /\ c \in Num
  BY CallType
<1>2. n \in Files /\ n.notes = [f.notes EXCEPT ![c] = c] /\ n.data = f.data
      /\ n.state = f.state /\ n.open = f.open /\ n.body = f.body
  BY <1>1 DEF Files
<1> HIDE DEF n
<1>3. n.notes[c] = c /\ \A k \in 1..MaxCalls : k # c => n.notes[k] = f.notes[k]
  BY <1>1, <1>2 DEF Files
<1>4. Effect(c, r, n)
  BY <1>3 DEF Effect, Frontmatter, Sections
<1>5. KeepsRest(c, r, calls[c].seen, f, n)
  BY <1>2, <1>3 DEF KeepsRest
<1>6. \A k \in 1..MaxCalls : n.notes[k] # 0 =>
        k = c \/ (file[r.on] # None /\ file[r.on].notes[k] # 0)
  BY <1>3, NewLabelType
<1>7. Edited(c, r, calls[c].seen, file[r.on], n)
  BY <1>2, <1>4, <1>5, <1>6 DEF Edited
<1> QED
  BY <1>7 DEF n

LEMMA PostNoteEdits ==
  ASSUME TypeOK, NEW c \in DOMAIN calls, NEW r \in Request, r.kind = "post_note"
  PROVE  Edits(c, r, PostNote(c, r))
<1> DEFINE f == IF file[r.on] = None THEN NewLabel ELSE file[r.on]
<1>1. f \in Files
  BY RequestType, NewLabelType DEF TypeOK
<1>2. PostNote(c, r).result = "none" =>
        row[r.on] # None /\ PostNote(c, r).file = [f EXCEPT !.notes[c] = c]
  BY DEF PostNote, Stop, Keep
<1> HIDE DEF f
<1>3. row[r.on] # None => Edited(c, r, calls[c].seen, file[r.on], [f EXCEPT !.notes[c] = c])
  BY <1>1, NewNote DEF f
<1> QED
  BY <1>2, <1>3 DEF Edits

LEMMA AppendNoteEdits ==
  ASSUME TypeOK, NEW c \in DOMAIN calls, NEW r \in Request, r.kind = "add_note"
  PROVE  Edits(c, r, AppendNote(c, r))
<1> DEFINE f == file[r.on]
<1>1. AppendNote(c, r).result = "none" =>
        /\ row[r.on] # None /\ f # None
        /\ AppendNote(c, r).file = [f EXCEPT !.notes[c] = c]
  BY DEF AppendNote, Stored, Stop, Keep
<1>2. f # None => f \in Files
  BY RequestType DEF TypeOK
<1>3. row[r.on] # None /\ f # None =>
        Edited(c, r, calls[c].seen, f, [f EXCEPT !.notes[c] = c])
  BY <1>2, NewNote
<1> HIDE DEF f
<1> QED
  BY <1>1, <1>3 DEF Edits, f

\* Only a note that is there is edited or deleted.
LEMMA ChangeNoteEdits ==
  ASSUME TypeOK, NEW c \in DOMAIN calls, NEW r \in Request, NEW text \in Num,
         \/ r.kind = "edit_note" /\ text = c
         \/ r.kind = "delete_note" /\ text = 0
  PROVE  Edits(c, r, ChangeNote(r, text))
<1> DEFINE f == file[r.on]
           n == [f EXCEPT !.notes[r.note] = text]
<1> SUFFICES ASSUME ChangeNote(r, text).result = "none"
             PROVE  Edited(c, r, calls[c].seen, f, n) /\ ChangeNote(r, text).file = n
  BY DEF Edits
<1>1. f # None /\ f.notes[r.note] # 0 /\ ChangeNote(r, text).file = n
  BY DEF ChangeNote, Stored, Stop, Keep
<1>2. f \in Files /\ r.note \in 1..MaxCalls
  BY <1>1, RequestType DEF TypeOK
<1> HIDE DEF f
<1>3. n \in Files /\ n.notes = [f.notes EXCEPT ![r.note] = text] /\ n.data = f.data
      /\ n.state = f.state /\ n.open = f.open /\ n.body = f.body
  BY <1>2 DEF Files
<1> HIDE DEF n
<1>4. n.notes[r.note] = text /\ \A k \in 1..MaxCalls : k # r.note => n.notes[k] = f.notes[k]
  BY <1>2, <1>3 DEF Files
<1>5. Effect(c, r, n)
  BY <1>4 DEF Effect, Frontmatter, Sections
<1>6. KeepsRest(c, r, calls[c].seen, f, n)
  BY <1>3, <1>4 DEF KeepsRest
<1>7. \A k \in 1..MaxCalls : n.notes[k] # 0 => f # None /\ f.notes[k] # 0
  BY <1>1, <1>4
<1> QED
  BY <1>1, <1>3, <1>5, <1>6, <1>7 DEF Edited, Actions

LEMMA EditBodyEdits ==
  ASSUME TypeOK, NEW c \in DOMAIN calls, NEW r \in Request, r.kind \in Sections,
         NEW ok, NEW body \in [Heading -> Num], ok => Written(c, r, body)
  PROVE  Edits(c, r, EditBody(c, r, ok, body))
<1> DEFINE f == Editable(r)
           n == [f EXCEPT !.body = body, !.owner = r.by]
<1>1. f \in Files /\ r.by \in Operator /\ (file[r.on] # None => f = file[r.on])
      /\ (file[r.on] = None => f = NewLabel)
  BY RequestType, NewLabelType DEF TypeOK, Editable
<1> SUFFICES ASSUME EditBody(c, r, ok, body).result = "none"
             PROVE  Edited(c, r, calls[c].seen, file[r.on], n) /\ EditBody(c, r, ok, body).file = n
  BY DEF Edits
<1>2. MayEditBody(c, r, f) /\ ok /\ EditBody(c, r, ok, body).file = n
  BY DEF EditBody, Stop, Keep
<1>3. calls[c].seen = f.body
  BY <1>2 DEF MayEditBody
<1> HIDE DEF f
<1>4. n \in Files /\ n.notes = f.notes /\ n.data = f.data
      /\ n.state = f.state /\ n.open = f.open /\ n.body = body
  BY <1>1 DEF Files
<1> HIDE DEF n
<1>5. Effect(c, r, n)
  BY <1>2, <1>4 DEF Effect, Frontmatter, Sections
<1>6. KeepsRest(c, r, calls[c].seen, f, n)
  BY <1>3, <1>4 DEF KeepsRest
<1>7. \A k \in 1..MaxCalls : n.notes[k] # 0 => file[r.on] # None /\ file[r.on].notes[k] # 0
  BY <1>1, <1>4, NewLabelType
<1> QED
  BY <1>1, <1>2, <1>4, <1>5, <1>6, <1>7 DEF Edited, Actions, Sections

LEMMA SectionEdits ==
  ASSUME TypeOK, NEW c \in DOMAIN calls, NEW r \in Request
  PROVE  /\ r.kind = "section_replace" => Edits(c, r, SectionReplace(c, r))
         /\ r.kind = "section_add" => Edits(c, r, SectionAdd(c, r))
         /\ r.kind = "section_rename" => Edits(c, r, SectionRenameHeading(c, r))
         /\ r.kind = "section_delete" => Edits(c, r, SectionDelete(c, r))
<1> DEFINE b == Editable(r).body
<1>0. r.on \in Entity /\ r.sec \in Heading /\ r.newsec \in Heading /\ c \in Num /\ 0 \in Num
  BY RequestType, CallType, BoundAssumption DEF Num
<1>a. Editable(r) \in Files
  BY <1>0, NewLabelType DEF Editable, TypeOK
<1>1. b \in [Heading -> Num] /\ r.sec \in Heading /\ r.newsec \in Heading /\ c \in Num /\ 0 \in Num
  BY <1>0, <1>a DEF Files
<1> DEFINE put == [b EXCEPT ![r.sec] = c]
           moved == [b EXCEPT ![r.newsec] = b[r.sec], ![r.sec] = 0]
           cut == [b EXCEPT ![r.sec] = 0]
<1> HIDE DEF b
<1>2. put \in [Heading -> Num] /\ moved \in [Heading -> Num] /\ cut \in [Heading -> Num]
  BY <1>1
<1>3. put[r.sec] = c /\ cut[r.sec] = 0
      /\ (b[r.sec] # 0 /\ b[r.newsec] = 0 => moved[r.newsec] # 0)
  BY <1>1
<1> HIDE DEF put, moved, cut
<1>4. CASE r.kind = "section_replace"
  <2>1. Written(c, r, put)
    BY <1>3, <1>4 DEF Written
  <2>2. Edits(c, r, EditBody(c, r, b[r.sec] # 0, put))
    BY <1>2, <1>4, <2>1, EditBodyEdits DEF Sections
  <2> QED
    BY <1>4, <2>2 DEF SectionReplace, put, b
<1>5. CASE r.kind = "section_add"
  <2>1. Written(c, r, put)
    BY <1>3, <1>5 DEF Written
  <2>2. Edits(c, r, EditBody(c, r, b[r.sec] = 0, put))
    BY <1>2, <1>5, <2>1, EditBodyEdits DEF Sections
  <2> QED
    BY <1>5, <2>2 DEF SectionAdd, put, b
<1>6. CASE r.kind = "section_rename"
  <2>1. b[r.sec] # 0 /\ b[r.newsec] = 0 => Written(c, r, moved)
    BY <1>3, <1>6 DEF Written
  <2>2. Edits(c, r, EditBody(c, r, b[r.sec] # 0 /\ b[r.newsec] = 0, moved))
    BY <1>2, <1>6, <2>1, EditBodyEdits DEF Sections
  <2> QED
    BY <1>6, <2>2 DEF SectionRenameHeading, moved, b
<1>7. CASE r.kind = "section_delete"
  <2>1. Written(c, r, cut)
    BY <1>3, <1>7 DEF Written
  <2>2. Edits(c, r, EditBody(c, r, b[r.sec] # 0, cut))
    BY <1>2, <1>7, <2>1, EditBodyEdits DEF Sections
  <2> QED
    BY <1>7, <2>2 DEF SectionDelete, cut, b
<1> QED
  BY <1>4, <1>5, <1>6, <1>7

\* The two that write a file of their own.
LEMMA CreateEdits ==
  ASSUME TypeOK, NEW c \in DOMAIN calls, NEW r \in Request
  PROVE  /\ r.kind = "create" => Edits(c, r, CreateCanonicalEntity(r))
         /\ r.kind = "page_create" => Edits(c, r, CreatePage(c, r))
<1>1. CASE r.kind = "create"
  <2>1. CreateCanonicalEntity(r).result = "none" =>
          row[r.on] = None /\ CreateCanonicalEntity(r).file = NewLabel
    BY DEF CreateCanonicalEntity, Stop, Keep
  <2>2. Effect(c, r, NewLabel)
    BY <1>1 DEF Effect, Frontmatter, Sections
  <2> QED
    BY <1>1, <2>1, <2>2, NewLabelType DEF Edits, Edited, Actions
<1>2. CASE r.kind = "page_create"
  <2> DEFINE n == [NewLabel EXCEPT !.open = {}, !.owner = r.by, !.body[r.sec] = c,
                                   !.data[r.gap] = c]
  <2>1. CreatePage(c, r).result = "none" => file[r.on] = None /\ CreatePage(c, r).file = n
    BY DEF CreatePage, Stop, Keep
  <2>2. r.by \in Operator /\ r.sec \in Heading /\ r.gap \in Gap /\ c \in Num
    BY RequestType, CallType
  <2>3. n \in Files /\ n.notes = NewLabel.notes /\ n.data[r.gap] = c
    <3> DEFINE f == NewLabel
    <3>1. f \in Files
      BY NewLabelType
    <3> HIDE DEF f
    <3>2. [f EXCEPT !.open = {}, !.owner = r.by, !.body[r.sec] = c, !.data[r.gap] = c] \in Files
      BY <2>2, <3>1 DEF Files
    <3>3. /\ [f EXCEPT !.open = {}, !.owner = r.by, !.body[r.sec] = c, !.data[r.gap] = c].notes
               = f.notes
          /\ [f EXCEPT !.open = {}, !.owner = r.by, !.body[r.sec] = c, !.data[r.gap] = c].data[r.gap]
               = c
      BY <2>2, <3>1 DEF Files
    <3> QED
      BY <3>2, <3>3 DEF f
  <2> HIDE DEF n
  <2>4. Effect(c, r, n)
    BY <1>2, <2>3 DEF Effect, Frontmatter, Sections
  <2> QED
    BY <1>2, <2>1, <2>3, <2>4, NewLabelType DEF Edits, Edited, Actions
<1> QED
  BY <1>1, <1>2

\* Those that set one field of a stored file.
LEMMA FieldEdits ==
  ASSUME TypeOK, NEW c \in DOMAIN calls, NEW r \in Request
  PROVE  /\ r.kind = "frontmatter" => Edits(c, r, EditFrontmatter(c, r))
         /\ r.kind = "set_property" => Edits(c, r, SetProperties(c, r))
<1> DEFINE f == file[r.on]
<1>1. r.on \in Entity /\ r.gap \in Gap /\ c \in Num /\ 0 \in Num
  BY RequestType, CallType, BoundAssumption DEF Num
<1>2. f # None => f \in Files
  BY <1>1 DEF TypeOK
<1>3. ASSUME NEW data \in [Gap -> Num], f \in Files, data[r.gap] = c, row[r.on] # None,
             r.kind = "frontmatter"
               \/ (r.kind = "set_property" /\ \A g \in Gap : g # r.gap => data[g] = f.data[g])
      PROVE  Edited(c, r, calls[c].seen, f, [f EXCEPT !.data = data])
  <2> DEFINE n == [f EXCEPT !.data = data]
  <2> HIDE DEF f
  <2>1. n \in Files /\ n.notes = f.notes /\ n.data = data
        /\ n.state = f.state /\ n.open = f.open /\ n.body = f.body
    BY <1>3 DEF Files
  <2> HIDE DEF n
  <2>2. Effect(c, r, n)
    BY <1>3, <2>1 DEF Effect, Frontmatter, Sections
  <2>3. KeepsRest(c, r, calls[c].seen, f, n)
    BY <1>3, <2>1 DEF KeepsRest
  <2>4. f # None
    BY <1>3, NoneDiffers
  <2> QED
    BY <1>3, <2>1, <2>2, <2>3, <2>4 DEF Edited, n
<1>4. CASE r.kind = "frontmatter"
  <2> DEFINE data == [NoData EXCEPT ![r.gap] = c]
  <2>1. data \in [Gap -> Num] /\ data[r.gap] = c
    BY <1>1 DEF NoData
  <2>2. EditFrontmatter(c, r).result = "none" =>
          /\ f # None /\ row[r.on] # None
          /\ EditFrontmatter(c, r).file = [f EXCEPT !.data = data]
    BY DEF EditFrontmatter, Stored, Stop, Keep
  <2> HIDE DEF data, f
  <2> QED
    BY <1>2, <1>3, <1>4, <2>1, <2>2 DEF Edits, f
<1>5. CASE r.kind = "set_property"
  <2> DEFINE data == [f.data EXCEPT ![r.gap] = c]
  <2>1. SetProperties(c, r).result = "none" =>
          /\ f # None /\ row[r.on] # None
          /\ SetProperties(c, r).file = [f EXCEPT !.data[r.gap] = c]
    BY DEF SetProperties, Stored, Stop, Keep
  <2>2. f # None => /\ data \in [Gap -> Num] /\ data[r.gap] = c
                    /\ \A g \in Gap : g # r.gap => data[g] = f.data[g]
                    /\ [f EXCEPT !.data[r.gap] = c] = [f EXCEPT !.data = data]
    BY <1>1, <1>2 DEF Files
  <2> HIDE DEF data, f
  <2> QED
    BY <1>2, <1>3, <1>5, <2>1, <2>2 DEF Edits, f
<1> QED
  BY <1>4, <1>5

LEMMA AddGapEdits ==
  ASSUME TypeOK, NEW c \in DOMAIN calls, NEW r \in Request, r.kind = "add_gap"
  PROVE  Edits(c, r, AddGap(r))
<1> DEFINE f == file[r.on]
           s == f.state[r.gap]
           t == IF s = None THEN [at |-> "pending", shape |-> r.shaped]
                ELSE [at |-> s.at, shape |-> s.shape \/ r.shaped]
           n == [f EXCEPT !.open = f.open \cup {r.gap}, !.state[r.gap] = t]
<1> SUFFICES ASSUME AddGap(r).result = "none"
             PROVE  Edited(c, r, calls[c].seen, f, n) /\ AddGap(r).file = n
  BY DEF Edits
<1>1. f # None /\ row[r.on] # None /\ AddGap(r).file = n
  BY DEF AddGap, Stored, Stop, Keep
<1>2. f \in Files /\ r.gap \in Gap /\ r.shaped \in BOOLEAN
  BY <1>1, RequestType DEF TypeOK
<1> HIDE DEF f
<1>3. t \in GapStates
  <2>1. s \in GapStates \cup {None}
    BY <1>2 DEF Files, GapMap
  <2>2. CASE s = None
    BY <1>2, <2>2 DEF GapStates
  <2>3. CASE s # None
    <3>1. s.at \in {"pending", "filled", "deferred"} /\ s.shape \in BOOLEAN
      BY <2>1, <2>3 DEF GapStates
    <3>2. (s.shape \/ r.shaped) \in BOOLEAN
      BY <1>2, <3>1
    <3> QED
      BY <2>3, <3>1, <3>2 DEF GapStates
  <2> QED
    BY <2>2, <2>3
<1> HIDE DEF t
<1>4. n \in Files /\ n.notes = f.notes /\ n.data = f.data
      /\ n.open = f.open \cup {r.gap} /\ n.body = f.body
      /\ n.state = [f.state EXCEPT ![r.gap] = t]
  BY <1>2, <1>3 DEF Files, GapMap
<1> HIDE DEF n
<1>5. Effect(c, r, n)
  BY <1>4 DEF Effect, Frontmatter, Sections
<1>6. KeepsRest(c, r, calls[c].seen, f, n)
  BY <1>2, <1>4 DEF KeepsRest, Files, GapMap
<1> QED
  BY <1>1, <1>4, <1>5, <1>6 DEF Edited

LEMMA HandledEdits ==
  ASSUME TypeOK, NEW c \in DOMAIN calls, calls[c].req.kind # "add_edge"
  PROVE  Edits(c, calls[c].req, Handled(c))
<1> DEFINE r == calls[c].req
<1>1. r \in Request /\ r.kind \in Kind /\ c \in Num /\ 0 \in Num
  BY CallType, RequestType, BoundAssumption DEF Num
<1> HIDE DEF r
<1>2. CASE r.kind \in Fills
  BY <1>1, <1>2, FillEdits DEF Handled, Fills, r
<1>3. CASE r.kind = "post_note"
  BY <1>1, <1>3, PostNoteEdits DEF Handled, Fills, r
<1>4. CASE r.kind = "edit_note"
  BY <1>1, <1>4, ChangeNoteEdits DEF Handled, Fills, EditNote, r
<1>5. CASE r.kind = "delete_note"
  BY <1>1, <1>5, ChangeNoteEdits DEF Handled, Fills, DeleteNote, r
<1>6. CASE r.kind = "section_replace"
  BY <1>1, <1>6, SectionEdits DEF Handled, Fills, r
<1>7. CASE r.kind = "section_add"
  BY <1>1, <1>7, SectionEdits DEF Handled, Fills, r
<1>8. CASE r.kind = "section_rename"
  BY <1>1, <1>8, SectionEdits DEF Handled, Fills, r
<1>9. CASE r.kind = "section_delete"
  BY <1>1, <1>9, SectionEdits DEF Handled, Fills, r
<1>10. CASE r.kind = "create"
  BY <1>1, <1>10, CreateEdits DEF Handled, Fills, r
<1>11. CASE r.kind = "page_create"
  BY <1>1, <1>11, CreateEdits DEF Handled, Fills, r
<1>12. CASE r.kind = "frontmatter"
  BY <1>1, <1>12, FieldEdits DEF Handled, Fills, r
<1>13. CASE r.kind = "add_note"
  BY <1>1, <1>13, AppendNoteEdits DEF Handled, Fills, r
<1>14. CASE r.kind = "set_property"
  BY <1>1, <1>14, FieldEdits DEF Handled, Fills, r
<1>15. CASE r.kind = "add_gap"
  BY <1>1, <1>15, AddGapEdits DEF Handled, Fills, r
<1> QED
  BY <1>1, <1>2, <1>3, <1>4, <1>5, <1>6, <1>7, <1>8, <1>9, <1>10, <1>11, <1>12, <1>13,
     <1>14, <1>15 DEF Kind, Fills, r
----------------------------------------------------------------------------
(* The inductive invariant.                                                  *)

\* Past the write of its file; a call takes every step once.
Past(c) == c \in DOMAIN calls /\ calls[c].pc \notin {"lock", "load", "write"}
AfterWrite == {"mirror", "edge", "append", "paragraph"}
\* Every surface but two takes the entity's lock for all of the call.
Locks(c) == calls[c].req.kind \notin {"post_note", "add_edge"}

StageInv(c) ==
  LET k == calls[c]
      r == k.req
  IN /\ k.pc \in {"lock", "load", "write", "mirror"} => r.kind # "add_edge"
     /\ k.pc \in {"edge", "append", "paragraph"} => r.kind = "add_edge" \/ HasEdges(r)
     /\ k.pc \in {"append", "paragraph"} => r.para # None
     /\ k.pc \in {"write", "mirror", "paragraph"} => k.copy \in Files
     /\ k.result = "none" <=> k.pc # "done"
     /\ Locks(c) /\ k.pc \in {"load", "write"} \cup AfterWrite => lock[r.on] = c
     /\ k.pc = "paragraph" => lock[r.target] = c /\ (r.kind # "add_edge" => r.target # r.on)
     /\ k.pc \in {"write", "mirror"} /\ r.kind \in Actions \cup {"post_note"} => row[r.on] # None

\* No edit in the file of e counts: each failed.
Spare(e) == \A i \in DOMAIN commits :
  commits[i].on = e /\ Own(i) => calls[commits[i].call].result = "failed"

\* The notes of a file are those of calls that wrote them.
OldNotes(f) == \A n \in 1..MaxCalls : f # None /\ f.notes[n] # 0 => Past(n)

\* The copy that a call is about to write.  It may leave out the rest of the file where
\* the entity had no row: nothing of such a file was answered.
DraftInv(c) ==
  LET k == calls[c]
      r == k.req
  IN k.pc = "write" =>
       /\ r.kind # "post_note" /\ ~Noted(r.on) => k.base = file[r.on]
       /\ Effect(c, r, k.copy)
       /\ \/ k.base = None
          \/ KeepsRest(c, r, k.seen, k.base, k.copy)
          \/ r.kind # "post_note" /\ (k.base = file[r.on] => Spare(r.on))
       /\ r.kind \in {"edit_note", "delete_note"} => k.base # None /\ k.base.notes[r.note] # 0
       /\ OldNotes(k.base)
       /\ \A n \in 1..MaxCalls : k.copy.notes[n] # 0 => n = c \/ Past(n)

ParagraphInv(c) ==
  LET k == calls[c]
      t == k.req.target
  IN k.pc = "paragraph" =>
       /\ ~Noted(t) => k.base = file[t]
       /\ k.copy = IF k.base = None THEN NewLabel ELSE k.base
       /\ OldNotes(k.base)

CommitInv(i) ==
  LET e == commits[i].on
      c == commits[i].call
  IN /\ Past(c) /\ file[e] # None
     /\ commits[i].outdated => Noted(e)
     /\ calls[c].req.kind \in {"edit_note", "delete_note"} => Past(calls[c].req.note)
     /\ Own(i) /\ calls[c].result # "failed" =>
          /\ calls[c].pc # "mirror" => row[e] # None
          /\ Stands(i) \/ Clobbered(e)

EditInv ==
  /\ TypeOK
  /\ \A c \in DOMAIN calls : StageInv(c) /\ DraftInv(c) /\ ParagraphInv(c)
  /\ \A e \in Entity : OldNotes(file[e])
  /\ \A i \in DOMAIN commits : CommitInv(i)

\* A call that holds the lock made the latest edit of its file, notes apart.
Latest(i) ==
  \A j \in i + 1..Len(commits) :
    commits[j].on = commits[i].on /\ Own(j) => calls[commits[j].call].req.kind = "post_note"
OrderInv(c) ==
  calls[c].pc \in AfterWrite /\ calls[c].req.kind # "add_edge" =>
    \E i \in DOMAIN commits : commits[i].call = c /\ Own(i) /\ (Locks(c) => Latest(i))

ColumnInv(i) ==
  LET e == commits[i].on
      k == calls[commits[i].call]
  IN Own(i) /\ ~Noted(e) /\ (\A j \in i + 1..Len(commits) : commits[j].on = e => ~Own(j)) =>
       /\ k.pc = "mirror" => file[e].state = k.copy.state
       /\ k.pc \in {"edge", "append", "paragraph"} \/ k.result = "ok" =>
            row[e] = IF k.req.kind \in NullsRow THEN NoGapState ELSE file[e].state

EdgesInv(i) ==
  LET e == commits[i].on
      k == calls[commits[i].call]
      r == k.req
  IN Own(i) /\ HasEdges(r)
       /\ (\A j \in i + 1..Len(commits) :
             commits[j].on = e /\ Own(j) => ~HasEdges(calls[commits[j].call].req))
       /\ (k.pc \in {"append", "paragraph"} \/ k.result = "ok") =>
       /\ NewEdges(r) \subseteq edges[e]
       /\ \A x \in edges[e] : x[1] = r.gap \/ r.kind = "frontmatter"
            => x \in NewEdges(r) \cup AddedByActions(e)

MirrorInv ==
  /\ \A c \in DOMAIN calls : OrderInv(c)
  /\ \A i \in DOMAIN commits : ColumnInv(i) /\ EdgesInv(i)

----------------------------------------------------------------------------
(* What a step of call c changes.                                            *)

Types ==
  /\ file \in [Entity -> Files \cup {None}]
  /\ row \in [Entity -> GapMap \cup {None}]
  /\ edges \in [Entity -> SUBSET (EdgeGap \X Entity)]
  /\ lock \in [Entity -> Num]
  /\ calls \in Seq(Calls) /\ Len(calls) <= MaxCalls
  /\ commits \in Seq(Commits)

\* Of the calls only c moves on, and it takes and gives back locks of its own.
Turn(c) ==
  /\ c \in DOMAIN calls'
  /\ DOMAIN calls \subseteq DOMAIN calls' /\ DOMAIN calls' \subseteq DOMAIN calls \cup {c}
  /\ \A d \in DOMAIN calls : calls'[d].req = calls[d].req /\ calls'[d].seen = calls[d].seen
  /\ \A d \in DOMAIN calls \ {c} : calls'[d] = calls[d]
  /\ c \in DOMAIN calls => calls[c].result = "none"
  /\ Past(c) => Past(c)'
  /\ \A e \in Entity : lock'[e] # lock[e] => {lock[e], lock'[e]} \subseteq {0, c}
  /\ calls'[c].pc = "done" => \A e \in Entity : lock'[e] # c

\* Rows and commits stay.
Grows ==
  /\ \A e \in Entity : row[e] # None => row'[e] # None
  /\ Len(commits) <= Len(commits')
  /\ \A i \in DOMAIN commits : commits'[i] = commits[i]

\* Call c goes to pc, and the others stay where they are.
Only(c, pc, result, copy, base) ==
  /\ calls' \in Seq(Calls) /\ Len(calls') = Len(calls) /\ DOMAIN calls' = DOMAIN calls
  /\ \A d \in DOMAIN calls \ {c} : calls'[d] = calls[d]
  /\ calls'[c].req = calls[c].req /\ calls'[c].seen = calls[c].seen
  /\ calls'[c].pc = pc /\ calls'[c].result = result
  /\ calls'[c].copy = copy /\ calls'[c].base = base

LEMMA Update ==
  ASSUME TypeOK, NEW c \in DOMAIN calls, NEW k \in Calls,
         calls' = [calls EXCEPT ![c] = k], k.req = calls[c].req, k.seen = calls[c].seen
  PROVE  Only(c, k.pc, k.result, k.copy, k.base)
<1>1. calls \in Seq(Calls)
  BY DEF TypeOK
<1>2. calls' \in Seq(Calls) /\ Len(calls') = Len(calls) /\ DOMAIN calls' = DOMAIN calls
  BY <1>1, ExceptSeq
<1>3. calls'[c] = k /\ \A d \in DOMAIN calls \ {c} : calls'[d] = calls[d]
  BY <1>1
<1> QED
  BY <1>2, <1>3 DEF Only

PCs == {"lock", "load", "write", "mirror", "edge", "append", "paragraph", "done"}

LEMMA GotoMoves ==
  ASSUME TypeOK, NEW c \in DOMAIN calls, NEW pc \in PCs, Goto(c, pc)
  PROVE  Only(c, pc, calls[c].result, calls[c].copy, calls[c].base)
<1> DEFINE k == [calls[c] EXCEPT !.pc = pc]
<1>1. calls[c] \in Calls
  BY CallType
<1>2. k \in Calls /\ k.req = calls[c].req /\ k.seen = calls[c].seen /\ k.pc = pc
      /\ k.result = calls[c].result /\ k.copy = calls[c].copy /\ k.base = calls[c].base
  BY <1>1 DEF Calls, PCs
<1>3. calls' = [calls EXCEPT ![c] = k]
  BY DEF Goto
<1> HIDE DEF k
<1>4. Only(c, k.pc, k.result, k.copy, k.base)
  BY <1>2, <1>3, Update
<1> QED
  BY <1>2, <1>4

LEMMA CarryMoves ==
  ASSUME TypeOK, NEW c \in DOMAIN calls, NEW pc \in PCs, NEW f \in Files \cup {None},
         NEW b \in Files \cup {None}, Carry(c, pc, f, b)
  PROVE  Only(c, pc, calls[c].result, f, b)
<1> DEFINE k == [calls[c] EXCEPT !.pc = pc, !.copy = f, !.base = b]
<1>1. calls[c] \in Calls
  BY CallType
<1>2. k \in Calls /\ k.req = calls[c].req /\ k.seen = calls[c].seen /\ k.pc = pc
      /\ k.result = calls[c].result /\ k.copy = f /\ k.base = b
  BY <1>1 DEF Calls, PCs
<1>3. calls' = [calls EXCEPT ![c] = k]
  BY DEF Carry
<1> HIDE DEF k
<1>4. Only(c, k.pc, k.result, k.copy, k.base)
  BY <1>2, <1>3, Update
<1> QED
  BY <1>2, <1>4

LEMMA AnswerMoves ==
  ASSUME TypeOK, NEW c \in DOMAIN calls, NEW result \in Results, Answer(c, result)
  PROVE  /\ Only(c, "done", result, None, None)
         /\ lock' \in [Entity -> Num]
         /\ \A e \in Entity : lock'[e] = IF lock[e] = c THEN 0 ELSE lock[e]
<1> DEFINE k == [calls[c] EXCEPT !.pc = "done", !.result = result, !.copy = None, !.base = None]
<1>1. calls[c] \in Calls
  BY CallType
<1>2. k \in Calls /\ k.req = calls[c].req /\ k.seen = calls[c].seen /\ k.pc = "done"
      /\ k.result = result /\ k.copy = None /\ k.base = None
  BY <1>1 DEF Calls
<1>3. calls' = [calls EXCEPT ![c] = k]
  BY DEF Answer, Close
<1> HIDE DEF k
<1>4. Only(c, k.pc, k.result, k.copy, k.base)
  BY <1>2, <1>3, Update
<1>5. lock' \in [Entity -> Num]
  BY BoundAssumption DEF TypeOK, Answer, Num
<1> QED
  BY <1>2, <1>4, <1>5 DEF Answer

LEMMA OnlyTurns ==
  ASSUME TypeOK, NEW c \in DOMAIN calls, StageInv(c), calls[c].pc # "done",
         NEW pc, NEW result, NEW copy, NEW base, Only(c, pc, result, copy, base),
         Past(c) => pc \notin {"lock", "load", "write"},
         \A e \in Entity : lock'[e] # lock[e] => {lock[e], lock'[e]} \subseteq {0, c},
         pc = "done" => \A e \in Entity : lock'[e] # c
  PROVE  Turn(c)
<1>1. calls[c].result = "none"
  BY DEF StageInv
<1>2. c \in DOMAIN calls' /\ calls'[c].pc = pc /\ DOMAIN calls' = DOMAIN calls
      /\ calls'[c].req = calls[c].req /\ calls'[c].seen = calls[c].seen
      /\ \A d \in DOMAIN calls \ {c} : calls'[d] = calls[d]
  BY DEF Only
<1>3. Past(c) => Past(c)'
  BY <1>2 DEF Past
<1> QED
  BY <1>1, <1>2, <1>3 DEF Turn

\* A call that is answered is done and holds no lock.
LEMMA AnswerTurns ==
  ASSUME TypeOK, NEW c \in DOMAIN calls, StageInv(c), calls[c].pc # "done",
         NEW result \in Results \ {"none"}, Answer(c, result)
  PROVE  /\ Turn(c) /\ StageInv(c)' /\ DraftInv(c)' /\ ParagraphInv(c)'
         /\ calls' \in Seq(Calls) /\ Len(calls') <= MaxCalls /\ lock' \in [Entity -> Num]
         /\ calls'[c].pc = "done" /\ calls'[c].result = result
<1>1. /\ Only(c, "done", result, None, None) /\ lock' \in [Entity -> Num]
      /\ \A e \in Entity : lock'[e] = IF lock[e] = c THEN 0 ELSE lock[e]
  BY AnswerMoves
<1>2. c # 0
  BY CallType
<1>3. Turn(c)
  BY <1>1, <1>2, OnlyTurns
<1>4. calls'[c].pc = "done" /\ calls'[c].result = result
  BY <1>1 DEF Only
<1>5. StageInv(c)'
  BY <1>4 DEF StageInv, AfterWrite
<1>6. DraftInv(c)' /\ ParagraphInv(c)'
  BY <1>4 DEF DraftInv, ParagraphInv
<1>7. calls' \in Seq(Calls) /\ Len(calls') <= MaxCalls
  BY <1>1 DEF Only, TypeOK
<1> QED
  BY <1>1, <1>3, <1>4, <1>5, <1>6, <1>7

LEMMA LockTurns ==
  ASSUME TypeOK, NEW c \in DOMAIN calls, StageInv(c), Lock(c)
  PROVE  Types' /\ Turn(c) /\ StageInv(c)' /\ DraftInv(c)' /\ ParagraphInv(c)'
<1> DEFINE r == calls[c].req
<1>1. calls[c].pc = "lock" /\ UNCHANGED <<file, row, edges, commits>>
      /\ r.on \in Entity /\ c \in Num
  BY CallType, RequestType DEF Lock
<1>2. CASE lock[r.on] = 0 /\ lock' = [lock EXCEPT ![r.on] = c] /\ Goto(c, "load")
  <2>1. Only(c, "load", calls[c].result, calls[c].copy, calls[c].base)
    BY <1>2, GotoMoves DEF PCs
  <2>2. lock' \in [Entity -> Num] /\ lock'[r.on] = c
        /\ \A e \in Entity : e # r.on => lock'[e] = lock[e]
    BY <1>1, <1>2 DEF TypeOK
  <2>3. \A e \in Entity : lock'[e] # lock[e] => {lock[e], lock'[e]} \subseteq {0, c}
    BY <1>2, <2>2
  <2>4. Turn(c)
    BY <1>1, <2>1, <2>3, OnlyTurns DEF Past
  <2>5. calls'[c].pc = "load" /\ calls'[c].result = calls[c].result /\ calls'[c].req = r
    BY <2>1 DEF Only
  <2>6. StageInv(c)'
    BY <1>1, <2>2, <2>5 DEF StageInv, Locks, AfterWrite
  <2>7. DraftInv(c)' /\ ParagraphInv(c)'
    BY <2>5 DEF DraftInv, ParagraphInv
  <2>8. Types'
    BY <1>1, <2>1, <2>2 DEF Types, TypeOK, Only
  <2> QED
    BY <2>4, <2>6, <2>7, <2>8
<1>3. ASSUME NEW result \in {"conflict", "timeout"}, Answer(c, result)
      PROVE  Types' /\ Turn(c) /\ StageInv(c)' /\ DraftInv(c)' /\ ParagraphInv(c)'
  BY <1>1, <1>3, AnswerTurns DEF Results, Types, TypeOK
<1> QED
  BY <1>2, <1>3 DEF Lock

LEMMA WriteTurns ==
  ASSUME TypeOK, NEW c \in DOMAIN calls, StageInv(c), Write(c)
  PROVE  Types' /\ Turn(c) /\ StageInv(c)' /\ DraftInv(c)' /\ ParagraphInv(c)'
         /\ calls'[c].pc = "mirror" /\ calls'[c].result = "none"
         /\ calls'[c].copy = calls[c].copy /\ calls[c].copy \in Files
<1> DEFINE r == calls[c].req
<1>1. calls[c].pc = "write" /\ UNCHANGED <<row, edges, lock>> /\ Goto(c, "mirror")
      /\ r.on \in Entity /\ c \in 1..MaxCalls /\ Replace(c, r.on, calls[c].copy)
  BY CallType, RequestType DEF Write
<1>2. Only(c, "mirror", calls[c].result, calls[c].copy, calls[c].base)
  BY <1>1, GotoMoves DEF PCs
<1>3. Turn(c)
  BY <1>1, <1>2, OnlyTurns DEF Past
<1>4. calls'[c].pc = "mirror" /\ calls'[c].result = calls[c].result /\ calls'[c].req = r
      /\ calls'[c].copy = calls[c].copy
  BY <1>2 DEF Only
<1>5. StageInv(c)'
  BY <1>1, <1>4 DEF StageInv, Locks, AfterWrite
<1>6. DraftInv(c)' /\ ParagraphInv(c)'
  BY <1>4 DEF DraftInv, ParagraphInv
<1>7. calls[c].copy \in Files /\ calls[c].result = "none"
  BY <1>1 DEF StageInv
<1>8. [call |-> c, on |-> r.on, outdated |-> file[r.on] # calls[c].base] \in Commits
  BY <1>1 DEF Commits
<1>9. Types'
  BY <1>1, <1>2, <1>7, <1>8 DEF Types, TypeOK, Only, Replace
<1> QED
  BY <1>3, <1>4, <1>5, <1>6, <1>7, <1>9

LEMMA WriteFailsTurns ==
  ASSUME TypeOK, NEW c \in DOMAIN calls, StageInv(c), WriteFails(c)
  PROVE  Types' /\ Turn(c) /\ StageInv(c)' /\ DraftInv(c)' /\ ParagraphInv(c)'
<1>1. calls[c].pc = "write" /\ Answer(c, "failed") /\ UNCHANGED <<file, row, edges, commits>>
  BY DEF WriteFails
<1> QED
  BY <1>1, AnswerTurns DEF Results, Types, TypeOK

LEMMA MirrorTurns ==
  ASSUME TypeOK, NEW c \in DOMAIN calls, StageInv(c), Mirror(c)
  PROVE  /\ Types' /\ Turn(c) /\ StageInv(c)' /\ DraftInv(c)' /\ ParagraphInv(c)'
         /\ \A e \in Entity : row'[e] =
              IF e = calls[c].req.on THEN Mirrored(c) ELSE row[e]
         /\ Mirrored(c) \in GapMap
         /\ calls'[c].pc \in {"edge", "done"}
         /\ calls'[c].pc = "done" => ~HasEdges(calls[c].req)
<1> DEFINE r == calls[c].req
<1>1. calls[c].pc = "mirror" /\ UNCHANGED <<file, edges, commits>>
      /\ r.on \in Entity /\ row' = [row EXCEPT ![r.on] = Mirrored(c)]
  BY CallType, RequestType DEF Mirror
<1>2. Mirrored(c) \in GapMap
  <2>1. calls[c].copy \in Files
    BY <1>1 DEF StageInv
  <2>2. calls[c].copy.state \in GapMap
    BY <2>1 DEF Files
  <2> QED
    BY <2>2, NoneDiffers DEF Mirrored
<1>3. row' \in [Entity -> GapMap \cup {None}]
      /\ \A e \in Entity : row'[e] = IF e = r.on THEN Mirrored(c) ELSE row[e]
  BY <1>1, <1>2 DEF TypeOK
<1>4. CASE HasEdges(r) /\ Goto(c, "edge") /\ UNCHANGED lock
  <2>1. Only(c, "edge", calls[c].result, calls[c].copy, calls[c].base)
    BY <1>4, GotoMoves DEF PCs
  <2>2. Turn(c)
    BY <1>1, <1>4, <2>1, OnlyTurns DEF Past
  <2>3. calls'[c].pc = "edge" /\ calls'[c].result = calls[c].result /\ calls'[c].req = r
    BY <2>1 DEF Only
  <2>4. StageInv(c)'
    BY <1>1, <1>4, <2>3 DEF StageInv, Locks, AfterWrite
  <2>5. DraftInv(c)' /\ ParagraphInv(c)'
    BY <2>3 DEF DraftInv, ParagraphInv
  <2>6. Types'
    BY <1>1, <1>3, <1>4, <2>1 DEF Types, TypeOK, Only
  <2> QED
    BY <1>2, <1>3, <2>2, <2>3, <2>4, <2>5, <2>6
<1>5. CASE ~HasEdges(r) /\ Answer(c, "ok")
  BY <1>1, <1>2, <1>3, <1>5, AnswerTurns DEF Results, Types, TypeOK
<1> QED
  BY <1>4, <1>5 DEF Mirror

LEMMA MirrorFailsTurns ==
  ASSUME TypeOK, NEW c \in DOMAIN calls, StageInv(c), MirrorFails(c)
  PROVE  Types' /\ Turn(c) /\ StageInv(c)' /\ DraftInv(c)' /\ ParagraphInv(c)'
         /\ calls'[c].pc = "done"
         /\ calls'[c].result = IF calls[c].req.kind \in Actions THEN "warned" ELSE "failed"
<1> DEFINE result == IF calls[c].req.kind \in Actions THEN "warned" ELSE "failed"
<1>1. calls[c].pc = "mirror" /\ Answer(c, result) /\ UNCHANGED <<file, row, edges, commits>>
  BY DEF MirrorFails
<1>2. result \in Results \ {"none"}
  BY DEF Results
<1> HIDE DEF result
<1>3. Types' /\ Turn(c) /\ StageInv(c)' /\ DraftInv(c)' /\ ParagraphInv(c)'
      /\ calls'[c].pc = "done" /\ calls'[c].result = result
  BY <1>1, <1>2, AnswerTurns DEF Types, TypeOK
<1> QED
  BY <1>3 DEF result

LEMMA EdgeSets ==
  ASSUME TypeOK, NEW r \in Request
  PROVE  /\ EdgesLeft(r) \subseteq edges[r.on] /\ EdgesLeft(r) \cup NewEdges(r) \subseteq EdgeGap \X Entity
         /\ edges[r.on] \subseteq EdgeGap \X Entity
<1>1. r.on \in Entity /\ r.target \in Entity
  BY RequestType DEF Label
<1>2. edges[r.on] \subseteq EdgeGap \X Entity
  BY <1>1 DEF TypeOK
<1>3. EdgesLeft(r) \subseteq edges[r.on]
  BY DEF EdgesLeft
<1>4. NewEdges(r) \subseteq EdgeGap \X Entity
  BY <1>1 DEF NewEdges
<1> QED
  BY <1>2, <1>3, <1>4

LEMMA EdgeTurns ==
  ASSUME TypeOK, NEW c \in DOMAIN calls, StageInv(c), Edge(c)
  PROVE  /\ Types' /\ Turn(c) /\ StageInv(c)' /\ DraftInv(c)' /\ ParagraphInv(c)'
         /\ \A e \in Entity : row[e] # None => row'[e] = row[e]
         /\ calls'[c].pc \in {"append", "done"}
<1> DEFINE r == calls[c].req
           new == EdgesLeft(r) \cup NewEdges(r)
<1>1. calls[c].pc = "edge" /\ UNCHANGED <<file, commits>>
      /\ edges' = [edges EXCEPT ![r.on] = new]
      /\ row' = IF NewEdges(r) # {} /\ row[r.target] = None
                THEN [row EXCEPT ![r.target] = NoGapState] ELSE row
  BY DEF Edge
<1>2. r \in Request /\ r.on \in Entity /\ r.target \in Entity
  BY CallType, RequestType DEF Label
<1>3. new \in SUBSET (EdgeGap \X Entity)
  BY <1>2, EdgeSets
<1>4. row' \in [Entity -> GapMap \cup {None}] /\ \A e \in Entity : row[e] # None => row'[e] = row[e]
  BY <1>1, <1>2, NoneDiffers DEF TypeOK
<1> HIDE DEF new
<1>5. edges' \in [Entity -> SUBSET (EdgeGap \X Entity)]
  BY <1>1, <1>2, <1>3 DEF TypeOK
<1>6. CASE r.para # None /\ Goto(c, "append") /\ UNCHANGED lock
  <2>1. Only(c, "append", calls[c].result, calls[c].copy, calls[c].base)
    BY <1>6, GotoMoves DEF PCs
  <2>2. Turn(c)
    BY <1>1, <1>6, <2>1, OnlyTurns DEF Past
  <2>3. calls'[c].pc = "append" /\ calls'[c].result = calls[c].result /\ calls'[c].req = r
    BY <2>1 DEF Only
  <2>4. StageInv(c)'
    BY <1>1, <1>6, <2>3 DEF StageInv, Locks, AfterWrite
  <2>5. DraftInv(c)' /\ ParagraphInv(c)'
    BY <2>3 DEF DraftInv, ParagraphInv
  <2>6. Types'
    BY <1>1, <1>4, <1>5, <1>6, <2>1 DEF Types, TypeOK, Only
  <2> QED
    BY <1>4, <2>2, <2>3, <2>4, <2>5, <2>6
<1>7. CASE Answer(c, "ok")
  BY <1>1, <1>4, <1>5, <1>7, AnswerTurns DEF Results, Types, TypeOK
<1> QED
  BY <1>6, <1>7 DEF Edge

LEMMA EdgeFailsTurns ==
  ASSUME TypeOK, NEW c \in DOMAIN calls, StageInv(c), EdgeFails(c)
  PROVE  /\ Types' /\ Turn(c) /\ StageInv(c)' /\ DraftInv(c)' /\ ParagraphInv(c)'
         /\ calls'[c].pc = "done" /\ calls'[c].result = "failed"
<1> DEFINE r == calls[c].req
<1>1. calls[c].pc = "edge" /\ UNCHANGED <<file, row, commits>> /\ Answer(c, "failed")
      /\ edges' \in {edges, [edges EXCEPT ![r.on] = EdgesLeft(r)]}
  BY DEF EdgeFails
<1>2. r \in Request /\ r.on \in Entity
  BY CallType, RequestType
<1>3. EdgesLeft(r) \in SUBSET (EdgeGap \X Entity)
  BY <1>2, EdgeSets
<1>4. edges' \in [Entity -> SUBSET (EdgeGap \X Entity)]
  BY <1>1, <1>2, <1>3 DEF TypeOK
<1> QED
  BY <1>1, <1>4, AnswerTurns DEF Results, Types, TypeOK

\* The target's lock is free, so it is not that of the call's own entity.
LEMMA AppendLockTurns ==
  ASSUME TypeOK, NEW c \in DOMAIN calls, StageInv(c), AppendLock(c),
         \A e \in Entity : OldNotes(file[e])
  PROVE  /\ Types' /\ Turn(c) /\ StageInv(c)' /\ DraftInv(c)' /\ ParagraphInv(c)'
         /\ calls'[c].pc \in {"paragraph", "done"}
<1> DEFINE r == calls[c].req
           f == IF file[r.target] = None THEN NewLabel ELSE file[r.target]
<1>1. calls[c].pc = "append" /\ UNCHANGED <<file, row, edges, commits>>
  BY DEF AppendLock
<1>2. r.on \in Entity /\ r.target \in Entity /\ c \in Num /\ c # 0
  BY CallType, RequestType DEF Label
<1>3. f \in Files /\ file[r.target] \in Files \cup {None}
  BY <1>2, NewLabelType DEF TypeOK
<1>4. CASE lock[r.target] = 0 /\ lock' = [lock EXCEPT ![r.target] = c]
           /\ Carry(c, "paragraph", f, file[r.target])
  <2>1. Only(c, "paragraph", calls[c].result, f, file[r.target])
    BY <1>3, <1>4, CarryMoves DEF PCs
  <2>2. lock' \in [Entity -> Num] /\ lock'[r.target] = c
        /\ \A e \in Entity : e # r.target => lock'[e] = lock[e]
    BY <1>2, <1>4 DEF TypeOK
  <2>3. \A e \in Entity : lock'[e] # lock[e] => {lock[e], lock'[e]} \subseteq {0, c}
    BY <1>4, <2>2
  <2>4. Turn(c)
    BY <1>1, <2>1, <2>3, OnlyTurns DEF Past
  <2>5. calls'[c].pc = "paragraph" /\ calls'[c].result = calls[c].result /\ calls'[c].req = r
        /\ calls'[c].copy = f /\ calls'[c].base = file[r.target]
    BY <2>1 DEF Only
  <2>6. Locks(c) => lock[r.on] = c /\ r.on # r.target
    BY <1>1, <1>2, <1>4 DEF StageInv, AfterWrite
  <2>7. r.kind # "add_edge" => Locks(c)
    BY <1>1 DEF StageInv, HasEdges, Locks
  <2>8. Locks(c)' <=> Locks(c)
    BY <2>5 DEF Locks
  <2>9. StageInv(c)'
    BY <1>1, <1>2, <1>3, <2>2, <2>5, <2>6, <2>7, <2>8 DEF StageInv, AfterWrite
  <2>10. DraftInv(c)'
    BY <2>5 DEF DraftInv
  <2>11. ParagraphInv(c)'
    <3>1. OldNotes(file[r.target])
      BY <1>2
    <3>2. \A n \in 1..MaxCalls : Past(n) => Past(n)'
      BY <2>4 DEF Turn, Past
    <3>3. OldNotes(calls[c].base)'
      BY <2>5, <3>1, <3>2 DEF OldNotes
    <3> QED
      BY <1>1, <2>5, <3>3 DEF ParagraphInv
  <2>12. Types'
    BY <1>1, <2>1, <2>2 DEF Types, TypeOK, Only
  <2> QED
    BY <2>4, <2>5, <2>9, <2>10, <2>11, <2>12
<1>5. ASSUME NEW result \in {"failed", "ok"}, Answer(c, result)
      PROVE  Types' /\ Turn(c) /\ StageInv(c)' /\ DraftInv(c)' /\ ParagraphInv(c)'
             /\ calls'[c].pc = "done"
  BY <1>1, <1>5, AnswerTurns DEF Results, Types, TypeOK
<1> QED
  <2>1. CASE lock[r.target] # 0
    BY <1>5, <2>1 DEF AppendLock
  <2>2. CASE lock[r.target] = 0
    BY <1>4, <1>5, <2>2 DEF AppendLock
  <2> QED
    BY <2>1, <2>2

LEMMA AppendWriteTurns ==
  ASSUME TypeOK, NEW c \in DOMAIN calls, StageInv(c), AppendWrite(c)
  PROVE  /\ Types' /\ Turn(c) /\ StageInv(c)' /\ DraftInv(c)' /\ ParagraphInv(c)'
         /\ calls'[c].pc = "done" /\ calls'[c].result = "ok"
         /\ calls[c].copy \in Files
         /\ [calls[c].copy EXCEPT !.dataview = @ \cup {calls[c].req.para}] \in Files
<1> DEFINE r == calls[c].req
           f == [calls[c].copy EXCEPT !.dataview = @ \cup {r.para}]
<1>1. calls[c].pc = "paragraph" /\ UNCHANGED <<row, edges>> /\ Answer(c, "ok")
      /\ Replace(c, r.target, f)
  BY DEF AppendWrite
<1>2. r.target \in Entity /\ c \in 1..MaxCalls /\ r.para \in Paragraph \cup {None} /\ r.para # None
  BY <1>1, CallType, RequestType DEF Label, StageInv
<1>3. calls[c].copy \in Files
  BY <1>1 DEF StageInv
<1>4. f \in Files
  BY <1>2, <1>3 DEF Files
<1>5. [call |-> c, on |-> r.target, outdated |-> file[r.target] # calls[c].base] \in Commits
  BY <1>2 DEF Commits
<1> HIDE DEF f
<1>6. file' \in [Entity -> Files \cup {None}] /\ commits' \in Seq(Commits)
  BY <1>1, <1>2, <1>4, <1>5 DEF TypeOK, Replace
<1>7. Types' /\ Turn(c) /\ StageInv(c)' /\ DraftInv(c)' /\ ParagraphInv(c)'
      /\ calls'[c].pc = "done" /\ calls'[c].result = "ok"
  BY <1>1, <1>6, AnswerTurns DEF Results, Types, TypeOK
<1> QED
  BY <1>3, <1>4, <1>7 DEF f

LEMMA AppendFailsTurns ==
  ASSUME TypeOK, NEW c \in DOMAIN calls, StageInv(c), AppendFails(c)
  PROVE  Types' /\ Turn(c) /\ StageInv(c)' /\ DraftInv(c)' /\ ParagraphInv(c)'
         /\ calls'[c].pc = "done" /\ calls'[c].result = "failed"
<1>1. calls[c].pc = "paragraph" /\ Answer(c, "failed") /\ UNCHANGED <<file, row, edges, commits>>
  BY DEF AppendFails
<1> QED
  BY <1>1, AnswerTurns DEF Results, Types, TypeOK

LEMMA HandledResult ==
  ASSUME TypeOK, NEW c \in DOMAIN calls, calls[c].req.kind # "add_edge"
  PROVE  Handled(c).result \in Results
<1> DEFINE r == calls[c].req
<1>1. r.kind \in Kind
  BY CallType, RequestType
<1>2. \A f : Keep(f).result \in Results
  BY DEF Keep, Results
<1>3. Stop("missing").result \in Results /\ Stop("refused").result \in Results
      /\ Stop("ok").result \in Results
  BY DEF Stop, Results
<1>4. \A ok, body : EditBody(c, r, ok, body).result \in Results
  BY <1>2, <1>3 DEF EditBody
<1>5. \A text : ChangeNote(r, text).result \in Results
  BY <1>2, <1>3 DEF ChangeNote
<1> HIDE DEF r
<1>6. OperatorFill(c, r).result \in Results /\ PostNote(c, r).result \in Results
      /\ EditNote(c, r).result \in Results /\ DeleteNote(c, r).result \in Results
  BY <1>2, <1>3, <1>5 DEF OperatorFill, PostNote, EditNote, DeleteNote
<1>7. SectionReplace(c, r).result \in Results /\ SectionAdd(c, r).result \in Results
      /\ SectionRenameHeading(c, r).result \in Results /\ SectionDelete(c, r).result \in Results
  BY <1>4 DEF SectionReplace, SectionAdd, SectionRenameHeading, SectionDelete
<1>8. CreateCanonicalEntity(r).result \in Results /\ CreatePage(c, r).result \in Results
      /\ EditFrontmatter(c, r).result \in Results
  BY <1>2, <1>3 DEF CreateCanonicalEntity, CreatePage, EditFrontmatter
<1>9. AppendNote(c, r).result \in Results /\ SetProperties(c, r).result \in Results
      /\ AddGap(r).result \in Results
  BY <1>2, <1>3 DEF AppendNote, SetProperties, AddGap
<1> QED
  BY <1>1, <1>6, <1>7, <1>8, <1>9 DEF Handled, Kind, Fills, r

\* Where the entity has no row, no edit that was answered is in its file: each mirrors
\* the file before its answer, and none is under way, for the caller has the lock.
LEMMA NoRowSpare ==
  ASSUME EditInv, NEW c \in DOMAIN calls, calls[c].pc = "load",
         calls[c].req.kind # "post_note", row[calls[c].req.on] = None
  PROVE  Spare(calls[c].req.on)
<1> DEFINE e == calls[c].req.on
<1>1. TypeOK /\ StageInv(c) /\ c # 0
  BY CallType DEF EditInv
<1>2. lock[e] = c
  BY <1>1 DEF StageInv, Locks
<1> SUFFICES ASSUME NEW i \in DOMAIN commits, commits[i].on = e, Own(i),
                    calls[commits[i].call].result # "failed"
             PROVE  FALSE
  BY DEF Spare
<1> DEFINE d == commits[i].call
<1>3. CommitInv(i)
  BY DEF EditInv
<1>4. d \in DOMAIN calls /\ calls[d].pc = "mirror"
  BY <1>3 DEF CommitInv, Past
<1>5. StageInv(d)
  BY <1>4 DEF EditInv
<1>6. calls[d].req.on = e /\ calls[d].req.kind # "add_edge"
  BY DEF Own
<1>7. calls[d].req.kind # "post_note"
  BY <1>4, <1>5, <1>6 DEF StageInv
<1>8. lock[e] = d
  BY <1>4, <1>5, <1>6, <1>7 DEF StageInv, Locks, AfterWrite
<1> QED
  BY <1>2, <1>4, <1>8

LEMMA LoadTurns ==
  ASSUME EditInv, NEW c \in DOMAIN calls, Load(c)
  PROVE  Types' /\ Turn(c) /\ StageInv(c)' /\ DraftInv(c)' /\ ParagraphInv(c)'
<1> DEFINE r == calls[c].req
           h == Handled(c)
<1>1. TypeOK /\ StageInv(c) /\ calls[c].pc = "load" /\ UNCHANGED <<file, row, edges, commits>>
  BY DEF EditInv, Load
<1>2. r \in Request /\ r.on \in Entity /\ r.kind # "add_edge"
  BY <1>1, CallType, RequestType DEF StageInv
<1>3. CASE h.result # "none"
  <2>1. h.result \in Results \ {"none"}
    BY <1>1, <1>2, <1>3, HandledResult
  <2>2. Answer(c, h.result)
    BY <1>3 DEF Load
  <2> HIDE DEF h
  <2> QED
    BY <1>1, <2>1, <2>2, AnswerTurns DEF Types, TypeOK
<1>4. CASE h.result = "none"
  <2> DEFINE f == h.file
             b == file[r.on]
  <2>1. Edited(c, r, calls[c].seen, b, f)
    BY <1>1, <1>2, <1>4, HandledEdits DEF Edits
  <2>2. Carry(c, "write", f, b) /\ UNCHANGED lock
    BY <1>4 DEF Load
  <2> HIDE DEF h
  <2>3. f \in Files
    BY <2>1 DEF Edited
  <2>4. b \in Files \cup {None}
    BY <1>1, <1>2 DEF TypeOK
  <2>5. Only(c, "write", calls[c].result, f, b)
    BY <1>1, <2>2, <2>3, <2>4, CarryMoves DEF PCs
  <2>6. Turn(c)
    BY <1>1, <2>2, <2>5, OnlyTurns DEF Past
  <2>7. calls'[c].pc = "write" /\ calls'[c].result = calls[c].result /\ calls'[c].req = r
        /\ calls'[c].copy = f /\ calls'[c].base = b /\ calls'[c].seen = calls[c].seen
    BY <2>5 DEF Only
  <2>8. r.kind \in Actions \cup {"post_note"} => row[r.on] # None
    BY <2>1 DEF Edited
  <2>9. StageInv(c)'
    BY <1>1, <1>2, <2>2, <2>3, <2>7, <2>8 DEF StageInv, Locks, AfterWrite
  <2>10. DraftInv(c)'
    <3>1. \A n \in 1..MaxCalls : Past(n) => Past(n)'
      BY <2>6 DEF Turn, Past
    <3>2. OldNotes(b)
      BY <1>2 DEF EditInv
    <3>3. OldNotes(calls[c].base)'
      BY <2>7, <3>1, <3>2 DEF OldNotes
    <3>4. \A n \in 1..MaxCalls : f.notes[n] # 0 => n = c \/ Past(n)'
      BY <2>1, <3>1, <3>2 DEF Edited, OldNotes
    <3>5. b # None /\ ~KeepsRest(c, r, calls[c].seen, b, f) => r.kind # "post_note" /\ Spare(r.on)'
      <4>1. SUFFICES ASSUME b # None, ~KeepsRest(c, r, calls[c].seen, b, f)
                     PROVE  r.kind # "post_note" /\ Spare(r.on)'
        OBVIOUS
      <4>2. row[r.on] = None /\ r.kind # "post_note"
        BY <2>1, <2>8, <4>1 DEF Edited
      <4>3. Spare(r.on)
        BY <1>1, <4>2, NoRowSpare
      <4>4. \A i \in DOMAIN commits : commits[i].call \in DOMAIN calls \ {c}
        BY <1>1 DEF EditInv, CommitInv, Past
      <4>5. \A i \in DOMAIN commits : calls'[commits[i].call] = calls[commits[i].call]
        BY <2>5, <4>4 DEF Only
      <4>6. Spare(r.on)'
        BY <1>1, <2>7, <4>3, <4>5 DEF Spare, Own
      <4> QED
        BY <4>2, <4>6
    <3>6. Effect(c, r, f) /\ (r.kind \in {"edit_note", "delete_note"} => b # None /\ b.notes[r.note] # 0)
      BY <2>1 DEF Edited
    <3> HIDE DEF b, f
    <3>7. calls'[c].req = r /\ b = file'[r.on]
      BY <1>1, <2>7 DEF b
    <3> QED
      BY <2>7, <3>3, <3>4, <3>5, <3>6, <3>7 DEF DraftInv
  <2>11. ParagraphInv(c)'
    BY <2>7 DEF ParagraphInv
  <2>12. Types'
    BY <1>1, <2>2, <2>5 DEF Types, TypeOK, Only
  <2> QED
    BY <2>6, <2>9, <2>10, <2>11, <2>12
<1> QED
  BY <1>3, <1>4

LEMMA CallTurns ==
  ASSUME EditInv, NEW r \in Request, Call(r)
  PROVE  \E c \in 1..MaxCalls :
           /\ Types' /\ Turn(c) /\ StageInv(c)' /\ DraftInv(c)' /\ ParagraphInv(c)'
           /\ c \notin DOMAIN calls
<1>0. PICK c : c = Len(calls) + 1
  OBVIOUS
<1> DEFINE seen == IF r.kind \in Sections THEN Editable(r).body ELSE NoSections
           pc == CASE r.kind = "post_note" -> "load" [] r.kind = "add_edge" -> "edge"
                   [] OTHER -> "lock"
           k == [req |-> r, copy |-> None, base |-> None, result |-> "none",
                 seen |-> seen, pc |-> pc]
<1>1. TypeOK /\ Len(calls) < MaxCalls /\ calls' = Append(calls, k)
      /\ UNCHANGED <<file, row, edges, lock, commits>>
  BY DEF EditInv, Call
<1>2. seen \in [Heading -> Num]
  <2>1. Editable(r) \in Files
    BY <1>1, RequestType, NewLabelType DEF Editable, TypeOK
  <2>2. Editable(r).body \in [Heading -> Num]
    BY <2>1 DEF Files
  <2>3. NoSections \in [Heading -> Num]
    BY BoundAssumption DEF NoSections, Num
  <2> QED
    BY <2>2, <2>3
<1>3. pc \in {"load", "edge", "lock"} /\ (pc = "load" => r.kind = "post_note")
      /\ (pc = "edge" => r.kind = "add_edge") /\ (pc # "edge" => r.kind # "add_edge")
  OBVIOUS
<1> HIDE DEF seen, pc
<1>4. k \in Calls
  BY <1>2, <1>3 DEF Calls, Results
<1>5. k.req = r /\ k.pc = pc /\ k.result = "none"
  OBVIOUS
<1> HIDE DEF k
<1>6. calls \in Seq(Calls) /\ Len(calls) \in Nat /\ DOMAIN calls = 1..Len(calls)
  BY <1>1 DEF TypeOK
<1>7. /\ calls' \in Seq(Calls) /\ Len(calls') = c /\ DOMAIN calls' = 1..c
      /\ calls'[c] = k /\ \A d \in DOMAIN calls : calls'[d] = calls[d]
  BY <1>0, <1>1, <1>4, <1>6
<1>8. c \in 1..MaxCalls /\ c \notin DOMAIN calls /\ DOMAIN calls' = DOMAIN calls \cup {c}
  BY <1>0, <1>1, <1>6, <1>7, BoundAssumption
<1>9. Types'
  BY <1>0, <1>1, <1>7, <1>8, BoundAssumption DEF Types, TypeOK
<1>10. Turn(c)
  <2>1. ~Past(c)
    BY <1>8 DEF Past
  <2>2. calls'[c].pc # "done"
    BY <1>3, <1>5, <1>7
  <2> QED
    BY <1>1, <1>7, <1>8, <2>1, <2>2 DEF Turn
<1>11. StageInv(c)'
  BY <1>1, <1>3, <1>5, <1>7 DEF StageInv, Locks, AfterWrite
<1>12. DraftInv(c)' /\ ParagraphInv(c)'
  BY <1>3, <1>5, <1>7 DEF DraftInv, ParagraphInv
<1> QED
  BY <1>8, <1>9, <1>10, <1>11, <1>12

----------------------------------------------------------------------------
(* What a step of one call leaves alone of the others.                       *)

\* A later edit may have undone the i-th commit's.
Undone(i) ==
  LET c == commits[i].call
  IN \E j \in i + 1..Len(commits) :
       LET d == calls[commits[j].call]
       IN commits[j].on = commits[i].on /\ Own(j) /\ Supersedes(d.req, d.seen, c, calls[c].req)

LEMMA TypeStep ==
  ASSUME EditInv, NEW c, Types', Turn(c), Grows, StageInv(c)'
  PROVE  TypeOK' /\ \A d \in DOMAIN calls' : StageInv(d)'
<1>1. ASSUME NEW d \in DOMAIN calls' \ {c}
      PROVE  StageInv(d)' /\ d \in DOMAIN calls
             /\ (calls'[d].pc = "done" => \A e \in Entity : lock'[e] # d)
  <2>1. d \in DOMAIN calls /\ calls'[d] = calls[d] /\ TypeOK /\ StageInv(d)
    BY <1>1 DEF Turn, EditInv
  <2>2. d # 0 /\ calls[d].req.on \in Entity /\ calls[d].req.target \in Entity
    BY <2>1, CallType, RequestType DEF Label
  <2>3. \A e \in Entity : lock[e] = d <=> lock'[e] = d
    BY <1>1, <2>2 DEF Turn
  <2>4. \A e \in Entity : row[e] # None => row'[e] # None
    BY DEF Grows
  <2>5. Locks(d)' <=> Locks(d)
    BY <2>1 DEF Locks
  <2>6. StageInv(d)'
    BY <2>1, <2>2, <2>3, <2>4, <2>5 DEF StageInv
  <2>7. calls[d].pc = "done" => \A e \in Entity : lock[e] # d
    BY <2>1 DEF TypeOK
  <2> QED
    BY <2>1, <2>3, <2>6, <2>7
<1>2. \A d \in DOMAIN calls' : StageInv(d)'
  BY <1>1
<1>3. \A d \in DOMAIN calls' : calls'[d].pc = "done" => d \notin {lock'[e] : e \in Entity}
  BY <1>1 DEF Turn
<1>4. ASSUME NEW d \in DOMAIN calls'
      PROVE  /\ calls'[d].pc \in {"load", "write", "mirror"} /\ calls'[d].req.kind # "post_note"
                  => lock'[calls'[d].req.on] = d
             /\ calls'[d].pc = "paragraph" => lock'[calls'[d].req.target] = d
  BY <1>2, <1>4 DEF StageInv, Locks, AfterWrite
<1> QED
  BY <1>2, <1>3, <1>4 DEF Types, TypeOK

LEMMA History ==
  ASSUME EditInv, NEW c, Types', Turn(c), Grows
  PROVE  /\ \A d : Past(d) => Past(d)'
         /\ \A e : Noted(e) => Noted(e)'
         /\ \A e : Clobbered(e) => Clobbered(e)'
         /\ \A i \in DOMAIN commits :
              /\ i \in DOMAIN commits' /\ commits'[i] = commits[i]
              /\ commits[i].call \in DOMAIN calls
              /\ calls'[commits[i].call].req = calls[commits[i].call].req
              /\ Own(i)' <=> Own(i)
              /\ Undone(i) => Undone(i)'
<1>1. commits \in Seq(Commits) /\ commits' \in Seq(Commits)
  BY DEF EditInv, TypeOK, Types
<1>2. Len(commits) \in Nat /\ DOMAIN commits = 1..Len(commits)
      /\ Len(commits') \in Nat /\ DOMAIN commits' = 1..Len(commits')
  BY <1>1
<1>3. \A i \in DOMAIN commits :
        i \in DOMAIN commits' /\ commits'[i] = commits[i]
  BY <1>2 DEF Grows
<1>4. \A i \in DOMAIN commits : commits[i].call \in DOMAIN calls
  BY DEF EditInv, CommitInv, Past
<1>5. \A d \in DOMAIN calls : calls'[d].req = calls[d].req /\ calls'[d].seen = calls[d].seen
  BY DEF Turn
<1>6. \A d : Past(d) => Past(d)'
  BY DEF Turn, Past
<1>7. \A e : Noted(e) => Noted(e)'
  BY <1>3, <1>4, <1>5 DEF Noted
<1>8. \A e : Clobbered(e) => Clobbered(e)'
  BY <1>3, <1>7 DEF Clobbered
<1>9. \A i \in DOMAIN commits : Own(i)' <=> Own(i)
  BY <1>3, <1>4, <1>5 DEF Own
<1>10. ASSUME NEW i \in DOMAIN commits, Undone(i)
       PROVE  Undone(i)'
  <2> DEFINE k == calls[commits[i].call]
  <2>1. PICK j \in i + 1..Len(commits) :
          /\ commits[j].on = commits[i].on /\ Own(j)
          /\ Supersedes(calls[commits[j].call].req, calls[commits[j].call].seen,
                        commits[i].call, calls[commits[i].call].req)
    BY <1>10 DEF Undone
  <2>2. j \in DOMAIN commits /\ j \in i + 1..Len(commits')
    BY <1>2, <2>1 DEF Grows
  <2>3. commits'[j] = commits[j] /\ commits'[i] = commits[i] /\ Own(j)'
        /\ calls'[commits[j].call].req = calls[commits[j].call].req
        /\ calls'[commits[j].call].seen = calls[commits[j].call].seen
        /\ calls'[commits[i].call].req = calls[commits[i].call].req
    BY <1>3, <1>4, <1>5, <1>9, <2>1, <2>2
  <2> QED
    BY <2>1, <2>2, <2>3 DEF Undone
<1> QED
  BY <1>3, <1>4, <1>5, <1>6, <1>7, <1>8, <1>9, <1>10

LEMMA SilentStep ==
  ASSUME EditInv, NEW c, Types', Turn(c), UNCHANGED <<file, commits>>,
         \A e \in Entity : row[e] # None => row'[e] # None,
         StageInv(c)', DraftInv(c)', ParagraphInv(c)',
         c \in DOMAIN calls /\ calls[c].pc = "mirror" /\ calls'[c].pc # "mirror"
           /\ calls'[c].result # "failed" => row'[calls[c].req.on] # None
  PROVE  EditInv' /\ Grows
<1>1. Grows
  BY DEF Grows, EditInv, TypeOK
<1>2. TypeOK' /\ \A d \in DOMAIN calls' : StageInv(d)'
  BY <1>1, TypeStep
<1> DEFINE Old(i) == /\ i \in DOMAIN commits' /\ commits'[i] = commits[i]
                     /\ commits[i].call \in DOMAIN calls
                     /\ calls'[commits[i].call].req = calls[commits[i].call].req
                     /\ Own(i)' <=> Own(i)
                     /\ Undone(i) => Undone(i)'
<1>3. /\ \A d : Past(d) => Past(d)'
      /\ \A e : Noted(e) => Noted(e)'
      /\ \A e : Clobbered(e) => Clobbered(e)'
      /\ \A i \in DOMAIN commits : Old(i)
  BY <1>1, History
<1>4. \A f : OldNotes(f) => OldNotes(f)'
  BY <1>3 DEF OldNotes
<1>5. \A d \in DOMAIN calls : calls[d].result = "failed" => calls'[d].result = "failed"
  BY DEF Turn
<1>6. \A e : Spare(e) => Spare(e)'
  BY <1>3, <1>5 DEF Spare
<1>7. ASSUME NEW d \in DOMAIN calls' \ {c}
      PROVE  DraftInv(d)' /\ ParagraphInv(d)'
  <2>1. d \in DOMAIN calls /\ calls'[d] = calls[d]
    BY <1>7 DEF Turn
  <2>2. DraftInv(d) /\ ParagraphInv(d)
    BY <2>1 DEF EditInv
  <2>3. \A n \in 1..MaxCalls : Past(n) => Past(n)'
    BY <1>3
  <2>4. OldNotes(calls[d].base) => OldNotes(calls[d].base)'
    BY <2>1, <2>3 DEF OldNotes
  <2>5. DraftInv(d)'
    BY <1>3, <1>6, <2>1, <2>2, <2>3, <2>4 DEF DraftInv
  <2>6. ParagraphInv(d)'
    BY <1>3, <2>1, <2>2, <2>4 DEF ParagraphInv
  <2> QED
    BY <2>5, <2>6
<1>8. \A e \in Entity : OldNotes(file[e])'
  BY <1>3 DEF OldNotes, EditInv
<1>9. ASSUME NEW i \in DOMAIN commits'
      PROVE  CommitInv(i)'
  <2> DEFINE e == commits[i].on
             d == commits[i].call
  <2>1. i \in DOMAIN commits /\ commits'[i] = commits[i]
    OBVIOUS
  <2>2. CommitInv(i) /\ Old(i) /\ e \in Entity
    <3>1. CommitInv(i) /\ commits \in Seq(Commits)
      BY <2>1 DEF EditInv, TypeOK
    <3>2. commits[i] \in Commits
      BY <2>1, <3>1
    <3>3. Old(i)
      BY <1>3, <2>1
    <3> QED
      BY <3>1, <3>2, <3>3 DEF Commits
  <2>3. Stands(i) => Stands(i)'
    BY <2>2 DEF Stands, Undone
  <2>4. Own(i) /\ calls'[d].result # "failed" =>
          /\ calls[d].result # "failed"
          /\ calls'[d].pc # "mirror" => row'[e] # None
    <3>1. SUFFICES ASSUME Own(i), calls'[d].result # "failed"
                   PROVE  /\ calls[d].result # "failed"
                          /\ calls'[d].pc # "mirror" => row'[e] # None
      OBVIOUS
    <3>2. calls[d].result # "failed" /\ d \in DOMAIN calls
      BY <1>5, <2>2, <3>1
    <3>3. e = calls[d].req.on
      BY <3>1 DEF Own
    <3>4. calls[d].pc # "mirror" => row[e] # None
      BY <2>2, <3>1, <3>2 DEF CommitInv
    <3>5. CASE calls[d].pc # "mirror"
      BY <2>2, <3>2, <3>4, <3>5
    <3>6. CASE calls[d].pc = "mirror"
      BY <3>1, <3>2, <3>3, <3>6 DEF Turn
    <3> QED
      BY <3>5, <3>6
  <2> QED
    BY <1>3, <2>1, <2>2, <2>3, <2>4 DEF CommitInv
<1> QED
  BY <1>1, <1>2, <1>7, <1>8, <1>9 DEF EditInv

----------------------------------------------------------------------------
(* What a commit leaves of the earlier ones.                                 *)

\* An edit that saw the file leaves an earlier one in it, or is of the same thing.
LEMMA KeepsEffect ==
  ASSUME NEW c, NEW r \in Request, NEW seen, NEW b \in Files, NEW f \in Files,
         KeepsRest(c, r, seen, b, f),
         NEW d \in 1..MaxCalls, NEW q \in Request, d # c, Effect(d, q, b),
         q.kind \in {"edit_note", "delete_note"} => q.note # c,
         r.kind \in {"edit_note", "delete_note"} => b.notes[r.note] # 0
  PROVE  Effect(d, q, f) \/ Supersedes(r, seen, d, q)
<1>0. q.kind \in Kind /\ q.gap \in Gap /\ q.note \in 1..MaxCalls /\ q.sec \in Heading
      /\ q.newsec \in Heading
  BY RequestType
<1>1. CASE q.kind \in {"fill", "set_property", "clear"} \cup Frontmatter
  <2>1. b.data[q.gap] = f.data[q.gap] => Effect(d, q, f)
    BY <1>1 DEF Effect, Frontmatter, Sections
  <2>2. b.data[q.gap] # f.data[q.gap] =>
          r.kind = "frontmatter" \/ (r.kind \in {"fill", "clear", "set_property"} /\ r.gap = q.gap)
    BY <1>0 DEF KeepsRest
  <2> QED
    BY <1>1, <2>1, <2>2 DEF Supersedes, Frontmatter, Sections
<1>2. CASE q.kind \in {"defer", "undefer"}
  <2>1. b.state[q.gap] = f.state[q.gap] => Effect(d, q, f)
    BY <1>2 DEF Effect, Frontmatter, Sections
  <2>2. b.state[q.gap] # f.state[q.gap] => r.kind \in Fills \cup {"add_gap"} /\ r.gap = q.gap
    BY <1>0 DEF KeepsRest
  <2> QED
    BY <1>2, <2>1, <2>2 DEF Supersedes, Frontmatter, Sections
<1>3. CASE q.kind = "add_gap"
  <2>1. q.gap \in b.open
    BY <1>3 DEF Effect, Frontmatter, Sections
  <2>2. q.gap \in f.open => Effect(d, q, f)
    BY <1>3 DEF Effect, Frontmatter, Sections
  <2>3. q.gap \notin f.open => r.kind = "fill" /\ r.gap = q.gap
    BY <2>1 DEF KeepsRest
  <2> QED
    BY <1>3, <2>2, <2>3 DEF Supersedes, Frontmatter, Sections
<1>4. CASE q.kind \in {"post_note", "add_note"}
  <2>1. b.notes[d] = d
    BY <1>4 DEF Effect, Frontmatter, Sections
  <2>2. f.notes[d] = d => Effect(d, q, f)
    BY <1>4 DEF Effect, Frontmatter, Sections
  <2>3. f.notes[d] # d => r.kind \in {"edit_note", "delete_note"} /\ r.note = d
    BY <2>1 DEF KeepsRest
  <2> QED
    BY <1>4, <2>2, <2>3 DEF Supersedes, Frontmatter, Sections
<1>5. CASE q.kind = "edit_note"
  <2>1. b.notes[q.note] = d
    BY <1>5 DEF Effect, Frontmatter, Sections
  <2>2. f.notes[q.note] = d => Effect(d, q, f)
    BY <1>5 DEF Effect, Frontmatter, Sections
  <2>3. f.notes[q.note] # d => r.kind \in {"edit_note", "delete_note"} /\ r.note = q.note
    BY <1>0, <1>5, <2>1 DEF KeepsRest
  <2> QED
    BY <1>5, <2>2, <2>3 DEF Supersedes, Frontmatter, Sections
<1>6. CASE q.kind = "delete_note"
  <2>1. b.notes[q.note] = 0
    BY <1>6 DEF Effect, Frontmatter, Sections
  <2>2. f.notes[q.note] = 0
    BY <1>0, <1>6, <2>1 DEF KeepsRest
  <2> QED
    BY <1>6, <2>2 DEF Effect, Frontmatter, Sections
<1>7. CASE q.kind \in Sections
  <2>1. Written(d, q, b.body)
    BY <1>7 DEF Effect, Frontmatter, Sections
  <2>2. f.body = b.body => Effect(d, q, f)
    BY <1>7, <2>1 DEF Effect, Frontmatter, Sections
  <2>3. f.body # b.body => r.kind \in Sections /\ Written(d, q, seen)
    BY <2>1 DEF KeepsRest
  <2> QED
    BY <1>7, <2>2, <2>3 DEF Supersedes, Frontmatter, Sections
<1>8. CASE q.kind \in {"create", "add_edge"}
  BY <1>8 DEF Effect, Frontmatter, Sections
<1> QED
  BY <1>0, <1>1, <1>2, <1>3, <1>4, <1>5, <1>6, <1>7, <1>8 DEF Kind, Sections, Frontmatter

\* A paragraph in the dataview undoes nothing.
LEMMA ParagraphKeeps ==
  ASSUME NEW b \in Files, NEW p, NEW d, NEW q \in Request, Effect(d, q, b)
  PROVE  Effect(d, q, [b EXCEPT !.dataview = @ \cup {p}])
<1> DEFINE f == [b EXCEPT !.dataview = @ \cup {p}]
<1>1. f.data = b.data /\ f.state = b.state /\ f.notes = b.notes /\ f.open = b.open /\ f.body = b.body
  BY DEF Files
<1> HIDE DEF f
<1>2. Effect(d, q, f)
  BY <1>1 DEF Effect, Frontmatter, Sections
<1> QED
  BY <1>2 DEF f

\* Call c commits file f of entity e, which nobody else may have changed meanwhile but
\* for the notes endpoint.
LEMMA CommitStep ==
  ASSUME EditInv, NEW c \in DOMAIN calls, NEW e \in Entity, NEW f \in Files,
         Types', Turn(c), StageInv(c)', DraftInv(c)', ParagraphInv(c)',
         row' = row, Replace(c, e, f), Past(c)',
         calls[c].pc # "mirror",
         \A n \in 1..MaxCalls : f.notes[n] # 0 => n = c \/ Past(n),
         \/ lock[e] = c
         \/ calls[c].req.kind = "post_note" /\ calls[c].req.on = e /\ f.notes[c] = c /\ ~Past(c),
         calls[c].req.kind = "post_note" \/ Noted(e) \/ calls[c].base = file[e],
         calls[c].req.kind = "post_note" => calls[c].req.on = e,
         calls[c].req.kind \in {"edit_note", "delete_note"} => Past(calls[c].req.note),
         calls[c].req.on = e /\ calls[c].req.kind # "add_edge" =>
           Effect(c, calls[c].req, f) /\ calls'[c].pc = "mirror",
         \A i \in DOMAIN commits :
           commits[i].on = e /\ Own(i) /\ calls[commits[i].call].result # "failed"
             /\ Effect(commits[i].call, calls[commits[i].call].req, file[e])
             /\ file[e] = calls[c].base =>
             \/ Effect(commits[i].call, calls[commits[i].call].req, f)
             \/ /\ calls[c].req.on = e /\ calls[c].req.kind # "add_edge"
                /\ Supersedes(calls[c].req, calls[c].seen, commits[i].call,
                              calls[commits[i].call].req)
  PROVE  EditInv' /\ Grows
<1> DEFINE r == calls[c].req
<1>n. PICK n : n = Len(commits)
  OBVIOUS
<1>x. PICK x : x = [call |-> c, on |-> e, outdated |-> file[e] # calls[c].base]
  OBVIOUS
<1>o. x.call = c /\ x.on = e /\ (x.outdated <=> file[e] # calls[c].base)
  BY <1>x
<1>1. TypeOK /\ c \in 1..MaxCalls /\ r \in Request /\ c # 0
  BY CallType DEF EditInv
<1>2. commits' = Append(commits, x) /\ file' = [file EXCEPT ![e] = f] /\ x \in Commits
  BY <1>1, <1>x DEF Replace, Commits
<1>3. /\ n \in Nat /\ DOMAIN commits = 1..n /\ Len(commits') = n + 1 /\ DOMAIN commits' = 1..(n + 1)
      /\ commits'[n + 1] = x /\ \A i \in DOMAIN commits : commits'[i] = commits[i]
  <2>1. commits \in Seq(Commits)
    BY <1>1 DEF TypeOK
  <2> QED
    BY <1>2, <1>n, <2>1
<1>4. Grows
  BY <1>3, <1>n DEF Grows
<1>5. TypeOK' /\ \A d \in DOMAIN calls' : StageInv(d)'
  BY <1>4, TypeStep
<1> DEFINE Old(i) == /\ i \in DOMAIN commits' /\ commits'[i] = commits[i]
                     /\ commits[i].call \in DOMAIN calls
                     /\ calls'[commits[i].call].req = calls[commits[i].call].req
                     /\ Own(i)' <=> Own(i)
                     /\ Undone(i) => Undone(i)'
<1>6. /\ \A d : Past(d) => Past(d)'
      /\ \A z : Noted(z) => Noted(z)'
      /\ \A z : Clobbered(z) => Clobbered(z)'
      /\ \A i \in DOMAIN commits : Old(i)
  BY <1>4, History
<1>7. file'[e] = f /\ f # None /\ \A z \in Entity : z # e => file'[z] = file[z]
  BY <1>1, <1>2, NoneDiffers DEF TypeOK
<1>8. r.kind = "post_note" => Noted(e)'
  <2>1. calls'[c].req = r
    BY DEF Turn
  <2>2. n + 1 \in DOMAIN commits' /\ commits'[n + 1].on = e /\ commits'[n + 1].call = c
    BY <1>3, <1>o
  <2> QED
    BY <2>1, <2>2 DEF Noted
<1>9. x.outdated => Clobbered(e)' /\ Noted(e)'
  <2>1. n + 1 \in DOMAIN commits' /\ commits'[n + 1].on = e
        /\ commits'[n + 1].outdated = x.outdated
    BY <1>3, <1>o
  <2>2. x.outdated => Noted(e)'
    BY <1>6, <1>8, <1>o
  <2> QED
    BY <2>1, <2>2 DEF Clobbered
<1>10. \A d \in DOMAIN calls : calls[d].result = "failed" => calls'[d].result = "failed"
  BY DEF Turn
<1>11. \A z \in Entity : z # e /\ Spare(z) => Spare(z)'
  <2>1. commits'[n + 1].on = e
    BY <1>3, <1>o
  <2> QED
    BY <1>3, <1>6, <1>10, <2>1 DEF Spare
\* Whoever else has a copy of the file lacks the lock, or the note.
<1>12. ASSUME NEW d \in DOMAIN calls' \ {c}
       PROVE  DraftInv(d)' /\ ParagraphInv(d)'
  <2>1. d \in DOMAIN calls /\ calls'[d] = calls[d]
    BY <1>12 DEF Turn
  <2>2. DraftInv(d) /\ ParagraphInv(d) /\ StageInv(d)
    BY <2>1 DEF EditInv
  <2>3. calls[d].req.on \in Entity /\ calls[d].req.target \in Entity /\ d # c
    BY <1>1, <1>12, <2>1, CallType, RequestType DEF Label
  <2>4. OldNotes(calls[d].base) => OldNotes(calls[d].base)'
    BY <1>6, <2>1 DEF OldNotes
  <2>5. ParagraphInv(d)'
    <3>1. SUFFICES ASSUME calls[d].pc = "paragraph"
                   PROVE  ParagraphInv(d)'
      BY <2>1 DEF ParagraphInv
    <3>2. lock[calls[d].req.target] = d
      BY <2>2, <3>1 DEF StageInv
    <3>3. ~Noted(calls[d].req.target)' => calls[d].base = file'[calls[d].req.target]
      <4>1. CASE calls[d].req.target = e
        BY <1>8, <2>1, <2>3, <3>2, <4>1
      <4>2. CASE calls[d].req.target # e
        BY <1>6, <1>7, <2>1, <2>2, <2>3, <3>1, <4>2 DEF ParagraphInv
      <4> QED
        BY <4>1, <4>2
    <3> QED
      BY <2>1, <2>2, <2>4, <3>1, <3>3 DEF ParagraphInv
  <2>6. DraftInv(d)'
    <3>1. SUFFICES ASSUME calls[d].pc = "write"
                   PROVE  DraftInv(d)'
      BY <2>1 DEF DraftInv
    <3> DEFINE q == calls[d].req
               b == calls[d].base
    <3>2. q.kind # "post_note" => lock[q.on] = d
      BY <2>2, <3>1 DEF StageInv, Locks
    <3>3. q.kind # "post_note" /\ q.on = e => r.kind = "post_note" /\ f.notes[c] = c /\ ~Past(c)
      BY <2>3, <3>2
    <3>4. q.kind # "post_note" /\ ~Noted(q.on)' => b = file'[q.on]
      BY <1>6, <1>7, <1>8, <2>1, <2>2, <2>3, <3>1, <3>3 DEF DraftInv
    <3>5. q.kind # "post_note" /\ (b = file[q.on] => Spare(q.on)) /\ b # None =>
            (b = file'[q.on] => Spare(q.on)')
      <4>1. CASE q.on # e
        BY <1>7, <1>11, <2>1, <2>3, <4>1
      <4>2. CASE q.on = e /\ q.kind # "post_note" /\ b # None
        <5>1. f.notes[c] # 0 /\ ~Past(c)
          BY <1>1, <3>3, <4>2
        <5>2. OldNotes(b)
          BY <2>2, <3>1 DEF DraftInv
        <5>3. b.notes[c] = 0
          BY <1>1, <4>2, <5>1, <5>2 DEF OldNotes
        <5>4. b # file'[q.on]
          BY <1>7, <4>2, <5>1, <5>3
        <5> QED
          BY <5>4
      <4> QED
        BY <4>1, <4>2
    <3> HIDE DEF q, b
    <3>6. \A m \in 1..MaxCalls : calls[d].copy.notes[m] # 0 => m = d \/ Past(m)'
      BY <1>6, <2>2, <3>1 DEF DraftInv
    <3>7. /\ Effect(d, q, calls[d].copy) /\ OldNotes(b)
          /\ q.kind \in {"edit_note", "delete_note"} => b # None /\ b.notes[q.note] # 0
          /\ \/ b = None
             \/ KeepsRest(d, q, calls[d].seen, b, calls[d].copy)
             \/ q.kind # "post_note" /\ (b = file[q.on] => Spare(q.on))
      BY <2>2, <3>1 DEF DraftInv, q, b
    <3>8. /\ \/ b = None
             \/ KeepsRest(d, q, calls[d].seen, b, calls[d].copy)
             \/ q.kind # "post_note" /\ (b = file'[q.on] => Spare(q.on)')
      BY <3>5, <3>7
    <3> QED
      BY <2>1, <2>4, <3>1, <3>4, <3>6, <3>7, <3>8 DEF DraftInv, q, b
  <2> QED
    BY <2>5, <2>6
<1>13. \A z \in Entity : OldNotes(file[z])'
  <2>1. \A m \in 1..MaxCalls : f.notes[m] # 0 => Past(m)'
    BY <1>6
  <2>2. \A z \in Entity : OldNotes(file[z])
    BY DEF EditInv
  <2> QED
    BY <1>6, <1>7, <2>1, <2>2 DEF OldNotes
<1>14. ASSUME NEW i \in DOMAIN commits
       PROVE  CommitInv(i)'
  <2> DEFINE d == commits[i].call
             z == commits[i].on
             q == calls[d].req
  <2>1. CommitInv(i) /\ Old(i) /\ z \in Entity
    <3>1. CommitInv(i) /\ commits \in Seq(Commits)
      BY <1>1 DEF EditInv, TypeOK
    <3>2. commits[i] \in Commits
      BY <3>1
    <3>3. Old(i)
      BY <1>6
    <3> QED
      BY <3>1, <3>2, <3>3 DEF Commits
  <2>2. Own(i) /\ calls'[d].result # "failed" /\ Stands(i) => Stands(i)' \/ Clobbered(z)'
    <3>1. SUFFICES ASSUME Own(i), calls'[d].result # "failed", Stands(i)
                   PROVE  Stands(i)' \/ Clobbered(z)'
      OBVIOUS
    <3>2. Undone(i) => Stands(i)'
      BY <2>1 DEF Stands, Undone
    <3>3. CASE Effect(d, q, file[z]) /\ z # e
      BY <1>7, <2>1, <3>3 DEF Stands
    <3>4. CASE Effect(d, q, file[z]) /\ z = e
      <4>1. CASE file[e] # calls[c].base
        BY <1>9, <1>o, <2>1, <3>4, <4>1
      <4>2. CASE file[e] = calls[c].base
        <5>1. calls[d].result # "failed"
          BY <1>10, <2>1, <3>1
        <5>2. Effect(d, q, f) => Stands(i)'
          BY <1>7, <2>1, <3>4 DEF Stands
        <5>3. ASSUME r.on = e, r.kind # "add_edge", Supersedes(r, calls[c].seen, d, q)
              PROVE  Stands(i)'
          <6>1. calls'[c].req = r /\ calls'[c].seen = calls[c].seen
            BY DEF Turn
          <6>2. n + 1 \in i + 1..Len(commits') /\ n + 1 \in DOMAIN commits'
            BY <1>3
          <6>3. commits'[n + 1].on = e /\ commits'[n + 1].call = c
            BY <1>3, <1>o
          <6>4. Own(n + 1)'
            BY <5>3, <6>1, <6>2, <6>3 DEF Own
          <6>5. calls'[d].req = q /\ commits'[i] = commits[i]
            BY <2>1
          <6>6. PICK j \in i + 1..Len(commits') : j = n + 1
            BY <6>2
          <6>7. Own(j)'
            BY <1>3, <6>4, <6>6
          <6> HIDE DEF r, q
          <6> QED
            BY <3>4, <5>3, <6>1, <6>3, <6>5, <6>6, <6>7 DEF Stands
        <5> QED
          BY <3>1, <3>4, <4>2, <5>1, <5>2, <5>3
      <4> QED
        BY <4>1, <4>2
    <3> QED
      BY <3>1, <3>2, <3>3, <3>4 DEF Stands, Undone
  <2>3. Own(i) /\ calls'[d].result # "failed" /\ calls'[d].pc # "mirror" => row'[z] # None
    <3>1. calls[d].pc # "mirror" \/ d # c
      OBVIOUS
    <3>2. calls'[d].pc # "mirror" => calls[d].pc # "mirror"
      BY <2>1 DEF Turn
    <3> QED
      BY <1>10, <2>1, <3>2 DEF CommitInv
  <2>4. calls[d].result = "failed" => calls'[d].result = "failed"
    BY <1>10, <2>1
  <2>5. file'[z] # None
    BY <1>7, <2>1 DEF CommitInv
  <2> QED
    BY <1>6, <2>1, <2>2, <2>3, <2>4, <2>5 DEF CommitInv
<1>15. CommitInv(n + 1)'
  <2>1. commits'[n + 1].on = e /\ commits'[n + 1].call = c
        /\ commits'[n + 1].outdated = x.outdated
    BY <1>3, <1>o
  <2>2. calls'[c].req = r
    BY DEF Turn
  <2>3. Own(n + 1)' => Stands(n + 1)' /\ calls'[c].pc = "mirror"
    <3>1. SUFFICES ASSUME Own(n + 1)'
                   PROVE  Stands(n + 1)' /\ calls'[c].pc = "mirror"
      OBVIOUS
    <3>2. r.on = e /\ r.kind # "add_edge"
      BY <2>1, <2>2, <3>1 DEF Own
    <3>3. Effect(c, r, f) /\ calls'[c].pc = "mirror"
      BY <3>2
    <3> QED
      BY <1>7, <2>1, <2>2, <3>3 DEF Stands
  <2> QED
    BY <1>6, <1>7, <1>9, <2>1, <2>2, <2>3 DEF CommitInv
<1>16. \A i \in DOMAIN commits' : CommitInv(i)'
  <2>1. \A i \in DOMAIN commits' : i \in DOMAIN commits \/ i = n + 1
    BY <1>3
  <2> QED
    BY <1>14, <1>15, <2>1
<1> QED
  BY <1>4, <1>5, <1>12, <1>13, <1>16 DEF EditInv

LEMMA WriteKeeps ==
  ASSUME EditInv, NEW c \in DOMAIN calls, Write(c)
  PROVE  EditInv' /\ Grows
<1> DEFINE r == calls[c].req
           e == r.on
           f == calls[c].copy
           b == calls[c].base
<1>1. TypeOK /\ StageInv(c) /\ DraftInv(c) /\ calls[c].pc = "write"
  BY DEF EditInv, Write
<1>2. r \in Request /\ e \in Entity /\ c \in 1..MaxCalls /\ c # 0
  BY <1>1, CallType, RequestType
<1>3. Types' /\ Turn(c) /\ StageInv(c)' /\ DraftInv(c)' /\ ParagraphInv(c)'
      /\ calls'[c].pc = "mirror" /\ f \in Files
  BY <1>1, WriteTurns
<1>4. Past(c)' /\ ~Past(c)
  BY <1>1, <1>3 DEF Past, Turn
<1>5. row' = row /\ Replace(c, e, f)
  BY DEF Write
<1>6. /\ r.kind # "post_note" /\ ~Noted(e) => b = file[e]
      /\ Effect(c, r, f)
      /\ \/ b = None
         \/ KeepsRest(c, r, calls[c].seen, b, f)
         \/ r.kind # "post_note" /\ (b = file[e] => Spare(e))
      /\ r.kind \in {"edit_note", "delete_note"} => b # None /\ b.notes[r.note] # 0
      /\ OldNotes(b)
      /\ \A n \in 1..MaxCalls : f.notes[n] # 0 => n = c \/ Past(n)
  BY <1>1 DEF DraftInv
<1>7. r.kind # "add_edge" /\ (r.kind # "post_note" => lock[e] = c)
  BY <1>1 DEF StageInv, Locks
<1>8. r.kind = "post_note" => f.notes[c] = c
  BY <1>6 DEF Effect, Frontmatter, Sections
<1>9. r.kind \in {"edit_note", "delete_note"} => Past(r.note)
  BY <1>2, <1>6, RequestType DEF OldNotes
<1>10. ASSUME NEW i \in DOMAIN commits, commits[i].on = e, Own(i),
              calls[commits[i].call].result # "failed",
              Effect(commits[i].call, calls[commits[i].call].req, file[e]), file[e] = b
       PROVE  \/ Effect(commits[i].call, calls[commits[i].call].req, f)
              \/ Supersedes(r, calls[c].seen, commits[i].call, calls[commits[i].call].req)
  <2> DEFINE d == commits[i].call
             q == calls[d].req
  <2>1. CommitInv(i)
    BY DEF EditInv
  <2>2. d \in DOMAIN calls /\ Past(d) /\ file[e] # None
        /\ (q.kind \in {"edit_note", "delete_note"} => Past(q.note))
    BY <1>10, <2>1 DEF CommitInv, Past
  <2>3. ~Spare(e)
    BY <1>10 DEF Spare
  <2>4. KeepsRest(c, r, calls[c].seen, b, f) /\ b # None
    BY <1>6, <1>10, <2>2, <2>3
  <2>5. b \in Files
    BY <1>1, <1>2, <1>10, <2>4 DEF TypeOK
  <2>6. q \in Request /\ d \in 1..MaxCalls /\ d # c
    BY <1>1, <1>4, <2>2, CallType
  <2>7. q.kind \in {"edit_note", "delete_note"} => q.note # c
    BY <1>4, <2>2
  <2>8. r.kind \in {"edit_note", "delete_note"} => b.notes[r.note] # 0
    BY <1>6
  <2>9. Effect(d, q, b)
    BY <1>10
  <2> HIDE DEF r, f, b, d, q
  <2>10. Effect(d, q, f) \/ Supersedes(r, calls[c].seen, d, q)
    BY <1>2, <1>3, <2>4, <2>5, <2>6, <2>7, <2>8, <2>9, KeepsEffect
  <2> QED
    BY <2>10 DEF d, q
<1> QED
  BY <1>1, <1>2, <1>3, <1>4, <1>5, <1>6, <1>7, <1>8, <1>9, <1>10, CommitStep

LEMMA AppendWriteKeeps ==
  ASSUME EditInv, NEW c \in DOMAIN calls, AppendWrite(c)
  PROVE  EditInv' /\ Grows
<1> DEFINE r == calls[c].req
           e == r.target
           f == [calls[c].copy EXCEPT !.dataview = @ \cup {r.para}]
           b == calls[c].base
<1>1. TypeOK /\ StageInv(c) /\ ParagraphInv(c) /\ calls[c].pc = "paragraph"
  BY DEF EditInv, AppendWrite
<1>2. r \in Request /\ e \in Entity /\ c \in 1..MaxCalls /\ c # 0
  BY <1>1, CallType, RequestType DEF Label
<1>3. Types' /\ Turn(c) /\ StageInv(c)' /\ DraftInv(c)' /\ ParagraphInv(c)'
      /\ calls'[c].pc = "done" /\ f \in Files /\ calls[c].copy \in Files
  BY <1>1, AppendWriteTurns
<1>4. Past(c)'
  BY <1>3 DEF Past, Turn
<1>5. row' = row /\ Replace(c, e, f)
  BY DEF AppendWrite
<1>6. /\ ~Noted(e) => b = file[e]
      /\ calls[c].copy = IF b = None THEN NewLabel ELSE b
      /\ OldNotes(b)
  BY <1>1 DEF ParagraphInv
<1>7. lock[e] = c /\ (r.kind = "add_edge" \/ HasEdges(r)) /\ (r.kind # "add_edge" => r.on # e)
  BY <1>1 DEF StageInv
<1>8. r.kind \notin {"post_note", "edit_note", "delete_note"}
  BY <1>7 DEF HasEdges
<1>9. \A n \in 1..MaxCalls : f.notes[n] # 0 => Past(n)
  <2>1. f.notes = calls[c].copy.notes
    BY <1>3 DEF Files
  <2> QED
    BY <1>6, <2>1, NewLabelType DEF OldNotes
<1>10. ASSUME NEW i \in DOMAIN commits, commits[i].on = e,
              Effect(commits[i].call, calls[commits[i].call].req, file[e]), file[e] = b
       PROVE  Effect(commits[i].call, calls[commits[i].call].req, f)
  <2> DEFINE d == commits[i].call
             q == calls[d].req
  <2>1. CommitInv(i)
    BY DEF EditInv
  <2>2. d \in DOMAIN calls /\ file[e] # None
    BY <1>10, <2>1 DEF CommitInv, Past
  <2>3. q \in Request
    BY <1>1, <2>2, CallType
  <2>4. calls[c].copy = file[e] /\ file[e] \in Files
    BY <1>3, <1>6, <1>10, <2>2
  <2>5. Effect(d, q, calls[c].copy)
    BY <1>10, <2>4
  <2> HIDE DEF d, q, r
  <2>6. Effect(d, q, f)
    BY <1>3, <2>3, <2>5, ParagraphKeeps
  <2> QED
    BY <2>6 DEF d, q
<1> HIDE DEF f
<1> QED
  BY <1>1, <1>2, <1>3, <1>4, <1>5, <1>6, <1>7, <1>8, <1>9, <1>10, CommitStep

LEMMA EditInit == Init => EditInv
<1> SUFFICES ASSUME Init
             PROVE  EditInv
  OBVIOUS
<1>1. calls = <<>> /\ commits = <<>> /\ DOMAIN calls = {} /\ DOMAIN commits = {} /\ Len(calls) = 0
  BY DEF Init
<1>2. TypeOK
  BY <1>1, NewLabelType, NoneDiffers, BoundAssumption DEF Init, TypeOK, Num
<1>3. \A e \in Entity : OldNotes(file[e])
  BY NewLabelType DEF Init, OldNotes
<1> QED
  BY <1>1, <1>2, <1>3 DEF EditInv

\* Each step turns one call; only the writes commit.
LEMMA EditStep ==
  ASSUME EditInv, NEW c \in DOMAIN calls, Step(c)
  PROVE  EditInv' /\ Turn(c) /\ Grows
<1>1. TypeOK /\ StageInv(c) /\ \A e \in Entity : OldNotes(file[e])
  BY DEF EditInv
<1>2. calls[c].req.on \in Entity
  BY <1>1, CallType, RequestType
<1>3. CASE Lock(c)
  <2>1. UNCHANGED <<file, row, commits>> /\ calls[c].pc = "lock"
    BY <1>3 DEF Lock
  <2> QED
    BY <1>1, <1>3, <2>1, LockTurns, SilentStep
<1>4. CASE Load(c)
  <2>1. UNCHANGED <<file, row, commits>> /\ calls[c].pc = "load"
    BY <1>4 DEF Load
  <2> QED
    BY <1>4, <2>1, LoadTurns, SilentStep
<1>5. CASE Write(c)
  BY <1>1, <1>5, WriteTurns, WriteKeeps
<1>6. CASE WriteFails(c)
  <2>1. UNCHANGED <<file, row, commits>> /\ calls[c].pc = "write"
    BY <1>6 DEF WriteFails
  <2> QED
    BY <1>1, <1>6, <2>1, WriteFailsTurns, SilentStep
<1>7. CASE Mirror(c)
  <2>1. UNCHANGED <<file, commits>>
    BY <1>7 DEF Mirror
  <2>2. Types' /\ Turn(c) /\ StageInv(c)' /\ DraftInv(c)' /\ ParagraphInv(c)'
        /\ (\A e \in Entity : row'[e] = IF e = calls[c].req.on THEN Mirrored(c) ELSE row[e])
        /\ Mirrored(c) \in GapMap
    BY <1>1, <1>7, MirrorTurns
  <2>3. Mirrored(c) # None
    BY <2>2, NoneDiffers
  <2>4. \A e \in Entity : row[e] # None => row'[e] # None
    BY <2>2, <2>3
  <2>5. row'[calls[c].req.on] # None
    BY <1>2, <2>2, <2>3
  <2> QED
    BY <2>1, <2>2, <2>4, <2>5, SilentStep
<1>8. CASE MirrorFails(c)
  <2>1. UNCHANGED <<file, row, commits>> /\ calls[c].pc = "mirror"
    BY <1>8 DEF MirrorFails
  <2>2. Types' /\ Turn(c) /\ StageInv(c)' /\ DraftInv(c)' /\ ParagraphInv(c)'
        /\ calls'[c].result = IF calls[c].req.kind \in Actions THEN "warned" ELSE "failed"
    BY <1>1, <1>8, MirrorFailsTurns
  <2>3. calls'[c].result # "failed" => row'[calls[c].req.on] # None
    BY <1>1, <2>1, <2>2 DEF StageInv
  <2> QED
    BY <2>1, <2>2, <2>3, SilentStep
<1>9. CASE Edge(c)
  <2>1. UNCHANGED <<file, commits>> /\ calls[c].pc = "edge"
    BY <1>9 DEF Edge
  <2> QED
    BY <1>1, <1>9, <2>1, EdgeTurns, SilentStep
<1>10. CASE EdgeFails(c)
  <2>1. UNCHANGED <<file, row, commits>> /\ calls[c].pc = "edge"
    BY <1>10 DEF EdgeFails
  <2> QED
    BY <1>1, <1>10, <2>1, EdgeFailsTurns, SilentStep
<1>11. CASE AppendLock(c)
  <2>1. UNCHANGED <<file, row, commits>> /\ calls[c].pc = "append"
    BY <1>11 DEF AppendLock
  <2> QED
    BY <1>1, <1>11, <2>1, AppendLockTurns, SilentStep
<1>12. CASE AppendWrite(c)
  BY <1>1, <1>12, AppendWriteTurns, AppendWriteKeeps
<1>13. CASE AppendFails(c)
  <2>1. UNCHANGED <<file, row, commits>> /\ calls[c].pc = "paragraph"
    BY <1>13 DEF AppendFails
  <2> QED
    BY <1>1, <1>13, <2>1, AppendFailsTurns, SilentStep
<1> QED
  BY <1>3, <1>4, <1>5, <1>6, <1>7, <1>8, <1>9, <1>10, <1>11, <1>12, <1>13 DEF Step

LEMMA EditNext == EditInv /\ [Next]_vars => EditInv'
<1> SUFFICES ASSUME EditInv, [Next]_vars
             PROVE  EditInv'
  OBVIOUS
<1>1. ASSUME NEW r \in Request, Call(r)
      PROVE  EditInv'
  <2>1. PICK c \in 1..MaxCalls :
          /\ Types' /\ Turn(c) /\ StageInv(c)' /\ DraftInv(c)' /\ ParagraphInv(c)'
          /\ c \notin DOMAIN calls
    BY <1>1, CallTurns
  <2>2. UNCHANGED <<file, row, commits>>
    BY <1>1 DEF Call
  <2> QED
    BY <2>1, <2>2, SilentStep
<1>2. ASSUME NEW c \in 1..MaxCalls, Step(c)
      PROVE  EditInv'
  BY <1>2, EditStep DEF Step
<1>3. CASE UNCHANGED vars
  BY <1>3 DEF vars, EditInv, TypeOK, StageInv, DraftInv, ParagraphInv, OldNotes, CommitInv,
     Locks, Past, Noted, Clobbered, Spare, Stands, Own
<1> QED
  BY <1>1, <1>2, <1>3 DEF Next

\* The inductive invariant of the edits.
THEOREM Invariance == Spec => []EditInv
<1> QED
  BY EditInit, EditNext, PTL DEF Spec

\* TypeOK: the file, row, lock and calls keep their types, every handler that has read
\* a file under its lock holds that lock until it is done, and an answered call none.
THEOREM TypeCorrect == Spec => []TypeOK
<1>1. EditInv => TypeOK
  BY DEF EditInv
<1> QED
  BY <1>1, Invariance, PTL

\* AnsweredEditsStand: for any number of calls in any order, an edit that was answered is
\* in the file until one of the same thing, or the lockless notes endpoint, undoes it.
THEOREM AnsweredStand == Spec => []AnsweredEditsStand
<1>1. EditInv => AnsweredEditsStand
  <2> SUFFICES ASSUME EditInv, NEW i \in DOMAIN commits, Own(i), Answered(commits[i].call)
               PROVE  Stands(i) \/ Clobbered(commits[i].on)
    BY DEF AnsweredEditsStand
  <2>1. CommitInv(i) /\ calls[commits[i].call].result # "failed"
    BY DEF EditInv, Answered
  <2> QED
    BY <2>1 DEF CommitInv
<1> QED
  BY <1>1, Invariance, PTL

----------------------------------------------------------------------------
(* The rows and the edges.                                                   *)

\* A request of a commit that a step leaves as it was.
Same(i) ==
  /\ i \in DOMAIN commits' /\ commits'[i] = commits[i]
  /\ commits[i].call \in DOMAIN calls
  /\ calls'[commits[i].call].req = calls[commits[i].call].req
  /\ Own(i)' <=> Own(i)

LEMMA AllSame ==
  ASSUME EditInv, NEW c, EditInv', Turn(c), Grows
  PROVE  /\ \A i \in DOMAIN commits : Same(i)
         /\ \A e : Noted(e) => Noted(e)'
         /\ Len(commits) \in Nat /\ DOMAIN commits = 1..Len(commits)
<1>1. Types'
  BY DEF EditInv, TypeOK, Types
<1>2. commits \in Seq(Commits)
  BY DEF EditInv, TypeOK
<1>3. Len(commits) \in Nat /\ DOMAIN commits = 1..Len(commits)
  BY <1>2
<1> QED
  BY <1>1, <1>3, History DEF Same

\* The requests of commits, of which the latest edits are chosen, stay in a silent step.
LEMMA SilentLatest ==
  ASSUME EditInv, NEW c, EditInv', Turn(c), Grows, commits' = commits
  PROVE  \A i \in DOMAIN commits : Latest(i) => Latest(i)'
<1> SUFFICES ASSUME NEW i \in DOMAIN commits, Latest(i)
             PROVE  Latest(i)'
  OBVIOUS
<1>1. \A j \in DOMAIN commits : Same(j)
  BY AllSame
<1>2. \A j \in i + 1..Len(commits) : j \in DOMAIN commits
  BY AllSame
<1> QED
  BY <1>1, <1>2 DEF Latest, Same

\* A call that holds the lock of e and has written it made its latest edit.
LEMMA HolderIsLatest ==
  ASSUME EditInv, NEW c \in DOMAIN calls, OrderInv(c), Locks(c), calls[c].pc \in AfterWrite,
         NEW i \in DOMAIN commits, commits[i].on = calls[c].req.on, Own(i),
         commits[i].call # c,
         calls[commits[i].call].req.kind # "post_note"
  PROVE  \E j \in i + 1..Len(commits) :
           commits[j].call = c /\ Own(j) /\ commits[j].on = commits[i].on
<1>1. calls[c].req.kind # "add_edge"
  BY DEF Locks
<1>2. PICK j \in DOMAIN commits : commits[j].call = c /\ Own(j) /\ Latest(j)
  BY <1>1 DEF OrderInv
<1>3. commits[j].on = calls[c].req.on
  BY <1>2 DEF Own
<1>4. commits \in Seq(Commits)
  BY DEF EditInv, TypeOK
<1>5. Len(commits) \in Nat /\ DOMAIN commits = 1..Len(commits)
  BY <1>4
<1>6. i \notin j + 1..Len(commits)
  BY <1>2, <1>3 DEF Latest
<1>7. i # j
  BY <1>2
<1>8. j \in i + 1..Len(commits)
  BY <1>5, <1>6, <1>7
<1> QED
  BY <1>2, <1>3, <1>8

\* A step without a commit leaves the latest edits the latest.
LEMMA OrderSilent ==
  ASSUME EditInv, NEW c, EditInv', Turn(c), Grows, commits' = commits,
         \A d \in DOMAIN calls : OrderInv(d),
         calls'[c].pc \in AfterWrite /\ calls'[c].req.kind # "add_edge" =>
           c \in DOMAIN calls /\ calls[c].pc \in AfterWrite
  PROVE  \A d \in DOMAIN calls' : OrderInv(d)'
<1> SUFFICES ASSUME NEW d \in DOMAIN calls', calls'[d].pc \in AfterWrite,
                    calls'[d].req.kind # "add_edge"
             PROVE  \E i \in DOMAIN commits' :
                      commits'[i].call = d /\ Own(i)' /\ (Locks(d)' => Latest(i)')
  BY DEF OrderInv, AfterWrite
<1>1. d \in DOMAIN calls /\ calls[d].pc \in AfterWrite /\ calls'[d].req = calls[d].req
  BY DEF Turn
<1>2. PICK i \in DOMAIN commits :
        commits[i].call = d /\ Own(i) /\ (Locks(d) => Latest(i))
  BY <1>1 DEF OrderInv
<1>3. Same(i)
  BY AllSame
<1>4. Latest(i) => Latest(i)'
  BY SilentLatest
<1>5. Locks(d)' <=> Locks(d)
  BY <1>1 DEF Locks
<1> QED
  BY <1>2, <1>3, <1>4, <1>5 DEF Same

\* A step that leaves the row of an edited file as it was, or mirrors its latest edit.
LEMMA ColumnSilent ==
  ASSUME EditInv, NEW c, EditInv', Turn(c), Grows, UNCHANGED <<file, commits>>,
         NEW i \in DOMAIN commits, ColumnInv(i),
         LET e == commits[i].on
             d == commits[i].call
         IN Own(i) /\ ~Noted(e) /\ (\A j \in i + 1..Len(commits) : commits[j].on = e => ~Own(j)) =>
              \/ /\ row'[e] = row[e]
                 /\ calls'[d].pc = "mirror" => calls[d].pc = "mirror" /\ calls'[d].copy = calls[d].copy
                 /\ calls'[d].pc \in {"edge", "append", "paragraph"} \/ calls'[d].result = "ok" =>
                      calls[d].pc \in {"edge", "append", "paragraph"} \/ calls[d].result = "ok"
              \/ /\ calls[d].pc = "mirror" /\ calls'[d].pc # "mirror"
                 /\ row'[e] = Mirrored(d)
              \/ calls'[d].pc = "done" /\ calls'[d].result # "ok"
              \/ calls[d].pc = "mirror" /\ calls'[d] = calls[d] /\ calls[d].result # "ok"
  PROVE  ColumnInv(i)'
<1> DEFINE e == commits[i].on
           d == commits[i].call
           Last == \A j \in i + 1..Len(commits) : commits[j].on = e => ~Own(j)
<1>1. Same(i) /\ (\A j \in i + 1..Len(commits) : j \in DOMAIN commits /\ Same(j))
  BY AllSame
<1>2. Own(i)' /\ ~Noted(e)' /\ (\A j \in i + 1..Len(commits') : commits'[j].on = e => ~Own(j)')
        => Own(i) /\ ~Noted(e) /\ Last
  BY <1>1, AllSame DEF Same
<1>3. commits'[i] = commits[i] /\ calls'[d].req = calls[d].req /\ file' = file
  BY <1>1 DEF Same
<1>4. SUFFICES ASSUME Own(i), ~Noted(e), Last
               PROVE  /\ calls'[d].pc = "mirror" => file[e].state = calls'[d].copy.state
                      /\ calls'[d].pc \in {"edge", "append", "paragraph"} \/ calls'[d].result = "ok" =>
                           row'[e] = IF calls[d].req.kind \in NullsRow THEN NoGapState ELSE file[e].state
  BY <1>2, <1>3 DEF ColumnInv
<1>5. /\ calls[d].pc = "mirror" => file[e].state = calls[d].copy.state
      /\ calls[d].pc \in {"edge", "append", "paragraph"} \/ calls[d].result = "ok" =>
           row[e] = IF calls[d].req.kind \in NullsRow THEN NoGapState ELSE file[e].state
  BY <1>4 DEF ColumnInv
<1>6. Mirrored(d) = IF calls[d].req.kind \in NullsRow THEN NoGapState ELSE calls[d].copy.state
  BY DEF Mirrored
<1> HIDE DEF d, e
<1>7. CASE /\ row'[e] = row[e]
           /\ calls'[d].pc = "mirror" => calls[d].pc = "mirror" /\ calls'[d].copy = calls[d].copy
           /\ calls'[d].pc \in {"edge", "append", "paragraph"} \/ calls'[d].result = "ok" =>
                calls[d].pc \in {"edge", "append", "paragraph"} \/ calls[d].result = "ok"
  BY <1>5, <1>7
<1>8. CASE calls[d].pc = "mirror" /\ calls'[d].pc # "mirror" /\ row'[e] = Mirrored(d)
  BY <1>5, <1>6, <1>8
<1>9. CASE calls'[d].pc = "done" /\ calls'[d].result # "ok"
  BY <1>9
<1>10. CASE calls[d].pc = "mirror" /\ calls'[d] = calls[d] /\ calls[d].result # "ok"
  BY <1>5, <1>10
<1> QED
  BY <1>4, <1>7, <1>8, <1>9, <1>10 DEF d, e

\* The edges after a step that leaves those of the entity alone, sets them to the fields
\* of its latest edit, or adds one of an action's.
Linked(i) == calls[commits[i].call].pc \in {"append", "paragraph"} \/ calls[commits[i].call].result = "ok"
LastLinked(i) ==
  \A j \in i + 1..Len(commits) :
    commits[j].on = commits[i].on /\ Own(j) => ~HasEdges(calls[commits[j].call].req)

LEMMA EdgesKept ==
  ASSUME EditInv, NEW c, EditInv', Turn(c), Grows,
         NEW i \in DOMAIN commits, EdgesInv(i),
         LET e == commits[i].on
             r == calls[commits[i].call].req
         IN Own(i) /\ HasEdges(r) /\ LastLinked(i) /\ Linked(i)' =>
              \/ edges'[e] = edges[e] /\ Linked(i)
              \/ edges'[e] = EdgesLeft(r) \cup NewEdges(r)
              \/ /\ Linked(i)
                 /\ edges[e] \subseteq edges'[e] /\ edges'[e] \subseteq edges[e] \cup AddedByActions(e)
  PROVE  EdgesInv(i)'
<1> DEFINE e == commits[i].on
           r == calls[commits[i].call].req
<1>1. Same(i) /\ \A j \in DOMAIN commits : Same(j)
  BY AllSame
<1>2. \A j \in i + 1..Len(commits) : j \in DOMAIN commits /\ j \in i + 1..Len(commits')
  BY AllSame DEF Grows, EditInv, TypeOK
<1>3. commits'[i] = commits[i] /\ calls'[commits[i].call].req = r /\ (Own(i)' <=> Own(i))
  BY <1>1 DEF Same
<1>4. LastLinked(i)' => LastLinked(i)
  BY <1>1, <1>2 DEF LastLinked, Same
<1>5. AddedByActions(e) \subseteq AddedByActions(e)'
  <2>1. \A d \in DOMAIN calls : d \in DOMAIN calls' /\ calls'[d].req = calls[d].req
    BY DEF Turn
  <2> QED
    BY <1>3, <2>1 DEF AddedByActions
<1>6. SUFFICES ASSUME Own(i), HasEdges(r), LastLinked(i), Linked(i)'
               PROVE  /\ NewEdges(r) \subseteq edges'[e]
                      /\ \A x \in edges'[e] : x[1] = r.gap \/ r.kind = "frontmatter"
                           => x \in NewEdges(r) \cup AddedByActions(e)
  BY <1>3, <1>4, <1>5 DEF EdgesInv, LastLinked, Linked
<1>7. Linked(i) =>
        /\ NewEdges(r) \subseteq edges[e]
        /\ \A x \in edges[e] : x[1] = r.gap \/ r.kind = "frontmatter"
             => x \in NewEdges(r) \cup AddedByActions(e)
  BY <1>6 DEF EdgesInv, LastLinked, Linked
<1>8. CASE edges'[e] = edges[e] /\ Linked(i)
  BY <1>7, <1>8
<1>9. CASE edges'[e] = EdgesLeft(r) \cup NewEdges(r)
  <2>1. r.kind # "add_edge"
    BY <1>6 DEF HasEdges
  <2>2. \A x \in EdgesLeft(r) : x[1] # r.gap /\ r.kind # "frontmatter"
    BY <2>1 DEF EdgesLeft
  <2> QED
    BY <1>9, <2>2
<1>10. CASE Linked(i) /\ edges[e] \subseteq edges'[e] /\ edges'[e] \subseteq edges[e] \cup AddedByActions(e)
  BY <1>7, <1>10
<1> QED
  BY <1>6, <1>8, <1>9, <1>10

\* The edges of a call: its own file's, unless another wrote it since, or an action's.
LEMMA EdgesTurn ==
  ASSUME EditInv, NEW c \in DOMAIN calls, EditInv', Turn(c), Grows, commits' = commits, OrderInv(c),
         calls[c].pc = "edge",
         edges' \in {edges, [edges EXCEPT ![calls[c].req.on] = EdgesLeft(calls[c].req)],
                     [edges EXCEPT ![calls[c].req.on] = EdgesLeft(calls[c].req) \cup NewEdges(calls[c].req)]},
         NEW i \in DOMAIN commits, EdgesInv(i),
         commits[i].call = c /\ Linked(i)' =>
           edges' = [edges EXCEPT ![calls[c].req.on] = EdgesLeft(calls[c].req) \cup NewEdges(calls[c].req)]
  PROVE  EdgesInv(i)'
<1> DEFINE e == commits[i].on
           d == commits[i].call
           r == calls[d].req
           s == calls[c].req
<1>1. TypeOK /\ StageInv(c) /\ s \in Request /\ s.on \in Entity
  BY CallType, RequestType DEF EditInv
<1>2. edges \in [Entity -> SUBSET (EdgeGap \X Entity)] /\ commits \in Seq(Commits)
  BY <1>1 DEF TypeOK
<1>3. commits[i] \in Commits
  BY <1>2
<1>4. e \in Entity /\ Same(i)
  BY <1>3, AllSame DEF Commits
<1>5. \A z \in Entity : z # s.on => edges'[z] = edges[z]
  BY <1>1, <1>2
<1>6. edges'[s.on] \in {edges[s.on], EdgesLeft(s), EdgesLeft(s) \cup NewEdges(s)}
  BY <1>1, <1>2
<1>7. d # c => (Linked(i)' <=> Linked(i))
  BY <1>4 DEF Linked, Same, Turn
<1>8. SUFFICES ASSUME Own(i), HasEdges(r), LastLinked(i), Linked(i)'
               PROVE  \/ edges'[e] = edges[e] /\ Linked(i)
                      \/ edges'[e] = EdgesLeft(r) \cup NewEdges(r)
                      \/ /\ Linked(i)
                         /\ edges[e] \subseteq edges'[e]
                         /\ edges'[e] \subseteq edges[e] \cup AddedByActions(e)
  BY EdgesKept
<1>9. e = r.on
  BY <1>8 DEF Own
<1>10. CASE d = c
  BY <1>1, <1>2, <1>8, <1>9, <1>10
<1>11. CASE d # c /\ e # s.on
  BY <1>4, <1>5, <1>7, <1>8, <1>11
<1>12. CASE d # c /\ e = s.on /\ s.kind = "add_edge"
  <2>1. EdgesLeft(s) = edges[e]
    BY <1>12 DEF EdgesLeft
  <2>2. NewEdges(s) \subseteq AddedByActions(e)
    BY <1>12 DEF NewEdges, AddedByActions
  <2>3. edges[e] \subseteq edges'[e] /\ edges'[e] \subseteq edges[e] \cup AddedByActions(e)
    BY <1>6, <1>12, <2>1, <2>2
  <2> QED
    BY <1>7, <1>8, <1>12, <2>3
<1>13. CASE d # c /\ e = s.on /\ s.kind # "add_edge"
  <2>1. HasEdges(s)
    BY <1>1, <1>13 DEF StageInv
  <2>2. Locks(c) /\ r.kind # "post_note"
    BY <1>8, <2>1 DEF HasEdges, Locks
  <2>3. PICK j \in i + 1..Len(commits) : commits[j].call = c /\ Own(j) /\ commits[j].on = e
    BY <1>8, <1>13, <2>2, HolderIsLatest DEF AfterWrite
  <2> QED
    BY <1>8, <2>1, <2>3 DEF LastLinked
<1> QED
  BY <1>10, <1>11, <1>12, <1>13

\* A step that changes only its call's stage.
LEMMA MirrorQuiet ==
  ASSUME EditInv, MirrorInv, NEW c, EditInv', Turn(c), Grows, UNCHANGED <<file, row, edges, commits>>,
         \/ ~Past(c) /\ (calls'[c].pc \notin AfterWrite \/ calls'[c].req.kind = "add_edge")
         \/ c \in DOMAIN calls /\ calls[c].pc = "append" /\ calls'[c].pc \in {"paragraph", "done"}
         \/ c \in DOMAIN calls /\ calls[c].pc \in AfterWrite
              /\ calls'[c].pc = "done" /\ calls'[c].result # "ok"
  PROVE  MirrorInv'
<1>1. \A d \in DOMAIN calls' : OrderInv(d)'
  <2>1. \A d \in DOMAIN calls : OrderInv(d)
    BY DEF MirrorInv
  <2>2. calls'[c].pc \in AfterWrite /\ calls'[c].req.kind # "add_edge" =>
          c \in DOMAIN calls /\ calls[c].pc \in AfterWrite
    BY DEF AfterWrite
  <2> QED
    BY <2>1, <2>2, OrderSilent
<1>2. ASSUME NEW i \in DOMAIN commits
      PROVE  ColumnInv(i)' /\ EdgesInv(i)'
  <2> DEFINE d == commits[i].call
  <2>1. CommitInv(i) /\ ColumnInv(i) /\ EdgesInv(i) /\ Same(i)
    BY AllSame DEF EditInv, MirrorInv
  <2>2. Past(d) /\ d \in DOMAIN calls
    BY <2>1 DEF CommitInv, Past
  <2>3. \/ /\ calls'[d].pc = "mirror" => calls[d].pc = "mirror" /\ calls'[d].copy = calls[d].copy
           /\ calls'[d].pc \in {"edge", "append", "paragraph"} \/ calls'[d].result = "ok" =>
                calls[d].pc \in {"edge", "append", "paragraph"} \/ calls[d].result = "ok"
        \/ calls'[d].pc = "done" /\ calls'[d].result # "ok"
    <3>1. CASE d # c
      BY <2>2, <3>1 DEF Turn
    <3>2. CASE d = c
      BY <2>2, <3>2
    <3> QED
      BY <3>1, <3>2
  <2>4. Linked(i)' => Linked(i)
    <3>1. CASE d # c
      BY <2>1, <2>2, <3>1 DEF Linked, Turn
    <3>2. CASE d = c
      BY <2>1, <2>2, <3>2 DEF Linked
    <3> QED
      BY <3>1, <3>2
  <2>5. EdgesInv(i)'
    BY <2>1, <2>4, EdgesKept
  <2>6. ColumnInv(i)'
    BY <2>1, <2>3, ColumnSilent
  <2> QED
    BY <2>5, <2>6
<1> QED
  BY <1>1, <1>2 DEF MirrorInv

LEMMA MirrorMirrors ==
  ASSUME EditInv, MirrorInv, NEW c \in DOMAIN calls, EditInv', Turn(c), Grows, Mirror(c)
  PROVE  MirrorInv'
<1> DEFINE r == calls[c].req
<1>1. TypeOK /\ StageInv(c) /\ OrderInv(c)
  BY DEF EditInv, MirrorInv
<1>2. calls[c].pc = "mirror" /\ UNCHANGED <<file, edges, commits>> /\ r.kind # "add_edge"
  BY <1>1 DEF Mirror, StageInv
<1>3. /\ \A e \in Entity : row'[e] = IF e = r.on THEN Mirrored(c) ELSE row[e]
      /\ calls'[c].pc \in {"edge", "done"}
      /\ calls'[c].pc = "done" => ~HasEdges(r)
  BY <1>1, MirrorTurns
<1>4. \A d \in DOMAIN calls' : OrderInv(d)'
  BY <1>2, OrderSilent DEF MirrorInv, AfterWrite
<1>5. ASSUME NEW i \in DOMAIN commits
      PROVE  ColumnInv(i)' /\ EdgesInv(i)'
  <2> DEFINE d == commits[i].call
             e == commits[i].on
  <2>1. CommitInv(i) /\ ColumnInv(i) /\ EdgesInv(i) /\ Same(i)
    BY AllSame DEF EditInv, MirrorInv
  <2>2. Past(d) /\ d \in DOMAIN calls /\ commits \in Seq(Commits)
    BY <1>1, <2>1 DEF CommitInv, Past, TypeOK
  <2>a. commits[i] \in Commits
    BY <2>2
  <2>3. e \in Entity
    BY <2>a DEF Commits
  <2>4. EdgesInv(i)'
    <3>1. CASE d # c
      <4>1. Linked(i)' <=> Linked(i)
        BY <2>1, <2>2, <3>1 DEF Linked, Turn, Same
      <4> QED
        BY <1>2, <2>1, <4>1, EdgesKept
    <3>2. CASE d = c
      <4>1. Linked(i)' => calls'[c].pc = "done"
        <5>1. StageInv(c)' /\ commits'[i] = commits[i]
          BY <2>1 DEF EditInv, Turn, Same
        <5> QED
          BY <1>3, <3>2, <5>1 DEF Linked, StageInv
      <4>2. HasEdges(r) => ~Linked(i)'
        BY <1>3, <4>1
      <4> QED
        BY <2>1, <3>2, <4>2, EdgesKept
    <3> QED
      BY <3>1, <3>2
  <2>5. ColumnInv(i)'
    <3>1. CASE d = c
      <4>1. Own(i) => row'[e] = Mirrored(d)
        BY <1>3, <2>3, <3>1 DEF Own
      <4>2. calls[d].pc = "mirror" /\ calls'[d].pc # "mirror"
        BY <1>2, <1>3, <3>1
      <4> QED
        BY <1>2, <2>1, <4>1, <4>2, ColumnSilent
    <3>2. CASE d # c
      <4>1. calls'[d] = calls[d]
        BY <2>2, <3>2 DEF Turn
      <4>2. Own(i) /\ ~Noted(e) /\ (\A j \in i + 1..Len(commits) : commits[j].on = e => ~Own(j))
              => e # r.on
        <5>1. SUFFICES ASSUME Own(i), ~Noted(e), e = r.on,
                              \A j \in i + 1..Len(commits) : commits[j].on = e => ~Own(j)
                       PROVE  FALSE
          OBVIOUS
        <5>2. calls[d].req.kind # "post_note"
          BY <5>1 DEF Noted
        <5>3. Locks(c)
          <6>1. PICK j \in DOMAIN commits : commits[j].call = c /\ Own(j)
            BY <1>1, <1>2 DEF OrderInv, AfterWrite
          <6>2. commits[j].on = e
            BY <5>1, <6>1 DEF Own
          <6>3. r.kind # "post_note"
            BY <5>1, <6>1, <6>2 DEF Noted
          <6> QED
            BY <1>2, <6>3 DEF Locks
        <5>4. PICK j \in i + 1..Len(commits) : commits[j].call = c /\ Own(j) /\ commits[j].on = e
          BY <1>1, <1>2, <3>2, <5>1, <5>2, <5>3, HolderIsLatest DEF AfterWrite
        <5> QED
          BY <5>1, <5>4
      <4>3. e # r.on => row'[e] = row[e]
        BY <1>3, <2>3
      <4> QED
        BY <1>2, <2>1, <4>1, <4>2, <4>3, ColumnSilent
    <3> QED
      BY <3>1, <3>2
  <2> QED
    BY <2>4, <2>5
<1> QED
  BY <1>2, <1>4, <1>5 DEF MirrorInv

LEMMA EdgeMirrors ==
  ASSUME EditInv, MirrorInv, NEW c \in DOMAIN calls, EditInv', Turn(c), Grows, Edge(c) \/ EdgeFails(c)
  PROVE  MirrorInv'
<1> DEFINE r == calls[c].req
<1>1. TypeOK /\ StageInv(c) /\ OrderInv(c)
  BY DEF EditInv, MirrorInv
<1>2. calls[c].pc = "edge" /\ UNCHANGED <<file, commits>>
  BY DEF Edge, EdgeFails
<1>3. edges' \in {edges, [edges EXCEPT ![r.on] = EdgesLeft(r)],
                  [edges EXCEPT ![r.on] = EdgesLeft(r) \cup NewEdges(r)]}
  BY DEF Edge, EdgeFails
<1>4. calls'[c].pc \in {"append", "done"} /\ \A e \in Entity : row[e] # None => row'[e] = row[e]
  <2>1. CASE Edge(c)
    BY <1>1, <2>1, EdgeTurns
  <2>2. CASE EdgeFails(c)
    BY <1>1, <2>2, EdgeFailsTurns DEF EdgeFails
  <2> QED
    BY <2>1, <2>2
<1>5. (calls'[c].pc \in {"append", "paragraph"} \/ calls'[c].result = "ok") =>
        edges' = [edges EXCEPT ![r.on] = EdgesLeft(r) \cup NewEdges(r)]
  <2>1. CASE Edge(c)
    BY <2>1 DEF Edge
  <2>2. CASE EdgeFails(c)
    BY <1>1, <2>2, EdgeFailsTurns
  <2> QED
    BY <2>1, <2>2
<1>6. \A d \in DOMAIN calls' : OrderInv(d)'
  BY <1>2, OrderSilent DEF MirrorInv, AfterWrite
<1>7. ASSUME NEW i \in DOMAIN commits
      PROVE  ColumnInv(i)' /\ EdgesInv(i)'
  <2> DEFINE d == commits[i].call
             e == commits[i].on
  <2>1. CommitInv(i) /\ ColumnInv(i) /\ EdgesInv(i) /\ Same(i)
    BY AllSame DEF EditInv, MirrorInv
  <2>2. Past(d) /\ d \in DOMAIN calls /\ commits \in Seq(Commits)
    BY <1>1, <2>1 DEF CommitInv, Past, TypeOK
  <2>a. commits[i] \in Commits
    BY <2>2
  <2>3. e \in Entity
    BY <2>a DEF Commits
  <2>4. d = c /\ Linked(i)' => edges' = [edges EXCEPT ![r.on] = EdgesLeft(r) \cup NewEdges(r)]
    BY <1>5, <2>1 DEF Linked, Same
  <2>5. EdgesInv(i)'
    BY <1>1, <1>2, <1>3, <2>1, <2>4, EdgesTurn
  <2>6. ColumnInv(i)'
    <3>1. \/ calls'[d].pc = "done" /\ calls'[d].result # "ok"
          \/ calls[d].pc = "mirror" /\ calls'[d] = calls[d] /\ calls[d].result # "ok"
          \/ /\ calls[d].pc # "mirror" /\ calls'[d].pc # "mirror"
             /\ calls[d].result # "failed"
             /\ calls[d].pc \in {"edge", "append", "paragraph"} \/ calls[d].result = "ok"
      <4>1. CASE d = c
        BY <1>1, <1>2, <1>4, <4>1 DEF StageInv
      <4>2. CASE d # c
        <5>1. calls'[d] = calls[d] /\ StageInv(d)
          BY <2>2, <4>2 DEF Turn, EditInv
        <5>2. calls[d] \in Calls
          BY <1>1, <2>2, CallType
        <5>3. calls[d].pc \in {"mirror", "edge", "append", "paragraph", "done"}
          BY <2>2, <5>2 DEF Past, Calls
        <5> QED
          BY <5>1, <5>3 DEF StageInv
      <4> QED
        BY <4>1, <4>2
    <3>2. CASE calls'[d].pc = "done" /\ calls'[d].result # "ok"
      BY <1>2, <2>1, <3>2, ColumnSilent
    <3>3. CASE calls[d].pc = "mirror" /\ calls'[d] = calls[d] /\ calls[d].result # "ok"
      BY <1>2, <2>1, <3>3, ColumnSilent
    <3>4. CASE /\ calls[d].pc # "mirror" /\ calls'[d].pc # "mirror"
               /\ calls[d].result # "failed"
               /\ calls[d].pc \in {"edge", "append", "paragraph"} \/ calls[d].result = "ok"
      <4>1. Own(i) => row[e] # None
        BY <2>1, <3>4 DEF CommitInv
      <4>2. Own(i) => row'[e] = row[e]
        BY <1>4, <2>3, <4>1
      <4> QED
        BY <1>2, <2>1, <3>4, <4>2, ColumnSilent
    <3> QED
      BY <3>1, <3>2, <3>3, <3>4
  <2> QED
    BY <2>5, <2>6
<1> QED
  BY <1>2, <1>6, <1>7 DEF MirrorInv

\* A write by the call that holds the lock, or by the notes endpoint, is the latest.
LEMMA WriteMirrors ==
  ASSUME EditInv, MirrorInv, NEW c \in DOMAIN calls, EditInv', Turn(c), Grows, Write(c)
  PROVE  MirrorInv'
<1> DEFINE r == calls[c].req
           e == r.on
<1>1. TypeOK /\ StageInv(c) /\ calls[c].pc = "write" /\ UNCHANGED <<row, edges>>
  BY DEF EditInv, Write
<1>2. e \in Entity /\ r.kind # "add_edge" /\ (Locks(c) => lock[e] = c)
  BY <1>1, CallType, RequestType DEF StageInv
<1>3. calls'[c].pc = "mirror" /\ calls'[c].result = "none" /\ calls'[c].copy = calls[c].copy
      /\ calls[c].copy \in Files /\ calls'[c].req = r
  BY <1>1, WriteTurns DEF Turn
<1>n. PICK n : n = Len(commits)
  OBVIOUS
<1>4. /\ n \in Nat /\ DOMAIN commits = 1..n /\ Len(commits') = n + 1 /\ DOMAIN commits' = 1..(n + 1)
      /\ commits'[n + 1].call = c /\ commits'[n + 1].on = e
      /\ \A i \in DOMAIN commits : commits'[i] = commits[i] /\ Same(i)
  <2>1. commits \in Seq(Commits)
    BY <1>1 DEF TypeOK
  <2>2. PICK x : x = [call |-> c, on |-> e, outdated |-> file[e] # calls[c].base]
    OBVIOUS
  <2>3. commits' = Append(commits, x) /\ x.call = c /\ x.on = e
    BY <2>2 DEF Write, Replace
  <2>4. \A i \in DOMAIN commits : Same(i)
    BY AllSame
  <2> QED
    BY <1>n, <2>1, <2>3, <2>4
<1>5. file'[e] = calls[c].copy /\ \A z \in Entity : z # e => file'[z] = file[z]
  BY <1>1, <1>2 DEF Write, Replace, TypeOK
<1>6. Own(n + 1)'
  BY <1>2, <1>3, <1>4 DEF Own
<1>7. ASSUME NEW i \in DOMAIN commits
      PROVE  /\ commits[i].call \in DOMAIN calls \ {c}
             /\ calls'[commits[i].call] = calls[commits[i].call]
             /\ commits[i].on \in Entity
  <2>1. CommitInv(i) /\ commits \in Seq(Commits)
    BY <1>1 DEF EditInv, TypeOK
  <2>2. commits[i].call \in DOMAIN calls \ {c}
    BY <1>1, <2>1 DEF CommitInv, Past
  <2>3. commits[i] \in Commits
    BY <2>1
  <2> QED
    BY <2>2, <2>3 DEF Turn, Commits
<1>8. ASSUME NEW d \in DOMAIN calls', calls'[d].pc \in AfterWrite, calls'[d].req.kind # "add_edge"
      PROVE  \E i \in DOMAIN commits' :
               commits'[i].call = d /\ Own(i)' /\ (Locks(d)' => Latest(i)')
  <2>1. CASE d = c
    <3>1. PICK i \in DOMAIN commits' : i = n + 1
      BY <1>4
    <3>2. Latest(i)'
      BY <1>4, <3>1 DEF Latest
    <3> QED
      BY <1>4, <1>6, <2>1, <3>1, <3>2
  <2>2. CASE d # c
    <3>1. d \in DOMAIN calls /\ calls'[d] = calls[d]
      BY <2>2 DEF Turn
    <3>2. OrderInv(d) /\ StageInv(d)
      BY <3>1 DEF MirrorInv, EditInv
    <3>3. PICK i \in DOMAIN commits : commits[i].call = d /\ Own(i) /\ (Locks(d) => Latest(i))
      BY <1>8, <3>1, <3>2 DEF OrderInv
    <3>4. i \in DOMAIN commits' /\ commits'[i] = commits[i] /\ Own(i)'
      BY <1>4, <3>3 DEF Same
    <3>5. commits[i].on = calls[d].req.on
      BY <3>3 DEF Own
    <3>6. Locks(d) => commits[i].on # e \/ r.kind = "post_note"
      BY <1>2, <1>8, <2>2, <3>1, <3>2, <3>5 DEF StageInv, Locks, AfterWrite
    <3>7. Latest(i) /\ (commits[i].on # e \/ r.kind = "post_note") => Latest(i)'
      <4>1. SUFFICES ASSUME Latest(i), commits[i].on # e \/ r.kind = "post_note",
                            NEW j \in i + 1..Len(commits'), commits'[j].on = commits'[i].on, Own(j)'
                     PROVE  calls'[commits'[j].call].req.kind = "post_note"
        BY DEF Latest
      <4>2. CASE j = n + 1
        BY <1>3, <1>4, <3>4, <4>1, <4>2
      <4>3. CASE j # n + 1
        <5>1. j \in i + 1..Len(commits) /\ j \in DOMAIN commits
          BY <1>4, <1>n, <4>3
        <5> QED
          BY <1>4, <3>4, <4>1, <5>1 DEF Latest, Same
      <4> QED
        BY <4>2, <4>3
    <3>8. Locks(d)' <=> Locks(d)
      BY <3>1 DEF Locks
    <3> QED
      BY <3>3, <3>4, <3>6, <3>7, <3>8
  <2> QED
    BY <2>1, <2>2
<1>9. \A d \in DOMAIN calls' : OrderInv(d)'
  BY <1>8 DEF OrderInv, AfterWrite
<1>10. ASSUME NEW i \in DOMAIN commits
       PROVE  ColumnInv(i)' /\ EdgesInv(i)'
  <2> DEFINE d == commits[i].call
             z == commits[i].on
  <2>1. ColumnInv(i) /\ EdgesInv(i) /\ Same(i) /\ commits'[i] = commits[i] /\ calls'[d] = calls[d]
        /\ z \in Entity
    BY <1>4, <1>7 DEF MirrorInv
  <2>2. Linked(i)' <=> Linked(i)
    BY <2>1 DEF Linked
  <2>3. EdgesInv(i)'
    BY <1>1, <2>1, <2>2, EdgesKept
  <2>4. ColumnInv(i)'
    <3>1. SUFFICES ASSUME Own(i)', ~Noted(z)',
                          \A j \in i + 1..Len(commits') : commits'[j].on = z => ~Own(j)'
                   PROVE  /\ calls'[d].pc = "mirror" => file'[z].state = calls'[d].copy.state
                          /\ calls'[d].pc \in {"edge", "append", "paragraph"} \/ calls'[d].result = "ok" =>
                               row'[z] = IF calls'[d].req.kind \in NullsRow THEN NoGapState
                                         ELSE file'[z].state
      BY <2>1 DEF ColumnInv
    <3>2. n + 1 \in i + 1..Len(commits')
      BY <1>4
    <3>3. z # e
      BY <1>4, <1>6, <3>1, <3>2
    <3>4. file'[z] = file[z] /\ row'[z] = row[z]
      BY <1>1, <1>5, <2>1, <3>3
    <3>5. Own(i) /\ ~Noted(z)
      BY <2>1, <3>1, AllSame DEF Same
    <3>6. \A j \in i + 1..Len(commits) : commits[j].on = z => ~Own(j)
      <4>1. \A j \in i + 1..Len(commits) : j \in DOMAIN commits /\ j \in i + 1..Len(commits')
        BY <1>4, <1>n
      <4> QED
        BY <1>4, <3>1, <4>1 DEF Same
    <3> QED
      BY <2>1, <3>4, <3>5, <3>6 DEF ColumnInv
  <2> QED
    BY <2>3, <2>4
<1>11. PICK m : m = n + 1
  OBVIOUS
<1>12. ColumnInv(m)' /\ EdgesInv(m)'
  BY <1>3, <1>4, <1>5, <1>11 DEF ColumnInv, EdgesInv
<1>13. \A i \in DOMAIN commits' : ColumnInv(i)' /\ EdgesInv(i)'
  <2>1. \A i \in DOMAIN commits' : i \in DOMAIN commits \/ i = m
    BY <1>4, <1>11
  <2> QED
    BY <1>10, <1>12, <2>1
<1> QED
  BY <1>9, <1>13 DEF MirrorInv

\* A paragraph in a dataview is no edit, and its file keeps its gap state.
LEMMA AppendWriteMirrors ==
  ASSUME EditInv, MirrorInv, NEW c \in DOMAIN calls, EditInv', Turn(c), Grows, AppendWrite(c)
  PROVE  MirrorInv'
<1> DEFINE r == calls[c].req
           e == r.target
           f == [calls[c].copy EXCEPT !.dataview = @ \cup {r.para}]
<1>1. TypeOK /\ StageInv(c) /\ ParagraphInv(c) /\ calls[c].pc = "paragraph"
      /\ UNCHANGED <<row, edges>>
  BY DEF EditInv, AppendWrite
<1>2. e \in Entity /\ (r.kind # "add_edge" => r.on # e)
  BY <1>1, CallType, RequestType DEF StageInv, Label
<1>3. calls'[c].pc = "done" /\ calls[c].copy \in Files /\ calls'[c].req = r
      /\ f \in Files
  BY <1>1, AppendWriteTurns DEF Turn
<1>a. f.state = calls[c].copy.state
  BY <1>3 DEF Files
<1>n. PICK n : n = Len(commits)
  OBVIOUS
<1>4. /\ n \in Nat /\ DOMAIN commits = 1..n /\ Len(commits') = n + 1 /\ DOMAIN commits' = 1..(n + 1)
      /\ commits'[n + 1].call = c /\ commits'[n + 1].on = e
      /\ \A i \in DOMAIN commits : commits'[i] = commits[i] /\ Same(i)
  <2>1. commits \in Seq(Commits)
    BY <1>1 DEF TypeOK
  <2>2. PICK x : x = [call |-> c, on |-> e, outdated |-> file[e] # calls[c].base]
    OBVIOUS
  <2>3. commits' = Append(commits, x) /\ x.call = c /\ x.on = e
    BY <2>2 DEF AppendWrite, Replace
  <2>4. \A i \in DOMAIN commits : Same(i)
    BY AllSame
  <2> QED
    BY <1>n, <2>1, <2>3, <2>4
<1>5. file'[e] = f /\ \A z \in Entity : z # e => file'[z] = file[z]
  BY <1>1, <1>2 DEF AppendWrite, Replace, TypeOK
<1> HIDE DEF f
<1>6. ~Own(n + 1)'
  BY <1>2, <1>3, <1>4 DEF Own
<1>7. ASSUME NEW i \in DOMAIN commits
      PROVE  /\ commits[i].call \in DOMAIN calls /\ commits[i].on \in Entity
             /\ file[commits[i].on] # None
  <2>1. CommitInv(i) /\ commits \in Seq(Commits)
    BY <1>1 DEF EditInv, TypeOK
  <2>2. commits[i] \in Commits
    BY <2>1
  <2> QED
    BY <2>1, <2>2 DEF CommitInv, Past, Commits
<1>8. ASSUME NEW d \in DOMAIN calls', calls'[d].pc \in AfterWrite, calls'[d].req.kind # "add_edge"
      PROVE  \E i \in DOMAIN commits' :
               commits'[i].call = d /\ Own(i)' /\ (Locks(d)' => Latest(i)')
  <2>1. d \in DOMAIN calls /\ calls'[d] = calls[d]
    BY <1>3, <1>8 DEF Turn, AfterWrite
  <2>2. OrderInv(d)
    BY <2>1 DEF MirrorInv
  <2>3. PICK i \in DOMAIN commits : commits[i].call = d /\ Own(i) /\ (Locks(d) => Latest(i))
    BY <1>8, <2>1, <2>2 DEF OrderInv
  <2>4. i \in DOMAIN commits' /\ commits'[i] = commits[i] /\ Own(i)'
    BY <1>4, <2>3 DEF Same
  <2>5. Latest(i) => Latest(i)'
    <3>1. SUFFICES ASSUME Latest(i), NEW j \in i + 1..Len(commits'),
                          commits'[j].on = commits'[i].on, Own(j)'
                   PROVE  calls'[commits'[j].call].req.kind = "post_note"
      BY DEF Latest
    <3>2. j # n + 1
      BY <1>6, <3>1
    <3>3. j \in i + 1..Len(commits) /\ j \in DOMAIN commits
      BY <1>4, <1>n, <3>2
    <3> QED
      BY <1>4, <2>4, <3>1, <3>3 DEF Latest, Same
  <2>6. Locks(d)' <=> Locks(d)
    BY <2>1 DEF Locks
  <2> QED
    BY <2>3, <2>4, <2>5, <2>6
<1>9. \A d \in DOMAIN calls' : OrderInv(d)'
  BY <1>8 DEF OrderInv, AfterWrite
<1>10. ASSUME NEW i \in DOMAIN commits
       PROVE  ColumnInv(i)' /\ EdgesInv(i)'
  <2> DEFINE d == commits[i].call
             z == commits[i].on
  <2>1. ColumnInv(i) /\ EdgesInv(i) /\ Same(i) /\ commits'[i] = commits[i]
        /\ d \in DOMAIN calls /\ z \in Entity /\ file[z] # None
    BY <1>4, <1>7 DEF MirrorInv
  <2>2. calls'[d].req = calls[d].req /\ (d # c => calls'[d] = calls[d])
    BY <2>1 DEF Turn
  <2>3. Linked(i)' => Linked(i)
    BY <1>1, <2>1, <2>2 DEF Linked
  <2>4. EdgesInv(i)'
    BY <1>1, <2>1, <2>3, EdgesKept
  <2>5. ColumnInv(i)'
    <3>1. SUFFICES ASSUME Own(i)', ~Noted(z)',
                          \A j \in i + 1..Len(commits') : commits'[j].on = z => ~Own(j)'
                   PROVE  /\ calls'[d].pc = "mirror" => file'[z].state = calls'[d].copy.state
                          /\ calls'[d].pc \in {"edge", "append", "paragraph"} \/ calls'[d].result = "ok" =>
                               row'[z] = IF calls'[d].req.kind \in NullsRow THEN NoGapState
                                         ELSE file'[z].state
      BY <2>1 DEF ColumnInv
    <3>2. Own(i) /\ ~Noted(z)
      BY <2>1, <3>1, AllSame DEF Same
    <3>3. file'[z].state = file[z].state /\ row'[z] = row[z]
      <4>1. CASE z # e
        BY <1>1, <1>5, <2>1, <4>1
      <4>2. CASE z = e
        <5>1. calls[c].base = file[e] /\ calls[c].copy = file[e]
          BY <1>1, <2>1, <3>2, <4>2 DEF ParagraphInv
        <5> QED
          BY <1>1, <1>5, <1>a, <4>2, <5>1
      <4> QED
        BY <4>1, <4>2
    <3>4. \A j \in i + 1..Len(commits) : commits[j].on = z => ~Own(j)
      <4>1. \A j \in i + 1..Len(commits) : j \in DOMAIN commits /\ j \in i + 1..Len(commits')
        BY <1>4, <1>n
      <4> QED
        BY <1>4, <3>1, <4>1 DEF Same
    <3>5. /\ calls'[d].pc = "mirror" => calls[d].pc = "mirror" /\ calls'[d].copy = calls[d].copy
          /\ calls'[d].pc \in {"edge", "append", "paragraph"} \/ calls'[d].result = "ok" =>
               calls[d].pc \in {"edge", "append", "paragraph"} \/ calls[d].result = "ok"
      BY <1>1, <1>3, <2>2
    <3> QED
      BY <2>1, <2>2, <3>2, <3>3, <3>4, <3>5 DEF ColumnInv
  <2> QED
    BY <2>4, <2>5
<1>11. PICK m : m = n + 1
  OBVIOUS
<1>12. ColumnInv(m)' /\ EdgesInv(m)'
  BY <1>6, <1>11 DEF ColumnInv, EdgesInv
<1>13. \A i \in DOMAIN commits' : ColumnInv(i)' /\ EdgesInv(i)'
  <2>1. \A i \in DOMAIN commits' : i \in DOMAIN commits \/ i = m
    BY <1>4, <1>11
  <2> QED
    BY <1>10, <1>12, <2>1
<1> QED
  BY <1>9, <1>13 DEF MirrorInv

LEMMA MirrorStep ==
  ASSUME EditInv, MirrorInv, NEW c \in DOMAIN calls, Step(c)
  PROVE  MirrorInv'
<1>1. EditInv' /\ Turn(c) /\ Grows
  BY EditStep
<1>2. TypeOK /\ StageInv(c) /\ \A e \in Entity : OldNotes(file[e])
  BY DEF EditInv
<1>3. CASE Lock(c)
  <2>1. UNCHANGED <<file, row, edges, commits>> /\ calls[c].pc = "lock"
    BY <1>3 DEF Lock
  <2>2. calls'[c].pc \in {"load", "done"}
    <3>1. CASE Goto(c, "load")
      BY <1>2, <3>1, GotoMoves DEF PCs, Only
    <3>2. ASSUME NEW result \in {"conflict", "timeout"}, Answer(c, result)
          PROVE  calls'[c].pc = "done"
      BY <1>2, <3>2, AnswerMoves DEF Results, Only
    <3> QED
      BY <1>3, <3>1, <3>2 DEF Lock
  <2> QED
    BY <1>1, <2>1, <2>2, MirrorQuiet DEF Past, AfterWrite
<1>4. CASE Load(c)
  <2>1. UNCHANGED <<file, row, edges, commits>> /\ calls[c].pc = "load"
    BY <1>4 DEF Load
  <2>2. calls'[c].pc \in {"write", "done"}
    <3>1. calls[c] \in Calls /\ calls \in Seq(Calls)
      BY <1>2, CallType DEF TypeOK
    <3>2. ASSUME NEW result, Close(c, result)
          PROVE  calls'[c].pc = "done"
      BY <3>1, <3>2 DEF Close, Calls
    <3>3. ASSUME NEW f, NEW b, Carry(c, "write", f, b)
          PROVE  calls'[c].pc = "write"
      BY <3>1, <3>3 DEF Carry, Calls
    <3> QED
      BY <1>4, <3>2, <3>3 DEF Load, Answer
  <2> QED
    BY <1>1, <2>1, <2>2, MirrorQuiet DEF Past, AfterWrite
<1>5. CASE Write(c)
  BY <1>1, <1>5, WriteMirrors
<1>6. CASE WriteFails(c)
  <2>1. UNCHANGED <<file, row, edges, commits>> /\ calls[c].pc = "write" /\ Answer(c, "failed")
    BY <1>6 DEF WriteFails
  <2>2. calls'[c].pc = "done"
    BY <1>2, <2>1, AnswerMoves DEF Results, Only
  <2> QED
    BY <1>1, <2>1, <2>2, MirrorQuiet DEF Past, AfterWrite
<1>7. CASE Mirror(c)
  BY <1>1, <1>7, MirrorMirrors
<1>8. CASE MirrorFails(c)
  <2>1. UNCHANGED <<file, row, edges, commits>> /\ calls[c].pc = "mirror"
    BY <1>8 DEF MirrorFails
  <2>2. calls'[c].pc = "done" /\ calls'[c].result # "ok"
    BY <1>2, <1>8, MirrorFailsTurns
  <2> QED
    BY <1>1, <2>1, <2>2, MirrorQuiet DEF AfterWrite
<1>9. CASE Edge(c) \/ EdgeFails(c)
  BY <1>1, <1>9, EdgeMirrors
<1>10. CASE AppendLock(c)
  <2>1. UNCHANGED <<file, row, edges, commits>> /\ calls[c].pc = "append"
    BY <1>10 DEF AppendLock
  <2>2. calls'[c].pc \in {"paragraph", "done"}
    BY <1>2, <1>10, AppendLockTurns
  <2> QED
    BY <1>1, <2>1, <2>2, MirrorQuiet
<1>11. CASE AppendWrite(c)
  BY <1>1, <1>11, AppendWriteMirrors
<1>12. CASE AppendFails(c)
  <2>1. UNCHANGED <<file, row, edges, commits>> /\ calls[c].pc = "paragraph"
    BY <1>12 DEF AppendFails
  <2>2. calls'[c].pc = "done" /\ calls'[c].result # "ok"
    BY <1>2, <1>12, AppendFailsTurns
  <2> QED
    BY <1>1, <2>1, <2>2, MirrorQuiet DEF AfterWrite
<1> QED
  BY <1>3, <1>4, <1>5, <1>6, <1>7, <1>8, <1>9, <1>10, <1>11, <1>12 DEF Step

LEMMA MirrorNext == EditInv /\ MirrorInv /\ [Next]_vars => MirrorInv'
<1> SUFFICES ASSUME EditInv, MirrorInv, [Next]_vars
             PROVE  MirrorInv'
  OBVIOUS
<1>1. ASSUME NEW r \in Request, Call(r)
      PROVE  MirrorInv'
  <2>1. PICK c \in 1..MaxCalls :
          /\ Types' /\ Turn(c) /\ StageInv(c)' /\ DraftInv(c)' /\ ParagraphInv(c)'
          /\ c \notin DOMAIN calls
    BY <1>1, CallTurns
  <2>2. UNCHANGED <<file, row, edges, commits>>
    BY <1>1 DEF Call
  <2>3. EditInv' /\ Grows
    BY <2>1, <2>2, SilentStep
  <2>4. calls'[c].pc \notin AfterWrite \/ calls'[c].req.kind = "add_edge"
    <3>1. calls'[c].pc \in {"lock", "load", "edge"} /\ (calls'[c].pc = "edge" => calls'[c].req.kind = "add_edge")
      <4>1. calls \in Seq(Calls) /\ DOMAIN calls = 1..Len(calls) /\ Len(calls) \in Nat
        BY DEF EditInv, TypeOK
      <4>2. PICK k : k = [req |-> r, copy |-> None, base |-> None, result |-> "none",
                          seen |-> IF r.kind \in Sections THEN Editable(r).body ELSE NoSections,
                          pc |-> CASE r.kind = "post_note" -> "load" [] r.kind = "add_edge" -> "edge"
                                   [] OTHER -> "lock"]
        OBVIOUS
      <4>3. k.req = r /\ k.pc \in {"lock", "load", "edge"} /\ (k.pc = "edge" => r.kind = "add_edge")
        BY <4>2
      <4>4. calls' = Append(calls, k)
        BY <1>1, <4>2 DEF Call
      <4>5. c = Len(calls) + 1
        BY <2>1, <4>1, <4>4 DEF Turn
      <4> QED
        BY <4>1, <4>3, <4>4, <4>5
    <3> QED
      BY <3>1 DEF AfterWrite
  <2> QED
    BY <2>1, <2>2, <2>3, <2>4, MirrorQuiet DEF Past
<1>2. ASSUME NEW c \in 1..MaxCalls, Step(c)
      PROVE  MirrorInv'
  BY <1>2, MirrorStep DEF Step
<1>3. CASE UNCHANGED vars
  BY <1>3 DEF vars, MirrorInv, OrderInv, ColumnInv, EdgesInv, Locks, Latest, Own, Noted, AddedByActions
<1> QED
  BY <1>1, <1>2, <1>3 DEF Next

\* MirrorFollowsFile: after the latest edit of a file that was answered, its row holds the
\* file's gap state, unless the notes endpoint wrote the file, and its edges are its own.
THEOREM MirrorFollows == Spec => []MirrorFollowsFile
<1>1. Init => MirrorInv
  <2>1. Init => DOMAIN calls = {} /\ DOMAIN commits = {}
    BY DEF Init
  <2> QED
    BY <2>1 DEF MirrorInv
<1>2. MirrorInv => MirrorFollowsFile
  BY DEF MirrorInv, ColumnInv, EdgesInv, MirrorFollowsFile, ColumnFollowsFile, EdgesFollowFile
<1> QED
  BY <1>1, <1>2, MirrorNext, Invariance, PTL DEF Spec
=============================================================================
