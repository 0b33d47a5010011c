------------------------ MODULE PluginCommands_proof ------------------------
(***************************************************************************)
(* Proofs about PluginCommands, for every number of requests, every        *)
(* configuration of instances, every mailbox and every number of failures. *)
(***************************************************************************)
EXTENDS PluginCommands, SequenceTheorems, WellFoundedInduction, TLAPS

\* A record nobody has begun.
Fresh(r) == record[r] = "none" /\ run[r] = NoRun

\* The key of an invocation names a pending record of its instance.
KeyInv ==
  \A k \in Form \X Instance :
    byInvocationKey[k] # None =>
      /\ record[byInvocationKey[k]] = "pending"
      /\ byInvocationKey[k][2] = k[2]

Open == {"walk", "wait"}

\* What a handler has to walk, and the record it waits for.
WalkInv(q) ==
  LET todo == request[q].todo  on == request[q].on IN
  /\ request[q].pc = "new" =>
       request[q].results = <<>> /\ \A i \in Instance : Fresh(<<q, i>>)
  /\ request[q].pc = "walk" => on = None /\ \A n \in todo : Fresh(<<q, Configured[n]>>)
  /\ request[q].pc = "wait" =>
       /\ todo # {} /\ on # None /\ on[2] = Target(q) /\ record[on] # "none"
       /\ \A n \in todo \ {Place(q)} : Fresh(<<q, Configured[n]>>)

\* The results so far: each rests on a record that will not change any more,
\* and with what is left to walk they make up the targets.
ResultsInv(q) ==
  LET results == request[q].results
      targets == Targets(request[q].form)
      todo == request[q].todo
  IN /\ request[q].pc \in Open \cup {"answered"} =>
          targets = todo \cup {results[n].place : n \in DOMAIN results}
     /\ request[q].pc = "answered" => todo = {}
     /\ todo \subseteq targets
     /\ \A m, n \in DOMAIN results : m < n => results[m].place < results[n].place
     /\ \A n \in DOMAIN results : \A p \in todo : results[n].place < p
     /\ \A n \in DOMAIN results :
          LET e == results[n]  i == Configured[e.place] IN
          /\ e.place \in targets
          /\ IF e.on = None THEN i \in EnvFails
             ELSE /\ e.on[2] = i
                  /\ e.state \notin Unwaited => /\ record[e.on] \in Terminal
                                           /\ e.state = Reported(record[e.on])

\* Where a poll is, and where the messages in its output come from.
PollInv(r) ==
  /\ run[r].pc = "none" => run[r] = NoRun
  /\ run[r].pc = "done" => run[r].out = <<>>
  /\ run[r].pc = "persist" => run[r].out # <<>>
  /\ run[r].pc \in Polling => run[r].env = r[2] /\ run[r].folder >= 1
  /\ run[r].pc \in {"emit", "mark"} =>
       run[r].folder <= Len(Box[r[2]]) /\ run[r].uids \subseteq DOMAIN Folder(r)
  /\ run[r].pc = "mark" => run[r].uids # {} /\ Message(r) \in Range(run[r].out)
  /\ Range(run[r].out) \subseteq Wellformed(r[2])

\* A message that needs no poll any more, or is in this one's hands.
Safe(r, m) == m \in Malformed \/ m \in InVault \/ m \in labelled \/ m \in Range(run[r].out)

\* What a poll with nothing passed over has behind it is safe.
CoverInv(r) ==
  ~run[r].partial =>
    /\ run[r].pc \in Polling =>
         \A f \in DOMAIN Box[r[2]] : f < run[r].folder =>
           \A m \in Range(Box[r[2]][f]) : Safe(r, m)
    /\ run[r].pc \in {"emit", "mark"} =>
         \A n \in DOMAIN Folder(r) \ run[r].uids : Safe(r, Folder(r)[n])
    /\ run[r].pc \in {"dispatch", "persist", "done"} =>
         \A m \in Wellformed(r[2]) : Safe(r, m)

LabelInv == labelled \subseteq InVault \cup Waiting \cup lost

VaultInv == \A file \in vault : file[1] \in Wellformed(file[2])

Inv ==
  /\ TypeOK /\ KeyInv /\ LabelInv /\ VaultInv
  /\ \A q \in Request : WalkInv(q) /\ ResultsInv(q)
  /\ \A r \in Record : PollInv(r) /\ CoverInv(r)

-----------------------------------------------------------------------------
(* Lemmas about the operators.                                              *)

\* A set of numbers that is not empty has a least one.
LEMMA MinIsLeast ==
  ASSUME NEW S \in SUBSET Nat, S # {}
  PROVE  Min(S) \in S /\ \A y \in S : Min(S) =< y
<1>1. PICK x \in S : \A y \in S : ~ (<<y, x>> \in OpToRel(<, Nat))
  BY NatLessThanWellFounded, WFMin
<1>2. ASSUME NEW y \in S PROVE x =< y
  <2>1. x \in Nat /\ y \in Nat
    OBVIOUS
  <2>2. <<y, x>> \in OpToRel(<, Nat) <=> y < x
    BY <2>1, ZenonT(20) DEF OpToRel
  <2>3. ~ (y < x)
    BY <1>1, <2>2, Zenon
  <2> QED
    BY <2>1, <2>3
<1> QED
  BY <1>2 DEF Min

\* The places of the instances.
LEMMA Places ==
  /\ DOMAIN Configured = 1..Len(Configured) /\ Len(Configured) \in Nat
  /\ \A n \in DOMAIN Configured : n \in Nat /\ Configured[n] \in Instance
  /\ \A m, n \in DOMAIN Configured : Configured[m] = Configured[n] => m = n
<1>1. DOMAIN Configured = 1..Len(Configured) /\ Len(Configured) \in Nat
  BY ConfiguredAssumption, LenProperties
<1>2. \A n \in DOMAIN Configured : n \in Nat
  BY <1>1
<1> QED
  BY <1>1, <1>2, ConfiguredAssumption DEF IsInjective, Instance, Range

\* A handler with something to walk has an instance in hand.
LEMMA InHand ==
  ASSUME TypeOK, NEW q \in Request, request[q].todo # {}
  PROVE  /\ Place(q) \in request[q].todo /\ Place(q) \in DOMAIN Configured
         /\ \A n \in request[q].todo : Place(q) =< n
         /\ Target(q) \in Instance
         /\ \A n \in request[q].todo \ {Place(q)} :
              n \in DOMAIN Configured /\ Configured[n] # Target(q)
<1>1. request[q].todo \in SUBSET (DOMAIN Configured)
  BY DEF TypeOK, Requests
<1>2. request[q].todo \in SUBSET Nat
  BY <1>1, Places
<1>3. /\ Place(q) \in request[q].todo
      /\ \A n \in request[q].todo : Place(q) =< n
  BY <1>2, MinIsLeast DEF Place
<1> QED
  BY <1>1, <1>3, Places DEF Target

\* A poll in a folder has a message in hand.
LEMMA MessageInHand ==
  ASSUME TypeOK, NEW r \in Record, PollInv(r), run[r].pc \in {"emit", "mark"}
  PROVE  /\ run[r].env = r[2] /\ r[2] \in Instance
         /\ run[r].folder \in DOMAIN Box[r[2]]
         /\ Folder(r) \in Seq(Mail) /\ Folder(r) = Box[r[2]][run[r].folder]
         /\ run[r].uids \subseteq DOMAIN Folder(r)
         /\ run[r].uids # {} => /\ Uid(r) \in run[r].uids /\ Uid(r) \in DOMAIN Folder(r)
                               /\ Message(r) \in Mail
                               /\ Message(r) \in Range(Folder(r))
<1>1. run[r].env = r[2] /\ r[2] \in Instance /\ run[r].folder \in Nat
  BY DEF PollInv, Polling, Record, TypeOK, Runs
<1>2. Box[r[2]] \in Seq(Seq(Mail))
  BY <1>1, BoxAssumption
<1>3. run[r].folder \in 1..Len(Box[r[2]]) /\ DOMAIN Box[r[2]] = 1..Len(Box[r[2]])
  <2>1. run[r].folder >= 1 /\ run[r].folder <= Len(Box[r[2]])
    BY DEF PollInv, Polling
  <2> QED
    BY <2>1, <1>1, <1>2, LenProperties
<1>4. Folder(r) \in Seq(Mail) /\ Folder(r) = Box[r[2]][run[r].folder]
  BY <1>1, <1>2, <1>3 DEF Folder, Folders
<1>5. run[r].uids \subseteq DOMAIN Folder(r)
  BY DEF PollInv
<1>6. ASSUME run[r].uids # {}
      PROVE  /\ Uid(r) \in run[r].uids /\ Uid(r) \in DOMAIN Folder(r)
             /\ Message(r) \in Mail /\ Message(r) \in Range(Folder(r))
  <2>1. run[r].uids \in SUBSET Nat
    BY DEF TypeOK, Runs
  <2>2. Uid(r) \in run[r].uids
    BY <1>6, <2>1, MinIsLeast DEF Uid
  <2>3. Uid(r) \in DOMAIN Folder(r)
    BY <2>2, <1>5
  <2>4. DOMAIN Folder(r) = 1..Len(Folder(r))
    BY <1>4, LenProperties
  <2> QED
    BY <2>2, <2>3, <2>4, <1>4 DEF Message, Range
<1> QED
  BY <1>1, <1>3, <1>4, <1>5, <1>6

\* What is in a message's box and is not malformed is wellformed.
LEMMA BoxMail ==
  ASSUME NEW i \in Instance, NEW f \in DOMAIN Box[i], NEW m \in Range(Box[i][f])
  PROVE  m \in Malformed \/ m \in Wellformed(i)
<1>1. Range(Box[i][f]) \in {Range(Box[i][g]) : g \in DOMAIN Box[i]}
  OBVIOUS
<1>2. m \in UNION {Range(Box[i][g]) : g \in DOMAIN Box[i]}
  BY <1>1
<1> QED
  BY <1>2 DEF Wellformed, Mails

LEMMA WellformedIs ==
  ASSUME NEW i \in Instance, NEW m \in Wellformed(i)
  PROVE  m \notin Malformed /\ \E f \in DOMAIN Box[i] : m \in Range(Box[i][f])
<1>1. m \notin Malformed /\ m \in UNION {Range(Box[i][g]) : g \in DOMAIN Box[i]}
  BY DEF Wellformed, Mails
<1>2. PICK S \in {Range(Box[i][g]) : g \in DOMAIN Box[i]} : m \in S
  BY <1>1
<1> QED
  BY <1>1, <1>2

\* One more message in an output, or the first of it gone.
LEMMA RangeAppend ==
  ASSUME NEW s \in Seq(Mail), NEW m \in Mail
  PROVE  Append(s, m) \in Seq(Mail) /\ Range(Append(s, m)) = Range(s) \cup {m}
<1>1. /\ Append(s, m) \in Seq(Mail) /\ Len(s) \in Nat
      /\ DOMAIN s = 1..Len(s) /\ DOMAIN Append(s, m) = 1..(Len(s) + 1)
      /\ \A i \in 1..Len(s) : Append(s, m)[i] = s[i]
      /\ Append(s, m)[Len(s) + 1] = m
  BY AppendProperties, LenProperties
<1>2. \A i \in 1..(Len(s) + 1) : i \in 1..Len(s) \/ i = Len(s) + 1
  BY <1>1
<1>3. \A i \in 1..Len(s) : i \in 1..(Len(s) + 1)
  BY <1>1
<1>4. Len(s) + 1 \in 1..(Len(s) + 1)
  BY <1>1
<1> QED
  BY <1>1, <1>2, <1>3, <1>4 DEF Range

LEMMA RangeTail ==
  ASSUME NEW s \in Seq(Mail), s # <<>>
  PROVE  /\ Head(s) \in Mail /\ Tail(s) \in Seq(Mail)
         /\ Range(s) = {Head(s)} \cup Range(Tail(s))
<1>1. /\ Head(s) \in Mail /\ Tail(s) \in Seq(Mail)
      /\ Len(s) \in Nat \ {0} /\ Len(Tail(s)) = Len(s) - 1
      /\ DOMAIN s = 1..Len(s) /\ DOMAIN Tail(s) = 1..(Len(s) - 1)
      /\ \A i \in 1..(Len(s) - 1) : Tail(s)[i] = s[i + 1]
      /\ Head(s) = s[1]
  BY HeadTailProperties, EmptySeq, LenProperties
<1>2. \A i \in 1..Len(s) : i = 1 \/ (i - 1 \in 1..(Len(s) - 1) /\ (i - 1) + 1 = i)
  BY <1>1
<1>3. 1 \in 1..Len(s) /\ \A i \in 1..(Len(s) - 1) : i + 1 \in 1..Len(s)
  BY <1>1
<1>4. ASSUME NEW x \in Range(s) PROVE x \in {Head(s)} \cup Range(Tail(s))
  <2>1. PICK i \in 1..Len(s) : x = s[i]
    BY <1>1 DEF Range
  <2>2. CASE i = 1
    BY <2>1, <2>2, <1>1
  <2>3. CASE i # 1
    <3>1. i - 1 \in DOMAIN Tail(s) /\ Tail(s)[i - 1] = x
      BY <2>1, <2>3, <1>1, <1>2
    <3> QED
      BY <3>1 DEF Range
  <2> QED
    BY <2>2, <2>3
<1>5. ASSUME NEW x \in {Head(s)} \cup Range(Tail(s)) PROVE x \in Range(s)
  BY <1>1, <1>3 DEF Range
<1> QED
  BY <1>1, <1>4, <1>5

LEMMA RangeEmpty == Range(<<>>) = {}
  BY DEF Range

-----------------------------------------------------------------------------
(* Steps of a handler.                                                      *)

\* What is known of a request stays known while it does not move.
LEMMA RequestKept ==
  ASSUME TypeOK, NEW q \in Request, WalkInv(q), ResultsInv(q),
         request'[q] = request[q],
         \A i \in Instance : Fresh(<<q, i>>) => Fresh(<<q, i>>)',
         \A r \in Record : record[r] \in Terminal => record'[r] = record[r],
         \A r \in Record : record[r] # "none" => record'[r] # "none"
  PROVE  WalkInv(q)' /\ ResultsInv(q)'
<1>1. /\ request[q].todo \subseteq DOMAIN Configured
      /\ request[q].on \in Record \cup {None}
  BY DEF TypeOK, Requests
<1>2. \A n \in request[q].todo : Configured[n] \in Instance
  BY <1>1, Places
<1>3. \A n \in DOMAIN request[q].results :
        request[q].results[n].on \in Record \cup {None}
  <2>1. request[q].results \in Seq(Results)
    BY DEF TypeOK, Requests
  <2>2. \A n \in DOMAIN request[q].results : request[q].results[n] \in Results
    BY <2>1, LenProperties, ElementOfSeq
  <2> QED
    BY <2>2 DEF Results
<1>4. WalkInv(q)'
  BY <1>1, <1>2 DEF WalkInv, Target, Place
<1>5. ResultsInv(q)'
  BY <1>3 DEF ResultsInv
<1> QED
  BY <1>4, <1>5

\* A step of one handler that touches its request only.
LEMMA RequestStep ==
  ASSUME Inv, NEW q \in Request, NEW s \in Requests,
         request' = [request EXCEPT ![q] = s],
         UNCHANGED <<byInvocationKey, record, run, store>>,
         troubles' \in 0..MaxTroubles,
         WalkInv(q)', ResultsInv(q)'
  PROVE  Inv'
<1>1. TypeOK'
  BY DEF Inv, TypeOK, store
<1>2. KeyInv' /\ LabelInv' /\ VaultInv'
  BY DEF Inv, KeyInv, LabelInv, VaultInv, InVault, Waiting, store
<1>3. \A r \in Record : PollInv(r)' /\ CoverInv(r)'
  BY DEF Inv, PollInv, CoverInv, Safe, InVault, Message, Uid, Folder, Folders, store
<1>4. ASSUME NEW x \in Request, x # q
      PROVE  WalkInv(x)' /\ ResultsInv(x)'
  <2>1. request'[x] = request[x]
    BY <1>4 DEF Inv, TypeOK
  <2>2. \A i \in Instance : Fresh(<<x, i>>) => Fresh(<<x, i>>)'
    BY DEF Fresh
  <2> QED
    BY <2>1, <2>2, RequestKept DEF Inv
<1> QED
  BY <1>1, <1>2, <1>3, <1>4 DEF Inv

\* The result of one instance is in, from its record or without one.
LEMMA ReportStep ==
  ASSUME Inv, NEW q \in Request, NEW state \in {"complete", "failed"} \cup Unwaited,
         request' = Report(q, state),
         UNCHANGED <<byInvocationKey, record, run, store>>,
         troubles' \in 0..MaxTroubles,
         request[q].pc \in Open, request[q].todo # {},
         request[q].pc = "walk" => Target(q) \in EnvFails,
         request[q].pc = "wait" /\ state \notin Unwaited =>
           /\ record[request[q].on] \in Terminal
           /\ state = Reported(record[request[q].on])
  PROVE  Inv'
<1> DEFINE old == request[q]
           e == Result(q, state)
           s == [old EXCEPT !.pc = "walk", !.on = None, !.todo = @ \ {Place(q)},
                            !.results = Append(@, e)]
<1>1. TypeOK /\ WalkInv(q) /\ ResultsInv(q)
  BY DEF Inv
<1>2. old \in Requests
  BY <1>1 DEF TypeOK
<1>3. /\ Place(q) \in old.todo /\ Place(q) \in DOMAIN Configured
      /\ \A n \in old.todo : Place(q) =< n
      /\ Target(q) = Configured[Place(q)]
  BY <1>1, InHand DEF Target
<1>4. e \in Results
  BY <1>2, <1>3 DEF Results, Requests, Result
<1>5. old.results \in Seq(Results)
  BY <1>2 DEF Requests
<1>6. /\ Append(old.results, e) \in Seq(Results) /\ Len(old.results) \in Nat
      /\ DOMAIN old.results = 1..Len(old.results)
      /\ DOMAIN Append(old.results, e) = 1..(Len(old.results) + 1)
      /\ \A n \in 1..Len(old.results) : Append(old.results, e)[n] = old.results[n]
      /\ Append(old.results, e)[Len(old.results) + 1] = e
  <2> HIDE DEF old, e
  <2> QED
    BY <1>4, <1>5, AppendProperties, LenProperties
<1>7. /\ s \in Requests /\ s.pc = "walk" /\ s.on = None /\ s.form = old.form
      /\ s.todo = old.todo \ {Place(q)} /\ s.results = Append(old.results, e)
  <2> HIDE DEF e
  <2> QED
    BY <1>2, <1>6 DEF Requests
<1>8. request' = [request EXCEPT ![q] = s]
  BY DEF Report
<1>9. request'[q] = s
  BY <1>1, <1>8 DEF TypeOK
<1> HIDE DEF s
<1>10. WalkInv(q)'
  <2>1. \A n \in s.todo : Fresh(<<q, Configured[n]>>)
    BY <1>1, <1>7 DEF WalkInv, Open
  <2>2. \A r : Fresh(r) => Fresh(r)'
    BY DEF Fresh
  <2> QED
    BY <1>7, <1>9, <2>1, <2>2 DEF WalkInv
<1>11. ResultsInv(q)'
  <2> DEFINE new == Append(old.results, e)
             targets == Targets(old.form)
  <2>1. /\ targets = old.todo \cup {old.results[n].place : n \in DOMAIN old.results}
        /\ old.todo \subseteq targets
    BY <1>1 DEF ResultsInv
  <2>2. \A n \in DOMAIN new : n = Len(old.results) + 1 \/ n \in DOMAIN old.results
    BY <1>6
  <2>3. \A n \in DOMAIN old.results : n \in DOMAIN new /\ n < Len(old.results) + 1
    BY <1>6
  <2>4. targets = s.todo \cup {new[n].place : n \in DOMAIN new}
    <3>1. {new[n].place : n \in DOMAIN new} =
            {old.results[n].place : n \in DOMAIN old.results} \cup {Place(q)}
      <4>1. ASSUME NEW x \in {new[n].place : n \in DOMAIN new}
            PROVE  x \in {old.results[n].place : n \in DOMAIN old.results} \cup {Place(q)}
        BY <1>6, <2>2 DEF Result
      <4>2. \A n \in DOMAIN old.results : old.results[n].place = new[n].place
        BY <1>6
      <4>3. Len(old.results) + 1 \in DOMAIN new /\ new[Len(old.results) + 1].place = Place(q)
        BY <1>6 DEF Result
      <4> HIDE DEF new
      <4> QED
        BY <4>1, <4>2, <4>3, <2>3
    <3> QED
      BY <3>1, <2>1, <1>3, <1>7
  <2>5. s.todo \subseteq targets
    BY <2>1, <1>7
  <2>6. ASSUME NEW n \in DOMAIN old.results
        PROVE  new[n] = old.results[n] /\ new[n].place < Place(q)
    BY <1>1, <1>3, <1>6 DEF ResultsInv
  <2>7. \A m, n \in DOMAIN new : m < n => new[m].place < new[n].place
    <3> SUFFICES ASSUME NEW m \in DOMAIN new, NEW n \in DOMAIN new, m < n
                 PROVE  new[m].place < new[n].place
      OBVIOUS
    <3>1. m \in DOMAIN old.results
      BY <1>6
    <3>2. CASE n \in DOMAIN old.results
      BY <3>1, <3>2, <2>6, <1>1 DEF ResultsInv
    <3>3. CASE n = Len(old.results) + 1
      BY <3>1, <3>3, <2>6, <1>6 DEF Result
    <3> QED
      BY <3>2, <3>3, <2>2
  <2>8. \A n \in DOMAIN new : \A p \in s.todo : new[n].place < p
    <3> SUFFICES ASSUME NEW n \in DOMAIN new, NEW p \in s.todo
                 PROVE  new[n].place < p
      OBVIOUS
    <3>1. CASE n \in DOMAIN old.results
      BY <3>1, <2>6, <1>1, <1>7 DEF ResultsInv
    <3>2. CASE n = Len(old.results) + 1
      <4>1. new[n].place = Place(q) /\ p \in old.todo /\ p # Place(q)
        BY <3>2, <1>6, <1>7 DEF Result
      <4>2. p \in Nat /\ Place(q) \in Nat
        BY <4>1, <1>2, <1>3, Places DEF Requests
      <4> QED
        BY <4>1, <4>2, <1>3
    <3> QED
      BY <3>1, <3>2, <2>2
  <2>9. ASSUME NEW n \in DOMAIN new
        PROVE  LET i == Configured[new[n].place] IN
               /\ new[n].place \in targets
               /\ IF new[n].on = None THEN i \in EnvFails
                  ELSE /\ new[n].on[2] = i
                       /\ new[n].state \notin Unwaited =>
                            /\ record[new[n].on] \in Terminal
                            /\ new[n].state = Reported(record[new[n].on])
    <3>1. CASE n \in DOMAIN old.results
      BY <3>1, <2>6, <1>1 DEF ResultsInv
    <3>2. CASE n = Len(old.results) + 1
      <4>1. new[n].place = Place(q) /\ new[n].on = old.on /\ new[n].state = state
        BY <3>2, <1>6 DEF Result
      <4>2. Place(q) \in targets
        BY <2>1, <1>3
      <4>3. old.pc = "walk" => old.on = None
        BY <1>1 DEF WalkInv
      <4>4. old.pc = "wait" => old.on # None /\ old.on[2] = Target(q)
        BY <1>1 DEF WalkInv
      <4> HIDE DEF new, targets
      <4> QED
        BY <4>1, <4>2, <4>3, <4>4, <1>3 DEF Open
    <3> QED
      BY <3>1, <3>2, <2>2
  <2>10. record' = record
    OBVIOUS
  <2> HIDE DEF new, targets
  <2>11. /\ request'[q].results = new /\ Targets(request'[q].form) = targets
         /\ request'[q].todo = s.todo /\ request'[q].pc = "walk"
    BY <1>7, <1>9 DEF new, targets
  <2> QED
    BY <2>4, <2>5, <2>7, <2>8, <2>9, <2>10, <2>11 DEF ResultsInv
<1> QED
  BY <1>7, <1>8, <1>10, <1>11, RequestStep

LEMMA EnvFailureInv ==
  ASSUME Inv, NEW q \in Request, EnvFailure(q)
  PROVE  Inv'
<1>1. troubles' \in 0..MaxTroubles
  BY DEF EnvFailure, Inv, TypeOK
<1> QED
  BY <1>1, ReportStep DEF EnvFailure, Walking, Is, Open

\* A request that waits has its record, and something left to walk.
LEMMA Awaited ==
  ASSUME Inv, NEW q \in Request, Is(q, "wait")
  PROVE  /\ request[q].pc \in Open /\ request[q].todo # {}
         /\ request[q].on \in Record
         /\ record[request[q].on] \in Terminal \cup {"pending"}
<1>1. request[q].on \in Record \cup {None}
  BY DEF Inv, TypeOK, Requests
<1>2. /\ request[q].todo # {} /\ request[q].on # None
      /\ record[request[q].on] # "none"
  BY DEF Inv, WalkInv, Is
<1> QED
  BY <1>1, <1>2 DEF Is, Open, Inv, TypeOK

LEMMA AnswerInv ==
  ASSUME Inv, NEW q \in Request, Answer(q)
  PROVE  Inv'
<1> DEFINE state == Reported(record[request[q].on])
<1>1. state \in {"complete", "failed"} \cup Unwaited
  BY DEF Reported
<1>2. troubles' \in 0..MaxTroubles
  BY DEF Answer, Inv, TypeOK
<1>3. /\ request[q].pc = "wait" /\ request[q].todo # {}
      /\ record[request[q].on] \in Terminal
  BY Awaited DEF Answer, Is
<1>4. /\ request' = Report(q, state)
      /\ UNCHANGED <<byInvocationKey, record, run, store>>
  BY DEF Answer
<1> HIDE DEF state
<1>5. request[q].pc = "wait" /\ state \notin Unwaited =>
        record[request[q].on] \in Terminal /\ state = Reported(record[request[q].on])
  BY <1>3 DEF state
<1> QED
  BY <1>1, <1>2, <1>3, <1>4, <1>5, ReportStep DEF Open

LEMMA TimeoutInv ==
  ASSUME Inv, NEW q \in Request, Timeout(q)
  PROVE  Inv'
<1>1. troubles' \in 0..MaxTroubles
  BY TroublesAssumption DEF Timeout, Trouble, Inv, TypeOK
<1> QED
  BY <1>1, Awaited, ReportStep DEF Timeout, Is, Unwaited

LEMMA AbandonInv ==
  ASSUME Inv, NEW q \in Request, Abandon(q)
  PROVE  Inv'
<1>1. troubles' \in 0..MaxTroubles
  BY TroublesAssumption DEF Abandon, Trouble, Inv, TypeOK
<1> QED
  BY <1>1, Awaited, ReportStep DEF Abandon, Is, Unwaited

LEMMA AskInv ==
  ASSUME Inv, NEW q \in Request, NEW f \in Form, Ask(q, f)
  PROVE  Inv'
<1> DEFINE s == [NewRequest EXCEPT !.form = f, !.todo = Targets(f),
                   !.pc = IF Targets(f) = {} THEN "refused" ELSE "walk"]
<1>1. /\ request' = [request EXCEPT ![q] = s]
      /\ UNCHANGED <<byInvocationKey, record, run, store, troubles>>
      /\ request[q].pc = "new"
  BY DEF Ask, Is
<1>2. Targets(f) \subseteq DOMAIN Configured
  BY DEF Targets
<1>3. <<>> \in Seq(Results) /\ DOMAIN <<>> = {}
  OBVIOUS
<1>4. /\ s \in Requests
      /\ s.form = f /\ s.todo = Targets(f) /\ s.on = None /\ s.results = <<>>
      /\ s.pc \in {"refused", "walk"}
  BY <1>2, <1>3 DEF NewRequest, Requests
<1>5. request'[q] = s
  BY <1>1 DEF Inv, TypeOK
<1> HIDE DEF s
<1>6. \A i \in Instance : Fresh(<<q, i>>)'
  BY <1>1 DEF Inv, WalkInv, Fresh
<1>7. \A n \in s.todo : Configured[n] \in Instance
  BY <1>2, <1>4, Places
<1>8. WalkInv(q)'
  BY <1>4, <1>5, <1>6, <1>7 DEF WalkInv
<1>9. ResultsInv(q)'
  BY <1>3, <1>4, <1>5 DEF ResultsInv
<1>10. troubles' \in 0..MaxTroubles
  BY <1>1 DEF Inv, TypeOK
<1> QED
  BY <1>1, <1>4, <1>8, <1>9, <1>10, RequestStep

LEMMA RespondInv ==
  ASSUME Inv, NEW q \in Request, Respond(q)
  PROVE  Inv'
<1> DEFINE s == [request[q] EXCEPT !.pc = "answered"]
<1>1. /\ request' = [request EXCEPT ![q] = s]
      /\ UNCHANGED <<byInvocationKey, record, run, store, troubles>>
      /\ request[q].pc = "walk" /\ request[q].todo = {}
  BY DEF Respond, Is
<1>2. request[q] \in Requests
  BY DEF Inv, TypeOK
<1>3. /\ s \in Requests /\ s.pc = "answered"
      /\ s.form = request[q].form /\ s.todo = request[q].todo /\ s.on = request[q].on
      /\ s.results = request[q].results
  BY <1>2 DEF Requests
<1>4. request'[q] = s
  BY <1>1 DEF Inv, TypeOK
<1> HIDE DEF s
<1>5. WalkInv(q)'
  BY <1>3, <1>4 DEF WalkInv
<1>6. ResultsInv(q)'
  BY <1>1, <1>3, <1>4 DEF ResultsInv, Inv, Open
<1>7. troubles' \in 0..MaxTroubles
  BY <1>1 DEF Inv, TypeOK
<1> QED
  BY <1>1, <1>3, <1>5, <1>6, <1>7, RequestStep

-----------------------------------------------------------------------------
(* Steps of a run.                                                          *)

\* A run that does not move stays where it is, and what it has behind it safe.
LEMMA RunKept ==
  ASSUME NEW r \in Record, PollInv(r), CoverInv(r), run'[r] = run[r],
         labelled \subseteq labelled', InVault \subseteq InVault'
  PROVE  PollInv(r)' /\ CoverInv(r)'
<1>1. PollInv(r)'
  BY DEF PollInv, Message, Uid, Folder, Folders
<1>2. \A m : Safe(r, m) => Safe(r, m)'
  BY DEF Safe
<1>3. Folder(r)' = Folder(r)
  BY DEF Folder, Folders
<1> QED
  BY <1>1, <1>2, <1>3 DEF CoverInv

\* A step of one run: it may label what is in its output, and what it drops
\* of its output is in the vault, or unlabelled, or counted as lost.
LEMMA RunStep ==
  ASSUME Inv, NEW r \in Record, NEW new \in Runs,
         run' = [run EXCEPT ![r] = new], run[r].pc # "none",
         request' = request, KeyInv', VaultInv',
         byInvocationKey' \in [Form \X Instance -> Record \cup {None}],
         record' \in [Record -> Terminal \cup {"none", "pending"}],
         \A x \in Record : x # r => record'[x] = record[x],
         record[r] \in Terminal => record'[r] = record[r],
         record[r] # "none" => record'[r] # "none",
         labelled' \in SUBSET Mail, labelled \subseteq labelled',
         labelled' \subseteq labelled \cup Range(new.out),
         vault' \in SUBSET (Mail \X Instance), vault \subseteq vault',
         lost' \in SUBSET labelled', lost \subseteq lost',
         Range(run[r].out) \cap labelled \subseteq Range(new.out) \cup InVault' \cup lost',
         troubles' \in 0..MaxTroubles,
         PollInv(r)', CoverInv(r)'
  PROVE  Inv'
<1>1. TypeOK'
  BY DEF Inv, TypeOK
<1>2. InVault \subseteq InVault'
  BY DEF InVault
<1>3. run'[r] = new /\ \A x \in Record : x # r => run'[x] = run[x]
  BY DEF Inv, TypeOK
<1>4. ASSUME NEW x \in Record PROVE PollInv(x)' /\ CoverInv(x)'
  <2>1. CASE x = r
    BY <2>1
  <2>2. CASE x # r
    BY <2>2, <1>2, <1>3, RunKept DEF Inv
  <2> QED
    BY <2>1, <2>2
<1>5. ASSUME NEW q \in Request PROVE WalkInv(q)' /\ ResultsInv(q)'
  <2>1. ASSUME NEW x \in Record, Fresh(x) PROVE Fresh(x)'
    <3>1. x # r
      BY <2>1 DEF Fresh, NoRun
    <3> QED
      BY <3>1, <2>1, <1>3 DEF Fresh
  <2>2. \A i \in Instance : <<q, i>> \in Record
    BY DEF Record
  <2>3. \A x \in Record : record[x] \in Terminal => record'[x] = record[x]
    OBVIOUS
  <2>4. \A x \in Record : record[x] # "none" => record'[x] # "none"
    OBVIOUS
  <2>5. \A i \in Instance : Fresh(<<q, i>>) => Fresh(<<q, i>>)'
    BY <2>1, <2>2
  <2> QED
    BY <2>3, <2>4, <2>5, RequestKept DEF Inv
<1>6. LabelInv'
  <2> SUFFICES ASSUME NEW m \in labelled' PROVE m \in InVault' \cup Waiting' \cup lost'
    BY DEF LabelInv
  <2>1. CASE m \in Range(new.out)
    BY <2>1, <1>3 DEF Waiting
  <2>2. CASE m \in labelled /\ m \in Range(run[r].out)
    BY <2>1, <2>2
  <2>3. CASE m \in labelled /\ m \notin Range(run[r].out)
    <3>1. CASE m \in InVault \cup lost
      BY <3>1, <1>2
    <3>2. CASE m \in Waiting
      <4>1. PICK x \in Record : m \in Range(run[x].out)
        BY <3>2 DEF Waiting
      <4>2. m \in Range(run'[x].out)
        BY <4>1, <2>3, <1>3
      <4> QED
        BY <4>2 DEF Waiting
    <3> QED
      BY <2>3, <3>1, <3>2 DEF Inv, LabelInv
  <2> QED
    BY <2>1, <2>2, <2>3
<1> QED
  BY <1>1, <1>4, <1>5, <1>6 DEF Inv

\* A step of the process: nothing leaves the output.
LEMMA PollStepInv ==
  ASSUME Inv, NEW r \in Record, NEW new \in Runs, PollStep(r, new),
         run[r].pc # "none",
         Range(run[r].out) \subseteq Range(new.out),
         labelled' \subseteq labelled \cup Range(new.out), labelled \subseteq labelled',
         troubles' \in 0..MaxTroubles,
         PollInv(r)', CoverInv(r)'
  PROVE  Inv'
<1>1. /\ run' = [run EXCEPT ![r] = new]
      /\ UNCHANGED <<request, byInvocationKey, record, vault, lost>>
  BY DEF PollStep
<1>2. KeyInv' /\ VaultInv' /\ InVault' = InVault
  BY <1>1 DEF Inv, KeyInv, VaultInv, InVault
<1>3. Range(new.out) \subseteq Mail
  <2>1. new.out \in Seq(Mail)
    BY DEF Runs
  <2> QED
    BY <2>1, LenProperties, ElementOfSeq DEF Range
<1>4. TypeOK
  BY DEF Inv
<1>5. /\ byInvocationKey' \in [Form \X Instance -> Record \cup {None}]
      /\ record' \in [Record -> Terminal \cup {"none", "pending"}]
      /\ vault' \in SUBSET (Mail \X Instance)
      /\ lost' \in SUBSET labelled' /\ labelled' \in SUBSET Mail
  BY <1>1, <1>3, <1>4 DEF TypeOK
<1>6. record' = record /\ vault' = vault /\ lost' = lost /\ request' = request
  BY <1>1
<1> QED
  BY <1>1, <1>2, <1>5, <1>6, RunStep

\* What is safe stays so while labels and output grow.
LEMMA SafeKept ==
  ASSUME NEW r \in Record, NEW m, Safe(r, m), vault' = vault,
         labelled \subseteq labelled', Range(run[r].out) \subseteq Range(run'[r].out)
  PROVE  Safe(r, m)'
  BY DEF Safe, InVault

LEMMA RunType ==
  ASSUME Inv, NEW r \in Record
  PROVE  /\ run[r] \in Runs /\ r[2] \in Instance
         /\ run[r].folder \in Nat /\ run[r].out \in Seq(Mail)
         /\ run[r].uids \in SUBSET Nat
         /\ run[r].env \in Instance \cup {None}
         /\ PollInv(r) /\ CoverInv(r)
         /\ troubles \in 0..MaxTroubles /\ troubles + 1 \in Nat
         /\ Range(run[r].out) \subseteq Mail
<1>1. run[r] \in Runs /\ troubles \in 0..MaxTroubles /\ PollInv(r) /\ CoverInv(r)
  BY DEF Inv, TypeOK
<1>2. run[r].out \in Seq(Mail)
  BY <1>1 DEF Runs
<1>3. Range(run[r].out) \subseteq Mail
  BY <1>2, LenProperties, ElementOfSeq DEF Range
<1> QED
  BY <1>1, <1>2, <1>3, TroublesAssumption DEF Runs, Record

LEMMA TroubleType ==
  ASSUME Inv, Trouble
  PROVE  troubles' \in 0..MaxTroubles
  BY TroublesAssumption DEF Trouble, Inv, TypeOK

\* The boxes and their folders.
LEMMA Boxes ==
  ASSUME NEW i \in Instance
  PROVE  /\ Box[i] \in Seq(Seq(Mail)) /\ Len(Box[i]) \in Nat
         /\ DOMAIN Box[i] = 1..Len(Box[i])
         /\ \A f \in DOMAIN Box[i] :
              /\ Box[i][f] \in Seq(Mail) /\ DOMAIN Box[i][f] \in SUBSET Nat
<1>1. Box[i] \in Seq(Seq(Mail))
  BY BoxAssumption
<1>2. Len(Box[i]) \in Nat /\ DOMAIN Box[i] = 1..Len(Box[i])
  BY <1>1, LenProperties
<1>3. \A f \in DOMAIN Box[i] : Box[i][f] \in Seq(Mail)
  BY <1>1, <1>2
<1>4. \A f \in DOMAIN Box[i] : DOMAIN Box[i][f] = 1..Len(Box[i][f]) /\ Len(Box[i][f]) \in Nat
  BY <1>3, LenProperties
<1>5. \A f \in DOMAIN Box[i] : DOMAIN Box[i][f] \in SUBSET Nat
  BY <1>4
<1> QED
  BY <1>1, <1>2, <1>3, <1>5

LEMMA SearchInv ==
  ASSUME Inv, NEW r \in Record, Search(r)
  PROVE  Inv'
<1> DEFINE found == {n \in DOMAIN Folder(r) : Folder(r)[n] \notin labelled}
           new == [run[r] EXCEPT !.pc = "emit", !.uids = found]
<1>1. /\ run[r].pc = "search" /\ run[r].folder <= Len(Folders(r))
      /\ PollStep(r, new) /\ UNCHANGED <<labelled, troubles>>
  BY DEF Search, At
<1>2. /\ run[r] \in Runs /\ r[2] \in Instance /\ PollInv(r) /\ CoverInv(r)
      /\ run[r].folder \in Nat /\ troubles \in 0..MaxTroubles
  BY RunType
<1>3. run[r].env = r[2] /\ run[r].folder >= 1 /\ Folders(r) = Box[r[2]]
  BY <1>1, <1>2 DEF PollInv, Polling, Folders
<1>4. run[r].folder \in DOMAIN Box[r[2]] /\ Folder(r) = Box[r[2]][run[r].folder]
  BY <1>1, <1>2, <1>3, Boxes DEF Folder
<1>5. found \in SUBSET Nat /\ found \subseteq DOMAIN Folder(r)
  BY <1>2, <1>4, Boxes
<1> HIDE DEF found
<1>6. /\ new \in Runs /\ new.pc = "emit" /\ new.uids = found
      /\ new.env = run[r].env /\ new.folder = run[r].folder
      /\ new.out = run[r].out /\ new.partial = run[r].partial
  BY <1>2, <1>5 DEF Runs, Polling
<1>7. run'[r] = new /\ labelled' = labelled /\ vault' = vault /\ InVault' = InVault
  BY <1>1 DEF PollStep, Inv, TypeOK, InVault
<1> HIDE DEF new
<1>8. Folder(r)' = Folder(r)
  BY <1>6, <1>7 DEF Folder, Folders
<1>9. PollInv(r)'
  BY <1>1, <1>2, <1>3, <1>5, <1>6, <1>7, <1>8 DEF PollInv, Polling
<1>10. \A m : Safe(r, m) => Safe(r, m)'
  BY <1>6, <1>7 DEF Safe
<1>11. CoverInv(r)'
  <2>1. \A n \in DOMAIN Folder(r) \ found : Safe(r, Folder(r)[n])'
    BY <1>7, <1>8 DEF found, Safe
  <2> QED
    BY <1>1, <1>2, <1>6, <1>7, <1>8, <1>10, <2>1 DEF CoverInv, Polling
<1> QED
  BY <1>1, <1>2, <1>6, <1>7, <1>9, <1>11, PollStepInv

\* A poll that passes something over has nothing to cover any more.
LEMMA PartialStep ==
  ASSUME Inv, NEW r \in Record, NEW new \in Runs, PollStep(r, new),
         run[r].pc \in Polling, UNCHANGED labelled, Trouble,
         new.partial, new.env = run[r].env, new.out = run[r].out,
         \/ new.pc = "dispatch"
         \/ new.pc = "search" /\ new.folder >= 1
         \/ /\ new.pc = "emit" /\ run[r].pc = "emit" /\ new.folder = run[r].folder
            /\ new.uids \subseteq run[r].uids
  PROVE  Inv'
<1>1. run'[r] = new /\ labelled' = labelled
  BY DEF PollStep, Inv, TypeOK
<1>2. PollInv(r) /\ run[r].pc # "none"
  BY RunType DEF Polling
<1>3. troubles' \in 0..MaxTroubles
  BY TroubleType
<1>4. new.pc = "emit" => Folder(r)' = Folder(r)
  BY <1>1 DEF Folder, Folders
<1>5. PollInv(r)'
  BY <1>1, <1>2, <1>4 DEF PollInv, Polling
<1>6. CoverInv(r)'
  BY <1>1 DEF CoverInv
<1> QED
  BY <1>1, <1>2, <1>3, <1>5, <1>6, PollStepInv

LEMMA SearchFailsInv ==
  ASSUME Inv, NEW r \in Record, SearchFails(r)
  PROVE  Inv'
<1> DEFINE new == [run[r] EXCEPT !.folder = @ + 1, !.partial = TRUE]
<1>1. run[r].pc = "search" /\ PollStep(r, new) /\ Trouble /\ UNCHANGED labelled
  BY DEF SearchFails, At
<1>2. run[r] \in Runs /\ run[r].folder \in Nat /\ PollInv(r)
  BY RunType
<1>3. /\ new \in Runs /\ new.partial /\ new.env = run[r].env /\ new.out = run[r].out
      /\ new.pc = "search" /\ new.folder = run[r].folder + 1
  <2>1. \A k \in Nat : [run[r] EXCEPT !.folder = k, !.partial = TRUE] \in Runs
    BY <1>2 DEF Runs
  <2>2. run[r].folder + 1 \in Nat
    BY <1>2
  <2>3. new \in Runs
    BY <2>1, <2>2
  <2>4. run[r].pc = "search" /\ run[r] \in Runs
    BY <1>1, <1>2
  <2> QED
    BY ONLY <2>3, <2>4 DEF Runs
<1>4. new.folder >= 1
  BY <1>2, <1>3
<1> HIDE DEF new
<1> QED
  BY <1>1, <1>3, <1>4, PartialStep DEF Polling

LEMMA ReadFailsInv ==
  ASSUME Inv, NEW r \in Record, ReadFails(r)
  PROVE  Inv'
<1> DEFINE new == [run[r] EXCEPT !.uids = @ \ {Uid(r)}, !.partial = TRUE]
<1>1. run[r].pc = "emit" /\ PollStep(r, new) /\ Trouble /\ UNCHANGED labelled
  BY DEF ReadFails, At
<1>2. run[r] \in Runs /\ run[r].uids \in SUBSET Nat
  BY RunType
<1>3. /\ new \in Runs /\ new.partial /\ new.env = run[r].env /\ new.out = run[r].out
      /\ new.pc = "emit" /\ new.folder = run[r].folder
      /\ new.uids \subseteq run[r].uids
  BY <1>1, <1>2 DEF Runs
<1> HIDE DEF new
<1> QED
  BY <1>1, <1>3, PartialStep DEF Polling

LEMMA KilledInv ==
  ASSUME Inv, NEW r \in Record, Killed(r)
  PROVE  Inv'
<1> DEFINE new == [run[r] EXCEPT !.pc = "dispatch", !.died = TRUE, !.partial = TRUE]
<1>1. run[r].pc \in Polling /\ PollStep(r, new) /\ Trouble /\ UNCHANGED labelled
  BY DEF Killed
<1>2. run[r] \in Runs
  BY RunType
<1>3. /\ new \in Runs /\ new.partial /\ new.env = run[r].env /\ new.out = run[r].out
      /\ new.pc = "dispatch"
  BY <1>2 DEF Runs
<1> HIDE DEF new
<1> QED
  BY <1>1, <1>3, PartialStep

LEMMA FolderDoneInv ==
  ASSUME Inv, NEW r \in Record, FolderDone(r)
  PROVE  Inv'
<1> DEFINE next == run[r].folder + 1
           new == [run[r] EXCEPT !.pc = "search", !.folder = next]
<1>1. /\ run[r].pc = "emit" /\ run[r].uids = {} /\ PollStep(r, new)
      /\ UNCHANGED <<labelled, troubles>>
  BY DEF FolderDone, At
<1>2. /\ run[r] \in Runs /\ r[2] \in Instance /\ PollInv(r) /\ CoverInv(r)
      /\ run[r].folder \in Nat /\ troubles \in 0..MaxTroubles
  BY RunType
<1>3. /\ run[r].env = r[2] /\ run[r].folder \in DOMAIN Box[r[2]]
      /\ Folder(r) = Box[r[2]][run[r].folder]
  BY <1>1, <1>2, MessageInHand DEF Inv
<1>4. next \in Nat /\ next >= 1
  BY <1>2
<1>5. \A f \in Nat : f < next => f < run[r].folder \/ f = run[r].folder
  BY <1>2
<1> HIDE DEF next
<1>6. /\ new \in Runs /\ new.pc = "search" /\ new.folder = next
      /\ new.env = run[r].env /\ new.out = run[r].out /\ new.partial = run[r].partial
  BY <1>2, <1>4 DEF Runs, Polling
<1>7. run'[r] = new /\ labelled' = labelled /\ vault' = vault
  BY <1>1 DEF PollStep, Inv, TypeOK
<1> HIDE DEF new
<1>8. PollInv(r)'
  BY <1>2, <1>3, <1>4, <1>6, <1>7 DEF PollInv, Polling
<1>9. CoverInv(r)'
  <2>1. \A m : Safe(r, m) => Safe(r, m)'
    BY <1>6, <1>7, SafeKept
  <2>2. ASSUME ~run[r].partial, NEW f \in DOMAIN Box[r[2]], f < next,
               NEW m \in Range(Box[r[2]][f])
        PROVE  Safe(r, m)'
    <3>1. f \in Nat
      BY <1>2, Boxes
    <3>2. CASE f < run[r].folder
      BY <1>1, <1>2, <2>1, <2>2, <3>2 DEF CoverInv, Polling
    <3>3. CASE f = run[r].folder
      <4>1. \A n \in DOMAIN Folder(r) : Safe(r, Folder(r)[n])
        BY <1>1, <1>2, <2>2 DEF CoverInv
      <4>2. PICK n \in DOMAIN Folder(r) : m = Folder(r)[n]
        BY <1>3, <3>3 DEF Range
      <4> QED
        BY <2>1, <4>1, <4>2
    <3> QED
      BY <1>5, <2>2, <3>1, <3>2, <3>3
  <2> QED
    BY <1>6, <1>7, <2>2 DEF CoverInv
<1> QED
  BY <1>1, <1>2, <1>6, <1>7, <1>8, <1>9, PollStepInv

LEMMA ExitInv ==
  ASSUME Inv, NEW r \in Record, Exit(r)
  PROVE  Inv'
<1> DEFINE new == [run[r] EXCEPT !.pc = "dispatch"]
<1>1. /\ run[r].pc = "search" /\ run[r].folder > Len(Folders(r)) /\ PollStep(r, new)
      /\ UNCHANGED <<labelled, troubles>>
  BY DEF Exit, At
<1>2. /\ run[r] \in Runs /\ r[2] \in Instance /\ PollInv(r) /\ CoverInv(r)
      /\ run[r].folder \in Nat /\ troubles \in 0..MaxTroubles
  BY RunType
<1>3. Folders(r) = Box[r[2]]
  BY <1>1, <1>2 DEF PollInv, Polling, Folders
<1>4. \A f \in DOMAIN Box[r[2]] : f < run[r].folder
  BY <1>1, <1>2, <1>3, Boxes
<1>5. /\ new \in Runs /\ new.pc = "dispatch"
      /\ new.env = run[r].env /\ new.out = run[r].out /\ new.partial = run[r].partial
  BY <1>2 DEF Runs, Polling
<1>6. run'[r] = new /\ labelled' = labelled /\ vault' = vault
  BY <1>1 DEF PollStep, Inv, TypeOK
<1> HIDE DEF new
<1>7. PollInv(r)'
  BY <1>2, <1>5, <1>6 DEF PollInv, Polling
<1>8. CoverInv(r)'
  <2>1. ASSUME ~run[r].partial, NEW m \in Wellformed(r[2])
        PROVE  Safe(r, m)'
    <3>1. PICK f \in DOMAIN Box[r[2]] : m \in Range(Box[r[2]][f])
      BY <1>2, WellformedIs
    <3>2. Safe(r, m)
      BY <1>1, <1>2, <1>4, <2>1, <3>1 DEF CoverInv, Polling
    <3> QED
      BY <1>5, <1>6, <3>2, SafeKept
  <2> QED
    BY <1>5, <1>6, <2>1 DEF CoverInv, Polling
<1> QED
  BY <1>1, <1>2, <1>5, <1>6, <1>7, <1>8, PollStepInv

\* The message in hand is done with: nobody can read it, or it is in the
\* output.
LEMMA MessageDone ==
  ASSUME Inv, NEW r \in Record, NEW new \in Runs, PollStep(r, new),
         run[r].pc \in {"emit", "mark"}, run[r].uids # {},
         new.pc = "emit", new.env = run[r].env, new.folder = run[r].folder,
         new.out = run[r].out, new.partial = run[r].partial,
         new.uids = run[r].uids \ {Uid(r)},
         Message(r) \in Malformed \cup Range(run[r].out),
         labelled \subseteq labelled', labelled' \subseteq labelled \cup Range(new.out),
         troubles' \in 0..MaxTroubles
  PROVE  Inv'
<1>1. /\ r[2] \in Instance /\ PollInv(r) /\ CoverInv(r)
      /\ run[r].folder \in Nat
  BY RunType
<1>2. run[r].env = r[2]
  BY <1>1 DEF PollInv, Polling
<1>3. run'[r] = new /\ vault' = vault
  BY DEF PollStep, Inv, TypeOK
<1>4. Folder(r)' = Folder(r)
  BY <1>3 DEF Folder, Folders
<1>5. PollInv(r)'
  BY <1>1, <1>3, <1>4 DEF PollInv, Polling
<1>6. CoverInv(r)'
  <2>1. \A m : Safe(r, m) => Safe(r, m)'
    BY <1>3, SafeKept
  <2>2. Safe(r, Message(r))
    BY DEF Safe
  <2>3. ASSUME ~run[r].partial, NEW n \in DOMAIN Folder(r) \ new.uids
        PROVE  Safe(r, Folder(r)[n])'
    <3>1. CASE n = Uid(r)
      BY <1>4, <2>1, <2>2, <3>1 DEF Message
    <3>2. CASE n \notin run[r].uids
      BY <1>1, <1>4, <2>1, <2>3, <3>2 DEF CoverInv
    <3> QED
      BY <2>3, <3>1, <3>2
  <2>4. ASSUME ~run[r].partial, NEW f \in DOMAIN Box[r[2]], f < run[r].folder,
               NEW m \in Range(Box[r[2]][f])
        PROVE  Safe(r, m)'
    BY <1>1, <2>1, <2>4 DEF CoverInv, Polling
  <2> QED
    BY <1>3, <1>4, <2>3, <2>4 DEF CoverInv, Polling
<1> QED
  BY <1>3, <1>5, <1>6, PollStepInv

LEMMA ParseFailsInv ==
  ASSUME Inv, NEW r \in Record, ParseFails(r)
  PROVE  Inv'
<1> DEFINE new == [run[r] EXCEPT !.uids = @ \ {Uid(r)}]
<1>1. /\ run[r].pc = "emit" /\ run[r].uids # {} /\ Message(r) \in Malformed
      /\ PollStep(r, new) /\ UNCHANGED <<labelled, troubles>>
  BY DEF ParseFails, At
<1>2. run[r] \in Runs /\ run[r].uids \in SUBSET Nat /\ troubles \in 0..MaxTroubles
  BY RunType
<1>3. /\ new \in Runs /\ new.pc = "emit" /\ new.env = run[r].env
      /\ new.folder = run[r].folder /\ new.out = run[r].out
      /\ new.partial = run[r].partial /\ new.uids = run[r].uids \ {Uid(r)}
  BY <1>1, <1>2 DEF Runs
<1> HIDE DEF new
<1> QED
  BY <1>1, <1>2, <1>3, MessageDone

LEMMA MarkedIs ==
  ASSUME Inv, NEW r \in Record, At(r, "mark"), PollStep(r, Marked(r)),
         labelled \subseteq labelled', labelled' \subseteq labelled \cup {Message(r)},
         troubles' \in 0..MaxTroubles
  PROVE  Inv'
<1> DEFINE new == Marked(r)
<1>1. /\ run[r] \in Runs /\ run[r].uids \in SUBSET Nat /\ PollInv(r)
  BY RunType
<1>2. run[r].pc = "mark" /\ run[r].uids # {} /\ Message(r) \in Range(run[r].out)
  BY <1>1 DEF At, PollInv
<1>3. /\ new \in Runs /\ new.pc = "emit" /\ new.env = run[r].env
      /\ new.folder = run[r].folder /\ new.out = run[r].out
      /\ new.partial = run[r].partial /\ new.uids = run[r].uids \ {Uid(r)}
  BY <1>1 DEF Runs, Marked, Polling
<1>4. labelled' \subseteq labelled \cup Range(new.out)
  BY <1>2, <1>3
<1>5. PollStep(r, new)
  OBVIOUS
<1> HIDE DEF new
<1> QED
  BY <1>2, <1>3, <1>4, <1>5, MessageDone

LEMMA MarkIngestedInv ==
  ASSUME Inv, NEW r \in Record, MarkIngested(r)
  PROVE  Inv'
<1>1. troubles' \in 0..MaxTroubles
  BY DEF MarkIngested, Inv, TypeOK
<1> QED
  BY <1>1, MarkedIs DEF MarkIngested

LEMMA MarkFailsInv ==
  ASSUME Inv, NEW r \in Record, MarkFails(r)
  PROVE  Inv'
  BY TroubleType, MarkedIs DEF MarkFails

LEMMA EmitInv ==
  ASSUME Inv, NEW r \in Record, Emit(r)
  PROVE  Inv'
<1> DEFINE out == Append(run[r].out, Message(r))
           new == [run[r] EXCEPT !.pc = "mark", !.out = out]
<1>1. /\ run[r].pc = "emit" /\ run[r].uids # {} /\ Message(r) \notin Malformed
      /\ PollStep(r, new) /\ UNCHANGED <<labelled, troubles>>
  BY DEF Emit, At
<1>2. /\ run[r] \in Runs /\ r[2] \in Instance /\ PollInv(r) /\ CoverInv(r)
      /\ run[r].out \in Seq(Mail) /\ troubles \in 0..MaxTroubles
  BY RunType
<1>3. /\ run[r].env = r[2] /\ run[r].folder \in DOMAIN Box[r[2]]
      /\ Folder(r) = Box[r[2]][run[r].folder]
      /\ Message(r) \in Mail /\ Message(r) \in Range(Folder(r))
  BY <1>1, <1>2, MessageInHand DEF Inv
<1>4. Message(r) \in Wellformed(r[2])
  BY <1>1, <1>2, <1>3, BoxMail
<1>5. out \in Seq(Mail) /\ Range(out) = Range(run[r].out) \cup {Message(r)}
  BY <1>2, <1>3, RangeAppend
<1> HIDE DEF out
<1>6. /\ new \in Runs /\ new.pc = "mark" /\ new.out = out
      /\ new.env = run[r].env /\ new.folder = run[r].folder
      /\ new.uids = run[r].uids /\ new.partial = run[r].partial
  BY <1>2, <1>5 DEF Runs, Polling
<1>7. run'[r] = new /\ labelled' = labelled /\ vault' = vault
  BY <1>1 DEF PollStep, Inv, TypeOK
<1> HIDE DEF new
<1>8. Folder(r)' = Folder(r) /\ Message(r)' = Message(r)
  BY <1>6, <1>7 DEF Folder, Folders, Message, Uid
<1>9. PollInv(r)'
  BY <1>1, <1>2, <1>4, <1>5, <1>6, <1>7, <1>8 DEF PollInv, Polling
<1>10. CoverInv(r)'
  <2>1. \A m : Safe(r, m) => Safe(r, m)'
    BY <1>5, <1>6, <1>7, SafeKept
  <2> QED
    BY <1>1, <1>2, <1>6, <1>7, <1>8, <2>1 DEF CoverInv, Polling
<1> QED
  BY <1>1, <1>2, <1>5, <1>6, <1>7, <1>9, <1>10, PollStepInv

\* A record is settled once, and its key freed with it.
LEMMA SettledIs ==
  ASSUME Inv, NEW r \in Record, NEW state \in Terminal, Settled(r, state)
  PROVE  /\ KeyInv'
         /\ byInvocationKey' \in [Form \X Instance -> Record \cup {None}]
         /\ record' \in [Record -> Terminal \cup {"none", "pending"}]
         /\ \A x \in Record : x # r => record'[x] = record[x]
         /\ record[r] \in Terminal => record'[r] = record[r]
         /\ record[r] # "none" => record'[r] # "none"
<1>1. TypeOK /\ KeyInv
  BY DEF Inv
<1>2. CASE record[r] = "pending"
  <2>1. /\ record' = [record EXCEPT ![r] = state]
        /\ byInvocationKey' = [k \in Form \X Instance |->
             IF byInvocationKey[k] = r THEN None ELSE byInvocationKey[k]]
    BY <1>2 DEF Settled
  <2>2. /\ byInvocationKey' \in [Form \X Instance -> Record \cup {None}]
        /\ record' \in [Record -> Terminal \cup {"none", "pending"}]
    BY <1>1, <2>1 DEF TypeOK
  <2>3. \A x \in Record : record'[x] = IF x = r THEN state ELSE record[x]
    BY <1>1, <2>1 DEF TypeOK
  <2>4. KeyInv'
    <3> SUFFICES ASSUME NEW k \in Form \X Instance, byInvocationKey'[k] # None
                 PROVE  /\ record'[byInvocationKey'[k]] = "pending"
                        /\ byInvocationKey'[k][2] = k[2]
      BY DEF KeyInv
    <3>1. byInvocationKey'[k] = byInvocationKey[k] /\ byInvocationKey[k] # r
      BY <2>1
    <3>2. byInvocationKey[k] \in Record
      BY <1>1, <3>1 DEF TypeOK
    <3> QED
      BY <1>1, <2>3, <3>1, <3>2 DEF KeyInv
  <2> QED
    BY <1>2, <2>2, <2>3, <2>4 DEF Terminal
<1>3. CASE record[r] # "pending"
  <2>1. record' = record /\ byInvocationKey' = byInvocationKey
    BY <1>3 DEF Settled
  <2> QED
    BY <1>1, <2>1 DEF KeyInv, TypeOK
<1> QED
  BY <1>2, <1>3

LEMMA PersistBeginsInv ==
  ASSUME Inv, NEW r \in Record, PersistBegins(r)
  PROVE  Inv'
<1> DEFINE new == [run[r] EXCEPT !.pc = "persist"]
<1>1. /\ run[r].pc = "dispatch" /\ run[r].out # <<>>
      /\ run' = [run EXCEPT ![r] = new]
      /\ UNCHANGED <<request, byInvocationKey, record, store, troubles>>
  BY DEF PersistBegins, At
<1>2. /\ run[r] \in Runs /\ PollInv(r) /\ CoverInv(r)
  BY RunType
<1>3. /\ new \in Runs /\ new.pc = "persist" /\ new.out = run[r].out
      /\ new.partial = run[r].partial
  BY <1>2 DEF Runs
<1>4. run'[r] = new
  BY <1>1 DEF Inv, TypeOK
<1>5. /\ byInvocationKey' = byInvocationKey /\ record' = record
      /\ request' = request /\ labelled' = labelled /\ vault' = vault
      /\ lost' = lost /\ troubles' = troubles
  BY <1>1 DEF store
<1> HIDE DEF new
<1>6. PollInv(r)'
  BY <1>1, <1>2, <1>3, <1>4 DEF PollInv, Polling
<1>7. CoverInv(r)'
  <2>1. \A m : Safe(r, m) => Safe(r, m)'
    BY <1>3, <1>4, <1>5, SafeKept
  <2> QED
    BY <1>1, <1>2, <1>3, <1>4, <2>1 DEF CoverInv, Polling
<1>8. TypeOK /\ KeyInv /\ VaultInv
  BY DEF Inv
<1>9. KeyInv' /\ VaultInv'
  BY <1>5, <1>8 DEF KeyInv, VaultInv
<1>10. /\ byInvocationKey' \in [Form \X Instance -> Record \cup {None}]
       /\ record' \in [Record -> Terminal \cup {"none", "pending"}]
       /\ labelled' \in SUBSET Mail /\ vault' \in SUBSET (Mail \X Instance)
       /\ lost' \in SUBSET labelled' /\ troubles' \in 0..MaxTroubles
  BY <1>5, <1>8 DEF TypeOK
<1> QED
  BY <1>1, <1>3, <1>5, <1>6, <1>7, <1>9, <1>10, RunStep

LEMMA PersistInv ==
  ASSUME Inv, NEW r \in Record, Persist(r)
  PROVE  Inv'
<1> DEFINE new == [run[r] EXCEPT !.pc = "dispatch", !.out = Tail(run[r].out)]
           head == Head(run[r].out)
<1>1. /\ run[r].pc = "persist" /\ Settled(r, "complete")
      /\ vault' = vault \cup {<<head, r[2]>>}
      /\ run' = [run EXCEPT ![r] = new]
      /\ UNCHANGED <<request, labelled, lost, troubles>>
  BY DEF Persist, At
<1>2. /\ run[r] \in Runs /\ r[2] \in Instance /\ PollInv(r) /\ CoverInv(r)
      /\ run[r].out \in Seq(Mail)
  BY RunType
<1>3. run[r].out # <<>>
  BY <1>1, <1>2 DEF PollInv
<1>4. /\ head \in Mail /\ Tail(run[r].out) \in Seq(Mail)
      /\ Range(run[r].out) = {head} \cup Range(Tail(run[r].out))
  BY <1>2, <1>3, RangeTail
<1>5. /\ new \in Runs /\ new.pc = "dispatch" /\ new.out = Tail(run[r].out)
      /\ new.partial = run[r].partial
  BY <1>2, <1>4 DEF Runs
<1>6. run'[r] = new
  BY <1>1 DEF Inv, TypeOK
<1> HIDE DEF new, head
<1>7. InVault' = InVault \cup {head}
  <2>1. <<head, r[2]>>[1] = head
    OBVIOUS
  <2>2. vault' = vault \cup {<<head, r[2]>>}
    BY <1>1
  <2> QED
    BY ONLY <2>1, <2>2 DEF InVault
<1>8. PollInv(r)'
  BY <1>1, <1>2, <1>4, <1>5, <1>6 DEF PollInv, Polling
<1>9. CoverInv(r)'
  <2>1. \A m : Safe(r, m) => Safe(r, m)'
    BY <1>1, <1>4, <1>5, <1>6, <1>7 DEF Safe
  <2> QED
    BY <1>1, <1>2, <1>5, <1>6, <2>1 DEF CoverInv, Polling
<1>10. head \in Wellformed(r[2])
  BY <1>2, <1>4 DEF PollInv
<1>11. VaultInv'
  <2>1. <<head, r[2]>>[1] = head /\ <<head, r[2]>>[2] = r[2]
    OBVIOUS
  <2> QED
    BY <1>1, <1>10, <2>1 DEF Inv, VaultInv
<1>12. TypeOK
  BY DEF Inv
<1>13. /\ labelled' \in SUBSET Mail /\ vault' \in SUBSET (Mail \X Instance)
       /\ lost' \in SUBSET labelled' /\ troubles' \in 0..MaxTroubles
  BY <1>1, <1>2, <1>4, <1>12 DEF TypeOK
<1>14. "complete" \in Terminal
  BY DEF Terminal
<1>15. Range(run[r].out) \cap labelled \subseteq Range(new.out) \cup InVault' \cup lost'
  BY <1>4, <1>5, <1>7
<1> QED
  BY <1>1, <1>5, <1>8, <1>9, <1>11, <1>13, <1>14, <1>15, SettledIs, RunStep

LEMMA AbortInv ==
  ASSUME Inv, NEW r \in Record, Abort(r), run[r].pc # "none",
         troubles' \in 0..MaxTroubles
  PROVE  Inv'
<1> DEFINE new == [run[r] EXCEPT !.pc = "done", !.out = <<>>, !.partial = TRUE]
<1>1. /\ lost' = lost \cup ((Range(run[r].out) \cap labelled) \ InVault)
      /\ run' = [run EXCEPT ![r] = new]
      /\ Settled(r, "failed")
      /\ UNCHANGED <<request, labelled, vault>>
  BY DEF Abort
<1>2. run[r] \in Runs
  BY RunType
<1>3. /\ new \in Runs /\ new.pc = "done" /\ new.out = <<>> /\ new.partial
  <2>1. \A out \in Seq(Mail) :
          [run[r] EXCEPT !.pc = "done", !.out = out, !.partial = TRUE] \in Runs
    BY <1>2 DEF Runs
  <2>2. <<>> \in Seq(Mail)
    OBVIOUS
  <2>3. new \in Runs
    BY <2>1, <2>2
  <2> QED
    BY ONLY <1>2, <2>3 DEF Runs
<1>4. run'[r] = new
  BY <1>1 DEF Inv, TypeOK
<1> HIDE DEF new
<1>5. PollInv(r)' /\ CoverInv(r)'
  BY <1>3, <1>4, RangeEmpty DEF PollInv, CoverInv, Polling
<1>6. TypeOK /\ VaultInv
  BY DEF Inv
<1>7. VaultInv' /\ InVault' = InVault
  BY <1>1, <1>6 DEF VaultInv, InVault
<1>8. /\ labelled' \in SUBSET Mail /\ vault' \in SUBSET (Mail \X Instance)
      /\ lost' \in SUBSET labelled'
  BY <1>1, <1>6 DEF TypeOK
<1>9. "failed" \in Terminal
  BY DEF Terminal
<1>10. Range(run[r].out) \cap labelled \subseteq Range(new.out) \cup InVault' \cup lost'
  BY <1>1, <1>7
<1> QED
  BY <1>1, <1>3, <1>5, <1>7, <1>8, <1>9, <1>10, SettledIs, RunStep

LEMMA ConflictInv ==
  ASSUME Inv, NEW r \in Record, Conflict(r)
  PROVE  Inv'
<1>1. troubles' \in 0..MaxTroubles
  BY DEF Conflict, Inv, TypeOK
<1> QED
  BY <1>1, AbortInv DEF Conflict, At

LEMMA PersistFailsInv ==
  ASSUME Inv, NEW r \in Record, PersistFails(r)
  PROVE  Inv'
  BY TroubleType, AbortInv DEF PersistFails, At

LEMMA StreamEndsInv ==
  ASSUME Inv, NEW r \in Record, StreamEnds(r)
  PROVE  Inv'
<1> DEFINE new == [run[r] EXCEPT !.pc = "done"]
           state == IF run[r].died THEN "failed" ELSE "not_found"
<1>1. /\ run[r].pc = "dispatch" /\ run[r].out = <<>>
      /\ run' = [run EXCEPT ![r] = new] /\ Settled(r, state)
      /\ UNCHANGED <<request, store, troubles>>
  BY DEF StreamEnds, At
<1>2. run[r] \in Runs /\ PollInv(r) /\ CoverInv(r)
  BY RunType
<1>3. /\ new \in Runs /\ new.pc = "done" /\ new.out = run[r].out
      /\ new.partial = run[r].partial
  BY <1>2 DEF Runs
<1>4. run'[r] = new
  BY <1>1 DEF Inv, TypeOK
<1>5. state \in Terminal
  BY DEF Terminal
<1>6. /\ request' = request /\ labelled' = labelled /\ vault' = vault
      /\ lost' = lost /\ troubles' = troubles
  BY <1>1 DEF store
<1> HIDE DEF new, state
<1>7. PollInv(r)'
  BY <1>1, <1>2, <1>3, <1>4 DEF PollInv, Polling
<1>8. CoverInv(r)'
  <2>1. \A m : Safe(r, m) => Safe(r, m)'
    BY <1>3, <1>4, <1>6, SafeKept
  <2> QED
    BY <1>1, <1>2, <1>3, <1>4, <2>1 DEF CoverInv, Polling
<1>9. TypeOK /\ VaultInv
  BY DEF Inv
<1>10. VaultInv'
  BY <1>6, <1>9 DEF VaultInv
<1>11. /\ labelled' \in SUBSET Mail /\ vault' \in SUBSET (Mail \X Instance)
       /\ lost' \in SUBSET labelled' /\ troubles' \in 0..MaxTroubles
  BY <1>6, <1>9 DEF TypeOK
<1> QED
  BY <1>1, <1>3, <1>5, <1>6, <1>7, <1>8, <1>10, <1>11, SettledIs, RunStep

-----------------------------------------------------------------------------
(* A record begins or is joined, and the daemon stops.                      *)

LEMMA ResultsKept ==
  ASSUME Inv, NEW q \in Request, request[q].pc \in Open, request'[q].pc \in Open,
         request'[q].form = request[q].form, request'[q].todo = request[q].todo,
         request'[q].results = request[q].results,
         \A x \in Record : record[x] \in Terminal => record'[x] = record[x]
  PROVE  ResultsInv(q)'
<1>1. request[q].results \in Seq(Results)
  BY DEF Inv, TypeOK, Requests
<1>2. \A n \in DOMAIN request[q].results : request[q].results[n].on \in Record \cup {None}
  <2>1. \A n \in DOMAIN request[q].results : request[q].results[n] \in Results
    BY <1>1, LenProperties, ElementOfSeq
  <2> QED
    BY <2>1 DEF Results
<1>3. request'[q].pc \in Open \cup {"answered"} /\ request'[q].pc # "answered"
  BY DEF Open
<1>4. ResultsInv(q)
  BY DEF Inv
<1> QED
  BY <1>2, <1>3, <1>4 DEF ResultsInv

LEMMA JoinInv ==
  ASSUME Inv, NEW q \in Request, Walking(q), byInvocationKey[Key(q)] # None,
         request' = [request EXCEPT ![q].pc = "wait",
                                    ![q].on = byInvocationKey[Key(q)]],
         UNCHANGED <<byInvocationKey, record, run, store, troubles>>
  PROVE  Inv'
<1> DEFINE found == byInvocationKey[Key(q)]
           s == [request[q] EXCEPT !.pc = "wait", !.on = found]
<1>1. request[q] \in Requests /\ request[q].pc = "walk" /\ request[q].todo # {}
  BY DEF Inv, TypeOK, Walking, Is
<1>2. /\ Target(q) \in Instance /\ Place(q) \in request[q].todo
      /\ Key(q) \in Form \X Instance
  BY <1>1, InHand DEF Key, Requests, Inv
<1>3. found \in Record /\ found # None /\ record[found] = "pending" /\ found[2] = Target(q)
  BY <1>2 DEF Inv, TypeOK, KeyInv, Key
<1>4. request' = [request EXCEPT ![q] = s]
  OBVIOUS
<1> HIDE DEF found
<1>5. /\ s \in Requests /\ s.pc = "wait" /\ s.on = found
      /\ s.form = request[q].form /\ s.todo = request[q].todo
      /\ s.results = request[q].results
  BY <1>1, <1>3 DEF Requests
<1>6. request'[q] = s
  BY <1>4 DEF Inv, TypeOK
<1> HIDE DEF s
<1>7. \A r : Fresh(r) => Fresh(r)'
  BY DEF Fresh
<1>8. Target(q)' = Target(q) /\ Place(q)' = Place(q)
  BY <1>5, <1>6 DEF Target, Place
<1>9. \A n \in request[q].todo : Fresh(<<q, Configured[n]>>)
  BY <1>1 DEF Inv, WalkInv
<1>10. record' = record
  OBVIOUS
<1>11. WalkInv(q)'
  BY <1>1, <1>3, <1>5, <1>6, <1>7, <1>8, <1>9, <1>10 DEF WalkInv
<1>12. ResultsInv(q)'
  BY <1>1, <1>5, <1>6, <1>10, ResultsKept DEF Open
<1>13. troubles' \in 0..MaxTroubles
  BY DEF Inv, TypeOK
<1> QED
  BY <1>4, <1>5, <1>11, <1>12, <1>13, RequestStep

LEMMA StartInv ==
  ASSUME Inv, NEW q \in Request, Walking(q), NEW mine, mine = <<q, Target(q)>>,
         request' = [request EXCEPT ![q].pc = "wait", ![q].on = mine],
         byInvocationKey' = [byInvocationKey EXCEPT ![Key(q)] = mine],
         record' = [record EXCEPT ![mine] = "pending"],
         run' = [run EXCEPT ![mine] =
                   [NoRun EXCEPT !.pc = "search", !.env = Target(q), !.folder = 1]],
         UNCHANGED <<store, troubles>>
  PROVE  Inv'
<1> DEFINE s == [request[q] EXCEPT !.pc = "wait", !.on = mine]
           new == [NoRun EXCEPT !.pc = "search", !.env = Target(q), !.folder = 1]
<1>1. /\ TypeOK /\ KeyInv /\ LabelInv /\ VaultInv
      /\ WalkInv(q) /\ ResultsInv(q)
  BY DEF Inv
<1>2. request[q] \in Requests /\ request[q].pc = "walk" /\ request[q].todo # {}
  BY <1>1 DEF TypeOK, Walking, Is
<1>3. /\ Target(q) \in Instance /\ Place(q) \in request[q].todo
      /\ Target(q) = Configured[Place(q)]
      /\ Key(q) \in Form \X Instance /\ Key(q)[2] = Target(q)
      /\ \A n \in request[q].todo \ {Place(q)} :
           n \in DOMAIN Configured /\ Configured[n] # Target(q)
  BY <1>1, <1>2, InHand DEF Key, Requests, Target
<1>4. mine \in Record /\ mine # None /\ mine[2] = Target(q) /\ mine[1] = q
  BY <1>3, NoneAssumption DEF Record
<1>5. Fresh(mine)
  BY <1>1, <1>2, <1>3 DEF WalkInv
<1>6. request' = [request EXCEPT ![q] = s]
  OBVIOUS
<1>7. /\ s \in Requests /\ s.pc = "wait" /\ s.on = mine
      /\ s.form = request[q].form /\ s.todo = request[q].todo
      /\ s.results = request[q].results
  BY <1>2, <1>4 DEF Requests
<1>8. /\ request'[q] = s
      /\ \A x \in Request : x # q => request'[x] = request[x]
  BY <1>1, <1>6 DEF TypeOK
<1>9. /\ new \in Runs /\ new.pc = "search" /\ new.env = Target(q) /\ new.folder = 1
      /\ new.out = <<>> /\ ~new.partial
  <2>1. <<>> \in Seq(Mail)
    OBVIOUS
  <2> QED
    BY <1>3, <2>1 DEF NoRun, Runs, Polling
<1>10. run' = [run EXCEPT ![mine] = new]
  OBVIOUS
<1> HIDE DEF s, new
<1>11. /\ run'[mine] = new /\ record'[mine] = "pending"
       /\ \A x \in Record : x # mine => run'[x] = run[x] /\ record'[x] = record[x]
  BY <1>1, <1>4, <1>10 DEF TypeOK
<1>12. labelled' = labelled /\ vault' = vault /\ lost' = lost /\ troubles' = troubles
  BY DEF store
<1>13. TypeOK'
  <2>1. request' \in [Request -> Requests]
    BY <1>1, <1>6, <1>7 DEF TypeOK
  <2>2. byInvocationKey' \in [Form \X Instance -> Record \cup {None}]
    BY <1>1, <1>4 DEF TypeOK
  <2>3. record' \in [Record -> Terminal \cup {"none", "pending"}]
    BY <1>1 DEF TypeOK
  <2>4. run' \in [Record -> Runs]
    BY <1>1, <1>9, <1>10 DEF TypeOK
  <2>5. /\ labelled' \in SUBSET Mail /\ vault' \in SUBSET (Mail \X Instance)
        /\ lost' \in SUBSET labelled' /\ troubles' \in 0..MaxTroubles
    BY <1>1, <1>12 DEF TypeOK
  <2> QED
    BY <2>1, <2>2, <2>3, <2>4, <2>5 DEF TypeOK
<1>14. KeyInv'
  <2> SUFFICES ASSUME NEW k \in Form \X Instance, byInvocationKey'[k] # None
               PROVE  /\ record'[byInvocationKey'[k]] = "pending"
                      /\ byInvocationKey'[k][2] = k[2]
    BY DEF KeyInv
  <2>1. CASE k = Key(q)
    <3>1. byInvocationKey'[k] = mine
      BY <1>1, <1>3, <2>1 DEF TypeOK
    <3> QED
      BY <1>3, <1>4, <1>11, <2>1, <3>1
  <2>2. CASE k # Key(q)
    <3>1. byInvocationKey'[k] = byInvocationKey[k] /\ byInvocationKey[k] \in Record
      BY <1>1, <2>2 DEF TypeOK
    <3>2. record[byInvocationKey[k]] = "pending" /\ byInvocationKey[k][2] = k[2]
      BY <1>1, <3>1 DEF KeyInv
    <3> QED
      BY <1>11, <3>1, <3>2
  <2> QED
    BY <2>1, <2>2
<1>15. \A x \in Record : run'[x].out = run[x].out
  BY <1>5, <1>9, <1>11 DEF Fresh, NoRun
<1>16. LabelInv' /\ VaultInv' /\ InVault' = InVault
  BY <1>1, <1>12, <1>15 DEF LabelInv, VaultInv, InVault, Waiting
<1>17. ASSUME NEW x \in Record PROVE PollInv(x)' /\ CoverInv(x)'
  <2>1. CASE x # mine
    BY <1>11, <1>12, <1>16, <2>1, RunKept DEF Inv
  <2>2. CASE x = mine
    <3>1. PollInv(mine)'
      <4>1. /\ run'[mine].pc = "search" /\ run'[mine].out = <<>>
            /\ run'[mine].env = mine[2] /\ run'[mine].folder >= 1
        <5>1. run'[mine] = new
          BY <1>11
        <5>2. new.env = mine[2] /\ new.folder >= 1
          BY <1>4, <1>9
        <5> QED
          BY ONLY <1>9, <5>1, <5>2
      <4> QED
        BY ONLY <4>1, RangeEmpty DEF PollInv, Polling
    <3>2. \A f \in DOMAIN Box[Target(q)] : ~ (f < 1)
      BY <1>3, Boxes
    <3>3. CoverInv(mine)'
      BY <1>4, <1>9, <1>11, <3>2 DEF CoverInv
    <3> QED
      BY <2>2, <3>1, <3>3
  <2> QED
    BY <2>1, <2>2
<1>18. /\ \A x \in Record : record[x] \in Terminal => record'[x] = record[x]
       /\ \A x \in Record : record[x] # "none" => record'[x] # "none"
  BY <1>5, <1>11 DEF Fresh, Terminal
<1>19. \A x \in Record : x # mine /\ Fresh(x) => Fresh(x)'
  BY <1>11 DEF Fresh
<1>20. ASSUME NEW x \in Request PROVE WalkInv(x)' /\ ResultsInv(x)'
  <2>1. CASE x # q
    <3>1. \A i \in Instance : Fresh(<<x, i>>) => Fresh(<<x, i>>)'
      BY <1>4, <1>19, <2>1 DEF Record
    <3> QED
      BY <1>8, <1>18, <2>1, <3>1, RequestKept DEF Inv
  <2>2. CASE x = q
    <3>1. Target(q)' = Target(q) /\ Place(q)' = Place(q)
      BY <1>7, <1>8 DEF Target, Place
    <3>2. ASSUME NEW n \in request[q].todo \ {Place(q)}
          PROVE  Fresh(<<q, Configured[n]>>)'
      <4>1. Configured[n] \in Instance /\ <<q, Configured[n]>> # mine
        BY <1>3, <3>2, Places
      <4>2. Fresh(<<q, Configured[n]>>)
        BY <1>1, <1>2, <3>2 DEF WalkInv
      <4> QED
        BY <1>19, <4>1, <4>2 DEF Record
    <3>3. WalkInv(q)'
      BY <1>2, <1>4, <1>7, <1>8, <1>11, <3>1, <3>2 DEF WalkInv
    <3>4. ResultsInv(q)'
      BY <1>2, <1>7, <1>8, <1>18, ResultsKept DEF Open
    <3> QED
      BY <2>2, <3>3, <3>4
  <2> QED
    BY <2>1, <2>2
<1> QED
  BY <1>13, <1>14, <1>16, <1>17, <1>20 DEF Inv

LEMMA BeginInv ==
  ASSUME Inv, NEW q \in Request, Begin(q)
  PROVE  Inv'
<1>1. Walking(q) /\ UNCHANGED <<store, troubles>>
  BY DEF Begin
<1>2. CASE /\ byInvocationKey[Key(q)] # None
           /\ request' = [request EXCEPT ![q].pc = "wait",
                                         ![q].on = byInvocationKey[Key(q)]]
           /\ UNCHANGED <<byInvocationKey, record, run>>
  BY <1>1, <1>2, JoinInv
<1>3. CASE /\ request' = [request EXCEPT ![q].pc = "wait", ![q].on = <<q, Target(q)>>]
           /\ byInvocationKey' = [byInvocationKey EXCEPT ![Key(q)] = <<q, Target(q)>>]
           /\ record' = [record EXCEPT ![<<q, Target(q)>>] = "pending"]
           /\ run' = [run EXCEPT ![<<q, Target(q)>>] =
                [NoRun EXCEPT !.pc = "search", !.env = Target(q), !.folder = 1]]
  BY <1>1, <1>3, StartInv
<1> QED
  BY <1>2, <1>3 DEF Begin

LEMMA CrashInv ==
  ASSUME Inv, Crash
  PROVE  Inv'
<1> DEFINE marking == {Message(r) : r \in {r \in Record : At(r, "mark")}}
<1>1. /\ TypeOK /\ LabelInv /\ VaultInv
      /\ Trouble /\ vault' = vault
      /\ lost' = lost \cup ((Waiting \cap labelled') \ InVault)
      /\ request' = [q \in Request |->
           IF Live(q) THEN [request[q] EXCEPT !.pc = "gone"] ELSE request[q]]
      /\ record' = [r \in Record |->
           IF record[r] = "pending" THEN "none" ELSE record[r]]
      /\ byInvocationKey' = [k \in Form \X Instance |-> None]
      /\ run' = [r \in Record |->
           IF Running(r) THEN [NoRun EXCEPT !.pc = "done", !.env = run[r].env,
                                            !.partial = TRUE]
           ELSE run[r]]
  BY DEF Crash, Inv
<1>2. PICK late \in SUBSET marking : labelled' = labelled \cup late
  BY DEF Crash
<1>3. troubles' \in 0..MaxTroubles
  BY <1>1, TroubleType
<1>4. marking \subseteq Waiting /\ marking \subseteq Mail
  <2> SUFFICES ASSUME NEW r \in Record, run[r].pc = "mark"
               PROVE  Message(r) \in Waiting /\ Message(r) \in Mail
    BY DEF At
  <2>1. Message(r) \in Range(run[r].out)
    BY DEF Inv, PollInv
  <2> QED
    BY <2>1, RunType DEF Waiting
<1> HIDE DEF marking
<1>5. labelled \subseteq labelled' /\ labelled' \subseteq labelled \cup Waiting
  BY <1>2, <1>4
<1>6. labelled' \subseteq Mail
  BY <1>1, <1>2, <1>4 DEF TypeOK
<1>7. \A r \in Record :
        /\ run[r] \in Runs /\ run[r].env \in Instance \cup {None}
        /\ <<>> \in Seq(Mail)
  BY RunType
<1>8. ASSUME NEW r \in Record
      PROVE  /\ run'[r] \in Runs
             /\ \/ run'[r] = run[r]
                \/ run'[r].pc = "done" /\ run'[r].out = <<>> /\ run'[r].partial
             /\ run[r] = NoRun => run'[r] = NoRun
             /\ record[r] \in Terminal => record'[r] = record[r]
             /\ record[r] = "none" => record'[r] = "none"
             /\ record'[r] \in Terminal \cup {"none", "pending"}
  <2>1. CASE Running(r)
    <3> DEFINE stopped == [NoRun EXCEPT !.pc = "done", !.env = run[r].env,
                                        !.partial = TRUE]
    <3>1. run'[r] = stopped
      BY <1>1, <2>1
    <3>2. /\ stopped \in Runs /\ stopped.pc = "done" /\ stopped.out = <<>>
          /\ stopped.partial
      BY <1>7 DEF NoRun, Runs
    <3>3. run[r] # NoRun
      BY <2>1 DEF Running, NoRun
    <3> HIDE DEF stopped
    <3> QED
      BY <1>1, <3>1, <3>2, <3>3 DEF TypeOK, Terminal
  <2>2. CASE ~Running(r)
    BY <1>1, <1>7, <2>2 DEF TypeOK, Terminal
  <2> QED
    BY <2>1, <2>2
<1>9. ASSUME NEW q \in Request
      PROVE  /\ request'[q] \in Requests
             /\ \/ request'[q] = request[q] /\ request[q].pc \notin Open
                \/ /\ request'[q].pc = "gone"
                   /\ request'[q].form = request[q].form
                   /\ request'[q].todo = request[q].todo
                   /\ request'[q].results = request[q].results
  <2>1. request[q] \in Requests
    BY <1>1 DEF TypeOK
  <2>2. CASE Live(q)
    <3> DEFINE gone == [request[q] EXCEPT !.pc = "gone"]
    <3>1. request'[q] = gone
      BY <1>1, <2>2
    <3>2. /\ gone \in Requests /\ gone.pc = "gone" /\ gone.form = request[q].form
          /\ gone.todo = request[q].todo /\ gone.results = request[q].results
      BY <2>1 DEF Requests
    <3> QED
      BY ONLY <3>1, <3>2
  <2>3. CASE ~Live(q)
    BY <1>1, <2>1, <2>3 DEF Live, Open
  <2> QED
    BY <2>2, <2>3
<1>10. TypeOK'
  <2>1. request' \in [Request -> Requests]
    BY <1>1, <1>9
  <2>2. run' \in [Record -> Runs]
    BY <1>1, <1>8
  <2>3. record' \in [Record -> Terminal \cup {"none", "pending"}]
    BY <1>1, <1>8
  <2>4. byInvocationKey' \in [Form \X Instance -> Record \cup {None}]
    BY <1>1
  <2>5. lost' \in SUBSET labelled' /\ vault' \in SUBSET (Mail \X Instance)
    BY <1>1, <1>5 DEF TypeOK
  <2> QED
    BY <1>3, <1>6, <2>1, <2>2, <2>3, <2>4, <2>5 DEF TypeOK
<1>11. KeyInv' /\ VaultInv' /\ InVault' = InVault
  BY <1>1 DEF KeyInv, VaultInv, InVault
<1>12. LabelInv'
  BY <1>1, <1>5, <1>11 DEF LabelInv
<1>13. ASSUME NEW r \in Record PROVE PollInv(r)' /\ CoverInv(r)'
  <2>1. CASE run'[r] = run[r]
    BY <1>5, <1>11, <2>1, RunKept DEF Inv
  <2>2. CASE run'[r].pc = "done" /\ run'[r].out = <<>> /\ run'[r].partial
    BY ONLY <2>2, RangeEmpty DEF PollInv, CoverInv, Polling
  <2> QED
    BY <1>8, <2>1, <2>2
<1>14. ASSUME NEW q \in Request PROVE WalkInv(q)' /\ ResultsInv(q)'
  <2>1. ASSUME NEW i \in Instance, Fresh(<<q, i>>) PROVE Fresh(<<q, i>>)'
    <3>1. <<q, i>> \in Record
      BY DEF Record
    <3> QED
      BY <1>8, <2>1, <3>1 DEF Fresh
  <2>2. WalkInv(q) /\ ResultsInv(q)
    BY DEF Inv
  <2>3. WalkInv(q)'
    <3>1. CASE request'[q] = request[q] /\ request[q].pc \notin Open
      BY <2>1, <2>2, <3>1 DEF WalkInv, Open
    <3>2. CASE request'[q].pc = "gone"
      BY <3>2 DEF WalkInv
    <3> QED
      BY <1>9, <3>1, <3>2
  <2>4. \A n \in DOMAIN request[q].results : request[q].results[n].on \in Record \cup {None}
    <3>1. request[q].results \in Seq(Results)
      BY <1>1 DEF TypeOK, Requests
    <3>2. \A n \in DOMAIN request[q].results : request[q].results[n] \in Results
      BY <3>1, LenProperties, ElementOfSeq
    <3> QED
      BY <3>2 DEF Results
  <2>5. \A x \in Record : record[x] \in Terminal => record'[x] = record[x]
    BY <1>8
  <2>6. ResultsInv(q)'
    <3>1. CASE request'[q] = request[q]
      BY <2>2, <2>4, <2>5, <3>1 DEF ResultsInv
    <3>2. CASE /\ request'[q].pc = "gone"
               /\ request'[q].form = request[q].form
               /\ request'[q].todo = request[q].todo
               /\ request'[q].results = request[q].results
      <4>1. request'[q].pc \notin Open \cup {"answered"}
        BY <3>2 DEF Open
      <4> QED
        BY <2>2, <2>4, <2>5, <3>2, <4>1 DEF ResultsInv
    <3> QED
      BY <1>9, <3>1, <3>2
  <2> QED
    BY <2>3, <2>6
<1> QED
  BY <1>10, <1>11, <1>12, <1>13, <1>14 DEF Inv

-----------------------------------------------------------------------------
(* The invariant, and the properties it implies.                            *)

LEMMA InitInv == Init => Inv
<1> SUFFICES ASSUME Init PROVE Inv
  OBVIOUS
<1>1. <<>> \in Seq(Mail) /\ <<>> \in Seq(Results) /\ DOMAIN <<>> = {}
  OBVIOUS
<1>2. NewRequest \in Requests /\ NoRun \in Runs
  BY <1>1 DEF NewRequest, NoRun, Requests, Runs, Form
<1>3. TypeOK
  BY <1>2, TroublesAssumption DEF Init, TypeOK
<1>4. KeyInv /\ LabelInv /\ VaultInv
  BY DEF Init, KeyInv, LabelInv, VaultInv
<1>5. ASSUME NEW q \in Request PROVE WalkInv(q) /\ ResultsInv(q)
  <2>1. \A i \in Instance : Fresh(<<q, i>>)
    BY DEF Init, Fresh, Record
  <2>2. /\ request[q].pc = "new" /\ request[q].results = <<>>
        /\ request[q].todo = {}
    BY <1>5 DEF Init, NewRequest
  <2> QED
    BY <1>1, <2>1, <2>2 DEF WalkInv, ResultsInv, Open
<1>6. ASSUME NEW r \in Record PROVE PollInv(r) /\ CoverInv(r)
  <2>1. run[r] = NoRun /\ run[r].pc = "none" /\ run[r].out = <<>>
    BY <1>6 DEF Init, NoRun
  <2> QED
    BY <2>1, RangeEmpty DEF PollInv, CoverInv, Polling
<1> QED
  BY <1>3, <1>4, <1>5, <1>6 DEF Inv

LEMMA NextInv ==
  ASSUME Inv, [Next]_vars
  PROVE  Inv'
<1>1. CASE \E q \in Request : HandlerStep(q) \/ Timeout(q) \/ Abandon(q) \/ \E f \in Form : Ask(q, f)
  BY <1>1, EnvFailureInv, BeginInv, AnswerInv, RespondInv, TimeoutInv, AbandonInv, AskInv
     DEF HandlerStep
<1>2. CASE \E r \in Record : ProcessStep(r)
  BY <1>2, SearchInv, FolderDoneInv, ExitInv, ParseFailsInv, EmitInv, MarkIngestedInv
     DEF ProcessStep
<1>3. CASE \E r \in Record : StreamStep(r)
  BY <1>3, PersistBeginsInv, PersistInv, ConflictInv, StreamEndsInv DEF StreamStep
<1>4. CASE \E r \in Record :
             SearchFails(r) \/ ReadFails(r) \/ MarkFails(r) \/ Killed(r) \/ PersistFails(r)
  BY <1>4, SearchFailsInv, ReadFailsInv, MarkFailsInv, KilledInv, PersistFailsInv
<1>5. CASE Crash
  BY <1>5, CrashInv
<1>6. CASE UNCHANGED vars
  <2>1. /\ request' = request /\ byInvocationKey' = byInvocationKey
        /\ record' = record /\ run' = run /\ labelled' = labelled
        /\ vault' = vault /\ lost' = lost /\ troubles' = troubles
    BY <1>6 DEF vars, store
  <2>2. TypeOK' /\ KeyInv' /\ LabelInv' /\ VaultInv'
    BY <2>1 DEF Inv, TypeOK, KeyInv, LabelInv, VaultInv, InVault, Waiting
  <2>3. ASSUME NEW q \in Request PROVE WalkInv(q)' /\ ResultsInv(q)'
    BY <2>1 DEF Inv, WalkInv, ResultsInv, Fresh, Target, Place
  <2>4. ASSUME NEW r \in Record PROVE PollInv(r)' /\ CoverInv(r)'
    BY <2>1 DEF Inv, PollInv, CoverInv, Safe, InVault, Message, Uid, Folder, Folders
  <2> QED
    BY <2>2, <2>3, <2>4 DEF Inv
<1> QED
  BY <1>1, <1>2, <1>3, <1>4, <1>5, <1>6 DEF Next

\* The invariant holds of every behaviour.
THEOREM SpecInv == Spec => []Inv
  BY InitInv, NextInv, PTL DEF Spec

\* Every variable keeps its type, whatever the mailboxes and the failures.
THEOREM TypeCorrect == Spec => []TypeOK
<1>1. Inv => TypeOK
  BY DEF Inv
<1> QED
  BY <1>1, SpecInv, PTL

\* Poller.Tick and Stream lose no mail but what is counted as lost: a label is
\* the only memory of a poll, and a message gets it only when its file or the
\* output that leads to it is safe, or the stream was broken off; and a poll
\* that went well leaves nothing wellformed of its mailbox behind.
THEOREM MailKept == Spec => []MailIsKept
<1>1. ASSUME Inv PROVE MailIsKept
  <2>1. ASSUME NEW r \in Record, run[r].pc = "done", ~run[r].partial,
               NEW m \in Wellformed(r[2])
        PROVE  m \in InVault \cup labelled
    <3>1. PollInv(r) /\ CoverInv(r) /\ r[2] \in Instance
      BY <1>1, RunType
    <3>2. m \notin Malformed
      BY <3>1, WellformedIs
    <3>3. run[r].out = <<>> /\ Safe(r, m)
      BY <2>1, <3>1 DEF PollInv, CoverInv
    <3> QED
      BY <3>2, <3>3, RangeEmpty DEF Safe
  <2> QED
    BY <1>1, <2>1 DEF Inv, LabelInv, MailIsKept, At
<1> QED
  BY <1>1, SpecInv, PTL

\* dispatchFanOut answers a request with one result for each of its enabled
\* instances, in the order of the configuration, each from a record of that
\* instance that ended as reported, and no mail is filed under an instance
\* whose mailbox does not hold it.
THEOREM AnswersOwn == Spec => []AnswersAreOwn
<1>1. ASSUME Inv PROVE AnswersAreOwn
  <2>1. ASSUME NEW q \in Request, Is(q, "answered")
        PROVE  Targets(request[q].form) =
                 {request[q].results[n].place : n \in DOMAIN request[q].results}
    <3>1. request[q].pc \in Open \cup {"answered"} /\ request[q].pc = "answered"
      BY <2>1 DEF Is
    <3> QED
      BY <1>1, <3>1 DEF Inv, ResultsInv
  <2> QED
    BY <1>1, <2>1 DEF Inv, ResultsInv, VaultInv, AnswersAreOwn
<1> QED
  BY <1>1, SpecInv, PTL
=============================================================================
