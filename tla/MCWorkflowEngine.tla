-------------------------- MODULE MCWorkflowEngine --------------------------
(***************************************************************************)
(* Small instances of WorkflowEngine: for each run the workflow files it   *)
(* is about.  Entities: "p" is a person, "g" a game.                       *)
(***************************************************************************)
EXTENDS WorkflowEngine, TLC

CreatedInputs == {"entity_created"} \X Entity
KindDef == [e \in Entity |-> IF e = "p" THEN "person" ELSE "game"]

\* The loader reports every file, all new and all fine.
LoadAll == {[files |-> Workflow, edited |-> {}, broken |-> {}]}

File(trigger, kinds, file, actions) ==
  [trigger |-> trigger, kinds |-> kinds, file |-> file, catchAll |-> FALSE,
   active |-> TRUE, dedup |-> "none", outcomes |-> {"true"}, actions |-> actions]
CatchAll(f) == [f EXCEPT !.catchAll = TRUE]
Paused(f) == [f EXCEPT !.active = FALSE]
Dedup(f, policy) == [f EXCEPT !.dedup = policy]
Yields(f, outcomes) == [f EXCEPT !.outcomes = outcomes]

Claim == [do |-> "claim"]
Write == [do |-> "write"]
Emit(t, e) == [do |-> "emit", topic |-> t, entity |-> e]
Resolve(e) == [do |-> "ingest", topic |-> "edge_added", entity |-> e]

\* Two regular workflows, the first of which may claim, three catch-alls (two
\* of them after the same slot) and a wildcard.  The last catch-all and two
\* more workflows publish what the next of them waits for, in a ring.
EventsDef ==
  "reg1" :> Yields(File("entity_created", <<"person">>, 2, <<Write, Claim>>),
                   {"true", "render_error"})
  @@ "reg2" :> Paused(File("entity_created", <<>>, 1, <<Claim>>))
  @@ "any" :> CatchAll(File("entity_created", <<>>, 3, <<Write>>))
  @@ "person" :> CatchAll(File("entity_created", <<"person">>, 5, <<Claim>>))
  @@ "people" :> CatchAll(File("entity_created", <<"person">>, 4, <<Write>>))
  @@ "both" :> CatchAll(File("entity_created", <<"game", "person">>, 6,
                          <<Emit("edge_added", "p")>>))
  @@ "ring2" :> Yields(File("edge_added", <<"person">>, 7, <<Emit("fill_completed", "p")>>),
                       {"true", "failed"})
  @@ "ring3" :> File("fill_completed", <<>>, 8, <<Emit("entity_created", "g")>>)

\* An edit of the catch-alls, one that breaks a file, and a deleted file.
Reloadings == LoadAll \cup
  {[files |-> Workflow, edited |-> {"any", "person", "people"}, broken |-> {}],
   [files |-> Workflow, edited |-> {"reg1", "people"}, broken |-> {"people"}],
   [files |-> Workflow \ {"person", "reg2"}, edited |-> {}, broken |-> {}]}

\* An event workflow that waits for an ingest and a manual one, both under the
\* skip policy.
ConcurrentDef ==
  "event" :> Dedup(File("entity_created", <<"person">>, 1, <<Resolve("g")>>), "skip")
  @@ "manual" :> Dedup(Yields(File("manual", <<>>, 2, <<Write>>),
                              {"true", "failed", "blank_key"}), "skip")

\* One workflow whose action publishes an event.
FloodDef ==
  "w1" :> File("entity_created", <<>>, 1, <<Emit("edge_added", "p")>>)
=============================================================================
