-------------------------- MODULE MCWorkflowLoader --------------------------
(* Two files; two names, three contents that share a slot or a name, and one *)
(* that asks for a plugin that is not loaded.                                *)
EXTENDS WorkflowLoader
CONSTANTS m, n, c1, c2, c3, bad, slot
NameInDef == [c \in {c1, c2, c3, bad} |-> CASE c = c1 -> m [] c = c2 -> n
                                             [] c = c3 -> m [] OTHER -> n]
SlotInDef == [c \in {c1, c2, c3, bad} |-> CASE c = c1 -> slot [] c = c2 -> slot
                                             [] OTHER -> None]
PathOfDef == [w \in {m, n} |-> IF w = m THEN 1 ELSE 2]
=============================================================================
