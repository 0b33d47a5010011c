--------------------------- MODULE MCEntityEdits ---------------------------
(* Two labels and a page; a configured edge gap, and one that workflows add. *)
EXTENDS EntityEdits
CONSTANTS ent1, ent2, page, h1, h2, ref, wgap, ann, bob, para
Ask(kind, on, gap) ==
  [kind |-> kind, on |-> on, gap |-> gap, target |-> IF on = ent1 THEN ent2 ELSE ent1, para |-> None,
   note |-> 1, sec |-> h1, newsec |-> h2, by |-> ann, direct |-> TRUE, force |-> FALSE, shaped |-> FALSE]
Linked == {[Ask("fill", e, ref) EXCEPT !.para = para, !.force = (e = ent1)] : e \in {ent1, ent2}}
            \cup {[Ask("add_edge", ent1, ref) EXCEPT !.para = para]}
OnGap == {Ask(k, ent1, wgap) : k \in {"fill", "clear", "defer", "undefer", "set_property"}}
           \cup {[Ask("add_gap", ent1, wgap) EXCEPT !.shaped = TRUE]}
OnNotes == {Ask(k, ent1, ref) : k \in {"post_note", "add_note", "edit_note", "delete_note"}}
OnBody == {Ask(k, ent1, ref) : k \in {"section_replace", "section_add", "section_rename", "section_delete"}}
            \cup {[Ask("section_add", ent1, ref) EXCEPT !.sec = h2, !.by = bob]}
OnPage == {Ask(k, page, ref) : k \in {"page_create", "frontmatter", "post_note", "section_replace"}}
            \cup {Ask(k, page, wgap) : k \in {"frontmatter", "fill"}}
            \cup {[Ask("frontmatter", page, ref) EXCEPT !.by = bob]}
RequestDef == Linked \cup OnGap \cup OnNotes \cup OnBody \cup OnPage \cup {Ask("create", ent2, ref)}
=============================================================================
