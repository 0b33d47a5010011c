---------------------------- MODULE MCEdgeWrites ----------------------------
(* Two labels that may point at each other, a person, a day, a mail and the *)
(* plugin's own entity.                                                     *)
EXTENDS EdgeWrites
CONSTANTS brass, lanc, ann, day, mail, thing

Ask(kind, from, to) ==
  [kind |-> kind, type |-> "link", from |-> from, to |-> to, old |-> to, flag |-> FALSE]
RequestDef ==
  {Ask("post", ann, brass), Ask("post", mail, day), Ask("delete", brass, brass),
   [Ask("rewrite", ann, lanc) EXCEPT !.old = brass],
   Ask("fill", mail, brass), [Ask("fill", lanc, brass) EXCEPT !.flag = TRUE],
   Ask("action", mail, lanc), [Ask("action", ann, brass) EXCEPT !.flag = TRUE]}
Found(e, links) == [entity |-> e, links |-> links, options |-> FALSE]
Nothing == [entity |-> None, links |-> <<>>, options |-> FALSE]
\* A plugin entity with an edge to the label, the label itself with edges, options, nothing.
UpstreamDef ==
  [e \in Label |->
     IF e = brass
     THEN {Found(thing, <<brass>>), Found(brass, <<lanc>>), Found(thing, <<lanc>>),
           [Nothing EXCEPT !.options = TRUE]}
     ELSE {Found(lanc, <<brass>>), Nothing}]
=============================================================================
