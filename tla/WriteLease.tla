----------------------------- MODULE WriteLease -----------------------------
(***************************************************************************)
(* What the per-artifact write lock promises its callers, without the map, *)
(* the poll loop or the release closures: tickets are granted to write an  *)
(* artifact, at most one ticket is live per artifact, and a live ticket    *)
(* ends only by being handed back itself.                                  *)
(***************************************************************************)
CONSTANTS Artifact, Ticket

VARIABLE live  \* the <<artifact, ticket>> pairs that may write now

Grant(a, t) ==
  /\ \A p \in live : p[1] # a /\ p[2] # t
  /\ live' = live \cup {<<a, t>>}

HandBack(a, t) ==
  /\ <<a, t>> \in live
  /\ live' = live \ {<<a, t>>}

LeaseInit == live = {}
LeaseNext == \E a \in Artifact, t \in Ticket : Grant(a, t) \/ HandBack(a, t)
LeaseSpec == LeaseInit /\ [][LeaseNext]_live
=============================================================================
