-------------------------- MODULE MCIngestTracker --------------------------
(* Small instances of IngestTracker. *)
EXTENDS IngestTracker, TLC

CONSTANTS u1, u2, game, label

\* The game, and the label its edges point at, which a resolver plugin
\* ingests by name.
TwoUrls == u1 :> {game} @@ u2 :> {label}
=============================================================================
