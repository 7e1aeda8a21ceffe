----------------------------- MODULE MCTimeline -----------------------------
(* An instance of Timeline for TLC: the author's page and another member's. *)
EXTENDS Timeline

CONSTANTS a, b
MCTabs == {a, b}
=============================================================================
