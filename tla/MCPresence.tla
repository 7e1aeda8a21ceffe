----------------------------- MODULE MCPresence -----------------------------
(* An instance of Presence for TLC: two tabs, one status besides "online". *)
EXTENDS Presence

CONSTANTS t1, t2
MCTabs == {t1, t2}
MCSlots == 1..2
=============================================================================
