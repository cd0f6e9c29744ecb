--------------------------- MODULE MCTableTracker ---------------------------
(* Two tables, one of two sections with versions that stay small and one   *)
(* of one section whose version number is about to wrap around.            *)
EXTENDS TableTracker

MCId == 1 .. 2
MCLastNumber == [i \in MCId |-> IF i = 1 THEN 1 ELSE 0]
MCFirstVersion == [i \in MCId |-> IF i = 1 THEN 3 ELSE 25]
=============================================================================
