---------------------------- MODULE MCWebActions ----------------------------
(***************************************************************************)
(* Instances of WebActions for TLC: days of three seconds, of which the    *)
(* host is on for the last one and the first of the next day, and the      *)
(* media server until midnight; there is another guest that must never be  *)
(* touched.                                                                *)
(***************************************************************************)
EXTENDS WebActions, TLC

Days == [d \in 0..4 |-> 6 * d]
Places == [g \in {"edge", "media"} |-> IF g = "edge" THEN 1 ELSE 2]
OnDays(on, off) == {[days |-> {0}, on |-> on, off |-> off]}
NightTime == OnDays(4, 2)
Evening == [g \in {"edge", "media"} |-> OnDays(4, 0)]
Alike == Permutations(Handlers)
==============================================================================
