---------------------------- MODULE MCHostPower ----------------------------
(***************************************************************************)
(* Instances of HostPower for TLC: a guest that must never be touched, a   *)
(* file server and a media server that depends on it.                      *)
(***************************************************************************)
EXTENDS HostPower

NoGuests == {}
NoDependencies == [g \in {} |-> {}]
NoRanks == [g \in {} |-> 0]

ThreeGuests == {"edge", "nas", "media"}
EdgeAlwaysOn == {"edge"}
MediaNeedsNas == [g \in ThreeGuests |-> IF g = "media" THEN {"nas"} ELSE {}]
NasBeforeMedia == [g \in ThreeGuests |-> CASE g = "edge" -> 1 [] g = "nas" -> 2 [] g = "media" -> 3]
=============================================================================
