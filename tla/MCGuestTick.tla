---------------------------- MODULE MCGuestTick ----------------------------
(***************************************************************************)
(* Instances of GuestTick for TLC: a file server and a media server that   *)
(* depends on it, which are to run from the same second on.                *)
(***************************************************************************)
EXTENDS GuestTick

OneGuest == {"media"}
TwoGuests == {"nas", "media"}
NoGuests == {}

NoDependencies == [g \in Guests |-> {}]
MediaNeedsNas == [g \in Guests |-> IF g = "media" THEN {"nas"} ELSE {}]
NasBeforeMedia == [g \in Guests |-> IF g = "nas" THEN 1 ELSE 2]

Evening == [g \in Guests |-> 2..5]
=============================================================================
