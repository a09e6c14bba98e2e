----------------------------- MODULE GuestClaims -----------------------------
(***************************************************************************)
(* Sentences of the repository's documents and comments about guests and   *)
(* overrides that GuestTick, which does what the code does, does not live  *)
(* up to.  Each is refuted by a run of its own.                            *)
(***************************************************************************)
EXTENDS MCGuestTick

\* engine/guests.go:47: the engine acts when "the effective override changed
\* (started, changed, or expired)".  last_tick and the table keep whole seconds,
\* so an override written later in the second in which a tick began counts as
\* old at the next tick, and nobody acts on it before it ends.
OverrideActedOn ==
    [][Save /\ acted # None => \A g \in Managed :
          /\ tick.view[g].override # acted[g].override
          /\ Act(tick.view[g])
          => (g \in running) = Desired(tick.view[g])]_vars

\* docs/ROLLOUT.md:158: "all-clear returns to the schedule and wakes the
\* host".  The guests that the storm, or a power cut, has stopped are only
\* started again at their next boundary: a tick acts on what changed, and an
\* outage changes neither a schedule nor an override.
ScheduleRestored ==
    [][Save => \A g \in Managed \ touched :
          Act(tick.view[g]) /\ Desired(tick.view[g]) => g \in running]_vars
==============================================================================
