---------------------------- MODULE WakeEpisode ----------------------------
(***************************************************************************)
(* What the engine promises of one attempt to wake the host, whatever its  *)
(* ticks and the store go through: it sends a bounded number of packets,   *)
(* gives up only when it has sent all that were asked for, and once it has *)
(* given up it stays silent until the episode is over.  HostPower          *)
(* implements it with three keys of the state table.                       *)
(***************************************************************************)
EXTENDS Naturals

CONSTANTS
    Retries,   \* packets to send before giving up
    Limit      \* packets of an undisturbed episode

VARIABLES
    sent,       \* packets sent in this episode
    givenUp,    \* the host was reported as failing to wake
    allowance   \* packets the episode may send

episode == <<sent, givenUp, allowance>>

Init == sent = 0 /\ givenUp = FALSE /\ allowance = Limit

\* An interruption may cost the engine its count of packets.
Allowed == allowance' \in {allowance, allowance + Limit}

Send ==
    /\ ~givenUp
    /\ Allowed
    /\ sent' = sent + 1 /\ sent' <= allowance'
    /\ UNCHANGED givenUp

GiveUp ==
    /\ ~givenUp /\ sent >= Retries
    /\ givenUp' = TRUE
    /\ UNCHANGED <<sent, allowance>>

Disturbed ==
    /\ allowance' = allowance + Limit
    /\ UNCHANGED <<sent, givenUp>>

\* The host is up, or no longer wanted.
Over == sent' = 0 /\ givenUp' = FALSE /\ allowance' = Limit

Next == Send \/ GiveUp \/ Disturbed \/ Over

Spec == Init /\ [][Next]_episode
=============================================================================
