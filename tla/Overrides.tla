------------------------------ MODULE Overrides ------------------------------
(***************************************************************************)
(* The overrides table (internal/store/overrides.go): the manual on, off,  *)
(* pause and ignore_weather instructions, and which of them is in effect   *)
(* for a target at an instant.  A row is never changed except that it is   *)
(* cancelled once; its position in the table is its id.                    *)
(*                                                                         *)
(* An instant is counted in half seconds, so that two events of the same   *)
(* second can be told apart where the code can, and not where the table,   *)
(* which stores whole seconds, cannot.                                     *)
(***************************************************************************)
EXTENDS Integers, Sequences, FiniteSets

CONSTANTS
    None,      \* NULL: no end, not cancelled, no override
    RowLimit   \* rows that EffectiveOverrideOf looks at, 50 in the code

ASSUME OverridesAssumption == None \notin Nat /\ RowLimit \in Nat \ {0}

Actions == {"on", "off", "pause", "ignore_weather"}

\* time.Time.Unix: what the store keeps of an instant.
Stored(t) == t - (t % 2)

Seconds == {t \in Nat : t % 2 = 0}

Override(Targets) ==
    [target : Targets, action : Actions, until : Seconds \cup {None},
     created : Seconds, cancelled : Seconds \cup {None}]

\* INSERT INTO overrides.
CreateOverride(rows, target, action, until, now) ==
    Append(rows, [target |-> target, action |-> action,
                  until |-> IF until = None THEN None ELSE Stored(until),
                  created |-> Stored(now), cancelled |-> None])

\* CancelOverride refuses a row that is cancelled already.
Cancellable(rows, id) == id \in DOMAIN rows /\ rows[id].cancelled = None
CancelOverride(rows, id, now) == [rows EXCEPT ![id].cancelled = Stored(now)]

Over(end, t) == end # None /\ end <= t

\* Override.activeAt
ActiveAt(o, t) == o.created <= t /\ ~Over(o.until, t) /\ ~Over(o.cancelled, t)

\* ORDER BY created_at DESC, id DESC
Newer(rows, i, j) ==
    \/ rows[i].created > rows[j].created
    \/ rows[i].created = rows[j].created /\ i > j

Newest(rows, ids) == CHOOSE i \in ids : \A j \in ids \ {i} : Newer(rows, i, j)

\* The rows that the query returns.
Fetched(rows, target, actions, t) ==
    LET matching == {i \in DOMAIN rows : /\ rows[i].target = target
                                         /\ rows[i].action \in actions
                                         /\ rows[i].created <= Stored(t)}
    IN  {i \in matching : Cardinality({j \in matching : Newer(rows, j, i)}) < RowLimit}

\* The id of the override in effect for target at t, None if there is none.
EffectiveOverrideOf(rows, target, t, actions) ==
    LET active == {i \in Fetched(rows, target, actions, t) : ActiveAt(rows[i], t)}
    IN  IF active = {} THEN None ELSE Newest(rows, active)

EffectiveOverride(rows, target, t) == EffectiveOverrideOf(rows, target, t, Actions)
==============================================================================
