--------------------------- MODULE TimetableProofs ---------------------------
(***************************************************************************)
(* Lemmas about what shall be on at an instant.  For every overrides       *)
(* table: an override is in effect for whole seconds, and what is written  *)
(* to the table changes nothing for the instants before it.  For every     *)
(* calendar and schedule: Crossings finds the instants at which the        *)
(* schedule turns on or off, and no others.                                *)
(***************************************************************************)
EXTENDS Overrides, Schedule, WellFoundedInduction, SequenceTheorems, TLAPS

-----------------------------------------------------------------------------
(* Numbers and instants. *)

LEMMA Smallest ==
    ASSUME NEW T, T \subseteq Nat, T # {}
    PROVE  \E x \in T : \A y \in T : x <= y
<1>1. \E x \in T : \A y \in T : <<y, x>> \notin OpToRel(<, Nat)
  BY NatLessThanWellFounded, WFMin, Zenon
<1>2. \A x, y \in Nat : <<y, x>> \notin OpToRel(<, Nat) => x <= y
  BY DEF OpToRel
<1> QED
  BY <1>1, <1>2

LEMMA StoredIs ==
    ASSUME NEW t \in Nat
    PROVE  /\ Stored(t) \in Seconds /\ Stored(t) \in Nat /\ Stored(t) <= t /\ t <= Stored(t) + 1
           /\ \A s \in Seconds : s <= t <=> s <= Stored(t)
  BY DEF Stored, Seconds

\* Of two seconds the later one comes after all instants of the other.
LEMMA LaterSecond ==
    ASSUME NEW t \in Nat, NEW u \in Nat, t <= u
    PROVE  /\ Stored(t) <= Stored(u)
           /\ Stored(t) # Stored(u) => t < Stored(u)
           /\ \A s \in Seconds : s <= t /\ Stored(u) # s => s < Stored(u)
  BY DEF Stored, Seconds

-----------------------------------------------------------------------------
(* The table. *)

\* A table of overrides, whatever their targets.
Table(rows) == \E Targets : rows \in Seq(Override(Targets))

LEMMA RowType ==
    ASSUME NEW rows, Table(rows)
    PROVE  /\ DOMAIN rows = 1..Len(rows) /\ Len(rows) \in Nat
           /\ \A i \in DOMAIN rows :
                 /\ i \in Nat /\ rows[i].created \in Seconds /\ rows[i].created \in Nat
                 /\ rows[i].until \in Seconds \cup {None} /\ rows[i].cancelled \in Seconds \cup {None}
<1>1. PICK Targets : rows \in Seq(Override(Targets))
  BY DEF Table
<1>2. DOMAIN rows = 1..Len(rows) /\ Len(rows) \in Nat /\ \A i \in DOMAIN rows : rows[i] \in Override(Targets)
  BY <1>1
<1> QED
  BY <1>2 DEF Override, Seconds

\* Newer is a strict order on the rows.
LEMMA NewerOrder ==
    ASSUME NEW rows, Table(rows), NEW i \in DOMAIN rows, NEW j \in DOMAIN rows, NEW k \in DOMAIN rows
    PROVE  /\ i # j => Newer(rows, i, j) \/ Newer(rows, j, i)
           /\ Newer(rows, i, j) => ~Newer(rows, j, i)
           /\ Newer(rows, i, j) /\ Newer(rows, j, k) => Newer(rows, i, k)
<1>1. /\ rows[i].created \in Nat /\ rows[j].created \in Nat /\ rows[k].created \in Nat
      /\ i \in Nat /\ j \in Nat /\ k \in Nat
  BY RowType
<1> QED
  BY <1>1 DEF Newer

Leads(rows, ids, i) == i \in ids /\ \A j \in ids \ {i} : Newer(rows, i, j)

\* There is a newest one among any rows.
LEMMA NewestExists ==
    ASSUME NEW rows, Table(rows), NEW ids, ids \subseteq DOMAIN rows, ids # {}
    PROVE  \E i \in ids : Leads(rows, ids, i)
<1> DEFINE upTo(n) == ids \cap 1..n
           T == {n \in Nat : upTo(n) # {} /\ ~\E i \in upTo(n) : Leads(rows, upTo(n), i)}
<1>1. DOMAIN rows = 1..Len(rows) /\ Len(rows) \in Nat
  BY RowType
<1>2. CASE T # {}
  <2>1. PICK n \in T : \A m \in T : n <= m
    <3>1. T \subseteq Nat
      OBVIOUS
    <3> HIDE DEF T
    <3> QED
      BY <1>2, <3>1, Smallest
  <2>2. n \in Nat /\ upTo(n) # {} /\ ~\E i \in upTo(n) : Leads(rows, upTo(n), i)
    OBVIOUS
  <2>3. n - 1 \in Nat /\ n - 1 \notin T
    <3>1. n # 0
      BY <2>2
    <3>2. n - 1 \in Nat /\ ~(n <= n - 1)
      BY <2>2, <3>1
    <3> QED
      BY <2>1, <3>2
  <2>4. upTo(n) = IF n \in ids THEN upTo(n - 1) \cup {n} ELSE upTo(n - 1)
    BY <2>2, <2>3
  <2>5. n \in ids /\ n \notin upTo(n - 1)
    BY <2>2, <2>3, <2>4
  <2>6. upTo(n - 1) \subseteq DOMAIN rows /\ n \in DOMAIN rows
    BY <2>5
  <2>7. CASE upTo(n - 1) = {}
    <3>1. upTo(n) = {n}
      BY <2>4, <2>5, <2>7
    <3> QED
      BY <2>2, <3>1 DEF Leads
  <2>8. CASE upTo(n - 1) # {}
    <3>1. PICK m \in upTo(n - 1) : Leads(rows, upTo(n - 1), m)
      BY <2>3, <2>8
    <3>2. upTo(n) = upTo(n - 1) \cup {n} /\ m # n
      BY <2>4, <2>5
    <3> HIDE DEF upTo
    <3>3. CASE Newer(rows, m, n)
      BY <2>2, <3>1, <3>2, <3>3 DEF Leads
    <3>4. CASE Newer(rows, n, m)
      <4>1. \A j \in upTo(n - 1) : Newer(rows, n, j)
        BY <2>6, <3>1, <3>4, NewerOrder DEF Leads
      <4> QED
        BY <2>2, <3>2, <4>1 DEF Leads
    <3> QED
      BY <2>6, <3>1, <3>2, <3>3, <3>4, NewerOrder
  <2> QED
    BY <2>7, <2>8
<1>3. CASE T = {}
  <2>1. ids = upTo(Len(rows))
    BY <1>1
  <2>2. Len(rows) \notin T
    BY <1>3
  <2> QED
    BY <1>1, <2>1, <2>2
<1> QED
  BY <1>2, <1>3

\* And it is the one that the query puts first.
LEMMA NewestIs ==
    ASSUME NEW rows, Table(rows), NEW ids, ids \subseteq DOMAIN rows, ids # {}
    PROVE  /\ Newest(rows, ids) \in ids
           /\ \A i : Leads(rows, ids, i) <=> i = Newest(rows, ids)
<1>1. Leads(rows, ids, Newest(rows, ids))
  BY NewestExists DEF Leads, Newest
<1>2. \A i, j : Leads(rows, ids, i) /\ Leads(rows, ids, j) => i = j
  BY NewerOrder DEF Leads
<1> QED
  BY <1>1, <1>2 DEF Leads

\* Of tables that put the same rows in the same order, the same comes first.
LEMMA SameNewest ==
    ASSUME NEW rows, NEW table, Table(rows), Table(table), NEW ids,
           ids \subseteq DOMAIN rows, ids \subseteq DOMAIN table, ids # {},
           \A i, j \in ids : Newer(rows, i, j) <=> Newer(table, i, j)
    PROVE  Newest(rows, ids) = Newest(table, ids)
<1>1. Leads(rows, ids, Newest(rows, ids))
  BY NewestIs
<1>2. Leads(table, ids, Newest(rows, ids))
  BY <1>1 DEF Leads
<1> QED
  BY <1>2, NewestIs

-----------------------------------------------------------------------------
(* The override in effect. *)

Matching(rows, g, actions, t) ==
    {i \in DOMAIN rows : rows[i].target = g /\ rows[i].action \in actions /\ rows[i].created <= Stored(t)}

InEffect(rows, g, actions, t) == {i \in Fetched(rows, g, actions, t) : ActiveAt(rows[i], t)}

LEMMA EffectiveIs ==
    ASSUME NEW rows, NEW g, NEW t, NEW actions
    PROVE  /\ Fetched(rows, g, actions, t) =
                  {i \in Matching(rows, g, actions, t) :
                      Cardinality({j \in Matching(rows, g, actions, t) : Newer(rows, j, i)}) < RowLimit}
           /\ Matching(rows, g, actions, t) \subseteq DOMAIN rows
           /\ InEffect(rows, g, actions, t) \subseteq DOMAIN rows
           /\ EffectiveOverrideOf(rows, g, t, actions) =
                  IF InEffect(rows, g, actions, t) = {} THEN None ELSE Newest(rows, InEffect(rows, g, actions, t))
  BY DEF Matching, InEffect, Fetched, EffectiveOverrideOf

\* It is a row of the table, if there is one.
LEMMA EffectiveType ==
    ASSUME NEW rows, Table(rows), NEW g, NEW t, NEW actions
    PROVE  /\ EffectiveOverrideOf(rows, g, t, actions) \in DOMAIN rows \cup {None}
           /\ EffectiveOverrideOf(rows, g, t, actions) \in Nat \cup {None}
<1>1. InEffect(rows, g, actions, t) \subseteq DOMAIN rows
  BY EffectiveIs
<1>2. InEffect(rows, g, actions, t) # {} =>
          Newest(rows, InEffect(rows, g, actions, t)) \in InEffect(rows, g, actions, t)
  BY <1>1, NewestIs
<1>3. EffectiveOverrideOf(rows, g, t, actions) \in DOMAIN rows \cup {None}
  BY <1>1, <1>2, EffectiveIs
<1>4. DOMAIN rows \subseteq Nat
  BY RowType
<1> QED
  BY <1>3, <1>4

\* It is the same one all through a second.
LEMMA WholeSecond ==
    ASSUME NEW rows, Table(rows), NEW g, NEW t \in Nat, NEW actions
    PROVE  EffectiveOverrideOf(rows, g, t, actions) = EffectiveOverrideOf(rows, g, Stored(t), actions)
<1>1. Stored(t) \in Nat /\ Stored(Stored(t)) = Stored(t) /\ \A s \in Seconds : s <= t <=> s <= Stored(t)
  BY StoredIs DEF Stored
<1>2. Matching(rows, g, actions, t) = Matching(rows, g, actions, Stored(t))
  BY <1>1 DEF Matching
<1>3. Fetched(rows, g, actions, t) = Fetched(rows, g, actions, Stored(t))
  <2>1. Fetched(rows, g, actions, t) =
            {i \in Matching(rows, g, actions, t) :
                Cardinality({j \in Matching(rows, g, actions, t) : Newer(rows, j, i)}) < RowLimit}
    BY EffectiveIs
  <2>2. Fetched(rows, g, actions, Stored(t)) =
            {i \in Matching(rows, g, actions, Stored(t)) :
                Cardinality({j \in Matching(rows, g, actions, Stored(t)) : Newer(rows, j, i)}) < RowLimit}
    BY EffectiveIs
  <2> QED
    BY <1>2, <2>1, <2>2
<1>4. \A i \in DOMAIN rows : ActiveAt(rows[i], t) <=> ActiveAt(rows[i], Stored(t))
  <2>1. TAKE i \in DOMAIN rows
  <2>2. /\ rows[i].created \in Seconds
        /\ rows[i].until \in Seconds \cup {None} /\ rows[i].cancelled \in Seconds \cup {None}
    BY RowType
  <2>3. /\ rows[i].created <= t <=> rows[i].created <= Stored(t)
        /\ Over(rows[i].until, t) <=> Over(rows[i].until, Stored(t))
        /\ Over(rows[i].cancelled, t) <=> Over(rows[i].cancelled, Stored(t))
    BY <1>1, <2>2 DEF Over
  <2> QED
    BY <2>3 DEF ActiveAt
<1>5. InEffect(rows, g, actions, t) = InEffect(rows, g, actions, Stored(t))
  <2>1. Fetched(rows, g, actions, t) \subseteq DOMAIN rows
    BY DEF Fetched
  <2> QED
    BY <1>3, <1>4, <2>1 DEF InEffect
<1> QED
  BY <1>5, EffectiveIs

\* Rows that are added or cancelled later than t are no matter at t.
Extends(table, rows, t) ==
    /\ DOMAIN rows \subseteq DOMAIN table
    /\ \A i \in DOMAIN rows :
          /\ table[i].target = rows[i].target /\ table[i].action = rows[i].action
          /\ table[i].until = rows[i].until /\ table[i].created = rows[i].created
          /\ Over(table[i].cancelled, t) <=> Over(rows[i].cancelled, t)
    /\ \A i \in DOMAIN table \ DOMAIN rows : t < table[i].created

LEMMA SameBefore ==
    ASSUME NEW rows, NEW table, Table(rows), Table(table), NEW t \in Nat, Extends(table, rows, t),
           NEW g, NEW actions
    PROVE  EffectiveOverrideOf(table, g, t, actions) = EffectiveOverrideOf(rows, g, t, actions)
<1>1. \A i \in DOMAIN table \ DOMAIN rows : ~(table[i].created <= Stored(t))
  <2>1. \A i \in DOMAIN table : table[i].created \in Nat
    BY RowType
  <2> QED
    BY <2>1, StoredIs DEF Extends
<1>2. Matching(table, g, actions, t) = Matching(rows, g, actions, t)
  BY <1>1 DEF Matching, Extends
<1>3. \A i, j \in DOMAIN rows : Newer(table, j, i) <=> Newer(rows, j, i)
  BY DEF Newer, Extends
<1>4. \A i \in Matching(rows, g, actions, t) :
          {j \in Matching(rows, g, actions, t) : Newer(table, j, i)}
              = {j \in Matching(rows, g, actions, t) : Newer(rows, j, i)}
  BY <1>3 DEF Matching
<1>5. Fetched(table, g, actions, t) = Fetched(rows, g, actions, t)
  <2>1. Fetched(table, g, actions, t) =
            {i \in Matching(table, g, actions, t) :
                Cardinality({j \in Matching(table, g, actions, t) : Newer(table, j, i)}) < RowLimit}
    BY EffectiveIs
  <2>2. Fetched(rows, g, actions, t) =
            {i \in Matching(rows, g, actions, t) :
                Cardinality({j \in Matching(rows, g, actions, t) : Newer(rows, j, i)}) < RowLimit}
    BY EffectiveIs
  <2> QED
    BY <1>2, <1>4, <2>1, <2>2
<1>6. \A i \in DOMAIN rows : ActiveAt(table[i], t) <=> ActiveAt(rows[i], t)
  BY DEF ActiveAt, Extends
<1>7. InEffect(table, g, actions, t) = InEffect(rows, g, actions, t)
  <2>1. Fetched(rows, g, actions, t) \subseteq DOMAIN rows
    BY DEF Fetched
  <2> QED
    BY <1>5, <1>6, <2>1 DEF InEffect
<1>8. InEffect(rows, g, actions, t) \subseteq DOMAIN rows /\ InEffect(rows, g, actions, t) \subseteq DOMAIN table
  <2>1. InEffect(rows, g, actions, t) \subseteq DOMAIN rows
    BY EffectiveIs
  <2> QED
    BY <2>1 DEF Extends
<1>9. InEffect(rows, g, actions, t) # {} =>
          Newest(rows, InEffect(rows, g, actions, t)) = Newest(table, InEffect(rows, g, actions, t))
  BY <1>3, <1>8, SameNewest
<1> QED
  BY <1>7, <1>9, EffectiveIs

-----------------------------------------------------------------------------
(* What is written. *)

LEMMA CreatedLater ==
    ASSUME NEW Targets, NEW rows \in Seq(Override(Targets)), NEW g \in Targets, NEW action \in Actions,
           NEW until \in Nat \cup {None}, NEW now \in Nat
    PROVE  LET table == CreateOverride(rows, g, action, until, now)
           IN  /\ table \in Seq(Override(Targets))
               /\ Len(table) = Len(rows) + 1
               /\ \A i \in DOMAIN rows : i \in DOMAIN table /\ table[i] = rows[i]
               /\ \A t \in Nat : t < Stored(now) => Extends(table, rows, t)
<1> DEFINE row == [target |-> g, action |-> action, until |-> IF until = None THEN None ELSE Stored(until),
                   created |-> Stored(now), cancelled |-> None]
           table == Append(rows, row)
<1>1. table = CreateOverride(rows, g, action, until, now) /\ row.created = Stored(now)
  BY DEF CreateOverride
<1>2. row \in Override(Targets)
  BY StoredIs DEF Override
<1> HIDE DEF row
<1>3. table \in Seq(Override(Targets)) /\ Len(table) = Len(rows) + 1
  BY <1>2
<1>4. \A i \in DOMAIN rows : i \in DOMAIN table /\ table[i] = rows[i]
  BY <1>2
<1>5. \A i \in DOMAIN table \ DOMAIN rows : table[i] = row
  BY <1>2
<1> HIDE DEF table
<1>6. \A t \in Nat : t < Stored(now) => Extends(table, rows, t)
  BY <1>1, <1>4, <1>5 DEF Extends
<1> QED
  BY <1>1, <1>3, <1>4, <1>6

\* The same of what is kept, without what a later instant makes of it.
LEMMA CreatedKeeps ==
    ASSUME NEW Targets, NEW rows \in Seq(Override(Targets)), NEW g \in Targets, NEW action \in Actions,
           NEW until \in Nat \cup {None}, NEW now \in Nat
    PROVE  /\ CreateOverride(rows, g, action, until, now) \in Seq(Override(Targets))
           /\ Len(CreateOverride(rows, g, action, until, now)) = Len(rows) + 1
<1> DEFINE table == CreateOverride(rows, g, action, until, now)
<1>1. table \in Seq(Override(Targets)) /\ Len(table) = Len(rows) + 1
  BY CreatedLater
<1> QED
  BY <1>1

LEMMA CancelledLater ==
    ASSUME NEW Targets, NEW rows \in Seq(Override(Targets)), NEW id \in DOMAIN rows, rows[id].cancelled = None,
           NEW now \in Nat
    PROVE  LET table == CancelOverride(rows, id, now)
           IN  /\ table \in Seq(Override(Targets))
               /\ Len(table) = Len(rows)
               /\ \A i \in DOMAIN rows : i \in DOMAIN table /\ table[i].action = rows[i].action
               /\ \A t \in Nat : t < Stored(now) => Extends(table, rows, t)
<1> DEFINE row == [rows[id] EXCEPT !.cancelled = Stored(now)]
           table == [rows EXCEPT ![id] = row]
<1>1. table = CancelOverride(rows, id, now)
  BY DEF CancelOverride
<1>2. /\ rows[id] \in Override(Targets)
      /\ row \in Override(Targets) /\ row.cancelled = Stored(now)
      /\ row.target = rows[id].target /\ row.action = rows[id].action
      /\ row.until = rows[id].until /\ row.created = rows[id].created
  <2>1. rows[id] \in Override(Targets) /\ Stored(now) \in Seconds
    BY StoredIs
  <2> QED
    BY <2>1 DEF Override
<1> HIDE DEF row
<1>3. table \in Seq(Override(Targets)) /\ Len(table) = Len(rows)
  BY <1>2
<1>4. DOMAIN table = DOMAIN rows /\ \A i \in DOMAIN rows : table[i] = IF i = id THEN row ELSE rows[i]
  OBVIOUS
<1> HIDE DEF table
<1>5. ASSUME NEW t \in Nat, t < Stored(now)
      PROVE  Extends(table, rows, t)
  <2>1. ~Over(row.cancelled, t) /\ ~Over(rows[id].cancelled, t)
    BY <1>2, <1>5, StoredIs DEF Over
  <2> QED
    BY <1>2, <1>4, <2>1 DEF Extends
<1> QED
  BY <1>1, <1>2, <1>3, <1>4, <1>5

-----------------------------------------------------------------------------
(* The calendar. *)

LEMMA MidnightsOrder ==
    ASSUME NEW d \in 0..LastDay + 1, NEW e \in 0..LastDay + 1
    PROVE  /\ Midnights[d] \in Nat /\ Midnights[e] \in Nat
           /\ d <= e <=> Midnights[d] <= Midnights[e]
           /\ d < e <=> Midnights[d] < Midnights[e]
<1>1. Midnights[d] \in Nat /\ Midnights[e] \in Nat /\ d \in Nat /\ e \in Nat
  BY CalendarAssumption
<1>2. (d < e => Midnights[d] < Midnights[e]) /\ (e < d => Midnights[e] < Midnights[d])
  BY CalendarAssumption
<1> QED
  BY <1>1, <1>2

\* Every instant of the calendar falls on a day of it.
LEMMA DayIs ==
    ASSUME NEW t \in Nat, t < Midnights[LastDay + 1]
    PROVE  /\ DayOf(t) \in 0..LastDay
           /\ Midnights[DayOf(t)] <= t /\ t < Midnights[DayOf(t) + 1]
           /\ Midnights[DayOf(t)] \in Nat /\ Midnights[DayOf(t) + 1] \in Nat
<1> DEFINE T == {d \in 0..LastDay : t < Midnights[d + 1]}
<1>1. LastDay \in Nat /\ Midnights[0] = 0 /\ \A d \in 0..LastDay + 1 : Midnights[d] \in Nat
  BY CalendarAssumption
<1>2. PICK d \in T : \A e \in T : d <= e
  <2>1. T \subseteq Nat /\ LastDay \in T
    BY <1>1
  <2> HIDE DEF T
  <2> QED
    BY <2>1, Smallest
<1>3. d \in 0..LastDay /\ t < Midnights[d + 1]
  OBVIOUS
<1>4. Midnights[d] <= t
  <2>1. CASE d = 0
    BY <1>1, <2>1
  <2>2. CASE d # 0
    <3>1. d - 1 \in 0..LastDay /\ ~(d <= d - 1) /\ (d - 1) + 1 = d
      BY <1>1, <1>3, <2>2
    <3>2. d - 1 \notin T
      BY <1>2, <3>1
    <3>3. ~(t < Midnights[d])
      BY <3>1, <3>2
    <3> QED
      BY <1>1, <1>3, <3>3
  <2> QED
    BY <2>1, <2>2
<1>5. DayOf(t) \in 0..LastDay /\ Midnights[DayOf(t)] <= t /\ t < Midnights[DayOf(t) + 1]
  BY <1>3, <1>4 DEF DayOf, Calendar
<1>6. DayOf(t) \in 0..LastDay + 1 /\ DayOf(t) + 1 \in 0..LastDay + 1
  BY <1>1, <1>5
<1> QED
  BY <1>1, <1>5, <1>6

\* Later instants do not fall on earlier days.
LEMMA DaysOrder ==
    ASSUME NEW t \in Nat, NEW u \in Nat, t <= u, u < Midnights[LastDay + 1]
    PROVE  DayOf(t) <= DayOf(u)
<1>1. Midnights[LastDay + 1] \in Nat /\ LastDay \in Nat
  BY CalendarAssumption
<1>2. t < Midnights[LastDay + 1]
  BY <1>1
<1>3. /\ DayOf(t) \in 0..LastDay /\ Midnights[DayOf(t)] <= t /\ Midnights[DayOf(t)] \in Nat
      /\ DayOf(u) \in 0..LastDay /\ u < Midnights[DayOf(u) + 1] /\ Midnights[DayOf(u) + 1] \in Nat
  BY <1>2, DayIs
<1>4. Midnights[DayOf(t)] < Midnights[DayOf(u) + 1]
  BY <1>3
<1>5. DayOf(t) < DayOf(u) + 1
  BY <1>1, <1>3, <1>4, MidnightsOrder
<1> QED
  BY <1>1, <1>3, <1>5

-----------------------------------------------------------------------------
(* Schedules. *)

\* The instances that are looked at.
LEMMA CoveringIs ==
    ASSUME NEW s, NEW from, NEW to, NEW i
    PROVE  i \in InstancesCovering(s, from, to) <=>
               \E w \in s : \E d \in (DayOf(from) - 1..DayOf(to)) \cap Calendar :
                   Has(w.days, d) /\ i = Instance(w, d)
<1> DEFINE D == (DayOf(from) - 1..DayOf(to)) \cap Calendar
<1> HIDE DEF D
<1>1. InstancesCovering(s, from, to) = {Instance(x[1], x[2]) : x \in {y \in s \X D : Has(y[1].days, y[2])}}
  BY DEF InstancesCovering, D
<1>2. i \in InstancesCovering(s, from, to) <=> \E w \in s : \E d \in D : Has(w.days, d) /\ i = Instance(w, d)
  <2>1. \A w \in s, d \in D : <<w, d>>[1] = w /\ <<w, d>>[2] = d /\ <<w, d>> \in s \X D
    OBVIOUS
  <2>2. ASSUME NEW w \in s, NEW d \in D, Has(w.days, d), i = Instance(w, d)
        PROVE  i \in InstancesCovering(s, from, to)
    <3> DEFINE y == <<w, d>>
    <3>1. y \in s \X D /\ y[1] = w /\ y[2] = d
      OBVIOUS
    <3> HIDE DEF y
    <3> QED
      BY <1>1, <2>2, <3>1
  <2> QED
    BY <1>1, <2>2
<1> QED
  BY <1>2 DEF D

\* An instance begins on its day, and after all earlier ones.
LEMMA InstanceIs ==
    ASSUME NEW w \in Windows, NEW d \in Calendar
    PROVE  /\ Instance(w, d).on \in Nat /\ Instance(w, d).off \in Nat
           /\ Midnights[d] <= Instance(w, d).on
           /\ Instance(w, d).on = Midnights[d] + w.on
           /\ Instance(w, d).off = IF Wraps(w) THEN Midnights[d + 1] + w.off ELSE Midnights[d] + w.off
<1>1. w.on \in Nat /\ w.off \in Nat
  BY CalendarAssumption DEF Windows, TimesOfDay
<1>2. d \in 0..LastDay + 1 /\ d + 1 \in 0..LastDay + 1
  BY CalendarAssumption DEF Calendar
<1>3. Midnights[d] \in Nat /\ Midnights[d + 1] \in Nat
  BY <1>2, CalendarAssumption
<1> QED
  BY <1>1, <1>3 DEF Instance

\* Some instance of s that the days from..to look at is on at t.
Covered(s, from, to, t) == \E i \in InstancesCovering(s, from, to) : i.on <= t /\ t < i.off

\* A schedule that ends in time is on when one of its instances is, however far
\* around the instances are looked for.
LEMMA OnIsCovered ==
    ASSUME NEW s, s \subseteq Windows, EndsInTime(s), NEW from \in Nat, NEW to \in Nat,
           NEW t \in from..to, to < Midnights[LastDay + 1]
    PROVE  IsOn(s, t) <=> Covered(s, from, to, t)
<1>1. t \in Nat /\ from <= t /\ t <= to /\ t < Midnights[LastDay + 1] /\ from < Midnights[LastDay + 1]
  BY CalendarAssumption
<1>2. /\ DayOf(from) \in 0..LastDay /\ DayOf(t) \in 0..LastDay /\ DayOf(to) \in 0..LastDay
      /\ DayOf(from) <= DayOf(t) /\ DayOf(t) <= DayOf(to) /\ LastDay \in Nat
      /\ t < Midnights[DayOf(t) + 1] /\ Midnights[DayOf(t)] <= t
      /\ Midnights[DayOf(t)] \in Nat /\ Midnights[DayOf(t) + 1] \in Nat
  BY <1>1, DayIs, DaysOrder, CalendarAssumption
<1>3. ASSUME IsOn(s, t)
      PROVE  Covered(s, from, to, t)
  <2>1. PICK i \in InstancesCovering(s, t, t) : i.on <= t /\ t < i.off
    BY <1>3 DEF IsOn
  <2>2. PICK w \in s, d \in (DayOf(t) - 1..DayOf(t)) \cap Calendar : Has(w.days, d) /\ i = Instance(w, d)
    BY CoveringIs
  <2>3. d \in (DayOf(from) - 1..DayOf(to)) \cap Calendar
    BY <1>2
  <2>4. i \in InstancesCovering(s, from, to)
    BY <2>2, <2>3, CoveringIs
  <2> QED
    BY <2>1, <2>4 DEF Covered
<1>4. ASSUME Covered(s, from, to, t)
      PROVE  IsOn(s, t)
  <2>1. PICK i \in InstancesCovering(s, from, to) : i.on <= t /\ t < i.off
    BY <1>4 DEF Covered
  <2>2. PICK w \in s, d \in (DayOf(from) - 1..DayOf(to)) \cap Calendar : Has(w.days, d) /\ i = Instance(w, d)
    BY CoveringIs
  <2>3. /\ i.on \in Nat /\ i.off \in Nat /\ Midnights[d] <= i.on
        /\ d \in 0..LastDay /\ d \in 0..LastDay + 1 /\ Midnights[d] \in Nat
    BY <1>2, <2>2, InstanceIs, MidnightsOrder DEF Calendar
  <2>4. d < DayOf(t) + 1
    <3>1. Midnights[d] < Midnights[DayOf(t) + 1]
      BY <1>1, <1>2, <2>1, <2>3
    <3>2. DayOf(t) + 1 \in 0..LastDay + 1
      BY <1>2
    <3> QED
      BY <2>3, <3>1, <3>2, MidnightsOrder
  <2>5. DayOf(t) - 1 <= d
    <3>1. SUFFICES ASSUME d + 2 <= DayOf(t) PROVE FALSE
      BY <1>2, <2>3
    <3>2. d \in 0..LastDay - 1 /\ d + 2 \in 0..LastDay + 1 /\ DayOf(t) \in 0..LastDay + 1
      BY <1>2, <2>3, <3>1
    <3>3. i.off <= Midnights[d + 2]
      BY <2>2, <3>2 DEF EndsInTime
    <3>4. Midnights[d + 2] <= Midnights[DayOf(t)] /\ Midnights[d + 2] \in Nat
      BY <3>1, <3>2, MidnightsOrder
    <3> QED
      BY <1>1, <1>2, <2>1, <2>3, <3>3, <3>4
  <2>6. d \in (DayOf(t) - 1..DayOf(t)) \cap Calendar
    BY <1>2, <2>3, <2>4, <2>5
  <2>7. i \in InstancesCovering(s, t, t)
    BY <2>2, <2>6, CoveringIs
  <2> QED
    BY <2>1, <2>7 DEF IsOn
<1> QED
  BY <1>3, <1>4

\* Where the state changes is a candidate.
LEMMA ChangesAtCandidates ==
    ASSUME NEW s, s \subseteq Windows, EndsInTime(s), NEW from \in Nat, NEW to \in Nat,
           to < Midnights[LastDay + 1], NEW t \in from + 1..to, IsOn(s, t) # IsOn(s, t - 1)
    PROVE  t \in Candidates(s, from, to)
<1>1. t \in from..to /\ t - 1 \in from..to /\ t \in Nat /\ t - 1 \in Nat
  OBVIOUS
<1>2. Covered(s, from, to, t) # Covered(s, from, to, t - 1)
  BY <1>1, OnIsCovered DEF IsOn, Covered
<1>3. PICK i \in InstancesCovering(s, from, to) :
          (i.on <= t /\ t < i.off) # (i.on <= t - 1 /\ t - 1 < i.off)
  BY <1>2 DEF Covered
<1>4. i.on \in Nat /\ i.off \in Nat
  BY CoveringIs, InstanceIs DEF Calendar
<1>5. t = i.on \/ t = i.off
  BY <1>1, <1>3, <1>4
<1> QED
  BY <1>3, <1>5 DEF Candidates, Edges

\* Between two instants without a candidate in between nothing changes.
LEMMA NothingBetween ==
    ASSUME NEW s, s \subseteq Windows, EndsInTime(s), NEW from \in Nat, NEW to \in Nat,
           to < Midnights[LastDay + 1], NEW b \in from..to, NEW c \in b..to,
           \A x \in b + 1..c : x \notin Candidates(s, from, to)
    PROVE  IsOn(s, c) = IsOn(s, b)
<1> DEFINE T == {x \in b..c : IsOn(s, x) # IsOn(s, b)}
<1>1. CASE T = {}
  BY <1>1
<1>2. CASE T # {}
  <2>1. T \subseteq Nat
    OBVIOUS
  <2>2. PICK x \in T : \A y \in T : x <= y
    <3> HIDE DEF T
    <3> QED
      BY <1>2, <2>1, Smallest
  <2>3. x \in b + 1..c /\ x - 1 \in b..c /\ ~(x <= x - 1)
    BY <2>2
  <2>4. x - 1 \notin T
    BY <2>2, <2>3
  <2>5. IsOn(s, x) # IsOn(s, x - 1)
    BY <2>2, <2>3, <2>4
  <2>6. x \in from + 1..to
    BY <2>3
  <2> QED
    BY <2>3, <2>5, <2>6, ChangesAtCandidates
<1> QED
  BY <1>1, <1>2

\* The candidate before c, or `from`.
Before(s, from, to, c) ==
    LET earlier == {b \in Candidates(s, from, to) : b < c} \cup {from}
    IN  CHOOSE b \in earlier : \A x \in earlier : x <= b

LEMMA BeforeIs ==
    ASSUME NEW s, NEW from \in Nat, NEW to \in Nat, NEW c \in Candidates(s, from, to)
    PROVE  /\ c \in from + 1..to
           /\ Before(s, from, to, c) \in from..c - 1
           /\ \A x \in Before(s, from, to, c) + 1..c - 1 : x \notin Candidates(s, from, to)
<1> DEFINE earlier == {b \in Candidates(s, from, to) : b < c} \cup {from}
           T == {c - b : b \in earlier}
<1>1. Candidates(s, from, to) \subseteq from + 1..to
  BY DEF Candidates
<1>2. c \in from + 1..to /\ earlier \subseteq from..c - 1 /\ from \in earlier
  BY <1>1
<1> HIDE DEF earlier
<1>3. PICK x \in T : \A y \in T : x <= y
  <2>1. T \subseteq Nat /\ T # {}
    BY <1>2
  <2> HIDE DEF T
  <2> QED
    BY <2>1, Smallest
<1>4. PICK b \in earlier : x = c - b
  BY <1>3
<1>5. \A y \in earlier : y <= b
  <2> SUFFICES ASSUME NEW y \in earlier PROVE y <= b
    OBVIOUS
  <2>1. x <= c - y
    BY <1>3
  <2> QED
    BY <1>2, <1>4, <2>1
<1>6. /\ Before(s, from, to, c) \in earlier
      /\ \A y \in earlier : y <= Before(s, from, to, c)
  BY <1>5 DEF Before, earlier
<1>7. \A y \in Before(s, from, to, c) + 1..c - 1 : y \notin Candidates(s, from, to)
  <2> SUFFICES ASSUME NEW y \in Before(s, from, to, c) + 1..c - 1, y \in Candidates(s, from, to) PROVE FALSE
    OBVIOUS
  <2>1. Before(s, from, to, c) \in from..c - 1
    BY <1>2, <1>6
  <2>2. y < c /\ ~(y <= Before(s, from, to, c))
    BY <1>2, <2>1
  <2> QED
    BY <1>6, <2>2 DEF earlier
<1> QED
  BY <1>2, <1>6, <1>7

\* The boundaries that Crossings reports are the instants at which the schedule
\* turns on or off.
LEMMA CrossingsExact ==
    ASSUME NEW s, s \subseteq Windows, EndsInTime(s), NEW from \in Nat, NEW to \in Nat,
           to < Midnights[LastDay + 1]
    PROVE  Crossings(s, from, to) =
               {[at |-> t, on |-> IsOn(s, t)] : t \in {x \in from + 1..to : IsOn(s, x) # IsOn(s, x - 1)}}
<1> DEFINE found == {x \in Candidates(s, from, to) : IsOn(s, x) # IsOn(s, Before(s, from, to, x))}
           changes == {x \in from + 1..to : IsOn(s, x) # IsOn(s, x - 1)}
<1>1. Crossings(s, from, to) = {[at |-> c, on |-> IsOn(s, c)] : c \in found}
  BY DEF Crossings, Before
<1>2. ASSUME NEW c \in Candidates(s, from, to)
      PROVE  c \in from + 1..to /\ IsOn(s, c - 1) = IsOn(s, Before(s, from, to, c))
  <2> DEFINE b == Before(s, from, to, c)
  <2>1. c \in from + 1..to /\ b \in from..c - 1 /\ \A x \in b + 1..c - 1 : x \notin Candidates(s, from, to)
    BY BeforeIs
  <2> HIDE DEF b
  <2>2. b \in from..to /\ c - 1 \in b..to
    BY <2>1
  <2>3. IsOn(s, c - 1) = IsOn(s, b)
    BY <2>1, <2>2, NothingBetween
  <2> QED
    BY <2>1, <2>3 DEF b
<1>3. \A x \in changes : x \in Candidates(s, from, to)
  BY ChangesAtCandidates
<1>4. found = changes
  BY <1>2, <1>3
<1> QED
  BY <1>1, <1>4
==============================================================================
