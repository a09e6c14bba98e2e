----------------------------- MODULE ConfigProofs -----------------------------
(***************************************************************************)
(* Proofs about Config for every configuration and calendar.  First the    *)
(* walk over depends_on, for every set of guests and all lists, whatever   *)
(* they repeat, leave out or misspell; then the schedules of an accepted   *)
(* configuration, from tick to tick.                                       *)
(***************************************************************************)
EXTENDS Config, TimetableProofs

-----------------------------------------------------------------------------
(* The stack of calls. *)

LEMMA TopType ==
    ASSUME WalkTypeOK, open # <<>>
    PROVE  /\ Len(open) \in Nat \ {0} /\ Len(open) \in DOMAIN open
           /\ Top \in Call /\ Top.guest \in Guests /\ Top.next \in Nat \ {0}
           /\ Entries \in Seq(Names)
<1>1. open \in Seq(Call)
  BY DEF WalkTypeOK
<1>2. Len(open) \in Nat \ {0} /\ Len(open) \in DOMAIN open
  BY <1>1
<1>3. Top \in Call
  BY <1>1, <1>2 DEF Top
<1>4. Top.guest \in Guests /\ Top.next \in Nat \ {0}
  BY <1>3 DEF Call
<1> QED
  BY <1>2, <1>3, <1>4 DEF WalkTypeOK, Entries

\* Only the position of the top call changes when an entry has been looked at.
LEMMA PassedType ==
    ASSUME WalkTypeOK, open # <<>>
    PROVE  /\ Passed \in Seq(Call) /\ Len(Passed) = Len(open)
           /\ Passed[Len(open)] = [guest |-> Top.guest, next |-> Top.next + 1]
           /\ \A i \in 1..Len(open) - 1 : Passed[i] = open[i]
<1>1. open \in Seq(Call) /\ Len(open) \in Nat \ {0}
  BY TopType DEF WalkTypeOK
<1>2. Passed = [open EXCEPT ![Len(open)] = [Top EXCEPT !.next = Top.next + 1]]
  BY DEF Passed, Top
<1>3. Top \in Call
  BY TopType
<1>4. [Top EXCEPT !.next = Top.next + 1] = [guest |-> Top.guest, next |-> Top.next + 1]
  BY <1>3 DEF Call
<1>5. [guest |-> Top.guest, next |-> Top.next + 1] \in Call
  BY <1>3 DEF Call
<1> QED
  BY <1>1, <1>2, <1>4, <1>5

LEMMA Pushed ==
    ASSUME WalkTypeOK, open # <<>>, NEW c \in Call
    PROVE  /\ Append(Passed, c) \in Seq(Call)
           /\ Len(Append(Passed, c)) = Len(open) + 1
           /\ Append(Passed, c)[Len(open) + 1] = c
           /\ \A i \in 1..Len(open) : Append(Passed, c)[i] = Passed[i]
  BY PassedType, TopType

LEMMA Popped ==
    ASSUME WalkTypeOK, open # <<>>
    PROVE  /\ SubSeq(open, 1, Len(open) - 1) \in Seq(Call)
           /\ Len(SubSeq(open, 1, Len(open) - 1)) = Len(open) - 1
           /\ \A i \in 1..Len(open) - 1 : SubSeq(open, 1, Len(open) - 1)[i] = open[i]
<1>1. open \in Seq(Call)
  BY DEF WalkTypeOK
<1>2. Len(open) - 1 \in Nat /\ \A i \in 1..Len(open) - 1 : open[i] \in Call
  BY <1>1, TopType
<1>3. ASSUME NEW n \in Nat, n = Len(open) - 1
      PROVE  /\ SubSeq(open, 1, n) \in Seq(Call)
             /\ Len(SubSeq(open, 1, n)) = n
             /\ \A i \in 1..n : SubSeq(open, 1, n)[i] = open[i]
  <2>1. \A i \in 1..n : open[i] \in Call
    BY <1>2, <1>3
  <2> QED
    BY <2>1
<1> QED
  BY <1>2, <1>3, Zenon

-----------------------------------------------------------------------------
(* Type correctness. *)

LEMMA WalkTypeStep == ASSUME WalkTypeOK, [WalkNext]_walk PROVE WalkTypeOK'
<1>1. CASE \E g \in Guests : Visit(g)
  <2>1. PICK g \in Guests : Visit(g)
    BY <1>1
  <2>2. <<[guest |-> g, next |-> 1]>> \in Seq(Call)
    BY DEF Call
  <2> QED
    BY <2>1, <2>2 DEF Visit, WalkTypeOK, Colors
<1>2. CASE Descend
  <2>1. open # <<>> /\ Dep \in Guests
    BY <1>2 DEF Descend, More, Known
  <2>2. [guest |-> Dep, next |-> 1] \in Call
    BY <2>1 DEF Call
  <2>3. open' \in Seq(Call)
    BY <1>2, <2>1, <2>2, Pushed DEF Descend
  <2>4. color' \in [Guests -> Colors]
    BY <1>2 DEF Descend, WalkTypeOK, Colors
  <2> QED
    BY <1>2, <2>3, <2>4 DEF Descend, WalkTypeOK
<1>3. CASE PassBy
  BY <1>3, PassedType DEF PassBy, More, WalkTypeOK
<1>4. CASE FindCycle
  BY <1>4 DEF FindCycle, WalkTypeOK
<1>5. CASE Leave
  <2>1. open' \in Seq(Call)
    BY <1>5, Popped DEF Leave
  <2>2. order' \in Seq(Guests)
    BY <1>5, TopType DEF Leave, Left, WalkTypeOK
  <2>3. color' \in [Guests -> Colors]
    BY <1>5 DEF Leave, WalkTypeOK, Colors
  <2> QED
    BY <1>5, <2>1, <2>2, <2>3 DEF Leave, WalkTypeOK
<1>6. CASE Return
  BY <1>6 DEF Return, WalkTypeOK
<1>7. CASE UNCHANGED walk
  BY <1>7 DEF walk, WalkTypeOK
<1> QED
  BY <1>1, <1>2, <1>3, <1>4, <1>5, <1>6, <1>7 DEF WalkNext

\* The walk never calls visit for a name that is no guest, nor leaves one.
THEOREM WalkTypeCorrect == WalkSpec => []WalkTypeOK
<1>1. WalkInit => WalkTypeOK
  BY DEF WalkInit, WalkTypeOK, Colors
<1> QED
  BY <1>1, WalkTypeStep, PTL DEF WalkSpec

-----------------------------------------------------------------------------
(* The walk's inductive invariant.                                         *)

\* The guests that have been left are those in the order, each once.
InOrder ==
    /\ \A g \in Guests : color[g] = "black" <=> \E j \in DOMAIN order : order[j] = g
    /\ \A i, j \in DOMAIN order : order[i] = order[j] => i = j

\* The gray guests are those being visited, each once.
OnStack ==
    /\ \A g \in Guests : color[g] = "gray" <=> \E i \in DOMAIN open : open[i].guest = g
    /\ \A i, j \in DOMAIN open : open[i].guest = open[j].guest => i = j

\* What a call has looked at has been left, or is being visited on its behalf.
LookedAt ==
    \A i \in DOMAIN open : \A k \in 1..open[i].next - 1 :
        depends[open[i].guest][k] \in Guests =>
            \/ color[depends[open[i].guest][k]] = "black"
            \/ i < Len(open) /\ depends[open[i].guest][k] = open[i + 1].guest

\* Each guest being visited is one that the guest before it depends on.
Chain == \A i \in 1..Len(open) - 1 : open[i + 1].guest \in DependsOn(open[i].guest)

WalkInv == WalkTypeOK /\ InOrder /\ OnStack /\ LookedAt /\ Chain

LEMMA WalkInvInit == WalkInit => WalkInv
  BY DEF WalkInit, WalkInv, WalkTypeOK, Colors, InOrder, OnStack, LookedAt, Chain

LEMMA VisitKeeps ==
    ASSUME WalkInv, NEW g \in Guests, Visit(g)
    PROVE  InOrder' /\ OnStack' /\ LookedAt' /\ Chain'
<1> USE DEF WalkInv, WalkTypeOK
<1>1. color[g] = "white" /\ open = <<>> /\ color' = [color EXCEPT ![g] = "gray"]
  BY DEF Visit, Untouched
<1>2. open' = <<[guest |-> g, next |-> 1]>> /\ order' = order /\ depends' = depends
  BY DEF Visit
<1>3. Len(open') = 1 /\ DOMAIN open' = {1} /\ open'[1].guest = g /\ open'[1].next = 1
  BY <1>2
<1>4. InOrder'
  BY <1>1, <1>2 DEF InOrder
<1>5. OnStack'
  BY <1>1, <1>3 DEF OnStack
<1>6. LookedAt' /\ Chain'
  BY <1>3 DEF LookedAt, Chain
<1> QED
  BY <1>4, <1>5, <1>6

\* The entry that the top call looks at is one of its guest's dependencies.
LEMMA DepOfTop ==
    ASSUME WalkTypeOK, More
    PROVE  /\ Top.next \in DOMAIN Entries /\ Dep = depends[Top.guest][Top.next]
           /\ Dep \in Guests => Dep \in DependsOn(Top.guest)
<1>1. open # <<>> /\ Top.next <= Len(Entries)
  BY DEF More
<1>2. Top.next \in DOMAIN Entries
  BY <1>1, TopType
<1> QED
  BY <1>2 DEF Dep, Entries, DependsOn

LEMMA DescendKeeps ==
    ASSUME WalkInv, Descend
    PROVE  InOrder' /\ OnStack' /\ LookedAt' /\ Chain'
<1>0. PICK n \in Nat \ {0} : n = Len(open)
  BY TopType DEF Descend, More, WalkInv
<1>1. More /\ open # <<>> /\ Dep \in Guests /\ color[Dep] = "white" /\ WalkTypeOK
  BY DEF Descend, More, Known, WalkInv
<1>2. color' = [color EXCEPT ![Dep] = "gray"] /\ order' = order /\ depends' = depends
  BY DEF Descend
<1>3. [guest |-> Dep, next |-> 1] \in Call
  BY <1>1 DEF Call
<1>4. /\ open' \in Seq(Call) /\ Len(open') = n + 1 /\ open'[n + 1] = [guest |-> Dep, next |-> 1]
      /\ \A i \in 1..n : open'[i] = Passed[i]
  BY <1>0, <1>1, <1>3, Pushed, Zenon DEF Descend
<1>5. open \in Seq(Call) /\ DOMAIN open = 1..n /\ DOMAIN open' = 1..n + 1
  BY <1>0, <1>1, <1>4 DEF WalkTypeOK
<1>6. /\ open'[n].guest = open[n].guest /\ open'[n].next = open[n].next + 1
      /\ open[n].next \in Nat \ {0} /\ open[n] = Top
      /\ \A i \in 1..n - 1 : open'[i] = open[i]
  <2>1. n \in 1..n /\ \A i \in 1..n - 1 : i \in 1..n
    OBVIOUS
  <2>2. open[n] = Top
    BY <1>0 DEF Top
  <2>3. Passed[n] = [guest |-> open[n].guest, next |-> open[n].next + 1]
    BY <1>0, <1>1, <2>2, PassedType, Zenon
  <2>4. \A i \in 1..n - 1 : Passed[i] = open[i]
    BY <1>0, <1>1, PassedType, Zenon
  <2>5. open[n].next \in Nat \ {0}
    BY <1>1, <2>2, TopType, Zenon
  <2> QED
    BY <1>4, <2>1, <2>2, <2>3, <2>4, <2>5
<1>7. \A i \in 1..n : open'[i].guest = open[i].guest
  <2>1. \A i \in 1..n : i = n \/ i \in 1..n - 1
    OBVIOUS
  <2> QED
    BY <1>6, <2>1, Zenon
<1>8. open'[n + 1].guest = Dep /\ open'[n + 1].next = 1
  BY <1>4
<1>9. InOrder'
  BY <1>1, <1>2 DEF InOrder, WalkInv, WalkTypeOK
<1>10. OnStack'
  <2>1. \A i \in DOMAIN open : open[i].guest # Dep
    BY <1>1 DEF OnStack, WalkInv
  <2>2. ASSUME NEW g \in Guests
        PROVE  color'[g] = "gray" <=> \E i \in DOMAIN open' : open'[i].guest = g
    <3>1. CASE g = Dep
      <4>1. color'[g] = "gray" /\ n + 1 \in DOMAIN open'
        BY <3>1, <1>1, <1>2, <1>5 DEF WalkTypeOK
      <4> QED
        BY <3>1, <4>1, <1>8
    <3>2. CASE g # Dep
      <4>1. color'[g] = color[g]
        BY <3>2, <1>1, <1>2 DEF WalkTypeOK
      <4>2. color[g] = "gray" <=> \E i \in DOMAIN open : open[i].guest = g
        BY DEF OnStack, WalkInv
      <4>3. (\E i \in 1..n + 1 : open'[i].guest = g) <=> \E i \in 1..n : open[i].guest = g
        BY <3>2, <1>5, <1>7, <1>8
      <4> QED
        BY <4>1, <4>2, <4>3, <1>5
    <3> QED
      BY <3>1, <3>2
  <2>3. \A i, j \in DOMAIN open' : open'[i].guest = open'[j].guest => i = j
    <3>1. \A i, j \in 1..n : open[i].guest = open[j].guest => i = j
      BY <1>5 DEF OnStack, WalkInv
    <3>2. \A i \in 1..n + 1 : i \in 1..n \/ i = n + 1
      BY <1>5
    <3> QED
      BY <2>1, <3>1, <3>2, <1>5, <1>7, <1>8
  <2> QED
    BY <2>2, <2>3 DEF OnStack
<1>11. LookedAt'
  <2> SUFFICES ASSUME NEW i \in 1..n, NEW k \in 1..open'[i].next - 1,
                      depends[open[i].guest][k] \in Guests
               PROVE  \/ color'[depends[open[i].guest][k]] = "black"
                      \/ depends[open[i].guest][k] = open'[i + 1].guest
    <3>1. \A i \in 1..n + 1 : i \in 1..n \/ i = n + 1
      BY <1>5
    <3>2. \A i \in 1..n : i < n + 1
      BY <1>5
    <3>3. \A k \in 1..open'[n + 1].next - 1 : FALSE
      BY <1>8
    <3>4. ASSUME NEW i \in 1..n, NEW k \in 1..open'[i].next - 1,
                 depends[open'[i].guest][k] \in Guests
          PROVE  \/ color'[depends[open'[i].guest][k]] = "black"
                 \/ i < n + 1 /\ depends[open'[i].guest][k] = open'[i + 1].guest
      BY <3>2, <3>4, <1>7
    <3>5. DOMAIN open' = 1..n + 1 /\ Len(open') = n + 1 /\ depends' = depends
      BY <1>2, <1>4, <1>5
    <3> QED
      BY <3>1, <3>3, <3>4, <3>5 DEF LookedAt
  <2>1. \A g \in Guests : color[g] = "black" => color'[g] = "black"
    BY <1>1, <1>2 DEF WalkTypeOK
  <2>2. CASE i < n
    <3>1. k \in 1..open[i].next - 1 /\ i + 1 \in 1..n /\ i \in DOMAIN open
      BY <2>2, <1>5, <1>6
    <3>2. \/ color[depends[open[i].guest][k]] = "black"
          \/ depends[open[i].guest][k] = open[i + 1].guest
      BY <3>1 DEF LookedAt, WalkInv
    <3> QED
      BY <3>1, <3>2, <2>1, <1>7
  <2>3. CASE i = n /\ k < open[n].next
    <3>1. k \in 1..open[i].next - 1 /\ i \in DOMAIN open /\ ~(i < n)
      <4>1. k \in Nat \ {0} /\ k <= open[n].next - 1
        BY <2>3, <1>6
      <4> QED
        BY <2>3, <4>1, <1>5, <1>6
    <3>2. color[depends[open[i].guest][k]] = "black"
      BY <3>1, <1>0 DEF LookedAt, WalkInv
    <3> QED
      BY <3>2, <2>1
  <2>4. CASE i = n /\ k = open[n].next
    BY <2>4, <1>1, <1>6, <1>8, DepOfTop
  <2>5. i < n \/ (i = n /\ (k < open[n].next \/ k = open[n].next))
    <3>1. i < n \/ i = n
      OBVIOUS
    <3>2. i = n => k \in 1..(open[n].next + 1) - 1
      BY <1>6
    <3> QED
      BY <3>1, <3>2, <1>6
  <2> QED
    BY <2>2, <2>3, <2>4, <2>5
<1>12. Chain'
  <2> SUFFICES ASSUME NEW i \in 1..n
               PROVE  open'[i + 1].guest \in DependsOn(open[i].guest)
    <3>1. \A i \in 1..Len(open') - 1 : i \in 1..n
      BY <1>4
    <3>2. \A g : DependsOn(g)' = DependsOn(g)
      BY <1>2 DEF DependsOn
    <3> QED
      BY <3>1, <3>2, <1>7 DEF Chain
  <2>1. CASE i < n
    <3>1. i \in 1..Len(open) - 1 /\ i + 1 \in 1..n
      BY <2>1, <1>0
    <3> QED
      BY <3>1, <1>7 DEF Chain, WalkInv
  <2>2. CASE i = n
    BY <2>2, <1>1, <1>6, <1>8, DepOfTop
  <2> QED
    BY <2>1, <2>2
<1> QED
  BY <1>9, <1>10, <1>11, <1>12

LEMMA PassByKeeps ==
    ASSUME WalkInv, PassBy
    PROVE  InOrder' /\ OnStack' /\ LookedAt' /\ Chain'
<1>1. More /\ open # <<>> /\ WalkTypeOK /\ UNCHANGED <<depends, color, order>>
  BY DEF PassBy, More, WalkInv
<1>2. PICK n \in Nat \ {0} : n = Len(open)
  BY <1>1, TopType
<1>3. open \in Seq(Call) /\ DOMAIN open = 1..n /\ open[n] = Top
  BY <1>1, <1>2 DEF WalkTypeOK, Top
<1>4. open' = Passed
  BY DEF PassBy
<1>5. /\ Len(open') = n /\ DOMAIN open' = 1..n
      /\ open'[n] = [guest |-> open[n].guest, next |-> open[n].next + 1]
      /\ \A i \in 1..n - 1 : open'[i] = open[i]
  BY <1>1, <1>2, <1>3, <1>4, PassedType
<1>6. \A i \in 1..n : open'[i].guest = open[i].guest
  <2>1. \A i \in 1..n : i = n \/ i \in 1..n - 1
    OBVIOUS
  <2> QED
    BY <1>5, <2>1
<1>7. InOrder' /\ OnStack'
  BY <1>1, <1>3, <1>5, <1>6 DEF InOrder, OnStack, WalkInv
<1>8. LookedAt'
  <2> SUFFICES ASSUME NEW i \in 1..n, NEW k \in 1..open'[i].next - 1,
                      depends[open[i].guest][k] \in Guests
               PROVE  \/ color[depends[open[i].guest][k]] = "black"
                      \/ i < n /\ depends[open[i].guest][k] = open[i + 1].guest
    <3>1. \A i \in 1..n : i < n => i + 1 \in 1..n
      OBVIOUS
    <3> QED
      BY <3>1, <1>1, <1>5, <1>6 DEF LookedAt
  <2>1. CASE k \in 1..open[i].next - 1
    BY <2>1, <1>2, <1>3 DEF LookedAt, WalkInv
  <2>2. CASE k \notin 1..open[i].next - 1
    <3>1. i = n
      <4>1. i = n \/ i \in 1..n - 1
        OBVIOUS
      <4> QED
        BY <4>1, <2>2, <1>5
    <3>2. open[n].next \in Nat \ {0}
      BY <1>1, <1>3, TopType
    <3>3. k = open[n].next
      BY <3>1, <3>2, <2>2, <1>5
    <3>4. depends[open[i].guest][k] = Dep
      BY <3>1, <3>3, <1>1, <1>3, DepOfTop
    <3>5. color[Dep] # "white" /\ color[Dep] # "gray"
      BY <3>4 DEF PassBy, Known, Closes
    <3> QED
      BY <3>4, <3>5, <1>1 DEF WalkTypeOK, Colors
  <2> QED
    BY <2>1, <2>2
<1>9. Chain'
  <2>1. \A i \in 1..n - 1 : i \in 1..n /\ i + 1 \in 1..n
    OBVIOUS
  <2>2. \A g : DependsOn(g)' = DependsOn(g)
    BY <1>1 DEF DependsOn
  <2> QED
    BY <2>1, <2>2, <1>2, <1>5, <1>6 DEF Chain, WalkInv
<1> QED
  BY <1>7, <1>8, <1>9

\* When a guest is left, all it depends on has been left before.
LEMMA LeftAfterDependencies ==
    ASSUME WalkInv, Leave
    PROVE  \A h \in DependsOn(Top.guest) : color[h] = "black"
<1>1. open # <<>> /\ ~More /\ WalkTypeOK
  BY DEF Leave, WalkInv
<1>2. SUFFICES ASSUME NEW k \in DOMAIN Entries, Entries[k] \in Guests
               PROVE  color[Entries[k]] = "black"
  BY DEF DependsOn, Entries
<1>3. k \in 1..Top.next - 1
  <2>1. Top.next \in Nat \ {0} /\ Entries \in Seq(Names) /\ Top.next > Len(Entries)
    BY <1>1, TopType DEF More
  <2> QED
    BY <2>1
<1>4. Len(open) \in DOMAIN open /\ ~(Len(open) < Len(open)) /\ open[Len(open)] = Top
  BY <1>1, TopType DEF Top
<1> QED
  BY <1>2, <1>3, <1>4 DEF LookedAt, WalkInv, Entries

LEMMA LeaveKeeps ==
    ASSUME WalkInv, Leave
    PROVE  InOrder' /\ OnStack' /\ LookedAt' /\ Chain'
<1>1. open # <<>> /\ WalkTypeOK /\ Top.guest \in Guests
  BY TopType DEF Leave, WalkInv
<1>2. PICK n \in Nat \ {0} : n = Len(open)
  BY <1>1, TopType
<1>3. PICK m \in Nat : m = n - 1
  OBVIOUS
<1>4. open \in Seq(Call) /\ DOMAIN open = 1..n /\ open[n] = Top
  BY <1>1, <1>2 DEF WalkTypeOK, Top
<1>5. open' \in Seq(Call) /\ DOMAIN open' = 1..m /\ Len(open') = m /\ \A i \in 1..m : open'[i] = open[i]
  BY <1>1, <1>2, <1>3, Popped DEF Leave
<1>6. /\ color' = [color EXCEPT ![Top.guest] = "black"] /\ depends' = depends
      /\ order' = Append(order, Top.guest) /\ order \in Seq(Guests)
  BY <1>1 DEF Leave, Left, WalkTypeOK
<1>7. color[Top.guest] = "gray"
  <2>1. n \in DOMAIN open
    BY <1>4
  <2> QED
    BY <2>1, <1>1, <1>4 DEF OnStack, WalkInv
<1>8. /\ \A g \in Guests : color'[g] = IF g = Top.guest THEN "black" ELSE color[g]
      /\ \A g \in Guests : color[g] = "black" => color'[g] = "black"
  BY <1>1, <1>6 DEF WalkTypeOK
<1>9. InOrder'
  <2>1. PICK l \in Nat : l = Len(order)
    BY <1>6
  <2>2. DOMAIN order = 1..l /\ DOMAIN order' = 1..l + 1
    BY <1>6, <2>1
  <2>3. order'[l + 1] = Top.guest /\ \A j \in 1..l : order'[j] = order[j] /\ order[j] \in Guests
    BY <1>6, <2>1
  <2>4. \A j \in 1..l + 1 : j \in 1..l \/ j = l + 1
    OBVIOUS
  <2>5. \A j \in 1..l : order[j] # Top.guest /\ j \in 1..l + 1
    <3>1. \A j \in 1..l : color[order[j]] = "black"
      BY <2>2, <2>3 DEF InOrder, WalkInv
    <3> QED
      BY <3>1, <1>7
  <2>6. ASSUME NEW g \in Guests
        PROVE  color'[g] = "black" <=> \E j \in DOMAIN order' : order'[j] = g
    <3>1. color[g] = "black" <=> \E j \in 1..l : order[j] = g
      BY <2>2 DEF InOrder, WalkInv
    <3>2. CASE g = Top.guest
      <4>1. l + 1 \in DOMAIN order'
        BY <2>2
      <4> QED
        BY <3>2, <4>1, <2>3, <1>8
    <3>3. CASE g # Top.guest
      <4>1. (\E j \in 1..l + 1 : order'[j] = g) <=> \E j \in 1..l : order[j] = g
        BY <3>3, <2>3, <2>4, <2>5
      <4> QED
        BY <3>1, <3>3, <4>1, <2>2, <1>8
    <3> QED
      BY <3>2, <3>3
  <2>7. \A i, j \in DOMAIN order' : order'[i] = order'[j] => i = j
    <3>1. \A i, j \in 1..l : order[i] = order[j] => i = j
      BY <2>2 DEF InOrder, WalkInv
    <3> QED
      BY <3>1, <2>2, <2>3, <2>4, <2>5
  <2> QED
    BY <2>6, <2>7 DEF InOrder
<1>10. OnStack'
  <2>1. \A i \in 1..n : i \in 1..m \/ i = n
    BY <1>3
  <2>2. \A i \in 1..m : i \in 1..n /\ i # n
    BY <1>3
  <2>3. \A i, j \in 1..n : open[i].guest = open[j].guest => i = j
    BY <1>4 DEF OnStack, WalkInv
  <2>4. \A i \in 1..m : open[i].guest # Top.guest
    <3>1. n \in 1..n
      OBVIOUS
    <3> QED
      BY <3>1, <2>2, <2>3, <1>4
  <2>5. ASSUME NEW g \in Guests
        PROVE  color'[g] = "gray" <=> \E i \in 1..m : open[i].guest = g
    <3>1. color[g] = "gray" <=> \E i \in 1..n : open[i].guest = g
      BY <1>4 DEF OnStack, WalkInv
    <3>2. CASE g = Top.guest
      BY <3>2, <2>4, <1>8
    <3>3. CASE g # Top.guest
      BY <3>1, <3>3, <2>1, <2>2, <1>4, <1>8
    <3> QED
      BY <3>2, <3>3
  <2>6. \A g \in Guests : color'[g] = "gray" <=> \E i \in DOMAIN open' : open'[i].guest = g
    BY <2>5, <1>5
  <2>7. \A i, j \in DOMAIN open' : open'[i].guest = open'[j].guest => i = j
    BY <2>2, <2>3, <1>5
  <2> QED
    BY <2>6, <2>7 DEF OnStack
<1>11. LookedAt'
  <2> SUFFICES ASSUME NEW i \in 1..m, NEW k \in 1..open[i].next - 1,
                      depends[open[i].guest][k] \in Guests
               PROVE  \/ color'[depends[open[i].guest][k]] = "black"
                      \/ i < m /\ depends[open[i].guest][k] = open[i + 1].guest
    <3>1. \A i \in 1..m : i < m => i + 1 \in 1..m
      OBVIOUS
    <3>2. DOMAIN open' = 1..m /\ Len(open') = m /\ depends' = depends
      BY <1>5, <1>6
    <3>3. ASSUME NEW i \in 1..m, NEW k \in 1..open'[i].next - 1,
                 depends[open'[i].guest][k] \in Guests
          PROVE  \/ color'[depends[open'[i].guest][k]] = "black"
                 \/ i < m /\ depends[open'[i].guest][k] = open'[i + 1].guest
      <4>1. open'[i] = open[i] /\ (i < m => open'[i + 1] = open[i + 1])
        BY <3>1, <1>5
      <4> QED
        BY <3>3, <4>1
    <3> QED
      BY <3>2, <3>3 DEF LookedAt
  <2>1. \/ color[depends[open[i].guest][k]] = "black"
        \/ depends[open[i].guest][k] = open[i + 1].guest
    <3>1. i \in 1..n
      BY <1>3
    <3> QED
      BY <3>1, <1>4 DEF LookedAt, WalkInv
  <2>2. i = m => open[i + 1].guest = Top.guest
    <3>1. m + 1 = n
      BY <1>3
    <3> QED
      BY <3>1, <1>4
  <2>3. i = m \/ i < m
    OBVIOUS
  <2> QED
    BY <2>1, <2>2, <2>3, <1>1, <1>8
<1>12. Chain'
  <2>1. \A i \in 1..m - 1 : i \in 1..m /\ i + 1 \in 1..m /\ i \in 1..n - 1
    BY <1>3
  <2>2. \A g : DependsOn(g)' = DependsOn(g)
    BY <1>6 DEF DependsOn
  <2> QED
    BY <2>1, <2>2, <1>2, <1>5 DEF Chain, WalkInv
<1> QED
  BY <1>9, <1>10, <1>11, <1>12

LEMMA WalkInvStep == ASSUME WalkInv, [WalkNext]_walk PROVE WalkInv'
<1>1. WalkTypeOK'
  BY WalkTypeStep DEF WalkInv
<1>2. CASE \E g \in Guests : Visit(g)
  BY <1>1, <1>2, VisitKeeps DEF WalkInv
<1>3. CASE Descend
  BY <1>1, <1>3, DescendKeeps DEF WalkInv
<1>4. CASE PassBy
  BY <1>1, <1>4, PassByKeeps DEF WalkInv
<1>5. CASE Leave
  BY <1>1, <1>5, LeaveKeeps DEF WalkInv
<1>6. CASE FindCycle \/ Return \/ UNCHANGED walk
  <2>1. UNCHANGED <<depends, color, open, order>>
    BY <1>6 DEF FindCycle, Return, walk
  <2>2. \A g : DependsOn(g)' = DependsOn(g)
    BY <2>1 DEF DependsOn
  <2> QED
    BY <1>1, <2>1, <2>2 DEF WalkInv, InOrder, OnStack, LookedAt, Chain
<1> QED
  BY <1>2, <1>3, <1>4, <1>5, <1>6 DEF WalkNext

LEMMA WalkInvariant == WalkSpec => []WalkInv
  BY WalkInvInit, WalkInvStep, PTL DEF WalkSpec

-----------------------------------------------------------------------------
(* What the engine relies on. *)

LEMMA ComeFirstStep ==
    ASSUME WalkInv, DependenciesComeFirst, [WalkNext]_walk
    PROVE  DependenciesComeFirst'
<1>1. CASE Leave
  <2>1. WalkTypeOK /\ Top.guest \in Guests
    BY <1>1, TopType DEF Leave, WalkInv
  <2>2. order' = Append(order, Top.guest) /\ order \in Seq(Guests) /\ depends' = depends
    BY <1>1, <2>1 DEF Leave, Left, WalkTypeOK
  <2>3. PICK l \in Nat : l = Len(order)
    BY <2>2
  <2>4. DOMAIN order = 1..l /\ DOMAIN order' = 1..l + 1
    BY <2>2, <2>3
  <2>5. order'[l + 1] = Top.guest /\ \A j \in 1..l : order'[j] = order[j]
    BY <2>1, <2>2, <2>3
  <2>6. \A g : DependsOn(g)' = DependsOn(g)
    BY <2>2 DEF DependsOn
  <2> SUFFICES ASSUME NEW i \in 1..l + 1, NEW h \in DependsOn(order'[i])
               PROVE  \E j \in 1..i - 1 : order'[j] = h
    BY <2>4, <2>6 DEF DependenciesComeFirst
  <2>7. CASE i \in 1..l
    <3>1. \E j \in 1..i - 1 : order[j] = h
      BY <2>4, <2>5, <2>7 DEF DependenciesComeFirst
    <3>2. \A j \in 1..i - 1 : j \in 1..l
      BY <2>7
    <3> QED
      BY <3>1, <3>2, <2>5
  <2>8. CASE i = l + 1
    <3>1. h \in Guests /\ color[h] = "black"
      BY <1>1, <2>5, <2>8, LeftAfterDependencies DEF DependsOn
    <3>2. \E j \in 1..l : order[j] = h
      BY <3>1, <2>4 DEF InOrder, WalkInv
    <3>3. \A j \in 1..l : j \in 1..i - 1
      BY <2>8
    <3> QED
      BY <3>2, <3>3, <2>5
  <2> QED
    BY <2>7, <2>8
<1>2. CASE ~Leave
  <2>1. UNCHANGED <<depends, order>>
    BY <1>2 DEF WalkNext, Visit, Descend, PassBy, FindCycle, Return, walk
  <2>2. \A g : DependsOn(g)' = DependsOn(g)
    BY <2>1 DEF DependsOn
  <2> QED
    BY <2>1, <2>2 DEF DependenciesComeFirst
<1> QED
  BY <1>1, <1>2

\* TopologicalOrder puts every guest after all those it depends on: the order in
\* which the engine starts guests, and backwards the one in which it stops them.
THEOREM DependenciesFirstInOrder == WalkSpec => []DependenciesComeFirst
<1>1. WalkInit => DependenciesComeFirst
  BY DEF WalkInit, DependenciesComeFirst
<1> QED
  BY <1>1, WalkInvariant, ComeFirstStep, PTL DEF WalkSpec

\* When no guest is left to visit, all of them have been left.
AllLeft == verdict = "ordered" => \A g \in Guests : color[g] = "black"

LEMMA AllLeftStep == ASSUME WalkInv, AllLeft, [WalkNext]_walk PROVE AllLeft'
<1>1. CASE Return
  <2>1. open = <<>> /\ Untouched = {} /\ color' = color
    BY <1>1 DEF Return
  <2>2. \A g \in Guests : color[g] # "white"
    BY <2>1 DEF Untouched
  <2>3. \A g \in Guests : color[g] # "gray"
    BY <2>1 DEF OnStack, WalkInv
  <2> QED
    BY <2>1, <2>2, <2>3 DEF AllLeft, WalkInv, WalkTypeOK, Colors
<1>2. CASE UNCHANGED walk
  BY <1>2 DEF AllLeft, walk
<1>3. CASE verdict' = verdict /\ verdict = "walking"
  BY <1>3 DEF AllLeft
<1>4. CASE FindCycle
  BY <1>4 DEF AllLeft, FindCycle
<1> QED
  BY <1>1, <1>2, <1>3, <1>4 DEF WalkNext, Visit, Descend, PassBy, Leave

LEMMA AllLeftInvariant == WalkSpec => []AllLeft
<1>1. WalkInit => AllLeft
  BY DEF WalkInit, AllLeft
<1> QED
  BY <1>1, WalkInvariant, AllLeftStep, PTL DEF WalkSpec

\* No guest is forgotten by the order, and none is in it twice.
THEOREM EveryGuestOnce == WalkSpec => []OrderComplete
<1>1. WalkInv /\ AllLeft => OrderComplete
  <2> SUFFICES ASSUME WalkInv, AllLeft, verdict = "ordered"
               PROVE  /\ {order[i] : i \in DOMAIN order} = Guests
                      /\ \A i, j \in DOMAIN order : order[i] = order[j] => i = j
    BY DEF OrderComplete
  <2>1. \A g \in Guests : \E j \in DOMAIN order : order[j] = g
    BY DEF AllLeft, InOrder, WalkInv
  <2>2. \A i \in DOMAIN order : order[i] \in Guests
    BY DEF WalkInv, WalkTypeOK
  <2> QED
    BY <2>1, <2>2 DEF InOrder, WalkInv
<1> QED
  BY <1>1, WalkInvariant, AllLeftInvariant, PTL

-----------------------------------------------------------------------------
(* Cycles are found, and nothing else is taken for one.                    *)

\* From the guest that is reached again up to the top of the stack, each guest
\* needs the next and the last needs the first.
LEMMA FoundIsCycle == ASSUME WalkInv, FindCycle PROVE Cyclic
<1>1. More /\ open # <<>> /\ WalkTypeOK /\ Dep \in Guests /\ color[Dep] = "gray"
  BY DEF FindCycle, More, Known, Closes, WalkInv
<1>2. PICK n \in Nat \ {0} : n = Len(open)
  BY <1>1, TopType
<1>3. DOMAIN open = 1..n /\ open[n] = Top /\ \A i \in 1..n : open[i].guest \in Guests
  <2>1. open \in Seq(Call) /\ DOMAIN open = 1..n
    BY <1>1, <1>2 DEF WalkTypeOK
  <2>2. \A i \in 1..n : open[i] \in Call
    BY <1>2, <2>1
  <2> QED
    BY <1>2, <2>1, <2>2 DEF Top, Call
<1>4. PICK m \in 1..n : open[m].guest = Dep
  BY <1>1, <1>3 DEF OnStack, WalkInv
<1> DEFINE some == {open[i].guest : i \in m..n}
<1>5. some \in SUBSET Guests /\ Dep \in some
  BY <1>3, <1>4
<1>6. ASSUME NEW i \in m..n PROVE DependsOn(open[i].guest) \cap some # {}
  <2>1. CASE i < n
    <3>1. i \in 1..Len(open) - 1 /\ i + 1 \in m..n
      BY <1>2, <2>1
    <3>2. open[i + 1].guest \in DependsOn(open[i].guest)
      BY <3>1 DEF Chain, WalkInv
    <3> QED
      BY <3>1, <3>2
  <2>2. CASE i = n
    <3>1. Dep \in DependsOn(open[i].guest)
      BY <2>2, <1>1, <1>3, DepOfTop
    <3> QED
      BY <3>1, <1>5
  <2> QED
    BY <2>1, <2>2
<1>7. \A g \in some : DependsOn(g) \cap some # {}
  BY <1>6
<1> HIDE DEF some
<1> QED
  BY <1>5, <1>7 DEF Cyclic

\* Of guests that each need another of them, the first in the order would need
\* one that comes before it.
LEMMA OrderedIsAcyclic ==
    ASSUME WalkTypeOK, DependenciesComeFirst, OrderComplete, verdict = "ordered"
    PROVE  ~Cyclic
<1> SUFFICES ASSUME NEW some \in SUBSET Guests, some # {},
                    \A g \in some : DependsOn(g) \cap some # {}
             PROVE  FALSE
  BY DEF Cyclic
<1> DEFINE T == {i \in DOMAIN order : order[i] \in some}
<1>0. PICK l \in Nat : l = Len(order) /\ DOMAIN order = 1..l
  BY DEF WalkTypeOK
<1>1. T \subseteq Nat
  BY <1>0
<1>2. T # {}
  BY DEF OrderComplete
<1>3. PICK x \in T : \A y \in T : x <= y
  BY <1>1, <1>2, Smallest
<1>4. PICK h \in some : h \in DependsOn(order[x])
  BY <1>3
<1>5. PICK j \in 1..x - 1 : order[j] = h
  BY <1>3, <1>4 DEF DependenciesComeFirst
<1>6. j \in DOMAIN order /\ ~(x <= j)
  BY <1>0, <1>3, <1>5
<1> QED
  BY <1>3, <1>4, <1>5, <1>6

CycleFound == verdict = "cycle" => Cyclic

LEMMA CycleFoundStep == ASSUME WalkInv, CycleFound, [WalkNext]_walk PROVE CycleFound'
<1>1. depends' = depends
  BY DEF WalkNext, Visit, Descend, PassBy, FindCycle, Leave, Return, walk
<1>2. Cyclic' <=> Cyclic
  <2>1. \A g : DependsOn(g)' = DependsOn(g)
    BY <1>1 DEF DependsOn
  <2> QED
    BY <2>1 DEF Cyclic
<1>3. CASE FindCycle
  BY <1>2, <1>3, FoundIsCycle DEF CycleFound
<1>4. CASE ~FindCycle
  <2>1. verdict' = "cycle" => verdict = "cycle"
    BY <1>4 DEF WalkNext, Visit, Descend, PassBy, Leave, Return, walk
  <2> QED
    BY <2>1, <1>2 DEF CycleFound
<1> QED
  BY <1>3, <1>4

\* Validation refuses a configuration for a cycle if and only if some guests
\* each depend on another of them; a guest that many depend on is none.
THEOREM CyclesFoundExactly == WalkSpec => []CycleExact
<1>1. WalkInit => CycleFound
  BY DEF WalkInit, CycleFound
<1>2. WalkSpec => []CycleFound
  BY <1>1, WalkInvariant, CycleFoundStep, PTL DEF WalkSpec
<1>3. WalkTypeOK /\ DependenciesComeFirst /\ OrderComplete /\ CycleFound => CycleExact
  BY OrderedIsAcyclic DEF CycleExact, CycleFound, WalkTypeOK
<1> QED
  BY <1>2, <1>3, WalkTypeCorrect, DependenciesFirstInOrder, EveryGuestOnce, PTL

-----------------------------------------------------------------------------
(* Validation. *)

\* Validation walks the dependencies of the configuration it is given, and what
\* comes after it leaves the outcome of the walk alone.
THEOREM ValidateWalks == Spec => WalkSpec
<1>1. Init => WalkInit
  <2> SUFFICES ASSUME Init PROVE WalkInit
    OBVIOUS
  <2>1. config \in Configuration /\ depends = config.depends
    BY ConfigurationsAssumption DEF Init, ConfigurationsAssumption
  <2>2. depends \in [Guests -> Seq(Names)]
    BY <2>1 DEF Configuration
  <2> QED
    BY <2>2 DEF Init, WalkInit
<1>2. [Next]_vars => [WalkNext]_walk
  BY DEF Next, WalkGuests, GuestsChecked, CheckCoverage, Start, Tick, vars
<1> QED
  BY <1>1, <1>2, PTL DEF Spec, WalkSpec

\* For every configuration: the order in which guests are started, and stopped
\* backwards, has each guest after all it depends on.
THEOREM OrderOfGuests == Spec => []DependenciesComeFirst
  BY ValidateWalks, DependenciesFirstInOrder, PTL

\* For every configuration: no guest is left out of the order or in it twice.
THEOREM OrderOfAllGuests == Spec => []OrderComplete
  BY ValidateWalks, EveryGuestOnce, PTL

\* For every configuration: it is refused for a cycle exactly if it has one.
THEOREM CyclesRefused == Spec => []CycleExact
  BY ValidateWalks, CyclesFoundExactly, PTL

-----------------------------------------------------------------------------
(* Ticks. *)

LEMMA ConfigConstants ==
    /\ Week \in Nat /\ Week >= 1 /\ LastDay \in Nat /\ LastDay >= 1 /\ FullDay \in Nat /\ FullDay >= 1
    /\ \A d \in 0..LastDay + 1 : Midnights[d] \in Nat
    /\ Midnights[1] \in Nat /\ Midnights[2] \in Nat /\ Midnights[2] <= Midnights[LastDay + 1]
    /\ 1 <= Midnights[1] /\ Midnights[1] < Midnights[2] /\ End \in Nat /\ 1 <= End
<1>1. /\ Week \in Nat /\ Week >= 1 /\ LastDay \in Nat /\ LastDay >= 1 /\ FullDay \in Nat /\ FullDay >= 1
      /\ \A d \in 0..LastDay + 1 : Midnights[d] \in Nat
  BY CalendarAssumption, ConfigurationsAssumption
<1>2. 0 \in 0..LastDay + 1 /\ 1 \in 0..LastDay + 1 /\ 2 \in 0..LastDay + 1 /\ LastDay + 1 \in 0..LastDay + 1
  BY <1>1
<1>3. Midnights[0] < Midnights[1] /\ Midnights[1] < Midnights[2] /\ Midnights[2] <= Midnights[LastDay + 1]
  BY <1>1, <1>2, MidnightsOrder
<1>4. /\ Midnights[0] = 0 /\ Midnights[1] \in Nat /\ Midnights[2] \in Nat
      /\ Midnights[LastDay + 1] \in Nat
  BY <1>1, <1>2, CalendarAssumption
<1> QED
  BY <1>1, <1>3, <1>4 DEF End

\* What a running program has behind it: a first tick that is not on the first day
\* of the calendar, and the comparisons of the schedules.
Checked ==
    Running =>
        /\ Midnights[1] <= lastTick
        /\ ~Gap(config.guest, config.host)
        /\ ~warned => \A r \in config.required : ~Gap({r}, config.host)

Compared == step \in {"warnings", "running"} => ~Gap(config.guest, config.host)

TicksInv ==
    /\ config \in Configuration /\ config.depends = depends
    /\ step \in {"guests", "coverage", "warnings", "running", "refused"}
    /\ warned \in BOOLEAN /\ lastTick \in 0..End /\ now \in lastTick..End
    /\ Compared /\ Checked

LEMMA TicksInit == Init => TicksInv
<1> SUFFICES ASSUME Init PROVE TicksInv
  OBVIOUS
<1>1. config \in Configuration
  BY ConfigurationsAssumption DEF Init
<1>2. step = "guests" /\ warned \in BOOLEAN /\ config.depends = depends
  BY DEF Init
<1>3. lastTick \in 0..End /\ now \in lastTick..End
  BY ConfigConstants DEF Init
<1> QED
  BY <1>1, <1>2, <1>3 DEF TicksInv, Compared, Checked, Running

LEMMA TicksStep ==
    ASSUME TicksInv, [Next]_vars
    PROVE  TicksInv'
<1> USE DEF TicksInv, Running
<1>1. CASE UNCHANGED vars
  BY <1>1 DEF vars, walk, Compared, Checked, Gap
<1>2. CASE WalkGuests
  <2>1. depends' = depends /\ UNCHANGED <<config, step, warned, lastTick, now>>
    BY <1>2 DEF WalkGuests, WalkNext, Visit, Descend, PassBy, FindCycle, Leave, Return
  <2> QED
    BY <2>1 DEF Compared, Checked, Gap
<1>3. CASE GuestsChecked
  BY <1>3 DEF GuestsChecked, walk, Compared, Checked, Gap
<1>4. CASE CheckCoverage
  <2>1. /\ UNCHANGED <<config, warned, lastTick, now, depends>> /\ step' \in {"refused", "warnings"}
        /\ step' = "warnings" => ~Gap(config.guest, config.host)
    BY <1>4 DEF CheckCoverage, walk
  <2> QED
    BY <2>1 DEF Compared, Checked, Gap
<1>5. CASE Start
  <2>1. /\ step = "warnings" /\ step' = "running" /\ UNCHANGED <<config, depends>>
        /\ warned' = (\E r \in config.required : Gap({r}, config.host))
        /\ lastTick' \in Midnights[1]..Midnights[2] - 1 /\ now' = lastTick'
    BY <1>5 DEF Start, walk
  <2>2. ~Gap(config.guest, config.host)
    BY <2>1 DEF Compared
  <2>3. lastTick' \in 0..End /\ now' \in lastTick'..End /\ Midnights[1] <= lastTick'
    BY <2>1, ConfigConstants DEF End
  <2>4. warned' \in BOOLEAN /\ (~warned' => \A r \in config.required : ~Gap({r}, config.host))
    BY <2>1
  <2> QED
    BY <2>1, <2>2, <2>3, <2>4 DEF Compared, Checked, Gap
<1>6. CASE Tick
  <2>1. /\ step = "running" /\ lastTick' = now /\ UNCHANGED <<config, depends, step, warned>>
        /\ now' \in now + 1..End
    BY <1>6 DEF Tick, walk
  <2>2. lastTick' \in 0..End /\ now' \in lastTick'..End /\ lastTick <= lastTick'
    BY <2>1, ConfigConstants
  <2>3. Midnights[1] <= lastTick'
    BY <2>1, <2>2, ConfigConstants DEF Checked
  <2> QED
    BY <2>1, <2>2, <2>3 DEF Compared, Checked, Gap
<1> QED
  BY <1>1, <1>2, <1>3, <1>4, <1>5, <1>6 DEF Next

LEMMA AlwaysTicks == Spec => []TicksInv
  BY TicksInit, TicksStep, PTL DEF Spec

\* For every configuration and calendar: the configuration, the walk and the ticks
\* keep their types.
THEOREM TypesCorrect == Spec => []TypeOK
<1>1. TicksInv /\ WalkTypeOK => TypeOK
  BY DEF TicksInv, TypeOK, Configuration
<1> QED
  BY <1>1, AlwaysTicks, ValidateWalks, WalkTypeCorrect, PTL

LEMMA RunningIs ==
    ASSUME TicksInv, Running
    PROVE  /\ lastTick \in Nat /\ now \in Nat /\ lastTick <= now /\ now < Midnights[LastDay + 1]
           /\ DayOf(now) \in 1..LastDay
           /\ config.host \subseteq Windows /\ config.guest \subseteq Windows /\ config.required \subseteq Windows
<1>1. lastTick \in Nat /\ now \in Nat /\ lastTick <= now /\ now < Midnights[LastDay + 1] /\ Midnights[1] <= now
  <2>1. lastTick \in 0..End /\ now \in lastTick..End /\ Midnights[1] <= lastTick
    BY DEF TicksInv, Checked
  <2>2. Midnights[LastDay + 1] \in Nat /\ End = Midnights[LastDay + 1] - 1
    BY ConfigConstants DEF End
  <2> QED
    BY <2>1, <2>2, ConfigConstants
<1>2. DayOf(now) \in 0..LastDay /\ now < Midnights[DayOf(now) + 1] /\ Midnights[DayOf(now) + 1] \in Nat
  BY <1>1, DayIs
<1>3. DayOf(now) # 0
  <2>1. Midnights[1] < Midnights[DayOf(now) + 1]
    BY <1>1, <1>2, ConfigConstants
  <2> QED
    BY <2>1, ConfigConstants
<1>4. config \in Configuration
  BY DEF TicksInv
<1> QED
  BY <1>1, <1>2, <1>3, <1>4, ConfigConstants DEF Configuration

\* For every schedule and every calendar, with any lengths of the days: a tick is
\* told of exactly the instants since the tick before at which the schedule turned
\* on or off, if its windows end in time.
THEOREM BoundariesReported == Spec => []BoundariesExact
<1>1. ASSUME TicksInv, Running, EndsInTime(config.host)
      PROVE  Crossings(config.host, lastTick, now) =
                {[at |-> t, on |-> IsOn(config.host, t)] :
                    t \in {x \in lastTick + 1..now : IsOn(config.host, x) # IsOn(config.host, x - 1)}}
  <2>1. /\ lastTick \in Nat /\ now \in Nat /\ now < Midnights[LastDay + 1]
        /\ config.host \subseteq Windows
    BY <1>1, RunningIs
  <2> QED
    BY <1>1, <2>1, CrossingsExact
<1>2. TicksInv => BoundariesExact
  BY <1>1 DEF BoundariesExact
<1> QED
  BY <1>2, AlwaysTicks, PTL

-----------------------------------------------------------------------------
(* Clocks on the wall. *)

\* What a window says of a time on day d.
Shows(w, d, time) ==
    \/ Has(w.days, d) /\ w.on <= time /\ (Wraps(w) \/ time < w.off)
    \/ Has(w.days, d - 1) /\ Wraps(w) /\ time < w.off

LEMMA WindowIs ==
    ASSUME NEW w \in Windows
    PROVE  w.on \in 0..FullDay - 1 /\ w.off \in 0..FullDay - 1
  BY DEF Windows, TimesOfDay

\* After an ordinary day a schedule is on as its windows say.
LEMMA OnTheWall ==
    ASSUME NEW s, s \subseteq Windows, NEW t \in Nat, t < Midnights[LastDay + 1],
           DayOf(t) \in 1..LastDay, DayLength(DayOf(t) - 1) = FullDay
    PROVE  IsOn(s, t) <=> \E w \in s : Shows(w, DayOf(t), t - Midnights[DayOf(t)])
<1> DEFINE d == DayOf(t)
<1>1. /\ d \in Calendar /\ d - 1 \in Calendar /\ d - 1 # d /\ (d - 1) + 1 = d
      /\ (d - 1..d) \cap Calendar = {d - 1, d}
  BY ConfigConstants DEF Calendar
<1>2. /\ Midnights[d] \in Nat /\ Midnights[d - 1] \in Nat /\ Midnights[d + 1] \in Nat
      /\ Midnights[d] = Midnights[d - 1] + FullDay
      /\ Midnights[d] <= t /\ t < Midnights[d + 1]
  <2>1. d - 1 \in 0..LastDay + 1 /\ d \in 0..LastDay + 1 /\ d + 1 \in 0..LastDay + 1
    BY ConfigConstants
  <2>2. Midnights[d] - Midnights[d - 1] = FullDay
    BY <1>1 DEF DayLength
  <2> QED
    BY <2>1, <2>2, ConfigConstants, DayIs
<1>3. IsOn(s, t) <=> \E w \in s : \E e \in {d - 1, d} :
                        Has(w.days, e) /\ Instance(w, e).on <= t /\ t < Instance(w, e).off
  BY <1>1, CoveringIs DEF IsOn
<1>4. ASSUME NEW w \in s
      PROVE  /\ Instance(w, d).on <= t /\ t < Instance(w, d).off
                    <=> w.on <= t - Midnights[d] /\ (Wraps(w) \/ t - Midnights[d] < w.off)
             /\ Instance(w, d - 1).on <= t /\ t < Instance(w, d - 1).off
                    <=> Wraps(w) /\ t - Midnights[d] < w.off
  <2>1. w \in Windows /\ w.on \in 0..FullDay - 1 /\ w.off \in 0..FullDay - 1 /\ Wraps(w) \in BOOLEAN
    BY WindowIs DEF Wraps
  <2>2. /\ Instance(w, d).on = Midnights[d] + w.on
        /\ Instance(w, d).off = IF Wraps(w) THEN Midnights[d + 1] + w.off ELSE Midnights[d] + w.off
        /\ Instance(w, d - 1).on = Midnights[d - 1] + w.on
        /\ Instance(w, d - 1).off = IF Wraps(w) THEN Midnights[d] + w.off ELSE Midnights[d - 1] + w.off
    BY <1>1, <2>1, InstanceIs
  <2> HIDE DEF d
  <2> QED
    BY <1>2, <2>1, <2>2, ConfigConstants
<1> HIDE DEF d
<1>5. IsOn(s, t) <=> \E w \in s : Shows(w, d, t - Midnights[d])
  BY <1>3, <1>4 DEF Shows
<1> QED
  BY <1>5 DEF d

\* For every schedule and calendar: unless the clocks change today or changed
\* yesterday, a schedule is on when its windows, read off a clock on the wall, say so.
THEOREM ReadOffTheWall == Spec => []AsOnTheWall
<1>1. ASSUME TicksInv, Running, OrdinaryDay
      PROVE  IsOn(config.host, now) <=> \E w \in config.host : Shows(w, DayOf(now), now - Midnights[DayOf(now)])
  BY <1>1, RunningIs, OnTheWall DEF OrdinaryDay
<1>2. TicksInv => AsOnTheWall
  BY <1>1 DEF AsOnTheWall, Shows, IsOn
<1> QED
  BY <1>2, AlwaysTicks, PTL

-----------------------------------------------------------------------------
(* The reference week. *)

LEMMA Multiples ==
    ASSUME NEW a \in Nat, NEW b \in Nat, a < b
    PROVE  a * FullDay + FullDay <= b * FullDay
<1>1. FullDay \in Nat /\ b - a - 1 \in Nat
  BY ConfigConstants
<1>2. (b - a - 1) * FullDay \in Nat
  BY <1>1
<1>3. (b - a - 1) * FullDay = b * FullDay - a * FullDay - FullDay
  BY <1>1
<1>4. a * FullDay \in Nat /\ b * FullDay \in Nat
  BY <1>1
<1> QED
  BY <1>1, <1>2, <1>3, <1>4

LEMMA Division ==
    ASSUME NEW n \in Nat, NEW W \in Nat \ {0}
    PROVE  n % W \in 0..W - 1 /\ n \div W \in Nat /\ n = W * (n \div W) + (n % W)
  OBVIOUS

LEMMA Remainder ==
    ASSUME NEW W \in Nat \ {0}, NEW q \in Nat, NEW r \in 0..W - 1
    PROVE  (W * q + r) % W = r
  OBVIOUS

\* The day of the reference week that is the same weekday as d.
Like(d) == Week + (d % Week)

LEMMA SameWeekday ==
    ASSUME NEW d \in 1..LastDay
    PROVE  /\ Like(d) \in 1..LastDay /\ Week <= Like(d) /\ Like(d) + 1 <= 2 * Week
           /\ Like(d) % Week = d % Week /\ (Like(d) - 1) % Week = (d - 1) % Week
<1> DEFINE r == d % Week
           q == d \div Week
           e == Like(d)
<1>1. /\ d \in Nat /\ d >= 1 /\ Week \in Nat \ {0} /\ LastDay \in Nat /\ 2 * Week <= LastDay + 1
  BY ConfigConstants, ConfigurationsAssumption
<1>2. r \in 0..Week - 1 /\ q \in Nat /\ d = Week * q + r
  BY <1>1, Division
<1>3. e = Week + r
  BY DEF Like
<1> HIDE DEF r, q, e
<1>4. e \in 1..LastDay /\ Week <= e /\ e + 1 <= 2 * Week
  BY <1>1, <1>2, <1>3
<1>5. e % Week = r
  <2>1. e = Week * 1 + r
    BY <1>1, <1>2, <1>3
  <2> QED
    BY <1>1, <1>2, <2>1, Remainder
<1>6. (e - 1) % Week = (d - 1) % Week
  <2>1. CASE r >= 1
    <3>1. r - 1 \in 0..Week - 1 /\ e - 1 = Week * 1 + (r - 1)
      BY <1>1, <1>2, <1>3, <2>1
    <3>2. d - 1 = Week * q + (r - 1)
      <4>1. Week * q \in Nat
        BY <1>1, <1>2
      <4> QED
        BY <1>1, <1>2, <4>1
    <3>3. (e - 1) % Week = r - 1
      BY <1>1, <3>1, Remainder
    <3>4. (d - 1) % Week = r - 1
      BY <1>1, <1>2, <3>1, <3>2, Remainder
    <3> QED
      BY <3>3, <3>4
  <2>2. CASE r = 0
    <3>1. Week - 1 \in 0..Week - 1 /\ e - 1 = Week * 0 + (Week - 1)
      BY <1>1, <1>3, <2>2
    <3>2. q - 1 \in Nat
      <4>1. q # 0
        BY <1>1, <1>2, <2>2
      <4> QED
        BY <1>2, <4>1
    <3>3. d - 1 = Week * (q - 1) + (Week - 1)
      <4>1. Week * (q - 1) = Week * q - Week
        BY <1>1, <1>2
      <4>2. Week * q \in Nat
        BY <1>1, <1>2
      <4> QED
        BY <1>1, <1>2, <2>2, <4>1, <4>2
    <3>4. (e - 1) % Week = Week - 1
      BY <1>1, <3>1, Remainder
    <3>5. (d - 1) % Week = Week - 1
      BY <1>1, <3>1, <3>2, <3>3, Remainder
    <3> QED
      BY <3>4, <3>5
  <2> QED
    BY <1>2, <2>1, <2>2
<1> QED
  BY <1>4, <1>5, <1>6 DEF e, r

\* On the calendar of ordinary days every instant is so long after a midnight.
LEMMA OrdinaryDayOf ==
    ASSUME NEW e \in Calendar, NEW time \in 0..FullDay - 1
    PROVE  Ordinary!DayOf(e * FullDay + time) = e
<1> DEFINE M == [x \in 0..LastDay + 1 |-> x * FullDay]
           t == e * FullDay + time
<1>1. e \in Nat /\ e + 1 \in 0..LastDay + 1 /\ e \in 0..LastDay + 1 /\ FullDay \in Nat /\ time \in Nat /\ time < FullDay
  BY ConfigConstants DEF Calendar
<1>2. e * FullDay \in Nat /\ (e + 1) * FullDay = e * FullDay + FullDay
  BY <1>1
<1>3. M[e] <= t /\ t < M[e + 1]
  BY <1>1, <1>2
<1>4. ASSUME NEW x \in Calendar, M[x] <= t, t < M[x + 1]
      PROVE  x = e
  <2>1. x \in Nat /\ x + 1 \in Nat /\ x + 1 \in 0..LastDay + 1 /\ x \in 0..LastDay + 1
    BY ConfigConstants DEF Calendar
  <2>2. x * FullDay \in Nat /\ (x + 1) * FullDay \in Nat
    BY <1>1, <2>1
  <2>3. x * FullDay <= t /\ t < (x + 1) * FullDay
    BY <1>4, <2>1
  <2>4. ~(e < x)
    <3>1. e < x => e * FullDay + FullDay <= x * FullDay
      BY <1>1, <2>1, Multiples
    <3> QED
      BY <1>1, <1>2, <2>1, <2>2, <2>3, <3>1
  <2>5. ~(x + 1 <= e)
    <3>1. x + 1 < e => (x + 1) * FullDay + FullDay <= e * FullDay
      BY <1>1, <2>1, Multiples
    <3>2. x + 1 = e => (x + 1) * FullDay = e * FullDay
      OBVIOUS
    <3> QED
      BY <1>1, <1>2, <2>1, <2>2, <2>3, <3>1, <3>2
  <2> QED
    BY <1>1, <2>1, <2>4, <2>5
<1>5. Ordinary!DayOf(t) = CHOOSE x \in Calendar : M[x] <= t /\ t < M[x + 1]
  BY DEF Ordinary!DayOf, Ordinary!Calendar, Calendar
<1> HIDE DEF M, t
<1>6. Ordinary!DayOf(t) = e
  BY <1>3, <1>4, <1>5
<1> QED
  BY <1>6 DEF t

\* What a schedule says at a time of the reference week.
LEMMA OrdinaryOn ==
    ASSUME NEW s, s \subseteq Windows, NEW e \in 1..LastDay, NEW time \in 0..FullDay - 1
    PROVE  Ordinary!IsOn(s, e * FullDay + time) <=> \E w \in s : Shows(w, e, time)
<1> DEFINE t == e * FullDay + time
           D == (e - 1..e) \cap Calendar
<1>1. /\ e \in Calendar /\ D = {e - 1, e} /\ e \in Nat /\ e - 1 \in Nat
      /\ e - 1 \in 0..LastDay + 1 /\ e \in 0..LastDay + 1 /\ e + 1 \in 0..LastDay + 1
      /\ FullDay \in Nat /\ time \in 0..FullDay - 1 /\ (e - 1) + 1 = e
  BY ConfigConstants DEF Calendar
<1>2. /\ e * FullDay \in Nat /\ (e - 1) * FullDay = e * FullDay - FullDay
      /\ (e + 1) * FullDay = e * FullDay + FullDay
  BY <1>1
<1>3. Ordinary!DayOf(t) = e
  BY <1>1, OrdinaryDayOf
<1>4. Ordinary!InstancesCovering(s, t, t) =
          {Ordinary!Instance(x[1], x[2]) : x \in {y \in s \X D : Has(y[1].days, y[2])}}
  BY <1>3 DEF Ordinary!InstancesCovering, Ordinary!Has, Has, Ordinary!Calendar, Calendar
<1> HIDE DEF t, D
<1>5. Ordinary!IsOn(s, t) <=> \E w \in s : \E x \in D :
          Has(w.days, x) /\ Ordinary!Instance(w, x).on <= t /\ t < Ordinary!Instance(w, x).off
  <2>1. ASSUME NEW w \in s, NEW x \in D, Has(w.days, x)
        PROVE  Ordinary!Instance(w, x) \in Ordinary!InstancesCovering(s, t, t)
    <3> DEFINE y == <<w, x>>
    <3>1. y \in s \X D /\ y[1] = w /\ y[2] = x
      OBVIOUS
    <3> HIDE DEF y
    <3> QED
      BY <1>4, <2>1, <3>1
  <2>2. ASSUME NEW i \in Ordinary!InstancesCovering(s, t, t)
        PROVE  \E w \in s : \E x \in D : Has(w.days, x) /\ i = Ordinary!Instance(w, x)
    BY <1>4
  <2> QED
    BY <2>1, <2>2 DEF Ordinary!IsOn
<1>6. ASSUME NEW w \in s
      PROVE  /\ Ordinary!Instance(w, e).on <= t /\ t < Ordinary!Instance(w, e).off
                    <=> w.on <= time /\ (Wraps(w) \/ time < w.off)
             /\ Ordinary!Instance(w, e - 1).on <= t /\ t < Ordinary!Instance(w, e - 1).off
                    <=> Wraps(w) /\ time < w.off
  <2>1. w \in Windows /\ w.on \in 0..FullDay - 1 /\ w.off \in 0..FullDay - 1 /\ Wraps(w) \in BOOLEAN
    BY WindowIs DEF Wraps
  <2>2. /\ Ordinary!Instance(w, e).on = e * FullDay + w.on
        /\ Ordinary!Instance(w, e).off = IF Wraps(w) THEN (e + 1) * FullDay + w.off ELSE e * FullDay + w.off
        /\ Ordinary!Instance(w, e - 1).on = (e - 1) * FullDay + w.on
        /\ Ordinary!Instance(w, e - 1).off = IF Wraps(w) THEN e * FullDay + w.off ELSE (e - 1) * FullDay + w.off
    BY <1>1 DEF Ordinary!Instance, Ordinary!Wraps, Wraps
  <2>3. t = e * FullDay + time
    BY DEF t
  <2> DEFINE P == e * FullDay
  <2>4. P \in Nat /\ (e - 1) * FullDay = P - FullDay /\ (e + 1) * FullDay = P + FullDay
    BY <1>2
  <2> QED
    BY <1>1, <2>1, <2>2, <2>3, <2>4
<1>7. \A w \in s : (\E x \in D : Has(w.days, x) /\ Ordinary!Instance(w, x).on <= t /\ t < Ordinary!Instance(w, x).off)
                      <=> Shows(w, e, time)
  BY <1>1, <1>6 DEF Shows
<1> QED
  BY <1>5, <1>7 DEF t

\* Without a gap in the reference week there is none on ordinary days.
LEMMA GapIsSeen ==
    ASSUME NEW inner, NEW outer, inner \subseteq Windows, outer \subseteq Windows, ~Gap(inner, outer),
           NEW d \in 1..LastDay, NEW time \in 0..FullDay - 1, NEW w \in inner, Shows(w, d, time)
    PROVE  \E v \in outer : Shows(v, d, time)
<1> DEFINE e == Like(d)
           t == e * FullDay + time
<1>1. /\ e \in 1..LastDay /\ Week <= e /\ e + 1 <= 2 * Week
      /\ e % Week = d % Week /\ (e - 1) % Week = (d - 1) % Week
  BY SameWeekday
<1> HIDE DEF e
<1>2. \A v : Shows(v, e, time) <=> Shows(v, d, time)
  BY <1>1 DEF Shows, Has
<1>3. t \in ReferenceWeek
  <2>1. /\ Week \in Nat /\ e \in Nat /\ 2 * Week \in Nat /\ FullDay \in Nat
        /\ time \in Nat /\ time <= FullDay - 1
    BY <1>1, ConfigConstants
  <2>2. e * FullDay \in Nat /\ Week * FullDay \in Nat /\ 2 * Week * FullDay \in Nat
    BY <2>1
  <2>3. Week * FullDay <= e * FullDay
    <3>1. Week < e => Week * FullDay + FullDay <= e * FullDay
      BY <2>1, Multiples
    <3> QED
      BY <1>1, <2>1, <2>2, <3>1
  <2>4. e * FullDay + FullDay <= 2 * Week * FullDay
    <3>1. e < 2 * Week
      BY <1>1, <2>1
    <3> QED
      BY <2>1, <3>1, Multiples
  <2> QED
    BY <2>1, <2>2, <2>3, <2>4 DEF ReferenceWeek
<1>4. Ordinary!IsOn(inner, t) => Ordinary!IsOn(outer, t)
  BY <1>3 DEF Gap
<1>5. Ordinary!IsOn(inner, t)
  BY <1>1, <1>2, OrdinaryOn
<1>6. \E v \in outer : Shows(v, e, time)
  BY <1>1, <1>4, <1>5, OrdinaryOn
<1> QED
  BY <1>2, <1>6

\* For every configuration and calendar, and any number of days in a week: once the
\* configuration is accepted, no tick wants a guest on while the host's schedule
\* has the host off, nor, without a warning, is the host off in a window in which it
\* is required, but for the days around a change of the clocks.
THEOREM WindowsCovered == Spec => []WindowsInsideHost
<1>1. ASSUME TicksInv, Running, OrdinaryDay
      PROVE  /\ IsOn(config.guest, now) => IsOn(config.host, now)
             /\ ~warned /\ IsOn(config.required, now) => IsOn(config.host, now)
  <2> DEFINE d == DayOf(now)
             time == now - Midnights[d]
  <2>1. /\ now \in Nat /\ now < Midnights[LastDay + 1] /\ d \in 1..LastDay
        /\ config.host \subseteq Windows /\ config.guest \subseteq Windows /\ config.required \subseteq Windows
    BY <1>1, RunningIs
  <2>2. DayLength(d - 1) = FullDay /\ DayLength(d) = FullDay
    BY <1>1 DEF OrdinaryDay
  <2>3. time \in 0..FullDay - 1
    <3>1. Midnights[d] <= now /\ now < Midnights[d + 1] /\ Midnights[d] \in Nat /\ Midnights[d + 1] \in Nat
      BY <2>1, DayIs
    <3>2. Midnights[d + 1] - Midnights[d] = FullDay
      BY <2>2 DEF DayLength
    <3> HIDE DEF d
    <3> QED
      BY <2>1, <3>1, <3>2, ConfigConstants
  <2>4. \A s \in SUBSET Windows : IsOn(s, now) <=> \E w \in s : Shows(w, d, time)
    BY <2>1, <2>2, OnTheWall
  <2> HIDE DEF d, time
  <2>5. ASSUME NEW inner \in SUBSET Windows, ~Gap(inner, config.host), NEW w \in inner, Shows(w, d, time)
        PROVE  IsOn(config.host, now)
    BY <2>1, <2>3, <2>4, <2>5, GapIsSeen
  <2>6. IsOn(config.guest, now) => IsOn(config.host, now)
    <3>1. ~Gap(config.guest, config.host)
      BY <1>1 DEF TicksInv, Checked
    <3> QED
      BY <2>1, <2>4, <2>5, <3>1
  <2>7. ~warned /\ IsOn(config.required, now) => IsOn(config.host, now)
    <3> SUFFICES ASSUME ~warned, IsOn(config.required, now) PROVE IsOn(config.host, now)
      OBVIOUS
    <3>1. PICK r \in config.required : Shows(r, d, time)
      BY <2>1, <2>4
    <3>2. ~Gap({r}, config.host)
      BY <1>1 DEF TicksInv, Checked
    <3>3. {r} \in SUBSET Windows /\ r \in {r}
      BY <2>1
    <3> QED
      BY <2>5, <3>1, <3>2, <3>3
  <2> QED
    BY <2>6, <2>7
<1>2. TicksInv => WindowsInsideHost
  BY <1>1 DEF WindowsInsideHost
<1> QED
  BY <1>2, AlwaysTicks, PTL
===============================================================================
