----------------------------- MODULE Dependencies -----------------------------
(***************************************************************************)
(* The depth-first walk over the guests' depends_on lists, by which the    *)
(* configuration is checked for cycles (config.go, findDependencyCycle)    *)
(* and the engine orders its guests (engine/guests.go, TopologicalOrder).  *)
(* The two are the same walk: one returns the order in which the guests    *)
(* are left, the other the path that is open when a cycle is found.  What  *)
(* the calls of visit keep on the call stack is the variable `open`.  A    *)
(* definition named Mutant_... is a mistake the code could contain, with   *)
(* the definition it would replace after it.                               *)
(***************************************************************************)
EXTENDS Integers, Sequences, FiniteSets

CONSTANTS
    Guests,  \* the guests of the configuration, numbered as their names sort
    Names    \* what a depends_on list may mention

ASSUME GuestNamesAssumption == Guests \subseteq Names /\ Names \subseteq Nat

VARIABLES
    depends,  \* each guest's depends_on
    color,    \* white, gray or black
    open,     \* the calls of visit in progress, the innermost one last
    order,    \* the guests that have been left
    verdict   \* what has come of the walk

walk == <<depends, color, open, order, verdict>>

Colors == {"white", "gray", "black"}

\* A call of visit: its guest and the position of the next entry of its list.
Call == [guest : Guests, next : Nat \ {0}]

Top == open[Len(open)]
Entries == depends[Top.guest]
More == open # <<>> /\ Top.next <= Len(Entries)
Dep == Entries[Top.next]

\* The top call has looked at the entry.
Passed == [open EXCEPT ![Len(open)].next = @ + 1]

Known(dep) == dep \in Guests

Mutant_Untouched == {g \in Guests : color[g] = "white" /\ \E h \in Guests : g < h}
Untouched == {g \in Guests : color[g] = "white"}

\* The loop over all names: the first that is still white.
Visit(g) ==
    /\ verdict = "walking" /\ open = <<>>
    /\ g \in Untouched /\ \A h \in Untouched : g <= h
    /\ color' = [color EXCEPT ![g] = "gray"]
    /\ open' = <<[guest |-> g, next |-> 1]>>
    /\ UNCHANGED <<depends, order, verdict>>

Mutant_Closes(dep) == color[dep] # "white"

\* A guest whose visit is in progress is reached again.
Closes(dep) == color[dep] = "gray"

\* A name that is no guest has no color, and is not visited.
Descend ==
    /\ verdict = "walking" /\ More
    /\ Known(Dep) /\ color[Dep] = "white"
    /\ color' = [color EXCEPT ![Dep] = "gray"]
    /\ open' = Append(Passed, [guest |-> Dep, next |-> 1])
    /\ UNCHANGED <<depends, order, verdict>>

PassBy ==
    /\ verdict = "walking" /\ More
    /\ Known(Dep) => color[Dep] # "white" /\ ~Closes(Dep)
    /\ open' = Passed
    /\ UNCHANGED <<depends, color, order, verdict>>

FindCycle ==
    /\ verdict = "walking" /\ More
    /\ Known(Dep) /\ Closes(Dep)
    /\ verdict' = "cycle"
    /\ UNCHANGED <<depends, color, open, order>>

Mutant_Left(g) == <<g>> \o order
Left(g) == Append(order, g)

Leave ==
    /\ verdict = "walking" /\ open # <<>> /\ ~More
    /\ color' = [color EXCEPT ![Top.guest] = "black"]
    /\ order' = Left(Top.guest)
    /\ open' = SubSeq(open, 1, Len(open) - 1)
    /\ UNCHANGED <<depends, verdict>>

Return ==
    /\ verdict = "walking" /\ open = <<>> /\ Untouched = {}
    /\ verdict' = "ordered"
    /\ UNCHANGED <<depends, color, open, order>>

WalkInit ==
    /\ depends \in [Guests -> Seq(Names)]
    /\ color = [g \in Guests |-> "white"]
    /\ open = <<>> /\ order = <<>> /\ verdict = "walking"

WalkNext ==
    \/ \E g \in Guests : Visit(g)
    \/ Descend \/ PassBy \/ FindCycle \/ Leave \/ Return

WalkSpec == WalkInit /\ [][WalkNext]_walk

-----------------------------------------------------------------------------
(* Properties *)

\* The types of the walk's variables.
WalkTypeOK ==
    /\ depends \in [Guests -> Seq(Names)]
    /\ color \in [Guests -> Colors]
    /\ open \in Seq(Call) /\ order \in Seq(Guests)
    /\ verdict \in {"walking", "ordered", "cycle"}

\* What g depends on, of the guests that there are.
DependsOn(g) == {depends[g][i] : i \in DOMAIN depends[g]} \cap Guests

\* Whatever the lists say, in whatever order and with whatever repetitions and
\* unknown names, each guest comes after everything it depends on: the engine
\* starts guests in this order and stops them in the opposite one.
DependenciesComeFirst ==
    \A i \in DOMAIN order : DependsOn(order[i]) \subseteq {order[j] : j \in 1..i - 1}

\* The order holds every guest exactly once.
OrderComplete ==
    verdict = "ordered" =>
        /\ {order[i] : i \in DOMAIN order} = Guests
        /\ \A i, j \in DOMAIN order : order[i] = order[j] => i = j

\* Some guests each need another of them.
Cyclic ==
    \E some \in SUBSET Guests : some # {} /\ \A g \in some : DependsOn(g) \cap some # {}

\* A cycle is found if and only if there is one: a diamond is none.
CycleExact == verdict # "walking" => (verdict = "cycle" <=> Cyclic)
===============================================================================
