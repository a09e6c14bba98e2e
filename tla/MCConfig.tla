------------------------------- MODULE MCConfig -------------------------------
(***************************************************************************)
(* Configurations and calendars for TLC: the clocks go forward on the      *)
(* third day and back on the fourth.                                       *)
(***************************************************************************)
EXTENDS Config

\* Four units in a day; two of them are skipped on one day and repeated on another.
Days == [d \in 0..6 |-> IF d < 3 THEN 4 * d ELSE IF d = 3 THEN 10 ELSE 4 * d]

DaySpecs == {{0}, {1}, {0, 1}}
Some == {w \in Windows : w.days \in {{0}, {0, 1}}}
Daily == {w \in Windows : w.days = {0, 1}}
Noon == [days |-> {0, 1}, on |-> 1, off |-> 3]

NoDependencies == [g \in Guests |-> <<>>]

\* No name twice, up to two of them, among the guests and one that is none.
Lists == {<<>>} \cup {<<a>> : a \in Names} \cup {<<p[1], p[2]>> : p \in {q \in Names \X Names : q[1] # q[2]}}

SomeSpecs == {x \in Windows : x.days \in DaySpecs}

\* Every schedule of one or two windows; every guest's window, or required one, in
\* a host's schedule; every list of dependencies.
Few ==
    {[host |-> {v, w}, guest |-> {}, required |-> {}, depends |-> NoDependencies] : v, w \in Some}
    \cup
    {[host |-> {v, Noon}, guest |-> {g}, required |-> {}, depends |-> NoDependencies] :
        v \in Some, g \in SomeSpecs}
    \cup
    {[host |-> {v}, guest |-> {}, required |-> {r}, depends |-> NoDependencies] :
        v \in {w \in Daily : w.on = 1}, r \in SomeSpecs}
    \cup
    {[host |-> {Noon}, guest |-> {Noon}, required |-> {}, depends |-> d] : d \in [Guests -> Lists]}

Scheduled(c) == c.depends = NoDependencies
===============================================================================
