----------------------------- MODULE RateLimiter -----------------------------
(***************************************************************************)
(* The rate limiter of sign-ins and step-ups (internal/auth/ratelimit.go): *)
(* per key a token bucket and a lockout that doubles with every failure in *)
(* a row.  An entry is dropped by a success.                               *)
(*                                                                         *)
(* The bucket (golang.org/x/time/rate) is counted in units of time: it     *)
(* holds up to Burst * Refill, an attempt takes Refill of it.              *)
(***************************************************************************)
EXTENDS Integers

CONSTANTS
    Refill,       \* time in which a token is added
    Burst,        \* tokens in a full bucket
    LockoutBase,  \* lockout after the first failure
    LockoutMax,   \* the longest lockout
    MaxShift      \* how often it is doubled at most, 20 in the code

ASSUME LimiterAssumption ==
    /\ {Refill, Burst, LockoutBase, LockoutMax} \subseteq Nat \ {0} /\ MaxShift \in Nat
    /\ LockoutMax <= LockoutBase * 2 ^ MaxShift

Full == Burst * Refill

\* An entry: the bucket's contents when it was last taken from.
Entry == [credit : 0..Full, taken : Nat, failures : Nat, lockedTil : Nat]

\* What stands for a key that the limiter has no entry for.
NoEntry == <<>>

\* The entry that is there or a new one, whose bucket is full.
Found(e, now) ==
    IF e = NoEntry THEN [credit |-> Full, taken |-> now, failures |-> 0, lockedTil |-> 0] ELSE e

Least(a, b) == IF a <= b THEN a ELSE b
Most(a, b) == IF a <= b THEN b ELSE a

Credit(e, now) == Least(Full, e.credit + Most(0, now - e.taken))

\* RateLimiter.Allow: whether the attempt may go on, and the entry after it.
LockedOut(e, now) == now < e.lockedTil
Allowed(e, now) == LET f == Found(e, now) IN ~LockedOut(f, now) /\ Credit(f, now) >= Refill
AfterAllow(e, now) ==
    LET f == Found(e, now)
    IN  IF Allowed(e, now) \* the bucket's instant may go back
        THEN [f EXCEPT !.credit = Credit(f, now) - Refill, !.taken = now]
        ELSE f

\* The lockout after so many failures in a row.
Lockout(failures) == Least(LockoutMax, LockoutBase * 2 ^ Least(failures - 1, MaxShift))

Mutant_FreshBucket(e, now) ==
    LET f == Found(e, now)
    IN  [f EXCEPT !.credit = Full, !.failures = @ + 1, !.lockedTil = now + Lockout(f.failures + 1)]
Mutant_LockedOnce(e, now) ==
    LET f == Found(e, now)
    IN  [f EXCEPT !.failures = @ + 1, !.lockedTil = IF @ = 0 THEN now + LockoutBase ELSE @]

\* RateLimiter.Failure, for an attempt made at `now`.
AfterFailure(e, now) ==
    LET f == Found(e, now)
    IN  [f EXCEPT !.failures = @ + 1, !.lockedTil = now + Lockout(f.failures + 1)]

\* RateLimiter.Success
AfterSuccess(e) == NoEntry

==============================================================================
