----------------------------- MODULE Timestamps -----------------------------
(***************************************************************************)
(* Every time in the database is text in Go's RFC3339Nano layout, and SQL  *)
(* compares it as text.  The layout drops every trailing zero of the       *)
(* fraction, and '.' sorts below the digits and those below 'Z', so a      *)
(* text sorts after every longer text that begins with its digits: "12Z"   *)
(* after "12.3Z", "12.3Z" after "12.31Z".  A tick is one unit of the       *)
(* clock's resolution; TicksPerSecond = 10^9 is Go's clock, 1 one whose    *)
(* texts sort as the instants do.                                          *)
(***************************************************************************)
EXTENDS Integers

CONSTANT TicksPerSecond

\* What one unit of the digits a text may end with is worth in ticks.
Units == {1, 10, 100, 1000, 10000, 100000, 1000000, 10000000, 100000000, 1000000000}

ASSUME TicksPerSecondAssumption == TicksPerSecond \in Units

\* The text of a has the digits of b's text and more.
Extends(a, b) ==
    \E u \in Units : u <= TicksPerSecond /\ b % u = 0 /\ b < a /\ a < b + u

\* a < b as SQLite evaluates it on two stored times.
Before(a, b) == Extends(a, b) \/ (a < b /\ ~Extends(b, a))
=============================================================================
