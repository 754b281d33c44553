------------------------------- MODULE Paging -------------------------------
(***************************************************************************)
(* PagePolicy of recovery/paging.rs: which pages of a listing are accepted *)
(* as the window that was requested.                                       *)
(***************************************************************************)
EXTENDS Integers

Policy == [maximum : Nat, allow_zero : BOOLEAN]

\* Slip: what lies before the page is not taken off.
WholeTotal(total, start) == total

\* saturating_sub
Left(total, start) == IF start <= total THEN total - start ELSE 0

Smaller(a, b) == IF a <= b THEN a ELSE b

\* The entries that a page of the window holds.
Window(start, requested, total) == Smaller(requested, Left(total, start))

\* validate_count
CountValid(policy, count) == count <= policy.maximum /\ (count # 0 \/ policy.allow_zero)

\* validate_window: "returned" is what the page claims to hold, "actual" what it holds.
WindowValid(policy, start, requested, returned, total, actual) ==
    /\ CountValid(policy, requested)
    /\ returned = actual
    /\ returned = Window(start, requested, total)

-----------------------------------------------------------------------------
(* Properties.                                                             *)

\* The entries a page stands for when the listing goes on from "start".
Positions(start, actual) == start..start + actual - 1

\* An accepted page holds exactly the listing's entries of the window, at and past
\* the end of the listing too.  A caller that goes on where the page ends skips no
\* entry and sees none twice, is never sent past the end, gets on with every page
\* that is not empty by request, and may take a short page for the last one.
PageExact(policy, start, requested, returned, total, actual) ==
    WindowValid(policy, start, requested, returned, total, actual) =>
        /\ actual <= policy.maximum
        /\ Positions(start, actual) = {p \in Positions(start, requested) : p < total}
        /\ start <= total => start + actual <= total
        /\ actual = 0 => (requested = 0 /\ policy.allow_zero) \/ start >= total
        /\ actual < requested => start + actual >= total
=============================================================================
