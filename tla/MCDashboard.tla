----------------------------- MODULE MCDashboard -----------------------------
(* A small instance of Dashboard: every day of 1970 to 2262-04-11, and      *)
(* traffic around a leap day and at the end of 64-bit time.                 *)
EXTENDS Dashboard

Years == 1970 .. 2262
Busy == {19782, 19783, 19784, 106750, 106751}

On(y, m, d) == [y |-> y, m |-> m, d |-> d]
Asked == {
    On(2024, 2, 29), On(2024, 2, 30), On(2024, 3, 1), On(2262, 4, 11),
    On(2262, 4, 12),    \* the first day that does not fit
    On(2608, 9, 19),    \* wraps to 2024-02-29
    On(2024, 13, 1)}
=============================================================================
