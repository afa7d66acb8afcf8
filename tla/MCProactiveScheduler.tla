------------------------ MODULE MCProactiveScheduler ------------------------
(* Instances of ProactiveScheduler for TLC. *)
EXTENDS ProactiveScheduler, TLC

CONSTANTS r1, r2, t1, t2

TwoTasks == {t1, t2}
TwoRequests == {r1, r2}
TwoMinutes == {1, 2}

Symmetry == Permutations(Requests)
=============================================================================
