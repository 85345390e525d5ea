------------------------------ MODULE MCProc64 ------------------------------
(* Proc64 for TLC.                                                         *)
EXTENDS Proc64, TLC

AllCalls == {"clone", "fork", "vfork", "exec", "exit", "exit_group", "wait4",
             "kill"}

\* Pids are not reused: what a process that has ended leaves pending, and the
\* space it had, is never read again.
Alive == {p \in Pids : procs[p].used /\ ~procs[p].exited}
View == <<tasks, [p \in Pids |-> IF p \in Alive THEN procs[p]
                                 ELSE [procs[p] EXCEPT !.space = NoSpace]],
          next_pid, live, pend \cap Alive, call>>

SpaceSymmetry == Permutations(Spaces)
=============================================================================
