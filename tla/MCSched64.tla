----------------------------- MODULE MCSched64 ------------------------------
(***************************************************************************)
(* Sched64 for TLC.  The table keeps what a slot's last wait and last      *)
(* occupant left in it; no operation reads such a field before writing it. *)
(* The view identifies the states that differ only there.                  *)
(***************************************************************************)
EXTENDS Sched64

Meaning(i) ==
  LET t == tasks[i]
      awake == [t EXCEPT !.wait_bits = {}, !.deadline = 0,
                         !.signal_restart = FALSE, !.wake_rax = "user",
                         !.timeout_rax = "user"]
  IN  IF ~t.used THEN EmptyTask
      ELSE IF t.blocked THEN t
      ELSE IF i = current /\ ~idling
      THEN [awake EXCEPT !.fs = Ctx0, !.gs = Ctx0, !.fpu = Ctx0,
                         !.rax = "user", !.rewound = 0]
      ELSE awake

View == <<[i \in Slots |-> Meaning(i)],
          [i \in Slots |-> IF tasks[i].used THEN want[i] ELSE Context0],
          task_total, current, idling, masked, cpu>>

\* The search goes on from states with three tasks whose registers are all
\* the same, and from states with two tasks whose registers can be told apart
\* and whose waits are simple.
Alike == /\ \A i \in Slots : tasks[i].used => want[i] = Context0
         /\ cpu.fs = Ctx0 /\ cpu.gs = Ctx0 /\ cpu.fpu = Ctx0 /\ cpu.space = Ctx0

Simple(i) == /\ tasks[i].deadline <= 1
             /\ tasks[i].wait_addr = CondKey \/ tasks[i].wait_bits = {1}

Narrow == Alike \/ (~tasks[2].used /\ \A i \in Slots : tasks[i].blocked => Simple(i))
=============================================================================
