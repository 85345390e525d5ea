------------------------------ MODULE MCVm64 -------------------------------
(* Instances of Vm64 for TLC.                                              *)
EXTENDS Vm64

\* Copy-on-write with every limit close by, and a file with room to spare.
ShareSetups ==
  {[frames |-> 4, refs |-> 1, reserve |-> 2, ranges |-> 1, vals |-> {0, 1},
    modes |-> {"fixed", "noreplace", "place"},
    calls |-> {"store", "load", "vm_write", "mmap", "fork", "exit"}],
   [frames |-> 5, refs |-> 8, reserve |-> 1, ranges |-> 2, vals |-> {1},
    modes |-> {"fixed"},
    calls |-> {"store", "mmap_file", "munmap", "mprotect", "fork", "exit", "file"}]}

\* One process that maps, unmaps, protects and grows.
MapSetups ==
  {[frames |-> 6, refs |-> 8, reserve |-> 1, ranges |-> 2, vals |-> {1},
    modes |-> {"fixed", "noreplace", "place"},
    calls |-> {"store", "mmap", "munmap", "mprotect", "madvise", "brk"}]}

\* Two that only grow.
BrkSetups ==
  {[frames |-> 4, refs |-> 8, reserve |-> 1, ranges |-> 2, vals |-> {1},
    modes |-> {"place"}, calls |-> {"store", "brk", "fork"}]}

\* Which frame it is makes no difference to any step, only who else has it:
\* states are told apart by the first page table entry that names a frame,
\* and frames no entry names by what is known of them.
First(f) == {x \in Pids \X Pages :
               /\ pt[x[1]][x[2]].frame = f
               /\ \A y \in Pids \X Pages : pt[y[1]][y[2]].frame = f =>
                    x[1] < y[1] \/ (x[1] = y[1] /\ x[2] <= y[2])}

Shape ==
  <<setup,
    [p \in Pids |-> [a \in Pages |->
       [e |-> [pt[p][a] EXCEPT !.frame = 0], as |-> First(pt[p][a].frame)]]],
    {<<First(f), own[f], data[f], f = zero, f = file.frame, f = objf>> :
       f \in {g \in Frames : own[g] > 0}},
    Cardinality(Free(Kernel)), resv, next, brk, live, file.linked, file.val>>

\* vm_map goes on from states with at most one frame in use beside the zero
\* page.
FewFrames == NFrames - Cardinality(Free(Kernel)) <= IF zero = NoFrame THEN 1 ELSE 2
=============================================================================
