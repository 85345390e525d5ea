---------------------------- MODULE Proc64Proofs ----------------------------
(***************************************************************************)
(* Proofs about Proc64 for every size of the task and process tables,      *)
(* every number of processes ever made and every amount of memory.         *)
(*                                                                         *)
(* The functions of proc64.c are operators on the kernel's state as one    *)
(* record, so the invariant is a predicate on such records: a function     *)
(* that keeps it may be used wherever the code calls it.                   *)
(***************************************************************************)
EXTENDS Proc64, SchedTableProofs, TLAPS

-----------------------------------------------------------------------------
(* Types.                                                                  *)

WaitKeys == {NoKey} \cup {WaitKey(p) : p \in Pids} \cup {VforkKey(p) : p \in Pids}

ProcTask == [used : BOOLEAN, blocked : BOOLEAN, pid : Pids \cup {AnyPid},
             space : Spaces \cup {NoSpace}, wait_addr : WaitKeys,
             wait_bits : {{1}}, deadline : {0}, signal_restart : {FALSE},
             wake_rax : RaxValues, rax : RaxValues, rewound : {0}]

ProcRecord == [used : BOOLEAN, parent : Pids \cup {NoPid}, exited : BOOLEAN,
               vfork_parent : Pids \cup {NoPid}, space : Spaces \cup {NoSpace}]

State == [tasks : [Slots -> ProcTask], procs : [Pids -> ProcRecord],
          next_pid : Nat \ {0}, live : SUBSET Spaces, pend : SUBSET Pids,
          call : [Slots -> Requests \cup {NoCall}]]

-----------------------------------------------------------------------------
(* The inductive invariant, on a state record.                             *)

\* Live threads belong to live processes and stand in spaces that exist.
Held(s) ==
  \A i \in Slots : s.tasks[i].used =>
    /\ s.tasks[i].pid \in Pids /\ s.tasks[i].space \in s.live
    /\ s.procs[s.tasks[i].pid].used /\ ~s.procs[s.tasks[i].pid].exited

\* Those of different processes in different ones.
Apart(s) ==
  \A i, j \in Slots :
    s.tasks[i].used /\ s.tasks[j].used /\ s.tasks[i].space = s.tasks[j].space
      => s.tasks[i].pid = s.tasks[j].pid

\* A pid that will be handed out has no record.
Fresh(s) == \A p \in Pids : s.procs[p].used => p < s.next_pid

\* The children of pid that a wait4 for `want' asks for.
Kids(s, pid, want) == {p \in Children(s, pid) : want \in {p, NoPid}}

Sleeps(s, i, op) == s.tasks[i].used /\ s.tasks[i].blocked /\ s.call[i].op = op

\* A thread asleep in wait4 waits on its own process's key, with no signal
\* pending, for children none of which has ended.
Waiting(s) ==
  \A i \in Slots : Sleeps(s, i, "wait4") =>
    /\ s.tasks[i].wait_addr = WaitKey(s.tasks[i].pid)
    /\ s.tasks[i].pid \notin s.pend
    /\ Kids(s, s.tasks[i].pid, s.call[i].want) # {}
    /\ \A p \in Kids(s, s.tasks[i].pid, s.call[i].want) : ~s.procs[p].exited

\* A thread asleep in vfork waits for a child that has yet to exec or end.
Vforking(s) ==
  \A i \in Slots : Sleeps(s, i, "vfork") =>
    \E p \in Pids : /\ s.tasks[i].wait_addr = VforkKey(p)
                    /\ s.procs[p].used /\ ~s.procs[p].exited
                    /\ s.procs[p].vfork_parent = s.tasks[i].pid

Good(s) == /\ s \in State
           /\ Held(s) /\ Apart(s) /\ Fresh(s) /\ Waiting(s) /\ Vforking(s)

\* The numbers the constants stand for.
LEMMA PidFacts ==
  /\ Pids \subseteq Nat \ {0} /\ NoPid \notin Pids /\ AnyPid \notin Pids
  /\ Leader \in Pids /\ NoSpace \notin Spaces
BY ProcAssumption DEF Pids, NoPid, AnyPid, Leader

\* A record of the right type is what Commit makes of it.
LEMMA Commits ==
  ASSUME NEW s, Commit(s), Good(s)
  PROVE  Good(Kernel)'
<1>1. s = [tasks |-> s.tasks, procs |-> s.procs, next_pid |-> s.next_pid,
           live |-> s.live, pend |-> s.pend, call |-> s.call]
  BY DEF Good, State
<1>2. Kernel' = s
  BY <1>1 DEF Kernel, Commit
<1> QED
  BY <1>2, SMTT(30) DEF Good, Held, Apart, Fresh, Waiting, Vforking, Sleeps, Kids, Children

-----------------------------------------------------------------------------
(* Wakes.                                                                  *)

\* What a wake may do to a task.
Stirred(u, t) == /\ u \in ProcTask
                 /\ u.used = t.used /\ u.pid = t.pid /\ u.space = t.space
                 /\ u = t \/ ~u.blocked

LEMMA TaskWoken ==
  ASSUME NEW t \in ProcTask
  PROVE  /\ Stirred(Release(t), t) /\ ~Release(t).blocked
         /\ Stirred(ReleaseCond(t), t)
         /\ WokenBySignal(t) = Release(t)
<1>1. NoKey \in WaitKeys
  BY DEF WaitKeys
<1>2. Stirred(Release(t), t) /\ ~Release(t).blocked
  BY <1>1, Zenon DEF Release, Stirred, ProcTask
<1>3. Stirred(ReleaseCond(t), t)
  <2>1. CASE t.used /\ t.blocked /\ t.wait_addr = CondKey
    BY <1>1, <2>1, Zenon DEF ReleaseCond, Release, Stirred, ProcTask
  <2>2. CASE ~(t.used /\ t.blocked /\ t.wait_addr = CondKey)
    BY <2>2 DEF ReleaseCond, Stirred
  <2> QED
    BY <2>1, <2>2
<1>4. WokenBySignal(t) = Release(t)
  BY Zenon DEF WokenBySignal, ProcTask
<1> QED
  BY <1>2, <1>3, <1>4

\* A wake of a key reaches every thread that waits on it, and no wake does
\* more to anybody than end a wait.
LEMMA WakesReach ==
  ASSUME NEW ts \in [Slots -> ProcTask], NEW key
  PROVE  LET us == WakeFutex(ts, key, MaxTasks, {1}, AnyPid) IN
         /\ us \in [Slots -> ProcTask]
         /\ \A i \in Slots : /\ Stirred(us[i], ts[i])
                             /\ us[i].used /\ us[i].blocked => us[i].wait_addr # key
<1> DEFINE us == WakeFutex(ts, key, MaxTasks, {1}, AnyPid)
           w  == Waiters(ts, key, {1}, AnyPid)
<1>1. us = [i \in Slots |-> ReleaseCond(IF i \in w THEN Release(ts[i]) ELSE ts[i])]
  BY WokenAll, Zenon DEF WakeFutex
<1>2. ASSUME NEW i \in Slots
      PROVE  /\ us[i] \in ProcTask /\ Stirred(us[i], ts[i])
             /\ us[i].used /\ us[i].blocked => us[i].wait_addr # key
  <2> DEFINE v == IF i \in w THEN Release(ts[i]) ELSE ts[i]
  <2>1. us[i] = ReleaseCond(v)
    BY <1>1, Zenon
  <2>2. v \in ProcTask /\ Stirred(v, ts[i])
    BY TaskWoken, Zenon DEF Stirred
  <2>3. v.used /\ v.blocked => v.wait_addr # key
    <3>1. CASE i \in w
      BY <3>1, TaskWoken, Zenon
    <3>2. CASE i \notin w
      <4>1. ts[i].wait_bits \cap {1} # {}
        BY Zenon DEF ProcTask
      <4> QED
        BY <3>2, <4>1 DEF Waiters
    <3> QED
      BY <3>1, <3>2
  <2> HIDE DEF v, us
  <2>4. Stirred(us[i], v)
    BY <2>1, <2>2, TaskWoken
  <2> QED
    BY <2>2, <2>3, <2>4, Zenon DEF Stirred
<1>3. us \in [Slots -> ProcTask]
  <2>1. us = [i \in Slots |-> us[i]]
    BY <1>1
  <2> QED
    BY <1>2, <2>1
<1> QED
  BY <1>2, <1>3, Zenon

\* Two states of which the second has ended some waits of the first.
Calmed(t, s) ==
  /\ t \in State
  /\ t.procs = s.procs /\ t.next_pid = s.next_pid /\ t.live = s.live
  /\ t.call = s.call
  /\ \A i \in Slots : Stirred(t.tasks[i], s.tasks[i])

\* Ending a wait disturbs nothing, with whatever is no longer pending.
LEMMA CalmedGood ==
  ASSUME NEW s, Good(s), NEW t, Calmed(t, s), t.pend \subseteq s.pend
  PROVE  Good(t)
<1>1. \A i \in Slots : /\ t.tasks[i].used = s.tasks[i].used
                       /\ t.tasks[i].pid = s.tasks[i].pid
                       /\ t.tasks[i].space = s.tasks[i].space
                       /\ t.tasks[i].blocked => t.tasks[i] = s.tasks[i]
  BY Zenon DEF Calmed, Stirred
<1>2. Held(t) /\ Apart(t) /\ Fresh(t)
  BY <1>1, SMTT(30) DEF Good, Held, Apart, Fresh, Calmed
<1>3. \A pid, want : Kids(t, pid, want) = Kids(s, pid, want)
  BY DEF Kids, Children, Calmed
<1>4. \A i \in Slots : \A op : Sleeps(t, i, op) => Sleeps(s, i, op) /\ t.tasks[i] = s.tasks[i]
  BY <1>1, Zenon DEF Sleeps, Calmed
<1>5. Waiting(t)
  BY <1>3, <1>4 DEF Good, Waiting, Calmed
<1>6. Vforking(t)
  BY <1>4 DEF Good, Vforking, Calmed
<1> QED
  BY <1>2, <1>5, <1>6, Zenon DEF Good, Calmed

LEMMA WakeAllIs ==
  ASSUME NEW s \in State, NEW key
  PROVE  /\ Calmed(WakeAll(s, key), s) /\ WakeAll(s, key).pend = s.pend
         /\ \A i \in Slots : WakeAll(s, key).tasks[i].used /\ WakeAll(s, key).tasks[i].blocked
                               => WakeAll(s, key).tasks[i].wait_addr # key
<1> DEFINE us == WakeFutex(s.tasks, key, MaxTasks, {1}, AnyPid)
<1>1. /\ us \in [Slots -> ProcTask]
      /\ \A i \in Slots : /\ Stirred(us[i], s.tasks[i])
                          /\ us[i].used /\ us[i].blocked => us[i].wait_addr # key
  BY WakesReach DEF State
<1>2. WakeAll(s, key) = [s EXCEPT !.tasks = us]
  BY DEF WakeAll
<1> HIDE DEF us
<1>3. /\ WakeAll(s, key) \in State /\ WakeAll(s, key).tasks = us
      /\ WakeAll(s, key).procs = s.procs /\ WakeAll(s, key).next_pid = s.next_pid
      /\ WakeAll(s, key).live = s.live /\ WakeAll(s, key).call = s.call
      /\ WakeAll(s, key).pend = s.pend
  BY <1>1, <1>2, Zenon DEF State
<1> QED
  BY <1>1, <1>3, Zenon DEF Calmed

-----------------------------------------------------------------------------
(* The end of a process.                                                   *)

\* VforkRelease ends the wait of the vfork parent, if there is one.
LEMMA Released ==
  ASSUME NEW s \in State, NEW pid \in Pids
  PROVE  LET r == VforkRelease(s, pid) IN
         /\ r \in State /\ r.next_pid = s.next_pid /\ r.live = s.live
         /\ r.call = s.call /\ r.pend = s.pend
         /\ \A i \in Slots : /\ Stirred(r.tasks[i], s.tasks[i])
                             /\ r.tasks[i].used /\ r.tasks[i].blocked
                                  => \/ r.tasks[i].wait_addr # VforkKey(pid)
                                     \/ s.procs[pid].vfork_parent = NoPid
         /\ r.procs = [s.procs EXCEPT ![pid] = [@ EXCEPT !.vfork_parent = NoPid]]
<1>1. CASE s.procs[pid].vfork_parent = NoPid
  <2>1. s.procs[pid] = [s.procs[pid] EXCEPT !.vfork_parent = NoPid]
    BY <1>1 DEF State, ProcRecord
  <2>2. s.procs = [s.procs EXCEPT ![pid] = [@ EXCEPT !.vfork_parent = NoPid]]
    BY <2>1 DEF State
  <2>3. \A i \in Slots : Stirred(s.tasks[i], s.tasks[i])
    BY Zenon DEF Stirred, State
  <2> QED
    BY <1>1, <2>2, <2>3, Zenon DEF VforkRelease
<1>2. CASE s.procs[pid].vfork_parent # NoPid
  <2> DEFINE u == [s EXCEPT !.procs[pid].vfork_parent = NoPid]
  <2>1. /\ u.tasks = s.tasks /\ u.next_pid = s.next_pid /\ u.live = s.live
        /\ u.call = s.call /\ u.pend = s.pend
        /\ u.procs = [s.procs EXCEPT ![pid] = [@ EXCEPT !.vfork_parent = NoPid]]
    BY DEF State
  <2>2. [s.procs[pid] EXCEPT !.vfork_parent = NoPid] \in ProcRecord
    BY DEF State, ProcRecord
  <2>3. [s.procs EXCEPT ![pid] = [@ EXCEPT !.vfork_parent = NoPid]] \in [Pids -> ProcRecord]
    BY <2>2 DEF State
  <2>4. u \in State
    BY <2>3, Zenon DEF State
  <2>5. VforkRelease(s, pid) = WakeAll(u, VforkKey(pid))
    BY <1>2, Zenon DEF VforkRelease
  <2> HIDE DEF u
  <2> QED
    BY <2>1, <2>4, <2>5, WakeAllIs DEF Calmed
<1> QED
  BY <1>1, <1>2, Zenon

\* What ProcessEnds does: the process's record says it has exited, and who
\* waited for that, or for its vfork, is awake.
Ended(w, s, pid) ==
  /\ w \in State /\ w.next_pid = s.next_pid /\ w.live = s.live
  /\ w.call = s.call /\ w.pend = s.pend
  /\ \A p \in Pids \ {pid} : w.procs[p] = s.procs[p]
  /\ w.procs[pid].used = s.procs[pid].used /\ w.procs[pid].parent = s.procs[pid].parent
  /\ \A i \in Slots :
       /\ Stirred(w.tasks[i], s.tasks[i])
       /\ w.tasks[i].used /\ w.tasks[i].blocked =>
            /\ \/ w.tasks[i].wait_addr # VforkKey(pid)
               \/ s.procs[pid].vfork_parent = NoPid
            /\ \/ w.tasks[i].wait_addr # WaitKey(s.procs[pid].parent)
               \/ s.procs[pid].parent = NoPid

LEMMA ProcessEndsIs ==
  ASSUME NEW s \in State, NEW pid \in Pids
  PROVE  Ended(ProcessEnds(s, pid), s, pid)
<1> DEFINE r == VforkRelease(s, pid)
           e == [r EXCEPT !.procs[pid].exited = TRUE]
<1>1. /\ r \in State /\ r.next_pid = s.next_pid /\ r.live = s.live
      /\ r.call = s.call /\ r.pend = s.pend
      /\ \A i \in Slots : /\ Stirred(r.tasks[i], s.tasks[i])
                          /\ r.tasks[i].used /\ r.tasks[i].blocked
                               => \/ r.tasks[i].wait_addr # VforkKey(pid)
                                  \/ s.procs[pid].vfork_parent = NoPid
      /\ r.procs = [s.procs EXCEPT ![pid] = [@ EXCEPT !.vfork_parent = NoPid]]
  BY Released, Zenon
<1>2. /\ \A p \in Pids \ {pid} : r.procs[p] = s.procs[p]
      /\ r.procs[pid].used = s.procs[pid].used /\ r.procs[pid].parent = s.procs[pid].parent
  BY <1>1 DEF State, ProcRecord
<1>3. ProcessEnds(s, pid) = WakeParent(e, pid)
  BY DEF ProcessEnds
<1> HIDE DEF r
<1>4. /\ e.tasks = r.tasks /\ e.next_pid = r.next_pid /\ e.live = r.live
      /\ e.call = r.call /\ e.pend = r.pend
      /\ e.procs = [r.procs EXCEPT ![pid] = [@ EXCEPT !.exited = TRUE]]
  BY <1>1 DEF State
<1>5. [r.procs[pid] EXCEPT !.exited = TRUE] \in ProcRecord
  <2>1. r.procs[pid] \in ProcRecord
    BY <1>1, Zenon DEF State
  <2> QED
    BY <2>1, Zenon DEF ProcRecord
<1>6. /\ \A p \in Pids \ {pid} : e.procs[p] = s.procs[p]
      /\ e.procs[pid].used = s.procs[pid].used /\ e.procs[pid].parent = s.procs[pid].parent
  BY <1>1, <1>2, <1>4 DEF State, ProcRecord
<1>7. e \in State
  <2>1. [r.procs EXCEPT ![pid] = [@ EXCEPT !.exited = TRUE]] \in [Pids -> ProcRecord]
    BY <1>1, <1>5 DEF State
  <2> QED
    BY <1>1, <2>1, Zenon DEF State
<1> HIDE DEF e
<1>8. CASE e.procs[pid].parent = NoPid
  <2>1. ProcessEnds(s, pid) = e
    BY <1>3, <1>8 DEF WakeParent
  <2>2. s.procs[pid].parent = NoPid
    BY <1>6, <1>8, Zenon
  <2> QED
    BY <1>1, <1>4, <1>6, <1>7, <2>1, <2>2, ZenonT(30) DEF Ended
<1>9. CASE e.procs[pid].parent # NoPid
  <2> DEFINE w == WakeAll(e, WaitKey(s.procs[pid].parent))
  <2>1. ProcessEnds(s, pid) = w
    BY <1>3, <1>6, <1>9, Zenon DEF WakeParent
  <2>2. /\ Calmed(w, e) /\ w.pend = e.pend
        /\ \A i \in Slots : w.tasks[i].used /\ w.tasks[i].blocked
             => w.tasks[i].wait_addr # WaitKey(s.procs[pid].parent)
    BY <1>7, WakeAllIs, Zenon
  <2> HIDE DEF w
  <2>3. ASSUME NEW i \in Slots
        PROVE  /\ Stirred(w.tasks[i], s.tasks[i])
               /\ w.tasks[i].used /\ w.tasks[i].blocked =>
                    \/ w.tasks[i].wait_addr # VforkKey(pid)
                    \/ s.procs[pid].vfork_parent = NoPid
    BY <1>1, <1>4, <2>2 DEF Calmed, Stirred
  <2> QED
    BY <1>1, <1>4, <1>6, <2>1, <2>2, <2>3, ZenonT(30) DEF Ended, Calmed
<1> QED
  BY <1>8, <1>9, Zenon

\* Threads that leave take their calls with them.
LEMMA RemovedIs ==
  ASSUME NEW s \in State, NEW gone
  PROVE  LET t == Removed(s, gone) IN
         /\ t \in State /\ t.procs = s.procs /\ t.next_pid = s.next_pid
         /\ t.live = s.live /\ t.pend = s.pend
         /\ \A i \in Slots :
              IF i \in gone THEN ~t.tasks[i].used
              ELSE t.tasks[i] = s.tasks[i] /\ t.call[i] = s.call[i]
<1> DEFINE ts == [i \in Slots |-> IF i \in gone THEN NoThread ELSE s.tasks[i]]
           cs == [i \in Slots |-> IF i \in gone THEN NoCall ELSE s.call[i]]
<1>1. Removed(s, gone) = [s EXCEPT !.tasks = ts, !.call = cs]
  BY DEF Removed
<1>2. NoThread \in ProcTask /\ ~NoThread.used
  BY Zenon DEF NoThread, Thread, ProcTask, WaitKeys, RaxValues
<1>3. ts \in [Slots -> ProcTask] /\ cs \in [Slots -> Requests \cup {NoCall}]
  BY <1>2 DEF State
<1>4. \A i \in Slots : IF i \in gone THEN ~ts[i].used
                       ELSE ts[i] = s.tasks[i] /\ cs[i] = s.call[i]
  BY <1>2, Zenon
<1> HIDE DEF ts, cs
<1> QED
  BY <1>1, <1>3, <1>4, Zenon DEF State

\* A process that ends with all its threads leaves nobody asleep for it.
LEMMA EndGood ==
  ASSUME NEW s, Good(s), NEW pid \in Pids, NEW gone,
         \A i \in Slots : s.tasks[i].used /\ s.tasks[i].pid = pid => i \in gone
  PROVE  Good(Removed(ProcessEnds(s, pid), gone))
<1> DEFINE w == ProcessEnds(s, pid)
           t == Removed(w, gone)
<1>1. s \in State /\ Held(s) /\ Apart(s) /\ Fresh(s) /\ Waiting(s) /\ Vforking(s)
  BY DEF Good
<1>2. Ended(w, s, pid)
  BY <1>1, ProcessEndsIs, Zenon
<1>3. /\ t \in State /\ t.procs = w.procs /\ t.next_pid = w.next_pid
      /\ t.live = w.live /\ t.pend = w.pend
      /\ \A i \in Slots :
           IF i \in gone THEN ~t.tasks[i].used
           ELSE t.tasks[i] = w.tasks[i] /\ t.call[i] = w.call[i]
  BY <1>2, RemovedIs, Zenon DEF Ended
<1> HIDE DEF w, t
<1>4. ASSUME NEW i \in Slots, t.tasks[i].used
      PROVE  /\ i \notin gone /\ s.tasks[i].used /\ t.tasks[i].pid = s.tasks[i].pid
             /\ t.tasks[i].space = s.tasks[i].space /\ s.tasks[i].pid # pid
             /\ t.tasks[i] = w.tasks[i] /\ t.call[i] = s.call[i]
             /\ t.tasks[i].blocked => t.tasks[i] = s.tasks[i]
  BY <1>2, <1>3, <1>4 DEF Ended, Stirred
<1>5. Held(t)
  BY <1>1, <1>2, <1>3, <1>4, SMTT(30) DEF Held, Ended
<1>6. Apart(t)
  BY <1>1, <1>4 DEF Apart
<1>7. Fresh(t)
  BY <1>1, <1>2, <1>3 DEF Fresh, Ended
<1>8. \A q, want : Kids(t, q, want) = Kids(s, q, want)
  BY <1>2, <1>3 DEF Kids, Children, Ended
<1>9. Waiting(t)
  <2>1. ASSUME NEW i \in Slots, Sleeps(t, i, "wait4")
        PROVE  /\ t.tasks[i].wait_addr = WaitKey(t.tasks[i].pid)
               /\ t.tasks[i].pid \notin t.pend
               /\ Kids(t, t.tasks[i].pid, t.call[i].want) # {}
               /\ \A p \in Kids(t, t.tasks[i].pid, t.call[i].want) : ~t.procs[p].exited
    <3>1. /\ Sleeps(s, i, "wait4") /\ t.tasks[i] = s.tasks[i] /\ t.call[i] = s.call[i]
          /\ t.tasks[i] = w.tasks[i] /\ t.tasks[i].used /\ t.tasks[i].blocked
      BY <1>4, <2>1, Zenon DEF Sleeps
    <3>2. /\ s.tasks[i].wait_addr = WaitKey(s.tasks[i].pid)
          /\ s.tasks[i].pid \notin s.pend
          /\ Kids(s, s.tasks[i].pid, s.call[i].want) # {}
          /\ \A p \in Kids(s, s.tasks[i].pid, s.call[i].want) : ~s.procs[p].exited
      BY <1>1, <3>1, Zenon DEF Waiting
    <3>3. s.tasks[i].pid \in Pids
      BY <1>1, <3>1, Zenon DEF Held
    <3>4. ASSUME NEW p \in Kids(s, s.tasks[i].pid, s.call[i].want) PROVE ~t.procs[p].exited
      <4>1. p \in Pids /\ s.procs[p].parent = s.tasks[i].pid
        BY Zenon DEF Kids, Children
      <4>2. p # pid
        BY <1>2, <3>1, <3>2, <3>3, <4>1, PidFacts DEF Ended
      <4> QED
        BY <1>2, <1>3, <3>2, <4>1, <4>2 DEF Ended
    <3> QED
      BY <1>2, <1>3, <1>8, <3>1, <3>2, <3>4, SMTT(30) DEF Ended
  <2> QED
    BY <2>1, Zenon DEF Waiting
<1>10. Vforking(t)
  <2>1. ASSUME NEW i \in Slots, Sleeps(t, i, "vfork")
        PROVE  \E p \in Pids : /\ t.tasks[i].wait_addr = VforkKey(p)
                               /\ t.procs[p].used /\ ~t.procs[p].exited
                               /\ t.procs[p].vfork_parent = t.tasks[i].pid
    <3>1. /\ Sleeps(s, i, "vfork") /\ t.tasks[i] = s.tasks[i]
          /\ t.tasks[i] = w.tasks[i] /\ t.tasks[i].used /\ t.tasks[i].blocked
      BY <1>4, <2>1, Zenon DEF Sleeps
    <3>2. PICK p \in Pids : /\ s.tasks[i].wait_addr = VforkKey(p)
                            /\ s.procs[p].used /\ ~s.procs[p].exited
                            /\ s.procs[p].vfork_parent = s.tasks[i].pid
      BY <1>1, <3>1, Zenon DEF Vforking
    <3>3. p # pid
      BY <1>1, <1>2, <3>1, <3>2, PidFacts, ZenonT(30) DEF Ended, Held
    <3> QED
      BY <1>2, <1>3, <3>1, <3>2, <3>3 DEF Ended
  <2> QED
    BY <2>1, Zenon DEF Vforking
<1> QED
  BY <1>3, <1>5, <1>6, <1>7, <1>9, <1>10, Zenon DEF Good, t, w

\* An address space nobody stands in may go.
LEMMA DestroyGood ==
  ASSUME NEW s, Good(s), NEW space
  PROVE  Good(DestroyUnused(s, space))
<1>1. CASE SpaceInUse(s, space)
  BY <1>1 DEF DestroyUnused
<1>2. CASE ~SpaceInUse(s, space)
  <2> DEFINE t == [s EXCEPT !.live = @ \ {space}]
  <2>1. /\ t \in State /\ t.tasks = s.tasks /\ t.procs = s.procs
        /\ t.next_pid = s.next_pid /\ t.pend = s.pend /\ t.call = s.call
        /\ t.live = s.live \ {space}
    BY DEF Good, State
  <2>2. DestroyUnused(s, space) = t
    BY <1>2 DEF DestroyUnused
  <2>3. \A i \in Slots : s.tasks[i].used => s.tasks[i].space # space
    BY <1>2, Zenon DEF SpaceInUse, Live
  <2> HIDE DEF t
  <2>4. Held(t)
    BY <2>1, <2>3, Zenon DEF Good, Held
  <2>5. Apart(t) /\ Fresh(t) /\ Waiting(t) /\ Vforking(t)
    BY <2>1, SMTT(30) DEF Good, Apart, Fresh, Waiting, Vforking, Sleeps, Kids, Children
  <2> QED
    BY <2>1, <2>2, <2>4, <2>5 DEF Good
<1> QED
  BY <1>1, <1>2

\* exit_group and a fatal signal.
LEMMA EndProcessGood ==
  ASSUME NEW s, Good(s), NEW i \in Slots, s.tasks[i].used, s.tasks[i].pid = Pid(i)
  PROVE  Good(EndProcess(s, i))
<1> DEFINE gone == PidTasks(s.tasks, Pid(i))
<1>1. Pid(i) \in Pids
  BY Zenon DEF Good, Held
<1>2. \A j \in Slots : s.tasks[j].used /\ s.tasks[j].pid = Pid(i) => j \in gone
  BY Zenon DEF PidTasks, Live
<1> HIDE DEF gone
<1>3. Good(Removed(ProcessEnds(s, Pid(i)), gone))
  BY <1>1, <1>2, EndGood, Zenon
<1> QED
  BY <1>3, DestroyGood, Zenon DEF EndProcess, gone

\* The return from a call, with the signal it may take.
LEMMA ReturnGood ==
  ASSUME NEW s, Good(s), NEW i \in Slots, s.tasks[i].used, ~s.tasks[i].blocked,
         s.tasks[i].pid = Pid(i), Return(i, s)
  PROVE  Good(Kernel)'
<1> DEFINE t == [s EXCEPT !.call[i] = NoCall, !.pend = @ \ {Pid(i)}]
<1>1. /\ t \in State /\ t.tasks = s.tasks /\ t.procs = s.procs
      /\ t.next_pid = s.next_pid /\ t.live = s.live
      /\ t.pend = s.pend \ {Pid(i)}
      /\ \A j \in Slots \ {i} : t.call[j] = s.call[j]
  BY Zenon DEF Good, State
<1>2. Commit(t) \/ Commit(EndProcess(t, i))
  BY Zenon DEF Return
<1> HIDE DEF t
<1>3. Good(t)
  <2>1. Held(t) /\ Apart(t) /\ Fresh(t)
    <3>1. Held(t)
      BY <1>1 DEF Good, Held
    <3>2. Apart(t)
      BY <1>1 DEF Good, Apart
    <3>3. Fresh(t)
      BY <1>1 DEF Good, Fresh
    <3> QED
      BY <3>1, <3>2, <3>3, Zenon
  <2>2. \A j \in Slots : \A op : Sleeps(t, j, op) => Sleeps(s, j, op) /\ t.call[j] = s.call[j]
    BY <1>1, Zenon DEF Sleeps
  <2>3. Waiting(t)
    BY <1>1, <2>2 DEF Good, Waiting, Kids, Children
  <2>4. Vforking(t)
    BY <1>1, <2>2 DEF Good, Vforking
  <2> QED
    BY <1>1, <2>1, <2>3, <2>4, Zenon DEF Good
<1>4. Good(EndProcess(t, i))
  BY <1>1, <1>3, EndProcessGood, Zenon
<1> QED
  BY <1>2, <1>3, <1>4, Commits, Zenon

\* Threads may leave at any time.
LEMMA RemovedGood ==
  ASSUME NEW s, Good(s), NEW gone
  PROVE  Good(Removed(s, gone))
<1> DEFINE t == Removed(s, gone)
<1>1. /\ t \in State /\ t.procs = s.procs /\ t.next_pid = s.next_pid
      /\ t.live = s.live /\ t.pend = s.pend
      /\ \A i \in Slots :
           IF i \in gone THEN ~t.tasks[i].used
           ELSE t.tasks[i] = s.tasks[i] /\ t.call[i] = s.call[i]
  BY RemovedIs DEF Good
<1> HIDE DEF t
<1>2. Held(t) /\ Apart(t) /\ Fresh(t)
  <2>1. Held(t)
    BY <1>1 DEF Good, Held
  <2>2. Apart(t)
    BY <1>1 DEF Good, Apart
  <2>3. Fresh(t)
    BY <1>1 DEF Good, Fresh
  <2> QED
    BY <2>1, <2>2, <2>3, Zenon
<1>3. \A j \in Slots : \A op : Sleeps(t, j, op) => /\ Sleeps(s, j, op)
                                                   /\ t.call[j] = s.call[j]
                                                   /\ t.tasks[j] = s.tasks[j]
  BY <1>1, Zenon DEF Sleeps
<1>4. Waiting(t)
  BY <1>1, <1>3, SMTT(30) DEF Good, Waiting, Kids, Children
<1>5. Vforking(t)
  BY <1>1, <1>3 DEF Good, Vforking
<1> QED
  BY <1>1, <1>2, <1>4, <1>5, Zenon DEF Good, t

-----------------------------------------------------------------------------
(* The beginning of threads and processes.                                 *)

\* A thread joins a process in a space no other process has.
LEMMA ThreadGood ==
  ASSUME NEW s, Good(s), NEW slot \in Slots, NEW pid \in Pids, NEW space \in s.live,
         s.procs[pid].used, ~s.procs[pid].exited,
         \A j \in Slots : s.tasks[j].used /\ s.tasks[j].space = space
                            => s.tasks[j].pid = pid
  PROVE  LET t == [s EXCEPT !.tasks[slot] = Thread(pid, space)] IN
         /\ Good(t) /\ t.procs = s.procs /\ t.call = s.call /\ t.live = s.live
         /\ \A j \in Slots \ {slot} : t.tasks[j] = s.tasks[j]
<1> DEFINE t == [s EXCEPT !.tasks[slot] = Thread(pid, space)]
<1>1. /\ Thread(pid, space) \in ProcTask /\ Thread(pid, space).pid = pid
      /\ Thread(pid, space).space = space /\ ~Thread(pid, space).blocked
  <2>1. space \in Spaces
    BY Zenon DEF Good, State
  <2> QED
    BY <2>1, Zenon DEF Thread, ProcTask, WaitKeys, RaxValues
<1>2. /\ t \in State /\ t.procs = s.procs /\ t.next_pid = s.next_pid
      /\ t.live = s.live /\ t.pend = s.pend /\ t.call = s.call
      /\ t.tasks[slot] = Thread(pid, space)
      /\ \A j \in Slots \ {slot} : t.tasks[j] = s.tasks[j]
  <2>1. [s.tasks EXCEPT ![slot] = Thread(pid, space)] \in [Slots -> ProcTask]
    BY <1>1 DEF Good, State
  <2>2. t = [s EXCEPT !.tasks = [s.tasks EXCEPT ![slot] = Thread(pid, space)]]
    BY Zenon DEF Good, State
  <2> QED
    BY <2>1, <2>2, Zenon DEF Good, State
<1> HIDE DEF t
<1>3. Held(t)
  BY <1>1, <1>2, SMTT(30) DEF Good, Held
<1>4. Apart(t)
  BY <1>1, <1>2 DEF Good, Apart
<1>5. Fresh(t)
  BY <1>2, Zenon DEF Good, Fresh
<1>6. \A j \in Slots : \A op : Sleeps(t, j, op) => Sleeps(s, j, op) /\ t.tasks[j] = s.tasks[j]
  BY <1>1, <1>2, Zenon DEF Sleeps
<1>7. Waiting(t)
  BY <1>2, <1>6, SMTT(30) DEF Good, Waiting, Kids, Children
<1>8. Vforking(t)
  BY <1>2, <1>6, SMTT(30) DEF Good, Vforking
<1> QED
  BY <1>2, <1>3, <1>4, <1>5, <1>7, <1>8, Zenon DEF Good, t

\* A new record takes a pid nobody had, and a space nobody stands in.
LEMMA ProcessGood ==
  ASSUME NEW s, Good(s), NEW i \in Slots, Pid(i) \in Pids, s.next_pid \in Pids,
         NEW space \in Spaces \ s.live
  PROVE  LET t == NewProcess(s, i, s.next_pid, space) IN
         /\ Good(t) /\ t.tasks = s.tasks /\ t.call = s.call
         /\ t.live = s.live \cup {space}
         /\ t.procs[s.next_pid].used /\ ~t.procs[s.next_pid].exited
         /\ t.procs[s.next_pid].vfork_parent = NoPid
<1> DEFINE t == NewProcess(s, i, s.next_pid, space)
           new == [NoProc EXCEPT !.used = TRUE, !.parent = Pid(i), !.space = space]
<1>1. /\ new \in ProcRecord /\ new.used /\ ~new.exited /\ new.parent = Pid(i)
      /\ new.vfork_parent = NoPid
  BY Zenon DEF NoProc, ProcRecord
<1>2. t = [s EXCEPT !.procs[s.next_pid] = new, !.next_pid = @ + 1,
                    !.live = @ \cup {space}]
  BY Zenon DEF NewProcess
<1> HIDE DEF new
<1>3. /\ t \in State /\ t.tasks = s.tasks /\ t.call = s.call /\ t.pend = s.pend
      /\ t.live = s.live \cup {space} /\ t.next_pid = s.next_pid + 1
      /\ t.procs[s.next_pid] = new
      /\ \A p \in Pids \ {s.next_pid} : t.procs[p] = s.procs[p]
  <2> DEFINE ps == [s.procs EXCEPT ![s.next_pid] = new]
             n  == s.next_pid + 1
             ls == s.live \cup {space}
  <2>1. /\ ps \in [Pids -> ProcRecord] /\ ps[s.next_pid] = new
        /\ \A p \in Pids \ {s.next_pid} : ps[p] = s.procs[p]
    BY <1>1, Zenon DEF Good, State
  <2>2. t = [s EXCEPT !.procs = ps, !.next_pid = n, !.live = ls]
    BY <1>2, Zenon DEF Good, State
  <2>3. n \in Nat \ {0} /\ ls \in SUBSET Spaces /\ s \in State
    BY DEF Good, State
  <2> HIDE DEF ps, n, ls
  <2>4. /\ t \in State /\ t.tasks = s.tasks /\ t.call = s.call /\ t.pend = s.pend
        /\ t.live = ls /\ t.next_pid = n /\ t.procs = ps
    BY <2>1, <2>2, <2>3, Zenon DEF State
  <2> QED
    BY <2>1, <2>4, Zenon DEF ls, n
<1> HIDE DEF t
<1>4. ~s.procs[s.next_pid].used
  <2>1. s.next_pid \in Nat /\ ~(s.next_pid < s.next_pid)
    BY DEF Good, State
  <2> QED
    BY <2>1 DEF Good, Fresh
<1>5. Held(t) /\ Apart(t)
  BY <1>1, <1>3, <1>4, SMTT(30) DEF Good, Held, Apart
<1>6. Fresh(t)
  <2>1. ASSUME NEW p \in Pids, t.procs[p].used PROVE p < s.next_pid + 1
    <3>1. p \in Nat /\ s.next_pid \in Nat
      BY PidFacts, Zenon
    <3> QED
      BY <1>3, <2>1, <3>1 DEF Good, Fresh
  <2> QED
    BY <1>3, <2>1, Zenon DEF Fresh
<1>7. Waiting(t)
  <2>1. ASSUME NEW j \in Slots, Sleeps(t, j, "wait4")
        PROVE  /\ Kids(t, t.tasks[j].pid, t.call[j].want) # {}
               /\ \A p \in Kids(t, t.tasks[j].pid, t.call[j].want) : ~t.procs[p].exited
    <3>1. Sleeps(s, j, "wait4")
      BY <1>3, <2>1, Zenon DEF Sleeps
    <3>2. /\ Kids(s, s.tasks[j].pid, s.call[j].want) # {}
          /\ \A p \in Kids(s, s.tasks[j].pid, s.call[j].want) : ~s.procs[p].exited
      BY <3>1, Zenon DEF Good, Waiting
    <3>3. \A p \in Kids(s, s.tasks[j].pid, s.call[j].want) :
            p \in Kids(t, t.tasks[j].pid, t.call[j].want)
      BY <1>3, <1>4, Zenon DEF Kids, Children
    <3>4. \A p \in Kids(t, t.tasks[j].pid, t.call[j].want) :
            p = s.next_pid \/ p \in Kids(s, s.tasks[j].pid, s.call[j].want)
      BY <1>3, Zenon DEF Kids, Children
    <3>5. \A p \in Kids(s, s.tasks[j].pid, s.call[j].want) : t.procs[p] = s.procs[p]
      BY <1>3, <1>4, Zenon DEF Kids, Children
    <3> QED
      BY <1>1, <1>3, <3>2, <3>3, <3>4, <3>5, Zenon
  <2> QED
    BY <1>3, <2>1, SMTT(30) DEF Good, Waiting, Sleeps
<1>8. Vforking(t)
  BY <1>3, <1>4 DEF Good, Vforking, Sleeps
<1> QED
  BY <1>1, <1>3, <1>5, <1>6, <1>7, <1>8, Zenon DEF Good, t

-----------------------------------------------------------------------------
(* The calls.                                                              *)

\* The state the running thread finds.
Running(i) == /\ Good(Kernel) /\ i \in Slots /\ tasks[i].used /\ ~tasks[i].blocked
              /\ Pid(i) \in Pids /\ tasks[i].space \in live
              /\ procs[Pid(i)].used /\ ~procs[Pid(i)].exited

LEMMA RunningIs ==
  ASSUME Good(Kernel), NEW i \in Runnable(tasks)
  PROVE  Running(i)
BY Zenon DEF Running, Good, Held, Kernel, Runnable, Pid

LEMMA KernelIs ==
  /\ Kernel.tasks = tasks /\ Kernel.procs = procs /\ Kernel.next_pid = next_pid
  /\ Kernel.live = live /\ Kernel.pend = pend /\ Kernel.call = call
BY Zenon DEF Kernel

LEMMA CloneStep ==
  ASSUME NEW i, Running(i), NEW c, Clone(i, c)
  PROVE  Good(Kernel)'
<1> DEFINE slot == FreeSlot(tasks)
           t == [Kernel EXCEPT !.tasks[slot] = Thread(Pid(i), tasks[i].space)]
<1>1. CASE slot = NoTask
  BY <1>1, ReturnGood, KernelIs, Zenon DEF Clone, Running, Pid
<1>2. CASE slot # NoTask
  <2>1. slot \in Slots /\ slot # i
    BY <1>2, FreeSlotIs, Zenon DEF Running, Live
  <2>2. \A j \in Slots : tasks[j].used /\ tasks[j].space = tasks[i].space
                           => tasks[j].pid = Pid(i)
    BY KernelIs, Zenon DEF Running, Good, Apart, Pid
  <2>3. Return(i, t)
    BY <1>2, Zenon DEF Clone
  <2>4. Good(t) /\ \A j \in Slots \ {slot} : t.tasks[j] = tasks[j]
    <3> HIDE DEF slot
    <3> QED
      BY <2>1, <2>2, ThreadGood, KernelIs DEF Running
  <2> HIDE DEF t, slot
  <2> QED
    BY <2>1, <2>3, <2>4, ReturnGood, Zenon DEF Running, Pid
<1> QED
  BY <1>1, <1>2, Zenon

\* Parking writes one task and its call.
Slept(t, s, i, c, key) ==
  /\ t \in State /\ t.procs = s.procs /\ t.next_pid = s.next_pid
  /\ t.live = s.live /\ t.pend = s.pend
  /\ t.tasks[i].used = s.tasks[i].used /\ t.tasks[i].pid = s.tasks[i].pid
  /\ t.tasks[i].space = s.tasks[i].space
  /\ t.tasks[i].blocked /\ t.tasks[i].wait_addr = key /\ t.call[i] = c
  /\ \A j \in Slots \ {i} : t.tasks[j] = s.tasks[j] /\ t.call[j] = s.call[j]

LEMMA ParkedIs ==
  ASSUME NEW s \in State, NEW i \in Slots, NEW c \in Requests, NEW key \in WaitKeys
  PROVE  Slept(Parked(s, i, c, key), s, i, c, key)
<1> DEFINE u == [s.tasks[i] EXCEPT !.blocked = TRUE, !.wait_addr = key]
           ts == [s.tasks EXCEPT ![i] = u]
           cs == [s.call EXCEPT ![i] = c]
<1>1. s.tasks[i] \in ProcTask
  BY DEF State
<1>2. /\ u \in ProcTask /\ u.used = s.tasks[i].used /\ u.pid = s.tasks[i].pid
      /\ u.space = s.tasks[i].space /\ u.blocked /\ u.wait_addr = key
  BY <1>1, Zenon DEF ProcTask
<1>3. ts \in [Slots -> ProcTask] /\ cs \in [Slots -> Requests \cup {NoCall}]
  BY <1>2, Zenon DEF State
<1>4. [s.tasks EXCEPT ![i].blocked = TRUE, ![i].wait_addr = key] = ts
  BY Zenon DEF State
<1>5. Parked(s, i, c, key)
        = [s EXCEPT !.tasks = [s.tasks EXCEPT ![i].blocked = TRUE, ![i].wait_addr = key],
                    !.call = cs]
  BY Zenon DEF Parked, State
<1>6. /\ ts[i] = u /\ cs[i] = c
      /\ \A j \in Slots \ {i} : ts[j] = s.tasks[j] /\ cs[j] = s.call[j]
  BY Zenon DEF State
<1> HIDE DEF ts, cs, u
<1>7. Parked(s, i, c, key) = [s EXCEPT !.tasks = ts, !.call = cs]
  BY <1>4, <1>5, Zenon
<1>8. LET t == Parked(s, i, c, key) IN
      /\ t \in State /\ t.procs = s.procs /\ t.next_pid = s.next_pid
      /\ t.live = s.live /\ t.pend = s.pend /\ t.tasks = ts /\ t.call = cs
  BY <1>3, <1>7, Zenon DEF State
<1> QED
  BY <1>2, <1>6, <1>8, ZenonT(30) DEF Slept

\* A vfork parent parks on its child, which nobody else waits for.
LEMMA VforkParks ==
  ASSUME NEW s, Good(s), NEW i \in Slots, s.tasks[i].used, Pid(i) = s.tasks[i].pid,
         NEW child \in Pids, s.procs[child].used, ~s.procs[child].exited,
         s.procs[child].vfork_parent = NoPid,
         NEW c \in Requests, c.op = "vfork"
  PROVE  Good(Parked([s EXCEPT !.procs[child].vfork_parent = Pid(i),
                               !.tasks[i].wake_rax = "ok"], i, c, VforkKey(child)))
<1> DEFINE x == [s.tasks[i] EXCEPT !.wake_rax = "ok"]
           q == [s.procs[child] EXCEPT !.vfork_parent = Pid(i)]
           xs == [s.tasks EXCEPT ![i] = x]
           ps == [s.procs EXCEPT ![child] = q]
           v == [s EXCEPT !.procs[child].vfork_parent = Pid(i),
                          !.tasks[i].wake_rax = "ok"]
           t == Parked(v, i, c, VforkKey(child))
<1>1. s \in State /\ Pid(i) \in Pids
  BY DEF Good, Held
<1>2. x \in ProcTask /\ x.used /\ x.pid = s.tasks[i].pid /\ x.space = s.tasks[i].space
  <2>1. s.tasks[i] \in ProcTask /\ "ok" \in RaxValues
    BY <1>1, Zenon DEF State, RaxValues
  <2> QED
    BY <2>1, Zenon DEF ProcTask
<1>3. /\ q \in ProcRecord /\ q.used /\ ~q.exited /\ q.parent = s.procs[child].parent
      /\ q.vfork_parent = Pid(i)
  <2>1. s.procs[child] \in ProcRecord
    BY <1>1, Zenon DEF State
  <2> QED
    BY <1>1, <2>1, Zenon DEF ProcRecord
<1>4. v = [s EXCEPT !.procs = ps, !.tasks = xs]
  BY <1>1, Zenon DEF State
<1> HIDE DEF x, q, v
<1>5. /\ xs \in [Slots -> ProcTask] /\ xs[i] = x
      /\ ps \in [Pids -> ProcRecord] /\ ps[child] = q
      /\ \A j \in Slots \ {i} : xs[j] = s.tasks[j]
      /\ \A p \in Pids \ {child} : ps[p] = s.procs[p]
  BY <1>1, <1>2, <1>3, Zenon DEF State
<1> HIDE DEF xs, ps
<1>6. /\ v \in State /\ v.tasks = xs /\ v.procs = ps /\ v.call = s.call
      /\ v.next_pid = s.next_pid /\ v.live = s.live /\ v.pend = s.pend
  BY <1>1, <1>4, <1>5, Zenon DEF State
<1>7. Slept(t, v, i, c, VforkKey(child))
  BY <1>6, ParkedIs, Zenon DEF WaitKeys
<1> HIDE DEF t
<1>8. /\ t \in State /\ t.next_pid = s.next_pid /\ t.live = s.live /\ t.pend = s.pend
      /\ t.procs[child] = q /\ \A p \in Pids \ {child} : t.procs[p] = s.procs[p]
      /\ t.tasks[i].used /\ t.tasks[i].pid = s.tasks[i].pid
      /\ t.tasks[i].space = s.tasks[i].space
      /\ t.tasks[i].wait_addr = VforkKey(child) /\ t.call[i] = c
      /\ \A j \in Slots \ {i} : t.tasks[j] = s.tasks[j] /\ t.call[j] = s.call[j]
  BY <1>2, <1>5, <1>6, <1>7, ZenonT(30) DEF Slept
<1>9. Held(t) /\ Apart(t) /\ Fresh(t)
  <2>1. Held(t)
    BY <1>3, <1>8 DEF Good, Held
  <2>2. Apart(t)
    BY <1>3, <1>8 DEF Good, Apart
  <2>3. Fresh(t)
    BY <1>3, <1>8 DEF Good, Fresh
  <2> QED
    BY <2>1, <2>2, <2>3, Zenon
<1>10. \A pid, want : Kids(t, pid, want) = Kids(s, pid, want)
  BY <1>3, <1>8, SMTT(30) DEF Kids, Children
<1>11. Waiting(t)
  <2>1. ASSUME NEW j \in Slots, Sleeps(t, j, "wait4")
        PROVE  Sleeps(s, j, "wait4") /\ t.tasks[j] = s.tasks[j] /\ t.call[j] = s.call[j]
    BY <1>8, <2>1, Zenon DEF Sleeps
  <2>2. \A p \in Pids : ~s.procs[p].exited => ~t.procs[p].exited
    BY <1>3, <1>8, Zenon
  <2>3. \A pid, want : Kids(s, pid, want) \subseteq Pids
    BY Zenon DEF Kids, Children
  <2> QED
    BY <1>8, <1>10, <2>1, <2>2, <2>3, SMTT(30) DEF Good, Waiting
<1>12. Vforking(t)
  <2>1. ASSUME NEW j \in Slots, Sleeps(t, j, "vfork")
        PROVE  \E p \in Pids : /\ t.tasks[j].wait_addr = VforkKey(p)
                               /\ t.procs[p].used /\ ~t.procs[p].exited
                               /\ t.procs[p].vfork_parent = t.tasks[j].pid
    <3>1. CASE j = i
      BY <1>3, <1>8, <3>1, Zenon
    <3>2. CASE j # i
      <4>1. Sleeps(s, j, "vfork") /\ t.tasks[j] = s.tasks[j]
        BY <1>8, <2>1, <3>2, Zenon DEF Sleeps
      <4>2. PICK p \in Pids : /\ s.tasks[j].wait_addr = VforkKey(p)
                              /\ s.procs[p].used /\ ~s.procs[p].exited
                              /\ s.procs[p].vfork_parent = s.tasks[j].pid
        BY <4>1, Zenon DEF Good, Vforking
      <4>3. p # child
        BY <4>1, <4>2, PidFacts, Zenon DEF Good, Held, Sleeps
      <4> QED
        BY <1>8, <4>1, <4>2, <4>3, Zenon
    <3> QED
      BY <3>1, <3>2, Zenon
  <2> QED
    BY <2>1, Zenon DEF Vforking
<1> QED
  BY <1>8, <1>9, <1>11, <1>12, Zenon DEF Good, t, v

LEMMA ForkStep ==
  ASSUME NEW i, Running(i), NEW c \in Requests, c.op \in {"fork", "vfork"}, Fork(i, c)
  PROVE  Good(Kernel)'
<1> DEFINE slot == FreeSlot(tasks)
           New(space) == NewProcess(Kernel, i, next_pid, space)
           Started(space) == [New(space) EXCEPT !.tasks[slot] = Thread(next_pid, space)]
           Vforked(space) == [Started(space) EXCEPT !.procs[next_pid].vfork_parent = Pid(i),
                                                    !.tasks[i].wake_rax = "ok"]
<1>1. /\ i \in Slots /\ Good(Kernel) /\ Pid(i) = tasks[i].pid /\ Pid(i) \in Pids
      /\ tasks[i].used /\ ~tasks[i].blocked
  BY Zenon DEF Running, Pid
<1>2. CASE Return(i, Kernel)
  BY <1>1, <1>2, ReturnGood, KernelIs, Zenon
<1>3. CASE Return(i, [Kernel EXCEPT !.next_pid = @ + 1])
  <2> DEFINE t == [Kernel EXCEPT !.next_pid = @ + 1]
  <2>1. /\ t \in State /\ t.tasks = tasks /\ t.procs = procs /\ t.live = live
        /\ t.pend = pend /\ t.call = call /\ t.next_pid = next_pid + 1
        /\ next_pid \in Nat
    BY <1>1, KernelIs DEF Good, State
  <2> HIDE DEF t
  <2>2. Fresh(t)
    <3>1. \A p \in Pids : p \in Nat
      BY PidFacts, Zenon
    <3> QED
      BY <1>1, <2>1, <3>1, KernelIs DEF Good, Fresh
  <2>3. Good(t)
    BY <1>1, <2>1, <2>2, KernelIs, SMTT(30)
       DEF Good, Held, Apart, Waiting, Vforking, Sleeps, Kids, Children
  <2> QED
    BY <1>1, <1>3, <2>1, <2>3, ReturnGood, Zenon DEF t
<1>4. ASSUME NEW space \in Spaces \ live, next_pid \in Pids
      PROVE  /\ Good(New(space)) /\ New(space).tasks = tasks
             /\ New(space).live = live \cup {space}
             /\ New(space).procs[next_pid].used /\ ~New(space).procs[next_pid].exited
             /\ New(space).procs[next_pid].vfork_parent = NoPid
  BY <1>1, <1>4, ProcessGood, KernelIs, SMTT(30)
<1>5. \A space \in Spaces \ live, j \in Slots : tasks[j].used => tasks[j].space # space
  BY <1>1, KernelIs, Zenon DEF Good, Held
<1>6. ASSUME NEW space \in Spaces \ live, next_pid \in Pids, slot \in Slots, slot # i
      PROVE  /\ Good(Started(space)) /\ Started(space).tasks[i] = tasks[i]
             /\ Started(space).procs = New(space).procs
  <2> HIDE DEF New, slot
  <2> DEFINE m == New(space)
  <2>1. /\ Good(m) /\ space \in m.live /\ m.tasks = tasks
        /\ m.procs[next_pid].used /\ ~m.procs[next_pid].exited
    BY <1>4, <1>6, Zenon
  <2>2. \A j \in Slots : m.tasks[j].used /\ m.tasks[j].space = space
                           => m.tasks[j].pid = next_pid
    BY <1>5, <2>1, Zenon
  <2> HIDE DEF m
  <2>3. LET t == [m EXCEPT !.tasks[slot] = Thread(next_pid, space)] IN
        /\ Good(t) /\ t.procs = m.procs
        /\ \A j \in Slots \ {slot} : t.tasks[j] = m.tasks[j]
    BY <1>6, <2>1, <2>2, ThreadGood
  <2> QED
    BY <1>1, <1>6, <2>1, <2>3, Zenon DEF m
<1> HIDE DEF New
<1>7. ASSUME NEW space \in Spaces \ live, next_pid \in Pids,
             Return(i, [New(space) EXCEPT !.live = @ \ {space}])
      PROVE  Good(Kernel)'
  <2> DEFINE t == [New(space) EXCEPT !.live = @ \ {space}]
  <2>1. t = DestroyUnused(New(space), space)
    BY <1>4, <1>5, <1>7, Zenon DEF DestroyUnused, SpaceInUse, Live
  <2>2. Good(t)
    BY <1>4, <1>7, <2>1, DestroyGood
  <2>3. t.tasks = tasks
    BY <1>4, <1>7, Zenon DEF Good, State
  <2> HIDE DEF t
  <2> QED
    BY <1>1, <1>7, <2>2, <2>3, ReturnGood, Zenon DEF t
<1>8. ASSUME NEW space \in Spaces \ live, next_pid \in Pids, slot \in Slots, slot # i,
             Return(i, Started(space))
      PROVE  Good(Kernel)'
  <2> HIDE DEF Started, slot
  <2> QED
    BY <1>1, <1>6, <1>8, ReturnGood, Zenon
<1>9. ASSUME NEW space \in Spaces \ live, next_pid \in Pids, slot \in Slots, slot # i,
             c.op = "vfork", Commit(Parked(Vforked(space), i, c, VforkKey(next_pid)))
      PROVE  Good(Kernel)'
  <2> HIDE DEF Started, slot
  <2>1. Good(Parked(Vforked(space), i, c, VforkKey(next_pid)))
    BY <1>1, <1>4, <1>6, <1>9, VforkParks, Zenon
  <2> QED
    BY <1>9, <2>1, Commits, Zenon
<1>10. next_pid \in Nat \ {0}
  BY <1>1, KernelIs, Zenon DEF Good, State
<1>11. \/ Return(i, Kernel)
       \/ Return(i, [Kernel EXCEPT !.next_pid = @ + 1])
       \/ next_pid <= MaxPid /\ \E space \in Spaces \ live :
            \/ Return(i, [New(space) EXCEPT !.live = @ \ {space}])
            \/ slot # NoTask /\ Return(i, Started(space))
            \/ /\ slot # NoTask /\ c.op = "vfork"
               /\ Commit(Parked(Vforked(space), i, c, VforkKey(next_pid)))
  BY Zenon DEF Fork, New
<1>12. next_pid <= MaxPid => next_pid \in Pids
  BY <1>10, ProcAssumption DEF Pids
<1>13. slot # NoTask => slot \in Slots /\ slot # i
  BY <1>1, FreeSlotIs, Zenon DEF Live
<1> HIDE DEF Started, Vforked, slot
<1> QED
  BY <1>2, <1>3, <1>7, <1>8, <1>9, <1>11, <1>12, <1>13, Zenon

LEMMA VforkResumeStep ==
  ASSUME NEW i, Running(i), VforkResume(i)
  PROVE  Good(Kernel)'
<1> DEFINE x == [tasks[i] EXCEPT !.wake_rax = "nr", !.rax = "nr"]
           xs == [tasks EXCEPT ![i] = x]
           cs == [call EXCEPT ![i] = NoCall]
           t == [Kernel EXCEPT !.call[i] = NoCall, !.tasks[i].wake_rax = "nr",
                               !.tasks[i].rax = "nr"]
<1>1. /\ i \in Slots /\ Good(Kernel) /\ tasks \in [Slots -> ProcTask]
      /\ call \in [Slots -> Requests \cup {NoCall}] /\ Kernel \in State
  BY KernelIs, Zenon DEF Running, Good, State
<1>2. /\ x \in ProcTask /\ x.used = tasks[i].used /\ x.pid = tasks[i].pid
      /\ x.space = tasks[i].space /\ ~x.blocked
  <2>1. tasks[i] \in ProcTask /\ "nr" \in RaxValues /\ ~tasks[i].blocked
    BY <1>1 DEF RaxValues, Running
  <2> QED
    BY <2>1, Zenon DEF ProcTask
<1>3. t = [Kernel EXCEPT !.call = cs, !.tasks = xs]
  BY <1>1, KernelIs, ZenonT(30) DEF State
<1> HIDE DEF x
<1>4. /\ xs \in [Slots -> ProcTask] /\ xs[i] = x
      /\ cs \in [Slots -> Requests \cup {NoCall}] /\ cs[i] = NoCall
      /\ \A j \in Slots \ {i} : xs[j] = tasks[j] /\ cs[j] = call[j]
  BY <1>1, <1>2
<1>5. Commit(t)
  BY DEF VforkResume
<1> HIDE DEF xs, cs, t
<1>6. /\ t \in State /\ t.tasks = xs /\ t.call = cs /\ t.procs = procs
      /\ t.next_pid = next_pid /\ t.live = live /\ t.pend = pend
  BY <1>1, <1>3, <1>4, KernelIs, Zenon DEF State
<1>7. Held(t) /\ Apart(t) /\ Fresh(t)
  <2>1. Held(t)
    BY <1>1, <1>2, <1>4, <1>6, KernelIs DEF Good, Held
  <2>2. Apart(t)
    BY <1>1, <1>2, <1>4, <1>6, KernelIs DEF Good, Apart
  <2>3. Fresh(t)
    BY <1>1, <1>2, <1>4, <1>6, KernelIs DEF Good, Fresh
  <2> QED
    BY <2>1, <2>2, <2>3, Zenon
<1>8. \A j \in Slots : \A op : Sleeps(t, j, op) => /\ Sleeps(Kernel, j, op)
                                                   /\ t.tasks[j] = tasks[j]
                                                   /\ t.call[j] = call[j]
  BY <1>2, <1>4, <1>6, KernelIs, Zenon DEF Sleeps
<1>9. Waiting(t)
  BY <1>1, <1>6, <1>8, KernelIs, SMTT(30) DEF Good, Waiting, Kids, Children
<1>10. Vforking(t)
  BY <1>1, <1>6, <1>8, KernelIs, SMTT(30) DEF Good, Vforking
<1> QED
  BY <1>5, <1>6, <1>7, <1>9, <1>10, Commits, Zenon DEF Good

\* Letting a vfork parent go.
LEMMA ReleaseGood ==
  ASSUME NEW s, Good(s), NEW pid \in Pids
  PROVE  Good(VforkRelease(s, pid))
<1> DEFINE r == VforkRelease(s, pid)
           q == [s.procs[pid] EXCEPT !.vfork_parent = NoPid]
<1>1. /\ r \in State /\ r.next_pid = s.next_pid /\ r.live = s.live
      /\ r.call = s.call /\ r.pend = s.pend
      /\ \A i \in Slots : /\ Stirred(r.tasks[i], s.tasks[i])
                          /\ r.tasks[i].used /\ r.tasks[i].blocked
                               => \/ r.tasks[i].wait_addr # VforkKey(pid)
                                  \/ s.procs[pid].vfork_parent = NoPid
      /\ r.procs = [s.procs EXCEPT ![pid] = q]
  BY Released DEF Good
<1>2. q.used = s.procs[pid].used /\ q.parent = s.procs[pid].parent
      /\ q.exited = s.procs[pid].exited
  BY ZenonT(30) DEF Good, State, ProcRecord
<1> HIDE DEF r, q
<1>3. /\ r.procs[pid] = q /\ \A p \in Pids \ {pid} : r.procs[p] = s.procs[p]
  BY <1>1, Zenon DEF Good, State
<1>4. \A i \in Slots : /\ r.tasks[i].used = s.tasks[i].used
                       /\ r.tasks[i].pid = s.tasks[i].pid
                       /\ r.tasks[i].space = s.tasks[i].space
                       /\ r.tasks[i].blocked => r.tasks[i] = s.tasks[i]
  BY <1>1, Zenon DEF Stirred
<1>5. Held(r) /\ Apart(r) /\ Fresh(r)
  <2>1. Held(r)
    BY <1>1, <1>2, <1>3, <1>4 DEF Good, Held
  <2>2. Apart(r)
    BY <1>1, <1>2, <1>3, <1>4 DEF Good, Apart
  <2>3. Fresh(r)
    BY <1>1, <1>2, <1>3, <1>4 DEF Good, Fresh
  <2> QED
    BY <2>1, <2>2, <2>3, Zenon
<1>6. \A p \in Pids : /\ r.procs[p].used = s.procs[p].used
                      /\ r.procs[p].parent = s.procs[p].parent
                      /\ r.procs[p].exited = s.procs[p].exited
  BY <1>2, <1>3, Zenon
<1>7. \A qid, want : Kids(r, qid, want) = Kids(s, qid, want) /\ Kids(s, qid, want) \subseteq Pids
  BY <1>6, Zenon DEF Kids, Children
<1>8. \A i \in Slots : \A op : Sleeps(r, i, op) => Sleeps(s, i, op) /\ r.tasks[i] = s.tasks[i]
  BY <1>1, <1>4, Zenon DEF Sleeps
<1>9. Waiting(r)
  BY <1>1, <1>6, <1>7, <1>8, SMTT(30) DEF Good, Waiting
<1>10. Vforking(r)
  <2>1. ASSUME NEW i \in Slots, Sleeps(r, i, "vfork")
        PROVE  \E p \in Pids : /\ r.tasks[i].wait_addr = VforkKey(p)
                               /\ r.procs[p].used /\ ~r.procs[p].exited
                               /\ r.procs[p].vfork_parent = r.tasks[i].pid
    <3>1. Sleeps(s, i, "vfork") /\ r.tasks[i] = s.tasks[i] /\ r.tasks[i].used
          /\ r.tasks[i].blocked /\ s.tasks[i].pid \in Pids
      BY <1>8, <2>1, Zenon DEF Sleeps, Good, Held
    <3>2. PICK p \in Pids : /\ s.tasks[i].wait_addr = VforkKey(p)
                            /\ s.procs[p].used /\ ~s.procs[p].exited
                            /\ s.procs[p].vfork_parent = s.tasks[i].pid
      BY <3>1, Zenon DEF Good, Vforking
    <3>3. p # pid
      BY <1>1, <3>1, <3>2, PidFacts, ZenonT(30)
    <3> QED
      BY <1>3, <3>1, <3>2, <3>3, Zenon
  <2> QED
    BY <2>1, Zenon DEF Vforking
<1> QED
  BY <1>1, <1>5, <1>9, <1>10, Zenon DEF Good, r

LEMMA ExecStep ==
  ASSUME NEW i, Running(i), NEW c, Exec(i, c)
  PROVE  Good(Kernel)'
<1>1. /\ i \in Slots /\ Good(Kernel) /\ Pid(i) = tasks[i].pid /\ Pid(i) \in Pids
      /\ tasks[i].used /\ ~tasks[i].blocked /\ procs[Pid(i)].used /\ ~procs[Pid(i)].exited
  BY Zenon DEF Running, Pid
<1>2. CASE Return(i, Kernel)
  BY <1>1, <1>2, ReturnGood, KernelIs, Zenon
<1>3. ASSUME NEW fresh \in Spaces \ live,
             Commit(DestroyUnused([VforkRelease(Kernel, Pid(i)) EXCEPT
                          !.live = @ \cup {fresh}, !.procs[Pid(i)].space = fresh,
                          !.tasks[i].space = fresh], procs[Pid(i)].space))
      PROVE  Good(Kernel)'
  <2> DEFINE r == VforkRelease(Kernel, Pid(i))
             x == [r.tasks[i] EXCEPT !.space = fresh]
             q == [r.procs[Pid(i)] EXCEPT !.space = fresh]
             xs == [r.tasks EXCEPT ![i] = x]
             ps == [r.procs EXCEPT ![Pid(i)] = q]
             ls == r.live \cup {fresh}
             t == [r EXCEPT !.live = @ \cup {fresh}, !.procs[Pid(i)].space = fresh,
                            !.tasks[i].space = fresh]
  <2>1. Good(r)
    BY <1>1, ReleaseGood, Zenon
  <2>2. r.live = live /\ Stirred(r.tasks[i], tasks[i])
    BY <1>1, Released, KernelIs, Zenon DEF Good
  <2> HIDE DEF r
  <2>3. r \in State /\ r.tasks[i] \in ProcTask /\ r.procs[Pid(i)] \in ProcRecord
    BY <1>1, <2>1, Zenon DEF Good, State
  <2>4. t = [r EXCEPT !.live = ls, !.procs = ps, !.tasks = xs]
    BY <1>1, <2>3, Zenon DEF State
  <2>5. /\ x \in ProcTask /\ x.used /\ ~x.blocked /\ x.pid = Pid(i) /\ x.space = fresh
        /\ r.tasks[i].pid = Pid(i)
    BY <1>1, <2>2, <2>3, Zenon DEF Stirred, ProcTask
  <2>6. /\ q \in ProcRecord /\ q.used = r.procs[Pid(i)].used
        /\ q.exited = r.procs[Pid(i)].exited /\ q.parent = r.procs[Pid(i)].parent
        /\ q.vfork_parent = r.procs[Pid(i)].vfork_parent
    BY <2>3, Zenon DEF ProcRecord
  <2> HIDE DEF x, q
  <2>7. /\ xs \in [Slots -> ProcTask] /\ xs[i] = x
        /\ ps \in [Pids -> ProcRecord] /\ ps[Pid(i)] = q
        /\ \A j \in Slots \ {i} : xs[j] = r.tasks[j]
        /\ \A p \in Pids \ {Pid(i)} : ps[p] = r.procs[p]
        /\ ls \in SUBSET Spaces /\ fresh \in ls /\ r.live \subseteq ls
    BY <1>1, <2>3, <2>5, <2>6, Zenon DEF State
  <2> HIDE DEF xs, ps, ls, t
  <2>8. /\ t \in State /\ t.tasks = xs /\ t.procs = ps /\ t.live = ls
        /\ t.next_pid = r.next_pid /\ t.pend = r.pend /\ t.call = r.call
    BY <2>3, <2>4, <2>7, Zenon DEF State
  <2>9. \A p \in Pids : /\ t.procs[p].used = r.procs[p].used
                        /\ t.procs[p].parent = r.procs[p].parent
                        /\ t.procs[p].exited = r.procs[p].exited
                        /\ t.procs[p].vfork_parent = r.procs[p].vfork_parent
    BY <2>6, <2>7, <2>8, Zenon
  <2>10. r.tasks[i].used
    BY <1>1, <2>2, Zenon DEF Stirred
  <2>11. Held(t)
    <3>1. \A j \in Slots : /\ t.tasks[j].used = r.tasks[j].used
                          /\ t.tasks[j].pid = r.tasks[j].pid
                          /\ t.tasks[j].space \in {r.tasks[j].space, fresh}
      <4>1. t.tasks[i].used = r.tasks[i].used /\ t.tasks[i].pid = r.tasks[i].pid
        BY <2>5, <2>7, <2>8, <2>10, Zenon
      <4>2. t.tasks[i].space = fresh /\ \A j \in Slots \ {i} : t.tasks[j] = r.tasks[j]
        BY <2>5, <2>7, <2>8, Zenon
      <4> QED
        BY <4>1, <4>2, Zenon
    <3>2. fresh \in t.live /\ r.live \subseteq t.live
      BY <2>7, <2>8, Zenon
    <3> QED
      BY <2>1, <2>9, <3>1, <3>2, ZenonT(30) DEF Good, Held
  <2>12. \A j \in Slots : r.tasks[j].used => r.tasks[j].space # fresh
    BY <1>3, <2>1, <2>2, Zenon DEF Good, Held
  <2>13. Apart(t)
    BY <2>1, <2>5, <2>7, <2>8, <2>12, SMTT(30) DEF Good, Apart
  <2>14. Fresh(t)
    BY <2>1, <2>8, <2>9, Zenon DEF Good, Fresh
  <2>15. \A pid, want : Kids(t, pid, want) = Kids(r, pid, want) /\ Kids(r, pid, want) \subseteq Pids
    BY <2>9, Zenon DEF Kids, Children
  <2>16. \A j \in Slots : \A op : Sleeps(t, j, op) => Sleeps(r, j, op) /\ t.tasks[j] = r.tasks[j]
    BY <2>5, <2>7, <2>8, Zenon DEF Sleeps
  <2>17. Waiting(t)
    BY <2>1, <2>8, <2>9, <2>15, <2>16, SMTT(30) DEF Good, Waiting
  <2>18. Vforking(t)
    BY <2>1, <2>8, <2>9, <2>16, SMTT(30) DEF Good, Vforking
  <2>19. Good(t)
    BY <2>8, <2>11, <2>13, <2>14, <2>17, <2>18, Zenon DEF Good
  <2>20. Good(DestroyUnused(t, procs[Pid(i)].space))
    BY <2>19, DestroyGood, Zenon
  <2> QED
    BY <1>3, <2>20, Commits, Zenon DEF t, r
<1> QED
  BY <1>2, <1>3, Zenon DEF Exec

LEMMA ExitStep ==
  ASSUME NEW i, Running(i), NEW c, Exit(i, c) \/ ExitGroup(i, c)
  PROVE  Good(Kernel)'
<1>1. i \in Slots /\ Good(Kernel) /\ Pid(i) = tasks[i].pid /\ Pid(i) \in Pids /\ tasks[i].used
  BY Zenon DEF Running, Pid
<1>2. CASE ExitGroup(i, c)
  BY <1>1, <1>2, EndProcessGood, Commits, KernelIs, Zenon DEF ExitGroup
<1>3. CASE Exit(i, c) /\ PidTasks(tasks, Pid(i)) = {i}
  <2>1. Commit(Removed(ProcessEnds(Kernel, Pid(i)), {i}))
    BY <1>3, Zenon DEF Exit
  <2>2. \A j \in Slots : tasks[j].used /\ tasks[j].pid = Pid(i) => j \in {i}
    BY <1>3, Zenon DEF PidTasks, Live
  <2>3. Good(Removed(ProcessEnds(Kernel, Pid(i)), {i}))
    BY <1>1, <2>2, EndGood, KernelIs, Zenon
  <2> QED
    BY <2>1, <2>3, Commits, Zenon
<1>4. CASE Exit(i, c) /\ PidTasks(tasks, Pid(i)) # {i}
  <2>1. Commit(Removed(Kernel, {i}))
    BY <1>4, Zenon DEF Exit
  <2> QED
    BY <1>1, <2>1, RemovedGood, Commits, Zenon
<1> QED
  BY <1>2, <1>3, <1>4, Zenon

\* A child is reaped when it has ended, and then nobody is asleep for it.
LEMMA ReapGood ==
  ASSUME NEW s, Good(s), NEW p \in Pids, s.procs[p].exited
  PROVE  LET t == [s EXCEPT !.procs[p] = NoProc] IN Good(t) /\ t.tasks = s.tasks
<1> DEFINE t == [s EXCEPT !.procs[p] = NoProc]
           ps == [s.procs EXCEPT ![p] = NoProc]
<1>1. s \in State /\ NoProc \in ProcRecord /\ ~NoProc.used
  BY Zenon DEF Good, NoProc, ProcRecord
<1>2. /\ ps \in [Pids -> ProcRecord] /\ ps[p] = NoProc
      /\ \A q \in Pids \ {p} : ps[q] = s.procs[q]
  BY <1>1, Zenon DEF State
<1>3. t = [s EXCEPT !.procs = ps]
  BY <1>1 DEF State
<1> HIDE DEF ps, t
<1>4. /\ t \in State /\ t.tasks = s.tasks /\ t.procs = ps /\ t.live = s.live
      /\ t.next_pid = s.next_pid /\ t.pend = s.pend /\ t.call = s.call
  BY <1>1, <1>2, <1>3, Zenon DEF State
<1>5. Held(t) /\ Apart(t) /\ Fresh(t)
  <2>1. Held(t)
    BY <1>1, <1>2, <1>4 DEF Good, Held
  <2>2. Apart(t)
    BY <1>1, <1>2, <1>4 DEF Good, Apart
  <2>3. Fresh(t)
    BY <1>1, <1>2, <1>4 DEF Good, Fresh
  <2> QED
    BY <2>1, <2>2, <2>3, Zenon
<1>6. Waiting(t)
  <2>1. ASSUME NEW j \in Slots, Sleeps(t, j, "wait4")
        PROVE  /\ Kids(t, t.tasks[j].pid, t.call[j].want) # {}
               /\ \A q \in Kids(t, t.tasks[j].pid, t.call[j].want) : ~t.procs[q].exited
    <3> DEFINE pid == s.tasks[j].pid
               want == s.call[j].want
    <3>1. Sleeps(s, j, "wait4")
      BY <1>4, <2>1, Zenon DEF Sleeps
    <3>2. Kids(s, pid, want) # {} /\ \A q \in Kids(s, pid, want) : ~s.procs[q].exited
      BY <3>1, Zenon DEF Good, Waiting
    <3> HIDE DEF pid, want
    <3>3. \A q \in Kids(s, pid, want) : q \in Kids(t, pid, want) /\ t.procs[q] = s.procs[q]
      BY <1>2, <1>4, <3>2, Zenon DEF Kids, Children
    <3>4. \A q \in Kids(t, pid, want) : q \in Kids(s, pid, want)
      BY <1>1, <1>2, <1>4, Zenon DEF Kids, Children
    <3>5. t.tasks[j].pid = pid /\ t.call[j].want = want
      BY <1>4, Zenon DEF pid, want
    <3> QED
      BY <3>2, <3>3, <3>4, <3>5, Zenon
  <2> QED
    BY <1>4, <2>1, Zenon DEF Good, Waiting, Sleeps
<1>7. Vforking(t)
  BY <1>2, <1>4, SMTT(30) DEF Good, Vforking, Sleeps
<1> QED
  BY <1>4, <1>5, <1>6, <1>7, Zenon DEF Good, t

LEMMA Wait4Step ==
  ASSUME NEW i, Running(i), NEW c \in Requests, c.op = "wait4", Wait4(i, c)
  PROVE  Good(Kernel)'
<1> DEFINE kids == Wanted(Kernel, i, c.want)
<1>1. /\ i \in Slots /\ Good(Kernel) /\ Pid(i) = tasks[i].pid /\ Pid(i) \in Pids
      /\ tasks[i].used /\ ~tasks[i].blocked
  BY Zenon DEF Running, Pid
<1>2. kids = Kids(Kernel, Pid(i), c.want) /\ kids \subseteq Pids
  BY Zenon DEF Wanted, Kids, Children
<1>3. CASE Return(i, Kernel)
  BY <1>1, <1>3, ReturnGood, KernelIs, Zenon
<1>4. ASSUME NEW p \in kids, procs[p].exited, Return(i, [Kernel EXCEPT !.procs[p] = NoProc])
      PROVE  Good(Kernel)'
  <2> DEFINE t == [Kernel EXCEPT !.procs[p] = NoProc]
  <2>1. Good(t) /\ t.tasks = tasks
    BY <1>1, <1>2, <1>4, ReapGood, KernelIs, Zenon
  <2> HIDE DEF t
  <2> QED
    BY <1>1, <1>4, <2>1, ReturnGood, Zenon DEF t
<1>5. CASE /\ kids # {} /\ \A p \in kids : ~procs[p].exited
           /\ Pid(i) \notin pend
           /\ Commit(Parked(Kernel, i, c, WaitKey(Pid(i))))
  <2> DEFINE t == Parked(Kernel, i, c, WaitKey(Pid(i)))
  <2>1. Slept(t, Kernel, i, c, WaitKey(Pid(i)))
    BY <1>1, ParkedIs, Zenon DEF Good, WaitKeys
  <2> HIDE DEF t
  <2>2. /\ t \in State /\ t.procs = procs /\ t.next_pid = next_pid
        /\ t.live = live /\ t.pend = pend
        /\ t.tasks[i].used /\ t.tasks[i].pid = Pid(i) /\ t.tasks[i].space = tasks[i].space
        /\ t.tasks[i].wait_addr = WaitKey(Pid(i)) /\ t.call[i] = c
        /\ \A j \in Slots \ {i} : t.tasks[j] = tasks[j] /\ t.call[j] = call[j]
    BY <1>1, <2>1, KernelIs, Zenon DEF Slept
  <2>3. Held(t) /\ Apart(t) /\ Fresh(t)
    <3>1. Held(t)
      BY <1>1, <2>2, KernelIs DEF Good, Held
    <3>2. Apart(t)
      BY <1>1, <2>2, KernelIs DEF Good, Apart
    <3>3. Fresh(t)
      BY <1>1, <2>2, KernelIs DEF Good, Fresh
    <3> QED
      BY <3>1, <3>2, <3>3, Zenon
  <2>4. \A pid, want : Kids(t, pid, want) = Kids(Kernel, pid, want)
    BY <2>2, KernelIs, ZenonT(30) DEF Kids, Children
  <2>5. \A j \in Slots : \A op : j # i /\ Sleeps(t, j, op) => Sleeps(Kernel, j, op)
    BY <2>2, KernelIs, Zenon DEF Sleeps
  <2>6. Waiting(t)
    <3>1. ASSUME NEW j \in Slots, Sleeps(t, j, "wait4")
          PROVE  /\ t.tasks[j].wait_addr = WaitKey(t.tasks[j].pid)
                 /\ t.tasks[j].pid \notin t.pend
                 /\ Kids(t, t.tasks[j].pid, t.call[j].want) # {}
                 /\ \A p \in Kids(t, t.tasks[j].pid, t.call[j].want) : ~t.procs[p].exited
      <4>1. CASE j = i
        BY <1>2, <1>5, <2>2, <2>4, <4>1, SMTT(30)
      <4>2. CASE j # i
        BY <1>1, <2>2, <2>4, <2>5, <3>1, <4>2, KernelIs, SMTT(30) DEF Good, Waiting
      <4> QED
        BY <4>1, <4>2, Zenon
    <3> QED
      BY <3>1, Zenon DEF Waiting
  <2>7. Vforking(t)
    <3>1. ~Sleeps(t, i, "vfork")
      BY <2>2, Zenon DEF Sleeps
    <3> QED
      BY <1>1, <2>2, <2>5, <3>1, KernelIs, SMTT(30) DEF Good, Vforking
  <2> QED
    BY <1>5, <2>2, <2>3, <2>6, <2>7, Commits, Zenon DEF Good, t
<1> QED
  BY <1>3, <1>4, <1>5, Zenon DEF Wait4

LEMMA KillStep ==
  ASSUME NEW i, Running(i), NEW c \in Requests, c.op = "kill", Kill(i, c)
  PROVE  Good(Kernel)'
<1> DEFINE ts == WakePid(tasks, c.pid)
           t == [Kernel EXCEPT !.pend = @ \cup {c.pid}, !.tasks = WakePid(@, c.pid)]
<1>1. /\ i \in Slots /\ Good(Kernel) /\ Pid(i) = tasks[i].pid /\ Pid(i) \in Pids
      /\ tasks[i].used /\ ~tasks[i].blocked /\ tasks \in [Slots -> ProcTask]
      /\ Kernel \in State /\ pend \in SUBSET Pids
  BY KernelIs, Zenon DEF Running, Pid, Good, State
<1>2. c.pid \in Pids
  BY Zenon DEF Requests
<1>3. \A j \in Slots : /\ ts[j] \in ProcTask /\ Stirred(ts[j], tasks[j])
                       /\ ts[j].used /\ ts[j].blocked => ts[j].pid # c.pid
  <2>1. ASSUME NEW j \in Slots
        PROVE  /\ ts[j] \in ProcTask /\ Stirred(ts[j], tasks[j])
               /\ ts[j].used /\ ts[j].blocked => ts[j].pid # c.pid
    <3>1. tasks[j] \in ProcTask
      BY <1>1, Zenon
    <3>2. CASE tasks[j].used /\ tasks[j].blocked /\ tasks[j].pid = c.pid
      <4>1. ts[j] = Release(tasks[j])
        BY <3>1, <3>2, TaskWoken, Zenon DEF WakePid
      <4> QED
        BY <3>1, <4>1, TaskWoken, ZenonT(30) DEF Stirred
    <3>3. CASE ~(tasks[j].used /\ tasks[j].blocked /\ tasks[j].pid = c.pid)
      BY <3>1, <3>3, Zenon DEF WakePid, Stirred
    <3> QED
      BY <3>2, <3>3, Zenon
  <2> QED
    BY <2>1, Zenon
<1>4. ts \in [Slots -> ProcTask]
  BY <1>3, Zenon DEF WakePid
<1>5. t = [Kernel EXCEPT !.pend = pend \cup {c.pid}, !.tasks = ts]
  BY <1>1, KernelIs, Zenon DEF State
<1>6. Return(i, t)
  BY DEF Kill
<1> HIDE DEF ts, t
<1>7. /\ t \in State /\ t.tasks = ts /\ t.pend = pend \cup {c.pid}
      /\ t.procs = procs /\ t.next_pid = next_pid /\ t.live = live /\ t.call = call
  BY <1>1, <1>2, <1>4, <1>5, KernelIs, Zenon DEF State
<1>8. \A j \in Slots : /\ t.tasks[j].used = tasks[j].used
                       /\ t.tasks[j].pid = tasks[j].pid
                       /\ t.tasks[j].space = tasks[j].space
                       /\ t.tasks[j].blocked => t.tasks[j] = tasks[j]
  BY <1>3, <1>7, Zenon DEF Stirred
<1>9. Held(t) /\ Apart(t) /\ Fresh(t)
  <2>1. Held(t)
    BY <1>1, <1>7, <1>8, KernelIs DEF Good, Held
  <2>2. Apart(t)
    BY <1>1, <1>7, <1>8, KernelIs DEF Good, Apart
  <2>3. Fresh(t)
    BY <1>1, <1>7, <1>8, KernelIs DEF Good, Fresh
  <2> QED
    BY <2>1, <2>2, <2>3, Zenon
<1>10. \A j \in Slots : \A op : Sleeps(t, j, op) => /\ Sleeps(Kernel, j, op)
                                                    /\ t.tasks[j] = tasks[j]
                                                    /\ t.tasks[j].pid # c.pid
  BY <1>3, <1>7, <1>8, KernelIs, Zenon DEF Sleeps
<1>11. Waiting(t)
  <2>1. \A pid, want : Kids(t, pid, want) = Kids(Kernel, pid, want)
    BY <1>7, KernelIs, Zenon DEF Kids, Children
  <2>2. ASSUME NEW j \in Slots, Sleeps(t, j, "wait4")
        PROVE  /\ t.tasks[j].wait_addr = WaitKey(t.tasks[j].pid)
               /\ t.tasks[j].pid \notin t.pend
               /\ Kids(t, t.tasks[j].pid, t.call[j].want) # {}
               /\ \A p \in Kids(t, t.tasks[j].pid, t.call[j].want) : ~t.procs[p].exited
    <3>1. /\ Sleeps(Kernel, j, "wait4") /\ t.tasks[j] = tasks[j]
          /\ t.tasks[j].pid # c.pid /\ t.call[j] = call[j]
      BY <1>7, <1>10, <2>2, Zenon
    <3> QED
      BY <1>1, <1>7, <2>1, <3>1, KernelIs DEF Good, Waiting
  <2> QED
    BY <2>2, Zenon DEF Waiting
<1>12. Vforking(t)
  BY <1>1, <1>7, <1>10, KernelIs, SMTT(30) DEF Good, Vforking
<1>13. Good(t)
  BY <1>7, <1>9, <1>11, <1>12, Zenon DEF Good
<1>14. tasks[i].used => t.tasks[i].used /\ ~t.tasks[i].blocked
  BY <1>1, <1>8, Zenon
<1> QED
  BY <1>1, <1>6, <1>8, <1>13, <1>14, ReturnGood, Zenon

-----------------------------------------------------------------------------
(* The invariant and what follows from it.                                 *)

LEMMA GoodStep == Good(Kernel) /\ [Next]_vars => Good(Kernel)'
<1> SUFFICES ASSUME Good(Kernel), [Next]_vars PROVE Good(Kernel)'
  BY Zenon
<1>1. CASE UNCHANGED vars
  <2>1. Kernel' = Kernel
    BY <1>1, Zenon DEF vars, Kernel
  <2> QED
    BY <2>1, SMTT(30) DEF Good, Held, Apart, Fresh, Waiting, Vforking, Sleeps, Kids, Children
<1>2. ASSUME NEW i \in Slots, Run(i) PROVE Good(Kernel)'
  <2>1. Running(i)
    BY <1>2, RunningIs, Zenon DEF Run
  <2>2. ASSUME NEW c \in Requests, Syscall(i, c) PROVE Good(Kernel)'
    BY <2>1, <2>2, CloneStep, ForkStep, ExecStep, ExitStep, Wait4Step, KillStep, Zenon DEF Syscall
  <2>3. CASE call[i].op = "wait4" /\ Wait4(i, call[i])
    <3>1. call[i] \in Requests \cup {NoCall}
      BY <1>2, KernelIs, Zenon DEF Good, State
    <3>2. call[i] \in Requests
      BY <2>3, <3>1 DEF NoCall
    <3> QED
      BY <2>1, <2>3, <3>2, Wait4Step, Zenon
  <2>4. CASE VforkResume(i)
    BY <2>1, <2>4, VforkResumeStep, Zenon
  <2> QED
    BY <1>2, <2>2, <2>3, <2>4, Zenon DEF Run
<1> QED
  BY <1>1, <1>2, Zenon DEF Next

LEMMA GoodInit == Init => Good(Kernel)
<1> SUFFICES ASSUME Init PROVE Good(Kernel)
  BY Zenon
<1>1. PICK space \in Spaces :
        /\ tasks = [i \in Slots |-> IF i = 0 THEN Thread(Leader, space) ELSE NoThread]
        /\ procs = [p \in Pids |-> IF p = Leader
                                   THEN [NoProc EXCEPT !.used = TRUE, !.space = space]
                                   ELSE NoProc]
        /\ live = {space}
  BY Zenon DEF Init
<1>2. /\ Thread(Leader, space) \in ProcTask /\ NoThread \in ProcTask
      /\ ~NoThread.used /\ ~Thread(Leader, space).blocked
      /\ Thread(Leader, space).pid = Leader /\ Thread(Leader, space).space = space
  BY PidFacts, Zenon DEF NoThread, Thread, ProcTask, WaitKeys, RaxValues
<1> DEFINE first == [NoProc EXCEPT !.used = TRUE, !.space = space]
<1>3. /\ first \in ProcRecord /\ first.used /\ ~first.exited
      /\ NoProc \in ProcRecord /\ ~NoProc.used
  BY Zenon DEF NoProc, ProcRecord
<1> HIDE DEF first
<1>4. /\ \A i \in Slots : tasks[i].used => tasks[i] = Thread(Leader, space)
      /\ \A p \in Pids : procs[p].used => p = Leader
      /\ procs[Leader] = first
  BY <1>1, <1>2, <1>3, PidFacts, Zenon DEF first
<1>5. Kernel \in State
  <2>1. tasks \in [Slots -> ProcTask] /\ procs \in [Pids -> ProcRecord]
    BY <1>1, <1>2, <1>3, Zenon DEF first
  <2>2. /\ live \in SUBSET Spaces /\ pend \in SUBSET Pids /\ next_pid \in Nat \ {0}
        /\ call \in [Slots -> Requests \cup {NoCall}]
    BY <1>1 DEF Init
  <2> QED
    BY <2>1, <2>2, Zenon DEF Kernel, State
<1>6. Held(Kernel) /\ Apart(Kernel)
  <2>1. live = {space}
    BY <1>1, Zenon
  <2>2. ASSUME NEW i \in Slots, tasks[i].used
        PROVE  tasks[i].pid = Leader /\ tasks[i].space = space
    BY <1>2, <1>4, <2>2, Zenon
  <2> QED
    BY <1>3, <1>4, <2>1, <2>2, PidFacts, KernelIs, Zenon DEF Held, Apart
<1>7. Fresh(Kernel)
  BY <1>4, KernelIs DEF Fresh, Init, Leader
<1>8. Waiting(Kernel) /\ Vforking(Kernel)
  BY <1>2, <1>4, KernelIs, Zenon DEF Waiting, Vforking, Sleeps
<1> QED
  BY <1>5, <1>6, <1>7, <1>8, Zenon DEF Good

LEMMA ProcessInvariant == Spec => []Good(Kernel)
BY GoodInit, GoodStep, PTL DEF Spec

\* No sequence of forks, execs, exits, signals and reaps of any processes
\* leaves a thread in an address space that was destroyed, two processes in
\* one, or a thread behind a process that has exited.
THEOREM SpacesAreHeld == Spec => []SpacesHeld
<1>1. Good(Kernel) => SpacesHeld
  BY KernelIs, Zenon DEF Good, Held, Apart, SpacesHeld, Live
<1> QED
  BY <1>1, ProcessInvariant, PTL

\* A thread sleeps in wait4 only while a child it asked for is alive and none
\* has exited, and in vfork only while its child has neither called execve nor
\* ended.
THEOREM WaitersAreJustified == Spec => []WaitersJustified
<1>1. ASSUME Good(Kernel) PROVE WaitersJustified
  <2>1. \A i, want : Wanted(Kernel, i, want) = Kids(Kernel, tasks[i].pid, want)
    BY Zenon DEF Wanted, Kids, Pid
  <2>2. \A i, op : Asleep(i, op) <=> Sleeps(Kernel, i, op)
    BY KernelIs, Zenon DEF Asleep, Sleeps
  <2> QED
    BY <1>1, <2>1, <2>2, KernelIs, SMTT(30) DEF Good, Waiting, Vforking, WaitersJustified
<1> QED
  BY <1>1, ProcessInvariant, PTL

\* kill finds the threads that sleep in wait4: none sleeps on while a signal
\* for its process is pending.
THEOREM SignalsAreNoticed == Spec => []SignalsNoticed
<1>1. Good(Kernel) => SignalsNoticed
  BY KernelIs DEF Good, Waiting, SignalsNoticed, Asleep, Sleeps
<1> QED
  BY <1>1, ProcessInvariant, PTL
=============================================================================
