--------------------------- MODULE SchedTableProofs -------------------------
(***************************************************************************)
(* What the operators of SchedTable answer, for every size of the table:   *)
(* the facts the proofs about Sched64 and Proc64 share.                    *)
(***************************************************************************)
EXTENDS SchedTable, FiniteSetTheorems, TLAPS

-----------------------------------------------------------------------------
(* The pure operators of SchedTable.                                       *)

\* Every non-empty set of naturals has a least element.
LEMMA LeastNatural ==
  ASSUME NEW T, T \subseteq Nat, T # {}
  PROVE  \E x \in T : \A y \in T : x <= y
<1> DEFINE R == OpToRel(<, Nat)
<1>1. IsWellFoundedOn(R, Nat)
  BY NatLessThanWellFounded
<1>2. \A x, y \in Nat : (<<y, x>> \in R) <=> y < x
  BY DEF OpToRel
<1> HIDE DEF R
<1>3. PICK x \in T : \A y \in T : ~(<<y, x>> \in R)
  BY <1>1, WFMin
<1>4. ASSUME NEW y \in T PROVE x <= y
  <2>1. x \in Nat /\ y \in Nat
    OBVIOUS
  <2>2. ~(y < x)
    BY <2>1, <1>2, <1>3
  <2> QED
    BY <2>1, <2>2
<1> QED
  BY <1>4

\* So Min, with which slots are chosen, names a member of the set.
LEMMA MinMember ==
  ASSUME NEW T, T \subseteq Nat, T # {}
  PROVE  Min(T) \in T /\ \A y \in T : Min(T) <= y
BY LeastNatural DEF Min

\* Slots are naturals, and the table is not empty.
LEMMA SlotsNat == Slots \subseteq Nat /\ NoTask \notin Slots
BY MaxTasksAssumption DEF Slots, NoTask

\* first_runnable answers with a runnable task exactly when there is one.
LEMMA FirstRunnableIs ==
  ASSUME NEW ts
  PROVE  /\ Runnable(ts) = {} => FirstRunnable(ts) = NoTask
         /\ Runnable(ts) # {} => FirstRunnable(ts) \in Runnable(ts)
         /\ FirstRunnable(ts) # NoTask => FirstRunnable(ts) \in Runnable(ts)
         /\ FirstRunnable(ts) = NoTask => Runnable(ts) = {}
<1>1. Runnable(ts) \subseteq Nat /\ NoTask \notin Runnable(ts)
  BY SlotsNat DEF Runnable
<1> QED
  BY <1>1, MinMember DEF FirstRunnable

\* A new task never takes a slot that is in use.
LEMMA FreeSlotIs ==
  ASSUME NEW ts, FreeSlot(ts) # NoTask
  PROVE  FreeSlot(ts) \in Slots \ Live(ts)
<1>1. (Slots \ Live(ts)) \subseteq Nat
  BY SlotsNat
<1> QED
  BY <1>1, MinMember DEF FreeSlot

\* next_task answers with a slot, and with a runnable one when there is one.
LEMMA NextTaskIs ==
  ASSUME NEW ts, NEW from \in Slots
  PROVE  /\ NextTask(ts, from) \in Slots
         /\ Runnable(ts) # {} => NextTask(ts, from) \in Runnable(ts)
         /\ Runnable(ts) = {} => NextTask(ts, from) = from
<1> DEFINE steps == {n \in 1 .. MaxTasks : (from + n) % MaxTasks \in Runnable(ts)}
<1>1. steps \subseteq Nat
  BY MaxTasksAssumption
<1>2. Runnable(ts) \subseteq Slots
  BY DEF Runnable
<1>3. steps # {} => (from + Min(steps)) % MaxTasks \in Runnable(ts)
  <2> SUFFICES ASSUME steps # {} PROVE Min(steps) \in steps
    OBVIOUS
  <2> HIDE DEF steps
  <2> QED
    BY <1>1, MinMember
<1>4. ASSUME NEW i \in Runnable(ts) PROVE steps # {}
  <2>1. i \in Slots /\ i \in Int /\ from \in Int
    BY <1>2, MaxTasksAssumption DEF Slots
  <2> DEFINE n == IF i > from THEN i - from ELSE i - from + MaxTasks
  <2>2. n \in 1 .. MaxTasks
    BY <2>1, MaxTasksAssumption DEF Slots
  <2>3. (from + n) % MaxTasks = i
    <3>1. CASE i > from
      BY <3>1, <2>1, MaxTasksAssumption DEF Slots
    <3>2. CASE ~(i > from)
      <4>1. from + n = i + MaxTasks
        BY <3>2, <2>1, MaxTasksAssumption
      <4>2. (i + MaxTasks) % MaxTasks = i
        BY <2>1, MaxTasksAssumption DEF Slots
      <4> QED
        BY <4>1, <4>2
    <3> QED
      BY <3>1, <3>2
  <2> QED
    BY <2>2, <2>3
<1> QED
  BY <1>2, <1>3, <1>4 DEF NextTask

-----------------------------------------------------------------------------
(* Wakes.                                                                  *)

\* A wake of as many as there are slots leaves no waiter out.
LEMMA WokenAll ==
  ASSUME NEW ts, NEW key, NEW bits, NEW pid
  PROVE  Woken(ts, key, MaxTasks, bits, pid) = Waiters(ts, key, bits, pid)
<1> DEFINE w == Waiters(ts, key, bits, pid)
<1>1. w \subseteq Slots
  BY DEF Waiters
<1> HIDE DEF w
<1>2. ASSUME NEW i \in w PROVE Cardinality({j \in w : j < i}) < MaxTasks
  <2> DEFINE below == {j \in w : j < i}
  <2>1. i \in Nat /\ i < MaxTasks /\ i \in Slots
    BY <1>1, MaxTasksAssumption DEF Slots
  <2>2. below \subseteq 0 .. i - 1
    <3>1. ASSUME NEW j \in below PROVE j \in 0 .. i - 1
      <4>1. j \in Slots /\ j < i
        BY <1>1
      <4> QED
        BY <2>1, <4>1, MaxTasksAssumption DEF Slots
    <3> QED
      BY <3>1
  <2>3. IsFiniteSet(0 .. i - 1) /\ Cardinality(0 .. i - 1) = i
    BY <2>1, FS_Interval
  <2> HIDE DEF below
  <2>4. Cardinality(below) <= i /\ IsFiniteSet(below)
    BY <2>2, <2>3, FS_Subset
  <2>5. Cardinality(below) \in Nat
    BY <2>4, FS_CardinalityType
  <2> QED
    BY <2>1, <2>4, <2>5, MaxTasksAssumption DEF below
<1> QED
  BY <1>2 DEF Woken, w
=============================================================================
