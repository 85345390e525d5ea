-------------------------------- MODULE Vm64 --------------------------------
(***************************************************************************)
(* User memory of the 64-bit kernel: kernel/uspace64.c, vmspace64.c and    *)
(* the frame counts of pmm64.c, with the system calls that reach them.     *)
(*                                                                         *)
(* A page is backed by the fault that first touches it, fork shares frames *)
(* copy-on-write, a mapped file's frames are the file.  System calls and   *)
(* page faults are single steps.  One value stands for a page's contents;  *)
(* there is one file, of one page.  Addresses count PageUnits to a page,   *)
(* so that a break can lie inside one.                                     *)
(*                                                                         *)
(* Frames for page tables are left out: a walk that cannot get one is a    *)
(* choice where its failure leaves a trace (clone_cow, map_frames).  So    *)
(* are devices, which have no count, and the processor's translation cache.*)
(***************************************************************************)
EXTENDS Naturals, Sequences, FiniteSets, FiniteSetsExt, SequencesExt

CONSTANTS Pids,         \* process ids, 1 among them
          NPages,       \* pages of a user half: 1 .. NPages
          PageUnits,    \* PAGE64_SIZE
          BrkBase,      \* brk_base
          MmapBase,     \* USPACE64_MMAP_BASE
          Vals,         \* what a page may hold
          Lengths,      \* the lengths of ranges programs name, in pages
          Prots,        \* the protections they ask for
          Setups        \* the machines and programs a run explores

ASSUME VmAssumption ==
  /\ {NPages, BrkBase, MmapBase} \subseteq Nat /\ PageUnits \in Nat \ {0}
  /\ 1 \in Pids /\ Vals \subseteq Nat /\ Lengths \subseteq Nat \ {0}
  /\ Prots \subseteq {"none", "read", "write"}
  /\ \A u \in Setups : /\ {u.frames, u.refs, u.reserve, u.ranges} \subseteq Nat
                       /\ u.vals \subseteq Vals
                       /\ u.modes \subseteq {"fixed", "noreplace", "place"}

VARIABLES own,      \* owners of a frame: its bit and its count
          data,     \* what a frame holds; a free one holds nothing
          pt,       \* the page tables of each process
          resv,     \* its anonymous ranges, proc64_t.resv
          next,     \* its mmap_next
          brk,      \* its brk_current
          live,     \* the processes there are
          file,     \* the file's node
          zero,     \* zero_frame
          objf,     \* auxiliary: the frame that holds the file's bytes
          setup     \* which of the setups this is; it never changes

vars == <<own, data, pt, resv, next, brk, live, file, zero, objf, setup>>

NFrames == setup.frames     \* frames of memory
RefMax == setup.refs        \* REF_MAX
Reserve == setup.reserve    \* PMM64_USER_RESERVE
ResvMax == setup.ranges     \* PROC64_RESV_MAX
Modes == setup.modes        \* how programs place mappings
Stores == setup.vals        \* what they store
Calls == setup.calls        \* the calls they make

NoFrame == 0
Frames == 1 .. NFrames
Pages == 1 .. NPages
Limit == (NPages + 1) * PageUnits

Page(va) == va \div PageUnits
Up(va) == ((va + PageUnits - 1) \div PageUnits) * PageUnits
\* The pages whose tables a loop from `from' to `to' visits, in order.
PagesOf(from, to) ==
  [i \in 1 .. (Up(to) \div PageUnits) - Page(from) |-> Page(from) + i - 1]

Pte(f, w) == [frame |-> f, w |-> w, cow |-> FALSE, rw |-> FALSE, shared |-> FALSE]
NoPte == Pte(NoFrame, FALSE)

Kernel == [own |-> own, data |-> data, pt |-> pt, resv |-> resv, next |-> next,
           brk |-> brk, live |-> live, file |-> file, zero |-> zero,
           objf |-> objf, ok |-> TRUE]

Commit(s) == /\ own' = s.own /\ data' = s.data /\ pt' = s.pt /\ resv' = s.resv
             /\ next' = s.next /\ brk' = s.brk /\ live' = s.live
             /\ file' = s.file /\ zero' = s.zero /\ objf' = s.objf
             /\ UNCHANGED setup

\* A helper's failure, and a caller that does not look at it.
Failed(s) == [s EXCEPT !.ok = FALSE]
Ignoring(s) == [s EXCEPT !.ok = TRUE]

-----------------------------------------------------------------------------
(* pmm64.c                                                                 *)

Free(s) == {f \in Frames : s.own[f] = 0}

AllocFrame(s) == IF Free(s) = {} THEN NoFrame ELSE Min(Free(s))
AllocHigh(s) == IF Free(s) = {} THEN NoFrame ELSE Max(Free(s))
AllocUser(s) == IF Cardinality(Free(s)) < Reserve THEN NoFrame ELSE AllocHigh(s)

Taken(s, f, v) == [s EXCEPT !.own[f] = 1, !.data[f] = v]

\* The frame goes back, whoever else owns it.
FreeFrameAlways(s, f) ==
  [s EXCEPT !.own[f] = 0, !.data[f] = 0, !.objf = IF f = @ THEN NoFrame ELSE @]

\* Drops an owner; the last one gives the frame back.
FreeFrame(s, f) ==
  IF s.own[f] > 1 THEN [s EXCEPT !.own[f] = @ - 1]
  ELSE FreeFrameAlways(s, f)

CanRef(s, f) == s.own[f] \in 1 .. RefMax
RefFrame(s, f) == IF CanRef(s, f) THEN [s EXCEPT !.own[f] = @ + 1] ELSE s

-----------------------------------------------------------------------------
(* Pages.                                                                  *)

Mapped(s, p, a) == s.pt[p][a] # NoPte
SetPte(s, p, a, e) == [s EXCEPT !.pt[p][a] = e]

\* Mutant: the zero page is freed like any other.
UnmapAny(s, p, a) ==
  IF ~Mapped(s, p, a) THEN s
  ELSE FreeFrame(SetPte(s, p, a, NoPte), s.pt[p][a].frame)

\* Every reservation that spilled stands on the zero page, which nobody frees.
Unmap(s, p, a) ==
  LET f == s.pt[p][a].frame
      t == SetPte(s, p, a, NoPte)
  IN  IF ~Mapped(s, p, a) THEN s
      ELSE IF f = s.zero THEN t ELSE FreeFrame(t, f)

UnmapPages(s, p, from, to) ==
  FoldLeft(LAMBDA t, a : Unmap(t, p, a), s, PagesOf(from, to))

BackPage(s, p, a, w) ==
  LET f == AllocUser(s)
  IN  IF f = NoFrame THEN Failed(s) ELSE SetPte(Taken(s, f, 0), p, a, Pte(f, w))

GetZeroFrame(s) ==
  IF s.zero # NoFrame THEN s
  ELSE IF AllocFrame(s) = NoFrame THEN Failed(s)
  ELSE [Taken(s, AllocFrame(s), 0) EXCEPT !.zero = AllocFrame(s)]

MapZeroPage(s, p, a) == SetPte(s, p, a, Pte(s.zero, FALSE))

-----------------------------------------------------------------------------
(* The list of anonymous ranges.  "none" is a reservation, which nothing   *)
(* may touch; the others are backed when touched.                          *)

Region(from, to, flags) == [from |-> from, to |-> to, flags |-> flags]
Writes(flags) == flags = "write"

\* The list is in order, so a binary search finds it.
FirstAfter(r, va) == Cardinality({i \in DOMAIN r : r[i].to <= va}) + 1

Overlaps(r, from, to) ==
  LET i == FirstAfter(r, from) IN i <= Len(r) /\ r[i].from < to

\* A range the list has no room for is backed now.
SpillRange(s, p, from, to, flags) ==
  FoldLeft(LAMBDA t, a : IF ~t.ok \/ Mapped(t, p, a) THEN t
                         ELSE IF flags = "none" THEN MapZeroPage(t, p, a)
                         ELSE BackPage(t, p, a, Writes(flags)),
           IF flags = "none" THEN GetZeroFrame(s) ELSE s, PagesOf(from, to))

\* Takes a range out of the list.  Splitting needs a slot; without one the
\* piece above is spilled, and if that fails nobody is told.
ResvRemove(s, p, from, to) ==
  LET r == s.resv[p]
      Below(x) == IF x.from < from THEN <<[x EXCEPT !.to = Min({@, from})]>>
                                   ELSE <<>>
      Above(x) == IF x.to > to THEN <<[x EXCEPT !.from = Max({@, to})]>>
                               ELSE <<>>
      Cut(F(_)) == [s EXCEPT !.resv[p] = FlattenSeq([i \in DOMAIN r |-> F(r[i])])]
      straddling == {i \in DOMAIN r : r[i].from < from /\ r[i].to > to}
  IN  IF straddling # {} /\ Len(r) >= ResvMax
      THEN LET x == r[Min(straddling)]
           IN  Ignoring(SpillRange(Cut(LAMBDA y : IF y = x THEN Below(x) ELSE <<y>>),
                                   p, to, x.to, x.flags))
      ELSE Cut(LAMBDA y : Below(y) \o Above(y))

\* Mutant: neighbours are not joined.
ResvAddApart(s, p, from, to, flags) ==
  LET r == s.resv[p]
      i == FirstAfter(r, from)
  IN  IF Len(r) >= ResvMax THEN SpillRange(s, p, from, to, flags)
      ELSE [s EXCEPT !.resv[p] = SubSeq(r, 1, i - 1) \o <<Region(from, to, flags)>>
                                   \o SubSeq(r, i, Len(r))]

\* Records a range, joined to the neighbours it touches.
ResvAdd(s, p, from, to, flags) ==
  LET r == s.resv[p]
      i == FirstAfter(r, from)
      prev == i > 1 /\ r[i - 1].to = from /\ r[i - 1].flags = flags
      succ == i <= Len(r) /\ r[i].from = to /\ r[i].flags = flags
      below == SubSeq(r, 1, IF prev THEN i - 2 ELSE i - 1)
      above == SubSeq(r, IF succ THEN i + 1 ELSE i, Len(r))
      joined == Region(IF prev THEN r[i - 1].from ELSE from,
                       IF succ THEN r[i].to ELSE to, flags)
  IN  IF ~prev /\ ~succ /\ Len(r) >= ResvMax
      THEN SpillRange(s, p, from, to, flags)
      ELSE [s EXCEPT !.resv[p] = below \o <<joined>> \o above]

\* The range, if any, that an absent page at a belongs to.
RangeAt(r, a) ==
  LET i == FirstAfter(r, a * PageUnits)
  IN  IF i <= Len(r) /\ r[i].from <= a * PageUnits THEN r[i].flags ELSE "absent"

-----------------------------------------------------------------------------
(* Placing and making mappings.                                            *)

Fits(from, len) == from < Limit /\ len <= Limit - from

RangeFree(s, p, from, to) ==
  /\ ~Overlaps(s.resv[p], from, to)
  /\ \A a \in Page(from) .. Page(to - 1) : ~Mapped(s, p, a)

\* Mutant: the bump pointer is the answer by itself.
FindFreeBump(s, p, len) == IF Fits(s.next[p], len) THEN s.next[p] ELSE 0

\* find_free steps over what is in the way; no start it skips would do.
FindFree(s, p, len) ==
  LET good == {a \in Pages : /\ a * PageUnits >= s.next[p]
                             /\ Fits(a * PageUnits, len)
                             /\ RangeFree(s, p, a * PageUnits, a * PageUnits + len)}
  IN  IF good = {} THEN 0 ELSE Min(good) * PageUnits

Place(s, p, addr, len, mode) ==
  CASE mode = "fixed" -> IF Fits(addr, len) THEN addr ELSE 0
    [] mode = "noreplace" ->
         IF Fits(addr, len) /\ RangeFree(s, p, addr, addr + len) THEN addr ELSE 0
    [] OTHER ->
         IF addr # 0 /\ Fits(addr, len) /\ RangeFree(s, p, addr, addr + len)
         THEN addr ELSE FindFree(s, p, len)

BumpPast(s, p, to) == [s EXCEPT !.next[p] = Max({@, to})]

\* Mutant: a page already there is kept by mmap too.
MapAnonPageKept(s, p, a, flags, zero_existing) ==
  LET f == s.pt[p][a].frame
  IN  IF Mapped(s, p, a) /\ f # s.zero THEN SetPte(s, p, a, Pte(f, Writes(flags)))
      ELSE Unmap(s, p, a)

\* A page already there is dropped, or kept under the new flags by brk.
MapAnonPage(s, p, a, flags, zero_existing) ==
  LET f == s.pt[p][a].frame
  IN  IF Mapped(s, p, a) /\ f # s.zero /\ ~zero_existing
      THEN SetPte(s, p, a, Pte(f, Writes(flags)))
      ELSE Unmap(s, p, a)

MapAnon(s, p, from, to, flags, zero_existing) ==
  ResvAdd(FoldLeft(LAMBDA t, a : MapAnonPage(t, p, a, flags, zero_existing),
                   ResvRemove(s, p, from, to), PagesOf(from, to)),
          p, from, to, flags)

Mmap(s, p, addr, len, prot, mode) ==
  LET from == Place(s, p, addr, len, mode)
      to == from + len
      t == IF prot = "none"
           THEN ResvAdd(ResvRemove(UnmapPages(s, p, from, to), p, from, to),
                        p, from, to, "none")
           ELSE MapAnon(s, p, from, to, prot, TRUE)
  IN  IF t.ok /\ mode = "place" THEN BumpPast(t, p, to) ELSE t

Brk(s, p, addr) ==
  LET t == MapAnon(s, p, s.brk[p], Up(addr), "write", FALSE)
  IN  IF addr < BrkBase THEN s
      ELSE IF Up(addr) <= s.brk[p] THEN [s EXCEPT !.brk[p] = addr]
      ELSE IF t.ok THEN [t EXCEPT !.brk[p] = addr] ELSE t

Munmap(s, p, from, to) == UnmapPages(ResvRemove(s, p, from, to), p, from, to)

\* mprotect of a page that is there.
SetWritable(s, p, a, w) ==
  LET e == s.pt[p][a]
      f == AllocHigh(s)
  IN  IF ~Mapped(s, p, a) THEN s
      ELSE IF e.frame = s.zero /\ w
      THEN IF f = NoFrame THEN s ELSE SetPte(Taken(s, f, 0), p, a, Pte(f, TRUE))
      ELSE IF e.cow THEN SetPte(s, p, a, [e EXCEPT !.rw = w, !.w = FALSE])
      ELSE SetPte(s, p, a, [e EXCEPT !.w = w])

\* The ranges of the list inside [from, to), each given its new protection.
ProtectRanges(s, p, from, to, prot) ==
  FoldLeft(LAMBDA t, x :
             LET lo == Max({x.from, from})
                 hi == Min({x.to, to})
             IN  IF lo >= hi \/ x.flags = prot THEN t
                 ELSE Ignoring(ResvAdd(ResvRemove(t, p, lo, hi), p, lo, hi, prot)),
           s, s.resv[p])

Protect(s, p, from, to, prot) ==
  FoldLeft(LAMBDA t, a : SetWritable(t, p, a, prot = "write"),
           ProtectRanges(s, p, from, to, prot), PagesOf(from, to))

\* madvise: pages of anonymous ranges come back as zeros when next touched.
Discard(s, p, from, to) ==
  FoldLeft(LAMBDA t, a : IF RangeAt(t.resv[p], a) \in {"read", "write"}
                         THEN Unmap(t, p, a) ELSE t,
           s, PagesOf(from, to))

-----------------------------------------------------------------------------
(* Faults, and stores made for another process.                            *)

ForgetObj(s, f) == [s EXCEPT !.objf = IF f = @ THEN NoFrame ELSE @]

\* Mutant: the shared frame is written in place.
BreakCowKept(s, p, a) ==
  LET e == s.pt[p][a]
  IN  IF ~e.cow \/ ~e.rw THEN Failed(s)
      ELSE SetPte(s, p, a, [e EXCEPT !.cow = FALSE, !.rw = FALSE, !.w = TRUE])

\* The first store to a shared page: a copy, unless nobody else has it.
BreakCow(s, p, a) ==
  LET e == s.pt[p][a]
      f == AllocUser(s)
      Whole(g) == [e EXCEPT !.frame = g, !.cow = FALSE, !.rw = FALSE, !.w = TRUE]
  IN  IF ~e.cow \/ ~e.rw THEN Failed(s)
      ELSE IF s.own[e.frame] <= 1
      THEN ForgetObj(SetPte(s, p, a, Whole(e.frame)), e.frame)
      ELSE IF f = NoFrame THEN Failed(s)
      ELSE SetPte(FreeFrame(Taken(s, f, s.data[e.frame]), e.frame), p, a, Whole(f))

Fault(s, p, a, write) ==
  LET flags == RangeAt(s.resv[p], a)
  IN  IF flags \in {"absent", "none"} \/ (write /\ ~Writes(flags)) THEN Failed(s)
      ELSE BackPage(s, p, a, Writes(flags))

\* What page_fault_handler makes of an access before it runs again.
Touched(s, p, a, write) ==
  IF ~Mapped(s, p, a) THEN Fault(s, p, a, write)
  ELSE IF write /\ ~s.pt[p][a].w THEN BreakCow(s, p, a) ELSE s

\* Whether the handler was refused a frame, in which case the process ends.
OutOfMemory(s, p, a, write) ==
  /\ AllocUser(s) = NoFrame
  /\ ~Touched(s, p, a, write).ok
  /\ IF Mapped(s, p, a) THEN s.pt[p][a].cow /\ s.pt[p][a].rw
     ELSE RangeAt(s.resv[p], a) = "write" \/ (RangeAt(s.resv[p], a) = "read" /\ ~write)

Stored(s, p, a, v) == [s EXCEPT !.data[s.pt[p][a].frame] = v]

\* vmspace64_user_frame and uspace64_back_in, for process_vm_writev.
UserPage(s, p, a) ==
  LET e == s.pt[p][a]
      f == AllocHigh(s)
  IN  IF Mapped(s, p, a)
      THEN IF e.frame = s.zero THEN Failed(s)
           ELSE IF e.cow THEN BreakCow(s, p, a)
           ELSE IF e.w THEN s ELSE Failed(s)
      ELSE IF RangeAt(s.resv[p], a) # "write" \/ f = NoFrame THEN Failed(s)
      ELSE SetPte(Taken(s, f, 0), p, a, Pte(f, TRUE))

-----------------------------------------------------------------------------
(* Address spaces.                                                         *)

NoPages == [a \in Pages |-> NoPte]

Destroy(s, p) ==
  [UnmapPages(s, p, PageUnits, Limit) EXCEPT
     !.live = @ \ {p}, !.resv[p] = <<>>, !.next[p] = MmapBase, !.brk[p] = BrkBase]

ShareFlags(e) == [e EXCEPT !.w = FALSE, !.cow = TRUE, !.rw = e.rw \/ e.w]

\* Mutant: the parent keeps its write bit.
ClonePageOneSide(s, p, q, a) ==
  LET e == s.pt[p][a]
  IN  IF CanRef(s, e.frame) THEN SetPte(RefFrame(s, e.frame), q, a, ShareFlags(e))
      ELSE Failed(s)

ClonePage(s, p, q, a) ==
  LET e == s.pt[p][a]
      f == AllocHigh(s)
  IN  IF e.frame = s.zero THEN SetPte(s, q, a, e)
      ELSE IF ~CanRef(s, e.frame)
      THEN IF f = NoFrame THEN Failed(s)
           ELSE SetPte(Taken(s, f, s.data[e.frame]), q, a, [e EXCEPT !.frame = f])
      ELSE IF e.shared THEN SetPte(RefFrame(s, e.frame), q, a, e)
      ELSE SetPte(SetPte(RefFrame(s, e.frame), p, a, ShareFlags(e)), q, a, ShareFlags(e))

\* Page by page; stop is the first page whose tables cannot be had.
CloneCow(s, p, q, stop) ==
  FoldLeft(LAMBDA t, a : IF ~t.ok \/ ~Mapped(t, p, a) THEN t
                         ELSE IF a >= stop THEN Failed(t)
                         ELSE ClonePage(t, p, q, a),
           s, PagesOf(PageUnits, Limit))

-----------------------------------------------------------------------------
(* The file.                                                               *)

MakeFramed(s) ==
  LET f == AllocFrame(s)
  IN  IF s.file.frame # NoFrame THEN s
      ELSE [Taken(s, f, s.file.val) EXCEPT !.file.frame = f, !.file.val = 0,
                                           !.objf = f]

FilePte(f, w, shared) ==
  IF shared THEN [Pte(f, w) EXCEPT !.shared = TRUE]
  ELSE [Pte(f, FALSE) EXCEPT !.cow = TRUE, !.rw = w]

\* map_frames takes what it finds at a fixed place away without asking
\* whether it is the zero page.
Replaced(s, p, a) ==
  IF Mapped(s, p, a) THEN FreeFrame(SetPte(s, p, a, NoPte), s.pt[p][a].frame)
  ELSE s

MapFrames(s, p, addr, w, shared, tables) ==
  LET fixed == addr # 0
      from == IF fixed THEN addr ELSE FindFree(s, p, PageUnits)
      t == IF fixed THEN Replaced(ResvRemove(s, p, from, from + PageUnits), p, Page(from))
           ELSE s
      f == s.file.frame
      m == RefFrame(SetPte(t, p, Page(from), FilePte(f, w, shared)), f)
  IN  IF from = 0 \/ f = NoFrame THEN Failed(s)
      ELSE IF ~tables THEN Failed(t)
      ELSE IF fixed THEN m ELSE BumpPast(m, p, from + PageUnits)

\* A private mapping that cannot have the file's frames is a copy, made by
\* the kernel through a mapping that is writable until it has been filled.
CopyFile(s, p, addr, w) ==
  LET mode == IF addr # 0 THEN "fixed" ELSE "place"
      from == Place(s, p, addr, PageUnits, mode)
      t == Mmap(s, p, addr, PageUnits, "write", mode)
      b == Touched(t, p, Page(from), TRUE)
      c == Stored(b, p, Page(from), IF s.file.frame = NoFrame THEN s.file.val
                                    ELSE s.data[s.file.frame])
  IN  IF from = 0 THEN s
      ELSE IF ~t.ok THEN t
      ELSE IF ~b.ok THEN Destroy(t, p)
      ELSE IF w THEN c ELSE Protect(c, p, from, from + PageUnits, "read")

-----------------------------------------------------------------------------
Init ==
  /\ setup \in Setups
  /\ own = [f \in Frames |-> 0]
  /\ data = [f \in Frames |-> 0]
  /\ pt = [p \in Pids |-> NoPages]
  /\ resv = [p \in Pids |-> <<>>]
  /\ next = [p \in Pids |-> MmapBase]
  /\ brk = [p \in Pids |-> BrkBase]
  /\ live = {1}
  /\ file = [linked |-> "file" \in Calls, frame |-> NoFrame, val |-> 0]
  /\ zero = NoFrame
  /\ objf = NoFrame

Addrs == {a * PageUnits : a \in Pages}
Lens == {n * PageUnits : n \in Lengths}
InHalf(from, len) == from + len <= Limit

Store(p, a, v) ==
  /\ "store" \in Calls
  /\ LET t == Touched(Kernel, p, a, TRUE)
     IN  IF t.ok THEN Commit(Stored(t, p, a, v))
         ELSE OutOfMemory(Kernel, p, a, TRUE) /\ Commit(Destroy(Kernel, p))

Load(p, a) ==
  /\ "load" \in Calls
  /\ LET t == Touched(Kernel, p, a, FALSE)
     IN  IF t.ok THEN Commit(t)
         ELSE OutOfMemory(Kernel, p, a, FALSE) /\ Commit(Destroy(Kernel, p))

VmWrite(p, a, v) ==
  /\ "vm_write" \in Calls
  /\ LET t == UserPage(Kernel, p, a) IN t.ok /\ Commit(Stored(t, p, a, v))

SysMmap(p, addr, len, prot, mode) ==
  /\ "mmap" \in Calls /\ Place(Kernel, p, addr, len, mode) # 0
  /\ Commit(Mmap(Kernel, p, addr, len, prot, mode))

\* short is what runs short: the heap, for the list of the file's frames, or
\* page tables to map them.
SysMmapFile(p, addr, w, shared, short) ==
  /\ "mmap_file" \in Calls /\ file.linked
  /\ (IF addr = 0 THEN "place" ELSE "fixed") \in Modes
  /\ file.frame # NoFrame \/ Free(Kernel) # {}
  /\ LET s == IF short = "heap" THEN Kernel ELSE MakeFramed(Kernel)
         m == MapFrames(s, p, addr, w, shared, short # "tables")
     IN  Commit(IF m.ok \/ shared THEN m ELSE CopyFile(Ignoring(m), p, addr, w))

SysBrk(p, addr) == "brk" \in Calls /\ Commit(Brk(Kernel, p, addr))

SysMunmap(p, from, len) ==
  "munmap" \in Calls /\ InHalf(from, len) /\ Commit(Munmap(Kernel, p, from, from + len))

SysMprotect(p, from, len, prot) ==
  /\ "mprotect" \in Calls /\ InHalf(from, len)
  /\ Commit(Protect(Kernel, p, from, from + len, prot))

SysMadvise(p, from, len) ==
  "madvise" \in Calls /\ InHalf(from, len) /\ Commit(Discard(Kernel, p, from, from + len))

\* proc64_create takes the first free slot.
Fork(p, stop) ==
  /\ "fork" \in Calls /\ live # Pids
  /\ LET q == Min(Pids \ live)
         t == CloneCow([Kernel EXCEPT !.resv[q] = resv[p], !.next[q] = next[p],
                                      !.brk[q] = brk[p], !.live = @ \cup {q}],
                       p, q, stop)
     IN  Commit(IF t.ok THEN t ELSE Destroy(t, q))

Exit(p) == "exit" \in Calls /\ Commit(Destroy(Kernel, p))

FileWrite(v) ==
  /\ "file" \in Calls /\ file.linked
  /\ IF file.frame # NoFrame THEN Commit([Kernel EXCEPT !.data[file.frame] = v])
     ELSE Commit([Kernel EXCEPT !.file.val = v])

\* The last name and the last descriptor go: release_node.
Unlink ==
  /\ "file" \in Calls /\ file.linked
  /\ LET t == [Kernel EXCEPT !.file = [linked |-> FALSE, frame |-> NoFrame, val |-> 0]]
     IN  Commit(IF file.frame = NoFrame THEN t ELSE FreeFrame(t, file.frame))

Next ==
  \/ \E p \in live, a \in Pages :
       \/ \E v \in Stores : Store(p, a, v)
       \/ Load(p, a)
       \/ \E v \in Stores : VmWrite(p, a, v)
  \/ \E p \in live, addr \in Addrs \cup {0}, len \in Lens, prot \in Prots,
        mode \in Modes :
       (addr # 0 \/ mode = "place") /\ SysMmap(p, addr, len, prot, mode)
  \/ \E p \in live, addr \in Addrs \cup {0}, w, shared \in BOOLEAN,
        short \in {"heap", "tables", "nothing"} :
       SysMmapFile(p, addr, w, shared, short)
  \/ \E p \in live, addr \in BrkBase .. MmapBase : SysBrk(p, addr)
  \/ \E p \in live, from \in Addrs, len \in Lens :
       \/ SysMunmap(p, from, len)
       \/ SysMadvise(p, from, len)
       \/ \E prot \in Prots : SysMprotect(p, from, len, prot)
  \/ \E p \in live :
       \E stop \in {a \in Pages : Mapped(Kernel, p, a)} \cup {NPages + 1} : Fork(p, stop)
  \/ \E p \in live : Exit(p)
  \/ \E v \in Stores : FileWrite(v)
  \/ Unlink

Spec == Init /\ [][Next]_vars

-----------------------------------------------------------------------------
(* Properties.                                                             *)

TypeOK ==
  /\ own \in [Frames -> 0 .. RefMax + 1]
  /\ data \in [Frames -> Vals \cup {0}]
  /\ pt \in [Pids -> [Pages -> [frame : Frames \cup {NoFrame}, w : BOOLEAN,
                                cow : BOOLEAN, rw : BOOLEAN, shared : BOOLEAN]]]
  /\ \A p \in Pids : Len(resv[p]) <= ResvMax
  /\ live \subseteq Pids /\ zero \in Frames \cup {NoFrame}

\* Every frame has as many owners as there are page table entries that name
\* it, plus one while the file keeps it; the zero page has its one.  So no
\* frame is freed under a mapping and none is lost - whatever forks, fails to
\* fork, unmaps, replaces or ends (pmm64_free_frame, pmm64_ref_frame).
OwnersExact ==
  \A f \in Frames :
    own[f] = IF f = zero THEN 1
             ELSE Cardinality({x \in Pids \X Pages : pt[x[1]][x[2]].frame = f})
                  + (IF f = file.frame THEN 1 ELSE 0)

\* A page a process can write without a fault is its own, or a file's that it
\* shares on purpose: no other page table entry names the frame.  It is why
\* clone_cow takes the write bit from both sides.
WritableAlone ==
  \A x, y \in Pids \X Pages :
    LET e == pt[x[1]][x[2]]
    IN  x # y /\ e.w /\ ~e.shared => pt[y[1]][y[2]].frame # e.frame

\* The list stays sorted, disjoint, joined where it can be, and inside the
\* half: what the binary search of resv_first_after needs.
ResvSorted ==
  \A p \in Pids : \A i \in DOMAIN resv[p] :
    /\ resv[p][i].from < resv[p][i].to /\ resv[p][i].to <= Limit
    /\ i < Len(resv[p]) =>
         \/ resv[p][i].to < resv[p][i + 1].from
         \/ /\ resv[p][i].to = resv[p][i + 1].from
            /\ resv[p][i].flags # resv[p][i + 1].flags

DeadCell == [kind |-> "dead", v |-> 0, w |-> FALSE]

\* What process p finds at page a.
Cell(p, a) ==
  LET e == pt[p][a]
      flags == RangeAt(resv[p], a)
  IN  IF e # NoPte
      THEN IF e.shared THEN [kind |-> "shared", v |-> 0, w |-> e.w]
           ELSE IF e.cow /\ e.frame = objf THEN [kind |-> "private", v |-> 0, w |-> e.rw]
           ELSE [kind |-> "own", v |-> data[e.frame], w |-> e.w \/ (e.cow /\ e.rw)]
      ELSE CASE flags = "absent" -> [kind |-> "none", v |-> 0, w |-> FALSE]
             [] flags = "none" -> [kind |-> "reserved", v |-> 0, w |-> FALSE]
             [] OTHER -> [kind |-> "own", v |-> 0, w |-> Writes(flags)]

Memory == INSTANCE UserMemory WITH
  mem <- [p \in Pids |-> [a \in Pages |-> IF p \in live THEN Cell(p, a) ELSE DeadCell]],
  obj <- IF objf # NoFrame THEN data[objf] ELSE IF file.linked THEN file.val ELSE 0,
  linked <- file.linked

\* A mapping the kernel places lands where the process had nothing: a step
\* that moves the bump pointer changes no cell that was in use (find_free,
\* which has to know of pages and of ranges that have none yet).
PlacedOnFree ==
  [][\A p \in live \cap live', a \in Pages :
       next'[p] # next[p] => Cell(p, a)' = Cell(p, a) \/ Cell(p, a).kind = "none"]_vars

\* Demand paging, copy-on-write, reservations and framed files implement
\* processes with memories of their own: no store shows in another process
\* unless the page is a shared file's, a fresh page reads as zeros, and no
\* call changes a page it does not name.
ImplementsUserMemory == Memory!Spec
=============================================================================
