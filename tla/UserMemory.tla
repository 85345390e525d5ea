----------------------------- MODULE UserMemory -----------------------------
(***************************************************************************)
(* What the 64-bit kernel promises a program about its memory: every       *)
(* process has cells of its own, fork gives the child a copy, a store      *)
(* changes the storing process's cell and nobody else's - unless the cell  *)
(* belongs to a file that was mapped shared.  No frames, no page tables.   *)
(*                                                                         *)
(* One value stands for a page's contents, and one file of one page for    *)
(* all.  A call says what may become of each cell it names; others stay.   *)
(***************************************************************************)
EXTENDS Naturals

CONSTANTS Pids, Pages, Vals

VARIABLES mem,      \* the cells of each process; Dead for none
          obj,      \* the contents of the file
          linked    \* the file still has a name

avars == <<mem, obj, linked>>

NoCell == [kind |-> "none", v |-> 0, w |-> FALSE]
Reserved == [kind |-> "reserved", v |-> 0, w |-> FALSE]
Own(v, w) == [kind |-> "own", v |-> v, w |-> w]
FileCell(kind, w) == [kind |-> kind, v |-> 0, w |-> w]
Dead == [a \in Pages |-> [kind |-> "dead", v |-> 0, w |-> FALSE]]

\* The file's contents last as long as its name or a mapping of it.
Held == linked' \/ \E p \in Pids, a \in Pages : mem'[p][a].kind \in {"shared", "private"}
Keep(v) == obj' = IF Held THEN v ELSE 0

(* The calls of a process, by what they make of its cells: old before, new *)
(* after.                                                                  *)

\* These cells become what they may; Call keeps the others.
Cells(new, at, May(_)) == \A a \in at : new[a] \in May(a)

\* A store, by the process or on its behalf (process_vm_writev).
Write(old, new, a, v) ==
  LET shared == old[a].kind = "shared"
  IN  /\ old[a].w
      /\ new[a] = IF shared THEN old[a] ELSE Own(v, TRUE)
      /\ Keep(IF shared THEN v ELSE obj)

\* Pages fresh from an anonymous mapping read as zeros.  Without access they
\* need not be readable at all.
Fresh(prot) == IF prot = "none" THEN {Reserved, Own(0, FALSE)}
               ELSE {Own(0, prot = "write")}

MapAnon(new, at, prot) == Cells(new, at, LAMBDA a : Fresh(prot)) /\ Keep(obj)

\* A private mapping follows the file until the process writes it; the kernel
\* may also give it the bytes of the moment.
MapFile(new, a, shared, w) ==
  /\ linked
  /\ new[a] \in IF shared THEN {FileCell("shared", w)}
                ELSE {FileCell("private", w), Own(obj, w)}
  /\ Keep(obj)

Unmap(new, at) == Cells(new, at, LAMBDA a : {NoCell}) /\ Keep(obj)

\* What mprotect makes of one cell.  A page that has been used stays readable
\* without access (uspace64_protect says so); contents never change.
Protected(c, prot) ==
  CASE c.kind = "none" -> {c}
    [] c.kind = "reserved" -> IF prot = "none" THEN {c, Own(0, FALSE)}
                               ELSE {Own(0, prot = "write")}
    [] OTHER -> {[c EXCEPT !.w = prot = "write"]}
                  \cup {r \in {Reserved} : prot = "none" /\ c.kind = "own" /\ c.v = 0}

Protect(old, new, at, prot) ==
  Cells(new, at, LAMBDA a : Protected(old[a], prot)) /\ Keep(obj)

\* Advice that contents are not needed: own cells may read as zeros.
Discard(old, new, at) ==
  /\ Cells(new, at, LAMBDA a : IF old[a].kind = "own"
                               THEN {old[a], Own(0, old[a].w)} ELSE {old[a]})
  /\ Keep(obj)

Exit(new) == new = Dead /\ Keep(obj)

Ranges == {i .. j : i, j \in Pages} \ {{}}
Protections == {"none", "read", "write"}

\* Nobody may touch a reservation, but the kernel may at any time make it
\* readable: a list of ranges that is full is relieved by the zero page.
Relieved(c, d) == c = Reserved /\ d = Own(0, FALSE)

\* A call of p otherwise changes nothing but the cells it names.
Call(p) ==
  /\ mem[p] # Dead /\ UNCHANGED linked
  /\ \A q \in Pids \ {p} : mem'[q] = mem[q]
  /\ \E old \in {mem[p]}, new \in {mem'[p]} :
       LET changed == {a \in Pages : old[a] # new[a] /\ ~Relieved(old[a], new[a])}
       IN  \/ Exit(new)
           \/ \E a \in Pages :
                /\ changed \subseteq {a}
                /\ \/ \E v \in Vals : Write(old, new, a, v)
                   \/ \E shared, w \in BOOLEAN : MapFile(new, a, shared, w)
           \/ \E at \in Ranges :
                /\ changed \subseteq at
                /\ \/ Unmap(new, at) \/ Discard(old, new, at)
                   \/ \E prot \in Protections :
                        MapAnon(new, at, prot) \/ Protect(old, new, at, prot)

-----------------------------------------------------------------------------
Fork(p, q) == mem[p] # Dead /\ mem[q] = Dead /\ mem'[q] = mem[p] /\ Keep(obj)

Birth(q) == /\ \A p \in Pids \ {q} : mem'[p] = mem[p]
            /\ UNCHANGED linked
            /\ \E p \in Pids : Fork(p, q)

\* The file is written, and loses its name.
File == /\ mem' = mem /\ linked
        /\ \/ UNCHANGED linked /\ \E v \in Vals : Keep(v)
           \/ linked' = FALSE /\ Keep(obj)

Init == /\ \A p \in Pids : mem[p] \in {Dead, [a \in Pages |-> NoCell]}
        /\ obj = 0 /\ linked \in BOOLEAN

Next == \/ \E p \in Pids : Call(p)
        \/ \E q \in Pids : Birth(q)
        \/ File

Spec == Init /\ [][Next]_avars
=============================================================================
