------------------------------ MODULE Files64 -------------------------------
(***************************************************************************)
(* The RAM filesystem of the 64-bit kernel (kernel/ramfs64.c) under the    *)
(* file calls of its programs (kernel/syscall64.c): a table of nodes with  *)
(* a free list, the tree they form, symbolic links, descriptors that keep  *)
(* an unlinked file, and the two ways a file's bytes are stored.           *)
(*                                                                         *)
(* A path is a sequence of names.  A file's bytes are cells: a cell stands *)
(* for a stretch of bytes nothing tells apart, Page cells fill a frame.    *)
(***************************************************************************)
EXTENDS Integers, Sequences, FiniteSets, SequencesExt

CONSTANTS NNodes,     \* RAMFS64_MAX_NODES
          NFds,       \* FD_MAX - 3
          Names,      \* the names in use
          Paths,      \* the paths programs give, from the root or (see cwd) not
          Targets,    \* what symbolic links hold
          LinkMax,    \* RAMFS64_LINK_MAX
          Calls,      \* the calls programs make
          MaxLen,     \* the longest file, in cells
          Contiguous, \* RAMFS64_CONTIGUOUS_MAX
          Page,       \* PAGE64_SIZE
          Memory      \* the answers of kmalloc64 and pmm64_alloc_frame

VARIABLES fs,         \* the nodes and their free list
          fds,        \* the descriptors
          cwd,        \* the working directory, a path
          met         \* not the program's: the corners programs got into

Node == 0..(NNodes - 1)
Root == 0
None == -1
Fd == 1..NFds
Cell == 0..2

\* kids is the list first_child and next_sibling form.  text to spoiled are not
\* the kernel's: what the calls ought to have made of the file, whether it was
\* ever shortened, and whether it then grew over what it had held.
Inode == [used: BOOLEAN, name: Names \cup {""}, parent: Node \cup {None},
          kind: {"dir", "file", "link"}, kids: Seq(Node), openers: Nat, unlinked: BOOLEAN,
          size: 0..MaxLen, data: Seq(Cell), framed: BOOLEAN, frames: Seq(Cell),
          target: Targets \cup {<<>>}, text: Seq(Cell), shrunk: BOOLEAN, spoiled: BOOLEAN]

\* listed, due and cut are not the program's: the entries it has read, those
\* there since it opened the directory, and whether one was taken out meanwhile.
Descriptor == [used: BOOLEAN, node: Node, pos: Nat, listed: SUBSET Node, due: SUBSET Node,
               cut: BOOLEAN, lost: BOOLEAN]

FilesTypeOK ==
  /\ fs \in [node: [Node -> Inode], free: Seq(Node)]
  /\ fds \in [Fd -> Descriptor]
  /\ cwd \in Seq(Names)
  /\ met \subseteq {"rmdir open", "under a file"}

Empty == [used |-> FALSE, name |-> "", parent |-> None, kind |-> "file", kids |-> <<>>,
          openers |-> 0, unlinked |-> FALSE, size |-> 0, data |-> <<>>, framed |-> FALSE,
          frames |-> <<>>, target |-> <<>>, text |-> <<>>, shrunk |-> FALSE,
          spoiled |-> FALSE]
Shut == [used |-> FALSE, node |-> Root, pos |-> 0, listed |-> {}, due |-> {}, cut |-> FALSE,
         lost |-> FALSE]

-----------------------------------------------------------------------------
(* The table.                                                              *)

alloc_node(g, name, parent, kind) ==
  LET n == Head(g.free)
  IN [node |-> [g.node EXCEPT ![parent].kids = <<n>> \o @,
                              ![n] = [Empty EXCEPT !.used = TRUE, !.name = name,
                                                   !.parent = parent, !.kind = kind]],
      free |-> Tail(g.free)]

detach_from_parent(g, n) ==
  [g EXCEPT !.node[g.node[n].parent].kids = SelectSeq(@, LAMBDA k : k # n),
            !.node[n].parent = None]

release_node(g, n) == [node |-> [g.node EXCEPT ![n] = Empty], free |-> <<n>> \o g.free]

Unlinked(g, n) ==
  LET h == [detach_from_parent(g, n) EXCEPT !.node[n].unlinked = TRUE]
  IN IF h.node[n].openers = 0 THEN release_node(h, n) ELSE h

ref_node(g, n) == [g EXCEPT !.node[n].openers = @ + 1]

unref_node(g, n) ==
  LET h == [g EXCEPT !.node[n].openers = IF @ > 0 THEN @ - 1 ELSE 0]
  IN IF ~g.node[n].used THEN g
     ELSE IF h.node[n].openers = 0 /\ h.node[n].unlinked THEN release_node(h, n) ELSE h

-----------------------------------------------------------------------------
(* Paths.                                                                  *)

find_child(g, dir, name) ==
  LET found == {k \in Range(g.node[dir].kids) : g.node[k].name = name}
  IN IF g.node[dir].kind # "dir" \/ found = {} THEN None ELSE CHOOSE k \in found : TRUE

\* walk: a link is replaced by what it holds, from the root if that is
\* absolute - every target here is.
RECURSIVE walk(_, _, _, _, _)
walk(g, n, path, links, follow) ==
  IF path = <<>> THEN n
  ELSE IF Head(path) = ".."
       THEN walk(g, IF g.node[n].parent = None THEN n ELSE g.node[n].parent, Tail(path), links, follow)
  ELSE LET k == find_child(g, n, Head(path))
       IN IF k = None THEN None
          ELSE IF g.node[k].kind = "link" /\ (Len(path) > 1 \/ follow)
               THEN IF links = LinkMax THEN None
                    ELSE walk(g, Root, g.node[k].target \o Tail(path), links + 1, follow)
          ELSE walk(g, k, Tail(path), links, follow)

lookup(g, path) == walk(g, Root, path, 0, TRUE)
lookup_nofollow(g, path) == walk(g, Root, path, 0, FALSE)

\* walk with want_parent: what the last name is looked for in, a directory or
\* not.
ParentOf(g, path) == IF path = <<>> THEN None ELSE walk(g, Root, Front(path), 0, TRUE)

ramfs64_path(g, n) ==
  LET RECURSIVE Up(_)
      Up(k) == IF k = Root THEN <<>>
               ELSE IF g.node[k].parent = None THEN <<g.node[k].name>>
               ELSE Append(Up(g.node[k].parent), g.node[k].name)
  IN Up(n)

\* ramfs64_create: the node under the last name, a new one if there is none.
ramfs64_create(g, path, kind) ==
  LET p == ParentOf(g, path)
      k == IF p = None THEN None ELSE find_child(g, p, Last(path))
  IN CASE p = None -> [node |-> None, fs |-> g]
       [] k # None -> [node |-> k, fs |-> g]
       [] g.free = <<>> -> [node |-> None, fs |-> g]
       [] OTHER -> [node |-> Head(g.free), fs |-> alloc_node(g, Last(path), p, kind)]

-----------------------------------------------------------------------------
(* The bytes of a file.                                                    *)

Zeros(n) == [i \in 1..n |-> 0]
Fit(s, n) == SubSeq(s, 1, IF n < Len(s) THEN n ELSE Len(s)) \o Zeros(IF n > Len(s) THEN n - Len(s) ELSE 0)
Overlay(s, off, bytes) ==
  [i \in DOMAIN s |-> IF i > off /\ i <= off + Len(bytes) THEN bytes[i - off] ELSE s[i]]

\* ensure_capacity: a larger buffer has the file's bytes and zeros.
Capacity(want) == CHOOSE c \in {1, 2, 4, 8} : c >= want /\ \A d \in {1, 2, 4, 8} : d >= want => c <= d
ensure_capacity(nd, want) ==
  IF want <= Len(nd.data) THEN nd
  ELSE [nd EXCEPT !.data = Fit(SubSeq(nd.data, 1, nd.size), Capacity(want))]

\* make_framed: whole frames, the new ones zeroed, and the bytes moved into
\* them.
Need(bytes) == IF bytes = 0 THEN Page ELSE Page * ((bytes + Page - 1) \div Page)
make_framed(nd, bytes) ==
  IF nd.framed /\ Len(nd.frames) >= Need(bytes) THEN nd
  ELSE LET fresh == Fit(nd.frames, Need(bytes))
       IN [nd EXCEPT !.framed = TRUE, !.data = <<>>,
                     !.frames = IF nd.data = <<>> THEN fresh
                                ELSE Overlay(fresh, 0, SubSeq(nd.data, 1, nd.size))]

\* The outcomes of make_framed: no memory for the list of frames, or none for
\* the frames it is to hold.
Framings(nd, bytes) ==
  IF nd.framed /\ Len(nd.frames) >= Need(bytes) THEN {[ok |-> TRUE, nd |-> nd]}
  ELSE {[ok |-> TRUE, nd |-> make_framed(nd, bytes)]}
       \cup (IF FALSE \in Memory THEN {[ok |-> FALSE, nd |-> nd],
                                       [ok |-> FALSE, nd |-> [nd EXCEPT !.framed = TRUE]]}
             ELSE {})

Buffers(nd, want) ==
  {[ok |-> TRUE, nd |-> ensure_capacity(nd, want)]}
  \cup (IF FALSE \in Memory /\ want > Len(nd.data) THEN {[ok |-> FALSE, nd |-> nd]} ELSE {})

Bytes(nd) == IF nd.framed THEN nd.frames ELSE nd.data
Shows(nd) == SubSeq(Bytes(nd), 1, nd.size)
Put(nd, off, bytes) ==
  IF nd.framed THEN [nd EXCEPT !.frames = Overlay(@, off, bytes)]
  ELSE [nd EXCEPT !.data = Overlay(@, off, bytes)]

Longer(nd, len) == IF len > nd.size THEN len ELSE nd.size

\* ramfs64_write: a write that ends beyond Contiguous is given frames up to its
\* own end, which need not be the file's.
Writings(nd, off, bytes) ==
  LET len == off + Len(bytes)
      small == IF nd.framed \/ len > Contiguous THEN {} ELSE Buffers(nd, len)
      large == IF small # {} /\ (\A b \in small : b.ok) THEN {} ELSE Framings(nd, len)
      Done(h) == [Put(h, off, bytes) EXCEPT !.size = Longer(nd, len),
                    !.text = Overlay(Fit(nd.text, Longer(nd, len)), off, bytes),
                    !.spoiled = @ \/ Len(Bytes(h)) < nd.size \/ (nd.shrunk /\ off > nd.size)]
  IN {IF b.ok THEN [ok |-> TRUE, nd |-> Done(b.nd)] ELSE b :
        b \in {c \in small : c.ok} \cup large}

Shortened(nd, len) ==
  [nd EXCEPT !.size = len, !.text = SubSeq(@, 1, len), !.shrunk = @ \/ len < nd.size]

\* ramfs64_resize
Resizings(nd, len) ==
  IF len <= nd.size THEN {[ok |-> TRUE, nd |-> Shortened(nd, len)]}
  ELSE LET Zeroed(h) == IF h.framed THEN h ELSE Put(h, nd.size, Zeros(len - nd.size))
       IN {IF b.ok THEN [ok |-> TRUE, nd |-> [Zeroed(b.nd) EXCEPT !.size = len, !.text = Fit(@, len),
                                                  !.spoiled = @ \/ (nd.shrunk /\ nd.framed)]]
           ELSE b : b \in IF nd.framed THEN Framings(nd, len) ELSE Buffers(nd, len)}

-----------------------------------------------------------------------------
(* The calls.                                                              *)

Absolute(p) == IF "cwd" \in Calls THEN {p, cwd \o p} ELSE {p}
AnyPath == UNION {Absolute(p) : p \in Paths}

FreeFd == {fd \in Fd : ~fds[fd].used /\ \A e \in 1..(fd - 1) : fds[e].used}

\* The node of a descriptor is released under it.
Lose(t, g) == [fd \in Fd |-> IF t[fd].used /\ ~g.node[t[fd].node].used
                             THEN [t[fd] EXCEPT !.lost = TRUE] ELSE t[fd]]

\* The directories being listed in which an entry was lost.
Cut(t, g) == [fd \in Fd |->
  LET gone == t[fd].due \ Range(g.node[t[fd].node].kids)
  IN IF t[fd].used /\ Range(fs.node[t[fd].node].kids) \ Range(g.node[t[fd].node].kids) # {}
     THEN [t[fd] EXCEPT !.cut = TRUE, !.due = @ \ gone] ELSE t[fd]]

\* The new filesystem, and what it makes of descriptors.
Becomes(g) == fs' = g /\ fds' = Cut(Lose(fds, g), g)

Flag(f) == IF f \in Calls THEN BOOLEAN ELSE {FALSE}

\* do_open: the file is made, or emptied, before a descriptor is looked for.
do_open ==
  \E p \in AnyPath, creat \in BOOLEAN, trunc \in Flag("trunc"), append \in Flag("append") :
    LET n == lookup(fs, p)
        made == ramfs64_create(fs, p, "file")
        node == IF n = None THEN made.node ELSE n
        g == IF n = None THEN made.fs
             ELSE IF trunc /\ fs.node[n].kind = "file"
                  THEN [fs EXCEPT !.node[n] = Shortened(@, 0)] ELSE fs
    IN /\ "open" \in Calls
       /\ n = None => creat
       /\ node # None
       /\ met' = IF n = None /\ fs.node[ParentOf(fs, p)].kind # "dir" THEN met \cup {"under a file"}
                 ELSE met
       /\ IF FreeFd = {} THEN fs' = g /\ UNCHANGED fds
          ELSE \E fd \in FreeFd :
                 /\ fs' = ref_node(g, node)
                 /\ fds' = [fds EXCEPT ![fd] =
                       [Shut EXCEPT !.used = TRUE, !.node = node,
                                    !.pos = IF append THEN g.node[node].size ELSE 0,
                                    !.due = Range(g.node[node].kids)]]
       /\ UNCHANGED cwd

\* fd_release; a descriptor whose node was released under it drops whatever is
\* in that slot now.
Close ==
  \E fd \in Fd :
    /\ fds[fd].used
    /\ LET g == unref_node(fs, fds[fd].node)
       IN fs' = g /\ fds' = Lose([fds EXCEPT ![fd] = Shut], g)
    /\ UNCHANGED <<cwd, met>>

\* dup, dup2 and fcntl: the copy has a position of its own.
Dup ==
  /\ "dup" \in Calls
  /\ \E old \in Fd, new \in Fd :
       /\ fds[old].used /\ old # new
       /\ LET h == IF fds[new].used THEN unref_node(fs, fds[new].node) ELSE fs
              g == ref_node(h, fds[old].node)
          IN fs' = g /\ fds' = Lose([fds EXCEPT ![new] = fds[old]], g)
  /\ UNCHANGED <<cwd, met>>

MkdirCall ==
  /\ "mkdir" \in Calls
  /\ \E p \in AnyPath :
       LET made == ramfs64_create(fs, p, "dir")
       IN /\ made.node # None /\ made.fs # fs
          /\ met' = IF fs.node[ParentOf(fs, p)].kind # "dir" THEN met \cup {"under a file"} ELSE met
          /\ Becomes(made.fs)
  /\ UNCHANGED cwd

ramfs64_unlink ==
  /\ "unlink" \in Calls
  /\ \E p \in AnyPath :
       LET n == lookup_nofollow(fs, p)
       IN n # None /\ fs.node[n].kind # "dir" /\ Becomes(Unlinked(fs, n))
  /\ UNCHANGED <<cwd, met>>

\* An open directory is released all the same.
ramfs64_rmdir ==
  /\ "rmdir" \in Calls
  /\ \E p \in AnyPath :
       LET n == lookup_nofollow(fs, p)
       IN /\ n \notin {None, Root} /\ fs.node[n].kind = "dir" /\ fs.node[n].kids = <<>>
          /\ met' = IF fs.node[n].openers > 0 THEN met \cup {"rmdir open"} ELSE met
          /\ Becomes(release_node(detach_from_parent(fs, n), n))
  /\ UNCHANGED cwd

\* The directories above n, n included.
RECURSIVE Above(_, _)
Above(g, n) == IF n = None THEN {} ELSE {n} \cup Above(g, g.node[n].parent)

Moved(g, n, dir, name) ==
  LET h == detach_from_parent(g, n)
  IN [h EXCEPT !.node[n].name = name, !.node[n].parent = dir, !.node[dir].kids = <<n>> \o @]

\* What was under the new name goes first, also when the move is then refused
\* because it would put a directory inside itself.
ramfs64_rename(src, dir, name) ==
  LET old == find_child(fs, dir, name)
      g == IF old = None THEN fs ELSE Unlinked(fs, old)
  IN IF fs.node[src].kind = "dir" /\ src \in Above(g, dir) THEN g ELSE Moved(g, src, dir, name)

RenameCall ==
  /\ "rename" \in Calls
  /\ \E p, q \in AnyPath :
       LET src == lookup_nofollow(fs, p)
           dir == ParentOf(fs, q)
           old == IF dir = None THEN None ELSE find_child(fs, dir, Last(q))
       IN /\ src \notin {None, Root} /\ dir # None /\ old # src
          /\ old # None => /\ (fs.node[old].kind = "dir") = (fs.node[src].kind = "dir")
                           /\ fs.node[old].kind = "dir" => fs.node[old].kids = <<>>
          /\ met' = IF fs.node[dir].kind # "dir" THEN met \cup {"under a file"} ELSE met
          /\ Becomes(ramfs64_rename(src, dir, Last(q)))
  /\ UNCHANGED cwd

ramfs64_symlink ==
  /\ "symlink" \in Calls
  /\ \E p \in AnyPath, t \in Targets :
       LET dir == ParentOf(fs, p)
       IN /\ dir # None /\ find_child(fs, dir, Last(p)) = None /\ fs.free # <<>>
          /\ met' = IF fs.node[dir].kind # "dir" THEN met \cup {"under a file"} ELSE met
          /\ Becomes([alloc_node(fs, Last(p), dir, "link") EXCEPT
                        !.node[Head(fs.free)].target = t])
  /\ UNCHANGED cwd

Chdir ==
  /\ "cwd" \in Calls
  /\ \E n \in {lookup(fs, p) : p \in AnyPath} \cup {fds[fd].node : fd \in {e \in Fd : fds[e].used}} :
       n # None /\ fs.node[n].used /\ fs.node[n].kind = "dir" /\ cwd' = ramfs64_path(fs, n)
  /\ UNCHANGED <<fs, fds, met>>

\* getdents64: the position counts entries, two of them made up.
Getdents ==
  /\ "getdents" \in Calls
  /\ \E fd \in Fd :
       LET d == fds[fd]
           kids == fs.node[d.node].kids
       IN /\ d.used /\ fs.node[d.node].kind = "dir" /\ d.pos < Len(kids)
          /\ fds' = [fds EXCEPT ![fd].pos = @ + 1, ![fd].listed = @ \cup {kids[d.pos + 1]}]
  /\ UNCHANGED <<fs, cwd, met>>

\* write and pwrite, ftruncate and truncate, and the frames mmap asks for.
FileCall ==
  \E fd \in Fd :
    LET d == fds[fd]
        nd == fs.node[d.node]
        Keep(b) == fs' = [fs EXCEPT !.node[d.node] = b.nd]
    IN /\ d.used /\ nd.used /\ nd.kind = "file"
       /\ \/ /\ "write" \in Calls
             /\ \E v \in Cell \ {0}, n \in 1..(MaxLen - d.pos) :
                \E b \in Writings(nd, d.pos, [i \in 1..n |-> v]) :
                  Keep(b) /\ fds' = IF b.ok THEN [fds EXCEPT ![fd].pos = @ + n] ELSE fds
          \/ /\ "seek" \in Calls
             /\ \E pos \in 0..MaxLen : fds' = [fds EXCEPT ![fd].pos = pos]
             /\ UNCHANGED fs
          \/ /\ "resize" \in Calls
             /\ \E len \in 0..MaxLen : \E b \in Resizings(nd, len) : Keep(b)
             /\ UNCHANGED fds
          \/ /\ "mmap" \in Calls
             /\ \E len \in 1..MaxLen : \E b \in Framings(nd, Longer(nd, len)) : Keep(b)
             /\ UNCHANGED fds
       /\ UNCHANGED <<cwd, met>>

FilesInit ==
  /\ fs = [node |-> [n \in Node |-> IF n = Root THEN [Empty EXCEPT !.used = TRUE, !.kind = "dir"]
                                    ELSE Empty],
           free |-> [i \in 1..(NNodes - 1) |-> i]]
  /\ fds = [fd \in Fd |-> Shut]
  /\ cwd = <<>> /\ met = {}

\* Nothing is claimed of a program that got into a corner.
FilesNext ==
  /\ met = {}
  /\ \/ do_open \/ Close \/ Dup \/ MkdirCall \/ ramfs64_unlink \/ ramfs64_rmdir \/ RenameCall
     \/ ramfs64_symlink \/ Chdir \/ Getdents \/ FileCall

FilesSpec == FilesInit /\ [][FilesNext]_<<fs, fds, cwd, met>>

-----------------------------------------------------------------------------
Used == {n \in Node : fs.node[n].used}
Holders(n) == {fd \in Fd : fds[fd].used /\ fds[fd].node = n}

\* The nodes in use form one tree below the root in which a directory has no
\* name twice, whatever is created, moved and removed; the others are on the
\* free list, each once.  A node that has lost its name is in use exactly while
\* descriptors hold it, and each of them still holds the file it opened
\* (alloc_node, release_node, ramfs64_rename, ramfs64_unref_node).
TreeSound ==
  /\ IsInjective(fs.free) /\ Range(fs.free) = Node \ Used
  /\ met = {} =>
       /\ \A n \in Used : LET nd == fs.node[n] IN
            /\ IsInjective(nd.kids)
            /\ \A k \in Range(nd.kids) : k \in Used /\ fs.node[k].parent = n
            /\ \A j, k \in Range(nd.kids) : fs.node[j].name = fs.node[k].name => j = k
            /\ IF nd.unlinked THEN nd.parent = None /\ nd.openers > 0
               ELSE Root \in Above(fs, n) /\ (n # Root => n \in Range(fs.node[nd.parent].kids))
            /\ nd.openers = Cardinality(Holders(n))
       /\ \A fd \in Fd : ~fds[fd].lost

\* A file shows what was written to it, and zeros where nothing was, however
\* it is stored and whatever made it longer or shorter - unless it grew over
\* what it had held before it was shortened, was moved to frames by a write
\* before its end, or memory ran out while its frames were taken (ensure_capacity, make_framed, ramfs64_write,
\* ramfs64_resize).
ContentExact ==
  \A n \in Used : LET nd == fs.node[n] IN
    (nd.kind = "file" /\ ~nd.spoiled /\ ~(nd.framed /\ nd.frames = <<>>)) =>
      /\ nd.size = Len(nd.text) /\ nd.size <= Len(Bytes(nd))
      /\ Shows(nd) = nd.text

\* Reading a directory reaches every entry that is there all along, also when
\* others are added meanwhile - unless one is taken out, which moves the later
\* ones under the reader's position (ramfs64_child, getdents64).
ListingWhole ==
  met = {} =>
    \A fd \in Fd : LET d == fds[fd]
                        kids == fs.node[d.node].kids
                    IN (d.used /\ fs.node[d.node].kind = "dir" /\ ~d.cut) =>
                         d.due \subseteq d.listed \cup Range(SubSeq(kids, d.pos + 1, Len(kids)))
=============================================================================
