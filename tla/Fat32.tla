------------------------------- MODULE Fat32 --------------------------------
(* kernel/fat32.c: the cached FAT, the cached nodes, the disk they are     *)
(* written to, and a machine that may stop between any two writes.         *)
(*                                                                         *)
(* A call works on memory and leaves a list of disk writes in the order the *)
(* code makes them; the writes happen one at a time, nothing else runs     *)
(* until they are done, and a power cut drops the rest and everything in   *)
(* memory.  One FAT sector holds the whole table, and the entries of one   *)
(* directory are modelled; file bytes come in units, CB to a cluster.      *)
EXTENDS Integers, Sequences, FiniteSets

CONSTANTS Names,      \* names in the directory
          NClusters,  \* clusters of the volume
          CB,         \* units of data in a cluster
          Values,     \* what programs write
          MaxLen,     \* bound: units in a file
          MaxCuts,    \* bound: power cuts
          FatCalls,   \* the calls programs make
          Fragile     \* calls after whose interruption nothing is promised

VARIABLES fat,       \* the cached FAT sector
          hint,      \* vol.free_hint
          nodes,     \* the cached nodes of the directory
          fatDisk, dirDisk, dataDisk,  \* what is on the disk
          todo,      \* disk writes of the call in progress, in order
          call,      \* the call in progress
          files,     \* not in the code: what each file should read as
          cuts, torn \* power cuts so far, and whether one tore a fragile call

fatVars == <<fat, hint, nodes, fatDisk, dirDisk, dataDisk, todo, call, files, cuts, torn>>

Clusters == 1..NClusters
FREE == 0
EOC == NClusters + 1
Zero == "zero"
NoNode == [kind |-> "none", first |-> 0, len |-> 0]

-----------------------------------------------------------------------------
(* The FAT.                                                                *)

\* The n-th link of the chain that starts at first; not a cluster past its end.
Link(f, first, n) ==
  LET at[i \in 0..n] == IF i = 0 THEN first
                        ELSE IF at[i - 1] \in Clusters THEN f[at[i - 1]] ELSE EOC
  IN at[n]

chain_nth(f, first, n) == Link(f, first, n)

\* Bounded by the volume, so a chain that loops ends too.
chain_length(f, first) ==
  Cardinality({n \in 0..NClusters : \A m \in 0..n : Link(f, first, m) \in Clusters})

Chain(f, first) == {Link(f, first, n) : n \in 0..(chain_length(f, first) - 1)}

Lowest(S) == CHOOSE c \in S : \A d \in S : c <= d
FreeIn(f) == {c \in Clusters : f[c] = FREE}

\* alloc_cluster searches from the hint, then from the start.
NextFree(v) == LET late == {c \in FreeIn(v.fat) : c >= v.hint} IN
               Lowest(IF late # {} THEN late ELSE FreeIn(v.fat))

alloc_cluster(v, prev) ==
  LET c == NextFree(v)
      g == [v.fat EXCEPT ![c] = EOC] IN
  [v EXCEPT !.fat = IF prev \in Clusters THEN [g EXCEPT ![prev] = c] ELSE g,
            !.hint = c + 1, !.fresh = Append(@, c)]

free_chain(f, first) == [c \in Clusters |-> IF c \in Chain(f, first) THEN FREE ELSE f[c]]

free_hint(f, h, first) ==
  IF Chain(f, first) = {} THEN h ELSE LET l == Lowest(Chain(f, first)) IN IF l < h THEN l ELSE h

Volume == [fat |-> fat, hint |-> hint, fresh |-> <<>>]

Needs(len) == (len + CB - 1) \div CB

\* ensure_chain: all the clusters or none.
ensure_chain(first, need) ==
  LET had == chain_length(fat, first)
      take == IF need > had THEN need - had ELSE 0
      step[k \in 0..take] ==
        IF k = 0 THEN Volume
        ELSE LET v == step[k - 1] IN
             alloc_cluster(v, IF k > 1 THEN v.fresh[k - 1]
                              ELSE IF had > 0 THEN chain_nth(fat, first, had - 1) ELSE 0)
      ok == Cardinality(FreeIn(fat)) >= take
  IN [ok |-> ok, v |-> IF ok THEN step[take] ELSE Volume]

\* What rolling back leaves: the same FAT, the hint at the first cluster that
\* was taken and given back.
RolledBackHint == IF FreeIn(fat) = {} THEN hint ELSE Lowest(FreeIn(fat))

-----------------------------------------------------------------------------
(* Disk writes.                                                            *)

WFat(f) == [to |-> "fat", fat |-> f]
WDir(n, e) == [to |-> "dir", name |-> n, entry |-> e]
WData(d) == [to |-> "data", data |-> d]

\* zero_cluster for every new cluster, then fat_write_raw of the units of
\* [off, off + n).  The sectors of one call's data go out as one write: how
\* far it got shows in no entry and no FAT.
WriteUnits(fresh, f, first, off, n, v) ==
  WData([c \in Clusters |-> [u \in 0..(CB - 1) |->
     IF \E p \in off..(off + n - 1) : chain_nth(f, first, p \div CB) = c /\ p % CB = u THEN v
     ELSE IF c \in {fresh[i] : i \in DOMAIN fresh} THEN Zero
     ELSE dataDisk[c][u]]])

WriteMetaEntryFirst(f, n, e) == <<WDir(n, e), WFat(f)>>

\* The FAT before the directory entry.
WriteMeta(f, n, e) == <<WFat(f), WDir(n, e)>>
Does(name, writes) == /\ todo = <<>> /\ ~torn /\ name \in FatCalls
                      /\ call' = name /\ todo' = writes

Content(f, d, e) ==
  [p \in 1..e.len |->
     LET c == chain_nth(f, e.first, (p - 1) \div CB) IN
     IF c \in Clusters THEN d[c][(p - 1) % CB] ELSE Zero]

-----------------------------------------------------------------------------
(* Calls.                                                                  *)

fat_create(n) ==
  LET e == [NoNode EXCEPT !.kind = "file"] IN
  /\ nodes[n] = NoNode
  /\ Does("create", <<WDir(n, e), WFat(fat)>>)
  /\ nodes' = [nodes EXCEPT ![n] = e]
  /\ files' = [files EXCEPT ![n] = <<>>]
  /\ UNCHANGED <<fat, hint>>

\* The directory's cluster is marked in the cached FAT only; its entry is
\* written before the FAT is flushed.
fat_mkdir(n) ==
  LET r == ensure_chain(0, 1)
      e == [kind |-> "dir", first |-> r.v.fresh[1], len |-> 0] IN
  /\ nodes[n] = NoNode /\ r.ok
  /\ Does("mkdir", <<WriteUnits(r.v.fresh, fat, 0, 0, 0, Zero), WDir(n, e), WFat(r.v.fat)>>)
  /\ fat' = r.v.fat /\ hint' = r.v.hint
  /\ nodes' = [nodes EXCEPT ![n] = e]
  /\ files' = [files EXCEPT ![n] = <<>>]

fat_write(n, off, size, v) ==
  LET e == nodes[n]
      r == ensure_chain(e.first, Needs(off + size))
      first == IF e.first = 0 THEN r.v.fresh[1] ELSE e.first
      grown == [e EXCEPT !.first = first,
                         !.len = IF off + size > @ THEN off + size ELSE @] IN
  /\ e.kind = "file"
  /\ IF r.ok
     THEN /\ Does("write", <<WriteUnits(r.v.fresh, r.v.fat, first, off, size, v)>>
                           \o WriteMeta(r.v.fat, n, grown))
          /\ fat' = r.v.fat /\ hint' = r.v.hint
          /\ nodes' = [nodes EXCEPT ![n] = grown]
          /\ files' = [files EXCEPT ![n] =
               [p \in 1..grown.len |-> IF p \in (off + 1)..(off + size) THEN v ELSE @[p]]]
     ELSE /\ Does("write", <<>>)
          /\ hint' = RolledBackHint
          /\ UNCHANGED <<fat, nodes, files>>


\* Growing: new clusters are zeroed, and the tail of the old last one.
Grow(n, len) ==
  LET e == nodes[n]
      end == chain_length(fat, e.first) * CB
      gap == IF len < end THEN len ELSE end
      r == ensure_chain(e.first, Needs(len))
      g == [e EXCEPT !.first = IF @ = 0 THEN r.v.fresh[1] ELSE @, !.len = len] IN
  IF r.ok
  THEN /\ Does("truncate", <<WriteUnits(r.v.fresh, r.v.fat, g.first, e.len, IF gap > e.len THEN gap - e.len ELSE 0, Zero)>>
                 \o WriteMeta(r.v.fat, n, g))
       /\ fat' = r.v.fat /\ hint' = r.v.hint
       /\ nodes' = [nodes EXCEPT ![n] = g]
       /\ files' = [files EXCEPT ![n] = [p \in 1..len |-> IF p <= e.len THEN @[p] ELSE Zero]]
  ELSE /\ Does("truncate", <<>>)
       /\ hint' = RolledBackHint
       /\ UNCHANGED <<fat, nodes, files>>

\* Shrinking frees the clusters past the new end.
Shrink(n, len) ==
  LET e == nodes[n]
      keep == Needs(len)
      last == chain_nth(fat, e.first, keep - 1)
      rest == IF keep = 0 THEN e.first ELSE fat[last]
      cut == IF keep = 0 THEN fat ELSE [fat EXCEPT ![last] = EOC]
      f == [c \in Clusters |-> IF c \in Chain(fat, rest) THEN FREE ELSE cut[c]]
      s == [e EXCEPT !.first = IF keep = 0 THEN 0 ELSE @, !.len = len] IN
  /\ Does("truncate", WriteMeta(f, n, s))
  /\ fat' = f /\ hint' = free_hint(fat, hint, rest)
  /\ nodes' = [nodes EXCEPT ![n] = s]
  /\ files' = [files EXCEPT ![n] = SubSeq(@, 1, len)]

fat_truncate(n, len) ==
  /\ nodes[n].kind = "file"
  /\ IF len > nodes[n].len THEN Grow(n, len)
     ELSE IF len < nodes[n].len THEN Shrink(n, len)
     ELSE /\ Does("truncate", WriteMeta(fat, n, nodes[n]))
          /\ UNCHANGED <<fat, hint, nodes, files>>

\* The entry goes first, then the chain it named.
fat_unlink(n) ==
  /\ nodes[n] # NoNode
  /\ Does("unlink", <<WDir(n, NoNode), WFat(free_chain(fat, nodes[n].first))>>)
  /\ fat' = free_chain(fat, nodes[n].first)
  /\ hint' = free_hint(fat, hint, nodes[n].first)
  /\ nodes' = [nodes EXCEPT ![n] = NoNode]
  /\ files' = [files EXCEPT ![n] = <<>>]

\* The target is removed, an entry with the new name is written, the old one
\* is freed; the chain is not touched.
fat_rename(n, m) ==
  LET victim == nodes[m] IN
  /\ nodes[n] # NoNode /\ n # m /\ victim.kind # "dir"
  /\ Does("rename", (IF victim = NoNode THEN <<>>
                     ELSE <<WDir(m, NoNode), WFat(free_chain(fat, victim.first))>>)
                    \o <<WDir(m, nodes[n]), WDir(n, NoNode)>>)
  /\ fat' = free_chain(fat, victim.first)
  /\ hint' = free_hint(fat, hint, victim.first)
  /\ nodes' = [nodes EXCEPT ![m] = nodes[n], ![n] = NoNode]
  /\ files' = [files EXCEPT ![m] = files[n], ![n] = <<>>]

Calls ==
  /\ \E n \in Names :
       \/ fat_create(n) \/ fat_mkdir(n) \/ fat_unlink(n)
       \/ \E off \in 0..nodes[n].len, size \in 1..MaxLen, v \in Values :
            off + size <= MaxLen /\ fat_write(n, off, size, v)
       \/ \E len \in 0..MaxLen : fat_truncate(n, len)
       \/ \E m \in Names : fat_rename(n, m)
  /\ UNCHANGED <<fatDisk, dirDisk, dataDisk, cuts, torn>>

\* The next write reaches the disk.
DiskWrite ==
  /\ todo # <<>>
  /\ LET w == Head(todo) IN
     /\ fatDisk' = IF w.to = "fat" THEN w.fat ELSE fatDisk
     /\ dirDisk' = IF w.to = "dir" THEN [dirDisk EXCEPT ![w.name] = w.entry] ELSE dirDisk
     /\ dataDisk' = IF w.to = "data" THEN w.data ELSE dataDisk
  /\ todo' = Tail(todo)
  /\ call' = IF Len(todo) = 1 THEN "none" ELSE call
  /\ UNCHANGED <<fat, hint, nodes, files, cuts, torn>>

\* The power goes; fat32_mount and populate read the volume back.
PowerCut ==
  /\ cuts < MaxCuts /\ todo # <<>>
  /\ cuts' = cuts + 1
  /\ torn' = (torn \/ call \in Fragile)
  /\ fat' = fatDisk /\ hint' = 1 /\ nodes' = dirDisk
  /\ files' = [n \in Names |-> Content(fatDisk, dataDisk, dirDisk[n])]
  /\ todo' = <<>> /\ call' = "none"
  /\ UNCHANGED <<fatDisk, dirDisk, dataDisk>>

FatInit ==
  /\ fat = [c \in Clusters |-> FREE] /\ hint = 1
  /\ nodes = [n \in Names |-> NoNode]
  /\ fatDisk = fat /\ dirDisk = nodes
  /\ dataDisk = [c \in Clusters |-> [u \in 0..(CB - 1) |-> Zero]]
  /\ todo = <<>> /\ call = "none"
  /\ files = [n \in Names |-> <<>>]
  /\ cuts = 0 /\ torn = FALSE

FatNext == Calls \/ DiskWrite \/ PowerCut
FatSpec == FatInit /\ [][FatNext]_fatVars

-----------------------------------------------------------------------------

\* A volume at rest, also one found after a power cut, has no entry that names
\* a free cluster, no cluster in two files and no file longer than its chain:
\* the FAT reaches the disk before the entry that relies on it, and an entry
\* leaves it before its chain (the comment in fat_write).
VolumeSound ==
  todo = <<>> /\ ~torn =>
    /\ fat = fatDisk /\ nodes = dirDisk
    /\ \A n \in Names :
         LET e == dirDisk[n] IN
         /\ \A c \in Chain(fatDisk, e.first) : fatDisk[c] # FREE
         /\ e.len <= CB * chain_length(fatDisk, e.first)
         /\ \A m \in Names \ {n} :
              Chain(fatDisk, e.first) \cap Chain(fatDisk, dirDisk[m].first) = {}
=============================================================================
