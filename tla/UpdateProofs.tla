---------------------------- MODULE UpdateProofs ----------------------------
(* Theorems about kernel/update.c: when the marker that grub.cfg looks for  *)
(* may be believed.                                                         *)
EXTENDS Update, TLAPS

Downloading == {<<"get_kernel">>, <<"get_initrd">>}
Writing == {<<s, f>> : s \in {"open", "write"}, f \in Files}
At(f) == {<<"open", f>>, <<"write", f>>}

\* What each place of the updater knows.  The images in memory are those of
\* the manifest before the first file is touched, and each file is whole when
\* the next one is opened.
Knows ==
  /\ published \in Releases
  /\ upc \in {<<"idle">>} \cup Downloading \cup Writing
  /\ upc \in Downloading => from \in Releases
  /\ upc = <<"get_initrd">> => kernel = manifest
  /\ upc \in Writing => kernel = manifest /\ initrd = manifest /\ manifest \in Releases
  /\ upc \in At("initrd.img") \cup At("version") => disk["novaris.bin"] = manifest
  /\ upc \in At("version") => disk["initrd.img"] = manifest
  /\ \A f \in Files : upc = <<"write", f>> => disk[f] = Broken
  /\ disk \in [Files -> Releases \cup {Absent, Broken}]

\* A first update has no marker on the disk before it writes its own.
Unmarked ==
  /\ updates \in Nat
  /\ updates = 0 => upc = <<"idle">> /\ disk["version"] = Absent
  /\ updates = 1 /\ upc \notin {<<"idle">>, <<"write", "version">>} => disk["version"] = Absent
  /\ updates = 1 => BootsWhole

\* The first release is there when the machine boots.
LEMMA KnowsInit == ASSUME 1 \in Releases, UpdateInit PROVE Knows /\ Unmarked
  BY DEF UpdateInit, Knows, Unmarked, Downloading, Writing, At, Files, BootsWhole

\* Each step of update.c, and each loss of power, leaves the next place what it
\* needs.
LEMMA KnowsStep == ASSUME Knows, [UpdateNext]_updateVars PROVE Knows'
<1>1. CASE Publish
  BY <1>1 DEF Publish, Knows, Downloading, Writing, At
<1>2. CASE update_check
  BY <1>2 DEF update_check, http_connect, Knows, Downloading, Writing, At
<1>3. CASE http_receive
  BY <1>3 DEF http_receive, Knows, Downloading, Writing, At
<1>4. CASE download_verified
  BY <1>4 DEF download_verified, http_connect, Verified, Knows, Downloading, Writing, At, Files
<1>5. ASSUME NEW f \in Files, WriteFileOpens(f) PROVE Knows'
  BY <1>5 DEF WriteFileOpens, Knows, Downloading, Writing, At, Files, Broken
<1>6. ASSUME NEW f \in Files, NEW image, write_file(f, image), image = manifest
      PROVE  Knows'
  BY <1>6 DEF write_file, NextStep, Knows, Downloading, Writing, At, Files
<1>7. CASE PowerLost
  BY <1>7 DEF PowerLost, Knows, Downloading, Writing, At
<1>8. CASE UNCHANGED updateVars
  BY <1>8 DEF updateVars, Knows
<1> QED
  BY <1>1, <1>2, <1>3, <1>4, <1>5, <1>6, <1>7, <1>8 DEF UpdateNext, update_apply, Files, Knows, write_file, Writing

\* The marker of a first update appears when both images are written.
LEMMA UnmarkedStep ==
  ASSUME Knows, Unmarked, [UpdateNext]_updateVars PROVE Unmarked'
<1> USE DEF Unmarked, BootsWhole
<1>1. CASE Publish
  BY <1>1 DEF Publish
<1>2. CASE update_check
  BY <1>2 DEF update_check, http_connect
<1>3. CASE http_receive
  BY <1>3 DEF http_receive
<1>4. CASE download_verified
  BY <1>4 DEF download_verified, http_connect
<1>5. ASSUME NEW f \in Files, WriteFileOpens(f) PROVE Unmarked'
  BY <1>5 DEF WriteFileOpens, Knows, Writing, At, Files
<1>6. ASSUME NEW f \in Files, NEW image, write_file(f, image), image = manifest PROVE Unmarked'
  BY <1>6 DEF write_file, NextStep, Knows, Writing, At, Files
<1>7. CASE PowerLost
  BY <1>7 DEF PowerLost, Knows, Downloading, Writing, At
<1>8. CASE UNCHANGED updateVars
  BY <1>8 DEF updateVars
<1> QED
  BY <1>1, <1>2, <1>3, <1>4, <1>5, <1>6, <1>7, <1>8 DEF UpdateNext, update_apply, Files, Knows, write_file, Writing

\* The boot loader is never shown a marker beside images that are not whole
\* and of one release while the machine is at its first update, whatever the
\* server publishes meanwhile, wherever its connection ends and wherever the
\* power goes (update_apply, write_file).
THEOREM FirstUpdateBootsWhole ==
  ASSUME 1 \in Releases PROVE UpdateSpec => [](updates <= 1 => BootsWhole)
<1>1. Knows /\ Unmarked => (updates <= 1 => BootsWhole)
  BY DEF Unmarked, BootsWhole
<1> QED
  BY <1>1, KnowsInit, KnowsStep, UnmarkedStep, PTL DEF UpdateSpec

\* With any number of updates, a step that leaves the disk unbootable is one
\* that truncates an image beside a marker already there: updating over an
\* installed release is the only way to lose the promise of grub.cfg, and an
\* update that failed before its marker never does (write_file).
THEOREM LostOnlyOverMarker ==
  ASSUME 1 \in Releases, Broken \notin Releases
  PROVE  UpdateSpec => [][BootsWhole /\ ~BootsWhole' =>
            /\ disk["version"] # Absent
            /\ \E f \in Files \ {"version"} : WriteFileOpens(f)]_updateVars
<1> DEFINE A == BootsWhole /\ ~BootsWhole' =>
            /\ disk["version"] # Absent
            /\ \E f \in Files \ {"version"} : WriteFileOpens(f)
<1>1. ASSUME Knows, [UpdateNext]_updateVars PROVE A \/ UNCHANGED updateVars
  <2> SUFFICES ASSUME UpdateNext, BootsWhole, ~BootsWhole'
               PROVE  /\ disk["version"] # Absent
                      /\ \E f \in Files \ {"version"} : WriteFileOpens(f)
    BY <1>1
  <2> USE DEF BootsWhole
  <2>1. CASE Publish \/ update_check \/ http_receive \/ download_verified \/ PowerLost
    BY <2>1 DEF Publish, update_check, http_receive, download_verified, PowerLost
  <2>2. ASSUME NEW f \in Files, WriteFileOpens(f)
        PROVE disk["version"] # Absent /\ f # "version"
    BY <2>2, <1>1 DEF WriteFileOpens, Knows, Writing, At, Files
  <2>3. ASSUME NEW f \in Files, NEW image, write_file(f, image), image = manifest PROVE FALSE
    BY <2>3, <1>1 DEF write_file, Knows, Writing, At, Files
  <2> QED
    BY <2>1, <2>2, <2>3, <1>1 DEF UpdateNext, update_apply, Files, Knows, write_file, Writing
<1> QED
  BY <1>1, KnowsInit, KnowsStep, PTL DEF UpdateSpec
=============================================================================
