------------------------------- MODULE Update -------------------------------
(* kernel/update.c over http.c: fetch a manifest, fetch both images it      *)
(* describes and verify them, write them to /disk/boot, write the marker    *)
(* grub.cfg looks for.  The server may publish a new release, and its       *)
(* connection may end, at any point; the power may go between any two steps.*)
EXTENDS Integers

CONSTANTS Releases,    \* versions the server publishes, in order from 1
          ImageSize,   \* units in an image
          MaxUpdates   \* bound: updates begun

VARIABLES published,   \* what the server serves now
          upc,         \* where the updater is
          manifest,    \* version the manifest names
          body, from,  \* http: units received, and the release they belong to
          kernel, initrd, \* the verified images in memory
          disk,        \* /disk/boot: each file Absent, Broken (not its whole content) or a release
          updates

updateVars == <<published, upc, manifest, body, from, kernel, initrd, disk, updates>>

Absent == -1
Broken == 0
Files == {"novaris.bin", "initrd.img", "version"}

UpdateInit == /\ published = 1 /\ upc = <<"idle">> /\ manifest = 0 /\ body = 0 /\ from = 0
              /\ kernel = 0 /\ initrd = 0
              /\ disk = [f \in Files |-> Absent]
              /\ updates = 0

\* The server moves to its next release.
Publish == /\ published + 1 \in Releases /\ published' = published + 1
           /\ UNCHANGED <<upc, manifest, body, from, kernel, initrd, disk, updates>>

-----------------------------------------------------------------------------
(* http_get_progress: connect, then read until the length is met or the     *)
(* connection ends; a body that ends early is still HTTP_OK.                *)

http_connect(next) == /\ body' = 0 /\ from' = published /\ upc' = next

http_receive == /\ upc \in {<<"get_kernel">>, <<"get_initrd">>} /\ body < ImageSize
                /\ body' = body + 1
                /\ UNCHANGED <<published, upc, manifest, from, kernel, initrd, disk, updates>>

\* What download_verified accepts: the size and the checksum of the manifest.
Verified == body = ImageSize /\ from = manifest

-----------------------------------------------------------------------------
\* update_check and the shell's decision to apply.
update_check == /\ upc = <<"idle">> /\ updates < MaxUpdates
                /\ updates' = updates + 1
                /\ manifest' = published
                /\ http_connect(<<"get_kernel">>)
                /\ UNCHANGED <<published, kernel, initrd, disk>>

\* The end of a download: refused, or kept and the next step begun.
download_verified ==
  /\ \/ /\ upc = <<"get_kernel">> /\ Verified
        /\ kernel' = from /\ UNCHANGED initrd
        /\ http_connect(<<"get_initrd">>)
     \/ /\ upc = <<"get_initrd">> /\ Verified
        /\ initrd' = from /\ UNCHANGED kernel
        /\ upc' = <<"open", "novaris.bin">> /\ UNCHANGED <<body, from>>
     \/ /\ upc \in {<<"get_kernel">>, <<"get_initrd">>} /\ ~Verified
        /\ upc' = <<"idle">> /\ kernel' = 0 /\ initrd' = 0 /\ UNCHANGED <<body, from>>
  /\ UNCHANGED <<published, manifest, disk, updates>>

\* write_file: create or find, truncate to nothing ...
WriteFileOpens(f) ==
  /\ upc = <<"open", f>>
  /\ disk' = [disk EXCEPT ![f] = Broken]
  /\ upc' = <<"write", f>>
  /\ UNCHANGED <<published, manifest, body, from, kernel, initrd, updates>>

\* ... and write; the disk may be full.  Order: kernel, initrd, marker.
NextStep == [f \in Files |-> CASE f = "novaris.bin" -> <<"open", "initrd.img">>
                               [] f = "initrd.img" -> <<"open", "version">>
                               [] f = "version" -> <<"idle">>]


write_file(f, image) ==
  /\ upc = <<"write", f>>
  /\ \/ disk' = [disk EXCEPT ![f] = image] /\ upc' = NextStep[f]
     \/ disk' = disk /\ upc' = <<"idle">>
  /\ UNCHANGED <<published, manifest, body, from, kernel, initrd, updates>>

update_apply == \/ \E f \in Files : WriteFileOpens(f)
                \/ write_file("novaris.bin", kernel)
                \/ write_file("initrd.img", initrd)
                \/ write_file("version", manifest)

PowerLost == /\ upc # <<"idle">> /\ upc' = <<"idle">> /\ kernel' = 0 /\ initrd' = 0
             /\ UNCHANGED <<published, manifest, body, from, disk, updates>>

UpdateNext == Publish \/ update_check \/ http_receive \/ download_verified \/ update_apply \/ PowerLost
UpdateSpec == UpdateInit /\ [][UpdateNext]_updateVars

-----------------------------------------------------------------------------
\* grub.cfg boots the disk's copy when the marker exists.  Then both images
\* beside it are whole and of one release, wherever the power went: "the
\* marker exists only when both images beside it are complete" (grub.cfg).
BootsWhole == disk["version"] # Absent =>
                disk["novaris.bin"] \in Releases /\ disk["initrd.img"] = disk["novaris.bin"]
=============================================================================
