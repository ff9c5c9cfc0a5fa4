------------------------------ MODULE BootSwap ------------------------------
(***************************************************************************)
(* Updating the boot loader configuration on the device: libostree as      *)
(* patched by recipes-extended/ostree/ostree/0001 and 0002, which allow    *)
(* /boot/loader to be a directory (vfat, systemd-boot) and not only a      *)
(* symbolic link to loader.0 or loader.1.                                  *)
(*                                                                         *)
(* A loader directory is abstracted to the kernel its entries name, the    *)
(* boot version N in their ostree=/ostree/boot.N arguments, the content of *)
(* ostree_bootversion and the presence of loader.conf.  boot.N leads to a  *)
(* list of deployments.  An update takes the steps below in order; it may  *)
(* be killed, or the power may fail, between any two of them.              *)
(***************************************************************************)
EXTENDS Naturals

CONSTANTS
  Lists, NoList,        \* deployment lists, newest first
  Kernel,               \* the kernel a list boots
  Kernels, NoKernel,    \* NoKernel: no entries
  Absent,               \* a directory that does not exist
  Symlinks,             \* whether the file system of /boot may have symbolic links
  StartKinds,           \* what /boot/loader may be in the image
  MaxUpdates, MaxStops  \* bounds on updates, and on kills and power failures

Versions == {0, 1}
NoTag == 2
Numbered(v) == IF v = 0 THEN "loader.0" ELSE "loader.1"
NumberedPaths == {Numbered(v) : v \in Versions}
Paths == {"loader"} \union NumberedPaths
Contents == [kernel : Kernels \union {NoKernel}, ver : Versions,
             tag : Versions \union {NoTag}, conf : BOOLEAN]
Empty == [kernel |-> NoKernel, ver |-> 0, tag |-> NoTag, conf |-> FALSE]

ASSUME ListsAssumption == Kernel \in [Lists -> Kernels] /\ NoList \notin Lists
ASSUME KernelsAssumption == NoKernel \notin Kernels /\ Absent \notin Contents
ASSUME BootAssumption == /\ Symlinks \subseteq BOOLEAN
                         /\ StartKinds \subseteq {"none", "bare", "link", "dir"}
                         /\ MaxUpdates \in Nat /\ MaxStops \in Nat

VARIABLES
  symlinks,  \* the file system of /boot has symbolic links
  link,      \* where boot/loader points, "none" unless it is a link
  tmp,       \* where boot/loader.tmp points
  dirs,      \* the directories under /boot
  bootBoot,  \* the link boot/boot exists
  bootlinks, \* /ostree/boot.N
  trees,     \* lists whose deployments are on disk
  dirty,     \* what full_system_sync has not yet written: paths, and "links"
  pc, ver, list, want, kind,   \* of the updating process
  updates, stops

disk == <<link, tmp, dirs, bootBoot, bootlinks, trees>>
process == <<pc, ver, list, want, kind>>
vars == <<symlinks, disk, dirty, process, updates, stops>>

PCs == {"idle", "loaded", "relink", "entries", "bootlinks", "config", "kind", "prepare_link",
        "tag", "remove", "rename", "sync", "swap", "cleanup"}

TypeOK ==
  /\ symlinks \in Symlinks
  /\ link \in {"none"} \union NumberedPaths /\ tmp \in {"none"} \union NumberedPaths
  /\ dirs \in [Paths -> Contents \union {Absent}]
  /\ bootBoot \in BOOLEAN
  /\ bootlinks \in [Versions -> Lists \union {NoList}]
  /\ trees \subseteq Lists
  /\ dirty \subseteq Paths \union {"links"}
  /\ pc \in PCs /\ ver \in Versions
  /\ list \in Lists \union {NoList} /\ want \in Lists \union {NoList}
  /\ kind \in {"none", "link", "dir", "relink"}
  /\ updates \in Nat /\ stops \in Nat

-----------------------------------------------------------------------------
\* The directory the firmware finds at boot/loader.
Loader == IF link = "none" THEN dirs["loader"] ELSE dirs[link]

\* The image: a link, or the directory image_types_ota.bbclass makes of it for systemd-boot,
\* with a first deployment. Or a sysroot without one, with a bare loader directory or none.
FirstLoader(k, v, l) ==
  [kernel |-> Kernel[l], ver |-> v, tag |-> IF k = "dir" THEN v ELSE NoTag, conf |-> k = "dir"]

StartDir(k, v, l, p) ==
  CASE k = "link" /\ p = Numbered(v) -> FirstLoader(k, v, l)
    [] k = "dir" /\ p = "loader" -> FirstLoader(k, v, l)
    [] k = "bare" /\ p = "loader" -> [Empty EXCEPT !.conf = TRUE]
    [] OTHER -> Absent

Init ==
  /\ symlinks \in Symlinks
  /\ \E k \in StartKinds, v \in Versions, l \in Lists :
       /\ k = "link" => symlinks
       /\ link = IF k = "link" THEN Numbered(v) ELSE "none"
       /\ dirs = [p \in Paths |-> StartDir(k, v, l, p)]
       /\ bootBoot = (k = "link")
       /\ bootlinks = [n \in Versions |-> IF k \in {"link", "dir"} /\ n = v THEN l ELSE NoList]
       /\ trees = IF k \in {"link", "dir"} THEN {l} ELSE {}
  /\ tmp = "none" /\ dirty = {}
  /\ pc = "idle" /\ ver = 0 /\ list = NoList /\ want = NoList /\ kind = "none"
  /\ updates = 0 /\ stops = 0

\* read_current_bootversion
CurrentVersion ==
  CASE link # "none" -> CHOOSE v \in Versions : Numbered(v) = link
    [] link = "none" /\ dirs["loader"] # Absent /\ dirs["loader"].tag # NoTag -> dirs["loader"].tag
    [] OTHER -> 0

EntriesOfNumbered(v) == dirs[Numbered(v)]

\* _ostree_sysroot_read_boot_loader_configs: the current version is read from boot/loader.
EntriesOf(v) == IF v = CurrentVersion THEN Loader ELSE dirs[Numbered(v)]

ListIn(content) == IF content = Absent \/ content.kernel = NoKernel THEN NoList
                   ELSE bootlinks[content.ver]

Goto(from, to) == pc = from /\ pc' = to
Old == Numbered(ver)
New == Numbered(1 - ver)

\* ostree_sysroot_load
Load ==
  /\ Goto("idle", "loaded")
  /\ ver' = CurrentVersion /\ list' = ListIn(EntriesOf(CurrentVersion))
  /\ UNCHANGED <<disk, dirty, want, kind, updates, stops>>

\* A new boot version is needed unless the entries would not change.
Begin(l) ==
  /\ updates < MaxUpdates /\ updates' = updates + 1
  /\ l # list
  /\ Goto("loaded", IF list # NoList /\ Kernel[l] = Kernel[list] THEN "relink" ELSE "entries")
  /\ want' = l /\ trees' = trees \union {l}
  /\ UNCHANGED <<link, tmp, dirs, bootBoot, bootlinks, dirty, ver, list, kind, stops>>

\* The same entries: boot.N is renamed over to lead to the new list.
Relink ==
  /\ Goto("relink", "cleanup") /\ kind' = "relink"
  /\ bootlinks' = [bootlinks EXCEPT ![ver] = want]
  /\ UNCHANGED <<link, tmp, dirs, bootBoot, trees, dirty, ver, list, want, updates, stops>>

\* boot/loader.NEW/entries is removed and written again; the rest of the directory stays.
WithEntries(content, k, v) ==
  [(IF content = Absent THEN Empty ELSE content) EXCEPT !.kernel = k, !.ver = v]

WriteEntries ==
  /\ Goto("entries", "bootlinks")
  /\ dirs' = [dirs EXCEPT ![New] = WithEntries(@, Kernel[want], 1 - ver)]
  /\ dirty' = dirty \union {New}
  /\ UNCHANGED <<link, tmp, bootBoot, bootlinks, trees, ver, list, want, kind, updates, stops>>

SwapBootlinks ==
  /\ Goto("bootlinks", "config")
  /\ bootlinks' = [bootlinks EXCEPT ![1 - ver] = want]
  /\ dirty' = dirty \union {"links"}
  /\ UNCHANGED <<link, tmp, dirs, bootBoot, trees, ver, list, want, kind, updates, stops>>

WriteConfigNothing ==
  /\ Goto("config", "kind")
  /\ UNCHANGED <<disk, dirty, ver, list, want, kind, updates, stops>>

\* systemd-boot is active iff boot/loader/loader.conf exists; it is copied.
WriteConfig ==
  /\ Goto("config", "kind")
  /\ IF Loader # Absent /\ Loader.conf
     THEN dirs' = [dirs EXCEPT ![New].conf = TRUE] /\ dirty' = dirty \union {New}
     ELSE UNCHANGED <<dirs, dirty>>
  /\ UNCHANGED <<link, tmp, bootBoot, bootlinks, trees, ver, list, want, kind, updates, stops>>

\* fstatat of boot/loader; without one, symlinkat of boot/boot tells: EPERM a directory, success
\* a link, and EEXIST leaves loader_link FALSE.
FindKind ==
  /\ kind' = CASE link # "none" -> "link"
               [] link = "none" /\ dirs["loader"] # Absent -> "dir"
               [] OTHER -> IF symlinks /\ ~bootBoot THEN "link" ELSE "dir"
  /\ bootBoot' = (bootBoot \/ (link = "none" /\ dirs["loader"] = Absent /\ symlinks))
  /\ Goto("kind", IF kind' = "link" THEN "prepare_link" ELSE "tag")
  /\ UNCHANGED <<link, tmp, dirs, bootlinks, trees, dirty, ver, list, want, updates, stops>>

\* prepare_new_bootloader_link
PrepareLink ==
  /\ Goto("prepare_link", "sync")
  /\ bootBoot' = (bootBoot \/ symlinks) /\ tmp' = New
  /\ UNCHANGED <<link, dirs, bootlinks, trees, dirty, ver, list, want, kind, updates, stops>>

\* prepare_new_bootloader_dir: boot/boot, then the tag, ...
Tag ==
  /\ Goto("tag", "remove")
  /\ bootBoot' = (bootBoot \/ symlinks)
  /\ dirs' = [dirs EXCEPT ![New].tag = 1 - ver] /\ dirty' = dirty \union {New}
  /\ UNCHANGED <<link, tmp, bootlinks, trees, ver, list, want, kind, updates, stops>>

RemoveNothing ==
  /\ Goto("remove", "rename")
  /\ UNCHANGED <<disk, dirty, ver, list, want, kind, updates, stops>>

\* ... rm -rf of what an interrupted update left at loader.OLD ...
Remove ==
  /\ Goto("remove", "rename")
  /\ dirs' = [dirs EXCEPT ![Old] = Absent]
  /\ UNCHANGED <<link, tmp, bootBoot, bootlinks, trees, dirty, ver, list, want, kind, updates, stops>>

\* ... and the new directory takes that name, RENAME_NOREPLACE. The update fails if it is in use.
Rename ==
  /\ IF dirs[Old] = Absent
     THEN /\ Goto("rename", "sync")
          /\ dirs' = [dirs EXCEPT ![Old] = dirs[New], ![New] = Absent]
          /\ dirty' = dirty \union {Old}
          /\ UNCHANGED <<want, kind>>
     ELSE Goto("rename", "idle") /\ want' = NoList /\ kind' = "none" /\ UNCHANGED <<dirs, dirty>>
  /\ UNCHANGED <<link, tmp, bootBoot, bootlinks, trees, ver, list, updates, stops>>

SyncNothing ==
  /\ Goto("sync", "swap")
  /\ UNCHANGED <<disk, dirty, ver, list, want, kind, updates, stops>>

\* full_system_sync
Sync ==
  /\ Goto("sync", "swap")
  /\ dirty' = {}
  /\ UNCHANGED <<disk, ver, list, want, kind, updates, stops>>

\* swap_bootloader: loader.tmp is renamed to loader, or loader.OLD exchanged with it.
Swap ==
  /\ \/ /\ kind = "link"
        /\ link' = tmp /\ tmp' = "none" /\ UNCHANGED dirs
     \/ /\ kind = "dir" /\ dirs["loader"] # Absent
        /\ dirs' = [dirs EXCEPT !["loader"] = dirs[Old], ![Old] = dirs["loader"]]
        /\ UNCHANGED <<link, tmp>>
  /\ Goto("swap", "cleanup")
  /\ UNCHANGED <<bootBoot, bootlinks, trees, dirty, ver, list, want, kind, updates, stops>>

\* There is no loader to exchange with.
SwapFails ==
  /\ kind = "dir" /\ dirs["loader"] = Absent
  /\ Goto("swap", "idle") /\ want' = NoList /\ kind' = "none"
  /\ UNCHANGED <<disk, dirty, ver, list, updates, stops>>

\* The sysroot is loaded again; cleanup removes what belongs to the other boot version and the
\* deployments that are not in the list.
Cleanup ==
  /\ pc \in {"loaded", "cleanup"} /\ pc' = "idle"
  /\ LET v == CurrentVersion IN
       /\ dirs' = [dirs EXCEPT ![Numbered(1 - v)] = Absent]
       /\ bootlinks' = [bootlinks EXCEPT ![1 - v] = NoList]
       /\ trees' = trees \intersect {ListIn(EntriesOf(v))}
  /\ ver' = CurrentVersion /\ list' = ListIn(EntriesOf(CurrentVersion))
  /\ want' = NoList /\ kind' = "none"
  /\ UNCHANGED <<link, tmp, bootBoot, dirty, updates, stops>>

Restart ==
  /\ stops < MaxStops /\ stops' = stops + 1
  /\ pc' = "idle" /\ want' = NoList /\ kind' = "none"

\* The update is killed, or ends with an error: what it wrote stays.
Killed == pc # "idle" /\ Restart /\ UNCHANGED <<disk, dirty, ver, list, updates>>

\* The power fails: what has not been synced may be lost.
PowerFails ==
  /\ dirty # {} /\ Restart
  /\ \E torn \in SUBSET dirty :
       /\ dirs' = [p \in Paths |-> IF p \in torn /\ dirs[p] # Absent THEN Empty ELSE dirs[p]]
       /\ bootlinks' = IF "links" \in torn THEN [bootlinks EXCEPT ![1 - ver] = NoList]
                                            ELSE bootlinks
  /\ dirty' = {}
  /\ UNCHANGED <<link, tmp, bootBoot, trees, ver, list, updates>>

Step ==
  /\ \/ Load \/ Relink \/ WriteEntries \/ SwapBootlinks \/ WriteConfig \/ FindKind
     \/ PrepareLink \/ Tag \/ Remove \/ Rename \/ Sync \/ Swap \/ SwapFails \/ Cleanup
  /\ UNCHANGED symlinks

Interruption == Killed \/ PowerFails

Next == Step \/ ((Interruption \/ \E l \in Lists : Begin(l)) /\ UNCHANGED symlinks)

Spec == Init /\ [][Next]_vars

-----------------------------------------------------------------------------
Switching == INSTANCE AtomicSwitch WITH active <- ListIn(Loader), target <- want

\* The firmware boots the old list or the new one whenever the power fails, and an update that
\* was interrupted changes nothing later ("Renaming now should give us atomic semantics" of
\* swap_bootloader, which the patch extends to directories with RENAME_EXCHANGE).
SwitchesAtomically == Switching!Spec

\* What the firmware finds at boot/loader can be booted: the kernel it names is that of the list
\* boot.N leads to, and no cleanup has removed the deployments of that list. ostree_bootversion
\* names the version of these entries, also after the exchange: with the wrong one the next update
\* or cleanup would work on the boot.N that is in use.
Boots ==
  Loader # Absent /\ Loader.kernel # NoKernel =>
    /\ ListIn(Loader) \in trees
    /\ Loader.kernel = Kernel[ListIn(Loader)]
    /\ CurrentVersion = Loader.ver

\* An update keeps loader.conf (test-admin-deploy-dir-sd-boot.sh, "ok deploying loader.conf").
KeepsLoaderConf == [][Loader # Absent => Loader'.conf = Loader.conf]_vars

\* What interrupted updates left does not make a later one fail, where there is a loader: unless it
\* is interrupted itself, the firmware boots the list it was given. (Where there is none, an update
\* may fail for ever after one that was interrupted: see DirOnlyWithoutSymlinks.)
UpdatesSucceed ==
  \A l \in Lists, n \in 0 .. MaxStops :
    want = l /\ stops = n /\ Loader # Absent ~> ListIn(Loader) = l \/ stops > n

\* "When there is no loader, check if the fs supports symlink or not": an update that finds no
\* loader makes a directory only of a file system without symbolic links.
DirOnlyWithoutSymlinks ==
  kind = "dir" /\ link = "none" /\ dirs["loader"] = Absent => ~symlinks
=============================================================================
