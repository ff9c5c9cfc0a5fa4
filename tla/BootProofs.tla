----------------------------- MODULE BootProofs -----------------------------
(***************************************************************************)
(* Theorems about the switch of the boot loader's directory (BootSwap),    *)
(* for every set of deployment lists and kernels and every number of       *)
(* updates, kills and power failures; and about the entries (UkiEntry),    *)
(* for every set of images.                                                *)
(***************************************************************************)
EXTENDS Boot, Sequences, SequenceTheorems, TLAPS

USE ListsAssumption, KernelsAssumption, BootAssumption

-----------------------------------------------------------------------------
(* Part 1.  The invariant.                                                  *)

\* Commands after the entries of the new version are written, and where they are then.
Written == {"bootlinks", "config", "kind", "prepare_link", "tag", "remove", "rename", "sync", "swap"}
Decided == {"prepare_link", "tag", "remove", "rename", "sync", "swap"}
Renamed == kind = "dir" /\ pc \in {"sync", "swap"}
Pending == dirs[IF Renamed THEN Old ELSE New]

\* There is one loader: a link, or a directory of that name. Of a loader with entries, the link or
\* the tag names the version they have, and boot.N leads to a list on disk with that kernel.
LoaderInv ==
  /\ link # "none" => dirs["loader"] = Absent
  /\ Loader # Absent /\ Loader.kernel # NoKernel =>
       /\ CurrentVersion = Loader.ver
       /\ bootlinks[Loader.ver] \in trees /\ Loader.kernel = Kernel[bootlinks[Loader.ver]]

\* The process knows the current version until it has changed it; after a kill it may still hold
\* the old one, but then everything has been synced.
VersionInv ==
  /\ pc \notin {"idle", "cleanup"} => ver = CurrentVersion /\ list = ListIn(Loader)
  /\ dirty # {} => ver = CurrentVersion
  /\ pc \in {"idle", "loaded"} <=> want = NoList
  /\ want # NoList => want \in trees

\* What is not yet synced is not what the firmware finds.
DirtyInv ==
  /\ "loader" \notin dirty /\ link \notin dirty
  /\ pc = "swap" => dirty = {}

\* The same kernel is a reason to change boot.N only; else the new version is built up step by step.
UpdateInv ==
  /\ pc = "relink" => list # NoList /\ Kernel[want] = Kernel[list]
  /\ pc \in Written => Pending # Absent /\ Pending.kernel = Kernel[want] /\ Pending.ver = 1 - ver
  /\ pc \in Written \ {"bootlinks"} => bootlinks[1 - ver] = want
  /\ pc \in {"remove", "rename"} \/ Renamed => Pending.tag = 1 - ver
  /\ pc = "rename" => dirs[Old] = Absent

\* A loader that is a link, or does not exist, is replaced by a link; a directory by a directory.
KindInv ==
  /\ pc = "prepare_link" => kind = "link"
  /\ pc \in {"tag", "remove", "rename"} => kind = "dir"
  /\ pc \in {"sync", "swap"} => kind \in {"link", "dir"} /\ (kind = "link" => tmp = New)
  /\ pc \in Decided /\ kind = "dir" => link = "none"
  /\ pc \in Decided /\ kind = "link" => link # "none" \/ dirs["loader"] = Absent

\* Every loader.conf is a copy of that of the loader.
ConfOf(content) == content # Absent /\ content.conf
ConfInv ==
  /\ \A p \in Paths : ConfOf(dirs[p]) => ConfOf(Loader)
  /\ pc \in Written \ {"bootlinks", "config"} => ConfOf(Pending) = ConfOf(Loader)

IInv == TypeOK /\ LoaderInv /\ VersionInv /\ DirtyInv /\ UpdateInv /\ KindInv /\ ConfInv

-----------------------------------------------------------------------------
(* Part 2.  What the operators return.                                      *)

\* The two versions have two paths, neither of them boot/loader.
LEMMA Numbers ==
  /\ Numbered(0) # Numbered(1)
  /\ \A v \in Versions : /\ 1 - v \in Versions /\ 1 - v # v /\ 1 - (1 - v) = v
                         /\ Numbered(v) \in NumberedPaths /\ Numbered(1 - v) # Numbered(v)
  /\ NumberedPaths \subseteq Paths /\ "loader" \in Paths
  /\ "loader" \notin NumberedPaths /\ "none" \notin NumberedPaths
  /\ \A p \in NumberedPaths : \E v \in Versions : p = Numbered(v)
BY DEF Versions, Numbered, NumberedPaths, Paths

\* The current boot version, the loader and its list have the types of their names; a loader link
\* is that of the current version.
LEMMA Current ==
  ASSUME TypeOK
  PROVE  /\ CurrentVersion \in Versions
         /\ link # "none" => link = Numbered(CurrentVersion)
         /\ Loader \in Contents \union {Absent}
         /\ ListIn(Loader) \in Lists \union {NoList}
         /\ EntriesOf(CurrentVersion) = Loader
<1>1. CASE link # "none"
  <2>1. PICK v \in Versions : Numbered(v) = link  BY <1>1, Numbers DEF TypeOK
  <2>2. /\ (CHOOSE w \in Versions : Numbered(w) = link) \in Versions
        /\ Numbered(CHOOSE w \in Versions : Numbered(w) = link) = link
    BY <2>1
  <2>3. CurrentVersion = CHOOSE w \in Versions : Numbered(w) = link
    BY <1>1 DEF CurrentVersion
  <2> QED  BY <1>1, <2>2, <2>3, Numbers DEF TypeOK, Loader, EntriesOf, ListIn, Contents
<1>2. CASE link = "none"
  <2>1. CurrentVersion = IF dirs["loader"] # Absent /\ dirs["loader"].tag # NoTag
                         THEN dirs["loader"].tag ELSE 0
    BY <1>2 DEF CurrentVersion
  <2>2. dirs["loader"] \in Contents \union {Absent}  BY Numbers DEF TypeOK
  <2>3. CurrentVersion \in Versions  BY <2>1, <2>2 DEF Contents, Versions, NoTag
  <2> QED  BY <1>2, <2>2, <2>3 DEF TypeOK, Loader, EntriesOf, ListIn, Contents
<1> QED  BY <1>1, <1>2

\* A step that changes neither the link nor what it leads to changes nothing the firmware reads.
LEMMA LoaderKept ==
  ASSUME TypeOK, link' = link, dirs'[IF link = "none" THEN "loader" ELSE link] =
                               dirs[IF link = "none" THEN "loader" ELSE link]
  PROVE  Loader' = Loader /\ CurrentVersion' = CurrentVersion
<1>1. Loader' = Loader  BY DEF Loader
<1>2. link = "none" => dirs'["loader"] = dirs["loader"]  OBVIOUS
<1> QED  BY <1>1, <1>2 DEF CurrentVersion

\* A changed loader directory is one; what is not changed in it stays.
LEMMA ContentType ==
  ASSUME NEW x \in Contents
  PROVE  /\ [x EXCEPT !.conf = TRUE] \in Contents
         /\ \A v \in Versions : [x EXCEPT !.tag = v] \in Contents
         /\ x # Absent
BY DEF Contents

LEMMA EmptyType == Empty \in Contents /\ Empty.conf = FALSE /\ Empty.kernel = NoKernel
BY DEF Empty, Contents, Versions, NoTag

\* The entries of a version, and what stays of the directory they are written to.
LEMMA EntryType ==
  ASSUME NEW c \in Contents \union {Absent}, NEW k \in Kernels, NEW v \in Versions
  PROVE  /\ WithEntries(c, k, v) \in Contents
         /\ WithEntries(c, k, v).kernel = k /\ WithEntries(c, k, v).ver = v
         /\ WithEntries(c, k, v).conf = ConfOf(c)
<1> DEFINE x == IF c = Absent THEN Empty ELSE c
<1>1. x \in Contents /\ x.conf = ConfOf(c)  BY EmptyType DEF ConfOf, Contents
<1>2. WithEntries(c, k, v) = [x EXCEPT !.kernel = k, !.ver = v]  BY DEF WithEntries
<1> HIDE DEF x
<1> DEFINE z == [x EXCEPT !.kernel = k, !.ver = v]
<1>3. z \in Contents /\ z.kernel = k /\ z.ver = v /\ z.conf = x.conf
  BY <1>1 DEF Contents
<1> QED  BY <1>1, <1>2, <1>3, Zenon

LEMMA EntriesWritten ==
  ASSUME TypeOK, WriteEntries, want \in Lists
  PROVE  /\ dirs' \in [Paths -> Contents \union {Absent}]
         /\ \A p \in Paths \ {New} : dirs'[p] = dirs[p]
         /\ dirs'[New] \in Contents /\ dirs'[New].kernel = Kernel[want] /\ dirs'[New].ver = 1 - ver
         /\ dirs'[New].conf = ConfOf(dirs[New])
<1>1. New \in Paths /\ ver \in Versions /\ 1 - ver \in Versions  BY Numbers DEF TypeOK, New
<1>2. dirs \in [Paths -> Contents \union {Absent}] /\ Kernel[want] \in Kernels  BY DEF TypeOK
<1>3. dirs' = [dirs EXCEPT ![New] = WithEntries(dirs[New], Kernel[want], 1 - ver)]  BY DEF WriteEntries
<1> QED  BY <1>1, <1>2, <1>3, EntryType

-----------------------------------------------------------------------------
(* Part 3.  Every step keeps the types.                                     *)

\* What a directory of the image may be.
LEMMA StartType ==
  ASSUME NEW k, NEW v \in Versions, NEW l \in Lists, NEW p
  PROVE  /\ StartDir(k, v, l, p) \in Contents \union {Absent}
         /\ k = "link" => StartDir(k, v, l, p) = IF p = Numbered(v) THEN FirstLoader(k, v, l) ELSE Absent
         /\ k = "dir" => StartDir(k, v, l, p) = IF p = "loader" THEN FirstLoader(k, v, l) ELSE Absent
         /\ k \notin {"link", "dir"} => /\ StartDir(k, v, l, p) # Absent => p = "loader"
                                        /\ StartDir(k, v, l, p) # Absent =>
                                             StartDir(k, v, l, p).kernel = NoKernel
<1> DEFINE bare == [Empty EXCEPT !.conf = TRUE]
<1>1. FirstLoader(k, v, l) \in Contents  BY DEF FirstLoader, Contents, Versions, NoTag
<1>2. bare \in Contents /\ bare.kernel = NoKernel  BY EmptyType, ContentType DEF Empty
<1>3. StartDir(k, v, l, p) = CASE k = "link" /\ p = Numbered(v) -> FirstLoader(k, v, l)
                               [] k = "dir" /\ p = "loader" -> FirstLoader(k, v, l)
                               [] k = "bare" /\ p = "loader" -> bare
                               [] OTHER -> Absent
  BY DEF StartDir
<1> HIDE DEF bare
<1>4. CASE k = "link"  BY <1>1, <1>3, <1>4
<1>5. CASE k = "dir"  BY <1>1, <1>3, <1>5
<1>6. CASE k = "bare"  BY <1>2, <1>3, <1>6
<1>7. CASE k \notin {"link", "dir", "bare"}  BY <1>3, <1>7
<1> QED  BY <1>4, <1>5, <1>6, <1>7

LEMMA TypeInit == Init => TypeOK
<1> SUFFICES ASSUME Init PROVE TypeOK
  OBVIOUS
<1>1. PICK k \in StartKinds, v \in Versions, l \in Lists :
        /\ link = IF k = "link" THEN Numbered(v) ELSE "none"
        /\ dirs = [p \in Paths |-> StartDir(k, v, l, p)]
        /\ bootBoot = (k = "link")
        /\ bootlinks = [n \in Versions |-> IF k \in {"link", "dir"} /\ n = v THEN l ELSE NoList]
        /\ trees = IF k \in {"link", "dir"} THEN {l} ELSE {}
  BY DEF Init
<1>2. \A p \in Paths : StartDir(k, v, l, p) \in Contents \union {Absent}
  BY StartType
<1>6. dirs \in [Paths -> Contents \union {Absent}]
  BY <1>1, <1>2
<1>7. /\ link \in {"none"} \union NumberedPaths /\ bootBoot \in BOOLEAN
      /\ bootlinks \in [Versions -> Lists \union {NoList}] /\ trees \subseteq Lists
  BY <1>1, Numbers
<1>8. /\ symlinks \in Symlinks /\ tmp = "none" /\ dirty = {} /\ pc = "idle" /\ ver = 0
      /\ list = NoList /\ want = NoList /\ kind = "none" /\ updates = 0 /\ stops = 0
  BY DEF Init
<1> QED  BY <1>6, <1>7, <1>8 DEF TypeOK, Versions, PCs

LEMMA TypeStep ==
  ASSUME TypeOK, VersionInv, UpdateInv, [Next]_vars
  PROVE  TypeOK'
<1> USE Numbers
<1>1. /\ CurrentVersion \in Versions /\ ListIn(Loader) \in Lists \union {NoList}
      /\ EntriesOf(CurrentVersion) = Loader
  BY Current
<1>2. Old \in Paths /\ New \in Paths /\ Old \in NumberedPaths /\ New \in NumberedPaths /\ 1 - ver \in Versions
  BY DEF TypeOK, Old, New
<1>0. ASSUME pc \in {"config", "tag"} PROVE dirs[New] \in Contents
  BY <1>0, <1>2 DEF TypeOK, UpdateInv, Written, Pending, Renamed
<1>3. ASSUME Load, symlinks' = symlinks PROVE TypeOK'
  BY <1>1, <1>3 DEF Load, Goto, TypeOK, disk, PCs
<1>4. ASSUME NEW l \in Lists, Begin(l), symlinks' = symlinks PROVE TypeOK'
  BY <1>4 DEF Begin, Goto, TypeOK, PCs
<1>5. ASSUME Relink, symlinks' = symlinks PROVE TypeOK'
  BY <1>5 DEF Relink, Goto, TypeOK, PCs
<1>6. ASSUME WriteEntries, symlinks' = symlinks PROVE TypeOK'
  <2>1. want \in Lists  BY <1>6 DEF WriteEntries, Goto, VersionInv, TypeOK
  <2> QED  BY <1>2, <1>6, <2>1, EntriesWritten DEF WriteEntries, Goto, TypeOK, PCs
<1>7. ASSUME SwapBootlinks, symlinks' = symlinks PROVE TypeOK'
  BY <1>2, <1>7 DEF SwapBootlinks, Goto, TypeOK, PCs
<1>8. ASSUME WriteConfig, symlinks' = symlinks, Loader # Absent /\ Loader.conf PROVE TypeOK'
  BY <1>0, <1>2, <1>8, ContentType DEF WriteConfig, Goto, TypeOK, PCs
<1>9. ASSUME WriteConfig, symlinks' = symlinks, ~(Loader # Absent /\ Loader.conf) PROVE TypeOK'
  BY <1>9 DEF WriteConfig, Goto, TypeOK, PCs
<1>10. ASSUME FindKind, symlinks' = symlinks PROVE TypeOK'
  BY <1>10 DEF FindKind, Goto, TypeOK, PCs
<1>11. ASSUME PrepareLink, symlinks' = symlinks PROVE TypeOK'
  BY <1>2, <1>11 DEF PrepareLink, Goto, TypeOK, PCs
<1>12. ASSUME Tag, symlinks' = symlinks PROVE TypeOK'
  BY <1>0, <1>2, <1>12, ContentType DEF Tag, Goto, TypeOK, PCs
<1>13. ASSUME Remove, symlinks' = symlinks PROVE TypeOK'
  BY <1>2, <1>13 DEF Remove, Goto, TypeOK, PCs
<1>14. ASSUME Rename, symlinks' = symlinks PROVE TypeOK'
  BY <1>2, <1>14 DEF Rename, Goto, TypeOK, PCs
<1>15. ASSUME Sync, symlinks' = symlinks PROVE TypeOK'
  BY <1>15 DEF Sync, disk, Goto, TypeOK, PCs
<1>16. ASSUME Swap, symlinks' = symlinks PROVE TypeOK'
  BY <1>2, <1>16 DEF Swap, Goto, TypeOK, PCs
<1>17. ASSUME SwapFails, symlinks' = symlinks PROVE TypeOK'
  BY <1>17 DEF SwapFails, disk, Goto, TypeOK, PCs
<1>18. ASSUME Cleanup, symlinks' = symlinks PROVE TypeOK'
  BY <1>1, <1>18 DEF Cleanup, TypeOK, PCs
<1>19. ASSUME Killed, symlinks' = symlinks PROVE TypeOK'
  BY <1>19 DEF Killed, Restart, disk, TypeOK, PCs
<1>20. ASSUME PowerFails, symlinks' = symlinks PROVE TypeOK'
  BY <1>2, <1>20, EmptyType DEF PowerFails, Restart, TypeOK, PCs
<1>21. CASE UNCHANGED vars
  BY <1>21 DEF vars, disk, process, TypeOK
<1> QED
  BY <1>3, <1>4, <1>5, <1>6, <1>7, <1>8, <1>9, <1>10, <1>11, <1>12, <1>13, <1>14, <1>15, <1>16, <1>17,
     <1>18, <1>19, <1>20, <1>21 DEF Next, Step, Interruption

-----------------------------------------------------------------------------
(* Part 4.  Every step keeps the invariant.                                 *)

LEMMA InvInit == Init => IInv
<1> SUFFICES ASSUME Init PROVE IInv
  OBVIOUS
<1>1. PICK k \in StartKinds, v \in Versions, l \in Lists :
        /\ link = IF k = "link" THEN Numbered(v) ELSE "none"
        /\ dirs = [p \in Paths |-> StartDir(k, v, l, p)]
        /\ bootBoot = (k = "link")
        /\ bootlinks = [n \in Versions |-> IF k \in {"link", "dir"} /\ n = v THEN l ELSE NoList]
        /\ trees = IF k \in {"link", "dir"} THEN {l} ELSE {}
  BY DEF Init
<1>2. TypeOK  BY TypeInit
<1>3. pc = "idle" /\ want = NoList /\ dirty = {} /\ kind = "none"
  BY DEF Init
<1>4. VersionInv /\ DirtyInv /\ UpdateInv /\ KindInv
  BY <1>2, <1>3 DEF VersionInv, DirtyInv, UpdateInv, KindInv, Written, Renamed, Decided
<1>5. \A p \in Paths :
         /\ k = "link" => dirs[p] = IF p = Numbered(v) THEN FirstLoader(k, v, l) ELSE Absent
         /\ k = "dir" => dirs[p] = IF p = "loader" THEN FirstLoader(k, v, l) ELSE Absent
         /\ k \notin {"link", "dir"} => /\ dirs[p] # Absent => p = "loader"
                                        /\ dirs[p] # Absent => dirs[p].kernel = NoKernel
  BY <1>1, StartType
<1>6. LoaderInv /\ \A p \in Paths : ConfOf(dirs[p]) => ConfOf(Loader)
  <2>1. CASE k = "link"
    <3>1. link = Numbered(v) /\ Loader = FirstLoader(k, v, l) /\ dirs["loader"] = Absent
      BY <1>1, <1>5, <2>1, Numbers DEF Loader
    <3>2. CurrentVersion = v  BY <1>2, <3>1, Current, Numbers DEF Versions
    <3>3. /\ bootlinks[v] = l /\ l \in trees /\ Loader.ver = v /\ Loader.kernel = Kernel[l] /\ Loader.conf = FALSE
      BY <1>1, <2>1, <3>1 DEF FirstLoader
    <3>4. LoaderInv  BY <3>1, <3>2, <3>3, Numbers DEF LoaderInv
    <3> QED  BY <1>5, <2>1, <3>1, <3>3, <3>4 DEF ConfOf
  <2>2. CASE k = "dir"
    <3>1. link = "none" /\ Loader = FirstLoader(k, v, l)
      BY <1>1, <1>5, <2>2, Numbers DEF Loader
    <3>2. /\ bootlinks[v] = l /\ l \in trees /\ Loader.ver = v /\ Loader.kernel = Kernel[l]
          /\ Loader.conf = TRUE /\ Loader.tag = v /\ Loader \in Contents
      BY <1>1, <2>2, <3>1 DEF FirstLoader, Contents, Versions, NoTag
    <3>3. CurrentVersion = v
      BY <3>1, <3>2, ContentType DEF CurrentVersion, Loader, Versions, NoTag
    <3>4. LoaderInv  BY <3>1, <3>2, <3>3, Numbers DEF LoaderInv
    <3> QED  BY <1>5, <2>2, <3>1, <3>2, <3>4, ContentType DEF ConfOf
  <2>3. CASE k \notin {"link", "dir"}
    <3>1. link = "none" /\ Loader = dirs["loader"]
      BY <1>1, <2>3 DEF Loader
    <3> QED  BY <1>5, <2>3, <3>1, Numbers DEF LoaderInv, ConfOf
  <2> QED  BY <2>1, <2>2, <2>3
<1> QED  BY <1>2, <1>3, <1>4, <1>6 DEF IInv, ConfInv, Written

\* Where the loader is: an update works beside it.
LoaderPath == IF link = "none" THEN "loader" ELSE link

LEMMA Beside ==
  ASSUME IInv, pc \notin {"idle", "cleanup"}
  PROVE  /\ Loader = dirs[LoaderPath] /\ LoaderPath \in Paths
         /\ LoaderPath # New /\ link # New /\ LoaderPath \in {"loader", Old}
         /\ pc \in Decided /\ kind = "dir" => LoaderPath = "loader"
         /\ Old # New /\ Old \in Paths /\ New \in Paths /\ Old # "loader" /\ New # "loader"
         /\ ver \in Versions /\ 1 - ver \in Versions /\ 1 - ver # ver
<1> USE Numbers
<1>1. ver = CurrentVersion /\ ver \in Versions  BY DEF IInv, TypeOK, VersionInv
<1>2. link # "none" => link = Old  BY <1>1, Current DEF IInv, Old
<1>3. link \in {"none"} \union NumberedPaths  BY DEF IInv, TypeOK
<1> QED  BY <1>1, <1>2, <1>3 DEF IInv, KindInv, LoaderPath, Loader, Old, New

\* What a step that leaves the loader where it is and as it is has to show.
LEMMA SameLoader ==
  ASSUME IInv, TypeOK', pc \notin {"idle", "cleanup"}, link' = link, dirs'[LoaderPath] = dirs[LoaderPath]
  PROVE  /\ Loader' = Loader /\ CurrentVersion' = CurrentVersion
         /\ Loader # Absent /\ Loader.kernel # NoKernel =>
              Loader.ver = ver /\ bootlinks[ver] \in trees /\ Loader.kernel = Kernel[bootlinks[ver]]
<1>1. Loader' = Loader /\ CurrentVersion' = CurrentVersion
  BY LoaderKept DEF IInv, LoaderPath
<1> QED  BY <1>1 DEF IInv, LoaderInv, VersionInv

LEMMA LoadInv == ASSUME IInv, TypeOK', Load PROVE IInv' /\ Loader' = Loader
<1>1. Loader' = Loader /\ CurrentVersion' = CurrentVersion
  BY LoaderKept DEF IInv, Load, disk
<1>2. CurrentVersion \in Versions /\ EntriesOf(CurrentVersion) = Loader  BY Current DEF IInv
<1>3. ListIn(Loader)' = ListIn(Loader)  BY <1>1 DEF ListIn, Load, disk
<1>4. pc = "idle" /\ pc' = "loaded" /\ UNCHANGED <<disk, dirty, want, kind>>
      /\ ver' = CurrentVersion /\ list' = ListIn(Loader)
  BY <1>2 DEF Load, Goto
<1>5. LoaderInv'  BY <1>1, <1>4 DEF IInv, LoaderInv, disk
<1>6. VersionInv'  BY <1>1, <1>3, <1>4 DEF IInv, VersionInv, disk
<1>7. DirtyInv' /\ KindInv' /\ UpdateInv' /\ ConfInv'
  BY <1>1, <1>4 DEF IInv, DirtyInv, KindInv, UpdateInv, ConfInv, ConfOf, Written, Decided, Renamed, disk
<1> QED  BY <1>1, <1>5, <1>6, <1>7 DEF IInv

LEMMA BeginInv == ASSUME IInv, TypeOK', NEW l \in Lists, Begin(l) PROVE IInv' /\ Loader' = Loader
<1>1. Loader' = Loader /\ CurrentVersion' = CurrentVersion
  BY LoaderKept DEF IInv, Begin
<1>2. /\ pc = "loaded" /\ pc' = IF list # NoList /\ Kernel[l] = Kernel[list] THEN "relink" ELSE "entries"
      /\ want' = l /\ trees' = trees \union {l}
      /\ UNCHANGED <<link, tmp, dirs, bootBoot, bootlinks, dirty, ver, list, kind>>
  BY DEF Begin, Goto
<1>3. ListIn(Loader)' = ListIn(Loader)  BY <1>1, <1>2 DEF ListIn
<1>5. LoaderInv'  BY <1>1, <1>2 DEF IInv, LoaderInv
<1>6. VersionInv'  BY <1>1, <1>2, <1>3 DEF IInv, VersionInv
<1>7. DirtyInv' /\ KindInv' /\ UpdateInv' /\ ConfInv'
  BY <1>1, <1>2 DEF IInv, DirtyInv, KindInv, UpdateInv, ConfInv, ConfOf, Written, Decided, Renamed
<1> QED  BY <1>1, <1>5, <1>6, <1>7 DEF IInv

LEMMA RelinkInv == ASSUME IInv, TypeOK', Relink PROVE IInv' /\ Loader' = Loader /\ ListIn(Loader)' = want
<1>1. Loader' = Loader /\ CurrentVersion' = CurrentVersion
  BY LoaderKept DEF IInv, Relink
<1>2. /\ pc = "relink" /\ pc' = "cleanup" /\ kind' = "relink"
      /\ bootlinks' = [bootlinks EXCEPT ![ver] = want]
      /\ UNCHANGED <<link, tmp, dirs, bootBoot, trees, dirty, ver, list, want>>
  BY DEF Relink, Goto
<1>3. /\ list = ListIn(Loader) /\ list # NoList /\ Kernel[want] = Kernel[list] /\ ver = CurrentVersion
      /\ want # NoList /\ want \in trees
  BY <1>2 DEF IInv, VersionInv, UpdateInv
<1>4. /\ Loader # Absent /\ Loader.kernel # NoKernel /\ Loader.ver = ver /\ list = bootlinks[ver]
      /\ Loader.kernel = Kernel[list]
  BY <1>3 DEF IInv, LoaderInv, ListIn
<1>5. bootlinks'[ver] = want  BY <1>2 DEF IInv, TypeOK
<1>6. LoaderInv'  BY <1>1, <1>2, <1>3, <1>4, <1>5 DEF IInv, LoaderInv
<1>7. VersionInv'  BY <1>1, <1>2, <1>3 DEF IInv, VersionInv
<1>8. DirtyInv' /\ KindInv' /\ UpdateInv' /\ ConfInv'
  BY <1>1, <1>2 DEF IInv, DirtyInv, KindInv, UpdateInv, ConfInv, ConfOf, Written, Decided, Renamed
<1>9. ListIn(Loader)' = want  BY <1>1, <1>4, <1>5 DEF ListIn
<1> QED  BY <1>1, <1>6, <1>7, <1>8, <1>9 DEF IInv

LEMMA WriteEntriesInv == ASSUME IInv, TypeOK', WriteEntries PROVE IInv' /\ Loader' = Loader
<1>1. /\ pc = "entries" /\ pc' = "bootlinks" /\ dirty' = dirty \union {New}
      /\ UNCHANGED <<link, tmp, bootBoot, bootlinks, trees, ver, list, want, kind>>
  BY DEF WriteEntries, Goto
<1>2. want \in Lists /\ want \in trees  BY <1>1 DEF IInv, VersionInv, TypeOK
<1>3. /\ \A p \in Paths \ {New} : dirs'[p] = dirs[p]
      /\ dirs'[New] \in Contents /\ dirs'[New].kernel = Kernel[want] /\ dirs'[New].ver = 1 - ver
      /\ dirs'[New].conf = ConfOf(dirs[New])
  BY <1>2, EntriesWritten DEF IInv
<1>4. Loader' = Loader /\ CurrentVersion' = CurrentVersion
  BY <1>1, <1>3, Beside, SameLoader
<1>5. ListIn(Loader)' = ListIn(Loader)  BY <1>1, <1>4 DEF ListIn
<1>6. LoaderInv'  BY <1>1, <1>3, <1>4, Beside, Numbers DEF IInv, LoaderInv
<1>7. VersionInv'  BY <1>1, <1>2, <1>4, <1>5 DEF IInv, VersionInv
<1>8. DirtyInv'  BY <1>1, Beside DEF IInv, DirtyInv, LoaderPath
<1>9. UpdateInv' /\ KindInv'
  BY <1>1, <1>3, ContentType DEF UpdateInv, KindInv, Written, Decided, Renamed, Pending, New
<1>10. ConfInv'  BY <1>1, <1>3, <1>4, Beside DEF IInv, ConfInv, ConfOf, Written
<1> QED  BY <1>4, <1>6, <1>7, <1>8, <1>9, <1>10 DEF IInv

LEMMA SwapBootlinksInv ==
  ASSUME IInv, TypeOK', SwapBootlinks PROVE IInv' /\ Loader' = Loader /\ ListIn(Loader)' = ListIn(Loader)
<1>1. /\ pc = "bootlinks" /\ pc' = "config" /\ dirty' = dirty \union {"links"}
      /\ bootlinks' = [bootlinks EXCEPT ![1 - ver] = want]
      /\ UNCHANGED <<link, tmp, dirs, bootBoot, trees, ver, list, want, kind>>
  BY DEF SwapBootlinks, Goto
<1>2. /\ Loader' = Loader /\ CurrentVersion' = CurrentVersion
      /\ Loader # Absent /\ Loader.kernel # NoKernel =>
              Loader.ver = ver /\ bootlinks[ver] \in trees /\ Loader.kernel = Kernel[bootlinks[ver]]
  BY <1>1, SameLoader
<1>3. bootlinks'[ver] = bootlinks[ver] /\ bootlinks'[1 - ver] = want
  BY <1>1, Beside DEF IInv, TypeOK
<1>5. ListIn(Loader)' = ListIn(Loader)  BY <1>1, <1>2, <1>3 DEF ListIn
<1>6. LoaderInv'  BY <1>1, <1>2, <1>3 DEF IInv, LoaderInv
<1>7. VersionInv'  BY <1>1, <1>2, <1>5 DEF IInv, VersionInv
<1>8. DirtyInv'  BY <1>1, Numbers DEF IInv, TypeOK, DirtyInv, NumberedPaths, Numbered
<1>9. UpdateInv' /\ KindInv'
  BY <1>1, <1>3 DEF IInv, UpdateInv, KindInv, Written, Decided, Renamed, Pending, New
<1>10. ConfInv'  BY <1>1, <1>2 DEF IInv, ConfInv, ConfOf, Written
<1> QED  BY <1>2, <1>5, <1>6, <1>7, <1>8, <1>9, <1>10 DEF IInv

LEMMA WriteConfigInv == ASSUME IInv, TypeOK', WriteConfig PROVE IInv' /\ Loader' = Loader
<1>1. /\ pc = "config" /\ pc' = "kind"
      /\ UNCHANGED <<link, tmp, bootBoot, bootlinks, trees, ver, list, want, kind>>
  BY DEF WriteConfig, Goto
<1>2. dirs[New] \in Contents /\ dirs[New].kernel = Kernel[want] /\ dirs[New].ver = 1 - ver
  BY <1>1, Beside DEF IInv, TypeOK, UpdateInv, Written, Pending, Renamed
<1>3. /\ \A p \in Paths \ {New} : dirs'[p] = dirs[p]
      /\ dirs'[New] \in Contents /\ dirs'[New].kernel = Kernel[want] /\ dirs'[New].ver = 1 - ver
      /\ dirs'[New].conf = ConfOf(Loader)
      /\ dirty' \subseteq dirty \union {New}
  <2>1. CASE Loader # Absent /\ Loader.conf
    BY <1>1, <1>2, <2>1, Beside, ContentType DEF WriteConfig, ConfOf, IInv, TypeOK, Contents
  <2>2. CASE ~(Loader # Absent /\ Loader.conf)
    <3>1. dirs' = dirs /\ dirty' = dirty  BY <2>2 DEF WriteConfig
    <3>2. ~ConfOf(dirs[New])  BY <2>2, Beside, <1>1 DEF IInv, ConfInv, ConfOf
    <3> QED  BY <1>2, <2>2, <3>1, <3>2, ContentType DEF ConfOf, Contents
  <2> QED  BY <2>1, <2>2
<1>4. Loader' = Loader /\ CurrentVersion' = CurrentVersion
  BY <1>1, <1>3, Beside, SameLoader
<1>5. ListIn(Loader)' = ListIn(Loader)  BY <1>1, <1>4 DEF ListIn
<1>6. LoaderInv'  BY <1>1, <1>3, <1>4, Beside, Numbers DEF IInv, LoaderInv
<1>7. VersionInv'  BY <1>1, <1>4, <1>5 DEF IInv, VersionInv
<1>8. DirtyInv'  BY <1>1, <1>3, Beside DEF IInv, DirtyInv, LoaderPath
<1>9. UpdateInv' /\ KindInv'
  BY <1>1, <1>3, ContentType DEF IInv, UpdateInv, KindInv, Written, Decided, Renamed, Pending, New
<1>10. ConfInv'
  BY <1>1, <1>3, <1>4, Beside, ContentType DEF IInv, ConfInv, ConfOf, Written, Renamed, Pending, New
<1> QED  BY <1>4, <1>6, <1>7, <1>8, <1>9, <1>10 DEF IInv

\* A step that changes neither a directory nor a boot.N, before the swap.
LEMMA QuietInv ==
  ASSUME IInv, TypeOK', pc \notin {"idle", "loaded", "cleanup", "relink", "swap"},
         pc' \notin {"idle", "loaded", "cleanup", "relink", "entries", "bootlinks"},
         UNCHANGED <<link, dirs, bootlinks, trees, ver, list, want>>,
         dirty' \in {dirty, {}}, pc' = "swap" => dirty' = {},
         pc \in Written \ {"bootlinks", "config"}, UpdateInv', KindInv', Pending' = Pending
  PROVE  IInv' /\ Loader' = Loader
<1>1. /\ Loader' = Loader /\ CurrentVersion' = CurrentVersion
      /\ Loader # Absent /\ Loader.kernel # NoKernel =>
              Loader.ver = ver /\ bootlinks[ver] \in trees /\ Loader.kernel = Kernel[bootlinks[ver]]
  BY SameLoader, Beside
<1>2. ListIn(Loader)' = ListIn(Loader)  BY <1>1 DEF ListIn
<1>3. LoaderInv' /\ VersionInv' /\ DirtyInv'
  BY <1>1, <1>2 DEF IInv, LoaderInv, VersionInv, DirtyInv
<1>4. ConfInv'  BY <1>1 DEF IInv, ConfInv, ConfOf
<1> QED  BY <1>1, <1>3, <1>4 DEF IInv

LEMMA FindKindInv == ASSUME IInv, TypeOK', FindKind PROVE IInv' /\ Loader' = Loader
<1>1. /\ pc = "kind" /\ pc' = IF kind' = "link" THEN "prepare_link" ELSE "tag"
      /\ UNCHANGED <<link, tmp, dirs, bootlinks, trees, dirty, ver, list, want>>
  BY DEF FindKind, Goto
<1>2. /\ kind' \in {"link", "dir"}
      /\ kind' = "dir" => link = "none"
      /\ kind' = "link" => link # "none" \/ dirs["loader"] = Absent
  BY DEF FindKind
<1>3. KindInv'  BY <1>1, <1>2 DEF KindInv
<1>4. Pending' = Pending  BY <1>1 DEF Pending, Renamed, New
<1>5. UpdateInv'  BY <1>1, <1>4 DEF IInv, UpdateInv, Written, Renamed
<1> QED  BY <1>1, <1>3, <1>4, <1>5, QuietInv DEF Written

LEMMA PrepareLinkInv == ASSUME IInv, TypeOK', PrepareLink PROVE IInv' /\ Loader' = Loader
<1>1. /\ pc = "prepare_link" /\ pc' = "sync" /\ tmp' = New
      /\ UNCHANGED <<link, dirs, bootlinks, trees, dirty, ver, list, want, kind>>
  BY DEF PrepareLink, Goto
<1>2. kind = "link"  BY <1>1 DEF IInv, KindInv
<1>3. KindInv'  BY <1>1, <1>2 DEF IInv, KindInv, Decided, New
<1>4. Pending' = Pending  BY <1>1, <1>2 DEF Pending, Renamed, New
<1>5. UpdateInv'  BY <1>1, <1>2, <1>4 DEF IInv, UpdateInv, Written, Renamed
<1> QED  BY <1>1, <1>3, <1>4, <1>5, QuietInv DEF Written

LEMMA TagInv == ASSUME IInv, TypeOK', Tag PROVE IInv' /\ Loader' = Loader
<1>1. /\ pc = "tag" /\ pc' = "remove" /\ dirty' = dirty \union {New}
      /\ dirs' = [dirs EXCEPT ![New].tag = 1 - ver]
      /\ UNCHANGED <<link, tmp, bootlinks, trees, ver, list, want, kind>>
  BY DEF Tag, Goto
<1>2. kind = "dir"  BY <1>1 DEF IInv, KindInv
<1>3. dirs[New] \in Contents /\ dirs[New].kernel = Kernel[want] /\ dirs[New].ver = 1 - ver
  BY <1>1, Beside DEF IInv, TypeOK, UpdateInv, Written, Pending, Renamed
<1>4. /\ \A p \in Paths \ {New} : dirs'[p] = dirs[p]
      /\ dirs'[New] \in Contents /\ dirs'[New].kernel = Kernel[want] /\ dirs'[New].ver = 1 - ver
      /\ dirs'[New].tag = 1 - ver /\ dirs'[New].conf = dirs[New].conf
  BY <1>1, <1>3, Beside, ContentType DEF IInv, TypeOK, Contents
<1>5. Loader' = Loader /\ CurrentVersion' = CurrentVersion
  BY <1>1, <1>4, Beside, SameLoader
<1>6. ListIn(Loader)' = ListIn(Loader)  BY <1>1, <1>5 DEF ListIn
<1>7. LoaderInv'  BY <1>1, <1>4, <1>5, Beside, Numbers DEF IInv, LoaderInv
<1>8. VersionInv'  BY <1>1, <1>5, <1>6 DEF IInv, VersionInv
<1>9. DirtyInv'  BY <1>1, <1>4, Beside DEF IInv, DirtyInv
<1>10. UpdateInv' /\ KindInv'
  BY <1>1, <1>2, <1>4, ContentType DEF IInv, UpdateInv, KindInv, Written, Decided, Renamed, Pending, New
<1>11. ConfInv'
  BY <1>1, <1>3, <1>4, <1>5, Beside, ContentType DEF IInv, ConfInv, ConfOf, Written, Renamed, Pending, New
<1> QED  BY <1>5, <1>7, <1>8, <1>9, <1>10, <1>11 DEF IInv

LEMMA RemoveInv == ASSUME IInv, TypeOK', Remove PROVE IInv' /\ Loader' = Loader
<1>1. /\ pc = "remove" /\ pc' = "rename" /\ dirs' = [dirs EXCEPT ![Old] = Absent]
      /\ UNCHANGED <<link, tmp, bootlinks, trees, dirty, ver, list, want, kind>>
  BY DEF Remove, Goto
<1>2. kind = "dir"  BY <1>1 DEF IInv, KindInv
<1>3. dirs'[Old] = Absent /\ \A p \in Paths \ {Old} : dirs'[p] = dirs[p]
  BY <1>1, Beside DEF IInv, TypeOK
<1>4. LoaderPath # Old /\ link = "none"
  BY <1>1, <1>2, Beside DEF IInv, KindInv, Decided
<1>5. Loader' = Loader /\ CurrentVersion' = CurrentVersion
  BY <1>1, <1>3, <1>4, Beside, SameLoader
<1>6. ListIn(Loader)' = ListIn(Loader)  BY <1>1, <1>5 DEF ListIn
<1>7. LoaderInv'  BY <1>1, <1>4, <1>5 DEF IInv, LoaderInv
<1>8. VersionInv'  BY <1>1, <1>5, <1>6 DEF IInv, VersionInv
<1>9. DirtyInv'  BY <1>1 DEF IInv, DirtyInv
<1>10. UpdateInv' /\ KindInv'
  BY <1>1, <1>2, <1>3, <1>4, Beside
  DEF IInv, UpdateInv, KindInv, Written, Decided, Renamed, Pending, New, Old
<1>11. ConfInv'
  BY <1>1, <1>3, <1>5, Beside DEF IInv, ConfInv, ConfOf, Written, Renamed, Pending, New
<1> QED  BY <1>5, <1>7, <1>8, <1>9, <1>10, <1>11 DEF IInv

LEMMA RenameInv == ASSUME IInv, TypeOK', Rename PROVE IInv' /\ Loader' = Loader
<1>1. /\ pc = "rename" /\ pc' = "sync" /\ dirty' = dirty \union {Old}
      /\ dirs' = [dirs EXCEPT ![Old] = dirs[New], ![New] = Absent]
      /\ UNCHANGED <<link, tmp, bootlinks, trees, ver, list, want, kind>>
  <2>1. pc = "rename"  BY DEF Rename, Goto
  <2>2. dirs[Old] = Absent  BY <2>1 DEF IInv, UpdateInv
  <2> QED  BY <2>2 DEF Rename, Goto
<1>2. kind = "dir"  BY <1>1 DEF IInv, KindInv
<1>3. /\ dirs'[Old] = dirs[New] /\ dirs'[New] = Absent
      /\ \A p \in Paths \ {Old, New} : dirs'[p] = dirs[p]
  BY <1>1, Beside DEF IInv, TypeOK
<1>4. LoaderPath # Old /\ link = "none"
  BY <1>1, <1>2, Beside DEF IInv, KindInv, Decided
<1>5. Loader' = Loader /\ CurrentVersion' = CurrentVersion
  BY <1>1, <1>3, <1>4, Beside, SameLoader
<1>6. ListIn(Loader)' = ListIn(Loader)  BY <1>1, <1>5 DEF ListIn
<1>7. LoaderInv'  BY <1>1, <1>4, <1>5 DEF IInv, LoaderInv
<1>8. VersionInv'  BY <1>1, <1>5, <1>6 DEF IInv, VersionInv
<1>9. DirtyInv'  BY <1>1, <1>4, Beside, Numbers DEF IInv, DirtyInv, TypeOK, Old
<1>10. Pending' = Pending  BY <1>1, <1>2, <1>3 DEF Pending, Renamed, Old, New
<1>11. UpdateInv' /\ KindInv'
  BY <1>1, <1>2, <1>4, <1>10 DEF IInv, UpdateInv, KindInv, Written, Decided, Renamed
<1>12. ConfInv'
  BY <1>1, <1>3, <1>5, <1>10, Beside DEF IInv, ConfInv, ConfOf, Written
<1> QED  BY <1>5, <1>7, <1>8, <1>9, <1>11, <1>12 DEF IInv

LEMMA SyncInv == ASSUME IInv, TypeOK', Sync PROVE IInv' /\ Loader' = Loader
<1>1. /\ pc = "sync" /\ pc' = "swap" /\ dirty' = {}
      /\ UNCHANGED <<link, tmp, dirs, bootlinks, trees, ver, list, want, kind>>
  BY DEF Sync, Goto, disk
<1>2. KindInv'  BY <1>1 DEF IInv, KindInv, Decided, New
<1>3. Pending' = Pending  BY <1>1 DEF Pending, Renamed, New, Old
<1>4. UpdateInv'  BY <1>1, <1>3 DEF IInv, UpdateInv, Written, Renamed
<1> QED  BY <1>1, <1>2, <1>3, <1>4, QuietInv DEF Written

\* The version a link to its directory stands for.
LEMMA Chosen == ASSUME NEW v \in Versions PROVE (CHOOSE w \in Versions : Numbered(w) = Numbered(v)) = v
<1>1. \A w \in Versions : Numbered(w) = Numbered(v) => w = v  BY Numbers DEF Versions
<1> QED  BY <1>1

LEMMA SwapInv ==
  ASSUME IInv, TypeOK', Swap
  PROVE  IInv' /\ ListIn(Loader)' = want /\ (Loader # Absent => Loader'.conf = Loader.conf)
<1>1. /\ pc = "swap" /\ pc' = "cleanup"
      /\ UNCHANGED <<bootlinks, trees, dirty, ver, list, want, kind>>
  BY DEF Swap, Goto
<1>2. /\ dirty = {} /\ want # NoList /\ want \in trees /\ bootlinks[1 - ver] = want
      /\ Pending # Absent /\ Pending.kernel = Kernel[want] /\ Pending.ver = 1 - ver
      /\ ConfOf(Pending) = ConfOf(Loader)
      /\ Renamed => Pending.tag = 1 - ver
  BY <1>1 DEF IInv, DirtyInv, VersionInv, UpdateInv, ConfInv, Written
<1>3. Kernel[want] # NoKernel /\ want \in Lists  BY <1>2 DEF IInv, TypeOK
<1>4. ver \in Versions /\ 1 - ver \in Versions /\ Loader \in Contents \union {Absent}
  BY Numbers, Current DEF IInv, TypeOK
<1>5. Loader' = Pending /\ CurrentVersion' = 1 - ver /\ (link' # "none" => dirs'["loader"] = Absent)
      /\ \A p \in Paths : \E q \in Paths : dirs'[p] = dirs[q]
  <2>1. CASE kind = "link"
    <3>1. link' = tmp /\ dirs' = dirs  BY <2>1 DEF Swap
    <3>2. tmp = New /\ (link # "none" \/ dirs["loader"] = Absent)
      BY <1>1, <2>1 DEF IInv, KindInv, Decided
    <3>3. link' = Numbered(1 - ver) /\ link' # "none"  BY <3>1, <3>2, <1>4, Numbers DEF New
    <3>4. Loader' = Pending  BY <2>1, <3>1, <3>2, <3>3 DEF Loader, Pending, Renamed, New
    <3>5. CurrentVersion' = CHOOSE w \in Versions : Numbered(w) = link'
      BY <3>3 DEF CurrentVersion
    <3>6. CurrentVersion' = 1 - ver  BY <1>4, <3>3, <3>5, Chosen
    <3>7. dirs["loader"] = Absent  BY <3>2 DEF IInv, LoaderInv
    <3> QED  BY <3>1, <3>4, <3>6, <3>7
  <2>2. CASE kind = "dir"
    <3>1. /\ dirs' = [dirs EXCEPT !["loader"] = dirs[Old], ![Old] = dirs["loader"]]
          /\ link' = link
      BY <2>2 DEF Swap
    <3>2. link = "none"  BY <1>1, <2>2 DEF IInv, KindInv, Decided
    <3>3. /\ dirs'["loader"] = dirs[Old] /\ dirs'[Old] = dirs["loader"]
          /\ \A p \in Paths \ {"loader", Old} : dirs'[p] = dirs[p]
      BY <1>1, <3>1, Beside, Numbers DEF IInv, TypeOK
    <3>4. Pending = dirs[Old] /\ Renamed  BY <1>1, <2>2 DEF Pending, Renamed
    <3>5. Loader' = Pending  BY <3>1, <3>2, <3>3, <3>4 DEF Loader
    <3>6. dirs'["loader"] # Absent /\ dirs'["loader"].tag = 1 - ver  BY <1>2, <3>3, <3>4
    <3>7. 1 - ver # NoTag  BY <1>4 DEF Versions, NoTag
    <3>8. CurrentVersion' = 1 - ver  BY <3>1, <3>2, <3>6, <3>7 DEF CurrentVersion
    <3> QED  BY <1>1, <3>1, <3>2, <3>3, <3>5, <3>8, Beside, Numbers
  <2> QED  BY <2>1, <2>2 DEF Swap
<1>6. LoaderInv'  BY <1>1, <1>2, <1>3, <1>5 DEF LoaderInv
<1>7. ListIn(Loader)' = want  BY <1>1, <1>2, <1>3, <1>5 DEF ListIn
<1>8. VersionInv' /\ DirtyInv'
  BY <1>1, <1>2, <1>5 DEF VersionInv, DirtyInv
<1>9. UpdateInv' /\ KindInv'  BY <1>1 DEF UpdateInv, KindInv, Written, Decided, Renamed
<1>10. ConfInv'  BY <1>1, <1>2, <1>5 DEF IInv, ConfInv, ConfOf, Written
<1>11. Loader # Absent => Loader'.conf = Loader.conf
  <2>1. Pending \in Contents  BY <1>2, Numbers DEF Pending, Old, New, IInv, TypeOK
  <2> QED  BY <1>2, <1>4, <1>5, <2>1 DEF ConfOf, Contents
<1> QED  BY <1>6, <1>7, <1>8, <1>9, <1>10, <1>11 DEF IInv

\* An update that ends or stops leaves what the firmware finds.
LEMMA EndInv ==
  ASSUME IInv, TypeOK', pc' = "idle", want' = NoList, link' = link,
         dirs'[LoaderPath] = dirs[LoaderPath],
         \A p \in Paths : ConfOf(dirs'[p]) => \E q \in Paths : ConfOf(dirs[q]),
         link # "none" => dirs'["loader"] = Absent,
         dirty' \in {dirty, {}}, dirty' # {} => ver' = CurrentVersion,
         Loader # Absent /\ Loader.kernel # NoKernel =>
           /\ bootlinks'[Loader.ver] = bootlinks[Loader.ver]
           /\ bootlinks[Loader.ver] \in trees'
  PROVE  IInv' /\ Loader' = Loader /\ ListIn(Loader)' = ListIn(Loader)
<1>1. Loader' = Loader /\ CurrentVersion' = CurrentVersion
  BY LoaderKept DEF IInv, LoaderPath
<1>2. LoaderInv'  BY <1>1 DEF IInv, LoaderInv
<1>3. VersionInv' /\ DirtyInv'  BY <1>1 DEF IInv, VersionInv, DirtyInv
<1>4. UpdateInv' /\ KindInv'  BY DEF UpdateInv, KindInv, Written, Decided, Renamed
<1>5. ConfInv'  BY <1>1 DEF IInv, ConfInv, Written, ConfOf
<1>6. ListIn(Loader)' = ListIn(Loader)  BY <1>1 DEF ListIn
<1> QED  BY <1>1, <1>2, <1>3, <1>4, <1>5, <1>6 DEF IInv

LEMMA SwapFailsInv ==
  ASSUME IInv, TypeOK', SwapFails PROVE IInv' /\ Loader' = Loader /\ ListIn(Loader)' = ListIn(Loader)
<1>1. /\ pc = "swap" /\ pc' = "idle" /\ want' = NoList
      /\ UNCHANGED <<link, dirs, bootlinks, trees, dirty, ver>>
  BY DEF SwapFails, Goto, disk
<1>2. dirty = {}  BY <1>1 DEF IInv, DirtyInv
<1> QED  BY <1>1, <1>2, EndInv DEF IInv, LoaderInv

LEMMA CleanupInv ==
  ASSUME IInv, TypeOK', Cleanup PROVE IInv' /\ Loader' = Loader /\ ListIn(Loader)' = ListIn(Loader)
<1> DEFINE v == CurrentVersion
<1>1. /\ pc' = "idle" /\ want' = NoList /\ ver' = v
      /\ dirs' = [dirs EXCEPT ![Numbered(1 - v)] = Absent]
      /\ bootlinks' = [bootlinks EXCEPT ![1 - v] = NoList]
      /\ trees' = trees \intersect {ListIn(Loader)}
      /\ UNCHANGED <<link, dirty>>
  BY Current DEF IInv, Cleanup
<1>2. v \in Versions /\ (link # "none" => link = Numbered(v))  BY Current DEF IInv
<1>3. dirs'[LoaderPath] = dirs[LoaderPath] /\ LoaderPath # Numbered(1 - v)
  BY <1>1, <1>2, Numbers DEF LoaderPath, IInv, TypeOK
<1>4. \A p \in Paths : dirs'[p] = dirs[p] \/ dirs'[p] = Absent
  BY <1>1, <1>2, Numbers DEF IInv, TypeOK
<1>5. \A p \in Paths : ConfOf(dirs'[p]) => ConfOf(dirs[p])
  BY <1>4 DEF ConfOf
<1>6. link # "none" => dirs'["loader"] = Absent
  BY <1>4, Numbers DEF IInv, LoaderInv
<1>7. ASSUME Loader # Absent /\ Loader.kernel # NoKernel
      PROVE  /\ bootlinks'[Loader.ver] = bootlinks[Loader.ver]
             /\ bootlinks[Loader.ver] \in trees'
  <2>1. Loader.ver = v /\ bootlinks[Loader.ver] \in trees  BY <1>7 DEF IInv, LoaderInv
  <2>2. bootlinks'[v] = bootlinks[v]  BY <1>1, <1>2, Numbers DEF IInv, TypeOK
  <2>3. ListIn(Loader) = bootlinks[Loader.ver]  BY <1>7 DEF ListIn
  <2> QED  BY <1>1, <2>1, <2>2, <2>3
<1> HIDE DEF v
<1> QED  BY <1>1, <1>3, <1>5, <1>6, <1>7, EndInv DEF v

LEMMA KilledInv ==
  ASSUME IInv, TypeOK', Killed PROVE IInv' /\ Loader' = Loader /\ ListIn(Loader)' = ListIn(Loader)
<1>1. pc' = "idle" /\ want' = NoList /\ UNCHANGED <<link, dirs, bootlinks, trees, dirty, ver>>
  BY DEF Killed, Restart, disk
<1>2. dirty # {} => ver = CurrentVersion  BY DEF IInv, VersionInv
<1> QED  BY <1>1, <1>2, EndInv DEF IInv, LoaderInv

LEMMA PowerFailsInv ==
  ASSUME IInv, TypeOK', PowerFails PROVE IInv' /\ Loader' = Loader /\ ListIn(Loader)' = ListIn(Loader)
<1>1. PICK torn \in SUBSET dirty :
       /\ dirs' = [p \in Paths |-> IF p \in torn /\ dirs[p] # Absent THEN Empty ELSE dirs[p]]
       /\ bootlinks' = IF "links" \in torn THEN [bootlinks EXCEPT ![1 - ver] = NoList]
                                            ELSE bootlinks
  BY DEF PowerFails
<1>2. /\ pc' = "idle" /\ want' = NoList /\ dirty # {} /\ dirty' = {}
      /\ UNCHANGED <<link, trees, ver>>
  BY DEF PowerFails, Restart
<1>3. ver = CurrentVersion /\ ver \in Versions  BY <1>2 DEF IInv, VersionInv, TypeOK
<1>4. LoaderPath \notin torn /\ LoaderPath \in Paths  BY Numbers DEF IInv, DirtyInv, LoaderPath, TypeOK
<1>5. dirs'[LoaderPath] = dirs[LoaderPath]  BY <1>1, <1>4
<1>6. \A p \in Paths : /\ dirs'[p] = dirs[p] \/ dirs'[p] = Empty
                       /\ dirs[p] = Absent => dirs'[p] = Absent
  BY <1>1
<1>7. \A p \in Paths : ConfOf(dirs'[p]) => ConfOf(dirs[p])
  BY <1>6, EmptyType DEF ConfOf
<1>8. link # "none" => dirs'["loader"] = Absent
  BY <1>6, Numbers DEF IInv, LoaderInv
<1>9. bootlinks'[ver] = bootlinks[ver]  BY <1>1, <1>3, Numbers DEF IInv, TypeOK
<1> QED  BY <1>2, <1>3, <1>5, <1>7, <1>8, <1>9, EndInv DEF IInv, LoaderInv

-----------------------------------------------------------------------------
(* Part 5.  The theorems.                                                   *)

\* What a step may do to the loader: an update's list takes the place of the old one at once, in
\* the swap or by boot.N, and only when it has been asked for.
Quiet == Loader' = Loader /\ ListIn(Loader)' = ListIn(Loader)

LEMMA InvStep ==
  ASSUME IInv, [Next]_vars
  PROVE  /\ IInv'
         /\ Loader # Absent => Loader'.conf = Loader.conf
         /\ [Switching!Next]_<<ListIn(Loader), want>>
<1>1. TypeOK'  BY TypeStep DEF IInv
<1> DEFINE Goal == /\ IInv'
                   /\ Loader # Absent => Loader'.conf = Loader.conf
                   /\ [Switching!Next]_<<ListIn(Loader), want>>
<1> SUFFICES Goal
  OBVIOUS
<1>2. ASSUME IInv', Loader' = Loader, bootlinks' = bootlinks, want' = want PROVE Goal
  <2>1. ListIn(Loader)' = ListIn(Loader)  BY <1>2 DEF ListIn
  <2> QED  BY <1>2, <2>1
<1>3. ASSUME IInv', Quiet, want' = NoList PROVE Goal
  BY <1>3 DEF Quiet, Switching!Next, Switching!End
<1>4. CASE Load  BY <1>1, <1>2, <1>4, LoadInv DEF Load, disk
<1>5. ASSUME NEW l \in Lists, Begin(l) PROVE Goal
  <2>1. IInv' /\ Loader' = Loader /\ want' = l /\ bootlinks' = bootlinks
    BY <1>1, <1>5, BeginInv DEF Begin
  <2>2. want = NoList  BY <1>5 DEF Begin, Goto, IInv, VersionInv
  <2>3. ListIn(Loader)' = ListIn(Loader)  BY <2>1 DEF ListIn
  <2> QED  BY <2>1, <2>2, <2>3 DEF Switching!Next, Switching!Begin
<1>6. CASE Relink
  <2>1. IInv' /\ Loader' = Loader /\ ListIn(Loader)' = want /\ want' = want
    BY <1>1, <1>6, RelinkInv DEF Relink
  <2>2. want # NoList  BY <1>6 DEF Relink, Goto, IInv, VersionInv
  <2> QED  BY <2>1, <2>2 DEF Switching!Next, Switching!Switch
<1>7. CASE WriteEntries  BY <1>1, <1>2, <1>7, WriteEntriesInv DEF WriteEntries
<1>8. CASE SwapBootlinks
  <2>1. IInv' /\ Quiet /\ want' = want
    BY <1>1, <1>8, SwapBootlinksInv DEF SwapBootlinks, Quiet
  <2> QED  BY <2>1 DEF Quiet
<1>9. CASE WriteConfig  BY <1>1, <1>2, <1>9, WriteConfigInv DEF WriteConfig
<1>10. CASE FindKind  BY <1>1, <1>2, <1>10, FindKindInv DEF FindKind
<1>11. CASE PrepareLink  BY <1>1, <1>2, <1>11, PrepareLinkInv DEF PrepareLink
<1>12. CASE Tag  BY <1>1, <1>2, <1>12, TagInv DEF Tag
<1>13. CASE Remove  BY <1>1, <1>2, <1>13, RemoveInv DEF Remove
<1>14. CASE Rename
  <2>1. pc = "rename"  BY <1>14 DEF Rename, Goto
  <2>2. dirs[Old] = Absent  BY <2>1 DEF IInv, UpdateInv
  <2> QED  BY <1>1, <1>2, <1>14, <2>2, RenameInv DEF Rename
<1>15. CASE Sync  BY <1>1, <1>2, <1>15, SyncInv DEF Sync, disk
<1>16. CASE Swap
  <2>1. /\ IInv' /\ ListIn(Loader)' = want /\ (Loader # Absent => Loader'.conf = Loader.conf)
        /\ want' = want
    BY <1>1, <1>16, SwapInv DEF Swap
  <2>2. want # NoList  BY <1>16 DEF Swap, Goto, IInv, VersionInv
  <2> QED  BY <2>1, <2>2 DEF Switching!Next, Switching!Switch
<1>17. CASE SwapFails  BY <1>1, <1>3, <1>17, SwapFailsInv DEF SwapFails, Quiet
<1>18. CASE Cleanup  BY <1>1, <1>3, <1>18, CleanupInv DEF Cleanup, Quiet
<1>19. CASE Killed  BY <1>1, <1>3, <1>19, KilledInv DEF Killed, Restart, Quiet
<1>20. CASE PowerFails  BY <1>1, <1>3, <1>20, PowerFailsInv DEF PowerFails, Restart, Quiet
<1>21. CASE UNCHANGED vars
  <2>1. UNCHANGED <<link, tmp, dirs, bootlinks, trees, dirty, pc, ver, list, want, kind>>
    BY <1>21 DEF vars, disk, process
  <2>2. Loader' = Loader /\ CurrentVersion' = CurrentVersion  BY <2>1, LoaderKept DEF IInv
  <2>3. IInv'
    BY <1>1, <2>1, <2>2 DEF IInv, LoaderInv, VersionInv, DirtyInv, UpdateInv, KindInv, ConfInv, ConfOf,
                            ListIn, Pending, Renamed, Old, New
  <2> QED  BY <1>2, <2>1, <2>2, <2>3
<1> HIDE DEF Goal
<1> QED
  BY <1>4, <1>5, <1>6, <1>7, <1>8, <1>9, <1>10, <1>11, <1>12, <1>13, <1>14, <1>15, <1>16, <1>17,
     <1>18, <1>19, <1>20, <1>21 DEF Next, Step, Interruption

\* The invariant holds of every behaviour.
THEOREM Invariant == Spec => []IInv
<1>1. Init => IInv  BY InvInit
<1>2. IInv /\ [Next]_vars => IInv'  BY InvStep
<1> QED  BY <1>1, <1>2, PTL DEF Spec

\* The variables have their types.
THEOREM TypeCorrect == Spec => []TypeOK
<1>1. IInv => TypeOK  BY DEF IInv
<1> QED  BY <1>1, Invariant, PTL

\* Whatever the firmware finds at boot/loader can be booted (Boots): for any lists that share kernels
\* in any way, a loader of either kind, and any number of kills and power failures between the steps of
\* ostree_sysroot_write_deployments.
THEOREM LoaderBoots == Spec => []Boots
<1>1. ASSUME IInv PROVE Boots
  <2> SUFFICES ASSUME Loader # Absent, Loader.kernel # NoKernel
               PROVE  /\ ListIn(Loader) \in trees /\ Loader.kernel = Kernel[ListIn(Loader)]
                      /\ CurrentVersion = Loader.ver
    BY DEF Boots
  <2>1. ListIn(Loader) = bootlinks[Loader.ver]  BY DEF ListIn
  <2> QED  BY <1>1, <2>1 DEF IInv, LoaderInv
<1> QED  BY <1>1, Invariant, PTL

\* swap_bootloader and the change of boot.N have atomic semantics: every step of the libostree functions
\* is a step of AtomicSwitch or changes nothing the firmware sees.
THEOREM Refinement == Spec => SwitchesAtomically
<1>1. ASSUME Init PROVE Switching!Init
  <2>1. IInv /\ want = NoList  BY <1>1, InvInit DEF Init
  <2> QED  BY <2>1, Current DEF IInv, Switching!Init
<1>2. IInv /\ [Next]_vars => [Switching!Next]_(Switching!vars)
  BY InvStep DEF Switching!vars
<1> QED  BY <1>1, <1>2, Invariant, PTL DEF Spec, SwitchesAtomically, Switching!Spec

\* No update of the loader, and no power failure, adds or loses loader.conf.
THEOREM LoaderConfStays == Spec => KeepsLoaderConf
<1>1. IInv /\ [Next]_vars => [Loader # Absent => Loader'.conf = Loader.conf]_vars
  BY InvStep
<1> QED  BY <1>1, Invariant, PTL DEF Spec, KeepsLoaderConf

-----------------------------------------------------------------------------
(* Part 6.  The entries of deployments with unified kernel images.          *)

bootcsum(i) == Entry!bootcsum(i)

Records == [id : Nat, image : Images, linux : {""} \union {bootcsum(i) : i \in Images},
            uki : {""} \union {bootcsum(i) : i \in Images}]

\* An entry names by linux the kernel of its image, by uki the image's unified kernel image.
Fits(d) ==
  /\ d.linux \in {"", bootcsum(d.image)} /\ d.uki \in {"", bootcsum(d.image)}
  /\ d.linux # "" \/ d.uki # ""
  /\ d.uki # "" => ImageUki[d.image] # NoFile

\* The file of an image under one of its two names, and those that an entry names.
File(i, nm) == [csum |-> bootcsum(i), name |-> nm, content |-> Entry!Vmlinuz(i)]
FilesFor(d) ==
  (IF d.linux = "" THEN {} ELSE {File(d.image, "vmlinuz")}) \union
  (IF d.uki = "" THEN {} ELSE {File(d.image, "uki")})

Deployed == Entry!ToSet(deployments)

\* The deployments have entries that fit and numbers of their own, and the booted one is among them.
DeployedInv ==
  /\ deploys \in Nat
  /\ deployments \in Seq(Records)
  /\ \A d \in Deployed : Fits(d) /\ d.id <= deploys
  /\ \A d, e \in Deployed : d.id = e.id => d = e
  /\ \E d \in Deployed : d.id = booted

\* A file's directory names what it holds; the files the entries start are there.
IsNamed(f) == f = [csum |-> f.csum, name |-> f.name, content |-> f.csum]
FilesInv ==
  /\ \A f \in files : IsNamed(f)
  /\ \A d \in Deployed : FilesFor(d) \subseteq files

EntryInv == DeployedInv /\ FilesInv

\* The set of a sequence of records, and of the sequence of their entries.
LEMMA SetOf ==
  ASSUME NEW s \in Seq(Records)
  PROVE  /\ Entry!ToSet(s) \subseteq Records
         /\ \A x : x \in Entry!ToSet(s) <=> \E k \in 1 .. Len(s) : x = s[k]
BY DEF Entry!ToSet

LEMMA PairSet ==
  ASSUME NEW x \in Records, NEW y \in Records
  PROVE  <<x, y>> \in Seq(Records) /\ Entry!ToSet(<<x, y>>) = {x, y}
<1> DEFINE s == <<x, y>>
<1>1. DOMAIN s = 1 .. 2 /\ s[1] = x /\ s[2] = y /\ s \in Seq(Records)  OBVIOUS
<1>2. Entry!ToSet(s) = {s[k] : k \in DOMAIN s}  BY DEF Entry!ToSet
<1> HIDE DEF s
<1>3. Entry!ToSet(s) = {x, y}  BY <1>1, <1>2
<1> QED  BY <1>1, <1>3 DEF s

LEMMA MappedSet ==
  ASSUME NEW n \in Nat, NEW f \in [1 .. n -> Records]
  PROVE  f \in Seq(Records) /\ Entry!ToSet(f) = {f[k] : k \in 1 .. n}
<1>1. DOMAIN f = 1 .. n  OBVIOUS
<1>2. f \in Seq(Records)  OBVIOUS
<1> QED  BY <1>1, <1>2 DEF Entry!ToSet

LEMMA ReversedSet ==
  ASSUME NEW s \in Seq(Records)
  PROVE  /\ Entry!Reverse(s) \in Seq(Records)
         /\ \A x : x \in Entry!ToSet(Entry!Reverse(s)) <=> x \in Entry!ToSet(s)
<1> DEFINE n == Len(s)
           f == [k \in 1 .. n |-> s[(n - k) + 1]]
<1>1. n \in Nat /\ s \in [1 .. n -> Records]  BY LenProperties
<1>2. Entry!Reverse(s) = f  BY DEF Entry!Reverse
<1> HIDE DEF n
<1>3. \A k \in 1 .. n : (n - k) + 1 \in 1 .. n /\ f[k] = s[(n - k) + 1] /\ (n - ((n - k) + 1)) + 1 = k
  BY <1>1
<1>4. f \in [1 .. n -> Records]  BY <1>1, <1>3
<1> HIDE DEF f
<1>5. f \in Seq(Records) /\ Entry!ToSet(f) = {f[k] : k \in 1 .. n}  BY <1>1, <1>4, MappedSet
<1>6. Entry!ToSet(s) = {s[k] : k \in 1 .. n}  BY <1>1, MappedSet
<1>7. ASSUME NEW k \in 1 .. n PROVE f[k] \in Entry!ToSet(s) /\ s[k] \in Entry!ToSet(f)
  <2>1. f[k] = s[(n - k) + 1] /\ (n - k) + 1 \in 1 .. n  BY <1>3
  <2>2. f[(n - k) + 1] = s[k]  BY <1>3, <2>1
  <2> QED  BY <1>5, <1>6, <2>1, <2>2
<1> QED  BY <1>2, <1>5, <1>6, <1>7

LEMMA CsumNamed == ASSUME NEW i \in Images PROVE bootcsum(i) # "" /\ bootcsum(i) = Entry!Vmlinuz(i)
BY EntryAssumption DEF bootcsum, Entry!bootcsum, Entry!Vmlinuz, Entry!UkiAssumption

LEMMA FileNamed ==
  ASSUME NEW i \in Images, NEW nm
  PROVE  File(i, nm).csum = Entry!bootcsum(i) /\ IsNamed(File(i, nm))
BY CsumNamed DEF File, IsNamed, bootcsum

\* What a libostree makes of the entry d of a deployment: e.
Rewritten(d, e, p) ==
  \/ d.linux = "" /\ d.uki = ""
  \/ d = e
  \/ ~p /\ d.linux = "" /\ e = [d EXCEPT !.linux = d.uki]

\* The entry of a deployment that has none, or one that fits, fits its image; it names the file that
\* goes with it, and what it named before. One that is written again changes in one way only.
LEMMA EntryWritten ==
  ASSUME NEW d \in Records, Fits(d) \/ (d.linux = "" /\ d.uki = ""), NEW p \in BOOLEAN,
         NEW e, e = Entry!EntryOf(d, p), NEW f, f = Entry!FileOf(d, p)
  PROVE  /\ e \in Records /\ Fits(e) /\ e.id = d.id /\ e.image = d.image
         /\ f \in FilesFor(e) /\ FilesFor(e) \subseteq FilesFor(d) \union {f}
         /\ f \in {File(d.image, "vmlinuz"), File(d.image, "uki")}
         /\ Rewritten(d, e, p)
<1>1. /\ bootcsum(d.image) # "" /\ bootcsum(d.image) = Entry!bootcsum(d.image)
      /\ bootcsum(d.image) \in {bootcsum(i) : i \in Images}
  BY CsumNamed DEF bootcsum, Records
<1>2. PICK c : c = bootcsum(d.image)  OBVIOUS
<1>3. CASE p /\ ImageUki[d.image] # NoFile /\ d.linux = ""
  <2>1. Entry!IsUki(d, p)  BY <1>3 DEF Entry!IsUki
  <2>2. e = [d EXCEPT !.uki = c]
    BY <1>1, <1>2, <2>1 DEF Entry!EntryOf
  <2>3. /\ e \in Records /\ e.id = d.id /\ e.image = d.image /\ e.linux = "" /\ e.uki = c
    BY <1>1, <1>2, <1>3, <2>2 DEF Records
  <2>4. Entry!Vmlinuz(d.image) = ImageUki[d.image]  BY <1>3 DEF Entry!Vmlinuz
  <2>5. f = File(d.image, "uki")
    BY <1>1, <2>1, <2>4 DEF Entry!FileOf, File
  <2>6. Fits(e)  BY <1>1, <1>2, <1>3, <2>3 DEF Fits
  <2>7. FilesFor(e) = {f}
    BY <1>1, <1>2, <2>3, <2>5 DEF FilesFor
  <2>8. d.uki # "" => d = e
    BY <1>2, <2>2, <2>3 DEF Fits, Records
  <2> QED  BY <1>3, <2>3, <2>5, <2>6, <2>7, <2>8 DEF Rewritten
<1>4. CASE ~(p /\ ImageUki[d.image] # NoFile /\ d.linux = "")
  <2>1. ~Entry!IsUki(d, p)  BY <1>4 DEF Entry!IsUki
  <2>2. e = [d EXCEPT !.linux = c]
    BY <1>1, <1>2, <2>1 DEF Entry!EntryOf
  <2>3. /\ e \in Records /\ e.id = d.id /\ e.image = d.image /\ e.uki = d.uki /\ e.linux = c
    BY <1>1, <1>2, <2>2 DEF Records
  <2>4. f = File(d.image, "vmlinuz")
    BY <1>1, <2>1 DEF Entry!FileOf, File
  <2>5. Fits(e)  BY <1>1, <1>2, <2>3 DEF Fits
  <2>6. f \in FilesFor(e) /\ FilesFor(e) \subseteq FilesFor(d) \union {f}
    BY <1>1, <1>2, <2>3, <2>4 DEF FilesFor
  <2>7. Rewritten(d, e, p)
    BY <1>2, <1>4, <2>2, <2>3 DEF Rewritten, Fits, Records
  <2> QED  BY <2>3, <2>4, <2>5, <2>6, <2>7
<1> QED  BY <1>3, <1>4

LEMMA Truth == ASSUME NEW x, NEW S PROVE (x \in S) \in BOOLEAN
OBVIOUS

LEMMA EntryInit == Entry!Init => EntryInv
<1> SUFFICES ASSUME Entry!Init PROVE EntryInv
  OBVIOUS
<1>1. PICK i \in Images : /\ deployments = <<Entry!EntryOf(Entry!New(1, i), i \in Patched)>>
                          /\ files = {Entry!FileOf(Entry!New(1, i), i \in Patched)}
  BY DEF Entry!Init
<1>2. deploys = 1 /\ booted = 1  BY DEF Entry!Init
<1>13. PICK n \in Nat : n = 1  OBVIOUS
<1>3. PICK d : d = Entry!New(n, i)  OBVIOUS
<1> DEFINE p == i \in Patched
<1>10. files = {Entry!FileOf(d, p)} /\ deployments = <<Entry!EntryOf(d, p)>>
  BY <1>1, <1>3, <1>13
<1>11. p \in BOOLEAN  OBVIOUS
<1> HIDE DEF p
<1>12. PICK e : e = Entry!EntryOf(d, p)  OBVIOUS
<1>8. d \in Records /\ d.linux = "" /\ d.uki = "" /\ d.id = 1 /\ d.image = i
  <2>1. d = [id |-> n, image |-> i, linux |-> "", uki |-> ""]  BY <1>3 DEF Entry!New
  <2> QED  BY <1>13, <2>1 DEF Records
<1>14. PICK f : f = Entry!FileOf(d, p)  OBVIOUS
<1>9. /\ e \in Records /\ Fits(e) /\ e.id = d.id /\ e.image = d.image
      /\ FilesFor(e) \subseteq FilesFor(d) \union {f}
      /\ f \in {File(d.image, "vmlinuz"), File(d.image, "uki")}
  BY <1>11, <1>12, <1>14, <1>8, EntryWritten
<1>4. e \in Records /\ Fits(e) /\ e.id = 1 /\ e.image = i /\ FilesFor(e) \subseteq files
  <2>1. FilesFor(d) = {}  BY <1>8 DEF FilesFor
  <2> QED  BY <1>8, <1>9, <1>10, <1>14, <2>1
<1>5. deployments = <<e>>  BY <1>10, <1>12
<1>6. Deployed = {e} /\ deployments \in Seq(Records)  BY <1>4, <1>5 DEF Deployed, Entry!ToSet
<1>7. IsNamed(f)
  <2>1. f = File(i, "vmlinuz") \/ f = File(i, "uki")  BY <1>8, <1>9
  <2>2. IsNamed(File(i, "vmlinuz")) /\ IsNamed(File(i, "uki"))  BY FileNamed
  <2> QED  BY <2>1, <2>2
<1> QED  BY <1>2, <1>4, <1>6, <1>7, <1>10, <1>14 DEF EntryInv, DeployedInv, FilesInv

\* The booted deployment is one of those there are.
LEMMA BootedIs ==
  ASSUME EntryInv
  PROVE  Entry!Booted \in Deployed /\ Entry!Booted \in Records /\ Entry!Booted.id = booted
<1>1. PICK d \in Deployed : d.id = booted  BY DEF EntryInv, DeployedInv
<1>2. Entry!Booted \in Deployed /\ Entry!Booted.id = booted
  BY <1>1 DEF Entry!Booted, Deployed
<1>3. Deployed \subseteq Records  BY SetOf DEF EntryInv, DeployedInv, Deployed
<1> QED  BY <1>2, <1>3

\* What writing a list of deployments makes of it, when each is a new one or one there is: the entries
\* fit, and their files are there, whether the writing was completed or not.
LEMMA Writing ==
  ASSUME EntryInv, NEW todo \in Seq(Records), Entry!WriteDeployments(todo),
         \A x \in Entry!ToSet(todo) : (x.linux = "" /\ x.uki = "") \/ x \in Deployed
  PROVE  /\ FilesInv'
         /\ deployments' \in Seq(Records) /\ Deployed' \subseteq Records
         /\ \/ deployments' = deployments
            \/ /\ \A e \in Deployed' : Fits(e) /\ \E x \in Entry!ToSet(todo) :
                     e = Entry!EntryOf(x, Entry!ByPatched) /\ e.id = x.id /\ Rewritten(x, e, Entry!ByPatched)
               /\ \A x \in Entry!ToSet(todo) : \E e \in Deployed' : e.id = x.id
<1> DEFINE p == Entry!ByPatched
<1>0. p \in BOOLEAN
  <2>1. (Entry!Booted.image \in Patched) \in BOOLEAN  BY Truth
  <2> QED  BY <2>1 DEF Entry!ByPatched
<1> DEFINE L == Entry!ToSet(todo)
           E(x) == Entry!EntryOf(x, p)
           F(x) == Entry!FileOf(x, p)
<1>1. ASSUME NEW x \in L
      PROVE  /\ E(x) \in Records /\ Fits(E(x)) /\ E(x).id = x.id /\ E(x).image = x.image
             /\ FilesFor(E(x)) \subseteq files \union {F(x)}
             /\ \A y \in FilesFor(E(x)) : y.csum = Entry!bootcsum(x.image)
             /\ IsNamed(F(x)) /\ Rewritten(x, E(x), p)
  <2> HIDE DEF p
  <2>1. x \in Records  BY SetOf
  <2>9. (x.linux = "" /\ x.uki = "") \/ x \in Deployed  OBVIOUS
  <2>2. (x.linux = "" /\ x.uki = "") \/ (Fits(x) /\ FilesFor(x) \subseteq files)
    BY <2>9 DEF EntryInv, DeployedInv, FilesInv
  <2>3. x.linux = "" /\ x.uki = "" => FilesFor(x) = {}  BY DEF FilesFor
  <2>4. PICK e, f : e = E(x) /\ f = F(x)  OBVIOUS
  <2>5. /\ e \in Records /\ Fits(e) /\ e.id = x.id /\ e.image = x.image
        /\ FilesFor(e) \subseteq FilesFor(x) \union {f}
        /\ f \in {File(x.image, "vmlinuz"), File(x.image, "uki")}
        /\ Rewritten(x, e, p)
    BY <1>0, <2>1, <2>2, <2>4, EntryWritten DEF p
  <2>6. x.image \in Images  BY <2>1 DEF Records
  <2>7. IsNamed(f)  BY <2>5, <2>6, FileNamed
  <2>10. \A nm \in {"vmlinuz", "uki"} : File(x.image, nm).csum = Entry!bootcsum(x.image)
    BY <2>6, FileNamed
  <2>11. \A y \in FilesFor(e) : y = File(x.image, "vmlinuz") \/ y = File(x.image, "uki")
    <3>1. e.image = x.image  BY <2>5
    <3>2. \A y \in FilesFor(e) : y = File(e.image, "vmlinuz") \/ y = File(e.image, "uki")
      BY DEF FilesFor
    <3> QED  BY <3>1, <3>2
  <2>8. \A y \in FilesFor(e) : y.csum = Entry!bootcsum(x.image)
    BY <2>10, <2>11
  <2> QED  BY <2>2, <2>3, <2>4, <2>5, <2>7, <2>8
<1> DEFINE I == Entry!Installed(todo, p)
<1>2. /\ files \subseteq I /\ \A f \in I : IsNamed(f)
      /\ \A x \in L : FilesFor(E(x)) \subseteq I
  <2>1. I = files \union {f \in {F(x) : x \in L} :
                            ~\E g \in files : g.csum = f.csum /\ g.name = f.name}
    BY DEF Entry!Installed
  <2>2. \A f \in files : IsNamed(f)  BY DEF EntryInv, FilesInv
  <2>3. ASSUME NEW x \in L PROVE F(x) \in I
    <3>0. IsNamed(F(x))  BY <1>1
    <3> HIDE DEF F, I, p
    <3>1. PICK y : y = F(x)  OBVIOUS
    <3>2. ASSUME \E g \in files : g.csum = y.csum /\ g.name = y.name PROVE y \in I
      <4>1. PICK g \in files : g.csum = y.csum /\ g.name = y.name  BY <3>2
      <4>2. g = y  BY <2>2, <3>0, <3>1, <4>1 DEF IsNamed
      <4> QED  BY <2>1, <4>1, <4>2
    <3>3. ASSUME ~\E g \in files : g.csum = y.csum /\ g.name = y.name PROVE y \in I
      BY <2>1, <3>1, <3>3
    <3> QED  BY <3>1, <3>2, <3>3
  <2>4. ASSUME NEW f \in I PROVE IsNamed(f)
    <3>1. f \in files \/ \E x \in L : f = F(x)  BY <2>1
    <3> QED  BY <1>1, <2>2, <3>1
  <2>5. files \subseteq I  BY <2>1
  <2>6. ASSUME NEW x \in L PROVE FilesFor(E(x)) \subseteq I
    <3>1. FilesFor(E(x)) \subseteq files \union {F(x)}  BY <1>1
    <3> HIDE DEF I, E, F, p
    <3> QED  BY <2>3, <2>5, <3>1
  <2> QED  BY <2>4, <2>5, <2>6
<1>3. ASSUME deployments' = [k \in 1 .. Len(todo) |-> E(todo[k])]
      PROVE  /\ deployments' \in Seq(Records)
             /\ \A e : e \in Deployed' <=> \E x \in L : e = E(x)
  <2>1. \A x : x \in L <=> \E k \in 1 .. Len(todo) : x = todo[k]  BY SetOf
  <2>2. Len(todo) \in Nat  BY LenProperties
  <2>3. \A k \in 1 .. Len(todo) : E(todo[k]) \in Records  BY <1>1, <2>1
  <2> HIDE DEF E, L
  <2>4. PICK n \in Nat : n = Len(todo)  BY <2>2
  <2>5. PICK f : f = deployments'  OBVIOUS
  <2>6. \A k \in 1 .. n : f[k] = E(todo[k]) /\ f[k] \in Records  BY <1>3, <2>3, <2>4, <2>5
  <2>7. f = [k \in 1 .. n |-> f[k]]  BY <1>3, <2>4, <2>5
  <2>10. f \in [1 .. n -> Records]  BY <2>6, <2>7
  <2>8. f \in Seq(Records) /\ Entry!ToSet(f) = {f[k] : k \in 1 .. n}  BY <2>10, MappedSet
  <2>9. Deployed' = {f[k] : k \in 1 .. n}  BY <2>5, <2>8 DEF Deployed
  <2>11. ASSUME NEW e \in Deployed' PROVE \E x \in L : e = E(x)
    <3>1. PICK k \in 1 .. n : e = f[k]  BY <2>9
    <3>2. todo[k] \in L  BY <2>1, <2>4
    <3> QED  BY <2>6, <3>1, <3>2
  <2>12. ASSUME NEW x \in L PROVE E(x) \in Deployed'
    <3>1. PICK k \in 1 .. n : x = todo[k]  BY <2>1, <2>4
    <3> QED  BY <2>6, <2>9, <3>1
  <2> QED  BY <2>5, <2>8, <2>11, <2>12
<1> DEFINE N == Entry!Needed(todo)
<1>4. \A x \in L : \A y \in FilesFor(E(x)) : y.csum \in N
  BY <1>1 DEF Entry!Needed
<1>5. \/ /\ deployments' = [k \in 1 .. Len(todo) |-> E(todo[k])]
         /\ files' = {f \in I : f.csum \in N} \/ files' = I
      \/ deployments' = deployments /\ files' = I
  BY DEF Entry!WriteDeployments
<1> HIDE DEF E, F, I, L, N, p
<1>6. CASE deployments' = [k \in 1 .. Len(todo) |-> E(todo[k])] /\ (files' = {f \in I : f.csum \in N} \/ files' = I)
  <2>1. \A e : e \in Deployed' <=> \E x \in L : e = E(x)  BY <1>3, <1>6
  <2>2. FilesInv'  BY <1>2, <1>4, <1>6, <2>1 DEF FilesInv
  <2>3. /\ \A e \in Deployed' : Fits(e) /\ \E x \in L : e = E(x) /\ e.id = x.id /\ Rewritten(x, e, p)
        /\ \A x \in L : \E e \in Deployed' : e.id = x.id
        /\ Deployed' \subseteq Records
    <3>1. ASSUME NEW e \in Deployed'
          PROVE  /\ Fits(e) /\ e \in Records
                 /\ \E x \in L : e = E(x) /\ e.id = x.id /\ Rewritten(x, e, p)
      <4>1. PICK x \in L : e = E(x)  BY <2>1
      <4> QED  BY <1>1, <4>1
    <3>2. ASSUME NEW x \in L PROVE \E e \in Deployed' : e.id = x.id
      <4>1. E(x) \in Deployed' /\ E(x).id = x.id  BY <1>1, <2>1
      <4> QED  BY <4>1
    <3> QED  BY <3>1, <3>2
  <2> QED  BY <1>3, <1>6, <2>2, <2>3 DEF E, L, p
<1>7. CASE deployments' = deployments /\ files' = I
  <2>1. Deployed' = Deployed  BY <1>7 DEF Deployed
  <2>2. Deployed \subseteq Records  BY SetOf DEF EntryInv, DeployedInv, Deployed
  <2>3. FilesInv'  BY <1>2, <1>7, <2>1 DEF EntryInv, FilesInv
  <2> QED  BY <1>7, <2>1, <2>2, <2>3 DEF EntryInv, DeployedInv
<1> QED  BY <1>5, <1>6, <1>7

Kept == \A d \in Deployed, e \in Deployed' : d.id = e.id =>
          d = e \/ (~Entry!ByPatched /\ d.linux = "" /\ e = [d EXCEPT !.linux = d.uki])

LEMMA EntryStep ==
  ASSUME EntryInv, Entry!Next
  PROVE  EntryInv' /\ Kept
<1>1. Deployed \subseteq Records /\ \A d \in Deployed : Fits(d)
  BY SetOf DEF EntryInv, DeployedInv, Deployed
<1>2. ASSUME NEW i \in Images, Entry!Deploy(i)
      PROVE  EntryInv' /\ Kept
  <2> DEFINE n == deploys + 1
             new == Entry!New(n, i)
             old == Entry!Booted
             todo == <<new, old>>
  <2>1. n \in Nat /\ deploys' = n /\ booted' = booted /\ Entry!WriteDeployments(todo)
    BY <1>2 DEF Entry!Deploy, EntryInv, DeployedInv
  <2>2. new \in Records /\ new.id = n /\ new.linux = "" /\ new.uki = ""
    BY <2>1 DEF Entry!New, Records
  <2>3. old \in Deployed /\ old \in Records /\ old.id = booted
    BY BootedIs
  <2>4. todo \in Seq(Records) /\ Entry!ToSet(todo) = {new, old}
    BY <2>2, <2>3, PairSet
  <2>5. /\ FilesInv'
        /\ deployments' \in Seq(Records) /\ Deployed' \subseteq Records
        /\ \/ deployments' = deployments
           \/ /\ \A e \in Deployed' : Fits(e) /\ \E x \in {new, old} :
                    e.id = x.id /\ e = Entry!EntryOf(x, Entry!ByPatched) /\ Rewritten(x, e, Entry!ByPatched)
              /\ \A x \in {new, old} : \E e \in Deployed' : e.id = x.id
    <3> HIDE DEF new, old, todo
    <3>1. \A x \in Entry!ToSet(todo) : (x.linux = "" /\ x.uki = "") \/ x \in Deployed
      BY <2>2, <2>3, <2>4
    <3>2. /\ FilesInv'
          /\ deployments' \in Seq(Records) /\ Deployed' \subseteq Records
          /\ \/ deployments' = deployments
             \/ /\ \A e \in Deployed' : Fits(e) /\ \E x \in Entry!ToSet(todo) :
                      e = Entry!EntryOf(x, Entry!ByPatched) /\ e.id = x.id /\ Rewritten(x, e, Entry!ByPatched)
                /\ \A x \in Entry!ToSet(todo) : \E e \in Deployed' : e.id = x.id
      BY <2>1, <2>4, <3>1, Writing
    <3> QED  BY <2>4, <3>2
  <2> HIDE DEF new, old, todo
  <2>6. CASE deployments' = deployments
    <3>1. Deployed' = Deployed  BY <2>6 DEF Deployed
    <3>2. \A d \in Deployed : d.id \in Nat  BY <1>1 DEF Records
    <3>3. DeployedInv'  BY <2>1, <2>5, <3>1, <3>2 DEF EntryInv, DeployedInv
    <3> QED  BY <2>5, <3>1, <3>3 DEF EntryInv, DeployedInv, Kept
  <2>7. CASE /\ \A e \in Deployed' : Fits(e) /\ \E x \in {new, old} :
                    e.id = x.id /\ e = Entry!EntryOf(x, Entry!ByPatched) /\ Rewritten(x, e, Entry!ByPatched)
             /\ \A x \in {new, old} : \E e \in Deployed' : e.id = x.id
    <3>1. old.linux # "" \/ old.uki # ""  BY <1>1, <2>3 DEF Fits
    <3>2. \A e \in Deployed' :
             \/ e = Entry!EntryOf(new, Entry!ByPatched) /\ e.id = n
             \/ /\ e = Entry!EntryOf(old, Entry!ByPatched) /\ e.id = old.id
                /\ Rewritten(old, e, Entry!ByPatched)
      BY <2>2, <2>7
    <3>3. /\ deploys \in Nat /\ n = deploys + 1 /\ n \in Nat
          /\ \A d \in Deployed : d.id \in Nat /\ d.id <= deploys
      BY <1>1, <2>1 DEF EntryInv, DeployedInv, Records
    <3>9. old.id <= deploys /\ old.id \in Nat  BY <2>3, <3>3
    <3>10. old.id <= n /\ n <= n /\ n # old.id  BY <3>3, <3>9
    <3>11. \A d \in Deployed : d.id # n
      <4>1. ASSUME NEW d \in Deployed PROVE d.id # n
        <5>1. d.id \in Nat /\ d.id <= deploys  BY <3>3
        <5> QED  BY <3>3, <5>1
      <4> QED  BY <4>1
    <3>4. \A e \in Deployed' : Fits(e) /\ e.id <= n  BY <2>7, <3>2, <3>10
    <3>5. \A d, e \in Deployed' : d.id = e.id => d = e  BY <3>2, <3>10
    <3>6. \E d \in Deployed' : d.id = booted  BY <2>3, <2>7
    <3>7. DeployedInv'  BY <2>1, <2>5, <3>4, <3>5, <3>6 DEF DeployedInv
    <3>8. ASSUME NEW d \in Deployed, NEW e \in Deployed', d.id = e.id
          PROVE  d = e \/ (~Entry!ByPatched /\ d.linux = "" /\ e = [d EXCEPT !.linux = d.uki])
      <4>1. Rewritten(old, e, Entry!ByPatched) /\ e.id = old.id  BY <3>2, <3>8, <3>11
      <4>2. d = old  BY <2>3, <3>8, <4>1 DEF EntryInv, DeployedInv
      <4> QED  BY <3>1, <4>1, <4>2 DEF Rewritten
    <3> QED  BY <2>5, <3>7, <3>8 DEF EntryInv, Kept
  <2> QED  BY <2>5, <2>6, <2>7
<1>3. ASSUME Entry!SetDefault
      PROVE  EntryInv' /\ Kept
  <2> DEFINE todo == Entry!Reverse(deployments)
  <2>1. Entry!WriteDeployments(todo) /\ booted' = booted /\ deploys' = deploys
    BY <1>3 DEF Entry!SetDefault
  <2>2. todo \in Seq(Records) /\ \A x : x \in Entry!ToSet(todo) <=> x \in Deployed
    BY ReversedSet DEF EntryInv, DeployedInv, Deployed
  <2> HIDE DEF todo
  <2>3. /\ FilesInv'
        /\ deployments' \in Seq(Records)
        /\ \/ deployments' = deployments
           \/ /\ \A e \in Deployed' : Fits(e) /\ \E x \in Deployed :
                    e = Entry!EntryOf(x, Entry!ByPatched) /\ e.id = x.id /\ Rewritten(x, e, Entry!ByPatched)
              /\ \A x \in Deployed : \E e \in Deployed' : e.id = x.id
    BY <2>1, <2>2, Writing
  <2>6. CASE deployments' = deployments
    <3>1. Deployed' = Deployed  BY <2>6 DEF Deployed
    <3> QED  BY <2>1, <2>3, <2>6, <3>1 DEF EntryInv, DeployedInv, Kept
  <2>7. CASE /\ \A e \in Deployed' : Fits(e) /\ \E x \in Deployed :
                    e = Entry!EntryOf(x, Entry!ByPatched) /\ e.id = x.id /\ Rewritten(x, e, Entry!ByPatched)
             /\ \A x \in Deployed : \E e \in Deployed' : e.id = x.id
    <3>1. \A x \in Deployed : x.linux # "" \/ x.uki # ""  BY <1>1 DEF Fits
    <3>2. \A x, y \in Deployed : x.id = y.id => x = y  BY DEF EntryInv, DeployedInv
    <3>3. \A e \in Deployed' : Fits(e) /\ e.id <= deploys  BY <2>7 DEF EntryInv, DeployedInv
    <3>4. ASSUME NEW d \in Deployed', NEW e \in Deployed', d.id = e.id PROVE d = e
      <4>1. PICK x \in Deployed : d = Entry!EntryOf(x, Entry!ByPatched) /\ d.id = x.id  BY <2>7
      <4>2. PICK y \in Deployed : e = Entry!EntryOf(y, Entry!ByPatched) /\ e.id = y.id  BY <2>7
      <4>3. x = y  BY <3>2, <3>4, <4>1, <4>2
      <4> QED  BY <4>1, <4>2, <4>3
    <3>5. \E d \in Deployed' : d.id = booted  BY <2>7 DEF EntryInv, DeployedInv
    <3>6. ASSUME NEW d \in Deployed, NEW e \in Deployed', d.id = e.id
          PROVE  d = e \/ (~Entry!ByPatched /\ d.linux = "" /\ e = [d EXCEPT !.linux = d.uki])
      <4>1. PICK x \in Deployed : Rewritten(x, e, Entry!ByPatched) /\ e.id = x.id  BY <2>7
      <4>2. x = d  BY <3>2, <3>6, <4>1
      <4> QED  BY <3>1, <4>1, <4>2 DEF Rewritten
    <3>7. DeployedInv'  BY <2>1, <2>3, <3>3, <3>4, <3>5 DEF EntryInv, DeployedInv
    <3> QED  BY <2>3, <3>6, <3>7 DEF EntryInv, Kept
  <2> QED  BY <2>3, <2>6, <2>7
<1>4. ASSUME Entry!Cleanup
      PROVE  EntryInv' /\ Kept
  <2>1. /\ files' = {f \in files : f.csum \in Entry!Needed(deployments)}
        /\ UNCHANGED <<deployments, booted, deploys>>
    BY <1>4 DEF Entry!Cleanup
  <2>2. Deployed' = Deployed  BY <2>1 DEF Deployed
  <2>3. DeployedInv'  BY <2>1, <2>2 DEF EntryInv, DeployedInv
  <2>4. \A d \in Deployed : \A y \in FilesFor(d) : y.csum \in Entry!Needed(deployments)
    <3>1. SUFFICES ASSUME NEW d \in Deployed, NEW y \in FilesFor(d)
                   PROVE  y.csum \in Entry!Needed(deployments)
      OBVIOUS
    <3>2. y.csum = Entry!bootcsum(d.image)  BY <1>1, FileNamed DEF FilesFor, Records
    <3> QED  BY <3>2 DEF Entry!Needed, Deployed
  <2>5. FilesInv'  BY <2>1, <2>2, <2>4 DEF EntryInv, FilesInv
  <2> QED  BY <2>2, <2>3, <2>5 DEF EntryInv, DeployedInv, Kept
<1>5. ASSUME Entry!Reboot
      PROVE  EntryInv' /\ Kept
  <2>1. /\ \E d \in Deployed : booted' = d.id
        /\ UNCHANGED <<deployments, files, deploys>>
    BY <1>5 DEF Entry!Reboot, Deployed
  <2>2. Deployed' = Deployed  BY <2>1 DEF Deployed
  <2> QED  BY <2>1, <2>2 DEF EntryInv, DeployedInv, FilesInv, Kept
<1> QED  BY <1>2, <1>3, <1>4, <1>5 DEF Entry!Next

THEOREM EntryInvariant == Entry!Spec => []EntryInv
<1>1. Entry!Init => EntryInv  BY EntryInit
<1>2. EntryInv /\ [Entry!Next]_(Entry!vars) => EntryInv'
  <2> SUFFICES ASSUME EntryInv, UNCHANGED Entry!vars PROVE EntryInv'
    BY EntryStep
  <2>1. UNCHANGED <<deployments, booted, files, deploys>>  BY DEF Entry!vars
  <2>2. Deployed' = Deployed  BY <2>1 DEF Deployed
  <2> QED  BY <2>1, <2>2 DEF EntryInv, DeployedInv, FilesInv
<1> QED  BY <1>1, <1>2, PTL DEF Entry!Spec

\* A behaviour of both parts is one of each.
THEOREM Parts == BootSpec => Spec /\ Entry!Spec
<1>1. BootInit => Init /\ Entry!Init  BY DEF BootInit
<1>2. [BootNext]_<<part, vars, ukiVars>> => [Next]_vars /\ [Entry!Next]_(Entry!vars)
  BY DEF BootNext, ukiVars, Entry!vars
<1> QED  BY <1>1, <1>2, PTL DEF BootSpec, Spec, Entry!Spec

\* All that a boot entry names is the file of its own image (EntryBoots), for any images and any number
\* of deployments, though files are only installed where there is none, entries are written by a
\* libostree with the patch or without, and the power may fail before the entries are switched or the
\* files of no deployment removed (install_deployment_kernel).
THEOREM EntriesBoot == BootSpec => []EntryBoots
<1>1. ASSUME EntryInv PROVE EntryBoots
  <2>1. Deployed \subseteq Records  BY <1>1, SetOf DEF EntryInv, DeployedInv, Deployed
  <2>2. ASSUME NEW d \in Deployed
        PROVE  /\ d.linux # "" \/ d.uki # ""
               /\ d.linux # "" => [csum |-> d.linux, name |-> "vmlinuz",
                                   content |-> Entry!Vmlinuz(d.image)] \in files
               /\ d.uki # "" => [csum |-> d.uki, name |-> "uki", content |-> ImageUki[d.image]] \in files
    <3>1. Fits(d) /\ FilesFor(d) \subseteq files  BY <1>1 DEF EntryInv, DeployedInv, FilesInv
    <3>2. d.linux # "" => d.linux = bootcsum(d.image) /\ File(d.image, "vmlinuz") \in files
      BY <3>1 DEF Fits, FilesFor, File
    <3>3. d.uki # "" => /\ d.uki = bootcsum(d.image) /\ File(d.image, "uki") \in files
                        /\ Entry!Vmlinuz(d.image) = ImageUki[d.image]
      BY <3>1 DEF Fits, FilesFor, File, Entry!Vmlinuz
    <3> QED  BY <3>1, <3>2, <3>3 DEF Fits, File
  <2> QED  BY <2>2 DEF EntryBoots, Entry!EntryBoots, Deployed
<1> QED  BY <1>1, EntryInvariant, Parts, PTL

\* The entry of a deployment changes in one way only (EntryKept): a libostree without the patch adds
\* the kernel to one with uki. With EntriesBoot, a rollback boots what it booted before.
THEOREM EntriesKept == BootSpec => EntryKept
<1> DEFINE Same == \A d \in Entry!ToSet(deployments), e \in Entry!ToSet(deployments') : d.id = e.id =>
                     \/ d = e
                     \/ ~Entry!ByPatched /\ d.linux = "" /\ e = [d EXCEPT !.linux = d.uki]
<1>1. EntryInv /\ [Entry!Next]_(Entry!vars) => [Same]_(Entry!vars)
  BY EntryStep DEF Deployed, Kept
<1> QED  BY <1>1, EntryInvariant, Parts, PTL DEF Entry!Spec, EntryKept, Entry!EntryKept
=============================================================================
