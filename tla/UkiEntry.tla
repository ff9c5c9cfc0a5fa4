------------------------------ MODULE UkiEntry ------------------------------
(***************************************************************************)
(* Boot entries and boot files of deployments with unified kernel images:  *)
(* install_deployment_kernel with patch 0003, on devices whose images may  *)
(* come with a libostree that has the patch or not.  Every change of the   *)
(* deployments writes the entry of each of them again, by the libostree of *)
(* the booted one.  Boot files live in a directory named for the checksum  *)
(* of the kernel; a file that is there is not installed again.  The power  *)
(* may fail before the entries are switched (BootSwap is about the switch) *)
(* and before the cleanup.                                                 *)
(***************************************************************************)
EXTENDS Naturals, Sequences, SequencesExt, FiniteSets

CONSTANTS
  Images,        \* images the device may get
  Kernel,        \* the kernel package's file in each
  Uki,           \* its unified kernel image, or NoFile
  NoFile,
  Patched,       \* images whose libostree has the patch
  MaxDeploys

\* This layer makes the unified kernel images and adds the patch, so an image with one has both.
UkiAssumption ==
  /\ Patched \subseteq Images /\ MaxDeploys \in Nat
  /\ \A i \in Images : Uki[i] # NoFile => i \in Patched
  /\ \A i \in Images : Kernel[i] # "" /\ Uki[i] # ""

VmlinuzOfKernel(i) == Kernel[i]

\* The tree that do_image_ostree makes of an image: uki.efi is a hard link to vmlinuz.
Vmlinuz(i) == IF Uki[i] # NoFile THEN Uki[i] ELSE Kernel[i]

\* get_kernel_from_tree_usrlib_modules: uki.efi is no part of the checksum.
bootcsum(i) == Vmlinuz(i)

VARIABLES
  deployments,   \* [id, image, linux, uki], the default one first; "" when the key is not set
  booted,        \* id
  files,         \* [csum, name, content] below /boot/ostree
  deploys        \* deployments made so far

vars == <<deployments, booted, files, deploys>>

New(n, i) == [id |-> n, image |-> i, linux |-> "", uki |-> ""]

IsUkiAlways(d, patched) == patched /\ Uki[d.image] # NoFile

\* The entry of a deployment, written by a libostree with or without the patch. One that has a
\* kernel is kept the way it was; a key that is not written stays as well, so that a libostree
\* without the patch gives an entry with uki a kernel beside it.
IsUki(d, patched) == patched /\ Uki[d.image] # NoFile /\ d.linux = ""

EntryOf(d, patched) ==
  IF IsUki(d, patched) THEN [d EXCEPT !.uki = bootcsum(d.image)]
  ELSE [d EXCEPT !.linux = bootcsum(d.image)]

FileOf(d, patched) ==
  IF IsUki(d, patched)
  THEN [csum |-> bootcsum(d.image), name |-> "uki", content |-> Uki[d.image]]
  ELSE [csum |-> bootcsum(d.image), name |-> "vmlinuz", content |-> Vmlinuz(d.image)]

\* install_into_boot for the files that are not there.
Installed(list, patched) ==
  files \union {f \in {FileOf(d, patched) : d \in ToSet(list)} :
                  ~\E g \in files : g.csum = f.csum /\ g.name = f.name}

Needed(list) == {bootcsum(d.image) : d \in ToSet(list)}

Booted == CHOOSE d \in ToSet(deployments) : d.id = booted
ByPatched == Booted.image \in Patched

Init ==
  /\ deploys = 1 /\ booted = 1
  /\ \E i \in Images :
       LET d == New(1, i) IN
         /\ deployments = <<EntryOf(d, i \in Patched)>>
         /\ files = {FileOf(d, i \in Patched)}

-----------------------------------------------------------------------------
\* Files first, then the entries, then the files of no deployment are removed.
WriteDeployments(list) ==
  \/ /\ deployments' = [k \in 1 .. Len(list) |-> EntryOf(list[k], ByPatched)]
     /\ files' = {f \in Installed(list, ByPatched) : f.csum \in Needed(list)}
  \/ /\ deployments' = [k \in 1 .. Len(list) |-> EntryOf(list[k], ByPatched)]
     /\ files' = Installed(list, ByPatched)
  \/ UNCHANGED deployments /\ files' = Installed(list, ByPatched)

\* The new deployment and the booted one are kept, as libostree does by default.
Deploy(i) ==
  /\ deploys < MaxDeploys /\ deploys' = deploys + 1
  /\ WriteDeployments(<<New(deploys + 1, i), Booted>>)
  /\ UNCHANGED booted

\* The other deployment becomes the default.
SetDefault ==
  /\ Len(deployments) = 2
  /\ WriteDeployments(Reverse(deployments)) /\ UNCHANGED <<booted, deploys>>

Cleanup ==
  /\ files' = {f \in files : f.csum \in Needed(deployments)}
  /\ UNCHANGED <<deployments, booted, deploys>>

\* The boot loader starts the default, or the other one after failures.
Reboot ==
  /\ \E d \in ToSet(deployments) : booted' = d.id
  /\ UNCHANGED <<deployments, files, deploys>>

Next == (\E i \in Images : Deploy(i)) \/ SetDefault \/ Cleanup \/ Reboot

Spec == Init /\ [][Next]_vars

-----------------------------------------------------------------------------
\* Every entry names something to start, and all it names is the file of the deployment's own
\* image: a directory of boot files may have been filled for another image, before a power
\* failure, or by a libostree without the patch (install_deployment_kernel).
EntryBoots ==
  \A d \in ToSet(deployments) :
    /\ d.linux # "" \/ d.uki # ""
    /\ d.linux # "" => [csum |-> d.linux, name |-> "vmlinuz", content |-> Vmlinuz(d.image)] \in files
    /\ d.uki # "" => [csum |-> d.uki, name |-> "uki", content |-> Uki[d.image]] \in files

\* A libostree with the patch never changes the entry of a deployment that is there ("keep it the
\* way it was"). One without can do one thing, to an entry with uki: add linux, which names the
\* same directory, so that by EntryBoots the entry still starts what it started.
EntryKept ==
  [][\A d \in ToSet(deployments), e \in ToSet(deployments') : d.id = e.id =>
       \/ d = e
       \/ ~ByPatched /\ d.linux = "" /\ e = [d EXCEPT !.linux = d.uki]]_vars
=============================================================================
