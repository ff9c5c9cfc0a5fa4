-------------------------------- MODULE Boot --------------------------------
(***************************************************************************)
(* What the patches change in libostree: the switch of the boot loader's   *)
(* directory (BootSwap) and what an entry in it starts (UkiEntry).  The    *)
(* two share no variable, so a behaviour is one of either part.            *)
(***************************************************************************)
EXTENDS BootSwap

CONSTANTS Images, ImageKernel, ImageUki, NoFile, Patched, MaxDeploys,
  Resting  \* the image on the device whose loader is updated

VARIABLES part, deployments, booted, files, deploys

Entry == INSTANCE UkiEntry WITH Kernel <- ImageKernel, Uki <- ImageUki

ASSUME EntryAssumption == Entry!UkiAssumption

ukiVars == <<deployments, booted, files, deploys>>

\* The part that does not run rests in one of its initial states.
BootInit ==
  /\ part \in {"switch", "entry"}
  /\ Init /\ Entry!Init
  /\ part = "switch" => Entry!Booted.image = Resting
  /\ part = "entry" => Loader = Absent /\ symlinks

BootNext ==
  \/ part = "switch" /\ Next /\ UNCHANGED <<part, ukiVars>>
  \/ part = "entry" /\ Entry!Next /\ UNCHANGED <<part, vars>>

\* A running update is not delayed for ever.
BootSpec ==
  BootInit /\ [][BootNext]_<<part, vars, ukiVars>> /\ WF_vars(part = "switch" /\ Step)

-----------------------------------------------------------------------------
\* All that a boot entry names is the file of its deployment's own image (install_deployment_kernel).
EntryBoots == Entry!EntryBoots

\* Writing an entry again keeps it the way it was, or adds the kernel that an unpatched libostree
\* writes, beside the unified kernel image.
EntryKept == Entry!EntryKept
=============================================================================
