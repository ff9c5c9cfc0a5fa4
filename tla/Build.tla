-------------------------------- MODULE Build --------------------------------
(***************************************************************************)
(* The build of an image: the recipes it needs, as scripts/                *)
(* find_dependencies.py lists them (FindDependencies), the keys it is      *)
(* signed with (CfsKeys), its root file system (RootfsTransform), its disk *)
(* (WicImage).  None of them looks at what another decides: they share no  *)
(* variable, and a behaviour is one of any of them.                        *)
(***************************************************************************)
EXTENDS CfsKeys, Sequences, FiniteSets, SequencesExt

CONSTANTS
  Names, Recipes, NoRecipe, Root, ASSUME_PROVIDED, KNOWN_BUILD_TOOLS, SKIP_BUILD_TOOLS, Worlds,
  Moved, VarOther,
  Setups, Unset, FileBlocks, BOOTDD_EXTRA_SPACE

VARIABLES
  part_of,
  world, findPc, stack, packages, recipe_info, scopes, listed,
  Fatal, rootfs, tree, tmpfiles, reported, at, status, var,
  setup, wicPc, gen, OTA_BOOT, deployed, IMGDEPLOYDIR, DEPLOY_DIR_IMAGE, num, hdd, linked,
  install_task, boot_img, source, size, disk

Find == INSTANCE FindDependencies WITH pc <- findPc
Rootfs == INSTANCE RootfsTransform
Wic == INSTANCE WicImage WITH pc <- wicPc

ASSUME KeysAssumption == CfsAssumption
ASSUME FindAssumption == Find!DependsAssumption
ASSUME TreeAssumption == Rootfs!RootfsAssumption
ASSUME DiskAssumption == Wic!SetupAssumption

findVars == <<world, findPc, stack, packages, recipe_info, scopes, listed>>
rootfsVars == <<Fatal, rootfs, tree, tmpfiles, reported, at, status, var>>
wicVars ==
  <<setup, wicPc, gen, OTA_BOOT, deployed, IMGDEPLOYDIR, DEPLOY_DIR_IMAGE, num, hdd, linked,
    install_task, boot_img, source, size, disk>>

\* The parts that do not run rest in one of their initial states.
DependsRests == world = CHOOSE w \in Worlds : TRUE
RootfsRests == rootfs = [p \in Rootfs!Paths |-> "empty"] /\ Fatal = FALSE
WicRests == setup = CHOOSE s \in Setups : TRUE

BuildInit ==
  /\ \/ part_of = "keys" /\ DependsRests /\ RootfsRests /\ WicRests
     \/ part_of = "depends" /\ world \in Worlds /\ RootfsRests /\ WicRests
     \/ part_of = "rootfs" /\ DependsRests /\ WicRests
     \/ part_of = "wic" /\ DependsRests /\ RootfsRests
  /\ Init /\ Find!Init /\ Rootfs!Init /\ Wic!Init

BuildNext ==
  \/ part_of = "keys" /\ Next /\ UNCHANGED <<part_of, findVars, rootfsVars, wicVars>>
  \/ part_of = "depends" /\ Find!Next /\ UNCHANGED <<part_of, vars, rootfsVars, wicVars>>
  \/ part_of = "rootfs" /\ Rootfs!Next /\ UNCHANGED <<part_of, vars, findVars, wicVars>>
  \/ part_of = "wic" /\ Wic!Next /\ UNCHANGED <<part_of, vars, findVars, rootfsVars>>

\* The script that lists the recipes is one thread that blocks on nothing.
BuildSpec ==
  /\ BuildInit /\ [][BuildNext]_<<part_of, vars, findVars, rootfsVars, wicVars>>
  /\ WF_findVars(part_of = "depends" /\ Find!Next)

-----------------------------------------------------------------------------
\* A finished file lists every recipe the project needs, in a complete tree (find_dependencies.py).
FileComplete == Find!FileComplete

\* Its list alone: every recipe, once for each name (find_dependencies, print_package).
ListComplete == Find!ListComplete

\* The script implements the closure of the DEPENDS (find_dependencies).
FindsClosure == Find!FindsClosure

\* The script ends with the file, unless a lookup failed or a package has several repositories.
Outcome == part_of = "depends" => Find!Outcome

\* Boot entries and root file system of a disk are of one generation (otaimage, bootimg_sota_efi).
BootMatchesRoot == Wic!BootMatchesRoot

\* Each ESP holds its own files and no others (do_prepare_partition).
EspContent == Wic!EspContent

\* A partition of fixed size is filled by its file system (do_prepare_partition).
BlocksFit == Wic!BlocksFit

\* Lost data is named in the log (ostree_rmdir_helper).
LostReported == Rootfs!LostReported

\* Links into /var find their directories (do_image_ostree, do_image_ota).
LinksResolve == Rootfs!LinksResolve
=============================================================================
