------------------------------- MODULE MCBuild -------------------------------
(***************************************************************************)
(* All graphs without cycles over a project and two recipes, the last of   *)
(* which has a second name (a virtual provider), a host package and a      *)
(* build tool; at most one name without a recipe, at most one recipe with  *)
(* several repositories.  Every small root file system; opt stands for the *)
(* directories that are moved alike.  An image of one ESP, or two with     *)
(* boot files of their own, and a root partition before or after them.     *)
(***************************************************************************)
EXTENDS Build, TLC

CONSTANTS app, lib, base, virtual, host, tool

MCRecipes == {app, lib, base}
MCNames == {app, lib, base, virtual, host, tool}

Providers ==
  { [n \in Names |-> IF n \in gone \union {host, tool} THEN NoRecipe
                     ELSE IF n = virtual THEN base ELSE n] :
      gone \in {{}, {app}, {base}, {virtual}} }

DependsOf ==
  { (app :> a) @@ (lib :> l) @@ (base :> b) :
      a \in BoundedSeq({lib, base, virtual, host}, 2),
      l \in BoundedSeq({base, virtual, tool}, 2),
      b \in BoundedSeq({tool}, 1) }

ReposOf == { [r \in Recipes |-> IF r \in many THEN 2 ELSE 1] : many \in {{}, {app}, {base}} }

MCWorlds == [provider : Providers, DEPENDS : DependsOf, repos : ReposOf]

MCHeight == (app :> 3) @@ (lib :> 2) @@ [n \in {base, virtual} |-> 1] @@ [n \in {host, tool} |-> 0]

ASSUME WorldsAreAcyclic == \A w \in Worlds : Find!Acyclic(w, MCHeight)

-----------------------------------------------------------------------------
MCMoved == <<"home", "opt", "usr/local">>

-----------------------------------------------------------------------------
File(s, d) == [shape |-> "file", src |-> s, dst |-> d]
Glob == [shape |-> "glob", src |-> {"dtb", "fw"}, dst |-> "."]
Bad == [shape |-> "noDst", src |-> "dtb", dst |-> ""]

RootPart == [source |-> "otaimage", rootfs_dir |-> FALSE, own |-> Unset, fixed |-> 0, size |-> 0]
Esp(o, f, s, r) == [source |-> "bootimg_sota_efi", rootfs_dir |-> r, own |-> o, fixed |-> f, size |-> s]

OwnFiles == {Unset, <<>>, <<Glob>>, <<File("dtb", "a"), File("fw", "b")>>, <<Bad>>}

Parts ==
  {<<Esp(o, f, s, TRUE), RootPart>> : o \in OwnFiles, f \in {0, 8, 20}, s \in {0, 12}}
    \union {<<Esp(Unset, 0, 0, FALSE), RootPart>>,
            <<RootPart, Esp(<<File("dtb", "a")>>, 0, 0, TRUE), Esp(<<File("fw", "b")>>, 0, 0, TRUE)>>}

MCSetups ==
  [parts : Parts, loader : {"grub-efi", "systemd-boot", "other"},
   IMAGE_EFI_BOOT_FILES : {Unset, <<>>, <<File("fw", "fw")>>},
   kernel_dir : {{"systemd-boot.efi", "grub-efi-boot.efi", "dtb", "fw"}, {"dtb", "fw"},
                 {"grub-efi-boot.efi", "dtb"}}]
=============================================================================
