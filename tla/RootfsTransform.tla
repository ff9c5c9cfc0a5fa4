--------------------------- MODULE RootfsTransform ---------------------------
(***************************************************************************)
(* do_image_ostree turns a copy of the image's root file system into the   *)
(* tree that is committed: directories that OSTree does not keep are       *)
(* emptied or replaced by links into /var, whose directories the tmpfiles  *)
(* of the image create at boot.  do_image_ota fills /var of the first      *)
(* deployment from the root file system.                                   *)
(*                                                                         *)
(* A path is absent, an empty directory, one with data, or a link.  Links  *)
(* that are there from the start dangle in the build's tree (ln -sf would  *)
(* otherwise follow them).                                                 *)
(***************************************************************************)
EXTENDS Naturals, Sequences, SequencesExt

CONSTANTS
  Moved,         \* directories replaced by links: home, opt, ..., root, usr/local
  VarOther       \* directories of /var besides lib, cache and local

Steps == <<"var/lib", "var/cache", "var">> \o Moved
Vars == {"var/lib", "var/cache", "var/local"} \union VarOther
Paths == Vars \union ToSet(Moved)

RootfsAssumption ==
  /\ Moved \in Seq(ToSet(Moved)) /\ ToSet(Moved) \intersect (Vars \union {"var"}) = {}
  /\ "home" \in ToSet(Moved) /\ "var/sota" \in VarOther

VARIABLES
  Fatal,         \* OSTREE_RMDIR_HELPER_MSGTYPE ends the task (bbfatal), the default warns
  rootfs,        \* IMAGE_ROOTFS, not changed
  tree,          \* OSTREE_ROOTFS
  tmpfiles,      \* what the tmpfiles create a directory of /var for
  reported,      \* data the log says is not preserved
  at,            \* step of do_image_ostree
  status,        \* "ostree", "failed", "ota", "done"
  var            \* /var of the deployment: where it has data from

vars == <<Fatal, rootfs, tree, tmpfiles, reported, at, status, var>>

\* What recipes put into these directories varies; base-files brings /home.
Init ==
  /\ Fatal \in BOOLEAN
  /\ rootfs \in [Paths -> {"absent", "empty", "data", "link"}]
  /\ \A p \in Vars : rootfs[p] # "link"
  /\ rootfs["home"] \in {"empty", "data"}
  /\ tree = rootfs /\ tmpfiles = {} /\ reported = {} /\ at = 1 /\ status = "ostree" /\ var = {}

-----------------------------------------------------------------------------
Step(p) == status = "ostree" /\ at <= Len(Steps) /\ Steps[at] = p

Data(p) == tree[p] = "data"

ReportsNothing(p) == UNCHANGED reported

Reports(p) == reported' = IF Data(p) THEN reported \union {p} ELSE reported

\* ostree_rmdir_helper: rmdir, or the message, which may end the task, and rm -rf.
HelperFails(p) ==
  /\ Step(p) /\ Fatal /\ Data(p) /\ Reports(p) /\ status' = "failed"
  /\ UNCHANGED <<Fatal, rootfs, tree, tmpfiles, at, var>>

Helper(p) ==
  /\ Step(p) /\ ~(Fatal /\ Data(p)) /\ Reports(p) /\ at' = at + 1
  /\ UNCHANGED <<Fatal, rootfs, status, var>>

Clear(p) ==
  /\ Helper(p) /\ UNCHANGED tmpfiles
  /\ tree' = IF tree[p] = "link" THEN tree ELSE [tree EXCEPT ![p] = "absent"]

\* find cannot execute a function of the shell: it says so for each path, goes
\* on and ends well.
ClearVar ==
  /\ Step("var") /\ at' = at + 1
  /\ UNCHANGED <<Fatal, rootfs, tree, tmpfiles, reported, status, var>>

MoveUnlisted(p) ==
  Helper(p) /\ tree' = [tree EXCEPT ![p] = "link"] /\ UNCHANGED tmpfiles

\* /home is left to do_image_ota.
Move(p) ==
  /\ Helper(p) /\ tree' = [tree EXCEPT ![p] = "link"]
  /\ tmpfiles' = tmpfiles \union ({p} \ {"home"})

OstreeEnds ==
  /\ status = "ostree" /\ at > Len(Steps) /\ status' = "ota"
  /\ UNCHANGED <<Fatal, rootfs, tree, tmpfiles, reported, at, var>>

\* cp -a of three directories, none of which has to exist; a link is copied as one. A copy that
\* fails half way, which the task ignores, is left out.
IMAGE_CMD_ota ==
  /\ status = "ota" /\ status' = "done"
  /\ var' = {p \in {"var/sota", "var/local", "home"} : rootfs[p] \in {"empty", "data"}}
  /\ UNCHANGED <<Fatal, rootfs, tree, tmpfiles, reported, at>>

\* The recipe is changed and the task runs again, from an empty directory.
Retry ==
  /\ status = "failed" /\ status' = "ostree" /\ at' = 1
  /\ \E p \in reported : rootfs' = [rootfs EXCEPT ![p] = "empty"]
  /\ tree' = rootfs' /\ tmpfiles' = {} /\ reported' = {} /\ UNCHANGED <<Fatal, var>>

Finished == status = "done" /\ UNCHANGED vars

Next ==
  \/ \E p \in Paths : HelperFails(p)
  \/ \E p \in {"var/lib", "var/cache"} : Clear(p)
  \/ ClearVar \/ (\E p \in ToSet(Moved) : Move(p)) \/ OstreeEnds
  \/ IMAGE_CMD_ota \/ Retry \/ Finished

Spec == Init /\ [][Next]_vars

-----------------------------------------------------------------------------
\* Data of the root file system that is neither in the committed tree nor in /var
\* of the deployment has been named in the log (ostree_rmdir_helper: "is not
\* preserved by OSTree"), and a task that failed has named what it failed for.
LostReported ==
  /\ status = "failed" => reported # {}
  /\ status = "done" =>
       \A p \in Paths : rootfs[p] = "data" => p \in reported \/ p \in var \/ tree[p] = "data"

\* Every link into /var finds its directory when the image boots first: the
\* tmpfiles make it or do_image_ota has.
LinksResolve ==
  status = "done" => \A p \in ToSet(Moved) : tree[p] = "link" /\ p \in tmpfiles \union var
=============================================================================
