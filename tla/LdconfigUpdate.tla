--------------------------- MODULE LdconfigUpdate ---------------------------
(***************************************************************************)
(* ostree-ldconfig-update: the program that ldconfig.service runs on the   *)
(* first boot of a deployment, before systemd-update-done marks its /etc   *)
(* as updated.  It replaces the linker's cache by the one built with the   *)
(* image, or lets ldconfig scan the libraries.                             *)
(*                                                                         *)
(* A cache is the deployment whose libraries it lists with the             *)
(* configuration it was made from, or NoCache, one that is missing or      *)
(* empty.  The power may fail at any time; between boots updates and       *)
(* rollbacks change the deployment, and the user edits the configuration   *)
(* or runs ldconfig.  The update merges /etc file by file: what the user   *)
(* has not changed is replaced by what the new image brings.  The image    *)
(* has SELinux, so that restorecon exists; the label is left out.          *)
(* systemd-update-done is only ordered after the service: it marks /etc    *)
(* also when the service has failed.                                       *)
(***************************************************************************)
EXTENDS Naturals

CONSTANTS
  Deployments,
  VendorConf,    \* configuration in the image of a deployment
  LocalConf,     \* one the user writes
  WithCache,     \* deployments whose image has a cache
  MaxFaults, MaxEdits

Confs == {VendorConf[x] : x \in Deployments} \union {LocalConf}
Cache(x, conf) == [of |-> x, conf |-> conf]
NoCache == Cache("none", "none")
Partial == Cache("partial", "none")
Caches == [of : Deployments, conf : Confs] \union {NoCache}

VendorCache(x) == IF x \in WithCache THEN Cache(x, VendorConf[x]) ELSE NoCache

DeploymentsAssumption ==
  /\ WithCache \subseteq Deployments /\ {"none", "partial"} \intersect Deployments = {}
  /\ MaxFaults \in Nat /\ MaxEdits \in Nat

\* A copy of /etc, and what has gone wrong with its cache since it was last replaced:
\* ldconfig failed, or the power did before the cache was on the disk.
Troubles == {"none", "ldconfig", "power"}
Etc == [conf : Confs, cache : Caches \union {Partial}, trouble : Troubles, updated : BOOLEAN]

VARIABLES
  etc,           \* of each deployment on disk
  deployed,      \* deployments on disk
  booted, pc,    \* the running deployment and where its first boot is
  tmp,           \* the new cache next to the old one, NoCache when there is none
  synced,        \* the cache of the running deployment is on the disk
  faults, edits

vars == <<etc, deployed, booted, pc, tmp, synced, faults, edits>>

Fresh(x) == [conf |-> VendorConf[x], cache |-> VendorCache(x), trouble |-> "none", updated |-> FALSE]

\* The image of the first deployment comes with the /etc it was built with.
Init ==
  /\ booted \in Deployments /\ deployed = {booted}
  /\ etc = [x \in Deployments |-> Fresh(x)]
  /\ pc = "off" /\ tmp = NoCache /\ synced = TRUE /\ faults = 0 /\ edits = 0

Now == etc[booted]
SetEtc(r) == etc' = [etc EXCEPT ![booted] = r]
Goto(p) == pc' = p
Unchanged == UNCHANGED <<deployed, booted, faults, edits>>
Same == UNCHANGED synced /\ Unchanged

-----------------------------------------------------------------------------
\* ConditionNeedsUpdate=/etc: the service runs as long as /etc is not marked.
PowerOn ==
  /\ pc = "off"
  /\ Goto(IF Now.updated THEN "up" ELSE "check")
  /\ UNCHANGED <<etc, tmp>> /\ Same

ldconfig_configs_match == Now.conf = VendorConf[booted]

Usable == VendorCache(booted) # NoCache /\ Now.cache # NoCache /\ ldconfig_configs_match

ServiceChecksConfigs ==
  /\ pc = "check" /\ Goto(IF Usable THEN "done" ELSE "ldconfig")
  /\ UNCHANGED <<etc, tmp>> /\ Same

ServiceChecks ==
  /\ pc = "check"
  /\ Goto(IF ~Usable THEN "ldconfig"
          ELSE IF Now.cache = VendorCache(booted) THEN "done" ELSE "copy")
  /\ UNCHANGED <<etc, tmp>> /\ Same

\* cp may fail, and then leaves part of the file, which is removed.
CopyInPlace ==
  /\ pc = "copy" /\ tmp' = Partial /\ Goto("copying")
  /\ SetEtc([Now EXCEPT !.cache = Partial]) /\ Same

CopyStarts == pc = "copy" /\ tmp' = Partial /\ Goto("copying") /\ UNCHANGED etc /\ Same

CopyRetries ==
  /\ pc = "copying"
  /\ \/ tmp' = VendorCache(booted) /\ Goto("rename")
     \/ tmp' = NoCache /\ Goto("copy")
  /\ UNCHANGED etc /\ Same

CopyEnds ==
  /\ pc = "copying"
  /\ \/ tmp' = VendorCache(booted) /\ Goto("rename")
     \/ tmp' = NoCache /\ Goto("ldconfig")
  /\ UNCHANGED etc /\ Same

Rename ==
  /\ pc = "rename"
  /\ SetEtc([Now EXCEPT !.cache = tmp, !.trouble = "none"]) /\ synced' = FALSE
  /\ tmp' = NoCache /\ Goto("label") /\ Unchanged

RenameFails == pc = "rename" /\ tmp' = NoCache /\ Goto("ldconfig") /\ UNCHANGED etc /\ Same

restorecon ==
  /\ pc = "label" /\ (Goto("done") \/ Goto("ldconfig"))
  /\ UNCHANGED <<etc, tmp>> /\ Same

\* ldconfig -X scans the libraries, writes a new cache to the disk and puts it in place
\* of the old one, or fails and leaves the old one, when the disk is full for instance.
ldconfig ==
  /\ pc = "ldconfig" /\ Goto("done") /\ UNCHANGED tmp /\ Unchanged
  /\ \/ /\ SetEtc([Now EXCEPT !.cache = Cache(booted, Now.conf), !.trouble = "none"])
        /\ synced' = TRUE
     \/ SetEtc([Now EXCEPT !.trouble = "ldconfig"]) /\ UNCHANGED synced

update_done ==
  /\ pc = "done" /\ SetEtc([Now EXCEPT !.updated = TRUE]) /\ Goto("up")
  /\ UNCHANGED tmp /\ Same

-----------------------------------------------------------------------------
PowerOff ==
  /\ pc = "up" /\ Goto("off") /\ synced' = TRUE /\ UNCHANGED <<etc, tmp>> /\ Unchanged

\* The program syncs nothing: a cache it renamed reaches the disk at some time.
Written == ~synced /\ synced' = TRUE /\ UNCHANGED <<etc, pc, tmp>> /\ Unchanged

\* A renamed cache that is not on the disk comes back empty, before or after /etc is
\* marked.  What was written next to it stays, under a name no later run uses.
PowerFails ==
  /\ pc # "off" /\ faults < MaxFaults
  /\ Goto("off") /\ tmp' = NoCache /\ synced' = TRUE /\ faults' = faults + 1
  /\ IF synced THEN UNCHANGED etc
     ELSE SetEtc([Now EXCEPT !.cache = NoCache, !.trouble = "power"])
  /\ UNCHANGED <<deployed, booted, edits>>

\* The user edits the configuration, or undoes that, and runs ldconfig, or not.
Edit ==
  /\ pc = "up" /\ edits < MaxEdits /\ edits' = edits + 1
  /\ \E conf \in {LocalConf, VendorConf[booted]} :
       \/ SetEtc([Now EXCEPT !.conf = conf]) /\ UNCHANGED synced
       \/ /\ SetEtc([Now EXCEPT !.conf = conf, !.cache = Cache(booted, conf),
                                !.trouble = "none"])
          /\ synced' = TRUE
  /\ UNCHANGED <<deployed, booted, pc, tmp, faults>>

\* The new /etc: changed files are kept.  .updated is not taken over.
Merge(x) ==
  [Fresh(x) EXCEPT
     !.conf = IF Now.conf = VendorConf[booted] THEN @ ELSE Now.conf,
     !.cache = IF Now.cache = VendorCache(booted) THEN @ ELSE Now.cache]

Update(x) ==
  /\ pc = "up" /\ x \notin deployed
  /\ etc' = [etc EXCEPT ![x] = Merge(x)] /\ deployed' = deployed \union {x}
  /\ booted' = x /\ Goto("off") /\ synced' = TRUE /\ UNCHANGED <<tmp, faults, edits>>

Rollback(x) ==
  /\ pc = "up" /\ x \in deployed \ {booted}
  /\ booted' = x /\ Goto("off") /\ synced' = TRUE
  /\ UNCHANGED <<etc, deployed, tmp, faults, edits>>

Service ==
  \/ ServiceChecks \/ CopyStarts \/ CopyEnds \/ Rename \/ RenameFails \/ restorecon \/ ldconfig

Next ==
  \/ PowerOn \/ Service \/ update_done \/ PowerOff \/ Written \/ PowerFails \/ Edit
  \/ \E x \in Deployments : Update(x) \/ Rollback(x)

Spec == Init /\ [][Next]_vars /\ WF_vars(PowerOn) /\ WF_vars(Service) /\ WF_vars(update_done)

-----------------------------------------------------------------------------
\* Types of the variables.
TypeOK ==
  /\ etc \in [Deployments -> Etc] /\ deployed \subseteq Deployments /\ booted \in deployed
  /\ pc \in {"off", "check", "copy", "copying", "rename", "label", "ldconfig", "done", "up"}
  /\ tmp \in Caches \union {Partial} /\ synced \in BOOLEAN
  /\ faults \in 0 .. MaxFaults /\ edits \in 0 .. MaxEdits

\* Once a deployment is up its cache lists its own libraries, whatever the merge
\* carried over, the user edited or an interrupted boot left behind; and the service
\* ends with the configuration in force, the image's cache being for the image's only.
\* Two things are excepted, as /etc is marked all the same: ldconfig -X failed, and the
\* deployment keeps what it found; or the power failed after the rename and before the
\* cache was on the disk, and it has none.
CacheFits ==
  /\ pc = "up" => \/ Now.cache.of = booted
                  \/ Now.trouble = "power" /\ Now.cache = NoCache
                  \/ Now.trouble = "ldconfig"
  /\ pc = "done" => Now.cache = Cache(booted, Now.conf) \/ Now.trouble = "ldconfig"

\* A running program that has mapped the cache never finds it half rewritten:
\* the cache is replaced, not rewritten ("rewriting it in place can cause readers
\* to receive SIGBUS").
ReadersSafe == \A x \in Deployments : etc[x].cache # Partial

\* A deployment comes up however often its first boot is interrupted.
ComesUp == pc = "off" ~> pc = "up"
=============================================================================
