----------------------------- MODULE VarRelabel -----------------------------
(***************************************************************************)
(* ostree-var-relabel.service (dynamic-layers/selinux): at boot, relabel   *)
(* /var when the SELinux policy of the booted deployment differs from the  *)
(* one whose checksum /var/.selinux-policy-checksum holds.  /var is shared *)
(* by all deployments; a boot may be of any of them (an update or a        *)
(* rollback), and the power may fail at any time.                          *)
(***************************************************************************)
EXTENDS Naturals

CONSTANTS
  Policies,   \* checksums of the deployments' policies
  NoPolicy,   \* no checksum: no SELinux policy in /etc/selinux, no or an empty stamp
  Files,      \* files and directories of /var
  MaxBoots

ASSUME PolicyAssumption == NoPolicy \notin Policies
ASSUME BootsAssumption == MaxBoots \in Nat

VARIABLES
  pc, policy,  \* of the running boot; policy is NoPolicy for a deployment without SELinux
  label,       \* what each file of /var was last labelled by, NoPolicy if by a kernel without SELinux
  stamp,       \* the content of STAMP
  todo,        \* what restorecon has still to visit
  status,      \* exit status of the service
  boots,
  since        \* history: what was booted since the stamp was last written

vars == <<pc, policy, label, stamp, todo, status, boots, since>>

PCs == {"off", "check", "relabel", "stamp", "write", "up"}

TypeOK ==
  /\ pc \in PCs
  /\ policy \in Policies \union {NoPolicy} /\ stamp \in Policies \union {NoPolicy}
  /\ label \in [Files -> Policies \union {NoPolicy}]
  /\ todo \subseteq Files /\ status \in {0, 1} /\ boots \in Nat
  /\ since \subseteq Policies \union {NoPolicy}

\* libostree labelled /var at deploy time with the policy of the deployment before.
Init ==
  /\ pc = "off" /\ policy = NoPolicy /\ stamp = NoPolicy /\ todo = {} /\ status = 0
  /\ \E p \in Policies : label = [f \in Files |-> p]
  /\ boots = 0 /\ since = {}

Boot(p) ==
  /\ pc = "off" /\ boots < MaxBoots /\ boots' = boots + 1
  /\ pc' = "check" /\ policy' = p /\ status' = 0 /\ todo' = {}
  /\ since' = since \union {p}
  /\ UNCHANGED <<label, stamp>>

Skips == policy = NoPolicy \/ stamp = policy

\* Both early exits are exit 0.
Skip ==
  /\ pc = "check" /\ Skips
  /\ pc' = "up"
  /\ UNCHANGED <<policy, label, stamp, todo, status, boots, since>>

StartRelabel ==
  /\ pc = "check" /\ ~Skips
  /\ pc' = "relabel" /\ todo' = Files
  /\ UNCHANGED <<policy, label, stamp, status, boots, since>>

\* restorecon -RF /var visits a file.
Relabel(f) ==
  /\ pc = "relabel" /\ f \in todo
  /\ label' = [label EXCEPT ![f] = policy]
  /\ todo' = todo \ {f}
  /\ UNCHANGED <<pc, policy, stamp, status, boots, since>>

Relabelled ==
  /\ pc = "relabel" /\ todo = {}
  /\ pc' = "stamp"
  /\ UNCHANGED <<policy, label, stamp, todo, status, boots, since>>

RelabelFailsStamps ==
  /\ pc = "relabel" /\ todo # {}
  /\ pc' = "stamp"
  /\ UNCHANGED <<policy, label, stamp, todo, status, boots, since>>

\* restorecon fails, at the latest at the end of its walk: exit 1. The boot goes on.
RelabelFails ==
  /\ pc = "relabel" /\ todo # {}
  /\ pc' = "up" /\ status' = 1
  /\ UNCHANGED <<policy, label, stamp, todo, boots, since>>

\* echo > STAMP truncates the file, then writes it.
Truncate ==
  /\ pc = "stamp" /\ pc' = "write"
  /\ stamp' = NoPolicy
  /\ UNCHANGED <<policy, label, todo, status, boots, since>>

WriteStamp ==
  /\ pc = "write" /\ pc' = "up"
  /\ stamp' = policy /\ since' = {}
  /\ UNCHANGED <<policy, label, todo, status, boots>>

\* The running system creates a file of /var anew: the policy in the kernel labels it.
Use(f) ==
  /\ pc = "up"
  /\ label' = [label EXCEPT ![f] = policy]
  /\ UNCHANGED <<pc, policy, stamp, todo, status, boots, since>>

\* A reboot, or the power fails.
PowerOff ==
  /\ pc # "off" /\ pc' = "off"
  /\ UNCHANGED <<policy, label, stamp, todo, status, boots, since>>

Next ==
  \/ Skip \/ StartRelabel \/ Relabelled \/ RelabelFails \/ Truncate \/ WriteStamp \/ PowerOff
  \/ \E p \in Policies \union {NoPolicy} : Boot(p)
  \/ \E f \in Files : Relabel(f) \/ Use(f)

Spec == Init /\ [][Next]_vars

-----------------------------------------------------------------------------
Labelled == \A f \in Files : label[f] = policy
Served == pc = "up" /\ status = 0 /\ policy # NoPolicy

\* "relabels /var with the policy of the booted deployment, covering updates and rollbacks"
\* (ostree-var-relabel.bb): after a boot whose service succeeded, all labels are the policy's, as
\* long as the device did not run without SELinux.
VarMatchesPolicy == Served /\ NoPolicy \notin since => Labelled

\* All labels are the policy's if nothing else was booted since the stamp was written: a relabel that was
\* interrupted or failed is done again, and a skipped one was not needed.
RepeatedBootMatches == Served /\ since \subseteq {policy} => Labelled
=============================================================================
