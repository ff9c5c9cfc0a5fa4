---------------------------- MODULE MCQemuLaunch ----------------------------
(***************************************************************************)
(* Two launches of one process, the self tests or a script run again, and  *)
(* one of another.                                                         *)
(***************************************************************************)
EXTENDS QemuLaunch

CONSTANTS l1, l2, l3, p1, p2

MCProcess == [l \in Launches |-> IF l = l3 THEN p2 ELSE p1]

Opt(u, e, o, d) == [uboot |-> u, efi |-> e, overlay |-> o, dry_run |-> d]

\* a plain launch, an overlay, dry or not, and with UEFI, and both without U-Boot
MCOptions == {Opt(TRUE, FALSE, FALSE, FALSE), Opt(TRUE, FALSE, TRUE, FALSE), Opt(TRUE, FALSE, TRUE, TRUE),
              Opt(TRUE, TRUE, TRUE, FALSE), Opt(FALSE, FALSE, FALSE, FALSE), Opt(FALSE, TRUE, FALSE, FALSE),
              Opt(FALSE, FALSE, TRUE, FALSE)}
=============================================================================
