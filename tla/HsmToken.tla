------------------------------ MODULE HsmToken ------------------------------
(***************************************************************************)
(* createtoken.service: fills the software HSM of a device with the key    *)
(* and certificate that aktualizr-cert-provider copies to it, in any order *)
(* and while the service runs.  systemd restarts the service as long as it *)
(* fails.  No command of the script ends it by failing: one that finds     *)
(* part of a file imports nothing.  A file may be seen half copied; the    *)
(* power may fail at any step.                                             *)
(***************************************************************************)
EXTENDS Naturals

CONSTANT MaxFaults      \* power failures while the script runs

ImportFiles == {"pkey", "client", "ecukey"}     \* of /var/sota/import
KeyPair == {"pkey", "client"}

HsmAssumption == MaxFaults \in Nat

VARIABLES
  import,        \* state of each file: "none", "partial", "whole"
  init, objects, \* the token: initialised, what has been imported into it
  pc,            \* of createtoken.sh; "failed" waits for the restart
  faults,
  found,         \* history: the files as they were when it last looked for the pair
  cut            \* history: the power failed while the token was filled

vars == <<import, init, objects, pc, faults, found, cut>>

Init ==
  /\ import = [f \in ImportFiles |-> "none"]
  /\ init = FALSE /\ objects = {} /\ pc = "off" /\ faults = 0
  /\ found = import /\ cut = FALSE

Goto(p) == pc' = p
Exists(f) == import[f] # "none"

PowerOn == pc = "off" /\ Goto("look") /\ UNCHANGED <<import, init, objects, faults, found, cut>>

\* pkcs11-tool -O succeeds on an initialised token, also on one without objects.
LookForPair ==
  /\ pc = "look" /\ Goto("pair")
  /\ UNCHANGED <<import, init, objects, faults, found, cut>>

Look ==
  /\ pc = "look" /\ Goto(IF init THEN "already" ELSE "pair")
  /\ UNCHANGED <<import, init, objects, faults, found, cut>>

PairOfKey ==
  /\ pc = "pair" /\ found' = import
  /\ Goto(IF Exists("pkey") THEN "init" ELSE "failed")
  /\ UNCHANGED <<import, init, objects, faults, cut>>

Pair ==
  /\ pc = "pair" /\ found' = import
  /\ Goto(IF Exists("pkey") /\ Exists("client") THEN "init" ELSE "failed")
  /\ UNCHANGED <<import, init, objects, faults, cut>>

RestartOnAbnormal == pc = "failed" /\ FALSE /\ UNCHANGED vars

Restart == pc = "failed" /\ Goto("look") /\ UNCHANGED <<import, init, objects, faults, found, cut>>

InitToken ==
  /\ pc = "init" /\ Goto("pkey") /\ init' = TRUE /\ objects' = {}
  /\ UNCHANGED <<import, faults, found, cut>>

AfterImport(f) == CASE f = "pkey" -> "client" [] f = "client" -> "ecukey" [] f = "ecukey" -> "done"

Import(f) ==
  /\ pc = f /\ Goto(AfterImport(f))
  /\ objects' = IF import[f] = "whole" THEN objects \union {f} ELSE objects
  /\ UNCHANGED <<import, init, faults, found, cut>>

Script ==
  PowerOn \/ Look \/ Pair \/ Restart \/ InitToken \/ \E f \in ImportFiles : Import(f)

\* The environment.
Copy(f) ==
  /\ \/ import[f] = "none" /\ import' = [import EXCEPT ![f] = "partial"]
     \/ import[f] = "partial" /\ import' = [import EXCEPT ![f] = "whole"]
  /\ UNCHANGED <<init, objects, pc, faults, found, cut>>

PowerOff ==
  /\ pc \in {"already", "done", "failed"} /\ Goto("off")
  /\ UNCHANGED <<import, init, objects, faults, found, cut>>

PowerFails ==
  /\ pc \in {"look", "pair", "init"} \union ImportFiles /\ faults < MaxFaults
  /\ Goto("off") /\ faults' = faults + 1
  /\ cut' = (cut \/ pc \in ImportFiles)
  /\ UNCHANGED <<import, init, objects, found>>

Next == Script \/ PowerOff \/ PowerFails \/ \E f \in ImportFiles : Copy(f)

\* The device keeps running its scripts; nobody has to copy anything.
Spec == Init /\ [][Next]_vars /\ WF_vars(Script)

-----------------------------------------------------------------------------
\* Types of the variables.
TypeOK ==
  /\ import \in [ImportFiles -> {"none", "partial", "whole"}]
  /\ init \in BOOLEAN /\ objects \subseteq ImportFiles /\ (objects # {} => init)
  /\ pc \in {"off", "look", "already", "pair", "failed", "init", "done"} \union ImportFiles
  /\ faults \in 0 .. MaxFaults
  /\ found \in [ImportFiles -> {"none", "partial", "whole"}] /\ cut \in BOOLEAN

\* The token is made when both files of the pair are there, in whatever order they
\* come and however often the script starts: a token made too early would be taken
\* for a finished one ever after (the second condition of createtoken.sh).
TokenFromPair == init => \A f \in KeyPair : found[f] # "none"

\* What the token holds stays in it at every later start of the script, which
\* would otherwise make the token anew (the first condition of createtoken.sh).
KeysKept == [][(init => init') /\ objects \subseteq objects']_vars

\* "The token has already been initialized, exit": when the script ends early, what it found with
\* the pair is in the token, the ECU key included, unless the power had failed while the token was
\* filled or the file was found half copied (createtoken.sh). An ECU key that comes later than the
\* pair is not covered: once the token is there nothing is imported, and it stays out for ever.
AlreadyInitialized ==
  pc = "already" /\ ~cut =>
    \A f \in ImportFiles : f \in objects \/ found[f] = "partial" \/ (f \notin KeyPair /\ found[f] = "none")

\* Once the pair has been copied the token comes to hold it, with the same exceptions
\* ("Verify that HSM is able to initialize", updater_qemux86_64.py).
Provides ==
  (\A f \in KeyPair : import[f] = "whole")
    ~> (cut \/ \A f \in KeyPair : f \in objects \/ found[f] = "partial")
=============================================================================
