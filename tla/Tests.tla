-------------------------------- MODULE Tests --------------------------------
(***************************************************************************)
(* The token of the software HSM (HsmToken) and the self tests, one of     *)
(* which asks for it (SelfTests, which knows of the token only what a test *)
(* sees).  They share no variable, so a behaviour is one of either.        *)
(***************************************************************************)
EXTENDS HsmToken, Sequences, SequencesExt

CONSTANTS Selected, Runs, Images, Polls

VARIABLES
  part,
  ran, case, phase, at, attempts, result,
  user_layer, layer, meta_qemu, running, owned, booted, dev, trouble

Self == INSTANCE SelfTests

ASSUME TokenAssumption == HsmAssumption
ASSUME CasesAssumption == Self!TestsAssumption

testVars ==
  <<ran, case, phase, at, attempts, result,
    user_layer, layer, meta_qemu, running, owned, booted, dev, trouble>>

\* The part that does not run rests in one of its initial states.
TestsInit ==
  /\ part \in {"token", "tests"}
  /\ Init /\ Self!Init
  /\ part = "token" => ~user_layer

TestsNext ==
  \/ part = "token" /\ Next /\ UNCHANGED <<part, testVars>>
  \/ part = "tests" /\ Self!Next /\ UNCHANGED <<part, vars>>

\* The device keeps running its scripts, the host its tests but for two commands that may wait for
\* ever; nothing else is asked of either.
TestsSpec ==
  /\ TestsInit /\ [][TestsNext]_<<part, vars, testVars>>
  /\ WF_vars(part = "token" /\ Script) /\ WF_testVars(part = "tests" /\ Self!Program /\ ~Self!NoLimit)

-----------------------------------------------------------------------------
\* Each case cleans up, unless an exception or a failing command kept it from that (tearDownLocal).
CleanedUp == Self!CleanedUp

\* What a passed case says of its machine is true (the assertions of the test methods).
PassIsTrue == Self!PassIsTrue

\* The tests end unless a command without a limit waits for ever (qemu_send_command and the loops).
TestsEnd == part = "tests" => Self!TestsEnd
=============================================================================
