------------------------------ MODULE SelfTests ------------------------------
(***************************************************************************)
(* The self tests that boot an image (lib/oeqa/selftest/cases): one        *)
(* process runs test cases one after the other.  A case is a list of       *)
(* steps: setUpLocal adds the machine's layer, bakes and boots the image;  *)
(* tearDownLocal stops the machine and removes the layer.  unittest skips  *)
(* tearDownLocal when setUpLocal raises.                                   *)
(*                                                                         *)
(* The machine is modelled from what the tests ask of it: it boots while   *)
(* the test runs, its services run by themselves, and its ssh port refuses *)
(* (QEMU does not listen yet, or the guest has a network and no daemon),   *)
(* hangs (the guest has no network yet) or answers.  Its image may differ  *)
(* from the one the case asked for: that is the regression the test is     *)
(* there to find.  Time is left out: during a delay the machine takes any  *)
(* number of steps.                                                        *)
(***************************************************************************)
EXTENDS Naturals, Sequences, SequencesExt

CONSTANTS
  Selected,      \* the test cases that may be run
  Runs,          \* how many are run
  Images,        \* what the image of a case may be
  Polls          \* attempts of each loop that waits for the machine

VMs == {"primary", "secondary"}

\* systemd: is installed; auto: starts aktualizr; creds: holds credentials;
\* hwid: has the hardware identifier the test expects; hsm: keeps the keys in
\* a token; limit: caps the memory of aktualizr
ImageKinds == [{"systemd", "auto", "creds", "hwid", "hsm", "limit"} -> BOOLEAN]

VARIABLES
  ran,           \* cases that have ended
  case, phase,   \* the running case; "idle", "setUp", "test", "exit"
  at, attempts,  \* its next step, attempts made in it
  result,        \* "none", "passed", "failed" (an assertion), "error" (an exception)
  user_layer,    \* the user has it in bblayers.conf, from before the first case
  layer,         \* the layer is in bblayers.conf
  meta_qemu,     \* this case has added it
  running,       \* machines whose QEMU has been started and not stopped
  owned,         \* those this case will stop, the last one first
  booted,        \* those wait_till_sshable has found up
  dev,           \* the machines
  trouble        \* history: setUpLocal or __enter__ raised, or the clean-up failed

testVars == <<ran, case, phase, at, attempts, result>>
hostVars == <<layer, meta_qemu, running, owned, booted>>
vars == <<user_layer, testVars, hostVars, dev, trouble>>

\* boot: "none" (no QEMU), "off" (QEMU does not listen), "booting", "net", "up"; killed: the last
\* run of aktualizr was; restarted: history, it has been started again
Off(image) ==
  [boot |-> "none", image |-> image, run |-> FALSE, creds |-> image["creds"], fetched |-> FALSE,
   token |-> "none", limit |-> image["limit"], killed |-> FALSE, restarted |-> FALSE,
   registered |-> FALSE]

NoImage == [k \in {"systemd", "auto", "creds", "hwid", "hsm", "limit"} |-> FALSE]

Init ==
  /\ ran = 0 /\ case = "none" /\ phase = "idle" /\ at = 1 /\ attempts = 0 /\ result = "none"
  /\ user_layer \in BOOLEAN /\ layer = user_layer /\ meta_qemu = FALSE
  /\ running = {} /\ owned = <<>> /\ booted = {}
  /\ dev = [v \in VMs |-> Off(NoImage)]
  /\ trouble = FALSE

-----------------------------------------------------------------------------
\* The test cases.

Boot == <<"add_layer", "bake_primary", "boot">>
BootWithSysroot == <<"add_layer", "bake_primary", "boot", "sysroot">>

\* The last two steps of most of them are verifyProvisioned.
SharedCredProvTests ==
  [setUp |-> Boot, test |-> <<"hostname", "aktualizr_info", "wait_until_provisioned">>]

SharedCredProvTestsNonOSTree == [setUp |-> Boot, test |-> SharedCredProvTests.test]

ManualControlTests == [setUp |-> Boot, test |-> <<"not_run", "once_unchecked", "fetched">>]

DeviceCredProvTests ==
  [setUp |-> BootWithSysroot,
   test |-> <<"hostname", "verifyNotProvisioned", "cert_provider",
              "aktualizr_info", "wait_until_provisioned">>]

DeviceCredProvHsmTests ==
  [setUp |-> BootWithSysroot,
   test |-> <<"hostname", "verifyNotProvisioned", "no_token", "cert_provider", "token",
              "aktualizr_info", "wait_until_provisioned">>]

ResourceControlTests == [setUp |-> Boot, test |-> <<"killed", "unlimit", "restart", "restarted">>]

NonSystemdTests ==
  [setUp |-> Boot,
   test |-> <<"no_systemctl", "once", "aktualizr_info", "wait_until_provisioned">>]

PtestTests == [setUp |-> Boot, test |-> <<"ptest">>]

\* Those of the steps that have a machine of their own.
bake == [primary |-> "bake_primary", secondary |-> "bake_secondary"]
start == [primary |-> "start_primary", secondary |-> "start_secondary"]
ssh == [primary |-> "ssh_primary", secondary |-> "ssh_secondary"]
successful == [primary |-> "booted_primary", secondary |-> "booted_secondary"]

\* The images are baked by the constructors in setUpLocal; with statements boot them.
IpSecondary(first, second) ==
  [setUp |-> <<"add_layer", "bake_primary", "bake_secondary">>,
   test |-> <<start[first], ssh[first], successful[first],
              start[second], ssh[second], successful[second], "registered">>]

Cases ==
  [shared |-> SharedCredProvTests, nonostree |-> SharedCredProvTestsNonOSTree,
   manual |-> ManualControlTests, device |-> DeviceCredProvTests, hsm |-> DeviceCredProvHsmTests,
   resource |-> ResourceControlTests, nonsystemd |-> NonSystemdTests, ptest |-> PtestTests,
   secondaryFirst |-> IpSecondary("secondary", "primary"),
   primaryFirst |-> IpSecondary("primary", "secondary")]

TestsAssumption ==
  /\ Runs \in Nat /\ Polls \in Nat \ {0}
  /\ Selected \subseteq DOMAIN Cases
  /\ \A t \in Selected : Images[t] \subseteq ImageKinds /\ Images[t] # {}

WithStatements == case \in {"secondaryFirst", "primaryFirst"}

Steps == Cases[case][phase]
Step(name) == phase \in {"setUp", "test"} /\ Steps[at] = name

\* The steps that end a case or go on to a later step of it.
GoTo(n) ==
  /\ attempts' = 0
  /\ IF n <= Len(Steps) THEN at' = n /\ UNCHANGED <<phase, result>>
     ELSE /\ at' = 1
          /\ IF phase = "setUp" THEN phase' = "test" /\ UNCHANGED result
             ELSE phase' = "exit" /\ result' = "passed"
  /\ UNCHANGED <<ran, case>>
Go == GoTo(at + 1)

Ends(how) ==
  /\ phase' = "exit" /\ result' = how /\ at' = 1 /\ attempts' = 0
  /\ UNCHANGED <<ran, case>>

\* One more turn of a loop; the assertion after it fails when there was none left.
AgainEndless == UNCHANGED <<ran, case, phase, at, attempts, result>>

Again ==
  IF attempts + 1 = Polls THEN Ends("failed")
  ELSE attempts' = attempts + 1 /\ UNCHANGED <<ran, case, phase, at, result>>

AssertThat(ok) == IF ok THEN Go ELSE Ends("failed")

\* The case is over.
Leave ==
  /\ ran' = ran + 1 /\ case' = "none" /\ phase' = "idle" /\ at' = 1 /\ attempts' = 0
  /\ result' = "none" /\ owned' = <<>> /\ booted' = {} /\ meta_qemu' = FALSE

-----------------------------------------------------------------------------
\* setUpLocal.

StartCase(t) ==
  /\ phase = "idle" /\ ran < Runs
  /\ case' = t /\ phase' = "setUp"
  /\ UNCHANGED <<ran, at, attempts, result, hostVars, dev, trouble>>

AddLayer ==
  /\ Step("add_layer") /\ Go
  /\ layer' = TRUE /\ meta_qemu' = ~layer
  /\ UNCHANGED <<running, owned, booted, dev, trouble>>

\* A machine that an earlier case left behind keeps running, out of reach of
\* every later case; dev[v] is the one this case builds.
Bake(v) ==
  /\ Step(bake[v]) /\ Go
  /\ \E image \in Images[case] : dev' = [dev EXCEPT ![v] = Off(image)]
  /\ UNCHANGED <<hostVars, trouble>>

\* The process is started; nobody looks whether it lives.
Popen(v) == running' = running \union {v} /\ dev' = [dev EXCEPT ![v].boot = "off"]

qemu_launch ==
  /\ Step("boot") /\ Go
  /\ Popen("primary") /\ owned' = <<"primary">>
  /\ UNCHANGED <<layer, meta_qemu, booted, trouble>>

Sysroot == Step("sysroot") /\ Go /\ UNCHANGED <<hostVars, dev, trouble>>

\* A command of setUpLocal fails: bitbake, bitbake-layers or QemuCommand raises.
\* tearDownLocal is not called.
SetUpRaises ==
  /\ phase = "setUp"
  /\ Leave /\ trouble' = TRUE
  /\ UNCHANGED <<layer, running, dev>>

SetUp == AddLayer \/ (\E v \in VMs : Bake(v)) \/ qemu_launch \/ Sysroot \/ SetUpRaises

-----------------------------------------------------------------------------
\* The test method.  Commands reach the machine through ssh.

Vm == IF Step("ssh_secondary") THEN "secondary" ELSE "primary"
Hangs == dev[Vm].boot = "booting"
Answers == dev[Vm].boot = "up"
d == dev["primary"]

UsesSsh == phase = "test" /\ \A v \in VMs : ~Step(start[v]) /\ ~Step(successful[v])

\* communicate(timeout) gives up; only the loop that waits for the kill catches
\* it, only the ptests set no limit, and aktualizr-cert-provider runs on the host.
TimesOut ==
  /\ UsesSsh /\ ~Step("killed") /\ ~Step("ptest") /\ ~Step("cert_provider")
  /\ Hangs \/ (Step("wait_until_provisioned") /\ Answers /\ ~d.fetched)
           \/ (Step("registered") /\ Answers /\ ~d.fetched)
  /\ Ends("error")
  /\ trouble' = (trouble \/ \E v \in VMs : Step(ssh[v]))
  /\ UNCHANGED <<hostVars, dev>>

Check(name, ok) ==
  /\ Step(name) /\ ~Hangs /\ AssertThat(ok)
  /\ UNCHANGED <<hostVars, dev, trouble>>

Hostname == Check("hostname", Answers)

\* aktualizr-info needs the database that aktualizr creates when it first runs.
InfoRuns == Answers /\ d.run

NotProvisioned ==
  /\ Step("verifyNotProvisioned") /\ ~Hangs
  /\ IF InfoRuns THEN AssertThat(~d.fetched) ELSE Again
  /\ UNCHANGED <<hostVars, dev, trouble>>

AktualizrInfoSuffices ==
  /\ Step("aktualizr_info") /\ ~Hangs
  /\ IF ~InfoRuns THEN Again
     ELSE IF d.image["hwid"] THEN GoTo(at + 2) ELSE Ends("failed")
  /\ UNCHANGED <<hostVars, dev, trouble>>

AktualizrInfo ==
  /\ Step("aktualizr_info") /\ ~Hangs
  /\ IF ~InfoRuns THEN Again
     ELSE IF ~d.fetched THEN Go
     ELSE IF d.image["hwid"] THEN GoTo(at + 2) ELSE Ends("failed")
  /\ UNCHANGED <<hostVars, dev, trouble>>

WaitUntilProvisioned ==
  /\ Answers => d.fetched
  /\ Check("wait_until_provisioned", Answers /\ d.image["hwid"])

\* The credentials are copied to the machine, or the command fails.
CertProvider ==
  /\ Step("cert_provider")
  /\ \/ Answers /\ Go /\ dev' = [dev EXCEPT !["primary"].creds = TRUE]
     \/ Ends("failed") /\ UNCHANGED dev
  /\ UNCHANGED <<hostVars, trouble>>

NoToken == Check("no_token", ~(Answers /\ d.token # "none"))

Token ==
  /\ Step("token") /\ ~Hangs
  /\ IF Answers /\ d.token = "keys" THEN Go ELSE Again
  /\ UNCHANGED <<hostVars, dev, trouble>>

NotRun == Check("not_run", Answers /\ ~d.run)

\* aktualizr run by hand fetches when it has credentials, and may fail.
Once(checked) ==
  /\ ~Hangs
  /\ \/ /\ Answers /\ Go
        /\ \E f \in {d.fetched, d.fetched \/ d.creds} :
             dev' = [dev EXCEPT !["primary"].run = TRUE, !["primary"].fetched = f]
     \/ (IF checked THEN Ends("failed") ELSE Go) /\ UNCHANGED dev
  /\ UNCHANGED <<hostVars, trouble>>

OnceUnchecked == Step("once_unchecked") /\ Once(FALSE)
OnceChecked == Step("once") /\ Once(TRUE)

Fetched == Check("fetched", InfoRuns /\ d.fetched)

Killed ==
  /\ Step("killed")
  /\ IF Answers /\ d.killed THEN AssertThat(d.limit) ELSE Again
  /\ UNCHANGED <<hostVars, dev, trouble>>

\* The outcome of these two commands is not looked at: either may have failed.
Unlimit ==
  /\ Step("unlimit") /\ ~Hangs /\ Go
  /\ \/ Answers /\ dev' = [dev EXCEPT !["primary"].limit = FALSE]
     \/ UNCHANGED dev
  /\ UNCHANGED <<hostVars, trouble>>

Restart ==
  /\ Step("restart") /\ ~Hangs /\ Go
  /\ \/ Answers /\ dev' = [dev EXCEPT !["primary"].killed = FALSE, !["primary"].restarted = TRUE]
     \/ UNCHANGED dev
  /\ UNCHANGED <<hostVars, trouble>>

Restarted == Check("restarted", Answers /\ ~d.killed)

NoSystemctl == Check("no_systemctl", ~(Answers /\ d.image["systemd"]))

Ptest ==
  /\ \E ok \in {Answers, FALSE} : Check("ptest", ok)

\* __enter__ starts the machine and waits for one answer.  The with statement
\* stops it from then on, not when wait_till_sshable raises. QemuCommand may
\* raise before the machine is started.
Enter(v) ==
  /\ Step(start[v])
  /\ \/ Go /\ Popen(v)
     \/ Ends("error") /\ UNCHANGED <<running, dev>>
  /\ UNCHANGED <<layer, meta_qemu, owned, booted, trouble>>

owns_if_sshable(v) ==
  /\ Step(ssh[v]) /\ ~Hangs /\ Go
  /\ owned' = IF Answers THEN Append(owned, v) ELSE owned
  /\ booted' = IF Answers THEN booted \union {v} ELSE booted
  /\ UNCHANGED <<layer, meta_qemu, running, dev, trouble>>

wait_till_sshable(v) ==
  /\ Step(ssh[v]) /\ ~Hangs /\ Go
  /\ owned' = Append(owned, v)
  /\ booted' = IF Answers THEN booted \union {v} ELSE booted
  /\ UNCHANGED <<layer, meta_qemu, running, dev, trouble>>

was_successfully_booted(v) ==
  /\ Step(successful[v]) /\ AssertThat(v \in booted)
  /\ UNCHANGED <<hostVars, dev, trouble>>

is_ecu_registered ==
  /\ Answers => d.fetched
  /\ Check("registered", Answers /\ d.registered)

Test ==
  \/ TimesOut \/ Hostname \/ NotProvisioned \/ AktualizrInfo \/ WaitUntilProvisioned
  \/ CertProvider \/ NoToken \/ Token \/ NotRun \/ OnceUnchecked \/ OnceChecked \/ Fetched
  \/ Killed \/ Unlimit \/ Restart \/ Restarted \/ NoSystemctl \/ Ptest
  \/ (\E v \in VMs : Enter(v) \/ wait_till_sshable(v) \/ was_successfully_booted(v))
  \/ is_ecu_registered

-----------------------------------------------------------------------------
\* __exit__ and tearDownLocal.

qemu_terminate ==
  /\ phase = "exit" /\ owned # <<>>
  /\ running' = running \ {Last(owned)} /\ owned' = Front(owned)
  /\ dev' = [dev EXCEPT ![Last(owned)].boot = "none"]
  /\ UNCHANGED <<testVars, layer, meta_qemu, booted, trouble>>

\* QEMU does not end in ten seconds.  __exit__ passes the exception on to the
\* next with statement; tearDownLocal is left with the layer still there.
TerminateRaises ==
  /\ phase = "exit" /\ owned # <<>> /\ trouble' = TRUE
  /\ IF WithStatements
     THEN /\ owned' = Front(owned) /\ result' = "error"
          /\ UNCHANGED <<ran, case, phase, at, attempts, meta_qemu, booted>>
     ELSE Leave
  /\ UNCHANGED <<layer, running, dev>>

\* The failure of remove-layer is ignored.
RemoveLayer ==
  /\ phase = "exit" /\ owned = <<>> /\ Leave
  /\ \/ layer' = (layer /\ ~meta_qemu) /\ UNCHANGED trouble
     \/ meta_qemu /\ UNCHANGED layer /\ trouble' = TRUE
  /\ UNCHANGED <<running, dev>>

TearDown == qemu_terminate \/ TerminateRaises \/ RemoveLayer

Program ==
  /\ (\E t \in Selected : StartCase(t)) \/ SetUp \/ Test \/ TearDown
  /\ UNCHANGED user_layer

-----------------------------------------------------------------------------
\* The machine.

Set(v, r) == dev' = [dev EXCEPT ![v] = r] /\ UNCHANGED <<testVars, hostVars, trouble>>

\* QEMU listens (it may also have ended at once, and then never does), the guest
\* configures its network, starts the ssh daemon.
Boots(v) ==
  \/ dev[v].boot = "off" /\ Set(v, [dev[v] EXCEPT !.boot = "booting"])
  \/ dev[v].boot = "booting" /\ Set(v, [dev[v] EXCEPT !.boot = "net"])
  \/ dev[v].boot \in {"booting", "net"} /\ Set(v, [dev[v] EXCEPT !.boot = "up"])

On(v) == dev[v].boot \in {"net", "up"}

ServiceStarts ==
  /\ On("primary") /\ d.image["systemd"] /\ d.image["auto"] /\ ~d.run
  /\ Set("primary", [d EXCEPT !.run = TRUE])

ServiceFetches ==
  /\ On("primary") /\ d.run /\ d.image["systemd"] /\ d.image["auto"]
  /\ ~d.killed /\ ~d.fetched
  /\ IF d.image["hsm"] THEN d.token = "keys" ELSE d.creds
  /\ Set("primary", [d EXCEPT !.fetched = TRUE])

ServiceKilled ==
  /\ On("primary") /\ d.run /\ d.limit /\ ~d.killed
  /\ Set("primary", [d EXCEPT !.killed = TRUE])

\* Restart=always
ServiceRestarts ==
  /\ On("primary") /\ d.killed
  /\ Set("primary", [d EXCEPT !.killed = FALSE, !.restarted = TRUE])

CreateToken ==
  /\ On("primary") /\ d.image["hsm"] /\ d.creds /\ d.token = "none"
  /\ Set("primary", [d EXCEPT !.token = "empty"])

ImportKeys ==
  /\ On("primary") /\ d.token = "empty"
  /\ Set("primary", [d EXCEPT !.token = "keys"])

SecondaryRegisters ==
  /\ On("primary") /\ d.run /\ On("secondary") /\ ~d.registered
  /\ Set("primary", [d EXCEPT !.registered = TRUE])

Machine ==
  /\ UNCHANGED user_layer
  /\ \/ \E v \in VMs : Boots(v)
     \/ ServiceStarts \/ ServiceFetches \/ ServiceKilled \/ ServiceRestarts \/ CreateToken \/ ImportKeys
     \/ SecondaryRegisters

Finished == phase = "idle" /\ ran = Runs /\ UNCHANGED vars

Next == Program \/ Machine \/ Finished

Spec == Init /\ [][Next]_vars

\* The process that runs the tests goes on, and the tools of the host end; nothing is asked of the
\* machine. Two commands wait for it without a limit: timeout=None of the ptests and
\* aktualizr-cert-provider, which copies through ssh.
NoLimit == Step("ptest") \/ Step("cert_provider")
FairSpec == Spec /\ WF_vars(Program /\ ~NoLimit)

-----------------------------------------------------------------------------
\* Whatever a test finds, fails on or waits in vain for, the machines it has
\* booted are stopped and the layer it has added is removed before the next
\* case; only an exception of setUpLocal or __enter__ or a failing command of
\* the clean-up leaves something behind (setUpLocal, __exit__, tearDownLocal).
\* A layer that the user had configured stays in every case.
CleanedUp ==
  /\ phase = "idle" /\ ~trouble => running = {} /\ layer = user_layer
  /\ user_layer => layer

\* What a passed case says is true of its machine: it has fetched its metadata
\* under the right identifier, holds its keys in the token, has registered the
\* other one; an aktualizr that was killed has been started again, and is not
\* killed again (the assertions of the test methods, of verifyProvisioned and of
\* is_ecu_registered, the machine going on between them). The exception: nobody
\* looks whether set-property has worked. Where the limit is still in force
\* aktualizr may be killed again, and the test has passed if it asked before.
Provisioned == d.fetched /\ d.image["hwid"]

PassIsTrue ==
  phase = "exit" /\ result = "passed" =>
    /\ case \in {"shared", "nonostree", "device", "hsm", "nonsystemd"} => Provisioned
    /\ case = "manual" => d.fetched
    /\ case = "hsm" => d.token = "keys"
    /\ case = "resource" => d.restarted /\ (d.limit \/ ~d.killed)
    /\ WithStatements => d.registered /\ d.fetched

\* The tests end, however long the machine takes to boot and whether it ever
\* does: every wait for it is bounded (qemu_send_command, the loops), but for the
\* ptests and aktualizr-cert-provider, which may wait for ever.
TestsEnd == <>(phase = "idle" /\ ran = Runs) \/ <>[]NoLimit
=============================================================================
