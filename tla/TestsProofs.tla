----------------------------- MODULE TestsProofs -----------------------------
(***************************************************************************)
(* Theorems about the token of the software HSM, for any number of power   *)
(* failures, and about the self tests, for any selection of the cases in   *)
(* any number and order, over any images.                                  *)
(***************************************************************************)
EXTENDS Tests, TLAPS

\* A behaviour of the parts is one of each.
LEMMA Parts ==
  TestsSpec => /\ Init /\ [][Next]_vars
               /\ Self!Spec
<1>1. TestsInit => Init /\ Self!Init
  BY DEF TestsInit
<1>2. [TestsNext]_<<part, vars, testVars>> => [Next]_vars /\ [Self!Next]_(Self!vars)
  BY DEF TestsNext, vars, testVars, Self!vars, Self!testVars, Self!hostVars
<1> QED
  BY <1>1, <1>2, PTL DEF TestsSpec, Self!Spec

-----------------------------------------------------------------------------
(* Part 1.  The token: made once, from both files of the pair; a script     *)
(* that ends early has imported what it found.                              *)

\* The token holds the file, or the file was half copied when the script looked for the pair.
Has(f) == f \in objects \/ found[f] = "partial"

PairFound == \A f \in KeyPair : found[f] # "none"

\* What holds at each point of the script: the token is there from InitToken on, files only
\* grow after they were found, and each import adds its file.
Progress ==
  /\ pc \in {"pair", "init"} => ~init
  /\ pc \in {"init"} \union ImportFiles \/ init => PairFound
  /\ pc \in {"already"} \union ImportFiles => init
  /\ \A f \in ImportFiles : found[f] = "whole" => import[f] = "whole"
  /\ \A f \in ImportFiles : found[f] = "partial" => import[f] # "none"
  /\ init /\ ~cut => (pc # "pkey" => Has("pkey")) /\ (pc \notin {"pkey", "client"} => Has("client"))
                     /\ (pc \notin ImportFiles => Has("ecukey") \/ found["ecukey"] = "none")

\* The inductive invariant.
TokenInv == TypeOK /\ Progress

LEMMA TokenInit == Init => TokenInv
<1> SUFFICES ASSUME Init PROVE TokenInv
    OBVIOUS
<1>1. TypeOK
  <2>1. init \in BOOLEAN /\ cut \in BOOLEAN
    BY DEF Init
  <2>2. import \in [ImportFiles -> {"none", "partial", "whole"}]
    BY DEF Init
  <2>3. found = import /\ objects = {} /\ pc = "off" /\ faults \in 0 .. MaxFaults
    BY TokenAssumption DEF Init, HsmAssumption
  <2> QED
    BY <2>1, <2>2, <2>3 DEF TypeOK
<1>2. Progress
  BY DEF Init, Progress, ImportFiles
<1> QED
  BY <1>1, <1>2 DEF TokenInv

\* One step per action.
LEMMA TokenStep == TokenInv /\ [Next]_vars => TokenInv'
<1> SUFFICES ASSUME TokenInv, [Next]_vars PROVE TokenInv'
    OBVIOUS
<1> USE DEF TokenInv, Goto
<1>1. CASE UNCHANGED vars
  BY <1>1 DEF vars, TypeOK, Progress, PairFound, Has
<1>2. CASE PowerOn
  BY <1>2 DEF PowerOn, TypeOK, Progress, PairFound, Has, ImportFiles, KeyPair
<1>3. CASE Look
  BY <1>3 DEF Look, TypeOK, Progress, PairFound, Has, ImportFiles, KeyPair
<1>4. CASE Pair
  BY <1>4 DEF Pair, Exists, TypeOK, Progress, PairFound, Has, ImportFiles, KeyPair
<1>5. CASE Restart
  BY <1>5 DEF Restart, TypeOK, Progress, PairFound, Has, ImportFiles, KeyPair
<1>6. CASE InitToken
  BY <1>6 DEF InitToken, TypeOK, Progress, PairFound, Has, ImportFiles, KeyPair
<1>7. ASSUME NEW f \in ImportFiles, Import(f) PROVE TokenInv'
  BY <1>7 DEF Import, AfterImport, TypeOK, Progress, PairFound, Has, ImportFiles, KeyPair
<1>8. ASSUME NEW f \in ImportFiles, Copy(f) PROVE TokenInv'
  <2>1. import' \in [ImportFiles -> {"none", "partial", "whole"}]
    BY <1>8 DEF Copy, TypeOK
  <2>2. \A g \in ImportFiles : (import[g] = "whole" => import'[g] = "whole")
                                 /\ (import[g] # "none" => import'[g] # "none")
    BY <1>8 DEF Copy, TypeOK
  <2>3. UNCHANGED <<init, objects, pc, faults, found, cut>>
    BY <1>8 DEF Copy
  <2> QED
    BY <2>1, <2>2, <2>3 DEF TypeOK, Progress, PairFound, Has
<1>9. CASE PowerOff
  BY <1>9 DEF PowerOff, TypeOK, Progress, PairFound, Has, ImportFiles, KeyPair
<1>10. CASE PowerFails
  BY <1>10, TokenAssumption DEF PowerFails, HsmAssumption, TypeOK, Progress, PairFound, Has, ImportFiles, KeyPair
<1> QED
  BY <1>1, <1>2, <1>3, <1>4, <1>5, <1>6, <1>7, <1>8, <1>9, <1>10 DEF Next, Script

\* The invariant holds of every behaviour, for any number of power failures.
THEOREM TokenInvariant == TestsSpec => []TokenInv
BY TokenInit, TokenStep, Parts, PTL

\* A token is made only after both files of the pair were seen (createtoken.sh).
THEOREM FromPair == TestsSpec => []TokenFromPair
<1>1. TokenInv => TokenFromPair
  BY DEF TokenInv, Progress, PairFound, TokenFromPair
<1> QED
  BY <1>1, TokenInvariant, PTL

\* "Already initialized": what was found with the pair is in the token, with the exceptions the
\* property names; an ECU key that came later is not.
THEOREM FoundIsImported == TestsSpec => []AlreadyInitialized
<1>1. TokenInv => AlreadyInitialized
  BY DEF TokenInv, Progress, Has, AlreadyInitialized, KeyPair, ImportFiles
<1> QED
  BY <1>1, TokenInvariant, PTL

\* No later start of the script takes anything out of the token (createtoken.sh).
THEOREM TokenStays == TestsSpec => KeysKept
<1>1. TokenInv /\ [Next]_vars => [(init => init') /\ objects \subseteq objects']_vars
  BY DEF TokenInv, TypeOK, Progress, vars, Next, Script, PowerOn, Look, Pair, Restart, InitToken,
         Import, Copy, PowerOff, PowerFails, ImportFiles
<1> QED
  BY <1>1, TokenInvariant, Parts, PTL DEF KeysKept

-----------------------------------------------------------------------------
(* Part 2.  The cases and the steps each of them is made of.                *)

AllCases == {"shared", "nonostree", "manual", "device", "hsm", "resource", "nonsystemd", "ptest",
             "secondaryFirst", "primaryFirst"}
Provisioning == {"shared", "nonostree", "device", "hsm", "nonsystemd"}
Secondaries == {"secondaryFirst", "primaryFirst"}

\* A setUpLocal adds the layer first and boots one machine at most.
SetUpOf(s) ==
  /\ Len(s) \in 3 .. 4 /\ s[1] = "add_layer"
  /\ \A i \in 2 .. Len(s) : s[i] # "add_layer"
  /\ \A i \in 1 .. Len(s) :
       s[i] \in {"add_layer", "bake_primary", "bake_secondary", "boot", "sysroot"}

\* The test method of a case t: its last step is the assertion that counts; a machine that
\* is started is waited for at once.
TestOf(t, s) ==
  /\ Len(s) \in 1 .. 7
  /\ s[Len(s)] = IF t \in Provisioning THEN "wait_until_provisioned"
                 ELSE IF t \in Secondaries THEN "registered"
                 ELSE IF t = "manual" THEN "fetched"
                 ELSE IF t = "resource" THEN "restarted" ELSE "ptest"
  /\ \A i \in 1 .. Len(s) :
       /\ s[i] \notin {"add_layer", "bake_primary", "bake_secondary", "boot", "sysroot"}
       /\ s[i] = "aktualizr_info" => t \in Provisioning /\ i + 1 = Len(s)
       /\ s[i] = "start_primary" => t \in Secondaries /\ i < Len(s) /\ s[i + 1] = "ssh_primary"
       /\ s[i] = "start_secondary" => t \in Secondaries /\ i < Len(s) /\ s[i + 1] = "ssh_secondary"
  /\ t = "hsm" => Len(s) = 7 /\ s[5] = "token"
  /\ t = "resource" => /\ Len(s) = 4 /\ s[1] = "killed" /\ s[2] = "unlimit"
                       /\ s[3] = "restart" /\ s[4] = "restarted"

\* The three lists of steps of a setUpLocal.
LEMMA SetUps ==
  /\ SetUpOf(Self!Boot) /\ SetUpOf(Self!BootWithSysroot)
  /\ SetUpOf(<<"add_layer", "bake_primary", "bake_secondary">>)
<1>1. SetUpOf(Self!Boot)
  <2> DEFINE s == Self!Boot
  <2>1. /\ Len(s) = 3
        /\ s[1] = "add_layer" /\ s[2] = "bake_primary" /\ s[3] = "boot"
    BY DEF Self!Boot
  <2> HIDE DEF s
  <2>2. SetUpOf(s)
    BY <2>1 DEF SetUpOf
  <2> QED
    BY <2>2 DEF s
<1>2. SetUpOf(Self!BootWithSysroot)
  <2> DEFINE s == Self!BootWithSysroot
  <2>1. /\ Len(s) = 4
        /\ s[1] = "add_layer" /\ s[2] = "bake_primary" /\ s[3] = "boot"
        /\ s[4] = "sysroot"
    BY DEF Self!BootWithSysroot
  <2> HIDE DEF s
  <2>2. SetUpOf(s)
    BY <2>1 DEF SetUpOf
  <2> QED
    BY <2>2 DEF s
<1>3. SetUpOf(<<"add_layer", "bake_primary", "bake_secondary">>)
  <2> DEFINE s == <<"add_layer", "bake_primary", "bake_secondary">>
  <2>1. /\ Len(s) = 3
        /\ s[1] = "add_layer" /\ s[2] = "bake_primary" /\ s[3] = "bake_secondary"
    OBVIOUS
  <2> HIDE DEF s
  <2>2. SetUpOf(s)
    BY <2>1 DEF SetUpOf
  <2> QED
    BY <2>2 DEF s
<1> QED
  BY <1>1, <1>2, <1>3

\* Every case has the form above.
LEMMA Steps ==
  /\ DOMAIN Self!Cases = AllCases
  /\ \A t \in AllCases : SetUpOf(Self!Cases[t]["setUp"]) /\ TestOf(t, Self!Cases[t]["test"])
<1>0. DOMAIN Self!Cases = AllCases
  BY DEF Self!Cases, AllCases
<1>1. SetUpOf(Self!Cases["shared"]["setUp"]) /\ TestOf("shared", Self!Cases["shared"]["test"])
  <2> DEFINE s == Self!Cases["shared"]["test"]
  <2>1. SetUpOf(Self!Cases["shared"]["setUp"])
    BY SetUps DEF Self!Cases, Self!SharedCredProvTests
  <2>2. /\ Len(s) = 3
        /\ s[1] = "hostname" /\ s[2] = "aktualizr_info" /\ s[3] = "wait_until_provisioned"
    BY DEF Self!Cases, Self!SharedCredProvTests
  <2> HIDE DEF s
  <2>3. TestOf("shared", s)
    BY <2>2 DEF TestOf, Provisioning, Secondaries
  <2> QED
    BY <2>1, <2>3 DEF s
<1>2. SetUpOf(Self!Cases["nonostree"]["setUp"]) /\ TestOf("nonostree", Self!Cases["nonostree"]["test"])
  <2> DEFINE s == Self!Cases["nonostree"]["test"]
  <2>1. SetUpOf(Self!Cases["nonostree"]["setUp"])
    BY SetUps DEF Self!Cases, Self!SharedCredProvTestsNonOSTree
  <2>2. /\ Len(s) = 3
        /\ s[1] = "hostname" /\ s[2] = "aktualizr_info" /\ s[3] = "wait_until_provisioned"
    BY DEF Self!Cases, Self!SharedCredProvTests,
              Self!SharedCredProvTestsNonOSTree
  <2> HIDE DEF s
  <2>3. TestOf("nonostree", s)
    BY <2>2 DEF TestOf, Provisioning, Secondaries
  <2> QED
    BY <2>1, <2>3 DEF s
<1>3. SetUpOf(Self!Cases["manual"]["setUp"]) /\ TestOf("manual", Self!Cases["manual"]["test"])
  <2> DEFINE s == Self!Cases["manual"]["test"]
  <2>1. SetUpOf(Self!Cases["manual"]["setUp"])
    BY SetUps DEF Self!Cases, Self!ManualControlTests
  <2>2. /\ Len(s) = 3
        /\ s[1] = "not_run" /\ s[2] = "once_unchecked" /\ s[3] = "fetched"
    BY DEF Self!Cases, Self!ManualControlTests
  <2> HIDE DEF s
  <2>3. TestOf("manual", s)
    BY <2>2 DEF TestOf, Provisioning, Secondaries
  <2> QED
    BY <2>1, <2>3 DEF s
<1>4. SetUpOf(Self!Cases["device"]["setUp"]) /\ TestOf("device", Self!Cases["device"]["test"])
  <2> DEFINE s == Self!Cases["device"]["test"]
  <2>1. SetUpOf(Self!Cases["device"]["setUp"])
    BY SetUps DEF Self!Cases, Self!DeviceCredProvTests
  <2>2. /\ Len(s) = 5
        /\ s[1] = "hostname" /\ s[2] = "verifyNotProvisioned" /\ s[3] = "cert_provider"
        /\ s[4] = "aktualizr_info" /\ s[5] = "wait_until_provisioned"
    BY DEF Self!Cases, Self!DeviceCredProvTests
  <2> HIDE DEF s
  <2>3. TestOf("device", s)
    BY <2>2 DEF TestOf, Provisioning, Secondaries
  <2> QED
    BY <2>1, <2>3 DEF s
<1>5. SetUpOf(Self!Cases["hsm"]["setUp"]) /\ TestOf("hsm", Self!Cases["hsm"]["test"])
  <2> DEFINE s == Self!Cases["hsm"]["test"]
  <2>1. SetUpOf(Self!Cases["hsm"]["setUp"])
    BY SetUps DEF Self!Cases, Self!DeviceCredProvHsmTests
  <2>2. /\ Len(s) = 7
        /\ s[1] = "hostname" /\ s[2] = "verifyNotProvisioned" /\ s[3] = "no_token"
        /\ s[4] = "cert_provider" /\ s[5] = "token" /\ s[6] = "aktualizr_info"
        /\ s[7] = "wait_until_provisioned"
    BY DEF Self!Cases, Self!DeviceCredProvHsmTests
  <2> HIDE DEF s
  <2>3. TestOf("hsm", s)
    BY <2>2 DEF TestOf, Provisioning, Secondaries
  <2> QED
    BY <2>1, <2>3 DEF s
<1>6. SetUpOf(Self!Cases["resource"]["setUp"]) /\ TestOf("resource", Self!Cases["resource"]["test"])
  <2> DEFINE s == Self!Cases["resource"]["test"]
  <2>1. SetUpOf(Self!Cases["resource"]["setUp"])
    BY SetUps DEF Self!Cases, Self!ResourceControlTests
  <2>2. /\ Len(s) = 4
        /\ s[1] = "killed" /\ s[2] = "unlimit" /\ s[3] = "restart"
        /\ s[4] = "restarted"
    BY DEF Self!Cases, Self!ResourceControlTests
  <2> HIDE DEF s
  <2>3. TestOf("resource", s)
    BY <2>2 DEF TestOf, Provisioning, Secondaries
  <2> QED
    BY <2>1, <2>3 DEF s
<1>7. SetUpOf(Self!Cases["nonsystemd"]["setUp"]) /\ TestOf("nonsystemd", Self!Cases["nonsystemd"]["test"])
  <2> DEFINE s == Self!Cases["nonsystemd"]["test"]
  <2>1. SetUpOf(Self!Cases["nonsystemd"]["setUp"])
    BY SetUps DEF Self!Cases, Self!NonSystemdTests
  <2>2. /\ Len(s) = 4
        /\ s[1] = "no_systemctl" /\ s[2] = "once" /\ s[3] = "aktualizr_info"
        /\ s[4] = "wait_until_provisioned"
    BY DEF Self!Cases, Self!NonSystemdTests
  <2> HIDE DEF s
  <2>3. TestOf("nonsystemd", s)
    BY <2>2 DEF TestOf, Provisioning, Secondaries
  <2> QED
    BY <2>1, <2>3 DEF s
<1>8. SetUpOf(Self!Cases["ptest"]["setUp"]) /\ TestOf("ptest", Self!Cases["ptest"]["test"])
  <2> DEFINE s == Self!Cases["ptest"]["test"]
  <2>1. SetUpOf(Self!Cases["ptest"]["setUp"])
    BY SetUps DEF Self!Cases, Self!PtestTests
  <2>2. /\ Len(s) = 1
        /\ s[1] = "ptest"
    BY DEF Self!Cases, Self!PtestTests
  <2> HIDE DEF s
  <2>3. TestOf("ptest", s)
    BY <2>2 DEF TestOf, Provisioning, Secondaries
  <2> QED
    BY <2>1, <2>3 DEF s
<1>9. SetUpOf(Self!Cases["secondaryFirst"]["setUp"]) /\ TestOf("secondaryFirst", Self!Cases["secondaryFirst"]["test"])
  <2> DEFINE s == Self!Cases["secondaryFirst"]["test"]
  <2>1. SetUpOf(Self!Cases["secondaryFirst"]["setUp"])
    BY SetUps DEF Self!Cases, Self!IpSecondary
  <2>2. /\ Len(s) = 7
        /\ s[1] = "start_secondary" /\ s[2] = "ssh_secondary" /\ s[3] = "booted_secondary"
        /\ s[4] = "start_primary" /\ s[5] = "ssh_primary" /\ s[6] = "booted_primary"
        /\ s[7] = "registered"
    BY DEF Self!Cases, Self!IpSecondary, Self!start, Self!ssh, Self!successful
  <2> HIDE DEF s
  <2>3. TestOf("secondaryFirst", s)
    BY <2>2 DEF TestOf, Provisioning, Secondaries
  <2> QED
    BY <2>1, <2>3 DEF s
<1>10. SetUpOf(Self!Cases["primaryFirst"]["setUp"]) /\ TestOf("primaryFirst", Self!Cases["primaryFirst"]["test"])
  <2> DEFINE s == Self!Cases["primaryFirst"]["test"]
  <2>1. SetUpOf(Self!Cases["primaryFirst"]["setUp"])
    BY SetUps DEF Self!Cases, Self!IpSecondary
  <2>2. /\ Len(s) = 7
        /\ s[1] = "start_primary" /\ s[2] = "ssh_primary" /\ s[3] = "booted_primary"
        /\ s[4] = "start_secondary" /\ s[5] = "ssh_secondary" /\ s[6] = "booted_secondary"
        /\ s[7] = "registered"
    BY DEF Self!Cases, Self!IpSecondary, Self!start, Self!ssh, Self!successful
  <2> HIDE DEF s
  <2>3. TestOf("primaryFirst", s)
    BY <2>2 DEF TestOf, Provisioning, Secondaries
  <2> QED
    BY <2>1, <2>3 DEF s
<1>11. \A t \in AllCases : SetUpOf(Self!Cases[t]["setUp"]) /\ TestOf(t, Self!Cases[t]["test"])
  BY <1>1, <1>2, <1>3, <1>4, <1>5, <1>6, <1>7, <1>8, <1>9, <1>10, Zenon DEF AllCases
<1> QED
  BY <1>0, <1>11
-----------------------------------------------------------------------------
(* Part 3.  Where the test process is.                                      *)

StepsAt == Self!Cases[case][phase]

Position ==
  /\ phase \in {"idle", "setUp", "test", "exit"} /\ at \in Nat
  /\ phase # "idle" => case \in Selected
  /\ phase \in {"setUp", "test"} => at \in 1 .. Len(StepsAt)
  /\ phase \in {"idle", "exit"} => at = 1

\* What an action may do to it.
Stays == UNCHANGED <<case, phase, at, result>>
Nexts == phase' = phase /\ at' = at + 1 /\ at' <= Len(StepsAt) /\ UNCHANGED <<case, result>>
Begins == phase = "setUp" /\ phase' = "test" /\ at' = 1 /\ at = Len(StepsAt) /\ UNCHANGED <<case, result>>
Passes ==
  /\ phase = "test" /\ phase' = "exit" /\ at' = 1 /\ result' = "passed" /\ UNCHANGED case
  /\ at = Len(StepsAt) \/ StepsAt[at] = "aktualizr_info"
Fails == phase' = "exit" /\ at' = 1 /\ result' \in {"failed", "error"} /\ UNCHANGED case
Leaves == phase' = "idle" /\ at' = 1

LEMMA Selections ==
  /\ Selected \subseteq AllCases
  /\ \A t \in Selected : SetUpOf(Self!Cases[t]["setUp"]) /\ TestOf(t, Self!Cases[t]["test"])
BY Steps, CasesAssumption DEF Self!TestsAssumption

LEMMA Lengths ==
  ASSUME Position, phase \in {"setUp", "test"}
  PROVE  /\ Len(StepsAt) \in Nat /\ at \in Nat /\ at <= Len(StepsAt) /\ case \in Selected
         /\ phase = "setUp" => SetUpOf(StepsAt)
         /\ phase = "test" => TestOf(case, StepsAt)
<1>1. case \in Selected /\ at \in 1 .. Len(StepsAt)
  BY DEF Position
<1>2. phase = "setUp" => SetUpOf(StepsAt)
  BY <1>1, Selections DEF StepsAt
<1>3. phase = "test" => TestOf(case, StepsAt)
  BY <1>1, Selections DEF StepsAt
<1>4. Len(StepsAt) \in Nat
  BY <1>2, <1>3 DEF SetUpOf, TestOf
<1> QED
  BY <1>1, <1>2, <1>3, <1>4

LEMMA GoIs ==
  ASSUME Position, phase \in {"setUp", "test"}, Self!Go
  PROVE  Nexts \/ Begins \/ Passes
<1>1. at \in Nat /\ Len(StepsAt) \in Nat /\ at <= Len(StepsAt)
  BY Lengths
<1>2. Self!Steps = StepsAt
  BY DEF Self!Steps, StepsAt
<1>3. CASE at + 1 <= Len(StepsAt)
  BY <1>1, <1>2, <1>3 DEF Self!Go, Self!GoTo, Nexts
<1>4. CASE ~(at + 1 <= Len(StepsAt))
  <2>1. at = Len(StepsAt)
    BY <1>1, <1>4
  <2>2. /\ at' = 1 /\ UNCHANGED <<ran, case>>
        /\ IF phase = "setUp" THEN phase' = "test" /\ UNCHANGED result
           ELSE phase' = "exit" /\ result' = "passed"
    BY <1>2, <1>4 DEF Self!Go, Self!GoTo
  <2> QED
    BY <2>1, <2>2 DEF Begins, Passes
<1> QED
  BY <1>3, <1>4

\* The step that is skipped is the last one.
LEMMA SkipIs ==
  ASSUME Position, phase = "test", Self!Step("aktualizr_info"), Self!GoTo(at + 2)
  PROVE  Passes
<1>1. Self!Steps = StepsAt
  BY DEF Self!Steps, StepsAt
<1>2. at \in Nat /\ Len(StepsAt) \in Nat /\ StepsAt[at] = "aktualizr_info" /\ at + 1 = Len(StepsAt)
  BY <1>1, Lengths DEF Self!Step, TestOf, Position
<1>3. ~(at + 2 <= Len(StepsAt))
  BY <1>2
<1> QED
  BY <1>1, <1>2, <1>3 DEF Self!GoTo, Passes

LEMMA EndsIs ==
  /\ Self!Ends("failed") => Fails
  /\ Self!Ends("error") => Fails
BY DEF Self!Ends, Fails

LEMMA AgainIs == Self!Again => Stays \/ Fails
BY EndsIs DEF Self!Again, Stays

LEMMA LeaveIs == Self!Leave => Leaves
BY DEF Self!Leave, Leaves

\* Every one of these keeps the position well formed.
LEMMA PositionKept ==
  ASSUME Position, Stays \/ (phase \in {"setUp", "test"} /\ (Nexts \/ Begins \/ Passes \/ Fails))
                     \/ (phase \in {"setUp", "exit"} /\ Leaves)
  PROVE  Position'
<1>1. CASE Stays
  BY <1>1 DEF Stays, Position, StepsAt
<1>2. CASE phase \in {"setUp", "test"} /\ Nexts
  <2>1. StepsAt' = StepsAt
    BY <1>2 DEF Nexts, StepsAt
  <2> QED
    BY <1>2, <2>1, Lengths DEF Nexts, Position
<1>3. CASE phase \in {"setUp", "test"} /\ Begins
  <2>1. case' \in Selected /\ phase' = "test" /\ at' = 1
    BY <1>3, Lengths DEF Begins
  <2>2. TestOf(case', StepsAt')
    BY <2>1, Selections DEF StepsAt
  <2>3. Len(StepsAt') \in 1 .. 7
    BY <2>2 DEF TestOf
  <2> QED
    BY <2>1, <2>3 DEF Position
<1>4. CASE phase \in {"setUp", "test"} /\ (Passes \/ Fails)
  BY <1>4 DEF Passes, Fails, Position
<1>5. CASE Leaves
  BY <1>5 DEF Leaves, Position
<1> QED
  BY <1>1, <1>2, <1>3, <1>4, <1>5

LEMMA StepIs ==
  ASSUME Position, NEW n, Self!Step(n)
  PROVE  /\ phase \in {"setUp", "test"} /\ StepsAt[at] = n /\ at \in 1 .. Len(StepsAt)
         /\ n \in {"add_layer", "bake_primary", "bake_secondary", "boot", "sysroot"}
              => phase = "setUp" /\ SetUpOf(StepsAt)
         /\ n \notin {"add_layer", "bake_primary", "bake_secondary", "boot", "sysroot"}
              => phase = "test" /\ TestOf(case, StepsAt)
<1>1. phase \in {"setUp", "test"} /\ StepsAt[at] = n
  BY DEF Self!Step, Self!Steps, StepsAt
<1>2. at \in 1 .. Len(StepsAt)
  BY <1>1 DEF Position
<1>3. CASE phase = "setUp"
  <2>1. SetUpOf(StepsAt)
    BY <1>3, Lengths
  <2>2. StepsAt[at] \in {"add_layer", "bake_primary", "bake_secondary", "boot", "sysroot"}
    BY <1>2, <2>1 DEF SetUpOf
  <2> QED
    BY <1>1, <1>2, <1>3, <2>1, <2>2
<1>4. CASE phase = "test"
  <2>1. TestOf(case, StepsAt)
    BY <1>4, Lengths
  <2>2. StepsAt[at] \notin {"add_layer", "bake_primary", "bake_secondary", "boot", "sysroot"}
    BY <1>2, <2>1 DEF TestOf
  <2> QED
    BY <1>1, <1>2, <1>4, <2>1, <2>2
<1> QED
  BY <1>1, <1>3, <1>4

\* Every step but one asks the primary.
LEMMA AsksPrimary ==
  ASSUME Position, phase = "test", StepsAt[at] # "ssh_secondary"
  PROVE  Self!Vm = "primary" /\ (Self!Answers <=> Self!d.boot = "up")
<1>1. ~Self!Step("ssh_secondary")
  BY DEF Self!Step, Self!Steps, StepsAt
<1> QED
  BY <1>1 DEF Self!Vm, Self!Answers, Self!d

-----------------------------------------------------------------------------
(* Part 4.  The machines.                                                   *)

Devs ==
  [boot : {"none", "off", "booting", "net", "up"}, image : Self!ImageKinds, run : BOOLEAN,
   creds : BOOLEAN, fetched : BOOLEAN, token : {"none", "empty", "keys"}, limit : BOOLEAN,
   killed : BOOLEAN, restarted : BOOLEAN, registered : BOOLEAN]

Typed == dev \in [Self!VMs -> Devs]

\* What a machine has done it has done for good; a service that was killed and no longer is was
\* started again.
Onward(m, n) ==
  /\ n.image = m.image
  /\ m.fetched => n.fetched
  /\ m.registered => n.registered
  /\ m.token = "keys" => n.token = "keys"
  /\ m.restarted => n.restarted
  /\ m.killed => n.killed \/ n.restarted

\* Left to itself: a service that runs without a limit is not killed.
Calm(m, n) == Onward(m, n) /\ (m.limit \/ ~m.killed => n.limit \/ ~n.killed)

LEMMA DevIs == ASSUME Typed PROVE Self!d \in Devs /\ dev["primary"] = Self!d
BY DEF Typed, Self!VMs, Self!d

LEMMA FieldsIn ==
  ASSUME NEW m \in Devs
  PROVE  /\ \A b \in {"none", "off", "booting", "net", "up"} :
              [m EXCEPT !.boot = b] \in Devs /\ Calm(m, [m EXCEPT !.boot = b])
         /\ [m EXCEPT !.run = TRUE] \in Devs /\ Calm(m, [m EXCEPT !.run = TRUE])
         /\ [m EXCEPT !.creds = TRUE] \in Devs /\ Calm(m, [m EXCEPT !.creds = TRUE])
         /\ [m EXCEPT !.fetched = TRUE] \in Devs /\ Calm(m, [m EXCEPT !.fetched = TRUE])
         /\ m.limit => [m EXCEPT !.killed = TRUE] \in Devs /\ Calm(m, [m EXCEPT !.killed = TRUE])
         /\ [m EXCEPT !.killed = FALSE, !.restarted = TRUE] \in Devs
         /\ Calm(m, [m EXCEPT !.killed = FALSE, !.restarted = TRUE])
         /\ [m EXCEPT !.limit = FALSE] \in Devs /\ Onward(m, [m EXCEPT !.limit = FALSE])
         /\ m.token = "none" => [m EXCEPT !.token = "empty"] \in Devs /\ Calm(m, [m EXCEPT !.token = "empty"])
         /\ [m EXCEPT !.token = "keys"] \in Devs /\ Calm(m, [m EXCEPT !.token = "keys"])
         /\ [m EXCEPT !.registered = TRUE] \in Devs /\ Calm(m, [m EXCEPT !.registered = TRUE])
<1>1. \A b \in {"none", "off", "booting", "net", "up"} :
        [m EXCEPT !.boot = b] \in Devs /\ Calm(m, [m EXCEPT !.boot = b])
  BY DEF Devs, Onward, Calm
<1>2. [m EXCEPT !.run = TRUE] \in Devs /\ Calm(m, [m EXCEPT !.run = TRUE])
  BY DEF Devs, Onward, Calm
<1>3. [m EXCEPT !.creds = TRUE] \in Devs /\ Calm(m, [m EXCEPT !.creds = TRUE])
  BY DEF Devs, Onward, Calm
<1>4. [m EXCEPT !.fetched = TRUE] \in Devs /\ Calm(m, [m EXCEPT !.fetched = TRUE])
  BY DEF Devs, Onward, Calm
<1>5. m.limit => [m EXCEPT !.killed = TRUE] \in Devs /\ Calm(m, [m EXCEPT !.killed = TRUE])
  BY DEF Devs, Onward, Calm
<1>6. [m EXCEPT !.killed = FALSE, !.restarted = TRUE] \in Devs
  BY DEF Devs, Onward, Calm
<1>7. Calm(m, [m EXCEPT !.killed = FALSE, !.restarted = TRUE])
  BY DEF Devs, Onward, Calm
<1>8. [m EXCEPT !.limit = FALSE] \in Devs /\ Onward(m, [m EXCEPT !.limit = FALSE])
  BY DEF Devs, Onward, Calm
<1>9. m.token = "none" => [m EXCEPT !.token = "empty"] \in Devs /\ Calm(m, [m EXCEPT !.token = "empty"])
  BY DEF Devs, Onward, Calm
<1>10. [m EXCEPT !.token = "keys"] \in Devs /\ Calm(m, [m EXCEPT !.token = "keys"])
  BY DEF Devs, Onward, Calm
<1>11. [m EXCEPT !.registered = TRUE] \in Devs /\ Calm(m, [m EXCEPT !.registered = TRUE])
  BY DEF Devs, Onward, Calm
<1> QED
  BY <1>1, <1>2, <1>3, <1>4, <1>5, <1>6, <1>7, <1>8, <1>9, <1>10, <1>11

\* What is learned of the machine, step by step.
Learned ==
  phase = "test" =>
    /\ case = "hsm" /\ at > 5 => Self!d.token = "keys"
    /\ case = "resource" /\ at > 1 => Self!d.killed \/ Self!d.restarted

\* The invariant of the machines.
DevInv == Typed /\ Learned /\ Self!PassIsTrue

\* An action of the test that teaches as much as its step is there to find out.
Teaches ==
  /\ Typed' /\ Onward(Self!d, Self!d')
  /\ Nexts =>
       /\ StepsAt[at] = "token" => Self!d'.token = "keys"
       /\ StepsAt[at] = "killed" => Self!d'.killed
  /\ Passes =>
       /\ case \in Provisioning => Self!d.fetched /\ Self!d.image["hwid"]
       /\ case = "manual" => Self!d.fetched
       /\ case = "resource" => ~Self!d'.killed
       /\ case \in Secondaries => Self!d.registered /\ Self!d.fetched

\* A case that ends with success knows all that it says.
LEMMA PassedIs ==
  ASSUME Position, DevInv, Teaches, Passes
  PROVE  DevInv'
<1>1. Typed' /\ Learned'
  BY DEF Teaches, Passes, Learned
<1>2. Self!d \in Devs /\ Self!d' \in Devs
  BY <1>1, DevIs DEF DevInv, Typed, Self!d, Self!VMs
<1>3. TestOf(case, StepsAt) /\ phase = "test" /\ at <= Len(StepsAt) /\ at \in 1 .. Len(StepsAt)
  BY Lengths DEF Passes, Position
<1>4. CASE case \in Provisioning
  <2>1. case = "hsm" => at > 5
    <3>1. SUFFICES ASSUME case = "hsm" PROVE at > 5
      OBVIOUS
    <3>2. Len(StepsAt) = 7
      BY <1>3, <3>1 DEF TestOf
    <3>3. at = 7 \/ at + 1 = 7
      BY <1>3, <3>2 DEF TestOf, Passes
    <3> QED
      BY <3>3, <1>3
  <2>2. case = "hsm" => Self!d'.token = "keys"
    BY <1>2, <1>3, <2>1 DEF DevInv, Learned, Teaches, Onward
  <2>3. Self!d'.fetched /\ Self!d'.image["hwid"]
    BY <1>4 DEF Teaches, Onward
  <2> QED
    BY <1>1, <1>4, <2>2, <2>3 DEF DevInv, Self!PassIsTrue, Self!Provisioned, Self!WithStatements, Passes, Provisioning
<1>5. CASE case = "manual"
  BY <1>1, <1>5 DEF DevInv, Self!PassIsTrue, Self!Provisioned, Self!WithStatements, Passes, Teaches, Onward
<1>6. CASE case = "resource"
  <2>1. at = 4
    BY <1>3, <1>6 DEF TestOf, Passes, Provisioning
  <2>2. ~Self!d'.killed /\ Self!d'.restarted
    BY <1>3, <1>6, <2>1 DEF DevInv, Learned, Teaches, Onward
  <2> QED
    BY <1>1, <1>6, <2>2 DEF DevInv, Self!PassIsTrue, Self!WithStatements, Passes, Teaches, Onward
<1>7. CASE case \in Secondaries
  BY <1>1, <1>7 DEF DevInv, Self!PassIsTrue, Self!WithStatements, Passes, Teaches, Onward, Secondaries
<1>8. CASE case = "ptest"
  BY <1>1, <1>8 DEF DevInv, Self!PassIsTrue, Self!WithStatements, Passes
<1>9. case \in AllCases
  BY <1>3, Selections DEF Position
<1> QED
  BY <1>4, <1>5, <1>6, <1>7, <1>8, <1>9 DEF AllCases, Provisioning, Secondaries

LEMMA TaughtIs ==
  ASSUME Position, DevInv, Teaches, phase = "test", Stays \/ Nexts \/ Passes \/ Fails
  PROVE  DevInv'
<1>1. Self!d \in Devs /\ Typed'
  BY DevIs DEF DevInv, Teaches
<1>2. CASE Stays
  <2>1. case' = case /\ phase' = phase /\ at' = at /\ at \in Nat
    BY <1>2 DEF Stays, Position
  <2>2. case = "hsm" /\ at > 5 => Self!d'.token = "keys"
    BY DEF DevInv, Learned, Teaches, Onward
  <2>3. case = "resource" /\ at > 1 => Self!d'.killed \/ Self!d'.restarted
    BY DEF DevInv, Learned, Teaches, Onward
  <2>4. Learned'
    BY <2>1, <2>2, <2>3 DEF Learned
  <2> QED
    BY <1>1, <1>2, <2>4 DEF DevInv, Self!PassIsTrue, Stays
<1>3. CASE Nexts
  <2>1. TestOf(case, StepsAt) /\ at \in 1 .. Len(StepsAt) /\ case' = case /\ at' = at + 1
    BY <1>3, Lengths DEF Position, Nexts
  <2>2. case = "hsm" /\ at' > 5 => Self!d'.token = "keys"
    <3>1. CASE at > 5
      BY <3>1 DEF DevInv, Learned, Teaches, Onward
    <3>2. CASE case = "hsm" /\ at = 5
      <4>1. StepsAt[at] = "token"
        BY <2>1, <3>2 DEF TestOf
      <4> QED
        BY <1>3, <4>1 DEF Teaches
    <3> QED
      BY <2>1, <3>1, <3>2
  <2>3. case = "resource" /\ at' > 1 => Self!d'.killed \/ Self!d'.restarted
    <3>1. CASE at > 1
      BY <3>1 DEF DevInv, Learned, Teaches, Onward
    <3>2. CASE case = "resource" /\ at = 1
      <4>1. StepsAt[at] = "killed"
        BY <2>1, <3>2 DEF TestOf
      <4> QED
        BY <1>3, <4>1 DEF Teaches
    <3> QED
      BY <2>1, <3>1, <3>2
  <2> QED
    BY <1>1, <1>3, <2>1, <2>2, <2>3 DEF DevInv, Learned, Self!PassIsTrue, Nexts
<1>4. CASE Passes
  BY <1>4, PassedIs
<1>5. CASE Fails
  BY <1>1, <1>5 DEF Fails, DevInv, Learned, Self!PassIsTrue
<1> QED
  BY <1>2, <1>3, <1>4, <1>5

-----------------------------------------------------------------------------
(* Part 5.  The actions of a test method.                                   *)

\* Most of them touch nothing of the host.
Quiet ==
  /\ phase = "test"
  /\ Stays \/ Nexts \/ Passes \/ Fails
  /\ StepsAt[at] \notin {"ssh_primary", "ssh_secondary"}
  /\ UNCHANGED <<Self!hostVars, trouble>>

\* What the last step of a test method may be.
LEMMA LastIs ==
  ASSUME Position, Passes
  PROVE  /\ case \in Provisioning => StepsAt[at] \in {"aktualizr_info", "wait_until_provisioned"}
         /\ case = "manual" => StepsAt[at] = "fetched"
         /\ case = "resource" => StepsAt[at] = "restarted"
         /\ case \in Secondaries => StepsAt[at] = "registered"
<1>1. TestOf(case, StepsAt) /\ at \in 1 .. Len(StepsAt) /\ case \in AllCases
  BY Lengths, Selections DEF Position, Passes
<1> QED
  BY <1>1 DEF TestOf, Passes, Provisioning, Secondaries

\* Steps that nothing depends on later.
Unimportant ==
  StepsAt[at] \notin {"token", "killed", "aktualizr_info", "wait_until_provisioned", "fetched",
                      "restarted", "registered"}

LEMMA UnimportantIs ==
  ASSUME Position, Typed', Onward(Self!d, Self!d'), Unimportant
  PROVE  Teaches
<1>1. Nexts => Teaches
  BY DEF Teaches, Unimportant, Nexts, Passes
<1>2. Passes => Teaches
  BY LastIs DEF Teaches, Unimportant, Nexts, Passes
<1> QED
  BY <1>1, <1>2 DEF Teaches

LEMMA SameDev ==
  ASSUME Typed, UNCHANGED dev
  PROVE  Typed' /\ Calm(Self!d, Self!d') /\ Onward(Self!d, Self!d') /\ Self!d' = Self!d
BY DEF Typed, Onward, Calm, Self!d

\* Asking the machine changes nothing.
LEMMA Asks ==
  ASSUME Position, Typed,
         Self!Hostname \/ Self!NotProvisioned \/ Self!NoToken \/ Self!NotRun
           \/ Self!NoSystemctl \/ Self!Ptest
           \/ \E v \in Self!VMs : Self!was_successfully_booted(v)
  PROVE  Quiet /\ Teaches
<1>1. CASE Self!Hostname
  BY <1>1, StepIs, GoIs, EndsIs, SameDev, UnimportantIs
  DEF Self!Hostname, Self!Check, Self!AssertThat, Quiet, Unimportant, Begins
<1>2. CASE Self!NotProvisioned
  BY <1>2, StepIs, GoIs, EndsIs, AgainIs, SameDev, UnimportantIs
  DEF Self!NotProvisioned, Self!AssertThat, Quiet, Unimportant, Begins
<1>3. CASE Self!NoToken
  BY <1>3, StepIs, GoIs, EndsIs, SameDev, UnimportantIs
  DEF Self!NoToken, Self!Check, Self!AssertThat, Quiet, Unimportant, Begins
<1>4. CASE Self!NotRun
  BY <1>4, StepIs, GoIs, EndsIs, SameDev, UnimportantIs
  DEF Self!NotRun, Self!Check, Self!AssertThat, Quiet, Unimportant, Begins
<1>5. CASE Self!NoSystemctl
  BY <1>5, StepIs, GoIs, EndsIs, SameDev, UnimportantIs
  DEF Self!NoSystemctl, Self!Check, Self!AssertThat, Quiet, Unimportant, Begins
<1>6. CASE Self!Ptest
  BY <1>6, StepIs, GoIs, EndsIs, SameDev, UnimportantIs
  DEF Self!Ptest, Self!Check, Self!AssertThat, Quiet, Unimportant, Begins
<1>7. ASSUME NEW v \in Self!VMs, Self!was_successfully_booted(v)
      PROVE  Quiet /\ Teaches
  <2>1. Self!Step("booted_primary") \/ Self!Step("booted_secondary")
    BY <1>7 DEF Self!was_successfully_booted, Self!successful, Self!VMs
  <2> QED
    BY <1>7, <2>1, StepIs, GoIs, EndsIs, SameDev, UnimportantIs
    DEF Self!was_successfully_booted, Self!AssertThat, Quiet, Unimportant, Begins
<1> QED
  BY <1>1, <1>2, <1>3, <1>4, <1>5, <1>6, <1>7

\* The assertions that count.
LEMMA Asserts ==
  ASSUME Position, Typed,
         Self!AktualizrInfo \/ Self!WaitUntilProvisioned \/ Self!Token \/ Self!Fetched
           \/ Self!Killed \/ Self!Restarted \/ Self!is_ecu_registered
  PROVE  Quiet /\ Teaches
<1>1. CASE Self!AktualizrInfo
  <2>1. /\ phase = "test" /\ StepsAt[at] = "aktualizr_info" /\ case \in Provisioning
        /\ Self!Step("aktualizr_info") /\ TestOf(case, StepsAt) /\ at + 1 = Len(StepsAt)
        /\ UNCHANGED <<Self!hostVars, dev, trouble>>
    BY <1>1, StepIs DEF Self!AktualizrInfo, TestOf
  <2>2. /\ Stays \/ Nexts \/ Passes \/ Fails
        /\ Passes => Self!d.fetched /\ Self!d.image["hwid"]
    <3>1. CASE ~Self!InfoRuns
      BY <1>1, <2>1, <3>1, AgainIs DEF Self!AktualizrInfo, Stays, Fails, Passes
    <3>2. CASE Self!InfoRuns /\ ~Self!d.fetched
      <4>1. Self!Go
        BY <1>1, <3>2 DEF Self!AktualizrInfo
      <4>2. at + 1 <= Len(Self!Steps) /\ phase' = phase
        BY <2>1, <4>1, Lengths DEF Self!Go, Self!GoTo, Self!Steps, StepsAt
      <4> QED
        BY <2>1, <4>1, <4>2, GoIs DEF Passes, Begins
    <3>3. CASE Self!InfoRuns /\ Self!d.fetched
      BY <1>1, <2>1, <3>3, SkipIs, EndsIs DEF Self!AktualizrInfo, Fails, Passes
    <3> QED
      BY <3>1, <3>2, <3>3
  <2>3. case \in Provisioning => case \notin Secondaries /\ case # "manual" /\ case # "resource"
    BY DEF Provisioning, Secondaries
  <2> QED
    BY <2>1, <2>2, <2>3, SameDev DEF Quiet, Teaches
<1>2. CASE Self!WaitUntilProvisioned
  <2>1. /\ phase = "test" /\ StepsAt[at] = "wait_until_provisioned"
        /\ UNCHANGED <<Self!hostVars, dev, trouble>>
    BY <1>2, StepIs DEF Self!WaitUntilProvisioned, Self!Check
  <2>2. /\ Nexts \/ Passes \/ Fails
        /\ Passes => Self!d.fetched /\ Self!d.image["hwid"]
    BY <1>2, <2>1, GoIs, EndsIs
    DEF Self!WaitUntilProvisioned, Self!Check, Self!AssertThat, Passes, Fails, Begins
  <2> QED
    BY <2>1, <2>2, SameDev, LastIs DEF Quiet, Teaches
<1>3. CASE Self!Token
  <2>1. /\ phase = "test" /\ StepsAt[at] = "token" /\ at \in Nat
        /\ UNCHANGED <<Self!hostVars, dev, trouble>>
    BY <1>3, StepIs DEF Self!Token, Position
  <2>2. /\ Stays \/ Nexts \/ Passes \/ Fails
        /\ Nexts => Self!d.token = "keys"
    BY <1>3, <2>1, GoIs, AgainIs DEF Self!Token, Stays, Nexts, Fails, Passes, Begins
  <2> QED
    BY <2>1, <2>2, SameDev, LastIs DEF Quiet, Teaches
<1>4. CASE Self!Fetched
  <2>1. /\ phase = "test" /\ StepsAt[at] = "fetched"
        /\ UNCHANGED <<Self!hostVars, dev, trouble>>
    BY <1>4, StepIs DEF Self!Fetched, Self!Check
  <2>2. /\ Nexts \/ Passes \/ Fails
        /\ Passes => Self!d.fetched
    BY <1>4, <2>1, GoIs, EndsIs DEF Self!Fetched, Self!Check, Self!AssertThat, Passes, Fails, Begins
  <2> QED
    BY <2>1, <2>2, SameDev, LastIs DEF Quiet, Teaches
<1>5. CASE Self!Killed
  <2>1. /\ phase = "test" /\ StepsAt[at] = "killed" /\ at \in Nat
        /\ UNCHANGED <<Self!hostVars, dev, trouble>>
    BY <1>5, StepIs DEF Self!Killed, Position
  <2>2. Self!Answers <=> Self!d.boot = "up"
    BY <2>1, AsksPrimary
  <2>3. /\ Stays \/ Nexts \/ Passes \/ Fails
        /\ Nexts => Self!d.killed
    BY <1>5, <2>1, <2>2, GoIs, AgainIs, EndsIs
    DEF Self!Killed, Self!AssertThat, Stays, Nexts, Fails, Begins
  <2> QED
    BY <2>1, <2>3, SameDev, LastIs DEF Quiet, Teaches
<1>6. CASE Self!Restarted
  <2>1. /\ phase = "test" /\ StepsAt[at] = "restarted"
        /\ UNCHANGED <<Self!hostVars, dev, trouble>>
    BY <1>6, StepIs DEF Self!Restarted, Self!Check
  <2>2. /\ Nexts \/ Passes \/ Fails
        /\ Passes => ~Self!d.killed
    BY <1>6, <2>1, GoIs, EndsIs DEF Self!Restarted, Self!Check, Self!AssertThat, Passes, Fails, Begins
  <2> QED
    BY <2>1, <2>2, SameDev, LastIs DEF Quiet, Teaches
<1>7. CASE Self!is_ecu_registered
  <2>1. /\ phase = "test" /\ StepsAt[at] = "registered"
        /\ UNCHANGED <<Self!hostVars, dev, trouble>>
    BY <1>7, StepIs DEF Self!is_ecu_registered, Self!Check
  <2>2. /\ Nexts \/ Passes \/ Fails
        /\ Passes => Self!d.registered /\ Self!d.fetched
    BY <1>7, <2>1, GoIs, EndsIs
    DEF Self!is_ecu_registered, Self!Check, Self!AssertThat, Passes, Fails, Begins
  <2> QED
    BY <2>1, <2>2, SameDev, LastIs DEF Quiet, Teaches
<1> QED
  BY <1>1, <1>2, <1>3, <1>4, <1>5, <1>6, <1>7

LEMMA PutIs ==
  ASSUME Typed, NEW v \in Self!VMs, NEW r \in Devs, dev' = [dev EXCEPT ![v] = r]
  PROVE  /\ Typed'
         /\ v = "primary" => Self!d' = r
         /\ v # "primary" => Self!d' = Self!d
<1>1. Typed'
  BY DEF Typed
<1> QED
  BY <1>1 DEF Typed, Self!d, Self!VMs

\* A machine that is the same has not gone back.
LEMMA OnwardSame == \A m : Onward(m, m) /\ Calm(m, m)
BY DEF Onward, Calm

\* The actions that work on the machine.
LEMMA Works ==
  ASSUME Position, Typed,
         Self!CertProvider \/ Self!OnceUnchecked \/ Self!OnceChecked \/ Self!Unlimit \/ Self!Restart
  PROVE  Quiet /\ Teaches
<1>0. Self!d \in Devs /\ dev["primary"] = Self!d /\ "primary" \in Self!VMs
  BY DevIs DEF Self!VMs
<1>1. CASE Self!CertProvider
  <2>1. phase = "test" /\ StepsAt[at] = "cert_provider" /\ UNCHANGED <<Self!hostVars, trouble>>
    BY <1>1, StepIs DEF Self!CertProvider
  <2>2. Nexts \/ Passes \/ Fails
    BY <1>1, <2>1, GoIs, EndsIs DEF Self!CertProvider, Begins
  <2>3. Typed' /\ Onward(Self!d, Self!d')
    <3>1. CASE UNCHANGED dev
      BY <3>1, SameDev
    <3>2. CASE dev' = [dev EXCEPT !["primary"].creds = TRUE]
      <4>1. dev' = [dev EXCEPT !["primary"] = [Self!d EXCEPT !.creds = TRUE]]
        BY <1>0, <3>2 DEF Self!d
      <4>2. /\ [Self!d EXCEPT !.creds = TRUE] \in Devs
            /\ Onward(Self!d, [Self!d EXCEPT !.creds = TRUE])
        BY <1>0, FieldsIn DEF Calm
      <4> QED
        BY <1>0, <4>1, <4>2, PutIs
    <3> QED
      BY <1>1, <3>1, <3>2 DEF Self!CertProvider
  <2> QED
    BY <2>1, <2>2, <2>3, UnimportantIs DEF Quiet, Unimportant
<1>2. CASE Self!OnceUnchecked \/ Self!OnceChecked
  <2>1. /\ phase = "test" /\ StepsAt[at] \in {"once_unchecked", "once"}
        /\ UNCHANGED <<Self!hostVars, trouble>>
    BY <1>2, StepIs DEF Self!OnceUnchecked, Self!OnceChecked, Self!Once
  <2>2. Nexts \/ Passes \/ Fails
    BY <1>2, <2>1, GoIs, EndsIs DEF Self!OnceUnchecked, Self!OnceChecked, Self!Once, Begins
  <2>3. Typed' /\ Onward(Self!d, Self!d')
    <3>1. CASE UNCHANGED dev
      BY <3>1, SameDev
    <3>2. ASSUME NEW f \in {Self!d.fetched, Self!d.fetched \/ Self!d.creds},
                 dev' = [dev EXCEPT !["primary"].run = TRUE, !["primary"].fetched = f]
          PROVE  Typed' /\ Onward(Self!d, Self!d')
      <4>1. dev' = [dev EXCEPT !["primary"] = [Self!d EXCEPT !.run = TRUE, !.fetched = f]]
        BY <1>0, <3>2 DEF Self!d, Typed
      <4>2. /\ [Self!d EXCEPT !.run = TRUE, !.fetched = f] \in Devs
            /\ Onward(Self!d, [Self!d EXCEPT !.run = TRUE, !.fetched = f])
        BY <1>0 DEF Devs, Onward
      <4> QED
        BY <1>0, <4>1, <4>2, PutIs
    <3> QED
      BY <1>2, <3>1, <3>2 DEF Self!OnceUnchecked, Self!OnceChecked, Self!Once
  <2> QED
    BY <2>1, <2>2, <2>3, UnimportantIs DEF Quiet, Unimportant
<1>3. CASE Self!Unlimit
  <2>1. phase = "test" /\ StepsAt[at] = "unlimit" /\ UNCHANGED <<Self!hostVars, trouble>>
    BY <1>3, StepIs DEF Self!Unlimit
  <2>2. Nexts \/ Passes
    BY <1>3, <2>1, GoIs DEF Self!Unlimit, Begins
  <2>3. Typed' /\ Onward(Self!d, Self!d')
    <3>1. CASE UNCHANGED dev
      BY <3>1, SameDev
    <3>2. CASE dev' = [dev EXCEPT !["primary"] = [Self!d EXCEPT !.limit = FALSE]]
      <4>1. /\ [Self!d EXCEPT !.limit = FALSE] \in Devs
            /\ Onward(Self!d, [Self!d EXCEPT !.limit = FALSE])
        BY <1>0, FieldsIn DEF Calm
      <4> QED
        BY <1>0, <3>2, <4>1, PutIs
    <3> QED
      BY <1>0, <1>3, <3>1, <3>2 DEF Self!Unlimit, Self!d, Typed
  <2> QED
    BY <2>1, <2>2, <2>3, UnimportantIs DEF Quiet, Unimportant
<1>4. CASE Self!Restart
  <2>1. phase = "test" /\ StepsAt[at] = "restart" /\ UNCHANGED <<Self!hostVars, trouble>>
    BY <1>4, StepIs DEF Self!Restart
  <2>2. Nexts \/ Passes
    BY <1>4, <2>1, GoIs DEF Self!Restart, Begins
  <2>3. Typed' /\ Onward(Self!d, Self!d')
    <3>1. CASE UNCHANGED dev
      BY <3>1, SameDev
    <3>2. CASE dev' = [dev EXCEPT !["primary"] = [Self!d EXCEPT !.killed = FALSE, !.restarted = TRUE]]
      <4>1. /\ [Self!d EXCEPT !.killed = FALSE, !.restarted = TRUE] \in Devs
            /\ Onward(Self!d, [Self!d EXCEPT !.killed = FALSE, !.restarted = TRUE])
        BY <1>0, FieldsIn DEF Calm
      <4> QED
        BY <1>0, <3>2, <4>1, PutIs
    <3> QED
      BY <1>0, <1>4, <3>1, <3>2 DEF Self!Restart, Self!d, Typed
  <2> QED
    BY <2>1, <2>2, <2>3, UnimportantIs DEF Quiet, Unimportant
<1> QED
  BY <1>1, <1>2, <1>3, <1>4

\* The with statements and a command that times out.
Starts(v) ==
  /\ phase = "test" /\ Nexts /\ StepsAt[at] = Self!start[v] /\ StepsAt[at + 1] = Self!ssh[v]
  /\ running' = running \union {v}
  /\ UNCHANGED <<layer, meta_qemu, owned, booted, trouble>>

LEMMA EnterIs ==
  ASSUME Position, Typed, NEW v \in Self!VMs, Self!Enter(v)
  PROVE  (Starts(v) \/ Quiet) /\ Teaches
<1>1. v \in {"primary", "secondary"}
  BY DEF Self!VMs
<1>2. /\ phase = "test" /\ StepsAt[at] = Self!start[v] /\ at < Len(StepsAt) /\ at \in Nat
      /\ StepsAt[at + 1] = Self!ssh[v] /\ case \in Secondaries /\ Len(StepsAt) \in Nat
      /\ Self!start[v] \in {"start_primary", "start_secondary"}
  BY <1>1, StepIs, Lengths DEF Self!Enter, Self!start, Self!ssh, TestOf
<1>3. Unimportant /\ StepsAt[at] \notin {"ssh_primary", "ssh_secondary"}
  BY <1>2 DEF Unimportant
<1>4. CASE Self!Go /\ Self!Popen(v)
  <2>1. Nexts
    BY <1>2, <1>4, GoIs DEF Begins, Passes
  <2>2. dev[v] \in Devs
    BY DEF Typed
  <2>3. dev' = [dev EXCEPT ![v] = [dev[v] EXCEPT !.boot = "off"]]
    BY <1>4 DEF Self!Popen
  <2>4. [dev[v] EXCEPT !.boot = "off"] \in Devs /\ Onward(dev[v], [dev[v] EXCEPT !.boot = "off"])
    BY <2>2, FieldsIn DEF Calm
  <2>5. Typed' /\ Onward(Self!d, Self!d')
    BY <2>3, <2>4, PutIs, OnwardSame DEF Self!d
  <2> QED
    BY <1>2, <1>3, <1>4, <2>1, <2>5, UnimportantIs DEF Starts, Self!Enter, Self!Popen
<1>5. CASE Self!Ends("error") /\ UNCHANGED <<running, dev>>
  <2>1. Quiet
    BY <1>2, <1>3, <1>5, EndsIs DEF Quiet, Self!Enter, Self!hostVars
  <2> QED
    BY <1>3, <1>5, <2>1, SameDev, UnimportantIs
<1> QED
  BY <1>4, <1>5 DEF Self!Enter

Reached(v) ==
  /\ phase = "test"
  /\ Nexts \/ Passes
  /\ StepsAt[at] = Self!ssh[v] /\ owned' = Append(owned, v)
  /\ UNCHANGED <<layer, meta_qemu, running, trouble>>

LEMMA ReachedIs ==
  ASSUME Position, Typed, NEW v \in Self!VMs, Self!wait_till_sshable(v)
  PROVE  Reached(v) /\ Teaches
<1>1. Self!ssh[v] \in {"ssh_primary", "ssh_secondary"}
  BY DEF Self!VMs, Self!ssh
<1>2. phase = "test" /\ StepsAt[at] = Self!ssh[v]
  BY <1>1, StepIs DEF Self!wait_till_sshable
<1>3. Nexts \/ Passes
  BY <1>2, GoIs DEF Self!wait_till_sshable, Begins
<1>4. Unimportant
  BY <1>1, <1>2 DEF Unimportant
<1> QED
  BY <1>2, <1>3, <1>4, SameDev, UnimportantIs DEF Reached, Self!wait_till_sshable

GivesUp ==
  /\ phase = "test" /\ Fails
  /\ trouble' = (trouble \/ StepsAt[at] \in {"ssh_primary", "ssh_secondary"})
  /\ UNCHANGED Self!hostVars

LEMMA GivesUpIs ==
  ASSUME Position, Typed, Self!TimesOut
  PROVE  GivesUp /\ Teaches
<1>1. phase = "test" /\ Fails
  BY EndsIs DEF Self!TimesOut, Self!UsesSsh
<1>2. (\E v \in Self!VMs : Self!Step(Self!ssh[v])) <=> StepsAt[at] \in {"ssh_primary", "ssh_secondary"}
  BY <1>1 DEF Self!VMs, Self!ssh, Self!Step, Self!Steps, StepsAt
<1>3. Teaches
  BY <1>1, SameDev DEF Self!TimesOut, Teaches, Fails, Nexts, Passes
<1> QED
  BY <1>1, <1>2, <1>3 DEF GivesUp, Self!TimesOut

-----------------------------------------------------------------------------
(* Part 6.  The host: what a case has started and added.                    *)

Owned == {owned[i] : i \in 1 .. Len(owned)}

\* The machine that has been started and will be owned when it answers.
Waited == {v \in Self!VMs : phase = "test" /\ StepsAt[at] = Self!ssh[v]}

HostTypes ==
  /\ user_layer \in BOOLEAN /\ layer \in BOOLEAN /\ meta_qemu \in BOOLEAN /\ trouble \in BOOLEAN
  /\ owned \in Seq(Self!VMs)

\* A layer is there because the user or this case has added it.
Layers ==
  /\ user_layer => layer /\ ~meta_qemu
  /\ ~trouble => (layer <=> user_layer \/ meta_qemu)
  /\ phase = "idle" \/ (phase = "setUp" /\ at = 1) => ~meta_qemu

\* A machine that runs will be stopped.
Machines ==
  /\ phase = "idle" => owned = <<>>
  /\ phase = "setUp" => Owned \subseteq {"primary"}
  /\ ~trouble => running \subseteq Owned \union Waited

HostInv == HostTypes /\ Layers /\ Machines

LEMMA CutShort ==
  ASSUME NEW S, NEW s \in Seq(S), NEW n \in Nat, n <= Len(s)
  PROVE  /\ SubSeq(s, 1, n) \in Seq(S) /\ Len(SubSeq(s, 1, n)) = n
         /\ \A i \in 1 .. n : SubSeq(s, 1, n)[i] = s[i]
OBVIOUS

LEMMA OwnedOf ==
  ASSUME owned \in Seq(Self!VMs)
  PROVE  /\ owned = <<>> <=> Owned = {}
         /\ \A v \in Self!VMs : owned' = Append(owned, v) =>
              owned' \in Seq(Self!VMs) /\ Owned' = Owned \union {v}
         /\ owned # <<>> =>
              /\ Self!Front(owned) \in Seq(Self!VMs)
              /\ owned' = Self!Front(owned) => Owned \subseteq Owned' \union {Self!Last(owned)}
<1>1. Len(owned) \in Nat /\ (owned = <<>> <=> Len(owned) = 0)
  OBVIOUS
<1>2. owned = <<>> <=> Owned = {}
  <2>1. Owned # {} => Len(owned) >= 1
    BY <1>1 DEF Owned
  <2>2. Len(owned) >= 1 => owned[1] \in Owned
    BY <1>1 DEF Owned
  <2> QED
    BY <1>1, <2>1, <2>2
<1>3. ASSUME NEW v \in Self!VMs, owned' = Append(owned, v)
      PROVE  owned' \in Seq(Self!VMs) /\ Owned' = Owned \union {v}
  <2>1. /\ owned' \in Seq(Self!VMs) /\ Len(owned') = Len(owned) + 1
        /\ \A i \in 1 .. Len(owned) : owned'[i] = owned[i]
        /\ owned'[Len(owned) + 1] = v
    BY <1>3
  <2>2. Owned' \subseteq Owned \union {v}
    BY <1>1, <2>1 DEF Owned
  <2>3. Owned \subseteq Owned' /\ v \in Owned'
    BY <1>1, <2>1 DEF Owned
  <2> QED
    BY <2>1, <2>2, <2>3
<1>4. ASSUME owned # <<>>
      PROVE  /\ Self!Front(owned) \in Seq(Self!VMs)
             /\ owned' = Self!Front(owned) => Owned \subseteq Owned' \union {Self!Last(owned)}
  <2>1. Len(owned) - 1 \in Nat /\ 1 \in Int
    BY <1>1, <1>4
  <2>2. Self!Front(owned) = SubSeq(owned, 1, Len(owned) - 1) /\ Self!Last(owned) = owned[Len(owned)]
    BY DEF Self!Front, Self!Last
  <2> DEFINE n == Len(owned) - 1
  <2>3. Self!Front(owned) = SubSeq(owned, 1, n)
    BY <2>2
  <2>5. Len(owned) = n + 1 /\ n \in Nat /\ n <= Len(owned)
    BY <1>1, <2>1
  <2> HIDE DEF n
  <2>6. SubSeq(owned, 1, n) \in Seq(Self!VMs)
    BY <2>5, CutShort
  <2>7. /\ Len(SubSeq(owned, 1, n)) = n
        /\ \A i \in 1 .. n : SubSeq(owned, 1, n)[i] = owned[i]
    BY <2>5, CutShort
  <2>4. ASSUME owned' = Self!Front(owned), NEW i \in 1 .. Len(owned)
        PROVE  owned[i] \in Owned' \union {Self!Last(owned)}
    <3>1. CASE i = Len(owned)
      BY <2>2, <3>1
    <3>2. CASE i \in 1 .. n
      BY <2>3, <2>4, <2>7, <3>2 DEF Owned
    <3> QED
      BY <2>5, <3>1, <3>2
  <2> QED
    BY <2>3, <2>4, <2>6 DEF Owned
<1> QED
  BY <1>2, <1>3, <1>4

\* Nothing changes on the host, and no machine is being waited for.
LEMMA HostKept ==
  ASSUME HostInv, UNCHANGED <<user_layer, layer, meta_qemu, running, owned, trouble>>,
         Waited \subseteq Waited',
         phase' # "idle", phase' = "setUp" => phase = "setUp" \/ phase = "idle",
         phase' = "setUp" /\ at' = 1 => ~meta_qemu
  PROVE  HostInv'
<1>1. Owned' = Owned
  BY DEF Owned
<1>2. phase = "idle" => Owned = {}
  BY OwnedOf DEF HostInv, HostTypes, Machines
<1> QED
  BY <1>1, <1>2 DEF HostInv, HostTypes, Layers, Machines

LEMMA QuietHost == ASSUME Position, HostInv, Quiet, UNCHANGED user_layer PROVE HostInv'
<1>1. Waited = {}
  BY DEF Waited, Quiet, Self!VMs, Self!ssh
<1>2. phase' \in {"test", "exit"}
  BY DEF Quiet, Stays, Nexts, Passes, Fails
<1> QED
  BY <1>1, <1>2, HostKept DEF Quiet, Self!hostVars

LEMMA StartsHost ==
  ASSUME Position, HostInv, NEW v \in Self!VMs, Starts(v), UNCHANGED user_layer
  PROVE  HostInv'
<1>1. Owned' = Owned
  BY DEF Owned, Starts
<1>2. v \in Waited' /\ phase' = "test"
  BY DEF Waited, Starts, Nexts, StepsAt
<1>3. Waited = {}
  BY DEF Waited, Starts, Self!VMs, Self!ssh, Self!start
<1> QED
  BY <1>1, <1>2, <1>3 DEF HostInv, HostTypes, Layers, Machines, Starts

LEMMA ReachedHost ==
  ASSUME Position, HostInv, NEW v \in Self!VMs, Reached(v), UNCHANGED user_layer
  PROVE  HostInv'
<1>1. Owned' = Owned \union {v} /\ owned' \in Seq(Self!VMs)
  BY OwnedOf DEF HostInv, HostTypes, Reached
<1>2. Waited = {v} /\ phase' \in {"test", "exit"}
  BY DEF Waited, Reached, Nexts, Passes, Self!VMs, Self!ssh
<1> QED
  BY <1>1, <1>2 DEF HostInv, HostTypes, Layers, Machines, Reached

LEMMA GivesUpHost == ASSUME Position, HostInv, GivesUp, UNCHANGED user_layer PROVE HostInv'
<1>1. Owned' = Owned /\ UNCHANGED <<layer, meta_qemu, running, owned>>
  BY DEF Owned, GivesUp, Self!hostVars
<1>2. ~trouble' => Waited = {} /\ ~trouble
  <2>1. ~trouble' => StepsAt[at] \notin {"ssh_primary", "ssh_secondary"} /\ ~trouble
    BY DEF GivesUp
  <2>2. StepsAt[at] \notin {"ssh_primary", "ssh_secondary"} => Waited = {}
    BY DEF Waited, Self!VMs, Self!ssh
  <2> QED
    BY <2>1, <2>2
<1>3. trouble' \in BOOLEAN
  BY DEF GivesUp, HostInv, HostTypes
<1>4. phase' = "exit"
  BY DEF GivesUp, Fails
<1> QED
  BY <1>1, <1>2, <1>3, <1>4 DEF HostInv, HostTypes, Layers, Machines

-----------------------------------------------------------------------------
(* Part 7.  Everything else the test process and the machines do.           *)

\* Outside of a test method, and at its start, nothing has been learned yet.
LEMMA FreshIs ==
  ASSUME Typed', phase' \in {"idle", "setUp"} \/ (phase' = "test" /\ at' = 1)
  PROVE  DevInv'
BY DEF DevInv, Learned, Self!PassIsTrue

LEMMA NoneOwned == <<>> \in Seq(Self!VMs) /\ TRUE \in BOOLEAN /\ FALSE \in BOOLEAN
OBVIOUS

LEMMA SetUpGoes ==
  ASSUME Position, phase = "setUp", Self!Go
  PROVE  Position' /\ ((phase' = "setUp" /\ at' # 1) \/ (phase' = "test" /\ at' = 1))
<1>1. Nexts \/ Begins
  BY GoIs DEF Passes
<1>2. Position'
  BY <1>1, PositionKept
<1>3. at \in 1 .. Len(StepsAt)
  BY DEF Position
<1> QED
  BY <1>1, <1>2, <1>3 DEF Nexts, Begins

LEMMA StartCaseKeeps ==
  ASSUME Position, HostInv, DevInv, UNCHANGED user_layer, NEW t \in Selected, Self!StartCase(t)
  PROVE  Position' /\ HostInv' /\ DevInv'
<1>1. /\ phase = "idle" /\ case' = t /\ phase' = "setUp" /\ at' = at /\ at = 1
      /\ UNCHANGED <<layer, meta_qemu, running, owned, dev, trouble>>
  BY DEF Self!StartCase, Self!hostVars, Position
<1>2. Position'
  <2>1. SetUpOf(StepsAt')
    BY <1>1, Selections DEF StepsAt
  <2>2. Len(StepsAt') \in 3 .. 4
    BY <2>1 DEF SetUpOf
  <2> QED
    BY <1>1, <2>2 DEF Position
<1>3. HostInv'
  <2>1. Waited = {} /\ ~meta_qemu
    BY <1>1 DEF Waited, HostInv, Layers
  <2> QED
    BY <1>1, <2>1, HostKept
<1>4. DevInv'
  BY <1>1, FreshIs DEF DevInv, Typed
<1> QED
  BY <1>2, <1>3, <1>4

\* One step per action of setUpLocal.
LEMMA SetUpKeeps ==
  ASSUME Position, HostInv, DevInv, UNCHANGED user_layer, Self!SetUp
  PROVE  Position' /\ HostInv' /\ DevInv'
<1>0. phase = "setUp" => Waited = {}
  BY DEF Waited
<1>1. CASE Self!AddLayer
  <2>1. phase = "setUp" /\ SetUpOf(StepsAt) /\ at \in 1 .. Len(StepsAt) /\ StepsAt[at] = "add_layer"
    BY <1>1, StepIs DEF Self!AddLayer
  <2>2. at = 1 /\ ~meta_qemu
    <3>1. Len(StepsAt) \in Nat /\ \A i \in 2 .. Len(StepsAt) : StepsAt[i] # "add_layer"
      BY <2>1 DEF SetUpOf
    <3>2. at = 1
      BY <2>1, <3>1
    <3> QED
      BY <2>1, <3>2 DEF HostInv, Layers
  <2>3. Position' /\ ((phase' = "setUp" /\ at' # 1) \/ (phase' = "test" /\ at' = 1))
    BY <1>1, <2>1, SetUpGoes DEF Self!AddLayer
  <2>4. layer' = TRUE /\ meta_qemu' = ~layer /\ UNCHANGED <<running, owned, dev, trouble>>
    BY <1>1 DEF Self!AddLayer
  <2>5. HostInv'
    <3>1. HostTypes'
      BY <2>4 DEF HostInv, HostTypes
    <3>2. Layers'
      BY <2>2, <2>3, <2>4 DEF HostInv, HostTypes, Layers
    <3>3. Machines'
      <4>1. Owned' = Owned
        BY <2>4 DEF Owned
      <4> QED
        BY <1>0, <2>1, <2>3, <2>4, <4>1 DEF HostInv, Machines
    <3> QED
      BY <3>1, <3>2, <3>3 DEF HostInv
  <2>6. DevInv'
    BY <2>3, <2>4, FreshIs DEF DevInv, Typed
  <2> QED
    BY <2>3, <2>5, <2>6
<1>2. ASSUME NEW v \in Self!VMs, Self!Bake(v)
      PROVE  Position' /\ HostInv' /\ DevInv'
  <2>1. phase = "setUp" /\ case \in Selected
    <3>1. Self!bake[v] \in {"bake_primary", "bake_secondary"}
      BY DEF Self!bake, Self!VMs
    <3> QED
      BY <1>2, <3>1, StepIs DEF Self!Bake, Position
  <2>2. Position' /\ ((phase' = "setUp" /\ at' # 1) \/ (phase' = "test" /\ at' = 1))
    BY <1>2, <2>1, SetUpGoes DEF Self!Bake
  <2>3. HostInv'
    BY <1>0, <1>2, <2>1, <2>2, HostKept DEF Self!Bake, Self!hostVars
  <2>4. Typed'
    <3>1. PICK image \in Images[case] : dev' = [dev EXCEPT ![v] = Self!Off(image)]
      BY <1>2 DEF Self!Bake
    <3>2. image \in Self!ImageKinds
      BY <2>1, CasesAssumption DEF Self!TestsAssumption
    <3>3. Self!Off(image) \in Devs
      BY <3>2 DEF Self!Off, Devs, Self!ImageKinds
    <3> QED
      BY <3>1, <3>3, PutIs DEF DevInv
  <2> QED
    BY <2>2, <2>3, <2>4, FreshIs
<1>3. CASE Self!qemu_launch
  <2>1. phase = "setUp"
    BY <1>3, StepIs DEF Self!qemu_launch
  <2>2. Position' /\ ((phase' = "setUp" /\ at' # 1) \/ (phase' = "test" /\ at' = 1))
    BY <1>3, <2>1, SetUpGoes DEF Self!qemu_launch
  <2>3. /\ running' = running \union {"primary"} /\ owned' = <<"primary">>
        /\ dev' = [dev EXCEPT !["primary"].boot = "off"]
        /\ UNCHANGED <<layer, meta_qemu, trouble>>
    BY <1>3 DEF Self!qemu_launch, Self!Popen
  <2>4. HostInv'
    <3>1. owned' \in Seq(Self!VMs) /\ Owned' = {"primary"}
      <4>1. owned' \in Seq(Self!VMs) /\ Len(owned') = 1 /\ owned'[1] = "primary"
        BY <2>3 DEF Self!VMs
      <4> QED
        BY <4>1 DEF Owned
    <3>2. HostTypes' /\ Layers'
      BY <2>1, <2>2, <2>3, <3>1 DEF HostInv, HostTypes, Layers
    <3>3. Machines'
      BY <1>0, <2>1, <2>2, <2>3, <3>1 DEF HostInv, Machines
    <3> QED
      BY <3>2, <3>3 DEF HostInv
  <2>5. Typed'
    <3>1. "primary" \in Self!VMs /\ Self!d \in Devs /\ dev["primary"] = Self!d
      BY DevIs DEF DevInv, Self!VMs
    <3>2. [Self!d EXCEPT !.boot = "off"] \in Devs
      BY <3>1, FieldsIn
    <3>3. dev' = [dev EXCEPT !["primary"] = [Self!d EXCEPT !.boot = "off"]]
      BY <2>3, <3>1
    <3> QED
      BY <3>1, <3>2, <3>3, PutIs DEF DevInv
  <2> QED
    BY <2>2, <2>4, <2>5, FreshIs
<1>4. CASE Self!Sysroot
  <2>1. phase = "setUp"
    BY <1>4, StepIs DEF Self!Sysroot
  <2>2. Position' /\ ((phase' = "setUp" /\ at' # 1) \/ (phase' = "test" /\ at' = 1))
    BY <1>4, <2>1, SetUpGoes DEF Self!Sysroot
  <2>3. HostInv'
    BY <1>0, <1>4, <2>1, <2>2, HostKept DEF Self!Sysroot, Self!hostVars
  <2> QED
    BY <1>4, <2>2, <2>3, FreshIs DEF Self!Sysroot, DevInv, Typed
<1>5. CASE Self!SetUpRaises
  <2>1. /\ phase = "setUp" /\ Leaves /\ owned' = <<>> /\ meta_qemu' = FALSE /\ trouble' = TRUE
        /\ UNCHANGED <<layer, running, dev>>
    BY <1>5, LeaveIs DEF Self!SetUpRaises, Self!Leave
  <2>2. Position'
    BY <2>1, PositionKept
  <2>3. HostInv'
    <3>1. HostTypes'
      BY <2>1, NoneOwned, Zenon DEF HostInv, HostTypes
    <3>2. Layers'
      BY <2>1 DEF Leaves, HostInv, Layers
    <3>3. Machines'
      BY <2>1 DEF Leaves, Machines
    <3> QED
      BY <3>1, <3>2, <3>3 DEF HostInv
  <2> QED
    BY <2>1, <2>2, <2>3, FreshIs DEF Leaves, DevInv, Typed
<1> QED
  BY <1>1, <1>2, <1>3, <1>4, <1>5 DEF Self!SetUp

\* The actions of the test method (Part 5).
LEMMA TestKeeps ==
  ASSUME Position, HostInv, DevInv, UNCHANGED user_layer, Self!Test
  PROVE  Position' /\ HostInv' /\ DevInv'
<1>0. Typed
  BY DEF DevInv
<1>1. ASSUME Quiet, Teaches PROVE Position' /\ HostInv' /\ DevInv'
  BY <1>1, PositionKept, QuietHost, TaughtIs DEF Quiet
<1>2. ASSUME NEW v \in Self!VMs, Self!Enter(v) PROVE Position' /\ HostInv' /\ DevInv'
  <2>1. CASE Starts(v)
    BY <1>0, <1>2, <2>1, EnterIs, PositionKept, StartsHost, TaughtIs DEF Starts
  <2> QED
    BY <1>0, <1>1, <1>2, <2>1, EnterIs
<1>3. ASSUME NEW v \in Self!VMs, Self!wait_till_sshable(v) PROVE Position' /\ HostInv' /\ DevInv'
  BY <1>0, <1>3, ReachedIs, PositionKept, ReachedHost, TaughtIs DEF Reached
<1>4. CASE Self!TimesOut
  BY <1>0, <1>4, GivesUpIs, PositionKept, GivesUpHost, TaughtIs DEF GivesUp
<1> QED
  BY <1>0, <1>1, <1>2, <1>3, <1>4, Asks, Asserts, Works DEF Self!Test

\* What a passed case has said stays true while the machine goes on.
LEMMA PassKept ==
  ASSUME Self!PassIsTrue, Calm(Self!d, Self!d'), UNCHANGED <<case, phase, result>>
  PROVE  Self!PassIsTrue'
BY DEF Self!PassIsTrue, Self!Provisioned, Self!WithStatements, Calm, Onward

\* One step per action of __exit__ and tearDownLocal.
LEMMA TearDownKeeps ==
  ASSUME Position, HostInv, DevInv, UNCHANGED user_layer, Self!TearDown
  PROVE  Position' /\ HostInv' /\ DevInv'
<1>0. phase = "exit" => Waited = {} /\ Waited' \subseteq Self!VMs
  BY DEF Waited
<1>1. CASE Self!qemu_terminate
  <2> DEFINE v == Self!Last(owned)
  <2>1. /\ phase = "exit" /\ owned # <<>>
        /\ running' = running \ {v} /\ owned' = Self!Front(owned)
        /\ dev' = [dev EXCEPT ![v].boot = "none"]
        /\ Stays /\ UNCHANGED <<layer, meta_qemu, trouble>>
    BY <1>1 DEF Self!qemu_terminate, Self!testVars, Stays
  <2>2. Position'
    BY <2>1, PositionKept
  <2>3. owned' \in Seq(Self!VMs) /\ Owned \subseteq Owned' \union {v}
    BY <2>1, OwnedOf DEF HostInv, HostTypes
  <2>4. HostInv'
    BY <1>0, <2>1, <2>3 DEF Stays, HostInv, HostTypes, Layers, Machines
  <2>5. v \in Self!VMs
    <3>1. Len(owned) \in 1 .. Len(owned)
      BY <2>1 DEF HostInv, HostTypes
    <3> QED
      BY <3>1 DEF Self!Last, HostInv, HostTypes
  <2> HIDE DEF v
  <2>6. Typed' /\ Calm(Self!d, Self!d')
    <3>1. dev[v] \in Devs
      BY <2>5 DEF DevInv, Typed
    <3>2. [dev[v] EXCEPT !.boot = "none"] \in Devs /\ Calm(dev[v], [dev[v] EXCEPT !.boot = "none"])
      BY <3>1, FieldsIn
    <3> QED
      BY <2>1, <2>5, <3>2, PutIs, OnwardSame DEF Self!d, DevInv
  <2>7. DevInv'
    BY <2>1, <2>6, PassKept DEF Stays, DevInv, Learned
  <2> QED
    BY <2>2, <2>4, <2>7
<1>2. CASE Self!TerminateRaises /\ Self!WithStatements
  <2>1. /\ phase = "exit" /\ owned # <<>> /\ trouble' = TRUE
        /\ owned' = Self!Front(owned) /\ result' = "error"
        /\ UNCHANGED <<case, phase, at, meta_qemu, layer, running, dev>>
    BY <1>2 DEF Self!TerminateRaises
  <2>2. Position'
    BY <2>1 DEF Position, StepsAt
  <2>3. owned' \in Seq(Self!VMs)
    BY <2>1, OwnedOf DEF HostInv, HostTypes
  <2>4. HostInv'
    BY <2>1, <2>3 DEF HostInv, HostTypes, Layers, Machines
  <2>5. DevInv'
    BY <2>1 DEF DevInv, Typed, Learned, Self!PassIsTrue
  <2> QED
    BY <2>2, <2>4, <2>5
<1>3. CASE Self!TerminateRaises /\ ~Self!WithStatements
  <2>1. /\ phase = "exit" /\ Leaves /\ owned' = <<>> /\ meta_qemu' = FALSE /\ trouble' = TRUE
        /\ UNCHANGED <<layer, running, dev>>
    BY <1>3, LeaveIs DEF Self!TerminateRaises, Self!Leave
  <2>2. Position'
    BY <2>1, PositionKept
  <2>3. HostInv'
    <3>1. HostTypes'
      BY <2>1, NoneOwned, Zenon DEF HostInv, HostTypes
    <3>2. Layers'
      BY <2>1 DEF Leaves, HostInv, Layers
    <3>3. Machines'
      BY <2>1 DEF Leaves, Machines
    <3> QED
      BY <3>1, <3>2, <3>3 DEF HostInv
  <2> QED
    BY <2>1, <2>2, <2>3, FreshIs DEF Leaves, DevInv, Typed
<1>4. CASE Self!RemoveLayer
  <2>1. /\ phase = "exit" /\ Leaves /\ owned = <<>> /\ owned' = <<>> /\ meta_qemu' = FALSE
        /\ \/ layer' = (layer /\ ~meta_qemu) /\ UNCHANGED trouble
           \/ meta_qemu /\ UNCHANGED layer /\ trouble' = TRUE
        /\ UNCHANGED <<running, dev>>
    BY <1>4, LeaveIs DEF Self!RemoveLayer, Self!Leave
  <2>2. Position'
    BY <2>1, PositionKept
  <2>3. ~trouble => running = {}
    BY <1>0, <2>1, OwnedOf DEF HostInv, HostTypes, Machines
  <2>4. ~trouble' => ~trouble
    BY <2>1 DEF HostInv, HostTypes
  <2>5. HostTypes'
    BY <2>1 DEF HostInv, HostTypes
  <2>6. Layers'
    BY <2>1 DEF Leaves, HostInv, HostTypes, Layers
  <2>7. Machines'
    BY <2>1, <2>3, <2>4 DEF Leaves, Machines
  <2> QED
    BY <2>1, <2>2, <2>5, <2>6, <2>7, FreshIs DEF Leaves, DevInv, Typed, HostInv
<1> QED
  BY <1>1, <1>2, <1>3, <1>4 DEF Self!TearDown

-----------------------------------------------------------------------------
(* Part 8.  The theorems about the self tests.                              *)

\* One step per action of the machines.
LEMMA MachineIs ==
  ASSUME Typed, Self!Machine
  PROVE  /\ Typed' /\ Calm(Self!d, Self!d')
         /\ UNCHANGED <<user_layer, Self!testVars, Self!hostVars, trouble>>
<1>0. Self!d \in Devs /\ "primary" \in Self!VMs
  BY DevIs DEF Self!VMs
<1>1. ASSUME NEW v \in Self!VMs, Self!Boots(v)
      PROVE  /\ Typed' /\ Calm(Self!d, Self!d')
             /\ UNCHANGED <<Self!testVars, Self!hostVars, trouble>>
  <2>1. dev[v] \in Devs
    BY DEF Typed
  <2>2. PICK b \in {"booting", "net", "up"} :
          Self!Set(v, [dev[v] EXCEPT !.boot = b]) /\ dev[v].boot # "up"
    BY <1>1 DEF Self!Boots
  <2>3. [dev[v] EXCEPT !.boot = b] \in Devs /\ Calm(dev[v], [dev[v] EXCEPT !.boot = b])
    BY <2>1, FieldsIn
  <2> QED
    BY <2>2, <2>3, PutIs, OnwardSame DEF Self!Set, Self!d
<1>2. ASSUME NEW r \in Devs, Self!Set("primary", r), Calm(Self!d, r)
      PROVE  /\ Typed' /\ Calm(Self!d, Self!d')
             /\ UNCHANGED <<Self!testVars, Self!hostVars, trouble>>
  BY <1>0, <1>2, PutIs DEF Self!Set
<1>3. CASE Self!ServiceStarts
  BY <1>0, <1>2, <1>3, FieldsIn DEF Self!ServiceStarts, Self!Machine
<1>4. CASE Self!ServiceFetches
  BY <1>0, <1>2, <1>4, FieldsIn DEF Self!ServiceFetches, Self!Machine
<1>5. CASE Self!ServiceKilled
  BY <1>0, <1>2, <1>5, FieldsIn DEF Self!ServiceKilled, Self!Machine
<1>9. CASE Self!ServiceRestarts
  BY <1>0, <1>2, <1>9, FieldsIn DEF Self!ServiceRestarts, Self!Machine
<1>6. CASE Self!CreateToken
  BY <1>0, <1>2, <1>6, FieldsIn DEF Self!CreateToken, Self!Machine
<1>7. CASE Self!ImportKeys
  BY <1>0, <1>2, <1>7, FieldsIn DEF Self!ImportKeys, Self!Machine
<1>8. CASE Self!SecondaryRegisters
  BY <1>0, <1>2, <1>8, FieldsIn DEF Self!SecondaryRegisters, Self!Machine
<1> QED
  BY <1>1, <1>3, <1>4, <1>5, <1>6, <1>7, <1>8, <1>9 DEF Self!Machine

\* Where the process is, what the host holds, what has been learned of the machine.
SelfInv == Position /\ HostInv /\ DevInv

LEMMA SelfInit == Self!Init => SelfInv
<1> SUFFICES ASSUME Self!Init PROVE SelfInv
    OBVIOUS
<1>1. Position
  BY DEF Self!Init, Position
<1>2. HostInv
  <2>1. /\ user_layer \in BOOLEAN /\ layer = user_layer /\ meta_qemu = FALSE /\ trouble = FALSE
        /\ owned = <<>> /\ running = {} /\ phase = "idle"
    BY DEF Self!Init
  <2>2. HostTypes
    BY <2>1, NoneOwned, Zenon DEF HostTypes
  <2>3. Layers
    BY <2>1 DEF Layers
  <2>4. Machines
    BY <2>1 DEF Machines
  <2> QED
    BY <2>2, <2>3, <2>4 DEF HostInv
<1>3. DevInv
  <2>1. Self!Off(Self!NoImage) \in Devs
    BY DEF Self!Off, Self!NoImage, Devs, Self!ImageKinds
  <2>2. Typed
    BY <2>1 DEF Self!Init, Typed
  <2> QED
    BY <2>2 DEF Self!Init, DevInv, Learned, Self!PassIsTrue
<1> QED
  BY <1>1, <1>2, <1>3 DEF SelfInv

LEMMA SelfStep == SelfInv /\ [Self!Next]_(Self!vars) => SelfInv'
<1> SUFFICES ASSUME SelfInv, [Self!Next]_(Self!vars) PROVE SelfInv'
    OBVIOUS
<1> USE DEF SelfInv
<1>1. ASSUME UNCHANGED <<user_layer, Self!testVars, Self!hostVars, trouble>>,
             Typed', Calm(Self!d, Self!d')
      PROVE  SelfInv'
  <2>1. Stays /\ UNCHANGED <<user_layer, layer, meta_qemu, running, owned, trouble>>
    BY <1>1 DEF Self!testVars, Self!hostVars, Stays
  <2>2. Position'
    BY <2>1, PositionKept
  <2>3. HostInv'
    BY <2>1 DEF Stays, HostInv, HostTypes, Layers, Machines, Owned, Waited, StepsAt
  <2>4. Learned'
    <3>1. case' = case /\ phase' = phase /\ at' = at /\ at \in Nat
      BY <2>1 DEF Stays, Position
    <3>2. phase = "test" /\ case = "hsm" /\ at > 5 => Self!d'.token = "keys"
      BY <1>1 DEF DevInv, Learned, Calm, Onward
    <3>3. phase = "test" /\ case = "resource" /\ at > 1 => Self!d'.killed \/ Self!d'.restarted
      BY <1>1 DEF DevInv, Learned, Calm, Onward
    <3> QED
      BY <3>1, <3>2, <3>3 DEF Learned
  <2> QED
    BY <1>1, <2>1, <2>2, <2>3, <2>4, PassKept DEF Stays, DevInv
<1>2. CASE UNCHANGED Self!vars
  BY <1>1, <1>2, SameDev DEF Self!vars, DevInv
<1>3. CASE Self!Machine
  BY <1>1, <1>3, MachineIs DEF DevInv
<1>4. CASE Self!Program
  BY <1>4, StartCaseKeeps, SetUpKeeps, TestKeeps, TearDownKeeps DEF Self!Program
<1> QED
  BY <1>2, <1>3, <1>4 DEF Self!Next, Self!Finished

\* The invariant holds of every behaviour, whatever cases are run and on whatever images.
THEOREM TestsInvariant == TestsSpec => []SelfInv
BY SelfInit, SelfStep, Parts, PTL DEF Self!Spec

\* Nothing of a case is left on the host, but for a set-up or a clean-up that raised
\* (setUpLocal, __exit__, tearDownLocal).
THEOREM CleansUp == TestsSpec => []CleanedUp
<1>1. SelfInv => CleanedUp
  <2> SUFFICES ASSUME SelfInv PROVE CleanedUp
      OBVIOUS
  <2>1. ASSUME phase = "idle", ~trouble PROVE running = {} /\ layer = user_layer
    <3>1. Owned = {} /\ Waited = {}
      BY <2>1, OwnedOf DEF SelfInv, HostInv, HostTypes, Machines, Waited
    <3>2. running = {}
      BY <2>1, <3>1 DEF SelfInv, HostInv, Machines
    <3>3. layer = user_layer
      BY <2>1 DEF SelfInv, HostInv, HostTypes, Layers
    <3> QED
      BY <3>2, <3>3
  <2>2. user_layer => layer
    BY DEF SelfInv, HostInv, Layers
  <2> QED
    BY <2>1, <2>2 DEF CleanedUp, Self!CleanedUp
<1> QED
  BY <1>1, TestsInvariant, PTL

\* A case that has passed has found out what it says of its machine (the test methods).
THEOREM PassedIsTrue == TestsSpec => []PassIsTrue
<1>1. SelfInv => PassIsTrue
  BY DEF SelfInv, DevInv, PassIsTrue
<1> QED
  BY <1>1, TestsInvariant, PTL
=============================================================================
