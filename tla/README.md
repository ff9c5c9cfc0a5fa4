# Verification of meta-updater

meta-updater is a Yocto layer: BitBake classes that turn a root filesystem into an OSTree commit,
publish it to an Uptane backend and build an image that boots it; the pieces that run on the device
(patches to libostree, initramfs modules, boot-time services); and scripts and self tests for the
host. This directory models the parts of it that keep state across steps, runs or failures, checks
them with TLC and proves the main results with TLAPS.

Paths below are relative to the repository (`src/` in `PROJECT.json`).

## 1. Inventory

| Component | State | Operations | Hard part |
|---|---|---|---|
| Publishing tasks, `classes/image_types_ostree.bbclass` (+ `sota.bbclass`) | `OSTREE_REPO` and its branch heads, `WORKDIR/ostree_manifest`, `GARAGE_SIGN_REPO`, two lock files, the object store and the targets role of the backend | `ostreecommit`, `ostreepush`, `garagesign`, `garagecheck` | tasks of several images run at once, several build machines share one backend, pushes are retried, tasks are killed and run again on their own |
| OTA image task, `classes/image_types_ota.bbclass` | `OTA_SYSROOT` | pull by hash, deploy, make `/boot/loader` a directory for systemd-boot, fill `/var` | reads `OSTREE_REPO` without its lock |
| Root filesystem for OSTree, `do_image_ostree`, `image_types_ostree_selinux.bbclass` | `OSTREE_ROOTFS` | move `/etc`, `/var`, `/home`, make the `sysroot` links | order of rewriting, error paths of shell functions |
| Image layout plugins, `scripts/lib/wic/plugins/source/` | staging directory, hard links, `boot.img`, deploy directories | prepare an ESP, take the ota-ext4 file | builds of different ages, state left by an earlier partition or run, sizes |
| Boot loader configuration, `recipes-extended/ostree/ostree/0001`, `0002` | `/boot/loader` (link or directory), `/boot/loader.{0,1}`, `/boot/loader.tmp`, `/boot/boot`, `/ostree/boot.{0,1}` | load, write entries, write config, prepare, sync, swap, cleanup | crash and power failure between any two steps |
| Unified kernel images, patch `0003` | entries of `/boot/loader/entries`, files below `/boot/ostree` | install kernel or UKI, write entry | entries written again by another libostree, files shared by checksum |
| Composefs module, `recipes-core/initrdscripts/initramfs-framework/composefs` | fs-verity of every file, the feature of the file system, a lock file | decide, enable, report | interrupted boots, failing files, stale markers |
| Composefs keys, `recipes-extended/ostree/gen-cfs-keys.inc`, `classes/cfs-*.bbclass` | two key files | generate | two files, interrupted builds, one lock for each machine |
| Labels of `/var`, `dynamic-layers/selinux/.../ostree-var-relabel` | labels, `/var/.selinux-policy-checksum` | compare, relabel, stamp | updates, rollbacks and power failures in between |
| Linker cache, `recipes-extended/systemd/systemd/ostree-ldconfig-update` | `/etc/ld.so.cache`, a temporary copy, the configuration | compare, copy, rename, label, scan | power failure, the merge of `/etc` |
| Software HSM token, `recipes-support/softhsm-testtoken/files/createtoken.sh` | token, keys | initialise, import | files that come while it looks, a restart in between |
| QEMU launcher, `scripts/qemucommand.py`, `run-qemu-ota` | ports, overlay and the copies beside it, a module-level table | choose loader, image and ports, build the command | rebuilds, ports raced for, a table that is changed |
| Dependency listing, `scripts/find_dependencies.py` | list of packages, two-part output file | walk, print | lookups that fail in the middle |
| Self tests, `lib/oeqa/selftest/cases/` | layer configuration, running machines | set up, test, tear down | a machine that boots while it is asked, exceptions in between |
| `resolvconf-clean`, `init.sh`, sanity checks, offline fs-verity script, aktualizr recipes, machine classes, manifest | little or none | | not modelled, section 7 |

How they interact: `do_image_ostree` produces the tree that `ostreecommit` commits, signed with the
composefs keys; the manifest file carries the hash to `garagesign`, `garagecheck` and the OTA task;
the OTA task leaves the loader directory, `/ostree/boot.N`, `/var` and the file-system features with
which the device starts, and wic joins the boot directory and the root file system to a disk, which
the QEMU launcher and the self tests boot. On the device an update (the client is not in this
repository) makes libostree write a deployment and its boot entry and swap the loader configuration;
at the next boot the initramfs enables fs-verity before `ostree-prepare-root` mounts the deployment,
and then the relabel, linker-cache and token services run.

What has to hold, by component:

* publishing: a target that is published stays, names an uploaded commit of the image's own root
  filesystem, and every task ends;
* root file system, OTA image, disk: nothing is lost silently; the image deploys its own commit and
  the entries on its ESP are those of its root;
* boot loader: the firmware finds the complete old or the complete new list at every instant, each
  entry starts its own image, and an interrupted update does not block a later one where there was
  a loader (where there was none it may for ever: run `bootfirst`, section 5);
* composefs: a boot reported as good left no file of its deployment without fs-verity, unless the
  error was lost, and images verify under the key installed with them;
* `/var`: after a service that succeeded, labels are those of the booted policy;
* linker cache, token: after an interruption a later run repairs what is missing, up to the exceptions
  that section 5 lists;
* launcher: an overlay keeps the image below it, a port leads to its own machine;
* listing: a finished file is complete;
* self tests: a pass is true, every case cleans up, every wait ends.

`PROJECT.json` lists every component with its status, and each hazard at its line with the
properties that cover it, or the reason why none does.

## 2. Plan

Done: `TargetRegistry`, `PublishPipeline`; `AtomicSwitch`, `BootSwap`, `UkiEntry`; `VarRelabel`;
`ComposefsVerity`; `LdconfigUpdate`; `HsmToken`, `CfsKeys`; `RootfsTransform`, `WicImage`, `QemuLaunch`;
`DependencyClosure`, `FindDependencies`; `SelfTests`; the compositions `Boot`, `Build`, `Tests`; and the
proofs of section 6, of every component.

Left: a lock-less reader of the boot version as a second process of `BootSwap`.

## 3. Modules

Abstract specifications and the detailed ones that implement them, each checked as a temporal
property: `TargetRegistry` by `PublishPipeline`, `AtomicSwitch` by `BootSwap`, `DependencyClosure` by
`FindDependencies`. Operators such as `KnownAgain` or `CopyInPlace` that stand before a definition and
are used by none are faulty variants of it, against which the properties were tried; `PROJECT.json`
lists them under "mutants".

`Boot`, `Build` and `Tests` put several components into one specification. Those components work on
files that the others never look at, so they share no variable, an interleaving of two would show
nothing new, and a behaviour is one of a single part, chosen at the start; the others rest in an
initial state. `Boot` is `BootSwap` and `UkiEntry`; `Build` is `FindDependencies`, `CfsKeys`,
`RootfsTransform` and `WicImage`, `Tests` is `HsmToken` and `SelfTests`, with the assumptions of each. `MCBoot`,
`MCBuild` and `MCSelfTests` only give their constants values.

### `PublishPipeline`

A *job* is one image in one build directory. `pc` is its next command, `task` the task it is in (or
the first not done). One action per command that can be observed by another job; bitbake's locks are
actions of their own because they are what a job waits for.

| Code | Model |
|---|---|
| `do_image_ostreecommit[lockfiles]`, `do_image_ostreepush[lockfiles]` | `ostreeLock`, `LockRepo` |
| `ostree commit --skip-if-unchanged` | `Unchanged`, `Commit` |
| `echo -n ... > ostree_manifest` | `WriteManifest` |
| `IMAGE_CMD:ota` `ostree_target_hash`, pull-local, deploy | `OtaHash`, `BuildOta` |
| `garage-push --ref=${OSTREE_BRANCHNAME}` | `GaragePush` (sends the head, whoever committed it) |
| `do_image_garagesign[lockfiles]` | `signLock`, `LockSign` |
| `rm -rf`, `init`, expiry check | `RemoveDir`, `InitDir`, `RejectExpiry` |
| loop over `seq ${GARAGE_PUSH_RETRIES}` | `Pull`, `Add`, `Sign`, `PushAccepted`, `PushRefused`, `PushLost`, `AfterFailure` |
| the final `rm -rf` and `bbfatal` | `Cleanup` |
| `garage-check` | `Check` |
| `set -e`, kills | `Stop`, `Abandon` (locks go with the process, files stay) |
| backend (external) | `Accepts`, `Store`, `Deliver` |

A commit hash is a member of `Hashes` and `treeOf` says which tree it holds, so two commits of one
tree on different branches are different. A push whose reply is lost goes to `inflight` and may
arrive at any time later, or never; this covers the push that was stored and the push that was
not. The backend takes a role only from a client that has seen its present version, the rule because
of which the loop pulls again before each attempt.

Left out, since nothing that is modelled reads them: the summary (`ostree summary -u`), the commit
message and metadata, `GARAGE_CUSTOMIZE_TARGET` (it can only fail: `Stop`), the `repo init` that is
idempotent. All jobs start with one tree; builds change it.

`SignLockAssumption` is what the recipe's defaults give: both `GARAGE_SIGN_REPO` and the lock are
below `DEPLOY_DIR_IMAGE`. A configuration that moves `GARAGE_SIGN_REPO` to a directory shared by
several `DEPLOY_DIR_IMAGE`s breaks it, and with it `SignDirPrivate`.

### `TargetRegistry`

The backend seen from outside: a put replaces the target of the same name and version and leaves
all others alone, in one step.

### `RootfsTransform`

`do_image_ostree` on a tree whose paths are absent, empty, hold data or are links. `Steps` is the
order in which the code comes to the directories; `HelperFails` and `Helper` are the two ways through
`ostree_rmdir_helper` (with `bbfatal` and with `bbwarn`), `Clear`, `ClearVar` and `Move` the places that
call it, `IMAGE_CMD_ota` the copies into `/var`. `ClearVar` does nothing: `find -exec` cannot run a shell
function. `Retry` is a changed recipe, from an empty directory (`cleandirs`). `RootfsAssumption`: the directories of
`/var` are not among those that are moved, and `home` is. Left out is a copy into `/var` that fails or stops
half way (`|| true`, `image_types_ota.bbclass:91,97,100`): data would be lost there, named only by `cp`'s own
message, and the link of `home` could dangle.

### `WicImage`

Builds are numbered. `ImageOta` and `ImageOtaExt4` leave boot directory and root file system of their
build, `StartWic` to `Assemble` are one run of wic, `Complete` the copy to the deploy directory, and
any task may fail (`TaskFails`). `hdd` is the staging directory all ESPs share; `linked` says which of its
files are hard links into `OTA_BOOT`, where opening a file for writing changes both. `install_task`
is the class attribute, `boot_img` the one name for all partitions. `SetupAssumption` says that a list of boot
files names each destination once and none of the loader's own files; then the order in which they are
installed makes no difference, and `install_task` is a set. wic copies the sources into
the disk only when every partition is prepared, which is why a second ESP must not get as far as that.
`Wanted` is what a partition asks for by its own list or the general variable; the plugin looks at the general one
only (`bootimg_sota_efi.py:115,183`), so a list of the partition's own is ignored where that is unset or empty
(`Ignored`).
mkfs.vfat refuses to create a file that exists; ota-ext4 is always among the image types, which
`sota.bbclass` sees to.

### `BootSwap` and `AtomicSwitch`

`Load`, `Begin`, then one action for each step of `write_deployments_bootswap` in the order of the
patched code, up to `Cleanup`. `dirs` holds the three loader directories, each abstracted to the
kernel and the boot version its entries name, its `ostree_bootversion` and whether it has a
`loader.conf`. `dirty` is what has been written since the last `full_system_sync`; `PowerFails`
may lose any part of it, `Killed` loses nothing. The loader starts as a link, as the directory
`image_types_ota.bbclass` makes, as a bare directory with only a `loader.conf`, or not at all.
Updates are serialised: libostree holds the sysroot lock. What libostree does around the patched
functions (installing kernels, swapping `boot.N`, cleanup) is external, modelled from how the
patched functions rely on it. `Lists` are lists of deployments: whether an older deployment stays in
a list is the caller's choice, so a list is a model value.

The exchange is modelled as atomic. The commit message of `0001` says it is not on file systems
without `RENAME_EXCHANGE`; that fallback is not modelled. `Rename` fails, and the update with it, when
the name it wants is in use (`RENAME_NOREPLACE`).

### `UkiEntry`

What `install_deployment_kernel` writes for each deployment of a list. `Patched` are the images whose
libostree has patch `0003`; the libostree of the booted image writes all entries. A file is a checksum,
a name and a content, and is not installed again when the checksum's directory has one of the name.
A booted libostree without the patch rewrites entries with a `uki` too: it adds `linux`, and keeps the key
it does not know.
`WriteDeployments` ends at any of its three points (files, entries, cleanup). libostree keeps the new
and the booted deployment.

### `ComposefsVerity`

One boot of `composefs_ensure_fsverity`: the decision from three markers (lock file, composefs
file of the booted deployment, `os-release` of each deployment), the enabling file by file, the
lock file's removal. The errors travel through a file that nobody checks: `mktemp` may fail (`MakeRecord`), so may
`find` (`FindFails`), the line for an error (`FileFails`) and the count (`CountFails`); `lost` are the files that the
script therefore knows nothing of. `Update` is the update client: it adds a deployment's objects, with or without
fs-verity, only while the system is up, and only an unsigned deployment or one whose composefs file
is sealed gets there. The override of the mode on the kernel command line and the display of progress
are left out.

### `CfsKeys`

Each task of a machine takes its machine's lock, runs `gen_cfs_keys`, releases the lock and then uses
a key file. A build may be interrupted anywhere (`Interrupted`), also while it writes a file, which
then exists and is empty. `local x="$(openssl ...)"` hides the status of `openssl`, so a failing one leaves an empty
secret key, which the signing task stumbles on, or a public key that stays as it was. Both tasks have no stamp,
so each build runs them all. A key counts as used (`Used`) once it went into any image of any build.

### `VarRelabel`

One boot of the service: `Skip` (both early exits), `StartRelabel`, `Relabel(f)` for each file that
`restorecon` visits, `RelabelFails`, `Truncate` and `WriteStamp` (the two halves of `echo >`),
and `PowerOff` anywhere. The deployment that is booted changes freely between boots. `Use` is the
running system, which creates files with labels of its own policy.

### `LdconfigUpdate`

The first boot of a deployment: the comparison of caches and configurations, the copy to a temporary
file, the rename, the label, or the scan by `ldconfig`. A cache is the deployment whose libraries it lists
and the configuration it was made from. Each of `cp`, `mv`, `restorecon` and `ldconfig -X` may fail. Nothing
syncs a renamed cache (`synced`), so `PowerFails`, at any time, also after `/etc` is marked, may leave it empty.
systemd-update-done is only ordered after the service and marks `/etc` when that has failed, too. `Update`
makes the new `/etc` as libostree merges it: what the user's `/etc` did not change comes from the new
image. The image has SELinux, and no libraries lie in directories that the user can write.

### `HsmToken`

The script between `Look` and the last `Import`, its restarts by systemd, power failures, and the
copies of `aktualizr-cert-provider`, which come in any order and are visible half done. The script
runs without `set -e`: an import that finds no whole file goes on to the next. Failing calls of
`softhsm2-util` and `pkcs11-tool` with whole files are left out.

### `QemuLaunch`

`Start` to `Run` are the constructor and `command_line` of a launch with its options; `Bind`, `QemuExits` and
`Stop` its machine; `Build`, `Clean` and `DeleteOverlay` what happens beside it. `EXTENSIONS` is one table for
each process. Two assumptions: one launch at a time uses an overlay (QEMU locks it), and within a
process the next launch follows when the previous machine is up (`wait_for_boot_time`). Of
`ChooseImage` the image is the one chosen by name for `qemux86-64`: an explicit path
(`qemucommand.py:103-104`) is used as it is, whatever its extension, and other machines have a table entry
that no launch changes.

### `FindDependencies` and `DependencyClosure`

A *world* is what bitbake would answer: providers, `DEPENDS` with a name possibly twice, number of
repositories. The recursion is a stack of frames with a first loop that lists and a second that
descends; `scopes` and `listed` are the two parts of the file. `DependencyClosure` discovers one
needed name at a time and finishes when none is missing; the script refines it. In the run `DEPENDS` have no
cycles (`WorldsAreAcyclic` in `MCBuild`), which bitbake refuses; what is proved of the list is about graphs with
cycles, too. `Subtree` says what the scopes of a finished file must be: the graph unfolded from `Root`, without a
stack.

### `SelfTests`

A case is a list of steps taken from `setUpLocal` and the test method; the machine boots and works
by itself between any two of them, and its image may be wrong in what the case is to find out.
ssh is refused, hangs or is answered, depending on how far the machine is. `SetUpRaises`, `TimesOut` and
`TerminateRaises` are the exceptions that leave a case at once, as does `Enter` when the launcher raises. The
outcome of `set-property` and `restart` is not looked at (`Unlimit`, `Restart`), and systemd restarts aktualizr
by itself (`ServiceRestarts`). Two commands have no time limit: the ptests and aktualizr-cert-provider (`NoLimit`). `owned` is what the clean-up of the case will
stop: the machine of `setUpLocal`, or those whose `with` statement has been entered. Time is left out: during a delay the
machine takes any number of steps.

## 4. Runs

| Run | Module | Shows |
|---|---|---|
| `shared` | `MCPublishPipeline` | images of one machine, everything shared: `HoldersWork`, `SignDirPrivate`, `OtaIsOwnTree`, `DoneIsPublished`, `TasksEnd` |
| `machines` | `MCPublishPipeline` | two machines, one backend, lost and late pushes: `SignedIsRegistered`, `RetryExplained`, `SignedIsUploaded`, `PublishesAtomically` |
| `build` | `MCBuild` (`Build`) | recipes, keys, root file system and disk of an image: `FileComplete`, `FindsClosure`, `Outcome`; `Verifies`, `KeysStay`; `LostReported`, `LinksResolve`; `BootMatchesRoot`, `EspContent`, `BlocksFit` |
| `boot` | `MCBoot` (`Boot`) | every start, kill and power failure: `Boots`, `SwitchesAtomically`, `KeepsLoaderConf`, `UpdatesSucceed`; entries with and without UKI: `EntryBoots`, `EntryKept` |
| `bootfirst` | `MCBootSwap` | **violation** of `DirOnlyWithoutSymlinks` |
| `verity` | `MCComposefsVerity` | a signed image and its updates, a system from before composefs: `InterruptedIsResumed`, `EnabledOrReported` |
| `veritypartial` | `MCComposefsVerity` | **violation** of `PartialIsHandled` |
| `labels` | `MCVarRelabel` | `RepeatedBootMatches` |
| `varrollback` | `MCVarRelabel` | **violation** of `VarMatchesPolicy` |
| `cache` | `MCLdconfigUpdate` | `CacheFits`, `ReadersSafe`, `ComesUp` |
| `launch` | `MCQemuLaunch` | `OverlayKeepsBase`, `RootfsFitsLoader`, `PortIsOwn` |
| `tests` | `MCSelfTests` (`Tests`) | any two of ten cases: `CleanedUp`, `PassIsTrue`, `TestsEnd`; a token and its keys: `AlreadyInitialized`, `KeysKept`, `Provides` |

Bounds. `shared` has four jobs: two that build alike, one with both expiry settings, one without
credentials. Two starts, by any two of them, allow a build beside another, or a build and one task
that is run again, one fault a kill anywhere; a third start is beyond TLC's reach here. So at most two jobs
meet at a lock in `TasksEnd`; that more cannot wait in a circle is what `HoldersWork` says, which is proved for any
number of jobs. `machines` has two jobs, three hashes and three starts, so
that a role moves twice under a job; three faults allow both replies of a job to be lost and a third
failure after them, two retries one refused push and one that succeeds. Hashes are symmetric there:
nothing tells one from another, and all that is checked is about safety. Two trees are what
`--skip-if-unchanged` tells apart. Two kernels and three lists give updates with and without a new
boot version; three updates and two stops allow an interrupted update followed by an interrupted
update followed by a good one, and go through both boot versions. Five deploys on four images go from
a libostree without the patch to one with it and back. Three policies and five boots allow
update, rollback and a second update; two files are a `/var` that is half done. Three deployments
with a shared object allow a pull of what another deployment already brought; of the three of
`cache`, two share a configuration and one has no cache, and two edits make and undo a change. Three
builds allow an old, an interrupted and a good one; two images share a machine's keys. Recipes are
three with two dependencies each, plus a virtual provider, a host package and a build tool: enough for
diamonds, for a name that comes twice and for three levels. Three launches in two processes meet on
two ports and one overlay over two builds and a deletion. Two cases in a row show what the first
leaves to the second; two polls are a loop that goes round and gives up. Every bound is a constant in a
guard (`MaxStarts`, `MaxFaults`, `MaxUpdates`, `MaxStops`, `MaxDeploys`, `MaxBoots`, `MaxEdits`, `MaxBuilds`,
`MaxDeletes`, `Runs`, `Polls`).

Deadlock is not checked where the bounds let the system stop: all starts, updates, boots or builds used
up, or the script at its end. `tests` checks it: there a device or a test can always go on.

Fairness. `PublishPipeline!FairSpec` has weak fairness of `Step(j)` for each job: bitbake runs
every task it started to its end and hands a free lock to a waiter. A job waiting for a lock competes
with finitely many others, because `MaxStarts` bounds restarts, so weak fairness is enough. Starts,
faults and the delivery of late pushes are not fair. `BootSpec` has weak fairness of
`Step`: a running update is not delayed for ever; nothing forces an update to begin and stops may
happen up to the bound. `LdconfigUpdate` has it of `PowerOn`, `Service` and `update_done`: systemd starts
and finishes the unit. `HsmToken` has it of `Script`: `Restart=on-failure`, whose `RestartSec=10` stays below the start limit;
nobody has to copy a key. `FindDependencies` has it of `Next`, one thread that blocks on nothing, and
`SelfTests` of `Program` outside `NoLimit`: the machine may be stuck for ever, which is what `TestsEnd` is about,
and the two commands without a limit may never return, which it excepts.

## 5. What disagrees with the repository's own words

Three disagreements are runs:

* `bootfirst`: a first update of a sysroot without `boot/loader` makes the link `boot/boot` to find
  out if there are symbolic links. If that update is interrupted, the next one gets `EEXIST`, which
  the code treats like "no links" although the comment asks only that question. It prepares a
  directory, cannot exchange it with a loader that does not exist, and so does every update after it.
* `varrollback`: the stamp is left in place while a relabel runs. An interrupted or failed relabel
  under B followed by a rollback to A finds A's checksum and is skipped, with part of `/var` labelled
  by B; the recipe says rollbacks are covered.
* `veritypartial`: an enabling that failed on one object removes the lock file; at the next boot all
  markers are in place, nothing is done and the status is good, although the comment says a
  partially enabled repository is handled.

Others are in the models, where the properties say exactly what remains true:

* `scripts/qemucommand.py:22-27`, `run-qemu-ota:78`: a port is free when it is tested and told, and
  may be another process's when QEMU binds it (`PortIsOwn` excepts other processes).
* `scripts/qemucommand.py:57-60`: a launch without U-Boot changes the table of the module, so a later
  launch of the process with U-Boot takes the ext4 file too (`RootfsFitsLoader`).
* `scripts/qemucommand.py:165`, `run-qemu-ota:23`: `--efi` with `--uboot-enable=no` leaves `-kernel` as
  `None` (`Runnable`). Copies beside a deleted overlay stay, and a new overlay is made on them (`MustCopy`).
* `lib/oeqa/selftest/cases/updater_qemux86_64.py:517-519`: the test for no systemd also passes when ssh
  fails (`NoSystemctl`); `wait_till_sshable` (:356-358) returns after a refusal, so `was_successfully_booted`
  is what catches that.
* `lib/oeqa/selftest/cases/updater_raspberrypi.py:18-21`: two variables are annotated, not assigned, so
  that `setUpLocal` always raises.
* `scripts/find_dependencies.py:105`: the message for several repositories uses a variable that does
  not exist, so the script ends with a `NameError` (`print_package_fails`).
* `recipes-extended/systemd/systemd/ostree-ldconfig-update:49-52`: power lost between the rename and
  `restorecon` leaves the cache with a wrong label: the next run finds equal caches and is done. `CacheFits`
  is about content only. `:49,63`: a renamed cache that was not yet on the disk when the power failed may be
  empty, and a failing `ldconfig -X` leaves the old one; as `/etc` is marked in both cases, no later boot repairs
  that (the exceptions of `CacheFits`).
* `recipes-core/initrdscripts/initramfs-framework/composefs:90,93,115`: a failing `mktemp`, `find` or `grep -c` makes
  the script report files as sealed that are not (the exception `lost` of `EnabledOrReported`).
* `scripts/lib/wic/plugins/source/bootimg_sota_efi.py:183`: boot files listed for a partition alone are not
  installed when `IMAGE_EFI_BOOT_FILES` is empty (the exception `Ignored` of `EspContent`).
* `lib/oeqa/selftest/cases/updater_qemux86_64.py:485-489`: the memory limit may still be in force, and aktualizr be
  killed again, after the test has passed (the exception of `PassIsTrue`). `updater_qemux86_64_ptest.py:36`: the ptests
  run without a time limit (`NoLimit`).
* `recipes-support/softhsm-testtoken/files/createtoken.sh:4,8,14`: a token made from half a file, or
  before the power failed, is "already initialized" ever after (the exceptions of `AlreadyInitialized` and
  `Provides`). An ECU key that comes after the token is made is never imported (`:3-6,22`).
* `recipes-extended/ostree/gen-cfs-keys.inc:34,59`: an empty public key "already exists" (the exception of
  `Verifies`), and machines that share the keys do not share the lock: `Verifies` and `KeysStay` are
  checked and proved for one machine.
* `classes/image_types_ostree.bbclass:57-58`: `find -exec` of a shell function removes nothing, so what
  else is in `/var` is committed (`ClearVar`; `LostReported` counts it as kept).

## 6. Proofs

`PublishPipelineProofs`, for any number of jobs, repositories, branches, machines, and for any retry
and fault bounds, from the assumptions in `PublishPipeline`:

* `OstreeInv` says which lock is held at which command, that a head is a used hash, and that after
  `ostreecommit` the manifest names a commit of the job's own tree. It is inductive on its own
  (`OstreeInvariant`) and gives `OtaDeploysOwnTree`; with it `LocksAreNotNested`. Locks are part of it because `WriteManifest` reads
  the head one step after `Commit`: only the lock makes it the same.
* `SignInv` adds the signing directory: whoever is between `clean` and `cleanup` holds its lock, so two
  such jobs have different locks and hence, by `SignLockAssumption`, different directories; what is in
  the directory at each command of the loop; that the role in the directory and each request in flight
  is the backend's role of the version it is based on with the job's own entry put in - as long as that
  version is still the present one. This last part is why the refinement holds: an accepted push is
  based on the present version, so it is one put (`PublishingIsAtomic`). `SigningIsPrivate` follows
  too.
* `RetryInv` bounds failures by changes of the role and lost replies. `pull` sees the present
  version, so a refusal after it means that the version has moved since
  (`FailuresAreExplained`).
* `PublishedStays` adds that puts of other jobs have another key: commits of different hashes have
  different versions unless an override equals a hash, the theorem's one extra assumption
  (`VersionsApart`). The runs have no overrides; the proofs cover them.
* `DonePublishes` joins three facts: the manifest names a commit of the job's own tree (`OstreeInv`), the
  role keeps the target (`PublishedStays`), and `garagecheck` has found the commit in the object store,
  which only grows (`CheckedInv`).
* `HeadIsUploaded` needs `BranchesApart`, that no two jobs share a branch of a repository, for the head
  of the branch is sent and not the hash in the manifest.

`VarRelabelProofs` proves `TypeCorrect` and `RepeatedBoot`. `RepeatedBootMatches` speaks only of the
end of a boot; the induction needs what the stamp knows when nothing else was booted, what a running
boot knows, and how far the relabel has come.

`LdconfigUpdateProofs` proves `CacheIsOwn` and `NoPartialCache`, for any deployments, configurations,
faults and edits. Its `Progress` adds to the two properties why the merge does no harm: a deployment
marked as updated has its own cache, or one of the two excepted failures is the last that happened to it; the image's cache is installed only where the configuration is
the image's; the temporary file is whole at the rename.

`TestsProofs`:

* `FoundIsImported`, `TokenStays` and `FromPair`, for any number of power failures. `Progress` ties what was
  found to what is there now (files only grow), says that the token is there exactly from `InitToken` on, and
  that each import has added its file unless it was cut.
* `CleansUp` and `PassedIsTrue`, for any selection of the cases, any number of runs and any images. The
  invariant (`SelfInv`) says where the process is in its case; what the host holds: a machine that runs is
  owned by the case, or is the one whose ssh port the case is waiting for, and the layer is there because of the
  user or of this case; and what has been learned of the machine at each step of a case. The last is needed because
  a passed case speaks of more than its last step: the keys were seen two steps earlier, and aktualizr was
  restarted by a command nobody looks at, or by systemd. What was seen stays true (`Onward`) whatever the machine does in between. The
  lists of steps enter only through their form (`SetUpOf`, `TestOf`), which each of the ten cases has.

`BootProofs`, for any lists of deployments and kernels, and any number of updates, kills and power
failures:

* `Invariant` has seven parts (`IInv`): the types; that there is one loader and the version it is read
  by is the one its entries have; that a process knows the current version, also one that was killed;
  that nothing unsynced is what the firmware finds; what each step of the update has already built;
  whether it works on links or directories; and where `loader.conf` is. `LoaderBoots`, `Refinement`
  (every step is one of `AtomicSwitch` or changes nothing the firmware sees) and `LoaderConfStays` follow.
  The third and fourth part are the reason: a power failure may lose anything that is dirty, and nothing
  dirty is ever in sight.
* `EntriesBoot` and `EntriesKept`, for any images and whichever libostree writes the entries. The invariant (`EntryInv`): a file's directory is the checksum
  of its content, so a file that is there need not be installed again, and the file for each deployment
  that is kept is there.

`ComposefsVerityProofs`, for any deployments, objects and kinds of device:

* `Reported` has no assumption on the device: of a boot that enabled verity and returned 0, no
  deployment on disk is left without it, but for the files whose error was lost. What is left to do and what failed is tracked through each phase.
* `Resumed` needs what the markers mean while nothing failed: a sealed composefs file or `os-release` says that
  its deployment's objects are sealed, unless the lock file is there. That holds for devices that are
  `Sealable` and for deployments with an `os-release` of their own. It does not hold for an update client
  that seals on a system that began unsigned: TLC shows the composefs file of such a deployment sealed
  beside an object that an older deployment brought without verity.

`QemuLaunchProofs`, for any launches, processes, options and ports, and any number of builds and
deletions: `TypeCorrect`; `BaseIsKept`, because one launch at a time uses the overlay and the image below
a new one is there before it; `ExtensionFits`, because the table of a process turns to ext4 for good; `OwnPort`,
because a port that was told is bound by nobody of the same process.

`BuildProofs`, from the assumptions in `Build`:

* `ImagesVerify` and `KeysAreKept` for one machine (`OneMachine`) with any number of images and builds. The
  invariant: the lock has one holder, who alone is in `gen_cfs_keys`; the secret key is written first;
  whoever writes has seen that there is no public key; what the tasks of this build or an earlier one have taken
  is what is there.
* `LossIsReported` and `LinksAreWhole`, for any directories that are moved. The invariant goes along the
  steps: what was replaced by a link has its line in the tmpfiles, and data is in the tree, in the log or
  in `/var`.
* `OneGeneration`, `OwnContent` and `SizesFit`, for any layouts, loaders and number of builds. The heart of the
  invariant is `StagedInv`: a partition that is being prepared finds in the staging directory the files of
  the loader, and of the boot files those installed so far; a second ESP finds those of the first and does
  not get as far as the disk, since `boot.img` exists. What is written through links into `OTA_BOOT` is
  what every run writes there (`OtaBootInv`).
* `ListImplementsClosure` and `ListIsComplete`, for any graph. In `FindInv` each name of the list has all it needs
  in the list, or some activation answers for it: it is that activation's own name, or one that its
  second loop has yet to call. The last return leaves no activation, so nothing is missing. A name whose lookup
  failed is appended and ends the script; it does not count as discovered. `ListIsComplete` is the first part
  of `FileComplete`: the list is the least closed set, each name once, with its recipe.
  The recursive function that filters `DEPENDS` is shown to exist and to return a sequence of names by
  induction over a set of numbers (`Inductive`), which needs no operator as a parameter.
* `FileIsComplete`, for any graph without cycles (`NoCycles`: for each world the names have a bounded rank, each above
  what it needs; without it there is no tree, and the walk does not end). The recursive function of `Subtree` is
  shown to exist by induction over the rank (`TreeExists`) and to return sequences of entries (`TreeIs`). The
  invariant (`TreeInv`) keeps beside the stack what was written when each activation was entered: its
  caller's text, the subtrees its caller had finished by then, and its own entry. A call adds one to that; a return
  closes a whole subtree, after which the caller's text is one subtree longer (`TreeReturns`). What a pass of an
  activation skips or repeats would break the equation between its position in `DEPENDS` and its text.

The proofs assume no more than the named assumptions in the modules and the four hypotheses above
(`OneMachine`, `VersionsApart`, `BranchesApart`, `NoCycles`) and `Resumed`'s two; the runs are instances of all of
them, as TLC evaluates the assumptions of the modules, `MCBuild`'s of a rank for its graphs, which is `NoCycles`
with its witness, and `MCComposefsVerity`'s, which are those of `Resumed`.

Only model-checked: liveness (`TasksEnd`, `UpdatesSucceed`, `ComesUp`, `Provides`, `TestsEnd`, `Outcome`:
fairness and `ENABLED` are out of the prover's reach). Every invariant a run checks is stated by a theorem.

## 7. Not modelled

* `resolvconf-clean`: two commands on one link; a model would have fewer states than the script has
  lines. Power lost between them leaves no link, and the next boot exits at once; this hazard is
  listed without a property.
* `sota_sanity.bbclass`: conditions on variables and one event handler without state, which fires
  `SanityCheckPassed` after `SanityCheckFailed` when events are in use; also listed without a property.
* `init.sh` and the `ostree` module of the initramfs: a straight sequence of mounts with one retry.
* `cfs-enable-fsverity`: the host's counterpart of the composefs module, no state between runs.
* `updater_native.py`, `GeneralTests`, `AktualizrToolsTests`: checks of build results, no machine;
  `updater_raspberrypi.py`, whose `setUpLocal` always raises.
* The manifest, aktualizr recipes and configuration, kernel and device tree packages, machine classes: pure
  I/O, installation of files, variable assignments. The update client is not in this repository.
* Of modelled components: what `PROJECT.json` says at each.
