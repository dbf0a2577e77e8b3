# USB Guardian, in TLA+

USB Guardian is an Unraid plugin that takes a USB disk out of service: it stops
Unassigned Devices (UD) from mounting the disk, unmounts it, removes the USB
device through sysfs and only then tells the user that it is safe to unplug.
These modules model the parts of it where a mistake costs data or tells the user
something wrong: the safe-eject transaction with the adapter that holds UD back and the
recovery; what the worker goes by (is it that disk, who uses it, may it be ejected, is
shfs the same); what is kept of it on the boot flash; and the page that shows the verdict.

Paths below are relative to `src/`; `plugin/` stands for
`plugin/usr/local/emhttp/plugins/usb.guardian/`.

## Inventory

| Component | State it keeps | Operations | Correct when |
|---|---|---|---|
| Eject worker, `internal/guardian/eject.go` | the local variables of `Run`: `quiesceAttempted`, `strictlyUnmounted`, `rollbackProhibited`, `finalized`, `removed`, `recoveryPending`, `irreversibleAdapterFailure`, the shfs PID set, the exclusive handles | the stages of `Run`; the `fail` closure | an approval is published only for a device that is unmounted, finalized and removed; a failure leaves no barrier nobody knows of |
| UD adapter, `plugin/scripts/ud_adapter.php` | one state file per job under `/run/usb-guardian/ud-adapter`, the root marker `unmounting_<sdX>.state` | inspect, quiesce, finalize, rollback | the marker is its own, UD is quiet while it is up, the phases never run backwards over the irreversible boundary |
| Coordinator, `coordinator.go` | none | runs the adapter with a 45 s timeout; turns an answer into an error with a phase | an answer that never came is not taken for a reversible failure or a success |
| Journal and job store, `persist.go` | `.transaction.lock`, `transactions/<job>/active.json` and timeline on the boot flash; job files under `/run` | `NewJournal`, `Append`, `Finish`, `Close`, `Write`, rotation, `MaintainLogs` | one transaction at a time; `active.json` there exactly while something may have to be recovered; writes are durable and atomic, as far as one directory goes |
| Recovery, `recover.go` | none of its own | scans the transactions, rolls a barrier back, writes the failed job, retires `active.json` | never races a worker, never loses a barrier, never rolls back past the boundary |
| Platform operations, `platform*.go` | O_EXCL handles, flock | umount, open, flush, USB remove, wait, lock | every error is reported |
| Identity and topology, `topology.go`, `mountinfo.go` | none | listing and its token, resolution, rollback and final identity; the reasons that protect a device | what is removed is what the user chose, alone on its USB device and not Unraid's own, although nothing is read at one moment |
| Scanners, `procscan.go` | none | open files, mounts of every namespace, swap, holders, loops | a use that lasts is found; what cannot be read is a use |
| shfs check, diagnostics, `diagnostics.go` | the PIDs of the preflight | look at shfs; snapshots; archive | a loss of shfs is noticed, a healthy one never accused |
| Log mount, `logmount.go` | none | verdict over the mount table | the logs go to the boot flash or nowhere |
| Web API, `plugin/api.php`, `plugin/include/api_helpers.php` | job files, queue entries, a launch lock | launch, status, recover, lease, authority, clear logs, diagnostics | one job at a time; no job blocks the next for ever; a terminal job stays what it is; an approval is shown only while its device is absent |
| Browser page, `plugin/assets/guardian.js` | the page's state, the approval in local storage | polling, lease renewal, display | the page never shows a stale approval |
| Boot event, service and uninstall scripts | none | `recover` after boot; removal | nothing is removed under a running job |
| Configuration, utilities, command line, build scripts | files | I/O | outside the scope of these modules |

How they interact: the API starts `usb-guardian eject` as a process (the worker).
The worker takes the transaction lock, writes `active.json`, calls the adapter for
Quiesce, unmounts, calls it for Finalize, opens the block nodes exclusively, writes
to `<usb path>/remove`, checks and publishes. The adapter is a PHP process of its own:
it talks to UD only through the marker file, and the worker talks to it only through
its exit and one JSON answer. The boot event and the API start `usb-guardian recover`,
which takes the same lock and calls the same adapter. Nothing ties an adapter
process to the life of its caller. `usb-guardian list`, which the page calls often,
takes the transaction lock too, to rotate the logs; `clear_logs` of the web API takes it in PHP.
The page asks the API for the job's status and, to show an approval, for a lease; the tabs
of a browser share the approval through local storage.

What is hard: processes die between any two durable writes and the next one has to
make sense of what is on disk; an adapter may outlive its worker; UD, the
administrator, the kernel and shfs act at any time; every call has a timeout; a
write may report an error after it took effect; what survives a crash (`/run`, the
marker) does not survive a reboot, except `active.json`; everything that is read of a
host is read file by file while it changes; names, numbers and paths come back; and a browser
throttles, hides and forgets its tabs. `PROJECT.json` lists the
hazards one by one with the line where each bites.

## Modules

- **`UsbHost`** — the world outside the repository: the device on the USB path
  (`target`, a re-enumerated or different `other`, or `gone`), its mounts, the O_EXCL
  claim, the root marker and its age, and one UD process at a time, which is visible
  from its start and looks at the marker once before it acts. All external.
- **`UDAdapter`** — `ud_adapter.php`. `file` is the state file of each job, `proc` the
  adapter processes by slot. One action is one durable write, file creation or
  unlink, so `Refuse`, `QRefuse`, `Timeout` and the caller's death may fall between
  any two. `Held` says what `$state` a failing quiesce step has in memory, because
  the catch block writes it back. `mem.phase` of a refused process is what
  `adapter_failure_phase` puts into the answer.
- **`EjectTransaction`** — the worker (`pc`, the flags of `Run` as sets of jobs), the
  journal (`lock`, `active`), the job files (`job`) and the recovery (`rec`), composed with the
  adapter and the host. The stages that only look are rows of the table `After`, with
  what they demand in `Passes`; the acting stages and the steps of the failure path are
  actions with the names of the code. `Fail` ends any stage for a reason the model
  does not keep: each stage begins with a journal append and a job write that may
  fail, and most end in a scan that may refuse.
- **`EjectContract`** — what a safe eject promises and nothing of how: milestones in order, an
  approval behind the last of them, withdrawn but never given back. `EjectTransaction` has the
  mapping (`Contract`, `KeepsContract`): `held` are the jobs with a state file or marker,
  `verdict` is the job file.
- **`TargetIdentity`** — the scan of `class/block`, one read per step, with the kernel and udev
  acting in between; the four uses made of it (list, resolve, rollback, verify), the
  exclusive handle and the looks of `waitForRemoval`. `born` is the kernel's history:
  `diskseq` is never used again, everything else is.
- **`UsageScan`** — `ScanUsage` read by read and the four scans of a worker, with processes
  that fork, end, unshare, open, close and mount, a filesystem that outlives its mount, and
  the kernel's own uses.
- **`ShfsWatch`** — `CheckSHFS` and its comparison with the preflight.
- **`Protection`** — the reasons of an inspection, each read with Unraid acting in between. While Unraid
  rewrites the inventory, a read may find nothing of it, or half of it, up to a line before the device's own.
- **`LogStore`** — the log directory: every rename and removal of a rotation is a step; workers,
  `list`, the recovery and `clear_logs` under one lock, each dying anywhere; launch and the
  expiry of a queued job as far as they decide whether a worker may start. The flat logs have writers of
  their own, which append to them and roll them (`guardian_rotate_flat_log`) without that lock: `roller` is where
  such a roll is, `crossed` names the logs so rolled since a rotation last looked at their size. The age
  that counts as old is taken once in a rotation, as the code takes it.
- **`DurableFiles`** — `atomicWriteJSON`, `Append` and `WriteSnapshot` over a disk that has what was synced and
  whatever else it wrote back. The directory the files are in is made by the first of them; its own entry, in the
  directory above, is synced by none.
- **`LogMount`** — a mount table, the kernel's resolution of a path along it, and the verdict of
  `verifyPersistentLogMount`, which sees the text of the table only.
- **`SafeApproval`** — the lease at the server, and the tabs: authority, stored approval, notice,
  watchdog, expiry, requests, storage events. A request is given up after `Timeout`, by a timer, and only until
  its headers are there: the answer is taken whenever its body ends, with a lease that may then be `Late` old. A
  hidden tab is late with everything: timers, events, answers. A handler of the page is an operator on a tab's
  world, named as in `guardian.js` where it has a name.
- **`MCEject`, `MCSafety`, `MCApproval`, `MCLogs`** — the instances for TLC.
- **`EjectTransactionProofs`, `EjectContractProofs`, `BarrierProofs`, `LogStoreProofs`,
  `TargetIdentityProofs`, `ScannerProofs` (`UsageScan`, `ShfsWatch`, `Protection`),
  `DurableFilesProofs` (with `LogMount`), `SafeApprovalProofs`** — the theorems. Each of the first two is
  extended by the next, which uses its invariants.

`MCSafety`, `MCApproval` and `MCLogs` each extend several modules and check them in one run. These modules share no
variable and no name, so a behaviour is one of a single part, chosen in its first state; the variables
of the other parts do not change in it. Each part has exactly the behaviours it has on its own,
and each property is asked of its own part.

The composition that is left out on purpose: `EjectTransaction` takes the verdict of a check from
the host's state (`Passes`), and `TargetIdentity`, `UsageScan`, `ShfsWatch` and `Protection` show
what a verdict made of single reads is worth. `SafeApproval` takes from a worker that it ends,
with an approval only of a device that is absent, which `ApprovalEarned` is about.

The variables of the transaction:

| Variable | In the code |
|---|---|
| `boot`, `active[j]` | `/proc/sys/kernel/random/boot_id`; `active.json` of job `j`, by the boot id in it, 0 when there is none |
| `lock` | flock on `.transaction.lock`, tried without waiting |
| `job[j]` | job file: absent, running, failed, or `safe` for `safe_to_unplug` |
| `pc[j]` | the stage `Run` is in, a step of `fail`, `new` before the process, `dead` after |
| `attempted`, `unmounted`, `finalized`, `removed`, `doubtful`, `pending` | `quiesceAttempted`, `strictlyUnmounted` with `rollbackProhibited`, `finalized`, `removed`, `irreversibleAdapterFailure`, `recoveryPending` |
| `stale` | jobs whose remembered shfs PID set is no longer the live one |
| `doomed` | history only: jobs that lost shfs or the device in the window they watch |
| `rec` | the scan of `recoverInterruptedWithDependencies`: where, for which job, what is left, whether the barrier is unresolved |

Abstractions worth knowing. A device is compared as a whole: the model has one
replacement, so a check that would tell two replacements apart passes. A run of
samples (`adapter_wait_for_barrier`, `checkSHFSWindow`) is its last one: fewer
refusals than the code, never more. `pc` names job writes only where a property
can see them (start, publish, failure); progress writes are part of the stage.
A worker may start at any time, and a recovery too: that is more than the launch
API and the boot event do. The worker process of a job runs once. At most
`Cardinality(Slots)` adapter processes are alive; a call waits for a free slot,
which the code does not, so with one slot an orphan ends before the next
call, and the `crash` and `stolen` runs have two. A worker that exits keeps the model's lock unless its code gave it
back, although flock ends with the process: `LockComesBack` is about the code's own release.

In the other modules: `LogStore` has a directory as its kind, size and age; sizes and ages are
small numbers, and what is compared with a limit is a count or a sum of them. Vendor, product and serial are read
and compared as `devnum` is. `Protection` ends with its first reason where the code collects
them all. A lease is one step: a launch holds `api.lock` exclusively while a lease holds it shared,
and a device that appears during the scan of the bus was absent when the scan listed it.
Requests fail at any moment; a lost answer is one never given.

Operators marked *Variant* are not part of the model. Each is the operator next
to it with a plausible bug and shows which property notices.

## Properties

- `TypeOK` — one type invariant over all modules.
- `ApprovalEarned` — a job file that says `safe_to_unplug` means: this job unmounted,
  finalized and removed, the target is not on its path, and neither a state file nor
  a marker of the job is left. It must hold at the write and for ever after, against
  an orphan, a recovery and a reboot.
- `DoomedNeverSafe` — a loss of the device or of shfs anywhere in the window the
  worker watches excludes an approval, even if everything looks right again.
- `UnmountUnderBarrier` — while the worker is at the mounts, the marker is its own and no
  UD process is past its look at the marker.
- `RemovedUnmounted` — the target is removed from USB only with nothing mounted, although
  the marker is released well before the exclusive open.
- `BarrierHasOwner` — a marker or state file outlives no `active.json`.
- `OneHand` — recovery and worker exclude each other; the adapter has one living caller (with one slot and no death
  there cannot be two: that half is for the `crash` run and the theorem).
- `ReleasesOwnMarkerOnly` — no adapter unlinks a marker of another job.
- `FinalizedNeverRolledBack` — phases `finalizing` and `finalized` are left only by deletion.
- `NoRollbackAfterUnmount` — the documented rule that an unmounted job is not rolled back.
- `KeepsContract` — every behaviour, with deaths, orphans and reboots, is one of `EjectContract`.
- `WorkerEnds`, `LockComesBack` — liveness.
- `Genuine` — the fields of an identified token belonged to one disk, although a token may be read
  together from two. `HandleIsTarget` — behind the verification the exclusive handle is the target's,
  though opened by name and asked for its number only. `NoSiblingOverlooked` — no disk that was
  there as the verification began goes down with the target. `SettledIsGone` — behind the wait nothing is left of
  it, though every look was taken on its own.
- `SteadyStops` — a use that lasts as long as a scan stops the worker. `NoFilesystemLeft` — behind
  the exclusive open no filesystem is alive, not even a detached one.
- `NoneLost`, `NoFalseAlarm` — a shfs that ended is noticed, a calm one never accused.
- `ProtectedIsRefused` — a protection that lasts refuses, unless its own read failed silently or, for an assigned
  disk, all that was read of the inventory was cut short before its line.
- `OneWriter`, `EvidenceKept`, `StoreBounded`, `OldestFirst`, `ClearSparesEvidence` — the log store. `OneWriter`
  is about those who take the transaction lock. `OldestFirst`, of a flat log, and the limit of bytes in
  `StoreBounded` are claimed as long as the log's own writer has not rolled it beside the rotation.
- `NeverTorn`, `DoneIsKept`, `NamedSnapshotsExist` — files and the power. What was done is kept unless the power
  failed before the new directory was on the disk; then its files are gone together.
- `VerifiedIsFlash`, `RefusedForCause` — the verdict on the log mount goes far enough, and not too far.
- `ApprovalIsRecent` — a visible tab whose due work is done shows an approval only
  while the server would have confirmed it less than `MaxStale = Lease + Late + Timeout - 1` ago. An
  answer may be `Late` old when it starts the lease; and a tab whose expiry ran just after another
  tab had renewed the approval shows it until its own last request ends. Not claimed of a tab of which that
  last request stalls in the body of its answer (`Stalled`): the page has no timer then.

## Runs

Times are with two workers.

| Run | Bounds | What it shows |
|---|---|---|
| `one` | 1 job, 2 mounts, 1 adapter slot, 2 boots, no death | the transaction against the whole host, with every failure, timeout and one reboot (90,000 states, 6 s) |
| `two` | 2 jobs, 1 mount, 1 slot, 1 boot, no death; device and shfs left alone | jobs, and a job and the recovery, against each other (1.3 million states, 50 s) |
| `crash` | 1 job, 1 mount, 2 slots, 2 boots, 1 death | a dead worker or recovery, its orphaned adapter and the next caller's side by side, before and after a reboot; the refinement of `EjectContract` (1 million states, 1 min) |
| `fair` | 1 job, 1 mount, 1 slot, 1 boot, 1 death | termination and release of the lock (240,000 states, 2 min) |
| `stranded` | as `crash`, one boot | violation of `BarrierHasOwner` by one death |
| `crossed` | as `stranded` | violation of `FinalizedNeverRolledBack` by one death |
| `late` | 1 job, 2 slots, no death | violation of `NoRollbackAfterUnmount` |
| `stolen` | 2 jobs, 2 slots, 1 death, quiet host | violation of `ReleasesOwnMarkerOnly` |
| `target` | 2 names, 2 paths, 2 device numbers, 3 disks; 2 processes, one a FUSE daemon, 1 descriptor | identity of the target and its users, with the host changing between any two reads (4.2 million states, 3 min) |
| `approval` | 2 tabs, 2 jobs, lease 4, watchdog 2, timeout 1, answers 2 late; 2 shfs processes; 2 mounts | the page; shfs; protections (740,000 states, 1.5 min) |
| `logs` | 3 jobs, 1 flat log, 2 kept, ages to 2; 2 writers of a file, a snapshot; 3 mounts on 5 paths | the log store, also with its flat log rolled beside `list` and the clearing; files under power failure; the mount (1.1 million states, 2.5 min) |
| `clear` | 1 job, no rotation | violation of `ClearSparesEvidence` |

Why the bounds are enough. Two mounts are what tells "one mount, unmount it" from "more,
refuse"; where that is not the question, one is enough for mounted against not. Two jobs are
enough for every property about jobs, which speak of one job and one other; the
device, the marker and the lock are single in the code as well (one job ejects one
device, and the lock is one for all devices). Two boots let `active.json` meet another boot id.
Two slots are one orphan and one live call: `OneHand` says that there is only one live call,
and a second orphan needs a second death. One death is enough for every
counterexample found. What one run leaves
out another has: `two` leaves the device and shfs alone, `one` has no death, `crash` has one job.
No action of the transaction is capped by anything but `MaxMounts`, `MaxBoots`, `MaxCrashes` and the
sets themselves. Deadlock is checked except in `target` and `approval`, where a worker may have refused
and every process or shfs be gone: nothing is left to happen.

In `target` three disks are the chosen one, one that takes its name or path, and one that stands beside
it; a fourth (`MaxSeq`) would be one more of these, and the theorems are for any number. Two processes are one
that hands its use on by a fork and one that is excused as a FUSE daemon; one slot is enough, because a scan
reads slots as it reads processes, one after the other.
In `approval` time is in units: watchdog 2, lease 4 and timeout 1 keep the order of 2, 5 and 1.5 seconds and
that a lease outlasts a watchdog and a request; an answer 2 late is later than the timeout, which only the body or
a hidden tab lets happen. `MaxStale` is the least bound: one less is violated with these numbers. Three
settings, by the first state: a tab alone does everything, from the first launch on; two tabs show the approval of
generation 1 and are hidden as they like; or one shows it and a second is opened, both visible. In the last two a
second job is launched elsewhere and ends safely, no tab launches one, and the device is put back at
most once. What the timers of two tabs may lag behind each other comes about by the hiding. A tab is loaded once: a
reload is another tab. A second tab that is opened while the first is hidden is left to the theorem.
In `logs` three jobs are one more than are kept; a generation above those kept stands for a larger limit of
old. `MaxTime` 2 is younger, older and expired. The store is two parts: with workers and no roll by
another hand, and with such rolls and no worker; `FlatAt` is the size a log has after two lines, so it is rolled
by its own writer and by a rotation, with a generation above those kept or without. The page clears the logs at time 0, when it does: a log has no
age yet then. Three mounts are two that hide each other and one for /boot.

`two` and `one` show `BarrierHasOwner`, `ReleasesOwnMarkerOnly` and `FinalizedNeverRolledBack` for
transactions in which no process dies. With one death none of the three holds: an orphaned adapter
and the next caller's write the same file and marker in turn. The violation runs show each.

### What the violations say

1. `late`. `docs/DESIGN.md:106` forbids a rollback once the ordinary unmount succeeded. The worker
   keeps to it. `recover.go:215` decides by the phase of the state file, and a
   `finalize` that was refused or killed before its first write leaves `quiesced`. The
   next recovery of the same boot rolls back. The rollback mounts nothing, it only
   releases the marker; document and code disagree on whether that is allowed
   (`eject.go:150` counts on it).
2. `stranded`. `recover.go:115` takes a transaction for dead when its worker is. The adapter the
   worker had started goes on, and after the recovery has retired `active.json` it
   writes its state file and raises its marker: a barrier no later recovery looks for, until a reboot.
3. `stolen`. `ud_adapter.php` samples the owner of the marker, writes `marker_release_started` durably
   and unlinks by path. An orphaned rollback between the two can meet the
   marker of the next job. The window needs a dead caller.
4. `crossed`. `adapter_rollback` looks at the phase when it reads the state file and writes
   `rollback_failed` later (`ud_adapter.php:1266`). A `finalize` that lost its worker may write
   `finalizing`, which `eject.go:602` calls irreversible, between the two.

5. `clear`. `README.md:143` says that the logs are not cleared while a transaction is open. `clear_logs`
   looks for `active.json` (`api_helpers.php:537`) before it has the transaction lock (`:547`) and does
   not look again. A worker the API has given up, or one of the command line, may start in between,
   die, and its `active.json` goes with the directory: nobody recovers what it held.

`stranded`, `stolen` and `crossed` have one cause: the adapter is not tied to its worker, and the recovery looks for the
worker only.

### What the models show that no run asks

- A loop device over the block node itself is found by no scan and does not disturb O_EXCL
  (`procscan.go:182`): `SteadyStops` excludes it by name.
- A descriptor handed to a process the scan has passed, and closed by its owner, is a use that did
  not last: no scan sees it, only the next one or O_EXCL.
- A read error of the holders or of the btrfs filesystems is dropped (`topology.go:474`):
  `ProtectedIsRefused` excludes it by the history variable `unread`.
- While `list` rotates, a worker is refused as if another job ran (`persist.go:376`).
- A worker that dies after its job file says running and before `active.json` keeps every launch refused
  until a reboot (`api_helpers.php:1071`).
- The page dates a lease by the end of its answer (`guardian.js:993`) and by its own clock, and its request timeout
  is cleared at the headers (`guardian.js:240`). An answer that stalls in its body, or that a frozen
  tab takes when it thaws, is shown as new, however old it is: `MaxStale` holds with its age in it (`Late`), and
  nothing in the page bounds that age. A tab whose renewal stalls so, after another tab's renewal has taken its
  expiry timer away, shows the old notice until the answer ends (`Stalled`). A clock that is set back makes an
  old approval young; that is not modelled.
- An inventory that is read half written, up to a line before the device's own, passes the only test there is, that
  it has a text (`topology.go:436`): `ProtectedIsRefused` excludes it by `Overlooked`.
- The directory of a new transaction is made (`persist.go:70`) and synced itself with each write, its entry in
  `transactions` never: a power failure can take `active.json` although its write was reported done, until the kernel
  or the next rotation has written the directory above. The barrier it tells of is in `/run` and goes too.
- The page rolls a flat log without the transaction lock (`api_helpers.php:174`), beside the core's rotation of the same
  log: it unlinks generation 2 whatever older generations there are, and its renames may fall between those of the
  rotation, so a younger generation can go before an older one, and the total of bytes be missed by what it moved.
- A diagnostics archive has every regular file under the log directory (`diagnostics.go:356`), the temporary files of writes
  under way among them: what it holds under such a name may be a part of a file.
- A removal goes to the path (`eject.go:446`), to whatever is on it by then: `RemovedUnmounted` speaks of the target only.

## Fairness

`FairSpec` asks for weak fairness of each running worker (`WorkerRuns`, the start
excluded), of each adapter process, and of a running recovery. These are processes of a
preemptive scheduler, none waits for another without a limit: an adapter call
ends at its timeout (`coordinator.go:143`), which is one of the actions of the adapter
slot, and every stage of the worker may fail. Nothing is assumed of the host, of
starts, deaths, reboots or shfs. A worker that waits for a free slot waits only in the
model, and only for an orphan that ends.

## Proofs

`EjectTransactionProofs` proves, for every finite or infinite set of jobs and slots and every bound:

- `TypeCorrect`: `Spec => []TypeOK`. `TypeOK` is not inductive: an adapter process writes
  `file[proc[s].job]`, so `HasJob` adds that a running process, and a recovery at work, has a
  job. The lemmas on the adapter's records (`GotoType`, `WriteType`, `TakeType`, ...) are
  shared by its actions.
- `RemovalUnmounted`: `Spec => RemovedUnmounted`. The invariant `Claimed` says that a held claim
  means no mounts (`ClaimKeepsOut`), and that a worker from `flush` to `usb_remove` holds
  the claim as long as the target is there (`ClaimHeld`). The transaction lock plays no part in it.
- `OneHandAtATime`: `Spec => []OneHand`. `OneHand` mentions only callers; the invariant
  `Exclusive` ties them to the lock: a worker inside its transaction holds the lock, so does
  a recovery at work, an adapter process with a worker as caller belongs to a job that waits
  for it, and there is at most one caller.
- `DoomedIsNeverSafe`: `Spec => []DoomedNeverSafe`. A loss happens at a moment nobody looks; the
  invariant `Doom` says that it stays noticeable (`Noticed`: a doomed job that is still on its way
  has a stale PID set, or a target that is not there, with a check for it still ahead), and that
  a job file says safe only when its worker is past its checks (`SafeLate`).

`EjectContractProofs` proves, for the same constants:

- `TransactionImplementsContract`: `Spec => KeepsContract`, step by step: a step of the transaction is a step
  of the contract or leaves its variables alone. The invariant `Sound` is what the mapping needs. It
  says what a job has behind it at each stage (`Milestones`, `Finalizing`), that a job file never says safe before
  (`Spoken`), that an adapter with no caller works on a job whose worker is gone (`Deserted`) and that a
  removed job has no state file nor marker of its own (`Clean`). Orphans are in it: they may raise what they
  like for a job that never gets further.
- `ApprovalIsEarned`: `Spec => []ApprovalEarned`, from the refinement and the contract's own invariant.

`BarrierProofs` is about the barrier that holds UD back, for any jobs, slots and bounds. What is false with a
death (see *What the violations say*) is proved for behaviours without one, with every failure, refusal,
timeout, reboot and recovery in them:

- `UnmountIsUnderBarrier`: `Spec => [](crashes = 0 \/ Single => UnmountUnderBarrier)`. With a single job it
  holds whoever dies, too; with two and a death it does not: an orphan of the one may unlink the marker of
  the other. The invariant (`BarrierUp`, `Raised`) follows the marker from the last sample of `quiesce` on:
  an adapter process that could still lower it would be a second one of the same job (`Attended`, `OneHand`).
- `BarrierIsOwned`: `Spec => [](crashes = 0 => BarrierHasOwner)`. `Journalled` and `MarkerFiled`: what the
  adapter has written or is about to write belongs to a job with an `active.json` that nobody is retiring.
- `MarkerIsOwn` and `FinalizedStays`: `Spec /\ [](crashes = 0)` implies `ReleasesOwnMarkerOnly` and
  `FinalizedNeverRolledBack`. The invariant `InStep` says that what an adapter process
  knows of the marker and of its state file is still so when it acts on it.

`LogStoreProofs`, for any finite sets of jobs and logs and any limits:

- `OneWriterAtATime`: `Spec => []OneWriter`; of the processes that take the transaction lock, whoever changes the
  store holds it (`WriterHolds`).
- `StoreTypes`: `Spec => []TypeOK`. The counts of a rotation never go below zero: it takes off no
  more than it has counted, because nobody else changes what it has not been crossed in (`Counts`).
- `EvidenceIsKept`: `Spec => EvidenceKept`.
- `StoreIsBounded`: `Spec => []StoreBounded`. `Counts` says that what the rotation remembers agrees with
  the disk: the total with the sums of the sizes, the list with the directories and with the files of the logs that nobody rolled beside it (`Uncrossed`); `Spared` that what it passed by it had to. It rests on lemmas about
  sums over finite sets, which the module proves first.
- `OldestGoFirst`: `Spec => OldestFirst`. An interrupted rolling leaves a gap or a generation too many.
  `Ordered` says that the generations of a log are in the order of their age nevertheless, `Rolls` and `Expires`
  that what the running rotation has still to do keeps them so. A roll of the page keeps the order as well, wherever it
  stops, since it only moves a file one up or drops one; what it breaks is the list of the rotation it falls into,
  and that log is in `crossed` until the next rotation looks at it.

`ScannerProofs`, for any number of processes, slots, servers and mounts:

- `NoSteadyUseIsMissed` and `HandleKeepsOff`: `UsageSpec => []SteadyStops`, `UsageSpec => []NoFilesystemLeft`. The
  invariant says of each use that has lasted as long as the scan (`steady`) that its place is still to be read or has been
  read as a use; of the handle, that nothing begins to use a device that is claimed.
- `NoServerIsLost` and `NoneIsStoppedForNothing`, of `ShfsWatch`: a PID that has ended stays
  so (`LostStay`), and as long as nothing happens to shfs but binds and unbinds elsewhere every read finds it well (`CalmIsWell`).
- `ProtectedIsNotEligible`, of `Protection`: a protection that lasts is caught by its own read (`ReadSoFar`), with the
  two exceptions that `Overlooked` names.

`DurableFilesProofs`, for any number of writers and snapshots:

- `FilesAreWhole`, `SnapshotsExist` and `WhatIsDoneIsKept` from one invariant, `FilesInv`: a file is
  whole before it is synced and synced before it has its name (`WholeFirst`); and what the disk has under a name is
  what the kernel has or an earlier one of the same path in the order of the renames (`InOrder`). The history variable `lost` has the writes that
  were done and went with their directory; `WhatIsDoneIsKept` is about the others.
- `AcceptedIsFlash`: `MountSpec => []VerifiedIsFlash` of `LogMount`, for any number of mounts. The lookup is a walk; the
  lemmas `OntoFacts` and `ResolveFacts` say where it may end. The invariant `Rooted` says that a mount on `/boot` is
  made on the root or on another mount on `/boot`: a single one is what the first name leads to, and with no mount in the
  way (`BootBelow`) each further name stays on it.
- `RefusedHasCause`: `MountSpec => []RefusedForCause`.

`TargetIdentityProofs`: `IdentifiedIsGenuine`, `VerifiedHandle`, `VerifiedAlone` and `SettlingEndsGone`, for any number of
names, paths and numbers. One idea carries them: a sequence number that is gone does not come back,
so what was seen with it at the beginning and at the end of a scan held in between. The invariant says
that of the token (`TokenHeld`), of what is read so far (`HalfRead`, `AllRead`), of what is still to
be read (`NoneMissed`), and of the kernel (`Kernel`: a disk has the name, and its USB device the
number, it was born with).

`SafeApprovalProofs`: `OnlyCompletedShown`, `Spec => []ShownIsCompleted`, for any number of tabs and jobs, any
lease, watchdog and timeout: no tab shows "safe to unplug" for a job whose file does not say that it ended
safely. The invariant `Honest` says that every generation a tab shows or asks a lease for, and the one
in local storage, is of such a job (`Speaks`): the tabs take it from each other without asking. Each
handler of the page has a lemma that it keeps this of a tab's world (`Vouched`), whatever the world is
otherwise. The property is not in a run; the bounds are on the number of jobs only (`MaxGen`).

`NoStaleApproval`, `Spec => []ApprovalIsRecent`, says how old an approval may be that a visible tab still shows. The
difficulty is that nothing but timers of several tabs ends it, and each tab may store, revoke or renew what the others show.
The invariant `Recent` relates the time since the server would have confirmed (`refused`) to what is still to come:

- the shared approval is as old as the confirmation behind it, or at most `Late` younger (`Fresh`), since the page dates it when
  the answer ends; an answer under way is no older than that (`Timed`);
- the watchdog of a tab comes before its expiry, and its expiry before the shared approval's lease ends (`Paced`), so a tab
  that keeps a watchdog or an expiry is bounded by `Fresh`;
- a tab that shows another approval than the shared one has the storage event before it that clears it (`Paced`, `Warned`);
- a tab without a watchdog waits for a renewal (`Heeded`), and what it shows is as old as that renewal is young (`Paced`): the
  `Timeout` of `MaxStale`. Only the headers stop that count, and then the tab has its expiry, or it is `Stalled`.

Within a handler, which reads and writes the shared approval several times, the same holds of the tab's world (`Current`),
with two facts about the others: nobody makes the shared approval older, and whoever revokes it sends them the event.

The proofs rest on the named assumptions about the constants, which TLC evaluates in the runs: `HostAssumption`,
`TransactionAssumption`, `ProcessesDistinct`, `IdentityAssumption`, `ScanAssumption`, `ProtectionAssumption`,
`ApprovalAssumption`; `StoreAssumption` (finitely many jobs and logs: it is about sums of sizes);
`FilesAssumption` (somebody writes the state, and `state` is a path no other writer has); `MountAssumption` (the log
directory is below `/boot`: for any other `verifyPersistentLogMount` checks nothing, `logmount.go:31`).

Where a definition recurses along a sequence, as the lookup of `LogMount` does, or sums over a set, the proofs
use induction over the naturals or over finite sets in the form of a statement about sets (`NatSetInduction`), and show first
that the recursive function exists (`Iterates`).

Only model-checked: the two liveness properties, which are out of the prover's reach as everything with fairness or
`ENABLED` is, and the properties of the violation runs, of course.

## Not modelled, and why

- Tokens and their signature, descriptors of USB interfaces and the parsers of `mountinfo`, INI and JSON: pure
  functions of text. A token that verifies was signed; a parser that fails is a read that fails.
- The diagnostics archive: a copy of the log directory as the walk finds it, with no promise about what is under way.
- What a snapshot or a journal record holds, SCSI and flush commands, the uevent monitor: they write
  records and may fail, which a stage may anyway.
- Configuration, utilities, command line: no state beyond the files above; limits are constants here.
- Of the web API: settings, the download of the archive and the checks of a request. Of the page: the controls in
  UD's table, the settings page, localisation.
- Boot event and service script start `recover`, which may start at any time here. Uninstall ends the
  plugin; behind it there is no component whose state could tell the order of its steps apart.
- Build and check scripts.

## Plan

1. The barrier with deaths: what is left of `BarrierHasOwner` and `ReleasesOwnMarkerOnly` when an adapter process is orphaned
   (at most as many strays as deaths, each of the same boot).
