# image-bootstrap in TLA+

A specification of [image-bootstrap](https://github.com/hartwork/image-bootstrap)
and its companion directory-bootstrap: TLA+ modules translated from the Python
source, model-checked with TLC, and theorems about them checked by TLAPS.
Paths below are relative to the repository (`engine.py` is
`image_bootstrap/engine.py`); `PROJECT.json` holds the line ranges of every
definition.

## The system

**image-bootstrap** partitions a block device, bootstraps a distribution into
it and makes it bootable. `main()` builds an engine from the command line, lets
it check what can be checked beforehand, and calls `run()`, a single-threaded
sequence of some fifty calls, most of which execute an external command
(`parted`, `mount`, `debootstrap`, `chroot ...`). **directory-bootstrap**
unpacks or installs a distribution into a directory; for Arch and Gentoo the
strategy of image-bootstrap calls its bootstrapper classes in the same process.
It keeps downloads in a cache directory.

| Component | State it keeps | Operations | What is hard about it | What makes it correct |
|---|---|---|---|---|
| `BootstrapEngine.run` (engine.py:911-1021) | mappings of the partitions, mount point, mounts, content of the device and the image | about fifty calls in five nested try/finally statements | any call may fail, ^C may arrive anywhere, releases may fail too; the order of calls is fixed by comments only | nothing stays mounted or mapped; a run that succeeds left a bootable image without traces of the host |
| `check_call__keep_trying` (commands.py:46-55) | attempt number | three attempts, then carry on | callers do not learn of the failure | it ends, and only its third failure goes unnoticed |
| Distribution strategies (`distros/`) | none, they act on the image | about twenty calls each, from the engine | each call relies on the results of others | every call finds what it needs |
| GRUB 2 installer (grub2.py) | none | one | host or chroot, drive or device | boot code is written |
| MountFinder (mount.py) | list of mount points | `load`, `below` | reads `/proc` while it unwinds | last mounted is unmounted first |
| Disk identifier (disk_id.py, engine.py:760-771) | the boot sector | parse, write | text mode and encodings | four bytes are written |
| Download cache (directory_bootstrap `distros/base.py`) | files in a directory, kept between runs | download, uncompress | interrupted downloads, several processes, restarts, no locks | success means complete archives; a retry helps |
| Directory bootstrappers (Alpine, Arch, Gentoo, Void) | a temporary directory, the target | find version, download, verify, unpack, install | what is verified, and when; a mirror that changes between listing and download | as above, and what is installed is the latest offered |
| Mounts of the Arch bootstrapper (arch.py:226-264 of directory-bootstrap) | a temporary directory, five mounts below it | about fifteen calls in three nested try/finally statements | the temporary directory is deleted at the end, whatever is still mounted in it | nothing else is deleted unless a fault explains it |
| Stage3 listing parser (stage3_latest_parser.py) | none | find the latest entry | names with and without a time of day, flavors | the latest |
| Preflight checks (engine.py:140-291, both `__main__.py`) | boot loader approach chosen, GRUB's installer | ten checks | combinations of options and commands present; lists kept apart from the code that uses what they list | run() starts only if it can succeed, and is not refused without a reason |
| Executor, PATH, chroot environment (executor.py, `create_chroot_env`, engine.py:516-534) | `os.environ`, a prototype | sanitise PATH, copy, update, start a command | the same dictionary or a copy; insertion when directories are missing or in another order | the user's commands are found as before; commands inside see nothing of the host |
| Byte sizes, UUID and machine id types | none | pure functions | boundaries | |
| Messenger, output control, argument parsing, packaging | none | | | not about the program's function |

The engine calls the strategy, the strategy calls the executor; strategy and
engine share the mounted image. Engine and directory-bootstrap interact through
the target directory (and mounts left in it), two runs of directory-bootstrap
through the cache. There are no threads and no locks; concurrency is between
processes only.

## Modules

| Module | Models | Extends |
|---|---|---|
| `Engine` | `BootstrapEngine.run` with the strategies, the GRUB installer, the retry helper | |
| `Lease` | abstract: what nested try/finally statements promise | |
| `ArchBootstrapper` | `run()` of the Arch bootstrapper: its mounts, and what deleting the temporary directory meets | |
| `MountFinder` | the leftovers of a bootstrapper: found in mountinfo, unmounted in reverse | |
| `Preflight` | what `main()` does before `run()`, in both programs | |
| `DownloadCache` | the cache and the four bootstrappers as far as they use it | |
| `Release` | which release the Gentoo and Arch bootstrappers find and download | |
| `PathSanitize` | `_sanitize_path` | |
| `ChrootEnv` | the environments of the commands started | `PathSanitize` |
| `DiskId` | writing the disk identifier | |
| `XProofs` | theorems about the module X (Arch for `ArchBootstrapper`, Mount for `MountFinder`, Cache for `DownloadCache`, Disk for `DiskId`, Chroot for `ChrootEnv` and `PathSanitize`; those about `Lease` are in `EngineProofs`) | X |
| `MCX` | instances of X for TLC | X |

`Engine` and `ArchBootstrapper` each implement `Lease` (`LeaseDiscipline`, an
INSTANCE with a refinement mapping; proved for both: `LeaseDisciplineHolds`), and
`ChrootEnv` implements `PathSanitize` (proved: `PathIsSanitised`). What one module treats as a single step another
one details: the leftovers in `Engine` are those of `MountFinder` and come from
what `ArchBootstrapper` or debootstrap leave; `run()` in `Preflight` is that of
`Engine` or `ArchBootstrapper`; a name in the cache of `Release` is a file of
`DownloadCache`.

A definition whose name starts with Bug is a plausible mistake in the one after
it. No behaviour of a specification contains it; put in the place of its
neighbour it makes TLC find the violation of a property (`mutants` of
`PROJECT.json`).

### Engine

`pc` is the call `run()` makes next; each call of the source is an action of
(nearly) its name, with its effect on

- `devices`, `dir`, `mounts`: what is held (the mapping made by kpartx, the
  directory below /mnt, what is mounted at and below it);
- `disk`, `uuid`, `image`: partition table and boot code, the UUID `run()`
  believes in, and the root file system: which of the things that matter to
  later calls are in it, whose host name, resolv.conf and machine id it has,
  and the UUIDs that fstab and the boot loader name.

`tries` is the attempt number of `check_call__keep_trying`, and `k` the position
of the loops over mount points, so that a failure may come in the middle
of them. `Handler(l)` is the finally clause an exception at call `l` goes to:
the nesting of the try statements, written as a function. `unwinding` says that
an exception propagates; a finally clause that is done then continues with its
own handler (`Continuation`). A call may raise *early*, before it had an effect
(`Fault`), and acquisitions and retried releases also *late*, when the effect
is there and the next call is not reached. `cfg` is the command line and the
strategy; where strategies differ the action has a condition on `cfg.distro`.

Abstractions: package names and the text of files; which package is installed
by which of two adjacent calls; pre and post scripts (run on the host, assumed
not to touch the image; chroot scripts are modelled, they may generate keys,
a machine id and package archives). Mounts stand for the ones the kernel shows
below the mount point; whether `unshare` hides them from the host depends on
the propagation type of the host's mounts, and is not modelled. A busy mount is
one that something is mounted in. `faults` records, for `CleanExit`, which of
the listed failures (`Fragile`) happened; it is not a variable of the program.

### Lease

Abstract: resources have places, numbered from the outside in. What is taken is
taken inside of all that is held (`Acquire`), or is taken and lost at once when
an interrupt comes before anybody answers for it (`Miss`); only the innermost is
given back (`Release`), and what an exception or a release given up on passes by
is an inner part of what is held, lost for good (`Abandon`). It may be over with
nothing held. `Engine` and `ArchBootstrapper` implement it (`LeaseDiscipline`)
with a refinement mapping from `pc`, `k` and what exists: a place
(`AcquisitionOrder`) is *held* when its resource exists and `pc` is in the scope of a
finally clause for it, *lost* when it exists and `pc` is not. That no step of
`run()` moves a resource from *lost* back to *held*, or takes one from the middle,
is what the property adds to `CleanExit`.

### ArchBootstrapper

The same style as `Engine`: `pc` is the call made next, `Handler(l)` the finally
clause an exception goes to, `TryUnmounting` the three attempts of
shared/mount.py, after which the program carries on. `inner` collects what the
calls before `pacstrap` did to the unpacked bootstrap image (`Adjust`), `target`
what `pacstrap` and `fix_root_login` did to the target. `RemoveTempDir` is
`shutil.rmtree`: it descends into whatever it meets first, may delete it
(`deleted`), and is ended by the first mount; only without mounts does it
succeed. `pacstrap` is external; it may be killed and leave its own mounts in
the target.

### MountFinder

Paths are sequences of names. `mounts` is the kernel's table, each mount with the
order (`id`) in which it was made; `LeadsInto` and `MountedIn` say which mount a
path leads into and which mounts keep another one busy. A bootstrapper mounts
and unmounts as it likes, over each other as well, opens files, and stops
anywhere; then `LoadMounts` is `MountFinder.load()` and `below()`,
`Unmount`/`FailToUnmount`/`GiveUp` the loop over `reversed(...)` with three
attempts each, `EndUnmounting` the end of it. Processes may `Close` what they
have open at any time. `blocked` records, for the property, where unmounting was
given up with a process in the way; it is not a variable of the program.

### Preflight

One action per call of the `_main__level_three` functions, in their order:
`CheckRelease`, `SelectBootloader`, `DetectGrub2Install`, `CheckForCommands`,
`CheckArchitecture` and so on for image-bootstrap, `Create`, `CheckForCommands`,
`Unshare` for directory-bootstrap, then `Run`. `opts` is the command line, `host`
what the checks look at: absent commands, the version of `grub-install`, the
machine, whether the target is a block device, the script directories.
`Error` and `Interrupt` may come at any call; `status` is what
`run_handle_errors` and `main` make of it. `CommandsToCheckFor` collects the
lists of commands as the classes concatenate them, `StartedByRun` the commands
that occur in the code of engine, strategy and bootstrapper, `StartedByChecks` those
that a check itself starts. What is looked for and never started is named in
`Needless`. The scripts themselves are not started here, and `host` does not change.

### DownloadCache

Each process executes a pipeline of download, verification, uncompression and
extraction steps, translated from `run()` of its bootstrapper. A file is
absent, partial or whole. `os.path.exists` and `wget -O` are separate steps
(`FindAbsent`, `OpenDownload`); opening truncates; `wget` may fail on the way,
and every process may be killed at any step. A process that ended without
success is started again from the beginning on the cache as it is, at most
`work.attempts` times. `writer` is the process that truncated a file last: when
two write one file it is whole when that one is done, an abstraction of two
`wget` that write the same bytes to the same offsets. Verifications succeed for
whole files only. An uncompressed tarball that ends early may be unpacked
without an error, a compressed one may not. `work` is the workload: who runs
what, how often it is started, and what may go wrong.

### Release

A stage3 tarball is a day, a time of day (0: its name has none), an architecture
and a flavor; snapshots and bootstrap images are days. `FindStage3` is
`find_latest_stage3_date` with the parser's order of entries, `FindSnapshot` and
`FindNewSnapshot` the two places of `find_latest_snapshot_date`'s caller,
`ExtractLatestDate` the function of that name, `Fetch` `download_url_to_file` by
names. `listing` is Python's `snapshot_listing_url`, unassigned included, and the
constant `None` what is formatted into a name when there is no time of day.
`Sync` is the environment: the mirror, or the one behind the bouncer, may
become another one between any two requests. `read` records the listings read, and
`overtaken` whether a synchronisation withdrew what had been chosen (`StillThere`);
neither is a variable of the program. `Offers` says what a mirror has for a command line
as the options are explained (gentoo.py:395-400), apart from how the code looks for it.

### PathSanitize and ChrootEnv

`PathSanitize` walks through the six wanted directories; `Insert` is
`_insert_before_after`, with `InsertionIndex` a predicate on positions. In
`ChrootEnv` the dictionaries are a heap of three: `os.environ`, the prototype made
by `set_distro`, and the copy at hand; a reference is a heap and a name in it, and
`Copy`, `Put`, `SetDefault` do what `copy()`, `update()`/`pop()` and `setdefault()`
do to what the reference refers to. `MakeEnvironment`, `MakeChrootEnv` and
`CreateChrootEnv` are the functions of these names. Each action starts a
command of a kind with the environment its call site passes, and `seen` records
what it got after the executor's `CheckCall`. Values are "unset", the user's, or
ours; each variable stands for all that are treated alike. Which commands
`run()` starts, and when, is the subject of `Engine`; here any, in any order.

### DiskId

The device is opened in text mode: the `str` of four characters below 256 is
encoded in UTF-8 (external, and assumed to be the locale's encoding) before it
is written at offset 440.

## Runs

| Run | Instance | States | Checks |
|---|---|---|---|
| engine | every command line (of the 1,440 those with a disk identifier are given neither a UUID nor a machine id); with one that goes through every scope and call everything may fail, with another one all that is retried, with the others the boot flag; two leftover mounts | 606,636 | `TypeOK`, `CleanExit`, `UnwindingOnlyReleases`, `LeaseDiscipline`, `Termination`, `NoHostLeak`, `NoSharedIdentity`, `UuidAgreement`, `Bootable`, `ToolsPresent`, `InstallEnvironment` |
| cache | two Gentoo bootstrappers with two attempts each, network failures and kills; the four distributions side by side without faults; each alone with five attempts and network failures, Gentoo also with kills | 96,308 | `TypeOK`, `SoundSuccess`, `WholeIsFinal`, `FirstAttemptSuffices`, `AllEnd` |
| cache_retry | one Gentoo bootstrapper, five attempts, network failures | violated | `RetryHelps` |
| disk_id_four_bytes | identifiers of boundary values 0, 127, 128, ... 255 | violated | `FourBytes` |
| arch_faults | every call may fail or be interrupted, any number of times | 2,500 | `SuccessIsComplete`, `DeletionExplained`, `TempDirExplained`, `PacstrapEnvironment`, `LeaseDiscipline`, `Termination` |
| arch_cleanup | only the mounting of /dev & co. may fail | violated | `OnlyTempDirRemoved` |
| mount_finder | three places to mount at, one of them inside another, six mounts at most; a neighbour with a longer name | 76,045 | `OthersKept`, `LeftoversExplained` |
| preflight | every command line of both programs, on hosts that lack any one command or both of GRUB's installers; for the default command line also script directories of all kinds | 2,081,530 | `CommandsPresent`, `Grub2Only`, `RefusalExplained`, `StatusTells` |
| environment | lists of one to three directories in any order, two long ones; users who have set everything or nothing | 177,388 | `AllWanted`, `PrecedenceKept`, `WantedInOrder`, `UserEnvironmentKept`, `InsideClean`, `OrderIndependent` |
| environment_emerge | one value of PATH | violated | `EmergeSettings` |
| release | seven mirrors: usual, half-moved, with names without a time of day, stale, of other architectures only, and the first two with some files more and some less; two synchronisations; dates given or not; files cached or not | 7,680 | `LatestAndFresh`, `FailureExplained`, `OnlyListedCached` |
| release_offered | the same | violated | `OfferedIsInstalled` |

Why the bounds are enough.

- *engine*: one command line suffices for arbitrary faults because the calls behind
  a condition on `cfg` are followed by the same next call with or without an
  effect; two leftovers are the least that can be unmounted in the wrong order,
  and the proofs hold for any number. The properties of images are about runs
  that succeed, and the boot flag is the only retried command that changes an
  image's fate. The disk identifier has no influence on UUID and machine id, so
  the command lines that combine them are left out.
- *cache*: two processes exhibit every race on one file (exists/open/write of one
  against those of another), and two attempts a restart on a damaged cache. What a
  failed uncompression leaves behind is unpacked in the third attempt at the
  earliest (one to damage the download, one to fail on it); five attempts are what
  the workflows ask for.
- *disk_id_four_bytes*: the values are those at which the length or the last byte of an
  encoding changes.
- *mount_finder*: six mounts are the new root, up to two of the host, and at least
  three leftovers: one in the other and one over one of them. `Close` may come late
  enough for the second and third attempt to succeed. The proofs hold for any
  number.
- *preflight*: a list with an entry missing is found out by the host that lacks
  that one command; the choice between GRUB's two installers by the absence of
  one or both. A command looked for without need is found out by the same hosts.
- *environment*: insertions depend on the order of the wanted directories among
  those present; any two of them and triples of some exhibit each case
  (both neighbours, one, none, in conflict), and the long lists are those of
  test_path_extension.py. A user who has set everything and one who has set nothing
  are the extremes for each variable, which are independent of each other.
- *release*: four days and a maximal age of one have fresh days, the boundary and
  stale days; a listing and a download are two requests, so that two
  synchronisations put another mirror before and between them. Two pairs of mirrors
  differ by files that do not concern what has been chosen, so that a run has to
  succeed across the synchronisation.

Deadlock checking is on in every run: ended systems stutter by an action of
their own (`Finished`, `Ended`).

**Type invariants** of `Engine` and `DownloadCache` are checked (and proved). Those of the other
modules are part of the inductive invariants that are proved (and were checked
while these were found).

**Fairness.** `WF_vars(Call)` in `Engine` and `ArchBootstrapper`: one process, whose
external commands return sooner or later; failures are not fair. `WF_vars(Run(p))`
for each process in `DownloadCache`: the kernel schedules every process and
commands return; network failures and kills are not fair. Without the
assumption that a command returns nothing would end. The other modules are about
safety only.

### What the violated runs show

1. **Retrying does not help after an interrupted download** (cache_retry): the
   partial file is re-used by every later attempt
   (directory_bootstrap/distros/base.py:103), so `retry --times=5` of the workflows
   fails five times.
2. **More than four bytes of the MBR are written** (disk_id_four_bytes) for
   identifiers with bytes above 127 (engine.py:768); with three or more such bytes
   the status byte of the first partition is overwritten and it usually is no
   longer active.
3. **Cleaning up the temporary directory deletes device nodes of the host**
   (arch_cleanup): when /dev/pts or /proc cannot be mounted after /dev was, nothing
   unmounts /dev before `shutil.rmtree` (arch.py:251-264 of directory-bootstrap).
   The same happens after three failed attempts to unmount; `DeletionExplained`
   says that nothing else leads there.
4. **emerge is started without the settings made for it** (environment_emerge):
   `dict.update()` returns None (gentoo.py:153), so that emerge gets the program's own
   environment, without DONT_MOUNT_BOOT and MAKEOPTS and with the user's language
   and TMPDIR.
5. **`--repository-date` of Gentoo never works** (release_offered): `snapshot_listing_url`
   is assigned only if no date is given, and used in any case (gentoo.py:369 of
   directory-bootstrap), so that a snapshot the mirror has is not even asked for.

Other divergences are written into the properties as exceptions, where a reader
of a passing run should look for them: `parted` refusing the boot flag three
times is not reported (`Bootable`; commands.py:46-55 swallows it), nor is an umount
that failed three times (`CleanExit`); `--bootloader none` ends in
`NotImplementedError` on Debian and Ubuntu after the device was formatted (`Run` of
`Preflight`; debian_based.py:135, though README.md:80 lists "no bootloader at all");
the Arch bootstrapper starts `unshare` without looking for it (`Unchecked`); tar
is looked for by the Void bootstrapper, which unpacks with Python's tarfile (void.py:41 and
:76), and the command of `--grub2-install` is looked for when the approach selected does not
use it (engine.py:173; `Needless`); the latest stage3, if it is named without a time of day, is
asked for with "None" in its name (gentoo.py:346; `NamedNone`), and a stage3 of a given
date is asked for without a time of day and without a flavor only, however the mirror names it
(gentoo.py:350; `NamedPlain`; these two and finding 5 are all that
`FailureExplained` excuses); `chpasswd` keeps PYTHONPATH and `pacstrap` TMPDIR and
IB_HOSTNAME (`LetPass`).

## Theorems

For every set of command lines, every finite sequence of distinct leftover
mounts, and every set of calls that may fail (the assumptions
`ConfigsAssumption`, `LeftoversAssumption`, `FaultLabelsAssumption`), with no
bound on the number of failures:

- `EngineProofs!TypeCorrect`: `Spec => []TypeOK`. `TypeOK` is not inductive as it
  stands: `KeepTrying` moves `k` down by one and `MountNonDisk` up by one, so it has
  to be known that `k` is a position of the loop `pc` is in (`ControlOK`).
- `EngineProofs!AlwaysScoped` and `CleanExitHolds`: `Spec => []CleanExit`.
  `CleanExit` speaks about the end only. The inductive `Scoped` says at every
  moment, for each kind of resource: if no fault explains it, then it exists
  only while `pc` is in the scope of the finally clause that releases it, and,
  inside the loops that mount or unmount, only at positions the loop has yet to
  pass. The proof has one lemma per group of calls: most change nothing that is
  held and stay in their scopes (`SameScoped`, `ChrootStep`), an exception moves
  `pc` to a handler that is in the scopes of all resources then held
  (`HandlerScopes`, `FaultScoped`), and acquisitions and releases are treated
  one by one. At `exit` no scope is open, hence `CleanExit`.
- `EngineProofs!UnwindingReleases`: `Spec => UnwindingOnlyReleases`. The
  invariant is that `pc` is in one of eight finally clauses while an exception
  propagates (`OnTheWayOut`).
- `EngineProofs!NoHostLeakHolds`, `NoSharedIdentityHolds`, `UuidAgreementHolds`,
  `BootableHolds`, `ToolsPresentHolds`, `InstallEnvironmentHolds`: the properties of the
  image, for every command line and every failure survived. They are about single
  moments, mostly the end, so the invariant has to carry through the fifty calls
  what each one left in the image. `Rank` numbers the calls in the order of
  `run()`; `Progress` says for each fact from which call to which one it holds while
  no exception propagates (`Reached`, `Between`), in five parts: `DiskProgress` (partition,
  boot flag, boot code), `ConfigProgress` (UUID, fstab, host name, resolv.conf,
  machine id), `InstallProgress` (what calls put into the image), `RemovalProgress` (what
  is not in it any more: policy, archives, keys), `MountProgress` (how far the loops
  over mounts are). Each group of calls then needs two facts, that it moves `pc` on
  by at most one rank (but for the mapping kpartx already updated and the chroot
  scripts nobody asked for) and what it does to the fields of `image` (`Tidy` and
  the lemmas `PutFields`, `RemoveFields`). An exception leaves `Progress` empty, and
  `AlwaysOnTheWayOut` (from `UnwindingReleases`) keeps it from ending in success.
- `EngineProofs!LeaseDisciplineHolds`: `Spec => LeaseDiscipline`, the refinement of
  `Lease` by `run()`. Each place has a moment from which on it may be taken (`Started`)
  and a moment at which nobody answers for it any more (`Passed`), both positions in
  the order of `Rank` and, inside the loops, of `k`. The scopes of `Answerable` are
  exactly the stretches between the two (`Leases`, from `StateOK` and the auxiliary
  invariant `Fresh`: nothing exists before its moment). Along a step no moment is
  undone, and places are passed from the inside out (`MovesOn`); every call takes one
  place, gives one back, or leaves what exists as it is (`Effect`). What is passed by
  while it exists is therefore an inner part of what is held, and each step is one of
  `Acquire`, `Miss`, `Release` and `Abandon` (`KindsLease`). The proof needs the names of
  leftovers to differ from those of the other places, hence the last line of names in
  `LeftoversAssumption`: the leftovers are paths at which a bootstrapper mounted
  something, while "devices", "directory" and "chroot scripts" are names of this model.
- `EngineProofs!NothingHeld`: whatever takes the steps of `Lease` ends with nothing held
  and never counts one resource as held and lost; an invariant of `Lease` itself.

`Scoped` was checked with TLC, for every call failing, before it was proved. The
theorems about the other modules hold for every value of their constants as well:

- `ArchProofs`: `SuccessHolds`, `DeletionIsExplained`, `TempDirIsExplained`,
  `EnvironmentHolds`, for every set of calls that may fail. The inductive invariant
  has a part per resource: what is mounted although `pc` is outside of the
  scope of its finally clause is explained by a fault in `NonDiskFaults`,
  `TargetFaults` or `TempFaults`; the loop of `UnmountNonDisk` keeps what is below
  position `k`; what `pacstrap` needs is a chain through `pc`; and nothing is
  deleted before the last call, which then raises, so that success is honest.
  `LeaseDisciplineHolds`: `run()` of the Arch bootstrapper implements `Lease` as well, with
  places that are cut off from some depth on when an exception passes by (`CutAt`).
- `CacheProofs`: `TypeCorrect`, `SoundSuccessHolds`, `WholeIsKept`, for any set of processes,
  workloads and attempts. `SoundSuccess` says nothing about the time before success;
  the invariant adds that one process at most uncompresses to a file, which is partial
  meanwhile (`Exclusive`), that portage.tar is whole for every Gentoo process from its
  verification on (`Verified`), that the tarball of a Void process that is alone with
  its files and is not killed is partial only while it is written (`VoidWrites`), that
  nothing was extracted damaged so far (`Undamaged`), and that an attempt has at most one
  mishap (`Counted`, for the type of `mishaps`). The proof made the condition for Void
  part of `SoundSuccess`: Void verifies nothing, so another process in the same cache, or
  a kill, is enough to unpack half an archive; for Gentoo it holds without a condition.
- `DiskProofs`: `AsciiIsExact` (an identifier of four ASCII bytes is written as it is)
  and `EntryIsKept` (fewer than three bytes above 127 leave the first partition's entry
  alone), for all identifiers: what remains true beside the violated `FourBytes`. The
  invariant is that the sector is what parted left until the file is closed, and that
  with the encoded bytes over it from then on; the rest is the length of four
  concatenated encodings.
- `MountProofs`: `OthersAreKept`, `LeftoversAreExplained`, for all paths, tables of
  mounts and bounds. The invariant: ids tell mounts apart and order them, what is
  mounted in the new root is younger than it (`RootFirst`), what is to be unmounted
  is still there and inside (`TodoThere`), and what is mounted inside without being
  on the list has a process in the way in the same directory of the new root
  (`GivenUpExplained`). The step that matters is that the mount at hand, the
  latest of those left, can only be kept busy by one that was given up before.
- `PreflightProofs`: `CommandsArePresent`, `Grub2IsUsed`, `RefusalsAreExplained`,
  `StatusIsHonest`, for all sets of command lines and hosts. One
  invariant (`IInv`) says what the calls made so far have established and that it
  stays so until `run()`, another (`Outcome`) that nothing has gone wrong while calls
  are still to be made, so that the end is told by the call that led there. For
  `RefusalExplained` the list of commands looked for is shown to be within those started
  and `Needless` (`ListsNeeded`), list by list.
- `ChrootProofs`, about `PathSanitize`: `AllWantedHolds`, `PrecedenceIsKept`, `WantedStayInOrder`, for every
  PATH. Lemmas say what `InsertAt` does to the first index of an element;
  `PrecedenceKept` is inductive because only elements that are not in the list are
  inserted, and `WantedInOrder` because the insertion index lies after all
  `Befores` and, unless they conflict, not after any of `Afters`.
- `ChrootProofs`: `UserEnvironmentIsKept`, `OrderDoesNotMatter`, `InsideIsClean`, for
  every set of users and order of commands; by the invariant that `os.environ` is
  the user's but for PATH, that the prototype is what `MakeEnvironment` made of it,
  and that a command's environment is a function of its kind. `PathIsSanitised`:
  `EnvSpec => Spec`, so that the theorems about `PathSanitize` hold for `ChrootEnv`.
- `ReleaseProofs`: `LatestAndFreshHolds`, `FailuresAreExplained`, `OnlyListedIsCached`,
  for all dates, mirrors, caches and numbers of synchronisations. The invariant
  says what `stage3` and `day` are at each `pc`, relative to the listings read
  (`Inv`); for `FailureExplained`, that until something is `overtaken` or one of the three
  named defects applies, what has been chosen is still offered by the mirror as it is now (`Found`).
  A synchronisation keeps this by the definition of `StillThere`, and a step that fails
  then does so because `Offers` is false of the mirror that answered it.

**Assumptions.** The theorems rest on the named assumptions about constants
(`ConfigsAssumption`, `FaultLabelsAssumption`, `PathsAssumption`, ...), which TLC
evaluates in the runs, and on no others.

**Only model-checked**: `Termination` (both), `AllEnd` and `FirstAttemptSuffices`, because
liveness under fairness is out of the prover's reach. Every other property of
a passing run, both refinements of `Lease` included, is proved as well; `AsciiExact` and `EntryKept` of
`DiskId` are proved without a run of their own. That
the invariants of the proofs hold was checked with TLC before they were proved.

## Not modelled

- SIGTERM or SIGKILL to image-bootstrap: `run()` has no handler, so nothing is
  released; there is nothing to check. For the cache they are modelled.
- Argument parsing, messages, output control, packaging, byte sizes, the
  validation of UUIDs and machine ids: no state, and nothing a sequence of calls
  could get wrong.
- GnuPG homes of the Alpine and Gentoo bootstrappers (a temporary directory made and
  removed in one function), the search for Alpine's version, and Void's installation
  after unpacking. Void caches its tool under the name "latest" and uses
  whatever version is there; `Release` tells releases by names and says nothing of it.
- The renaming of var/db/repos/portage after unpacking (gentoo.py:386), which fails if
  the snapshot has no such directory or the target has a "gentoo" already:
  `DownloadCache` and `Release` end with the last archive unpacked or downloaded, and no
  property depends on it.
- Of mountinfo: the decoding of "\040", and mounts over the mount point itself (it
  is a new directory below /mnt that only `run()` mounts at).
- Package names and the text of configuration files; pre and post scripts, which
  run on the host.
- What other programs do to the device while `run()` works on it, and how the
  propagation type of the host's mounts (`unshare`) spreads mounts.
- Mounts outside the mount point: should the Arch bootstrapper leave its bind mount
  of the target in its temporary directory, the partition devices stay busy.
  `ArchBootstrapper` says when that happens (`TargetFaults`); `Engine` does not go on
  from there.

## Plan

1. *Done*: `Engine`, `Lease`, `DownloadCache`, `DiskId`; type correctness, `CleanExit`
   and `UnwindingOnlyReleases` proved.
2. *Done*: `ArchBootstrapper`, `MountFinder`, `Preflight`, `PathSanitize`, `ChrootEnv`,
   `Release`, each with its theorems.
3. *Done*: theorems about the image, for all command lines; the two refinements of
   `Lease`; `DownloadCache` and `DiskId`.
4. To come: the lemmas of the Arch and engine refinements have the same shape and could be
   stated about `Lease` once; the parts of the strategies and of the Void and Alpine
   bootstrappers that are listed under *Not modelled*.
