---------------------------- MODULE DownloadCache ----------------------------
(***************************************************************************)
(* The download cache of directory-bootstrap (/var/cache/directory-        *)
(* bootstrap/ by default): run() of the four bootstrappers as far as it    *)
(* reads and writes cached files.  Several processes may share the cache,  *)
(* which has no locks; a process may fail or be killed at any point and    *)
(* be started again, e.g. by the `retry --times=5` of the CI workflows     *)
(* (.github/workflows/directory-bootstrap-gentoo.yml:49).                  *)
(* Definitions that start with Bug contain a mistake and are in no         *)
(* behaviour of Spec, see module Engine.                                   *)
(***************************************************************************)
EXTENDS Naturals, Sequences

CONSTANTS Procs,        \* processes that share the cache
          MaxAttempts,  \* bound on how often a process is started
          Workloads     \* what they run and what may go wrong, see WorkloadType

(***************************************************************************)
(* A step of run().  "check" verifies a file, given files it trusts.  Only *)
(* compressed archives detect by themselves that their end is missing.     *)
(***************************************************************************)
Download(f)    == [op |-> "download", file |-> f, needs |-> {}]
Check(f, fs)   == [op |-> "check", file |-> f, needs |-> {f} \cup fs]
Uncompress(f, out) == [op |-> "uncompress", file |-> out, needs |-> {f}]
Extract(f)     == [op |-> "extract", file |-> f, needs |-> {}]

BugUnverified ==   \* umd5sum not checked
  << Download("portage.gpgsig"), Download("portage.md5sum"), Download("portage.umd5sum"),
     Download("portage.tar.xz"),
     Check("portage.tar.xz", {"portage.gpgsig"}), Check("portage.tar.xz", {"portage.md5sum"}),
     Uncompress("portage.tar.xz", "portage.tar"), Extract("portage.tar") >>
BugCheckedEarly ==   \* umd5sum checked before there is something to check
  << Download("portage.umd5sum"), Download("portage.tar.xz"),
     Check("portage.tar", {"portage.umd5sum"}),
     Uncompress("portage.tar.xz", "portage.tar"), Extract("portage.tar") >>

GentooPipeline ==
  << Download("portage.gpgsig"), Download("portage.md5sum"), Download("portage.umd5sum"),
     Download("portage.tar.xz"),
     Check("portage.tar.xz", {"portage.gpgsig"}), Check("portage.tar.xz", {"portage.md5sum"}),
     Download("stage3.DIGESTS"), Download("stage3.tar.xz"),
     Check("stage3.DIGESTS", {}), Check("stage3.tar.xz", {}),
     Uncompress("portage.tar.xz", "portage.tar"), Check("portage.tar", {"portage.umd5sum"}),
     Extract("stage3.tar.xz"), Extract("portage.tar") >>
AlpinePipeline ==
  << Download("alpine.tar.gz.asc"), Download("alpine.tar.gz"),
     Check("alpine.tar.gz", {"alpine.tar.gz.asc"}), Extract("alpine.tar.gz") >>
ArchPipeline == << Download("arch.tar.zst"), Extract("arch.tar.zst") >>
VoidPipeline ==
  << Download("xbps-static-latest.tar.xz"),
     Uncompress("xbps-static-latest.tar.xz", "xbps-static-latest.tar"),
     Extract("xbps-static-latest.tar") >>
Nothing == << >>   \* a process that is not there
Pipelines == {GentooPipeline, AlpinePipeline, ArchPipeline, VoidPipeline, Nothing}

WorkloadType == [pipeline: [Procs -> Pipelines], attempts: 1..MaxAttempts,
                 faults: SUBSET {"network", "kill"}]

Files == {"portage.gpgsig", "portage.md5sum", "portage.umd5sum", "portage.tar.xz", "portage.tar",
          "stage3.DIGESTS", "stage3.tar.xz", "alpine.tar.gz.asc", "alpine.tar.gz",
          "arch.tar.zst", "xbps-static-latest.tar.xz", "xbps-static-latest.tar"}
Compressed == {"portage.tar.xz", "stage3.tar.xz", "alpine.tar.gz", "arch.tar.zst",
               "xbps-static-latest.tar.xz"}

ASSUME MaxAttemptsAssumption == MaxAttempts \in Nat \ {0}
ASSUME WorkloadsAssumption   == Workloads \subseteq WorkloadType

VARIABLES work,      \* the workload, fixed
          cache,     \* content of each cached file
          writer,    \* the process that truncated it last, while it may still write
          step,      \* position of each process in its pipeline
          phase,     \* "look" for the file, "open" it for writing, "write" it
          attempt,   \* number of the attempt each process is in
          status,    \* "running", "done" or "gave up"
          mishaps,   \* attempts of each process that met a network failure or a kill
          damaged    \* files a process extracted without their end

vars == <<work, cache, writer, step, phase, attempt, status, mishaps, damaged>>

TypeOK ==
  /\ work \in Workloads
  /\ cache \in [Files -> {"absent", "partial", "whole"}]
  /\ writer \in [Files -> SUBSET Procs]
  /\ step \in [Procs -> 1..15]
  /\ \A p \in Procs : step[p] <= Len(work.pipeline[p]) + 1
  /\ phase \in [Procs -> {"look", "open", "write"}]
  /\ attempt \in [Procs -> 1..work.attempts]
  /\ status \in [Procs -> {"running", "done", "gave up"}]
  /\ mishaps \in [Procs -> 0..work.attempts]
  /\ damaged \in [Procs -> SUBSET Files]

Init ==
  /\ work \in Workloads
  /\ cache = [f \in Files |-> "absent"]
  /\ writer = [f \in Files |-> {}]
  /\ step = [p \in Procs |-> 1]
  /\ phase = [p \in Procs |-> "look"]
  /\ attempt = [p \in Procs |-> 1]
  /\ status = [p \in Procs |-> IF work.pipeline[p] = Nothing THEN "done" ELSE "running"]
  /\ mishaps = [p \in Procs |-> 0]
  /\ damaged = [p \in Procs |-> {}]

Current(p) == work.pipeline[p][step[p]]
At(p, op)  == /\ status[p] = "running" /\ step[p] <= Len(work.pipeline[p])
              /\ Current(p).op = op
Whole(fs)  == \A f \in fs : cache[f] = "whole"

Proceed(p) == /\ step' = [step EXCEPT ![p] = @ + 1]
              /\ phase' = [phase EXCEPT ![p] = "look"]
              /\ UNCHANGED <<attempt, status, mishaps>>

BugFailOnceMore(p, n) ==   \* one attempt too many
  /\ phase' = [phase EXCEPT ![p] = "look"]
  /\ mishaps' = [mishaps EXCEPT ![p] = @ + n]
  /\ IF attempt[p] <= work.attempts
     THEN /\ attempt' = [attempt EXCEPT ![p] = @ + 1]
          /\ step' = [step EXCEPT ![p] = 1]
          /\ damaged' = [damaged EXCEPT ![p] = {}]
          /\ UNCHANGED status
     ELSE status' = [status EXCEPT ![p] = "gave up"] /\ UNCHANGED <<attempt, step, damaged>>

BugFailUncounted(p, n) ==   \* failed verifications do not count as attempts
  /\ phase' = [phase EXCEPT ![p] = "look"]
  /\ mishaps' = [mishaps EXCEPT ![p] = @ + n]
  /\ step' = [step EXCEPT ![p] = 1]
  /\ damaged' = [damaged EXCEPT ![p] = {}]
  /\ IF n = 0 \/ attempt[p] < work.attempts
     THEN attempt' = [attempt EXCEPT ![p] = @ + n] /\ UNCHANGED status
     ELSE status' = [status EXCEPT ![p] = "gave up"] /\ UNCHANGED attempt

(* The exception ends the process; it is started again from the beginning  *)
(* on the cache it finds, and unpacks over what is in the target.          *)
Fail(p, n) ==
  /\ phase' = [phase EXCEPT ![p] = "look"]
  /\ mishaps' = [mishaps EXCEPT ![p] = @ + n]
  /\ IF attempt[p] < work.attempts
     THEN /\ attempt' = [attempt EXCEPT ![p] = @ + 1]
          /\ step' = [step EXCEPT ![p] = 1]
          /\ damaged' = [damaged EXCEPT ![p] = {}]
          /\ UNCHANGED status
     ELSE /\ status' = [status EXCEPT ![p] = "gave up"]
          /\ UNCHANGED <<attempt, step, damaged>>

(***************************************************************************)
(* download_url_to_file: os.path.exists, then `wget -O`, which truncates   *)
(* the file at once and leaves what it has when it fails.                  *)
(***************************************************************************)
Reuse(p) ==
  /\ At(p, "download") \/ At(p, "uncompress")
  /\ phase[p] = "look" /\ cache[Current(p).file] # "absent"
  /\ Proceed(p)
  /\ UNCHANGED <<cache, writer, damaged>>

FindAbsent(p) ==
  /\ At(p, "download") \/ At(p, "uncompress")
  /\ phase[p] = "look" /\ cache[Current(p).file] = "absent"
  /\ phase' = [phase EXCEPT ![p] = "open"]
  /\ UNCHANGED <<cache, writer, step, attempt, status, mishaps, damaged>>

OpenDownload(p) ==
  /\ At(p, "download") /\ phase[p] = "open"
  /\ cache' = [cache EXCEPT ![Current(p).file] = "partial"]
  /\ writer' = [writer EXCEPT ![Current(p).file] = {p}]
  /\ phase' = [phase EXCEPT ![p] = "write"]
  /\ UNCHANGED <<step, attempt, status, mishaps, damaged>>

(* Two processes may write one file: what was written before the last      *)
(* truncation is lost, so it is whole when the last to truncate it is done.*)
CompleteDownload(p) ==
  LET f == Current(p).file IN
  /\ At(p, "download") /\ phase[p] = "write"
  /\ cache' = IF p \in writer[f] THEN [cache EXCEPT ![f] = "whole"] ELSE cache
  /\ writer' = [writer EXCEPT ![f] = @ \ {p}]
  /\ Proceed(p)
  /\ UNCHANGED damaged

BreakDownload(p) ==
  /\ "network" \in work.faults
  /\ At(p, "download") /\ phase[p] = "write"
  /\ writer' = [writer EXCEPT ![Current(p).file] = @ \ {p}]
  /\ Fail(p, 1)
  /\ UNCHANGED cache

(***************************************************************************)
(* gpg --verify, md5sum --check, sha512sum: they read all of the file.     *)
(***************************************************************************)
BugVerify(p) ==   \* what fails verification is deleted, whoever uses it
  /\ At(p, "check")
  /\ \/ Whole(Current(p).needs) /\ Proceed(p) /\ UNCHANGED <<cache, damaged>>
     \/ /\ ~Whole(Current(p).needs)
        /\ cache' = [cache EXCEPT ![Current(p).file] = "absent"]
        /\ Fail(p, 0)
  /\ UNCHANGED writer

Verify(p) ==
  /\ At(p, "check")
  /\ \/ Whole(Current(p).needs) /\ Proceed(p) /\ UNCHANGED damaged
     \/ ~Whole(Current(p).needs) /\ Fail(p, 0)
  /\ UNCHANGED <<cache, writer>>

(***************************************************************************)
(* uncompress_xz_tarball: `unxz --keep` refuses to overwrite a file (it    *)
(* creates it exclusively) and removes its own output when it fails.       *)
(***************************************************************************)
OpenUncompressed(p) ==
  /\ At(p, "uncompress") /\ phase[p] = "open"
  /\ \/ /\ cache[Current(p).file] = "absent"
        /\ cache' = [cache EXCEPT ![Current(p).file] = "partial"]
        /\ writer' = [writer EXCEPT ![Current(p).file] = {p}]
        /\ phase' = [phase EXCEPT ![p] = "write"]
        /\ UNCHANGED <<step, attempt, status, mishaps, damaged>>
     \/ /\ cache[Current(p).file] # "absent"
        /\ Fail(p, 0)
        /\ UNCHANGED <<cache, writer>>

CompleteUncompressed(p) ==
  LET f == Current(p).file IN
  /\ At(p, "uncompress") /\ phase[p] = "write"
  /\ \/ /\ Whole(Current(p).needs)
        /\ cache' = [cache EXCEPT ![f] = "whole"]
        /\ Proceed(p) /\ UNCHANGED damaged
     \/ /\ ~Whole(Current(p).needs)
        /\ cache' = [cache EXCEPT ![f] = "absent"]
        /\ Fail(p, 0)
  /\ writer' = [writer EXCEPT ![f] = @ \ {p}]

(* tar: a compressed archive without its end is an error, an uncompressed  *)
(* one may pass for a shorter archive.                                     *)
ExtractTarball(p) ==
  LET f == Current(p).file IN
  /\ At(p, "extract")
  /\ \/ cache[f] = "whole" /\ Proceed(p) /\ UNCHANGED damaged
     \/ cache[f] # "whole" /\ Fail(p, 0)
     \/ /\ cache[f] = "partial" /\ f \notin Compressed
        /\ Proceed(p)
        /\ damaged' = [damaged EXCEPT ![p] = @ \cup {f}]
  /\ UNCHANGED <<cache, writer>>

Finish(p) ==
  /\ status[p] = "running" /\ step[p] = Len(work.pipeline[p]) + 1
  /\ status' = [status EXCEPT ![p] = "done"]
  /\ UNCHANGED <<cache, writer, step, phase, attempt, mishaps, damaged>>

(* SIGTERM or SIGKILL: no clean-up at all, files stay as they are.         *)
Kill(p) ==
  /\ "kill" \in work.faults /\ status[p] = "running"
  /\ writer' = [f \in Files |-> writer[f] \ {p}]
  /\ Fail(p, 1)
  /\ UNCHANGED cache

Ended == (\A p \in Procs : status[p] # "running") /\ UNCHANGED vars

Run(p) == \/ Reuse(p) \/ FindAbsent(p) \/ OpenDownload(p) \/ CompleteDownload(p)
          \/ Verify(p) \/ OpenUncompressed(p) \/ CompleteUncompressed(p)
          \/ ExtractTarball(p) \/ Finish(p)

Next == (\E p \in Procs : (Run(p) \/ BreakDownload(p) \/ Kill(p)) /\ UNCHANGED work) \/ Ended

(* Every process is scheduled, and its commands return.                    *)
Spec == Init /\ [][Next]_vars /\ \A p \in Procs : WF_vars(Run(p) /\ UNCHANGED work)

(***************************************************************************)
(* Properties.                                                             *)
(***************************************************************************)
FilesOf(p) == {work.pipeline[p][i].file : i \in 1..Len(work.pipeline[p])}
Alone(p)   == \A q \in Procs \ {p} : FilesOf(p) \cap FilesOf(q) = {}

(* A bootstrapper that reports success unpacked whole archives only.  For  *)
(* Gentoo this holds however processes, network failures and kills         *)
(* interleave on the shared cache: what was re-used is verified after it   *)
(* was found, and nothing truncates an uncompressed tarball between its    *)
(* verification and its extraction.  Void verifies nothing: it holds when  *)
(* the process has its files for itself and is not killed.                 *)
SoundSuccess ==
  \A p \in Procs :
    /\ status[p] = "done"
    /\ work.pipeline[p] = VoidPipeline => Alone(p) /\ "kill" \notin work.faults
    => damaged[p] = {}

Idle(f) == \A p \in Procs : status[p] = "running" /\ phase[p] # "look" => Current(p).file # f

(* A file that is whole, and that nobody was about to create, is never     *)
(* touched again: later and concurrent runs re-use it.                     *)
WholeIsFinal == [][\A f \in Files : cache[f] = "whole" /\ Idle(f) => cache'[f] = "whole"]_vars

(* A process that has its files for itself and meets no fault needs one    *)
(* attempt, whatever it bootstraps, and whoever else uses the cache.       *)
FirstAttemptSuffices ==
  \A p \in Procs :
    <>(Alone(p) /\ work.faults = {} => status[p] = "done" /\ attempt[p] = 1)

(* Every process ends, done or not.                                        *)
AllEnd == <>(\A p \in Procs : status[p] # "running")

(* What the workflows rely on: all attempts fail only if something went    *)
(* wrong in every one of them.                                             *)
RetryHelps == \A p \in Procs : status[p] = "gave up" => mishaps[p] = work.attempts
=============================================================================
