------------------------------ MODULE CacheProofs ------------------------------
(***************************************************************************)
(* Proofs about DownloadCache, for any number of processes, pipelines,     *)
(* attempts and faults.                                                    *)
(*                                                                         *)
(* The argument: unxz creates its output exclusively, so that a tarball is *)
(* being uncompressed by one process at most, is partial as long as it is, *)
(* and once whole is left alone (Exclusive).  Gentoo goes past the check   *)
(* of portage.tar only if it is whole, so it is whole when it is extracted,*)
(* whoever uncompressed it (Verified).  A process of Void that has its     *)
(* files for itself and is not killed never leaves the tarball partial     *)
(* (VoidWrites).  Nothing else that is extracted can pass without its end. *)
(***************************************************************************)
EXTENDS DownloadCache, TLAPS

(***************************************************************************)
(* The steps of the pipelines.                                             *)
(***************************************************************************)
Uncompressed == {"portage.tar", "xbps-static-latest.tar"}

StepType ==
  [op: {"download"}, file: Files \ Uncompressed, needs: {{}}]
  \cup [op: {"check", "extract"}, file: Files, needs: SUBSET Files]
  \cup [op: {"uncompress"}, file: Uncompressed, needs: SUBSET Files]

LEMMA Kinds ==
  /\ \A f \in Files \ Uncompressed : Download(f) \in StepType
  /\ \A f \in Files, fs \in SUBSET Files : Check(f, fs) \in StepType
  /\ \A f \in Files : Extract(f) \in StepType
  /\ \A f \in Files, out \in Uncompressed : Uncompress(f, out) \in StepType
BY DEF Download, Check, Extract, Uncompress, StepType, Files, Uncompressed

LEMMA GentooSteps ==
  /\ Len(GentooPipeline) = 14
  /\ \A i \in 1..14 : GentooPipeline[i] \in StepType
  /\ GentooPipeline[12] = Check("portage.tar", {"portage.umd5sum"})
  /\ GentooPipeline[13] = Extract("stage3.tar.xz")
  /\ GentooPipeline[14] = Extract("portage.tar")
  /\ \A i \in 1..14 : GentooPipeline[i].op = "extract" => i \in {13, 14}
  /\ \A i \in 1..14 : GentooPipeline[i].file # "xbps-static-latest.tar"
<1> DEFINE K == GentooPipeline
<1>1. Len(K) = 14  BY DEF GentooPipeline
<1>2. /\ K[1] = Download("portage.gpgsig") /\ K[2] = Download("portage.md5sum")
      /\ K[3] = Download("portage.umd5sum") /\ K[4] = Download("portage.tar.xz")
      /\ K[5] = Check("portage.tar.xz", {"portage.gpgsig"})
      /\ K[6] = Check("portage.tar.xz", {"portage.md5sum"})
      /\ K[7] = Download("stage3.DIGESTS") /\ K[8] = Download("stage3.tar.xz")
      /\ K[9] = Check("stage3.DIGESTS", {}) /\ K[10] = Check("stage3.tar.xz", {})
      /\ K[11] = Uncompress("portage.tar.xz", "portage.tar")
      /\ K[12] = Check("portage.tar", {"portage.umd5sum"})
      /\ K[13] = Extract("stage3.tar.xz") /\ K[14] = Extract("portage.tar")
  BY DEF GentooPipeline
<1> HIDE DEF K
<1>3. \A i \in 1..14 : i \in {1, 2, 3, 4, 7, 8} \/ i \in {5, 6, 9, 10, 12} \/ i = 11 \/ i \in {13, 14}
  OBVIOUS
<1>4. \A i \in {1, 2, 3, 4, 7, 8} : K[i] \in StepType /\ K[i].op # "extract" /\ K[i].file # "xbps-static-latest.tar"
  BY <1>2, Kinds DEF Files, Uncompressed, Download
<1>5. \A i \in {5, 6, 9, 10, 12} : K[i] \in StepType /\ K[i].op # "extract" /\ K[i].file # "xbps-static-latest.tar"
  BY <1>2, Kinds DEF Files, Uncompressed, Check
<1>6. K[11] \in StepType /\ K[11].op # "extract" /\ K[11].file # "xbps-static-latest.tar"
  BY <1>2, Kinds DEF Files, Uncompressed, Uncompress
<1>7. \A i \in {13, 14} : K[i] \in StepType /\ K[i].file # "xbps-static-latest.tar"
  BY <1>2, Kinds DEF Files, Uncompressed, Extract
<1> QED  BY <1>1, <1>2, <1>3, <1>4, <1>5, <1>6, <1>7 DEF K

LEMMA AlpineSteps ==
  /\ Len(AlpinePipeline) = 4
  /\ \A i \in 1..4 : /\ AlpinePipeline[i] \in StepType
                     /\ AlpinePipeline[i].file \in {"alpine.tar.gz.asc", "alpine.tar.gz"}
BY Kinds DEF AlpinePipeline, Download, Check, Extract, Files, Uncompressed

LEMMA ArchSteps ==
  /\ Len(ArchPipeline) = 2
  /\ \A i \in 1..2 : ArchPipeline[i] \in StepType /\ ArchPipeline[i].file = "arch.tar.zst"
BY Kinds DEF ArchPipeline, Download, Extract, Files, Uncompressed

LEMMA VoidSteps ==
  /\ Len(VoidPipeline) = 3
  /\ VoidPipeline[1] = Download("xbps-static-latest.tar.xz")
  /\ VoidPipeline[2] = Uncompress("xbps-static-latest.tar.xz", "xbps-static-latest.tar")
  /\ VoidPipeline[3] = Extract("xbps-static-latest.tar")
  /\ \A i \in 1..3 : VoidPipeline[i] \in StepType
BY Kinds DEF VoidPipeline, Files, Uncompressed

VoidTar == "xbps-static-latest.tar"

LEMMA AnyStep ==
  ASSUME NEW l \in Pipelines
  PROVE  /\ Len(l) \in 0..14
         /\ \A i \in 1..Len(l) :
              /\ l[i] \in StepType
              /\ l # VoidPipeline => l[i].file # VoidTar
              /\ l[i].op = "extract" /\ l[i].file \notin Compressed =>
                   \/ l = GentooPipeline /\ i = 14
                   \/ l = VoidPipeline /\ i = 3
<1>1. CASE l = GentooPipeline
  <2>1. \A i \in 1..14 : l[i].op = "extract" /\ l[i].file \notin Compressed => i = 14
    BY <1>1, GentooSteps DEF Extract, Compressed
  <2> QED  BY <1>1, <2>1, GentooSteps DEF VoidTar
<1>2. CASE l = AlpinePipeline
  <2>1. l[1].op = "download" /\ l[2].op = "download" /\ l[3].op = "check" /\ l[4].file = "alpine.tar.gz"
    BY <1>2 DEF AlpinePipeline, Download, Check, Extract
  <2>2. \A i \in 1..4 : l[i].op = "extract" => l[i].file \in Compressed
    <3>1. \A i \in 1..4 : i = 1 \/ i = 2 \/ i = 3 \/ i = 4  OBVIOUS
    <3> QED  BY <2>1, <3>1 DEF Compressed
  <2> QED  BY <1>2, <2>2, AlpineSteps DEF VoidTar
<1>3. CASE l = ArchPipeline
  BY <1>3, ArchSteps DEF VoidTar, Compressed
<1>4. CASE l = VoidPipeline
  <2>1. \A i \in 1..3 : l[i].op = "extract" => i = 3
    <3>1. \A i \in 1..3 : i = 1 \/ i = 2 \/ i = 3  OBVIOUS
    <3> QED  BY <1>4, <3>1, VoidSteps DEF Download, Uncompress
  <2> QED  BY <1>4, <2>1, VoidSteps
<1>5. CASE l = Nothing
  BY <1>5 DEF Nothing
<1> QED  BY <1>1, <1>2, <1>3, <1>4, <1>5 DEF Pipelines

(***************************************************************************)
(* The inductive invariant.                                                *)
(***************************************************************************)
(* An attempt meets at most one mishap, and ends with it.                  *)
Counted ==
  \A p \in Procs : mishaps[p] <= attempt[p] /\ (status[p] = "running" => mishaps[p] < attempt[p])

(* p is at a step of this kind, for this file.                             *)
On(p, op, f) == At(p, op) /\ Current(p).file = f

(* One process at most uncompresses to f, which is partial meanwhile.      *)
Exclusive ==
  \A p \in Procs, f \in Files :
    On(p, "uncompress", f) /\ phase[p] = "write" =>
      /\ cache[f] = "partial"
      /\ \A q \in Procs : On(q, "uncompress", f) /\ phase[q] = "write" => q = p

(* After the check of portage.tar it is whole, and remains so.             *)
Verified ==
  \A p \in Procs : work.pipeline[p] = GentooPipeline /\ step[p] \in 13..15 => cache["portage.tar"] = "whole"

Undisturbed(p) == Alone(p) /\ "kill" \notin work.faults

(* Only while it is being written is the tarball of Void partial.          *)
VoidWrites ==
  \A p \in Procs :
    work.pipeline[p] = VoidPipeline /\ Undisturbed(p) /\ cache[VoidTar] = "partial" =>
      status[p] = "running" /\ step[p] = 2 /\ phase[p] = "write"

(* What SoundSuccess says of the end holds all the time.                   *)
Undamaged ==
  \A p \in Procs : (work.pipeline[p] = VoidPipeline => Undisturbed(p)) => damaged[p] = {}

Inv == TypeOK /\ Counted /\ Exclusive /\ Verified /\ VoidWrites /\ Undamaged

(* The steps of the processes: one of them takes one.                      *)
StepOf(p) == Run(p) \/ BreakDownload(p) \/ Kill(p)

(***************************************************************************)
(* What a step of p does, as far as Inv tells steps apart.                 *)
(***************************************************************************)
(* The other processes stay where they are.                                *)
OthersStay(p) ==
  \A q \in Procs \ {p} : /\ step'[q] = step[q] /\ phase'[q] = phase[q]
                         /\ status'[q] = status[q] /\ damaged'[q] = damaged[q]
(* Which files p may change, and how.                                      *)
Touches(p) ==
  \A f \in Files :
    \/ cache'[f] = cache[f]
    \/ On(p, "download", f) /\ phase[p] # "look"
    \/ /\ On(p, "uncompress", f) /\ phase[p] = "open" /\ cache[f] = "absent"
       /\ cache'[f] = "partial" /\ phase'[p] = "write" /\ UNCHANGED <<step, status>>
    \/ On(p, "uncompress", f) /\ phase[p] = "write" /\ cache'[f] \in {"whole", "absent"}
(* Unless killed, unxz leaves a whole file or none.                        *)
StopsWriting(p) ==
  At(p, "uncompress") /\ phase[p] = "write" => "kill" \in work.faults \/ cache'[Current(p).file] # "partial"
(* How p comes to uncompress.                                              *)
Opens(p) ==
  phase'[p] = "write" /\ At(p, "uncompress")' =>
    \E f \in Files : /\ On(p, "uncompress", f) /\ phase[p] = "open" /\ cache[f] = "absent"
                     /\ cache'[f] = "partial" /\ UNCHANGED <<step, status>>
(* Where p gets to, and what may have been damaged on the way.             *)
Advances(p) ==
  \/ step'[p] \in {1, step[p]} /\ damaged'[p] \subseteq damaged[p]
  \/ /\ status[p] = "running" /\ step[p] \in 1..Len(work.pipeline[p])
     /\ step'[p] = step[p] + 1
     /\ At(p, "check") => Whole(Current(p).needs)
     /\ \/ damaged'[p] = damaged[p]
        \/ LET f == Current(p).file IN
           /\ At(p, "extract") /\ cache[f] = "partial" /\ f \notin Compressed

Effect(p) == OthersStay(p) /\ Touches(p) /\ StopsWriting(p) /\ Opens(p) /\ Advances(p)

Types == TypeOK /\ Counted

LEMMA WorkTyped ==
  ASSUME TypeOK
  PROVE  /\ work \in WorkloadType /\ work.attempts \in Nat \ {0}
         /\ \A p \in Procs : work.pipeline[p] \in Pipelines
<1>1. work \in WorkloadType
  BY WorkloadsAssumption DEF TypeOK
<1>2. work.pipeline \in [Procs -> Pipelines] /\ work.attempts \in 1..MaxAttempts
  BY <1>1 DEF WorkloadType
<1>3. work.attempts \in Nat \ {0}
  BY <1>2, MaxAttemptsAssumption
<1> QED  BY <1>1, <1>2, <1>3

LEMMA CurrentTyped ==
  ASSUME TypeOK, NEW p \in Procs, step[p] <= Len(work.pipeline[p])
  PROVE  /\ step[p] \in 1..Len(work.pipeline[p])
         /\ Current(p) \in StepType
         /\ Current(p).file \in Files
         /\ Current(p).op = "uncompress" => Current(p).file \in Uncompressed
         /\ Current(p).op = "download" => Current(p).file \notin Uncompressed
<1>1. Len(work.pipeline[p]) \in 0..14
  BY WorkTyped, AnyStep
<1>2. step[p] \in 1..Len(work.pipeline[p])
  <2>1. step[p] \in 1..15  BY DEF TypeOK
  <2> QED  BY <1>1, <2>1
<1>3. Current(p) \in StepType
  BY <1>2, WorkTyped, AnyStep DEF Current
<1>4. \A s \in StepType : /\ s.file \in Files
                          /\ s.op = "uncompress" => s.file \in Uncompressed
                          /\ s.op = "download" => s.file \notin Uncompressed
  BY DEF StepType, Uncompressed, Files
<1> QED  BY <1>2, <1>3, <1>4

LEMMA Places ==
  \A x \in 1..15, y \in 0..14 : 1 <= y + 1 /\ (x <= y => x \in 1..y /\ x + 1 \in 1..15 /\ x + 1 <= y + 1)
OBVIOUS

(* Proceeding and failing keep what is counted.                            *)
LEMMA Numbers ==
  ASSUME Types
  PROVE  /\ work.attempts \in Nat \ {0}
         /\ \A q \in Procs : /\ Len(work.pipeline[q]) \in 0..14
                             /\ step[q] \in 1..15 /\ step[q] <= Len(work.pipeline[q]) + 1
                             /\ step[q] <= Len(work.pipeline[q]) => step[q] + 1 \in 1..15
                             /\ 1 <= Len(work.pipeline[q]) + 1
                             /\ attempt[q] \in 1..work.attempts /\ mishaps[q] \in 0..work.attempts
                             /\ mishaps[q] <= attempt[q]
                             /\ status[q] = "running" => mishaps[q] < attempt[q]
<1>1. TypeOK /\ Counted  BY DEF Types
<1>2. \A q \in Procs : step[q] \in 1..15 /\ attempt[q] \in 1..work.attempts /\ mishaps[q] \in 0..work.attempts
  BY <1>1 DEF TypeOK
<1>3. \A q \in Procs : Len(work.pipeline[q]) \in 0..14
  BY <1>1, WorkTyped, AnyStep
<1>4. work.attempts \in Nat \ {0}
  BY <1>1, WorkTyped
<1>5. \A q \in Procs : step[q] <= Len(work.pipeline[q]) + 1
  BY <1>1 DEF TypeOK
<1>6. \A q \in Procs : step[q] <= Len(work.pipeline[q]) => step[q] + 1 \in 1..15
  BY <1>2, <1>3, Places, Zenon
<1>7. \A q \in Procs : 1 <= Len(work.pipeline[q]) + 1
  BY <1>2, <1>3, Places, Zenon
<1> QED  BY <1>1, <1>2, <1>3, <1>4, <1>5, <1>6, <1>7 DEF Counted

LEMMA ProceedTyped ==
  ASSUME Types, NEW p \in Procs, Proceed(p), step[p] <= Len(work.pipeline[p]), UNCHANGED work,
         cache' \in [Files -> {"absent", "partial", "whole"}],
         writer' \in [Files -> SUBSET Procs], damaged' \in [Procs -> SUBSET Files]
  PROVE  Types'
<1>1. step \in [Procs -> 1..15] /\ phase \in [Procs -> {"look", "open", "write"}]
  BY DEF Types, TypeOK
<1>2. /\ step' = [step EXCEPT ![p] = step[p] + 1] /\ phase' = [phase EXCEPT ![p] = "look"]
      /\ attempt' = attempt /\ status' = status /\ mishaps' = mishaps /\ work' = work
  BY DEF Proceed
<1>3. /\ step[p] \in 1..15 /\ Len(work.pipeline[p]) \in 0..14
      /\ \A q \in Procs : step[q] <= Len(work.pipeline[q]) + 1
  BY Numbers
<1>4. step[p] + 1 \in 1..15  BY Numbers, Zenon
<1>5. /\ step' \in [Procs -> 1..15]
      /\ \A q \in Procs : step'[q] <= Len(work.pipeline[q]) + 1
  BY <1>1, <1>2, <1>3, <1>4
<1>6. phase' \in [Procs -> {"look", "open", "write"}]
  BY <1>1, <1>2
<1>7. Counted'  BY <1>2 DEF Types, Counted
<1> QED  BY <1>2, <1>5, <1>6, <1>7, Zenon DEF Types, TypeOK

LEMMA FailTyped ==
  ASSUME Types, NEW p \in Procs, NEW n \in {0, 1}, Fail(p, n), status[p] = "running", UNCHANGED work,
         cache' \in [Files -> {"absent", "partial", "whole"}],
         writer' \in [Files -> SUBSET Procs]
  PROVE  Types'
<1>1. /\ step \in [Procs -> 1..15] /\ phase \in [Procs -> {"look", "open", "write"}]
      /\ attempt \in [Procs -> 1..work.attempts] /\ mishaps \in [Procs -> 0..work.attempts]
      /\ status \in [Procs -> {"running", "done", "gave up"}] /\ damaged \in [Procs -> SUBSET Files]
      /\ work \in Workloads
  BY DEF Types, TypeOK
<1>2. /\ mishaps' = [mishaps EXCEPT ![p] = mishaps[p] + n] /\ phase' = [phase EXCEPT ![p] = "look"]
      /\ work' = work
  BY DEF Fail
<1>3. mishaps[p] + n <= attempt[p] /\ mishaps[p] + n \in 0..work.attempts
  BY Numbers
<1>4. /\ mishaps' \in [Procs -> 0..work.attempts] /\ phase' \in [Procs -> {"look", "open", "write"}]
      /\ \A q \in Procs : mishaps'[q] = IF q = p THEN mishaps[p] + n ELSE mishaps[q]
  BY <1>1, <1>2, <1>3
<1>5. CASE attempt[p] < work.attempts
  <2>1. /\ attempt' = [attempt EXCEPT ![p] = attempt[p] + 1] /\ step' = [step EXCEPT ![p] = 1]
        /\ damaged' = [damaged EXCEPT ![p] = {}] /\ status' = status
    BY <1>5 DEF Fail
  <2>2. attempt[p] + 1 \in 1..work.attempts
    BY <1>5, Numbers
  <2>3. /\ attempt' \in [Procs -> 1..work.attempts]
        /\ \A q \in Procs : attempt'[q] = IF q = p THEN attempt[p] + 1 ELSE attempt[q]
    BY <1>1, <2>1, <2>2
  <2>4. /\ step' \in [Procs -> 1..15]
        /\ \A q \in Procs : step'[q] = IF q = p THEN 1 ELSE step[q]
    <3>1. 1 \in 1..15  OBVIOUS
    <3> QED  BY <1>1, <2>1, <3>1, Zenon
  <2>7. \A q \in Procs : step'[q] <= Len(work.pipeline[q]) + 1
    BY <2>4, Numbers
  <2>5. damaged' \in [Procs -> SUBSET Files]  BY <1>1, <2>1
  <2>6. Counted'
    BY <1>3, <1>4, <2>1, <2>3, Numbers DEF Counted
  <2> QED  BY <1>1, <1>2, <1>4, <2>1, <2>3, <2>4, <2>5, <2>6, <2>7, Zenon DEF Types, TypeOK
<1>6. CASE ~(attempt[p] < work.attempts)
  <2>1. /\ status' = [status EXCEPT ![p] = "gave up"]
        /\ attempt' = attempt /\ step' = step /\ damaged' = damaged
    BY <1>6 DEF Fail
  <2>2. /\ status' \in [Procs -> {"running", "done", "gave up"}]
        /\ \A q \in Procs : status'[q] = IF q = p THEN "gave up" ELSE status[q]
    BY <1>1, <2>1
  <2>3. Counted'
    BY <1>3, <1>4, <2>1, <2>2, Numbers DEF Counted
  <2>4. \A q \in Procs : step'[q] <= Len(work.pipeline[q]) + 1
    BY <2>1, Numbers
  <2> QED  BY <1>1, <1>2, <1>4, <2>1, <2>2, <2>3, <2>4, Zenon DEF Types, TypeOK
<1> QED  BY <1>5, <1>6

(* Proceeding and failing, as far as Effect is about them.                 *)
LEMMA ProceedMoves ==
  ASSUME TypeOK, NEW p \in Procs, Proceed(p)
  PROVE  /\ step'[p] = step[p] + 1 /\ phase'[p] = "look" /\ status' = status
         /\ \A q \in Procs \ {p} : step'[q] = step[q] /\ phase'[q] = phase[q]
BY DEF TypeOK, Proceed

LEMMA FailMoves ==
  ASSUME TypeOK, NEW p \in Procs, NEW n, Fail(p, n)
  PROVE  /\ step'[p] \in {1, step[p]} /\ phase'[p] = "look" /\ damaged'[p] \subseteq damaged[p]
         /\ OthersStay(p)
BY DEF TypeOK, Fail, OthersStay

LEMMA Quiet ==
  ASSUME NEW p \in Procs, UNCHANGED cache
  PROVE  Touches(p)
BY DEF Touches

LEMMA ReuseEffect ==
  ASSUME Types, NEW p \in Procs, Reuse(p), UNCHANGED work
  PROVE  Types' /\ Effect(p)
<1>1. /\ status[p] = "running" /\ step[p] <= Len(work.pipeline[p]) /\ phase[p] = "look"
      /\ Current(p).op \in {"download", "uncompress"}
      /\ Proceed(p) /\ cache' = cache /\ writer' = writer /\ damaged' = damaged
  BY DEF Reuse, At
<1>2. TypeOK  BY DEF Types
<1>3. Types'  BY <1>1, <1>2, ProceedTyped DEF TypeOK
<1>4. /\ step'[p] = step[p] + 1 /\ phase'[p] = "look" /\ status' = status
      /\ \A q \in Procs \ {p} : step'[q] = step[q] /\ phase'[q] = phase[q]
  BY <1>1, <1>2, ProceedMoves
<1>5. step[p] \in 1..Len(work.pipeline[p])  BY <1>1, <1>2, CurrentTyped
<1>6. Advances(p)  BY <1>1, <1>4, <1>5, Zenon DEF Advances, At
<1> QED  BY <1>1, <1>3, <1>4, <1>6, Quiet, Zenon DEF Effect, OthersStay, StopsWriting, Opens, At

LEMMA FindAbsentEffect ==
  ASSUME Types, NEW p \in Procs, FindAbsent(p), UNCHANGED work
  PROVE  Types' /\ Effect(p)
<1>1. /\ phase[p] = "look" /\ phase' = [phase EXCEPT ![p] = "open"]
      /\ UNCHANGED <<cache, writer, step, attempt, status, mishaps, damaged>>
  BY DEF FindAbsent
<1>2. phase \in [Procs -> {"look", "open", "write"}]  BY DEF Types, TypeOK
<1>3. /\ phase' \in [Procs -> {"look", "open", "write"}] /\ phase'[p] = "open"
      /\ \A q \in Procs \ {p} : phase'[q] = phase[q]
  BY <1>1, <1>2
<1>4. Types'  BY <1>1, <1>3, Zenon DEF Types, TypeOK, Counted
<1> QED
  BY <1>1, <1>3, <1>4, Quiet, Zenon DEF Effect, OthersStay, StopsWriting, Opens, At, Advances

LEMMA OpenDownloadEffect ==
  ASSUME Types, NEW p \in Procs, OpenDownload(p), UNCHANGED work
  PROVE  Types' /\ Effect(p)
<1> DEFINE f == Current(p).file
<1>1. /\ phase[p] = "open" /\ phase' = [phase EXCEPT ![p] = "write"] /\ At(p, "download")
      /\ cache' = [cache EXCEPT ![f] = "partial"] /\ writer' = [writer EXCEPT ![f] = {p}]
      /\ UNCHANGED <<step, attempt, status, mishaps, damaged>>
  BY DEF OpenDownload
<1>2. TypeOK  BY DEF Types
<1>3. f \in Files  BY <1>1, <1>2, CurrentTyped DEF At
<1> HIDE DEF f
<1>4. /\ phase' \in [Procs -> {"look", "open", "write"}] /\ phase'[p] = "write"
      /\ \A q \in Procs \ {p} : phase'[q] = phase[q]
      /\ cache' \in [Files -> {"absent", "partial", "whole"}]
      /\ \A g \in Files \ {f} : cache'[g] = cache[g]
      /\ writer' \in [Files -> SUBSET Procs]
  BY <1>1, <1>2, <1>3 DEF TypeOK
<1>5. Types'  BY <1>1, <1>4, Zenon DEF Types, TypeOK, Counted
<1>6. ~At(p, "uncompress") /\ ~At(p, "uncompress")'
  BY <1>1 DEF At, Current
<1>7. Touches(p)
  BY <1>1, <1>4 DEF Touches, On, f
<1> QED
  BY <1>1, <1>4, <1>5, <1>6, <1>7, Zenon DEF Effect, OthersStay, StopsWriting, Opens, Advances

LEMMA CompleteDownloadEffect ==
  ASSUME Types, NEW p \in Procs, CompleteDownload(p), UNCHANGED work
  PROVE  Types' /\ Effect(p)
<1> DEFINE f == Current(p).file
<1>1. /\ At(p, "download") /\ phase[p] = "write"
      /\ cache' = IF p \in writer[f] THEN [cache EXCEPT ![f] = "whole"] ELSE cache
      /\ writer' = [writer EXCEPT ![f] = writer[f] \ {p}]
      /\ Proceed(p) /\ damaged' = damaged
  BY DEF CompleteDownload
<1>2. TypeOK  BY DEF Types
<1>3. f \in Files /\ step[p] \in 1..Len(work.pipeline[p])  BY <1>1, <1>2, CurrentTyped DEF At
<1> HIDE DEF f
<1>4. /\ cache' \in [Files -> {"absent", "partial", "whole"}]
      /\ \A g \in Files \ {f} : cache'[g] = cache[g]
      /\ writer' \in [Files -> SUBSET Procs]
  BY <1>1, <1>2, <1>3 DEF TypeOK
<1>5. Types'  BY <1>1, <1>2, <1>4, ProceedTyped DEF TypeOK, At
<1>6. /\ step'[p] = step[p] + 1 /\ phase'[p] = "look" /\ status' = status
      /\ \A q \in Procs \ {p} : step'[q] = step[q] /\ phase'[q] = phase[q]
  BY <1>1, <1>2, ProceedMoves
<1>7. ~At(p, "uncompress") /\ ~At(p, "check") /\ status[p] = "running"  BY <1>1 DEF At
<1>8. Touches(p)  BY <1>1, <1>4 DEF Touches, On, f
<1>9. Advances(p)  BY <1>1, <1>3, <1>6, <1>7, Zenon DEF Advances
<1> QED
  BY <1>1, <1>5, <1>6, <1>7, <1>8, <1>9, Zenon DEF Effect, OthersStay, StopsWriting, Opens

LEMMA BreakDownloadEffect ==
  ASSUME Types, NEW p \in Procs, BreakDownload(p), UNCHANGED work
  PROVE  Types' /\ Effect(p)
<1> DEFINE f == Current(p).file
<1>1. /\ At(p, "download") /\ writer' = [writer EXCEPT ![f] = writer[f] \ {p}]
      /\ Fail(p, 1) /\ cache' = cache
  BY DEF BreakDownload
<1>2. TypeOK  BY DEF Types
<1>3. f \in Files  BY <1>1, <1>2, CurrentTyped DEF At
<1> HIDE DEF f
<1>4. writer' \in [Files -> SUBSET Procs]  BY <1>1, <1>2, <1>3 DEF TypeOK
<1>5. status[p] = "running"  BY <1>1 DEF At
<1>6. Types'  BY <1>1, <1>2, <1>4, <1>5, FailTyped DEF TypeOK
<1>7. /\ step'[p] \in {1, step[p]} /\ phase'[p] = "look" /\ damaged'[p] \subseteq damaged[p]
      /\ OthersStay(p)
  BY <1>1, <1>2, FailMoves
<1>8. ~At(p, "uncompress")  BY <1>1 DEF At
<1> QED
  BY <1>1, <1>6, <1>7, <1>8, Quiet, Zenon DEF Effect, StopsWriting, Opens, Advances

LEMMA VerifyEffect ==
  ASSUME Types, NEW p \in Procs, Verify(p), UNCHANGED work
  PROVE  Types' /\ Effect(p)
<1>1. At(p, "check") /\ cache' = cache /\ writer' = writer  BY DEF Verify
<1>2. TypeOK  BY DEF Types
<1>3. ~At(p, "uncompress") /\ status[p] = "running"  BY <1>1 DEF At
<1>4. CASE Whole(Current(p).needs) /\ Proceed(p) /\ damaged' = damaged
  <2>1. Types'  BY <1>1, <1>2, <1>4, ProceedTyped DEF TypeOK, At
  <2>2. /\ step'[p] = step[p] + 1 /\ phase'[p] = "look" /\ status' = status
        /\ \A q \in Procs \ {p} : step'[q] = step[q] /\ phase'[q] = phase[q]
    BY <1>2, <1>4, ProceedMoves
  <2>3. step[p] \in 1..Len(work.pipeline[p])  BY <1>1, <1>2, CurrentTyped DEF At
  <2>4. Advances(p)  BY <1>3, <1>4, <2>2, <2>3, Zenon DEF Advances
  <2> QED
    BY <1>1, <1>3, <1>4, <2>1, <2>2, <2>4, Quiet, Zenon DEF Effect, OthersStay, StopsWriting, Opens
<1>5. CASE Fail(p, 0)
  <2>1. Types'  BY <1>1, <1>2, <1>3, <1>5, FailTyped DEF TypeOK
  <2>2. /\ step'[p] \in {1, step[p]} /\ phase'[p] = "look" /\ damaged'[p] \subseteq damaged[p]
        /\ OthersStay(p)
    BY <1>2, <1>5, FailMoves
  <2> QED
    BY <1>1, <1>3, <2>1, <2>2, Quiet, Zenon DEF Effect, StopsWriting, Opens, Advances
<1> QED  BY <1>4, <1>5 DEF Verify

LEMMA OpenUncompressedEffect ==
  ASSUME Types, NEW p \in Procs, OpenUncompressed(p), UNCHANGED work
  PROVE  Types' /\ Effect(p)
<1> DEFINE f == Current(p).file
<1>1. At(p, "uncompress") /\ phase[p] = "open" /\ status[p] = "running"
  BY DEF OpenUncompressed, At
<1>2. TypeOK  BY DEF Types
<1>3. f \in Files  BY <1>1, <1>2, CurrentTyped DEF At
<1>4. On(p, "uncompress", f)  BY <1>1 DEF On
<1>5. CASE /\ cache[f] = "absent" /\ cache' = [cache EXCEPT ![f] = "partial"]
           /\ writer' = [writer EXCEPT ![f] = {p}] /\ phase' = [phase EXCEPT ![p] = "write"]
           /\ UNCHANGED <<step, attempt, status, mishaps, damaged>>
  <2> HIDE DEF f
  <2>1. /\ phase' \in [Procs -> {"look", "open", "write"}] /\ phase'[p] = "write"
        /\ \A q \in Procs \ {p} : phase'[q] = phase[q]
        /\ cache' \in [Files -> {"absent", "partial", "whole"}]
        /\ cache'[f] = "partial" /\ \A g \in Files \ {f} : cache'[g] = cache[g]
        /\ writer' \in [Files -> SUBSET Procs]
    BY <1>2, <1>3, <1>5 DEF TypeOK
  <2>2. Types'  BY <1>5, <2>1, Zenon DEF Types, TypeOK, Counted
  <2>3. Touches(p)
    <3> SUFFICES ASSUME NEW g \in Files, cache'[g] # cache[g]
                 PROVE  /\ On(p, "uncompress", g) /\ phase[p] = "open" /\ cache[g] = "absent"
                        /\ cache'[g] = "partial" /\ phase'[p] = "write" /\ UNCHANGED <<step, status>>
      BY Zenon DEF Touches
    <3>1. g = f  BY <2>1
    <3> QED  BY <1>1, <1>4, <1>5, <2>1, <3>1
  <2>4. Opens(p)
    BY <1>1, <1>3, <1>4, <1>5, <2>1, Zenon DEF Opens
  <2>5. StopsWriting(p) /\ Advances(p) /\ OthersStay(p)
    BY <1>1, <1>5, <2>1, Zenon DEF StopsWriting, Advances, OthersStay
  <2> QED  BY <2>2, <2>3, <2>4, <2>5 DEF Effect
<1>6. CASE Fail(p, 0) /\ cache' = cache /\ writer' = writer
  <2>1. Types'  BY <1>1, <1>2, <1>6, FailTyped DEF TypeOK
  <2>2. /\ step'[p] \in {1, step[p]} /\ phase'[p] = "look" /\ damaged'[p] \subseteq damaged[p]
        /\ OthersStay(p)
    BY <1>2, <1>6, FailMoves
  <2> QED
    BY <1>1, <1>6, <2>1, <2>2, Quiet, Zenon DEF Effect, StopsWriting, Opens, Advances
<1> QED  BY <1>5, <1>6 DEF OpenUncompressed

LEMMA CompleteUncompressedEffect ==
  ASSUME Types, NEW p \in Procs, CompleteUncompressed(p), UNCHANGED work
  PROVE  Types' /\ Effect(p)
<1> DEFINE f == Current(p).file
<1>1. At(p, "uncompress") /\ phase[p] = "write" /\ status[p] = "running"
      /\ writer' = [writer EXCEPT ![f] = writer[f] \ {p}]
  BY DEF CompleteUncompressed, At
<1>2. TypeOK  BY DEF Types
<1>3. f \in Files /\ step[p] \in 1..Len(work.pipeline[p])  BY <1>1, <1>2, CurrentTyped DEF At
<1>4. On(p, "uncompress", f) /\ ~At(p, "check")  BY <1>1 DEF On, At
<1>5. \E c \in {"whole", "absent"} : cache' = [cache EXCEPT ![f] = c]
  BY DEF CompleteUncompressed
<1>6. \/ Proceed(p) /\ damaged' = damaged
      \/ Fail(p, 0)
  BY DEF CompleteUncompressed
<1>7. StopsWriting(p) /\ Touches(p)
  <2> SUFFICES ASSUME TRUE
               PROVE  /\ cache'[f] # "partial" /\ cache'[f] \in {"whole", "absent"}
                      /\ \A g \in Files \ {f} : cache'[g] = cache[g]
    BY <1>1, <1>4, Zenon DEF StopsWriting, Touches
  <2> HIDE DEF f
  <2> QED  BY <1>2, <1>3, <1>5 DEF TypeOK
<1>8. writer' \in [Files -> SUBSET Procs] /\ cache' \in [Files -> {"absent", "partial", "whole"}]
  <2> HIDE DEF f
  <2> QED  BY <1>1, <1>2, <1>3, <1>5 DEF TypeOK
<1>9. CASE Proceed(p) /\ damaged' = damaged
  <2>1. Types'  BY <1>1, <1>2, <1>8, <1>9, ProceedTyped DEF TypeOK, At
  <2>2. /\ step'[p] = step[p] + 1 /\ phase'[p] = "look" /\ status' = status
        /\ \A q \in Procs \ {p} : step'[q] = step[q] /\ phase'[q] = phase[q]
    BY <1>2, <1>9, ProceedMoves
  <2>3. Advances(p)  BY <1>1, <1>3, <1>4, <1>9, <2>2, Zenon DEF Advances
  <2> QED  BY <1>7, <1>9, <2>1, <2>2, <2>3, Zenon DEF Effect, OthersStay, Opens
<1>10. CASE Fail(p, 0)
  <2>1. Types'  BY <1>1, <1>8, <1>10, FailTyped
  <2>2. /\ step'[p] \in {1, step[p]} /\ phase'[p] = "look" /\ damaged'[p] \subseteq damaged[p]
        /\ OthersStay(p)
    BY <1>2, <1>10, FailMoves
  <2> QED  BY <1>7, <2>1, <2>2, Zenon DEF Effect, Opens, Advances
<1> QED  BY <1>6, <1>9, <1>10

LEMMA ExtractTarballEffect ==
  ASSUME Types, NEW p \in Procs, ExtractTarball(p), UNCHANGED work
  PROVE  Types' /\ Effect(p)
<1> DEFINE f == Current(p).file
<1>1. At(p, "extract") /\ cache' = cache /\ writer' = writer  BY DEF ExtractTarball
<1>2. TypeOK  BY DEF Types
<1>3. f \in Files /\ step[p] \in 1..Len(work.pipeline[p])  BY <1>1, <1>2, CurrentTyped DEF At
<1>4. ~At(p, "uncompress") /\ ~At(p, "check") /\ status[p] = "running"  BY <1>1 DEF At
<1>5. CASE /\ Proceed(p)
           /\ \/ damaged' = damaged
              \/ /\ cache[f] = "partial" /\ f \notin Compressed
                 /\ damaged' = [damaged EXCEPT ![p] = damaged[p] \cup {f}]
  <2>1. /\ damaged' \in [Procs -> SUBSET Files]
        /\ \A q \in Procs \ {p} : damaged'[q] = damaged[q]
        /\ damaged'[p] = damaged[p] \/ (cache[f] = "partial" /\ f \notin Compressed)
    <3> HIDE DEF f
    <3>1. damaged \in [Procs -> SUBSET Files]  BY <1>2 DEF TypeOK
    <3>2. CASE damaged' = damaged  BY <3>1, <3>2
    <3>3. CASE /\ cache[f] = "partial" /\ f \notin Compressed
               /\ damaged' = [damaged EXCEPT ![p] = damaged[p] \cup {f}]
      BY <1>3, <3>1, <3>3
    <3> QED  BY <1>5, <3>2, <3>3
  <2>2. Types'  BY <1>1, <1>2, <1>5, <2>1, ProceedTyped DEF TypeOK, At
  <2>3. /\ step'[p] = step[p] + 1 /\ phase'[p] = "look" /\ status' = status
        /\ \A q \in Procs \ {p} : step'[q] = step[q] /\ phase'[q] = phase[q]
    BY <1>2, <1>5, ProceedMoves
  <2>4. Advances(p)  BY <1>1, <1>3, <1>4, <2>1, <2>3, Zenon DEF Advances
  <2> QED
    BY <1>1, <1>4, <2>1, <2>2, <2>3, <2>4, Quiet, Zenon DEF Effect, OthersStay, StopsWriting, Opens
<1>6. CASE Fail(p, 0)
  <2>1. Types'  BY <1>1, <1>2, <1>4, <1>6, FailTyped DEF TypeOK
  <2>2. /\ step'[p] \in {1, step[p]} /\ phase'[p] = "look" /\ damaged'[p] \subseteq damaged[p]
        /\ OthersStay(p)
    BY <1>2, <1>6, FailMoves
  <2> QED
    BY <1>1, <1>4, <2>1, <2>2, Quiet, Zenon DEF Effect, StopsWriting, Opens, Advances
<1> QED  BY <1>5, <1>6, Zenon DEF ExtractTarball

LEMMA FinishEffect ==
  ASSUME Types, NEW p \in Procs, Finish(p), UNCHANGED work
  PROVE  Types' /\ Effect(p)
<1>1. /\ status[p] = "running" /\ step[p] = Len(work.pipeline[p]) + 1
      /\ status' = [status EXCEPT ![p] = "done"]
      /\ UNCHANGED <<cache, writer, step, phase, attempt, mishaps, damaged>>
  BY DEF Finish
<1>2. status \in [Procs -> {"running", "done", "gave up"}]  BY DEF Types, TypeOK
<1>3. /\ status' \in [Procs -> {"running", "done", "gave up"}] /\ status'[p] = "done"
      /\ \A q \in Procs \ {p} : status'[q] = status[q]
  BY <1>1, <1>2
<1>4. Counted'  BY <1>1, <1>3, Zenon DEF Types, Counted
<1>5. TypeOK'  BY <1>1, <1>3, Zenon DEF Types, TypeOK
<1>6. ~At(p, "uncompress") /\ ~At(p, "uncompress")'
  <2>1. Len(work.pipeline[p]) \in 0..14  BY Numbers
  <2>2. \A n \in 0..14 : ~(n + 1 <= n)  OBVIOUS
  <2> QED  BY <1>1, <1>3, <2>1, <2>2, Zenon DEF At
<1> QED
  BY <1>1, <1>3, <1>4, <1>5, <1>6, Quiet, Zenon
     DEF Types, Effect, OthersStay, StopsWriting, Opens, Advances

LEMMA KillEffect ==
  ASSUME Types, NEW p \in Procs, Kill(p), UNCHANGED work
  PROVE  Types' /\ Effect(p)
<1>1. /\ "kill" \in work.faults /\ status[p] = "running" /\ Fail(p, 1) /\ cache' = cache
      /\ writer' = [f \in Files |-> writer[f] \ {p}]
  BY DEF Kill
<1>2. TypeOK  BY DEF Types
<1>3. writer' \in [Files -> SUBSET Procs]  BY <1>1, <1>2 DEF TypeOK
<1>4. Types'  BY <1>1, <1>2, <1>3, FailTyped DEF TypeOK
<1>5. /\ step'[p] \in {1, step[p]} /\ phase'[p] = "look" /\ damaged'[p] \subseteq damaged[p]
      /\ OthersStay(p)
  BY <1>1, <1>2, FailMoves
<1> QED
  BY <1>1, <1>4, <1>5, Quiet, Zenon DEF Effect, StopsWriting, Opens, Advances

LEMMA StepEffect ==
  ASSUME Types, NEW p \in Procs, StepOf(p), UNCHANGED work
  PROVE  Types' /\ Effect(p)
BY ReuseEffect, FindAbsentEffect, OpenDownloadEffect, CompleteDownloadEffect, BreakDownloadEffect,
   VerifyEffect, OpenUncompressedEffect, CompleteUncompressedEffect, ExtractTarballEffect,
   FinishEffect, KillEffect
   DEF StepOf, Run

(***************************************************************************)
(* What the steps do to the parts of Inv.                                  *)
(***************************************************************************)
LEMMA ExclusiveKept ==
  ASSUME Types, Exclusive, NEW p \in Procs, Effect(p), UNCHANGED work
  PROVE  Exclusive'
<1> SUFFICES ASSUME NEW q \in Procs, NEW f \in Files,
                    On(q, "uncompress", f)', phase'[q] = "write"
             PROVE  /\ cache'[f] = "partial"
                    /\ \A r \in Procs : On(r, "uncompress", f)' /\ phase'[r] = "write" => r = q
  BY Zenon DEF Exclusive
<1>1. ASSUME NEW r \in Procs \ {p}, On(r, "uncompress", f)', phase'[r] = "write"
      PROVE  On(r, "uncompress", f) /\ phase[r] = "write"
  <2>1. step'[r] = step[r] /\ phase'[r] = phase[r] /\ status'[r] = status[r]
    BY <1>1 DEF Effect, OthersStay
  <2> QED  BY <1>1, <2>1, Zenon DEF On, At, Current
<1>2. ASSUME On(p, "uncompress", f)', phase'[p] = "write"
      PROVE  On(p, "uncompress", f) /\ cache[f] = "absent" /\ cache'[f] = "partial"
  <2>1. At(p, "uncompress")'  BY <1>2 DEF On
  <2>2. PICK g \in Files : /\ On(p, "uncompress", g) /\ cache[g] = "absent"
                           /\ cache'[g] = "partial" /\ UNCHANGED <<step, status>>
    BY <1>2, <2>1, Zenon DEF Effect, Opens
  <2>3. g = f
    BY <1>2, <2>2, Zenon DEF On, Current
  <2> QED  BY <2>2, <2>3
<1>3. ASSUME NEW r \in Procs \ {p}, On(r, "uncompress", f), phase[r] = "write"
      PROVE  cache'[f] = "partial" /\ cache[f] = "partial"
  <2>1. cache[f] = "partial"  BY <1>3, Zenon DEF Exclusive
  <2>2. f \in Uncompressed
    BY <1>3, CurrentTyped, Zenon DEF On, At, Types
  <2>3. ~On(p, "download", f)
    BY <2>2, CurrentTyped, Zenon DEF On, At, Types
  <2>4. ~(On(p, "uncompress", f) /\ phase[p] = "write")
    BY <1>3, Zenon DEF Exclusive
  <2>5. "partial" # "absent"  OBVIOUS
  <2> QED  BY <2>1, <2>3, <2>4, <2>5, Zenon DEF Effect, Touches
<1>4. CASE q = p
  <2>1. cache[f] = "absent" /\ cache'[f] = "partial"  BY <1>2, <1>4
  <2>2. ASSUME NEW r \in Procs, On(r, "uncompress", f)', phase'[r] = "write", r # p PROVE FALSE
    <3>1. cache[f] = "partial"  BY <1>1, <1>3, <2>2
    <3> QED  BY <2>1, <3>1
  <2> QED  BY <1>4, <2>1, <2>2, Zenon
<1>5. CASE q # p
  <2>1. /\ On(q, "uncompress", f) /\ phase[q] = "write"
        /\ cache'[f] = "partial" /\ cache[f] = "partial"
    BY <1>1, <1>3, <1>5
  <2>2. ASSUME NEW r \in Procs, On(r, "uncompress", f)', phase'[r] = "write", r # q PROVE FALSE
    <3>1. r # p
      <4> SUFFICES ASSUME r = p PROVE FALSE  OBVIOUS
      <4>1. cache[f] = "absent"  BY <1>2, <2>2
      <4> QED  BY <2>1, <4>1
    <3>2. On(r, "uncompress", f) /\ phase[r] = "write"  BY <1>1, <2>2, <3>1
    <3> QED  BY <2>1, <2>2, <3>2, Zenon DEF Exclusive
  <2> QED  BY <2>1, <2>2, Zenon
<1> QED  BY <1>4, <1>5

(* An uncompressed tarball that is whole stays so.                         *)
LEMMA TarStaysWhole ==
  ASSUME Types, Exclusive, NEW p \in Procs, Effect(p), NEW f \in Uncompressed, cache[f] = "whole"
  PROVE  cache'[f] = "whole"
<1>1. f \in Files  BY DEF Uncompressed, Files
<1>2. ~On(p, "download", f)  BY CurrentTyped, Zenon DEF On, At, Types
<1>3. "whole" # "absent" /\ "whole" # "partial"  OBVIOUS
<1>4. ~(On(p, "uncompress", f) /\ phase[p] = "write")
  BY <1>1, <1>3, Zenon DEF Exclusive
<1> QED  BY <1>1, <1>2, <1>3, <1>4, Zenon DEF Effect, Touches

LEMMA VerifiedKept ==
  ASSUME Types, Exclusive, Verified, NEW p \in Procs, Effect(p), UNCHANGED work
  PROVE  Verified'
<1>1. "portage.tar" \in Uncompressed  BY DEF Uncompressed
<1> SUFFICES ASSUME NEW q \in Procs, work.pipeline[q] = GentooPipeline, step'[q] \in 13..15
             PROVE  cache["portage.tar"] = "whole"
  BY <1>1, TarStaysWhole, Zenon DEF Verified
<1>2. CASE step[q] \in 13..15  BY <1>2, Zenon DEF Verified
<1>3. CASE step[q] \notin 13..15
  <2>1. q = p  BY <1>3, Zenon DEF Effect, OthersStay
  <2>2. step[p] \in 1..15  BY Numbers
  <2>3. step'[p] # 1 /\ step'[p] # step[p]  BY <1>3, <2>1
  <2>4. /\ step'[p] = step[p] + 1 /\ step[p] \in 1..Len(work.pipeline[p]) /\ status[p] = "running"
        /\ At(p, "check") => Whole(Current(p).needs)
    BY <2>3, Zenon DEF Effect, Advances
  <2>5. step[p] = 12  BY <1>3, <2>1, <2>2, <2>4
  <2>6. Current(p) = Check("portage.tar", {"portage.umd5sum"})
    BY <2>1, <2>5, GentooSteps DEF Current
  <2>7. At(p, "check")
    <3>1. Len(work.pipeline[p]) = 14  BY <2>1, GentooSteps
    <3>2. 12 <= 14  OBVIOUS
    <3> QED  BY <2>4, <2>5, <2>6, <3>1, <3>2 DEF At, Check
  <2> QED  BY <2>4, <2>6, <2>7 DEF Check, Whole
<1> QED  BY <1>2, <1>3

(* Who shares no file with a process of Void runs something else.          *)
LEMMA AloneDiffers ==
  ASSUME NEW p \in Procs, NEW q \in Procs \ {p}, Alone(p), work.pipeline[p] = VoidPipeline
  PROVE  work.pipeline[q] # VoidPipeline
<1> SUFFICES ASSUME work.pipeline[q] = VoidPipeline PROVE FALSE  OBVIOUS
<1>1. 3 \in 1..Len(VoidPipeline)  BY VoidSteps
<1>2. VoidPipeline[3].file \in FilesOf(p) /\ VoidPipeline[3].file \in FilesOf(q)
  BY <1>1, Zenon DEF FilesOf
<1> QED  BY <1>2, Zenon DEF Alone

LEMMA UndisturbedKept ==
  ASSUME UNCHANGED work
  PROVE  \A q \in Procs : Undisturbed(q)' <=> Undisturbed(q)
<1>1. \A q : FilesOf(q)' = FilesOf(q)  BY DEF FilesOf
<1> QED  BY <1>1, Zenon DEF Undisturbed, Alone

LEMMA VoidWritesKept ==
  ASSUME Types, VoidWrites, NEW p \in Procs, Effect(p), UNCHANGED work
  PROVE  VoidWrites'
<1>1. \A q \in Procs : Undisturbed(q)' <=> Undisturbed(q)
  BY UndisturbedKept
<1> SUFFICES ASSUME NEW q \in Procs, work.pipeline[q] = VoidPipeline, Undisturbed(q),
                    cache'[VoidTar] = "partial"
             PROVE  status'[q] = "running" /\ step'[q] = 2 /\ phase'[q] = "write"
  BY <1>1, Zenon DEF VoidWrites
<1>2. VoidTar \in Files  BY DEF VoidTar, Files
<1>3. CASE q # p
  <2>1. work.pipeline[p] # VoidPipeline /\ work.pipeline[p] \in Pipelines
    BY <1>3, AloneDiffers, WorkTyped DEF Undisturbed, Types
  <2>2. \A op : ~On(p, op, VoidTar)
    <3> SUFFICES ASSUME NEW op, On(p, op, VoidTar) PROVE FALSE  OBVIOUS
    <3>1. step[p] \in 1..Len(work.pipeline[p])
      BY CurrentTyped DEF Types, On, At
    <3> QED  BY <2>1, <3>1, AnyStep, Zenon DEF On, Current
  <2>3. cache'[VoidTar] = cache[VoidTar]  BY <1>2, <2>2, Zenon DEF Effect, Touches
  <2>4. status'[q] = status[q] /\ step'[q] = step[q] /\ phase'[q] = phase[q]
    BY <1>3, Zenon DEF Effect, OthersStay
  <2> QED  BY <2>3, <2>4, Zenon DEF VoidWrites
<1>4. CASE q = p
  <2>1. \A i \in 1..Len(VoidPipeline) :
          /\ VoidPipeline[i].op = "download" => VoidPipeline[i].file # VoidTar
          /\ VoidPipeline[i].op = "uncompress" => i = 2
    <3>1. \A i \in 1..3 : i = 1 \/ i = 2 \/ i = 3  OBVIOUS
    <3> QED  BY <3>1, VoidSteps DEF Download, Uncompress, Extract, VoidTar
  <2>2. \A op : On(p, op, VoidTar) => step[p] \in 1..Len(VoidPipeline) /\ status[p] = "running"
    BY <1>4, CurrentTyped, Zenon DEF Types, On, At
  <2>3. ~On(p, "download", VoidTar)
    BY <1>4, <2>1, <2>2, Zenon DEF On, At, Current
  <2>4. On(p, "uncompress", VoidTar) => step[p] = 2 /\ status[p] = "running"
    BY <1>4, <2>1, <2>2, Zenon DEF On, At, Current
  <2>5. cache'[VoidTar] # "whole" /\ cache'[VoidTar] # "absent"  OBVIOUS
  <2>6. cache'[VoidTar] = cache[VoidTar] \/ (On(p, "uncompress", VoidTar) /\ phase'[p] = "write" /\ UNCHANGED <<step, status>>)
    BY <1>2, <2>3, <2>5, Zenon DEF Effect, Touches
  <2>7. cache'[VoidTar] # cache[VoidTar]
    <3> SUFFICES ASSUME cache[VoidTar] = "partial" PROVE FALSE  BY Zenon
    <3>1. status[p] = "running" /\ step[p] = 2 /\ phase[p] = "write"
      BY <1>4, Zenon DEF VoidWrites
    <3>2. Current(p) = Uncompress("xbps-static-latest.tar.xz", VoidTar) /\ 2 <= Len(work.pipeline[p])
      BY <1>4, <3>1, VoidSteps DEF Current, VoidTar
    <3>3. Current(p).op = "uncompress" /\ Current(p).file = VoidTar
      BY <3>2 DEF Uncompress
    <3>4. At(p, "uncompress")
      BY <3>1, <3>2, <3>3, Zenon DEF At
    <3> QED  BY <1>4, <3>1, <3>3, <3>4, Zenon DEF Effect, StopsWriting, Undisturbed
  <2> QED  BY <1>4, <2>4, <2>6, <2>7, Zenon
<1> QED  BY <1>3, <1>4

LEMMA UndamagedKept ==
  ASSUME Types, Verified, VoidWrites, Undamaged, NEW p \in Procs, Effect(p), UNCHANGED work
  PROVE  Undamaged'
<1>1. \A q \in Procs : Undisturbed(q)' <=> Undisturbed(q)
  BY UndisturbedKept
<1> SUFFICES ASSUME NEW q \in Procs, work.pipeline[q] = VoidPipeline => Undisturbed(q)
             PROVE  damaged'[q] = {}
  BY <1>1, Zenon DEF Undamaged
<1>2. damaged[q] = {}  BY Zenon DEF Undamaged
<1>3. CASE q # p  BY <1>2, <1>3, Zenon DEF Effect, OthersStay
<1>4. CASE q = p
  <2>1. \/ damaged'[p] \subseteq damaged[p]
        \/ /\ step[p] \in 1..Len(work.pipeline[p]) /\ At(p, "extract")
           /\ cache[Current(p).file] = "partial" /\ Current(p).file \notin Compressed
    BY Zenon DEF Effect, Advances
  <2>2. SUFFICES ASSUME step[p] \in 1..Len(work.pipeline[p]), At(p, "extract"),
                        cache[Current(p).file] = "partial", Current(p).file \notin Compressed
                 PROVE  FALSE
    BY <1>2, <1>4, <2>1
  <2>3. \/ work.pipeline[p] = GentooPipeline /\ step[p] = 14
        \/ work.pipeline[p] = VoidPipeline /\ step[p] = 3
    BY <2>2, AnyStep, WorkTyped, Zenon DEF At, Current, Types
  <2>4. CASE work.pipeline[p] = GentooPipeline /\ step[p] = 14
    <3>1. Current(p).file = "portage.tar"
      BY <2>4, GentooSteps DEF Current, Extract
    <3>2. 14 \in 13..15  OBVIOUS
    <3>3. cache["portage.tar"] = "whole"  BY <2>4, <3>2, Zenon DEF Verified
    <3> QED  BY <2>2, <3>1, <3>3
  <2>5. CASE work.pipeline[p] = VoidPipeline /\ step[p] = 3
    <3>1. Current(p).file = VoidTar
      BY <2>5, VoidSteps DEF Current, Extract, VoidTar
    <3>2. step[p] = 2
      BY <1>4, <2>2, <2>5, <3>1, Zenon DEF VoidWrites
    <3> QED  BY <2>5, <3>2
  <2> QED  BY <2>3, <2>4, <2>5
<1> QED  BY <1>3, <1>4

LEMMA InitInv == Init => Inv
<1> SUFFICES ASSUME Init PROVE Inv  OBVIOUS
<1>1. /\ work \in Workloads
      /\ cache = [f \in Files |-> "absent"] /\ writer = [f \in Files |-> {}]
      /\ step = [p \in Procs |-> 1] /\ phase = [p \in Procs |-> "look"]
      /\ attempt = [p \in Procs |-> 1] /\ mishaps = [p \in Procs |-> 0]
      /\ status = [p \in Procs |-> IF work.pipeline[p] = Nothing THEN "done" ELSE "running"]
      /\ damaged = [p \in Procs |-> {}]
  BY DEF Init
<1>2. /\ work \in WorkloadType /\ work.attempts \in Nat \ {0}
      /\ \A p \in Procs : work.pipeline[p] \in Pipelines
  <2>1. work \in WorkloadType  BY <1>1, WorkloadsAssumption
  <2>2. work.pipeline \in [Procs -> Pipelines] /\ work.attempts \in 1..MaxAttempts
    BY <2>1 DEF WorkloadType
  <2>3. work.attempts \in Nat \ {0}  BY <2>2, MaxAttemptsAssumption
  <2> QED  BY <2>1, <2>2, <2>3
<1>3. \A p \in Procs : 1 <= Len(work.pipeline[p]) + 1
  <2>1. \A p \in Procs : Len(work.pipeline[p]) \in 0..14  BY <1>2, AnyStep
  <2>2. 1 \in 1..15  OBVIOUS
  <2> QED  BY <2>1, <2>2, Places, Zenon
<1>4. /\ cache \in [Files -> {"absent", "partial", "whole"}]
      /\ writer \in [Files -> SUBSET Procs]
      /\ phase \in [Procs -> {"look", "open", "write"}]
      /\ status \in [Procs -> {"running", "done", "gave up"}]
      /\ damaged \in [Procs -> SUBSET Files]
  BY <1>1
<1>5. /\ step \in [Procs -> 1..15] /\ attempt \in [Procs -> 1..work.attempts]
      /\ mishaps \in [Procs -> 0..work.attempts]
  BY <1>1, <1>2
<1>6. \A p \in Procs : step[p] <= Len(work.pipeline[p]) + 1
  BY <1>1, <1>3, Zenon
<1>7. TypeOK  BY <1>1, <1>4, <1>5, <1>6, Zenon DEF TypeOK
<1>8. Counted
  <2>1. 0 <= 1 /\ 0 < 1  OBVIOUS
  <2> QED  BY <1>1, <2>1, Zenon DEF Counted
<1>9. Exclusive /\ Verified
  <2>1. "look" # "write" /\ 1 \notin 13..15  OBVIOUS
  <2> QED  BY <1>1, <2>1, Zenon DEF Exclusive, Verified
<1>10. VoidWrites /\ Undamaged
  <2>1. VoidTar \in Files /\ "absent" # "partial"  BY DEF VoidTar, Files
  <2>2. cache[VoidTar] = "absent"  BY <1>1, <2>1
  <2> QED  BY <1>1, <2>1, <2>2, Zenon DEF VoidWrites, Undamaged
<1> QED  BY <1>7, <1>8, <1>9, <1>10 DEF Inv

LEMMA StepInv == Inv /\ [Next]_vars => Inv'
<1> SUFFICES ASSUME Inv, [Next]_vars PROVE Inv'  OBVIOUS
<1>1. Types /\ Exclusive /\ Verified /\ VoidWrites /\ Undamaged  BY DEF Inv, Types
<1>2. ASSUME NEW p \in Procs, StepOf(p), UNCHANGED work PROVE Inv'
  <2>1. Types' /\ Effect(p)  BY <1>1, <1>2, StepEffect
  <2>2. Exclusive'  BY <1>1, <1>2, <2>1, ExclusiveKept
  <2>3. Verified'  BY <1>1, <1>2, <2>1, VerifiedKept
  <2>4. VoidWrites'  BY <1>1, <1>2, <2>1, VoidWritesKept
  <2>5. Undamaged'  BY <1>1, <1>2, <2>1, UndamagedKept
  <2> QED  BY <2>1, <2>2, <2>3, <2>4, <2>5 DEF Inv, Types
<1>3. CASE UNCHANGED vars
  <2>1. UNCHANGED <<work, cache, writer, step, phase, attempt, status, mishaps, damaged>>
    BY <1>3 DEF vars
  <2>2. Types'  BY <1>1, <2>1, Zenon DEF Types, TypeOK, Counted
  <2>3. Exclusive'  BY <1>1, <2>1, Zenon DEF Exclusive, On, At, Current
  <2>4. Verified'  BY <1>1, <2>1, Zenon DEF Verified
  <2>5. VoidWrites' /\ Undamaged'
    BY <1>1, <2>1, UndisturbedKept, Zenon DEF VoidWrites, Undamaged
  <2> QED  BY <2>2, <2>3, <2>4, <2>5 DEF Inv, Types
<1> QED  BY <1>2, <1>3 DEF Next, Ended, StepOf

LEMMA AlwaysInv == Spec => []Inv
BY InitInv, StepInv, PTL DEF Spec

(* Every variable keeps its type: no process is beyond its pipeline, or    *)
(* started more often than it may be.                                      *)
THEOREM TypeCorrect == Spec => []TypeOK
<1>1. Inv => TypeOK  BY DEF Inv
<1> QED  BY <1>1, AlwaysInv, PTL

(* Success means whole archives, whatever the processes that share the     *)
(* cache do, fail at and are killed in; for Void only with the cache for   *)
(* itself.                                                                 *)
THEOREM SoundSuccessHolds == Spec => []SoundSuccess
<1>1. Inv => SoundSuccess  BY Zenon DEF Inv, Undamaged, SoundSuccess, Undisturbed
<1> QED  BY <1>1, AlwaysInv, PTL

(* A file is changed only by who is about to write it.                     *)
LEMMA WholeKept ==
  ASSUME Inv, [Next]_vars, NEW f \in Files, cache[f] = "whole", Idle(f)
  PROVE  cache'[f] = "whole"
<1>1. ASSUME NEW p \in Procs, StepOf(p), UNCHANGED work PROVE cache'[f] = "whole"
  <2>1. Effect(p)  BY <1>1, StepEffect DEF Inv, Types
  <2>2. "open" # "look" /\ "write" # "look"  OBVIOUS
  <2>3. ~(On(p, "download", f) /\ phase[p] # "look")  BY Zenon DEF Idle, On, At
  <2>4. ~(On(p, "uncompress", f) /\ phase[p] # "look")  BY Zenon DEF Idle, On, At
  <2> QED  BY <2>1, <2>2, <2>3, <2>4, Zenon DEF Effect, Touches
<1>2. CASE UNCHANGED vars  BY <1>2 DEF vars
<1> QED  BY <1>1, <1>2 DEF Next, Ended, StepOf

(* A whole file nobody was about to create is left alone by every step of  *)
(* every process, so later runs can re-use it.                             *)
THEOREM WholeIsKept == Spec => WholeIsFinal
<1>1. Inv /\ [Next]_vars => [\A f \in Files : cache[f] = "whole" /\ Idle(f) => cache'[f] = "whole"]_vars
  BY WholeKept
<1> QED  BY <1>1, AlwaysInv, PTL DEF Spec, WholeIsFinal
=============================================================================
