----------------------------- MODULE ArchProofs -----------------------------
(***************************************************************************)
(* Proofs about module ArchBootstrapper, for every choice of calls that    *)
(* may fail and any number of failures.                                    *)
(***************************************************************************)
EXTENDS ArchBootstrapper, TLAPS

(* Type correctness in two halves; the loops stay inside NonDisk.          *)
Indices(l) == IF l = "mount_nondisk" THEN 1..4 ELSE IF l = "umount_nondisk" THEN 0..3 ELSE {1}

ControlOK == /\ pc \in Labels /\ k \in Indices(pc) /\ tries \in 1..3
             /\ unwinding \in BOOLEAN /\ faults \subseteq Fragile
DataOK    == /\ temp \in BOOLEAN
             /\ mounts \subseteq {"target", "leftover", "dev", "dev/pts", "proc"}
             /\ inner \subseteq InnerParts /\ target \subseteq TargetParts
             /\ deleted \subseteq {"target", "dev"}

(* Where the finally clauses answer for a mount of NonDisk and the target. *)
NonDiskScope(i) == \/ pc \in InChroot
                   \/ pc = "mount_nondisk" /\ i < k
                   \/ pc = "umount_nondisk" /\ i <= k
TargetScope     == InTarget \cup InChroot \cup {"umount_target"}

(* What no fault explains is mounted only in the scope of its finally      *)
(* clause, and nothing is deleted before the very end.                     *)
Scoped ==
  /\ faults \cap NonDiskFaults = {} =>
       \A i \in 1..3 : NonDisk[i] \in mounts => NonDiskScope(i)
  /\ faults \cap TargetFaults = {} =>
       "leftover" \notin mounts /\ ("target" \in mounts => pc \in TargetScope)
  /\ temp /\ faults = {} => pc \notin {"mkdtemp", "exit"}
  /\ pc # "exit" => deleted = {}
  /\ DeletionExplained

(* What pacstrap and usermod did is still there while no exception is.     *)
Installed ==
  /\ pc = "fix_root_login" => "system" \in target
  /\ pc \in {"umount_nondisk", "umount_target", "rmtree"} /\ ~unwinding =>
       target = {"system", "root locked"}
  /\ SuccessIsComplete

(* Each part of the bootstrap image is there once the call that makes it   *)
(* has returned, and the mounts while the calls that need them are made.   *)
InInner == InChroot \cup {"mount_nondisk", "mount_target"}
Prepared ==
  /\ pc \in InInner \cup {"mirror_list", "resolv_conf", "makedirs"} => "bootstrap image" \in inner
  /\ pc \in InInner \cup {"resolv_conf", "makedirs"} => "mirror" \in inner
  /\ pc \in InInner \cup {"makedirs"} => "name servers" \in inner
  /\ pc \in InInner => "mount point" \in inner
  /\ pc \in {"key_populate", "check_space", "sync_keyring", "pacstrap"} => "keyring" \in inner
  /\ pc \in {"check_space", "sync_keyring", "pacstrap"} => "archlinux keys" \in inner
  /\ pc \in {"sync_keyring", "pacstrap"} => "no CheckSpace" \in inner
  /\ pc = "pacstrap" => "fresh keys" \in inner

Mounted ==
  /\ pc \in InChroot \cup {"mount_nondisk"} => "target" \in mounts
  /\ \A i \in 1..3 : pc \in InChroot \/ (pc = "mount_nondisk" /\ i < k) => NonDisk[i] \in mounts

Inv == ControlOK /\ DataOK /\ Scoped /\ Installed /\ Prepared /\ Mounted

LEMMA IndicesType == \A l : Indices(l) \subseteq 0..4
BY DEF Indices

LEMMA TypeHalves == ControlOK /\ DataOK => TypeOK
BY Zenon, IndicesType DEF ControlOK, DataOK, TypeOK

(***************************************************************************)
(* Control flow.                                                           *)
(***************************************************************************)
LEMMA HandlerCases ==
  /\ \A l \in InTemp   : Handler(l) = "rmtree"
  /\ \A l \in InTarget : Handler(l) = "umount_target"
  /\ \A l \in InChroot : Handler(l) = "umount_nondisk"
  /\ Handler("mkdtemp") = "exit" /\ Handler("rmtree") = "exit"
BY DEF Handler, InTemp, InTarget, InChroot

LEMMA HandlerType == \A l : Handler(l) \in {"rmtree", "umount_target", "umount_nondisk", "exit"}
BY DEF Handler

LEMMA LabelSet == {"rmtree", "umount_target", "umount_nondisk", "exit"} \subseteq Labels
BY DEF Labels, Calls, InTemp, InTarget

LEMMA FirstIndexType == \A l : FirstIndex(l) \in Indices(l)
BY DEF FirstIndex, Indices

LEMMA MoveControl ==
  ASSUME ControlOK, NEW l \in Labels, NEW i \in Indices(l), Move(l, i), faults' \subseteq Fragile
  PROVE  ControlOK'
<1>1. pc' \in Labels /\ k' \in Indices(pc') /\ tries' \in 1..3
  BY DEF Move
<1>2. unwinding' \in BOOLEAN
  BY Zenon DEF Move, ControlOK
<1>3. QED
  BY <1>1, <1>2 DEF ControlOK

LEMMA GotoControl == ASSUME ControlOK, NEW l \in Labels, Goto(l) PROVE ControlOK'
BY MoveControl, FirstIndexType DEF Goto, ControlOK

LEMMA ThrowControl ==
  ASSUME ControlOK, NEW l, Throw(l), faults' \subseteq Fragile
  PROVE  ControlOK'
<1>1. pc' \in Labels /\ k' \in Indices(pc') /\ tries' \in 1..3
  BY HandlerType, LabelSet, FirstIndexType DEF Throw
<1>2. unwinding' \in BOOLEAN
  BY Zenon DEF Throw
<1>3. QED
  BY <1>1, <1>2 DEF ControlOK

LEMMA RaiseControl == ASSUME ControlOK, NEW l, NEW when, Raise(l, when) PROVE ControlOK'
<1>1. faults' \subseteq Fragile
  BY DEF Raise, Note, ControlOK
<1>2. QED
  BY <1>1, ThrowControl DEF Raise

(***************************************************************************)
(* One lemma per action, or per group of actions alike.                    *)
(***************************************************************************)
LEMMA InitInv == Init => Inv
<1> SUFFICES ASSUME Init PROVE Inv
  OBVIOUS
<1>1. pc = "mkdtemp" /\ k = 1 /\ tries = 1 /\ faults = {} /\ mounts = {} /\ inner = {}
      /\ target = {} /\ deleted = {}
  BY DEF Init
<1>2. unwinding = FALSE /\ temp = FALSE
  BY Zenon DEF Init
<1>3. ControlOK
  <2>1. pc \in Labels /\ k \in Indices(pc) /\ tries \in 1..3 /\ faults \subseteq Fragile
    BY <1>1 DEF Labels, Calls, Indices
  <2>2. unwinding \in BOOLEAN
    BY <1>2
  <2>3. QED
    BY <2>1, <2>2 DEF ControlOK
<1>4. DataOK
  BY <1>1, <1>2 DEF DataOK
<1>5. Scoped /\ Installed
  BY <1>1, <1>2 DEF Scoped, Installed, DeletionExplained, SuccessIsComplete, Succeeded
<1>6. Prepared /\ Mounted
  BY <1>1 DEF Prepared, Mounted, InInner, InChroot
<1>7. QED
  BY <1>3, <1>4, <1>5, <1>6 DEF Inv

LEMMA StutterInv == ASSUME Inv, UNCHANGED vars PROVE Inv'
<1> USE DEF vars, control
<1>1. ControlOK' /\ DataOK'
  BY Zenon DEF Inv, ControlOK, DataOK
<1>2. Scoped' /\ Installed'
  BY DEF Inv, Scoped, Installed, NonDiskScope, DeletionExplained, SuccessIsComplete, Succeeded
<1>3. Prepared' /\ Mounted'
  BY DEF Inv, Prepared, Mounted
<1>4. QED
  BY <1>1, <1>2, <1>3 DEF Inv

LEMMA AdjustTypes ==
  ASSUME Inv, NEW l, NEW next \in Labels, NEW part \in SUBSET InnerParts, Adjust(l, next, part)
  PROVE  ControlOK' /\ DataOK'
<1>1. ControlOK'
  BY GotoControl DEF Adjust, Inv
<1>2. inner' \subseteq InnerParts
  BY DEF Adjust, Inv, DataOK
<1>3. temp' \in BOOLEAN /\ UNCHANGED <<mounts, target, deleted>>
  BY Zenon DEF Adjust, Inv, DataOK
<1>4. QED
  BY <1>1, <1>2, <1>3 DEF Inv, DataOK

LEMMA UnpackAdjustInv ==
  ASSUME Inv,
         \/ FindImage \/ DownloadImage \/ ExtractImage \/ AdjustMirrorList \/ CopyResolvConf
         \/ MakeMountPoint
  PROVE  Inv'
<1> USE DEF FindImage, DownloadImage, ExtractImage, AdjustMirrorList, CopyResolvConf,
            MakeMountPoint
<1>1. ControlOK' /\ DataOK'
  BY AdjustTypes DEF Labels, Calls, InTemp, InnerParts
<1> USE DEF Adjust, Goto, Move, FirstIndex
<1>2. Scoped'
  BY DEF Inv, Scoped, DeletionExplained, NonDiskScope, TargetScope, InTarget, InChroot
<1>3. Installed'
  BY DEF Inv, Installed, SuccessIsComplete, Succeeded
<1>4. Prepared'
  BY DEF Inv, Prepared, InInner, InChroot
<1>5. Mounted'
  BY DEF Inv, Mounted, InChroot
<1>6. QED
  BY <1>1, <1>2, <1>3, <1>4, <1>5 DEF Inv

LEMMA ChrootAdjustInv ==
  ASSUME Inv, InitializeKeyring \/ PopulateKeyring \/ DisableCheckSpace \/ SyncKeyring
  PROVE  Inv'
<1> USE DEF InitializeKeyring, PopulateKeyring, DisableCheckSpace, SyncKeyring
<1>1. ControlOK' /\ DataOK'
  BY AdjustTypes DEF Labels, Calls, InChroot, InnerParts
<1> USE DEF Adjust, Goto, Move, FirstIndex
<1>2. Scoped'
  BY DEF Inv, Scoped, DeletionExplained, NonDiskScope, TargetScope, InTarget, InChroot
<1>3. Installed'
  BY DEF Inv, Installed, SuccessIsComplete, Succeeded
<1>4. Prepared'
  BY DEF Inv, Prepared, InInner, InChroot
<1>5. Mounted'
  BY DEF Inv, Mounted, InChroot
<1>6. QED
  BY <1>1, <1>2, <1>3, <1>4, <1>5 DEF Inv

LEMMA FaultInv == ASSUME Inv, Fault PROVE Inv'
<1> DEFINE when == IF pc = "mount_nondisk" /\ k > 1 THEN "half" ELSE "early"
<1>1. /\ Raise(pc, when) /\ UNCHANGED <<temp, mounts, inner, target, deleted>>
      /\ pc \in InTemp \cup InTarget \cup InChroot \cup {"mkdtemp", "rmtree"}
  BY DEF Fault, Inv, ControlOK, Labels, Calls
<1>2. ControlOK' /\ DataOK'
  <2>1. ControlOK'
    BY <1>1, RaiseControl DEF Inv
  <2>2. DataOK'
    BY <1>1, Zenon DEF Inv, DataOK
  <2>3. QED
    BY <2>1, <2>2
<1>3. /\ pc' = Handler(pc) /\ k' = FirstIndex(pc') /\ unwinding' = TRUE
      /\ faults' = faults \cup ({<<pc, when>>} \cap Fragile)
  BY <1>1 DEF Raise, Throw, Note
<1>4. /\ pc \in InTemp => pc' = "rmtree"
      /\ pc \in InTarget => pc' = "umount_target"
      /\ pc \in InChroot => pc' = "umount_nondisk" /\ k' = 3
      /\ pc \in {"mkdtemp", "rmtree"} => pc' = "exit"
  BY <1>3, HandlerCases DEF FirstIndex
<1>5. Scoped'
  <2>1. faults' \cap NonDiskFaults = {} =>
          \A i \in 1..3 : NonDisk[i] \in mounts' => NonDiskScope(i)'
    <3> SUFFICES ASSUME faults' \cap NonDiskFaults = {}, NEW i \in 1..3, NonDisk[i] \in mounts
                 PROVE  NonDiskScope(i)'
      BY <1>1
    <3>1. NonDiskScope(i) /\ pc \in InTarget \cup InChroot
      BY <1>3 DEF Inv, Scoped, NonDiskScope, InTarget
    <3>2. pc # "umount_nondisk"
      BY <1>3 DEF NonDiskFaults, Fragile
    <3>3. pc = "mount_nondisk" => ~(k > 1)
      BY <1>3 DEF NonDiskFaults, Fragile
    <3>4. ~(pc = "mount_nondisk" /\ i < k)
      BY <3>3 DEF Inv, ControlOK, Indices
    <3>5. QED
      BY <1>4, <3>1, <3>2, <3>4 DEF NonDiskScope, InTarget
  <2>2. faults' \cap TargetFaults = {} =>
          "leftover" \notin mounts' /\ ("target" \in mounts' => pc' \in TargetScope)
    <3> SUFFICES ASSUME faults' \cap TargetFaults = {}
                 PROVE  "leftover" \notin mounts /\ ("target" \in mounts => pc' \in TargetScope)
      BY <1>1
    <3>1. "leftover" \notin mounts /\ ("target" \in mounts => pc \in TargetScope)
      BY <1>3 DEF Inv, Scoped
    <3>2. pc # "umount_target"
      BY <1>3 DEF TargetFaults, Fragile
    <3>3. QED
      BY <1>4, <3>1, <3>2 DEF TargetScope, InTarget
  <2>3. temp' /\ faults' = {} => pc' \notin {"mkdtemp", "exit"}
    <3>1. pc = "rmtree" => faults' # {}
      BY <1>3 DEF TempFaults, Fragile
    <3>2. faults' = {} => faults = {}
      BY <1>3
    <3>3. temp' <=> temp
      BY <1>1
    <3>4. QED
      BY <1>4, <1>1, <3>1, <3>2, <3>3 DEF Inv, Scoped
  <2>4. deleted = {} /\ deleted' = {}
    BY <1>1 DEF Inv, Scoped, InTemp, InTarget, InChroot
  <2>5. QED
    BY <2>1, <2>2, <2>3, <2>4 DEF Scoped, DeletionExplained
<1>6. Installed'
  BY <1>1, <1>3, <1>4 DEF Inv, Installed, SuccessIsComplete, Succeeded, InTemp, InTarget, InChroot
<1>7. Prepared' /\ Mounted'
  BY <1>1, <1>4 DEF Prepared, Mounted, InInner, InChroot
<1>8. QED
  BY <1>2, <1>5, <1>6, <1>7 DEF Inv

LEMMA MakeTempDirInv == ASSUME Inv, MakeTempDir PROVE Inv'
<1>1. /\ pc = "mkdtemp" /\ UNCHANGED <<mounts, inner, target, deleted>> /\ temp' = TRUE
      /\ Goto("find_image") \/ Raise("mkdtemp", "late")
  BY DEF MakeTempDir
<1>2. ControlOK' /\ DataOK'
  <2>1. ControlOK'
    BY <1>1, GotoControl, RaiseControl DEF Inv, Labels, Calls, InTemp
  <2>2. temp' \in BOOLEAN
    BY <1>1
  <2>3. DataOK'
    BY <1>1, <2>2 DEF Inv, DataOK
  <2>4. QED
    BY <2>1, <2>3
<1>3. /\ faults \subseteq faults'
      /\ \/ pc' = "find_image" /\ unwinding' = unwinding
         \/ pc' = "exit" /\ unwinding' = TRUE /\ faults' # {}
  BY <1>1, HandlerCases DEF Goto, Move, Raise, Throw, Note, Fragile, TempFaults
<1>4. Scoped'
  <2>1. faults' \cap NonDiskFaults = {} => \A i \in 1..3 : NonDisk[i] \notin mounts'
    BY <1>1, <1>3 DEF Inv, Scoped, NonDiskScope, InChroot
  <2>2. faults' \cap TargetFaults = {} => "leftover" \notin mounts' /\ "target" \notin mounts'
    BY <1>1, <1>3 DEF Inv, Scoped, TargetScope, InTarget, InChroot
  <2>3. deleted = {} /\ deleted' = {}
    BY <1>1 DEF Inv, Scoped
  <2>4. QED
    BY <1>3, <2>1, <2>2, <2>3 DEF Scoped, DeletionExplained
<1>5. Installed' /\ Prepared' /\ Mounted'
  BY <1>3 DEF Installed, SuccessIsComplete, Succeeded, Prepared, Mounted, InInner, InChroot
<1>6. QED
  BY <1>2, <1>4, <1>5 DEF Inv

LEMMA MountTargetInv == ASSUME Inv, MountTarget PROVE Inv'
<1>1. /\ pc = "mount_target" /\ mounts' = mounts \cup {"target"}
      /\ UNCHANGED <<temp, inner, target, deleted>>
      /\ Goto("mount_nondisk") \/ Raise("mount_target", "late")
  BY DEF MountTarget
<1>2. ControlOK' /\ DataOK'
  <2>1. ControlOK'
    BY <1>1, GotoControl, RaiseControl DEF Inv, Labels, Calls, InTarget
  <2>2. temp' \in BOOLEAN
    BY <1>1, Zenon DEF Inv, DataOK
  <2>3. DataOK'
    BY <1>1, <2>2 DEF Inv, DataOK
  <2>4. QED
    BY <2>1, <2>3
<1>3. /\ faults \subseteq faults'
      /\ \/ pc' = "mount_nondisk" /\ k' = 1 /\ unwinding' = unwinding
         \/ pc' = "rmtree" /\ unwinding' = TRUE /\ faults' \cap TargetFaults # {}
  BY <1>1, HandlerCases DEF Goto, Move, Raise, Throw, Note, Fragile, TargetFaults, InTemp, FirstIndex
<1>4. Scoped'
  <2>1. faults' \cap NonDiskFaults = {} => \A i \in 1..3 : NonDisk[i] \notin mounts'
    BY <1>1, <1>3 DEF Inv, Scoped, NonDiskScope, NonDisk, InChroot
  <2>2. faults' \cap TargetFaults = {} =>
          "leftover" \notin mounts' /\ ("target" \in mounts' => pc' \in TargetScope)
    BY <1>1, <1>3 DEF Inv, Scoped, TargetScope, InTarget
  <2>3. deleted = {} /\ deleted' = {}
    BY <1>1 DEF Inv, Scoped
  <2>4. QED
    BY <1>3, <2>1, <2>2, <2>3 DEF Scoped, DeletionExplained
<1>5. Installed'
  BY <1>3 DEF Installed, SuccessIsComplete, Succeeded
<1>6. Prepared'
  BY <1>1, <1>3 DEF Inv, Prepared, InInner, InChroot
<1>7. Mounted'
  <2>1. \A i \in 1..3 : ~(pc' \in InChroot \/ (pc' = "mount_nondisk" /\ i < k'))
    BY <1>3 DEF InChroot
  <2>2. "target" \in mounts'
    BY <1>1
  <2>3. QED
    BY <2>1, <2>2 DEF Mounted
<1>8. QED
  BY <1>2, <1>4, <1>5, <1>6, <1>7 DEF Inv

LEMMA MountNonDiskInv == ASSUME Inv, MountNonDisk PROVE Inv'
<1>1. /\ pc = "mount_nondisk" /\ UNCHANGED <<faults, temp, inner, target, deleted>> /\ k \in 1..4
      /\ \/ k <= 3 /\ mounts' = mounts \cup {NonDisk[k]} /\ Move(pc, k + 1)
         \/ k = 4 /\ UNCHANGED mounts /\ Goto("key_init")
  BY DEF MountNonDisk, Goto, Inv, ControlOK, Indices
<1>2. ControlOK' /\ DataOK'
  <2>1. ControlOK'
    BY <1>1, GotoControl, MoveControl DEF Inv, ControlOK, Indices, Labels, Calls, InTarget, InChroot
  <2>2. temp' \in BOOLEAN
    BY <1>1, Zenon DEF Inv, DataOK
  <2>3. mounts' \subseteq {"target", "leftover", "dev", "dev/pts", "proc"}
    <3>1. k <= 3 => NonDisk[k] \in {"dev", "dev/pts", "proc"}
      BY <1>1 DEF NonDisk
    <3>2. QED
      BY <1>1, <3>1 DEF Inv, DataOK
  <2>4. DataOK'
    BY <1>1, <2>2, <2>3 DEF Inv, DataOK
  <2>5. QED
    BY <2>1, <2>4
<1>3. /\ unwinding' = unwinding
      /\ \/ k <= 3 /\ mounts' = mounts \cup {NonDisk[k]} /\ pc' = "mount_nondisk" /\ k' = k + 1
         \/ k = 4 /\ mounts' = mounts /\ pc' = "key_init"
  BY <1>1 DEF Goto, Move
<1>4. Scoped'
  <2>1. faults' \cap NonDiskFaults = {} =>
          \A i \in 1..3 : NonDisk[i] \in mounts' => NonDiskScope(i)'
    <3> SUFFICES ASSUME faults \cap NonDiskFaults = {}, NEW i \in 1..3, NonDisk[i] \in mounts'
                 PROVE  NonDiskScope(i)'
      BY <1>1
    <3>1. k \in 1..4 /\ (NonDisk[i] \in mounts => i < k)
      BY <1>1 DEF Inv, Scoped, NonDiskScope, InChroot
    <3>2. k <= 3 /\ NonDisk[i] = NonDisk[k] => i = k
      BY <3>1 DEF NonDisk
    <3>3. QED
      BY <1>3, <3>1, <3>2 DEF NonDiskScope, InChroot
  <2>2. faults' \cap TargetFaults = {} =>
          "leftover" \notin mounts' /\ ("target" \in mounts' => pc' \in TargetScope)
    <3>1. "leftover" \in mounts' => "leftover" \in mounts
      BY <1>1, <1>3 DEF NonDisk
    <3>2. QED
      BY <1>1, <1>3, <3>1 DEF Inv, Scoped, TargetScope, InTarget, InChroot
  <2>3. deleted = {} /\ deleted' = {}
    BY <1>1 DEF Inv, Scoped
  <2>4. QED
    BY <1>1, <1>3, <2>1, <2>2, <2>3 DEF Inv, Scoped, DeletionExplained
<1>5. Installed'
  BY <1>3 DEF Installed, SuccessIsComplete, Succeeded
<1>6. Prepared'
  BY <1>1, <1>3 DEF Inv, Prepared, InInner, InChroot
<1>7. Mounted'
  <2>1. "target" \in mounts' /\ \A i \in 1..3 : i < k => NonDisk[i] \in mounts'
    BY <1>1, <1>3 DEF Inv, Mounted
  <2>2. k <= 3 => NonDisk[k] \in mounts'
    BY <1>3
  <2>3. \A i \in 1..3 : pc' \in InChroot \/ i < k' => NonDisk[i] \in mounts'
    BY <1>1, <1>3, <2>1, <2>2 DEF InChroot
  <2>4. QED
    BY <2>1, <2>3 DEF Mounted
<1>8. QED
  BY <1>2, <1>4, <1>5, <1>6, <1>7 DEF Inv

(* The loop that unmounts NonDisk is entered at its end.                   *)
FirstIndices == pc' = "umount_nondisk" => k' = 3

(* What the last calls inside the chroot keep as it is.                    *)
LEMMA InChrootScoped ==
  ASSUME Inv, pc \in InChroot, pc' \in InChroot \cup {"umount_nondisk"}, FirstIndices,
         faults \subseteq faults', UNCHANGED <<temp, deleted>>,
         faults' \cap TargetFaults = {} => mounts' = mounts,
         mounts' \in {mounts, mounts \cup {"leftover"}}
  PROVE  Scoped' /\ Mounted'
<1>1. \A i \in 1..3 : NonDiskScope(i)'
  BY DEF NonDiskScope, FirstIndices
<1>2. "target" \in mounts => "target" \in mounts'
  OBVIOUS
<1>3. pc \notin {"exit", "mkdtemp"} /\ pc' \notin {"exit", "mkdtemp"} /\ deleted = {}
  BY DEF InChroot, Inv, Scoped
<1>4. faults' \cap TargetFaults = {} => "leftover" \notin mounts'
  BY DEF Inv, Scoped
<1>5. pc' \in TargetScope
  BY DEF TargetScope, InTarget
<1>6. Scoped'
  BY <1>1, <1>3, <1>4, <1>5 DEF Scoped, DeletionExplained
<1>7. Mounted'
  BY DEF Inv, Mounted, InChroot
<1>8. QED
  BY <1>6, <1>7

LEMMA PacstrapLeavesMountInv == ASSUME Inv, PacstrapLeavesMount PROVE Inv'
<1> USE DEF PacstrapLeavesMount
<1>1. ControlOK' /\ DataOK'
  <2>1. faults' \subseteq Fragile
    BY DEF Note, Inv, ControlOK
  <2>2. unwinding' \in BOOLEAN /\ temp' \in BOOLEAN
    BY Zenon DEF Inv, ControlOK, DataOK
  <2>3. ControlOK'
    BY <2>1, <2>2 DEF Inv, ControlOK
  <2>4. DataOK'
    BY <2>2 DEF Inv, DataOK
  <2>5. QED
    BY <2>3, <2>4
<1>2. Scoped' /\ Mounted'
  <2>1. faults \subseteq faults' /\ faults' \cap TargetFaults # {}
    BY DEF Note, Fragile, TargetFaults
  <2>2. FirstIndices /\ pc \in InChroot /\ pc' \in InChroot
    BY DEF FirstIndices, InChroot
  <2>3. QED
    BY <2>1, <2>2, InChrootScoped
<1>3. Installed' /\ Prepared'
  BY DEF Inv, Installed, SuccessIsComplete, Succeeded, Prepared, InInner, InChroot
<1>4. QED
  BY <1>1, <1>2, <1>3 DEF Inv

LEMMA PacstrapInv == ASSUME Inv, Pacstrap PROVE Inv'
<1>1. /\ pc = "pacstrap" /\ target' = {"system"} /\ UNCHANGED <<temp, mounts, inner, deleted>>
      /\ Goto("fix_root_login") \/ Raise("pacstrap", "late")
  BY DEF Pacstrap
<1>2. ControlOK' /\ DataOK'
  <2>1. ControlOK'
    BY <1>1, GotoControl, RaiseControl DEF Inv, Labels, Calls, InChroot
  <2>2. temp' \in BOOLEAN
    BY <1>1, Zenon DEF Inv, DataOK
  <2>3. DataOK'
    BY <1>1, <2>2 DEF Inv, DataOK, TargetParts
  <2>4. QED
    BY <2>1, <2>3
<1>3. /\ faults \subseteq faults'
      /\ \/ pc' = "fix_root_login" /\ unwinding' = unwinding
         \/ pc' = "umount_nondisk" /\ unwinding' = TRUE
      /\ FirstIndices
  BY <1>1, HandlerCases DEF Goto, Move, Raise, Throw, Note, InChroot, FirstIndices, FirstIndex
<1>4. Scoped' /\ Mounted'
  BY <1>1, <1>3, InChrootScoped DEF InChroot
<1>5. Installed' /\ Prepared'
  BY <1>1, <1>3 DEF Inv, Installed, SuccessIsComplete, Succeeded, Prepared, InInner, InChroot
<1>6. QED
  BY <1>2, <1>4, <1>5 DEF Inv

LEMMA FixRootLoginInv == ASSUME Inv, FixRootLogin PROVE Inv'
<1>1. /\ pc = "fix_root_login" /\ target' = target \cup {"root locked"}
      /\ UNCHANGED <<temp, mounts, inner, deleted>> /\ Goto("umount_nondisk")
  BY DEF FixRootLogin
<1>2. ControlOK' /\ DataOK'
  <2>1. ControlOK'
    BY <1>1, GotoControl DEF Inv, Labels, Calls, InTarget
  <2>2. temp' \in BOOLEAN
    BY <1>1, Zenon DEF Inv, DataOK
  <2>3. DataOK'
    BY <1>1, <2>2 DEF Inv, DataOK, TargetParts
  <2>4. QED
    BY <2>1, <2>3
<1>3. /\ faults' = faults /\ pc' = "umount_nondisk" /\ unwinding' = unwinding /\ FirstIndices
  BY <1>1 DEF Goto, Move, FirstIndices, FirstIndex
<1>4. Scoped' /\ Mounted'
  BY <1>1, <1>3, InChrootScoped DEF InChroot
<1>5. target' = {"system", "root locked"}
  BY <1>1 DEF Inv, DataOK, TargetParts, Installed
<1>6. Installed' /\ Prepared'
  BY <1>3, <1>5 DEF Installed, SuccessIsComplete, Succeeded, Prepared, InInner, InChroot
<1>7. QED
  BY <1>2, <1>4, <1>6 DEF Inv

(***************************************************************************)
(* The way out.  Of an umount it matters that it succeeds, is refused (and *)
(* noted), or fails for good: when there is nothing to unmount, or         *)
(* something nested keeps it busy.                                         *)
(***************************************************************************)
LEMMA TryUnmountingTypes ==
  ASSUME Inv, NEW l, NEW mount, NEW nested, NEW next \in Labels, NEW i \in Indices(next),
         TryUnmounting(l, mount, nested, next, i)
  PROVE  ControlOK' /\ DataOK'
<1>1. ControlOK'
  <2>1. CASE Move(next, i) /\ (faults' = faults \/ Note(l, "refused"))
    <3>1. faults' \subseteq Fragile
      BY <2>1 DEF Note, Inv, ControlOK
    <3>2. QED
      BY <2>1, <3>1, MoveControl DEF Inv
  <2>2. CASE tries < 3 /\ tries' = tries + 1 /\ UNCHANGED <<pc, k, unwinding, faults>>
    <3>1. tries' \in 1..3
      BY <2>2 DEF Inv, ControlOK
    <3>2. unwinding' \in BOOLEAN
      BY <2>2, Zenon DEF Inv, ControlOK
    <3>3. QED
      BY <2>2, <3>1, <3>2 DEF Inv, ControlOK
  <2>3. QED
    BY <2>1, <2>2 DEF TryUnmounting
<1>2. temp' \in BOOLEAN
  BY Zenon DEF TryUnmounting, Inv, DataOK
<1>3. DataOK'
  BY <1>2 DEF TryUnmounting, Inv, DataOK
<1>4. QED
  BY <1>1, <1>3

LEMMA TryUnmountingOutcome ==
  ASSUME NEW l, NEW mount, NEW nested, NEW next, NEW i,
         TryUnmounting(l, mount, nested, next, i)
  PROVE  /\ pc = l /\ UNCHANGED <<temp, inner, target, deleted, unwinding>>
         /\ mounts' \subseteq mounts /\ faults \subseteq faults'
         /\ \/ pc' = pc /\ k' = k /\ mounts' = mounts
            \/ /\ pc' = next /\ k' = i
               /\ \/ mount \notin mounts'
                  \/ nested \cap mounts # {}
                  \/ faults' = faults \cup ({<<l, "refused">>} \cap Fragile)
BY DEF TryUnmounting, Move, Note

LEMMA UnmountNonDiskInv == ASSUME Inv, UnmountNonDisk PROVE Inv'
<1> DEFINE nested == IF NonDisk[k] = "dev" THEN {"dev/pts"} ELSE {}
<1>1. CASE k > 0 /\ TryUnmounting("umount_nondisk", NonDisk[k], nested, "umount_nondisk", k - 1)
  <2>1. pc = "umount_nondisk" /\ k \in 1..3 /\ k - 1 \in 0..2
    BY <1>1, TryUnmountingOutcome DEF Inv, ControlOK, Indices
  <2>2. ControlOK' /\ DataOK'
    BY <1>1, <2>1, TryUnmountingTypes DEF Labels, Calls, InTarget, Indices
  <2>3. /\ UNCHANGED <<temp, inner, target, deleted, unwinding>>
        /\ mounts' \subseteq mounts /\ faults \subseteq faults' /\ pc' = pc
        /\ \/ k' = k
           \/ /\ k' = k - 1
              /\ \/ NonDisk[k] \notin mounts'
                 \/ nested \cap mounts # {}
                 \/ faults' = faults \cup ({<<"umount_nondisk", "refused">>} \cap Fragile)
    BY <1>1, TryUnmountingOutcome
  <2>4. faults' \cap NonDiskFaults = {} =>
          \A i \in 1..3 : NonDisk[i] \in mounts' => NonDiskScope(i)'
    <3> SUFFICES ASSUME faults' \cap NonDiskFaults = {}, NEW i \in 1..3, NonDisk[i] \in mounts'
                 PROVE  i <= k'
      BY <2>1, <2>3 DEF NonDiskScope
    <3>1. \A j \in 1..3 : NonDisk[j] \in mounts => j <= k
      BY <2>1, <2>3 DEF Inv, Scoped, NonDiskScope, InChroot
    <3>2. i <= k
      BY <2>3, <3>1
    <3>3. NonDisk[2] \notin mounts \/ k # 1
      BY <3>1
    <3>4. nested \cap mounts = {}
      BY <2>1, <3>3 DEF NonDisk
    <3>5. faults' # faults \cup ({<<"umount_nondisk", "refused">>} \cap Fragile)
      BY DEF NonDiskFaults, Fragile
    <3>6. QED
      BY <2>1, <2>3, <3>2, <3>4, <3>5
  <2>5. faults' \cap TargetFaults = {} =>
          "leftover" \notin mounts' /\ ("target" \in mounts' => pc' \in TargetScope)
    BY <2>1, <2>3 DEF Inv, Scoped, TargetScope, InTarget
  <2>6. deleted = {} /\ deleted' = {}
    BY <2>1, <2>3 DEF Inv, Scoped
  <2>7. Scoped'
    BY <2>1, <2>3, <2>4, <2>5, <2>6 DEF Scoped, DeletionExplained
  <2>8. Installed' /\ Prepared' /\ Mounted'
    BY <2>1, <2>3 DEF Inv, Installed, SuccessIsComplete, Succeeded, Prepared, Mounted, InInner, InChroot
  <2>9. QED
    BY <2>2, <2>7, <2>8 DEF Inv
<1>2. CASE /\ pc = "umount_nondisk" /\ k = 0 /\ Goto(Continuation(pc, "umount_target"))
           /\ UNCHANGED <<temp, mounts, inner, target, deleted>>
  <2>1. Continuation(pc, "umount_target") = "umount_target"
    BY <1>2, HandlerCases DEF Continuation, InTarget
  <2>2. pc' = "umount_target" /\ UNCHANGED <<unwinding, faults>>
    BY <1>2, <2>1 DEF Goto, Move
  <2>3. ControlOK' /\ DataOK'
    <3>1. ControlOK'
      BY <1>2, <2>1, GotoControl DEF Inv, Labels, Calls, InTemp
    <3>2. DataOK'
      BY <1>2, Zenon DEF Inv, DataOK
    <3>3. QED
      BY <3>1, <3>2
  <2>4. Scoped'
    <3>1. faults' \cap NonDiskFaults = {} => \A i \in 1..3 : NonDisk[i] \notin mounts'
      BY <1>2, <2>2 DEF Inv, Scoped, NonDiskScope, InChroot
    <3>2. QED
      BY <1>2, <2>2, <3>1 DEF Inv, Scoped, DeletionExplained, TargetScope, InTarget
  <2>5. Installed' /\ Prepared' /\ Mounted'
    BY <1>2, <2>2 DEF Inv, Installed, SuccessIsComplete, Succeeded, Prepared, Mounted, InInner, InChroot
  <2>6. QED
    BY <2>3, <2>4, <2>5 DEF Inv
<1>3. QED
  BY <1>1, <1>2 DEF UnmountNonDisk

LEMMA UnmountTargetInv == ASSUME Inv, UnmountTarget PROVE Inv'
<1>1. TryUnmounting("umount_target", "target", {"leftover"}, "rmtree", 1)
  BY DEF UnmountTarget
<1>2. ControlOK' /\ DataOK'
  BY <1>1, TryUnmountingTypes DEF Labels, Calls, Indices
<1>3. /\ pc = "umount_target" /\ UNCHANGED <<temp, inner, target, deleted, unwinding>>
      /\ mounts' \subseteq mounts /\ faults \subseteq faults'
      /\ \/ pc' = "umount_target"
         \/ /\ pc' = "rmtree"
            /\ \/ "target" \notin mounts'
               \/ "leftover" \in mounts
               \/ faults' = faults \cup ({<<"umount_target", "refused">>} \cap Fragile)
  BY <1>1, TryUnmountingOutcome
<1>4. Scoped'
  <2>1. faults' \cap NonDiskFaults = {} => \A i \in 1..3 : NonDisk[i] \notin mounts'
    BY <1>3 DEF Inv, Scoped, NonDiskScope, InChroot
  <2>2. faults' \cap TargetFaults = {} =>
          "leftover" \notin mounts' /\ ("target" \in mounts' => pc' \in TargetScope)
    BY <1>3 DEF Inv, Scoped, TargetScope, TargetFaults, Fragile
  <2>3. deleted = {} /\ deleted' = {}
    BY <1>3 DEF Inv, Scoped
  <2>4. QED
    BY <1>3, <2>1, <2>2, <2>3 DEF Inv, Scoped, DeletionExplained
<1>5. Installed' /\ Prepared' /\ Mounted'
  BY <1>3 DEF Inv, Installed, SuccessIsComplete, Succeeded, Prepared, Mounted, InInner, InChroot
<1>6. QED
  BY <1>2, <1>4, <1>5 DEF Inv

LEMMA RemoveTempDirInv == ASSUME Inv, RemoveTempDir PROVE Inv'
<1>1. CASE pc = "rmtree" /\ mounts = {} /\ temp' = FALSE /\ Goto("exit")
           /\ UNCHANGED <<target, deleted, mounts, inner>>
  <2>1. pc' = "exit" /\ UNCHANGED <<unwinding, faults>>
    BY <1>1 DEF Goto, Move
  <2>2. ControlOK' /\ DataOK'
    <3>1. ControlOK'
      BY <1>1, GotoControl DEF Inv, Labels
    <3>2. temp' \in BOOLEAN
      BY <1>1
    <3>3. DataOK'
      BY <1>1, <3>2 DEF Inv, DataOK
    <3>4. QED
      BY <3>1, <3>3
  <2>3. Scoped'
    BY <1>1, <2>1 DEF Inv, Scoped, DeletionExplained
  <2>4. Installed' /\ Prepared' /\ Mounted'
    BY <1>1, <2>1 DEF Inv, Scoped, Installed, SuccessIsComplete, Succeeded, Prepared, Mounted, InInner,
                      InChroot
  <2>5. QED
    BY <2>2, <2>3, <2>4 DEF Inv
<1>2. CASE /\ pc = "rmtree" /\ UNCHANGED <<faults, temp, mounts, inner>>
           /\ \E m \in mounts \cap {"target", "dev", "proc"} :
                /\ \E gone \in {{}, {m} \cap {"target", "dev"}} : deleted' = deleted \cup gone
                /\ target' = IF "target" \in deleted' THEN {} ELSE target
                /\ Throw(pc)
  <2>1. PICK m \in mounts \cap {"target", "dev", "proc"} :
          /\ \E gone \in {{}, {m} \cap {"target", "dev"}} : deleted' = deleted \cup gone
          /\ target' = IF "target" \in deleted' THEN {} ELSE target
          /\ Throw(pc)
    BY <1>2
  <2>2. pc' = "exit" /\ unwinding' = TRUE
    BY <1>2, <2>1, HandlerCases DEF Throw
  <2>3. ControlOK' /\ DataOK'
    <3>1. ControlOK'
      BY <1>2, <2>1, ThrowControl DEF Inv, ControlOK
    <3>2. temp' \in BOOLEAN
      BY <1>2, Zenon DEF Inv, DataOK
    <3>3. DataOK'
      BY <1>2, <2>1, <3>2 DEF Inv, DataOK
    <3>4. QED
      BY <3>1, <3>3
  <2>4. /\ m = "target" => faults \cap TargetFaults # {}
        /\ m = "dev" => faults \cap NonDiskFaults # {}
        /\ m = "proc" => faults \cap NonDiskFaults # {}
    <3>1. m \in mounts /\ NonDisk[1] = "dev" /\ NonDisk[3] = "proc"
      BY <2>1 DEF NonDisk
    <3>2. \A i \in 1..3 : ~NonDiskScope(i)
      BY <1>2 DEF NonDiskScope, InChroot
    <3>3. pc \notin TargetScope
      BY <1>2 DEF TargetScope, InTarget, InChroot
    <3>4. QED
      BY <3>1, <3>2, <3>3 DEF Inv, Scoped
  <2>5. deleted = {} /\ deleted' \subseteq {m}
    BY <1>2, <2>1 DEF Inv, Scoped
  <2>6. DeletionExplained'
    BY <1>2, <2>4, <2>5 DEF DeletionExplained
  <2>7. faults' # {}
    BY <1>2, <2>1, <2>4
  <2>8. Scoped'
    <3>1. faults' \cap NonDiskFaults = {} => \A i \in 1..3 : NonDisk[i] \notin mounts'
      BY <1>2 DEF Inv, Scoped, NonDiskScope, InChroot
    <3>2. faults' \cap TargetFaults = {} => "leftover" \notin mounts' /\ "target" \notin mounts'
      BY <1>2 DEF Inv, Scoped, TargetScope, InTarget, InChroot
    <3>3. QED
      BY <2>2, <2>6, <2>7, <3>1, <3>2 DEF Scoped
  <2>9. Installed' /\ Prepared' /\ Mounted'
    BY <2>2 DEF Installed, SuccessIsComplete, Succeeded, Prepared, Mounted, InInner, InChroot
  <2>10. QED
    BY <2>3, <2>8, <2>9 DEF Inv
<1>3. QED
  BY <1>1, <1>2 DEF RemoveTempDir

LEMMA NextInv == ASSUME Inv, [Next]_vars PROVE Inv'
BY UnpackAdjustInv, ChrootAdjustInv, FaultInv, MakeTempDirInv, MountTargetInv, MountNonDiskInv,
   PacstrapLeavesMountInv, PacstrapInv, FixRootLoginInv, UnmountNonDiskInv, UnmountTargetInv,
   RemoveTempDirInv, StutterInv
   DEF Next, Call, Unpack, Populate, CleanUp, Finished

LEMMA AlwaysInv == Spec => []Inv
<1>1. Init => Inv
  BY InitInv
<1>2. Inv /\ [Next]_vars => Inv'
  BY NextInv
<1>3. QED
  BY <1>1, <1>2, PTL DEF Spec

(***************************************************************************)
(* Theorems.                                                               *)
(***************************************************************************)
(* Every variable of run() keeps its type: the loops of arch.py:207 and    *)
(* :221 stay inside _NON_DISK_MOUNT_TASKS, no umount is tried a fourth     *)
(* time.                                                                   *)
THEOREM TypeCorrect == Spec => []TypeOK
<1>1. Inv => TypeOK
  BY TypeHalves DEF Inv
<1>2. QED
  BY <1>1, AlwaysInv, PTL

(* When run() returns, everything it mounted is unmounted, its temporary   *)
(* directory is gone, and what it installed is complete, whatever umount   *)
(* (arch.py:217-224) swallowed on the way.                                 *)
THEOREM SuccessHolds == Spec => []SuccessIsComplete
<1>1. Inv => SuccessIsComplete
  BY DEF Inv, Installed
<1>2. QED
  BY <1>1, AlwaysInv, PTL

(* rmtree (arch.py:264) reaches the target or the host's devices only      *)
(* after a fault that left them mounted.                                   *)
THEOREM DeletionIsExplained == Spec => []DeletionExplained
<1>1. Inv => DeletionExplained
  BY DEF Inv, Scoped
<1>2. QED
  BY <1>1, AlwaysInv, PTL

(* The temporary directory survives run() only after a fault (arch.py:264).*)
THEOREM TempDirIsExplained == Spec => []TempDirExplained
<1>1. Inv => TempDirExplained
  BY DEF Inv, Scoped, TempDirExplained
<1>2. QED
  BY <1>1, AlwaysInv, PTL

(* Whichever calls fail, pacman and pacstrap (arch.py:253-256) are never   *)
(* run without their mounts, keys and settings.                            *)
THEOREM EnvironmentHolds == Spec => []PacstrapEnvironment
<1>1. Inv => PacstrapEnvironment
  <2> SUFFICES ASSUME Inv PROVE PacstrapEnvironment
    OBVIOUS
  <2>1. pc \in InChroot => {"target", "dev", "dev/pts", "proc"} \subseteq mounts
    <3>1. NonDisk[1] = "dev" /\ NonDisk[2] = "dev/pts" /\ NonDisk[3] = "proc"
      BY DEF NonDisk
    <3>2. QED
      BY <3>1 DEF Inv, Mounted
  <2>2. pc = "pacstrap" => inner = InnerParts
    BY DEF Inv, DataOK, Prepared, InInner, InChroot, InnerParts
  <2>3. QED
    BY <2>1, <2>2 DEF PacstrapEnvironment
<1>2. QED
  BY <1>1, AlwaysInv, PTL

(***************************************************************************)
(* run() implements Lease: its nested try/finally statements (arch.py:     *)
(* 229-264) take and give back as the abstract discipline allows.  Each    *)
(* action is a step of Lease on the sets Held and Lost, or none.           *)
(***************************************************************************)
Taken(p)    == Present(AcquisitionOrder[p])
Answered(p) == Answerable(AcquisitionOrder[p])

(* What is about to be taken has not been taken yet.                       *)
Fresh ==
  /\ pc = "mkdtemp" => temp = FALSE
  /\ pc \in {"mkdtemp"} \cup (InTemp \ {"umount_target"}) => mounts = {}
  /\ pc = "mount_nondisk" => \A i \in 1..3 : NonDisk[i] \in mounts => i < k

LEMMA Order ==
  /\ Len(AcquisitionOrder) = 6
  /\ AcquisitionOrder[1] = "temp" /\ AcquisitionOrder[2] = "target"
  /\ AcquisitionOrder[3] = "dev" /\ AcquisitionOrder[4] = "dev/pts"
  /\ AcquisitionOrder[5] = "proc" /\ AcquisitionOrder[6] = "leftover"
BY DEF AcquisitionOrder, NonDisk

LEMMA PlaceCases ==
  /\ Places = 1..6
  /\ \A p \in Places : p \in {1, 2, 3, 4, 5, 6}
BY Order DEF Places

(***************************************************************************)
(* The kinds of steps, by what they do to what is taken and answered for.  *)
(***************************************************************************)
MayBeOver == (pc = "exit" => pc' = "exit") /\ (pc' = "exit" => \A p \in Places : ~Answered(p)')

LEMMA CutStep ==
  ASSUME NEW c \in 1..7, MayBeOver, \A p \in Places : Taken(p)' <=> Taken(p),
         \A p \in Places : Taken(p) => (Answered(p)' <=> Answered(p) /\ p < c)
  PROVE  L!Next
<1>1. Held' = {p \in Held : p < c} /\ Lost' = Lost \cup (Held \ Held')
  BY Zenon DEF Held, Lost, Taken, Answered
<1>2. L!MayEnd
  BY Zenon DEF L!MayEnd, MayBeOver, Held, Answered
<1>3. \A h \in Held' : \A g \in Held \ Held' : h < g
  <2>1. \A h \in Places : \A g \in Places : h < c /\ ~(g < c) => h < g  BY PlaceCases
  <2>2. \A g \in Held : g \in Places  BY Zenon DEF Held
  <2> QED  BY <1>1, <2>1, <2>2, Zenon
<1>4. L!Abandon  BY <1>1, <1>2, <1>3, Zenon DEF L!Abandon
<1> QED  BY <1>4, Zenon DEF L!Next

LEMMA TakeStep ==
  ASSUME NEW n \in Places, ~Taken(n), Taken(n)', Answered(n)', pc # "exit", pc' # "exit",
         \A p \in Places \ {n} : Taken(p)' <=> Taken(p),
         \A p \in Places \ {n} : Taken(p) => (Answered(p)' <=> Answered(p)) /\ (Answered(p) => p < n)
  PROVE  L!Next
<1>1. Held' = Held \cup {n} /\ Lost' = Lost /\ n \notin Lost
  BY Zenon DEF Held, Lost, Taken, Answered
<1>2. \A h \in Held : h < n
  BY Zenon DEF Held, Taken, Answered
<1>3. (pc = "exit")' <=> (pc = "exit")  OBVIOUS
<1>4. L!Acquire(n)  BY <1>1, <1>2, <1>3, Zenon DEF L!Acquire
<1> QED  BY <1>4, Zenon DEF L!Next, L!Places, Places

LEMMA MissStep ==
  ASSUME NEW n \in Places, ~Taken(n), Taken(n)', ~Answered(n)', MayBeOver, pc # "exit",
         \A p \in Places \ {n} : Taken(p)' <=> Taken(p),
         \A p \in Places \ {n} : Taken(p) => (Answered(p)' <=> Answered(p))
  PROVE  L!Next
<1>1. Held' = Held /\ Lost' = Lost \cup {n} /\ n \notin Held \cup Lost
  BY Zenon DEF Held, Lost, Taken, Answered
<1>2. L!MayEnd
  BY Zenon DEF L!MayEnd, MayBeOver, Held, Answered
<1>3. L!Miss(n)  BY <1>1, <1>2, Zenon DEF L!Miss
<1> QED  BY <1>3, Zenon DEF L!Next, L!Places, Places

LEMMA ReleaseStep ==
  ASSUME NEW n \in Places, Taken(n), Answered(n), ~Taken(n)', MayBeOver,
         \A p \in Places \ {n} : Taken(p)' <=> Taken(p),
         \A p \in Places \ {n} : Taken(p) => (Answered(p)' <=> Answered(p)) /\ (Answered(p) => p <= n)
  PROVE  L!Next
<1>1. Held' = Held \ {n} /\ Lost' = Lost /\ n \in Held
  BY Zenon DEF Held, Lost, Taken, Answered
<1>2. \A h \in Held : h <= n
  <2>1. n <= n  BY PlaceCases
  <2> QED  BY <2>1, Zenon DEF Held, Taken, Answered
<1>3. L!MayEnd
  BY Zenon DEF L!MayEnd, MayBeOver, Held, Answered
<1>4. L!Release(n)  BY <1>1, <1>2, <1>3, Zenon DEF L!Release
<1> QED  BY <1>4, Zenon DEF L!Next, L!Places, Places

(* What is taken, and where someone answers for it, place by place.        *)
LEMMA TakenCases ==
  /\ Taken(1) <=> temp
  /\ Taken(2) <=> "target" \in mounts
  /\ \A i \in 1..3 : Taken(i + 2) <=> NonDisk[i] \in mounts
  /\ Taken(6) <=> "leftover" \in mounts
BY Order DEF Taken, Present, NonDisk

(* Where every file system of _NON_DISK_MOUNT_TASKS is answered for.      *)
InMounts == InChroot \cup {"mount_nondisk"}

(* Where the program counter answers for what, place by place.             *)
ScopesOfPlaces ==
  /\ Answered(1) <=> pc \in Calls \ {"mkdtemp"}
  /\ Answered(2) <=> pc \in TargetScope
  /\ \A i \in 1..3 : Answered(i + 2) <=> pc \in InMounts \/ (pc = "umount_nondisk" /\ i <= k)
  /\ ~Answered(6)

LEMMA AnsweredCases == ControlOK => ScopesOfPlaces
<1> SUFFICES ASSUME ControlOK PROVE ScopesOfPlaces
  OBVIOUS
<1>1. /\ Answered(1) <=> pc \in Calls \ {"mkdtemp"}
      /\ Answered(2) <=> pc \in TargetScope
  BY Order DEF Answered, Answerable, TargetScope
<1>2. pc = "umount_nondisk" => k \in 0..3  BY DEF ControlOK, Indices
<1>3. ~Answered(6)
  <2>1. pc = "umount_nondisk" => \A i \in 1..k : NonDisk[i] # "leftover"  BY <1>2 DEF NonDisk
  <2>2. Answered(6) <=> pc = "umount_nondisk" /\ \E i \in 1..k : "leftover" = NonDisk[i]
    BY Order, Zenon DEF Answered, Answerable
  <2> QED  BY <2>1, <2>2, Zenon
<1>4. ASSUME NEW i \in 1..3
      PROVE  Answered(i + 2) <=> pc \in InMounts \/ (pc = "umount_nondisk" /\ i <= k)
  <2>1. /\ AcquisitionOrder[i + 2] = NonDisk[i]
        /\ NonDisk[i] # "temp" /\ NonDisk[i] # "target" /\ NonDisk[i] # "leftover"
    BY Order DEF NonDisk
  <2>2. Answered(i + 2) <=>
          pc \in InMounts \/ (pc = "umount_nondisk" /\ \E j \in 1..k : NonDisk[i] = NonDisk[j])
    BY <2>1, Zenon DEF Answered, Answerable, InMounts
  <2>3. \A j \in 1..3 : NonDisk[i] = NonDisk[j] => i = j  BY DEF NonDisk
  <2>4. pc = "umount_nondisk" => ((\E j \in 1..k : NonDisk[i] = NonDisk[j]) <=> i <= k)
    BY <1>2, <2>3
  <2> QED  BY <2>2, <2>4, Zenon
<1> QED  BY <1>1, <1>3, <1>4 DEF ScopesOfPlaces

(* Whatever p is, it is one of these.                                      *)
LEMMA EachPlace == \A p \in Places : p \in {1, 2, 6} \/ \E i \in 1..3 : p = i + 2
<1>1. \A p \in 1..6 : p \in {1, 2, 6} \/ \E i \in 1..3 : p = i + 2
  <2> SUFFICES ASSUME NEW p \in 1..6, p \notin {1, 2, 6} PROVE \E i \in 1..3 : p = i + 2
    OBVIOUS
  <2>1. p - 2 \in 1..3 /\ p = (p - 2) + 2  OBVIOUS
  <2> QED  BY <2>1
<1> QED  BY <1>1, PlaceCases

(* Nothing is taken or given back.                                         *)
LEMMA TakenKept == ASSUME UNCHANGED <<temp, mounts>> PROVE \A p \in Places : Taken(p)' <=> Taken(p)
BY Zenon DEF Taken, Present

(* A step from one call to another that takes and gives back nothing.      *)
LEMMA AnsweredKept ==
  ASSUME ControlOK, ControlOK', pc \in Calls \ {"mkdtemp"}, pc' \in Calls \ {"mkdtemp"},
         "target" \in mounts => (pc' \in TargetScope <=> pc \in TargetScope),
         \A i \in 1..3 : NonDisk[i] \in mounts =>
            (pc' \in InMounts \/ (pc' = "umount_nondisk" /\ i <= k')
               <=> pc \in InMounts \/ (pc = "umount_nondisk" /\ i <= k))
  PROVE  /\ \A p \in Places : Taken(p) => (Answered(p)' <=> Answered(p))
         /\ MayBeOver
<1>1. pc # "exit" /\ pc' # "exit"  BY DEF Calls, InTemp, InTarget, InChroot
<1>4. ControlOK' => ScopesOfPlaces'  BY AnsweredCases, PTL
<1>5. ScopesOfPlaces /\ ScopesOfPlaces'  BY <1>4, AnsweredCases
<1>2. \A i \in 1..3 : Taken(i + 2) => (Answered(i + 2)' <=> Answered(i + 2))
  BY <1>5, TakenCases, Zenon DEF ScopesOfPlaces
<1>3. /\ Taken(1) => (Answered(1)' <=> Answered(1))
      /\ Taken(2) => (Answered(2)' <=> Answered(2))
      /\ Taken(6) => (Answered(6)' <=> Answered(6))
  BY <1>5, TakenCases, Zenon DEF ScopesOfPlaces
<1>6. \A p \in {1, 2, 6} : Taken(p) => (Answered(p)' <=> Answered(p))  BY <1>3
<1> QED  BY <1>1, <1>2, <1>6, EachPlace, Zenon DEF MayBeOver

LEMMA QuietStep ==
  ASSUME ControlOK, ControlOK', pc \in Calls \ {"mkdtemp"}, pc' \in Calls \ {"mkdtemp"},
         UNCHANGED <<temp, mounts>>,
         "target" \in mounts => (pc' \in TargetScope <=> pc \in TargetScope),
         \A i \in 1..3 : NonDisk[i] \in mounts =>
            (pc' \in InMounts \/ (pc' = "umount_nondisk" /\ i <= k')
               <=> pc \in InMounts \/ (pc = "umount_nondisk" /\ i <= k))
  PROVE  L!Next
<1>1. \A p \in Places : p < 7  BY PlaceCases
<1>2. 7 \in 1..7  OBVIOUS
<1> QED  BY <1>1, <1>2, AnsweredKept, TakenKept, CutStep, Zenon

(***************************************************************************)
(* Fresh is inductive, given Inv.                                          *)
(***************************************************************************)
LEMMA FreshInit == ASSUME Init PROVE Fresh
<1>1. temp = FALSE  BY Zenon DEF Init
<1>2. pc = "mkdtemp" /\ mounts = {}  BY DEF Init
<1> QED  BY <1>1, <1>2 DEF Fresh

(* Who is still before the first mount, or mounting, was so before.        *)
LEMMA FreshKept ==
  ASSUME Inv, Fresh, [Next]_vars
  PROVE  Fresh'
<1>1. CASE MakeTempDir
  BY <1>1, HandlerCases DEF MakeTempDir, Fresh, Goto, Move, Raise, Throw, InTemp
<1>2. CASE FindImage \/ DownloadImage \/ ExtractImage \/ AdjustMirrorList \/ CopyResolvConf \/ MakeMountPoint
  BY <1>2 DEF FindImage, DownloadImage, ExtractImage, AdjustMirrorList, CopyResolvConf, MakeMountPoint,
              Adjust, Goto, Move, Fresh, InTemp
<1>3. CASE MountTarget
  BY <1>3, HandlerCases DEF MountTarget, Goto, Move, FirstIndex, Raise, Throw, Fresh, InTemp, NonDisk
<1>4. CASE MountNonDisk
  <2>1. pc = "mount_nondisk" /\ k \in 1..4  BY <1>4 DEF MountNonDisk, Inv, ControlOK, Indices
  <2>2. CASE k <= 3 /\ mounts' = mounts \cup {NonDisk[k]} /\ pc' = pc /\ k' = k + 1
    <3>1. \A i \in 1..3 : NonDisk[i] = NonDisk[k] => i = k  BY <2>1, <2>2 DEF NonDisk
    <3>2. \A i \in 1..3 : NonDisk[i] \in mounts => i < k  BY <2>1 DEF Fresh
    <3>3. \A i \in 1..3 : NonDisk[i] \in mounts' => i < k'  BY <2>1, <2>2, <3>1, <3>2
    <3> QED  BY <2>1, <2>2, <3>3 DEF Fresh, InTemp
  <2>3. CASE pc' = "key_init"
    BY <2>3 DEF Fresh, InTemp
  <2> QED  BY <1>4, <2>2, <2>3 DEF MountNonDisk, Goto, Move
<1>5. CASE InitializeKeyring \/ PopulateKeyring \/ DisableCheckSpace \/ SyncKeyring
  BY <1>5 DEF InitializeKeyring, PopulateKeyring, DisableCheckSpace, SyncKeyring, Adjust, Goto, Move,
              Fresh, InTemp
<1>6. CASE PacstrapLeavesMount \/ Pacstrap \/ FixRootLogin
  BY <1>6, HandlerCases DEF PacstrapLeavesMount, Pacstrap, FixRootLogin, Goto, Move, Raise, Throw, Fresh,
              InTemp, InChroot
<1>7. CASE UnmountNonDisk \/ UnmountTarget \/ RemoveTempDir
  BY <1>7, HandlerCases DEF UnmountNonDisk, UnmountTarget, RemoveTempDir, TryUnmounting, Goto, Move,
              Continuation, Throw, Fresh, InTemp, InTarget
<1>8. CASE Fault
  BY <1>8, HandlerCases DEF Fault, Raise, Throw, Fresh, InTemp, InTarget, InChroot, Inv, ControlOK, Labels, Calls
<1>9. CASE UNCHANGED vars
  BY <1>9 DEF vars, control, Fresh
<1> QED
  BY <1>1, <1>2, <1>3, <1>4, <1>5, <1>6, <1>7, <1>8, <1>9
     DEF Next, Call, Unpack, Populate, CleanUp, Finished

(***************************************************************************)
(* Every step of run() is one of Lease, or none.                           *)
(***************************************************************************)
LEMMA LabelCases ==
  /\ TargetScope = {"mount_nondisk", "umount_nondisk", "umount_target"} \cup InChroot
  /\ \A l \in InTemp \cup InTarget \cup InChroot \cup {"rmtree"} : l \in Calls \ {"mkdtemp"}
  /\ \A l \in Calls : l # "exit"
BY DEF TargetScope, InTarget, Calls, InTemp, InChroot

(* A call on the bootstrap image takes and gives back nothing.             *)
LEMMA AdjustLease ==
  ASSUME Inv, Inv', NEW l, NEW next, NEW part, Adjust(l, next, part),
         \/ l \in InTemp \ {"umount_target"} /\ next \in InTemp \ {"umount_target"} /\ Fresh
         \/ l \in InChroot /\ next \in InChroot
  PROVE  L!Next
<1>1. pc = l /\ pc' = next /\ UNCHANGED <<temp, mounts>>
  BY DEF Adjust, Goto, Move
<1>2. ControlOK /\ ControlOK'  BY DEF Inv
<1>3. CASE l \in InTemp \ {"umount_target"} /\ next \in InTemp \ {"umount_target"} /\ Fresh
  <2>1. mounts = {}  BY <1>1, <1>3 DEF Fresh
  <2> QED  BY <1>1, <1>2, <1>3, <2>1, LabelCases, QuietStep
<1>4. CASE l \in InChroot /\ next \in InChroot
  BY <1>1, <1>2, <1>4, LabelCases, QuietStep DEF InMounts
<1> QED  BY <1>3, <1>4

LEMMA AdjustsLease ==
  ASSUME Inv, Inv', Fresh,
         \/ FindImage \/ DownloadImage \/ ExtractImage \/ AdjustMirrorList \/ CopyResolvConf
         \/ MakeMountPoint \/ InitializeKeyring \/ PopulateKeyring \/ DisableCheckSpace \/ SyncKeyring
  PROVE  L!Next
BY AdjustLease DEF FindImage, DownloadImage, ExtractImage, AdjustMirrorList, CopyResolvConf,
   MakeMountPoint, InitializeKeyring, PopulateKeyring, DisableCheckSpace, SyncKeyring, InTemp, InChroot

(* What becomes over is over with nothing answered for.                    *)
LEMMA ExitAnswers == ASSUME ControlOK', pc # "exit" PROVE MayBeOver
<1>1. ControlOK' => ScopesOfPlaces'  BY AnsweredCases, PTL
<1>2. SUFFICES ASSUME pc' = "exit" PROVE \A p \in Places : ~Answered(p)'
  BY DEF MayBeOver
<1>3. pc' \notin Calls /\ pc' \notin TargetScope /\ pc' \notin InMounts /\ pc' # "umount_nondisk"
  BY <1>2, LabelCases DEF InMounts, InChroot
<1>5. ~Answered(1)' /\ ~Answered(2)' /\ ~Answered(6)' /\ \A i \in 1..3 : ~Answered(i + 2)'
  BY <1>1, <1>3, Zenon DEF ScopesOfPlaces
<1>6. \A p \in {1, 2, 6} : ~Answered(p)'  BY <1>5
<1> QED  BY <1>5, <1>6, EachPlace, Zenon

(* Everything from place c on is given up.                                 *)
LEMMA CutAt ==
  ASSUME ControlOK, ControlOK', pc # "exit", UNCHANGED <<temp, mounts>>,
         NEW c \in {1, 2, 3},
         Answered(1)' <=> Answered(1) /\ 1 < c,
         Answered(2)' <=> Answered(2) /\ 2 < c,
         \A i \in 1..3 : ~Answered(i + 2)'
  PROVE  L!Next
<1>1. ControlOK' => ScopesOfPlaces'  BY AnsweredCases, PTL
<1>2. ~Answered(6)' /\ ~Answered(6)  BY <1>1, AnsweredCases DEF ScopesOfPlaces
<1>3. \A i \in 1..3 : ~(i + 2 < c)  OBVIOUS
<1>4. \A p \in {1, 2, 6} : Answered(p)' <=> Answered(p) /\ p < c
  BY <1>2, Zenon
<1>5. \A p \in Places : Answered(p)' <=> Answered(p) /\ p < c
  BY <1>3, <1>4, EachPlace, Zenon
<1>6. c \in 1..7  OBVIOUS
<1> QED  BY <1>5, <1>6, ExitAnswers, TakenKept, CutStep, Zenon

LEMMA FaultLease ==
  ASSUME Inv, Inv', Fault
  PROVE  L!Next
<1>1. ControlOK /\ ControlOK'  BY DEF Inv
<1>2. ControlOK' => ScopesOfPlaces'  BY AnsweredCases, PTL
<1>3. ScopesOfPlaces /\ ScopesOfPlaces'  BY <1>1, <1>2, AnsweredCases
<1>4. /\ pc # "exit" /\ UNCHANGED <<temp, mounts>>
      /\ pc' = Handler(pc) /\ k' = FirstIndex(pc')
      /\ pc \in InTemp \cup InTarget \cup InChroot \cup {"mkdtemp", "rmtree"}
  BY DEF Fault, Raise, Throw, Inv, ControlOK, Labels, Calls
<1>5. CASE pc \in InChroot
  <2>1. pc' = "umount_nondisk" /\ k' = 3  BY <1>4, <1>5, HandlerCases DEF FirstIndex
  <2>2. \A i \in 1..3 : i <= 3  OBVIOUS
  <2> QED  BY <1>1, <1>4, <1>5, <2>1, <2>2, LabelCases, QuietStep DEF InMounts, InTarget
<1>6. CASE pc \in InTarget
  <2>1. pc' = "umount_target"  BY <1>4, <1>6, HandlerCases
  <2>2. /\ pc \in TargetScope /\ pc \in Calls \ {"mkdtemp"}
        /\ pc' \in TargetScope /\ pc' \in Calls \ {"mkdtemp"} /\ pc' \notin InMounts
    BY <1>6, <2>1, LabelCases DEF InTarget, InTemp, InMounts, InChroot
  <2>3. pc' # "umount_nondisk" /\ 1 < 3 /\ 2 < 3  BY <2>1
  <2> QED  BY <1>1, <1>3, <1>4, <2>2, <2>3, CutAt, Zenon DEF ScopesOfPlaces
<1>7. CASE pc \in InTemp
  <2>1. pc' = "rmtree"  BY <1>4, <1>7, HandlerCases
  <2>2. /\ pc \in Calls \ {"mkdtemp"} /\ pc' \in Calls \ {"mkdtemp"}
        /\ pc' \notin TargetScope /\ pc' \notin InMounts
    BY <1>7, <2>1, LabelCases DEF InTemp, InMounts, InChroot
  <2>3. pc' # "umount_nondisk" /\ 1 < 2 /\ ~(2 < 2)  BY <2>1
  <2> QED  BY <1>1, <1>3, <1>4, <2>2, <2>3, CutAt, Zenon DEF ScopesOfPlaces
<1>8. CASE pc \in {"mkdtemp", "rmtree"}
  <2>1. pc' = "exit"  BY <1>4, <1>8, HandlerCases
  <2>2. pc' \notin Calls /\ pc' \notin TargetScope /\ pc' \notin InMounts /\ pc \notin TargetScope
    BY <1>8, <2>1, LabelCases DEF InMounts, InChroot
  <2>3. pc' # "umount_nondisk" /\ ~(1 < 1) /\ ~(2 < 1)  BY <2>1
  <2> QED  BY <1>1, <1>3, <1>4, <2>2, <2>3, CutAt, Zenon DEF ScopesOfPlaces
<1> QED  BY <1>4, <1>5, <1>6, <1>7, <1>8

(* Of what is taken only place n changes.                                  *)
LEMMA OtherPlaces ==
  ASSUME ControlOK, ControlOK', NEW n \in Places,
         n # 1 => (temp' <=> temp),
         n # 2 => ("target" \in mounts' <=> "target" \in mounts),
         n # 6 => ("leftover" \in mounts' <=> "leftover" \in mounts),
         \A i \in 1..3 : n # i + 2 => (NonDisk[i] \in mounts' <=> NonDisk[i] \in mounts)
  PROVE  \A p \in Places \ {n} : Taken(p)' <=> Taken(p)
<1> DEFINE T == /\ Taken(1) <=> temp
                /\ Taken(2) <=> "target" \in mounts
                /\ \A i \in 1..3 : Taken(i + 2) <=> NonDisk[i] \in mounts
                /\ Taken(6) <=> "leftover" \in mounts
<1>1. T  BY TakenCases
<1>2. T'
  BY Order DEF Taken, Present, NonDisk
<1>3. \A i \in 1..3 : n # i + 2 => (Taken(i + 2)' <=> Taken(i + 2))  BY <1>1, <1>2, Zenon
<1>4. \A p \in {1, 2, 6} : n # p => (Taken(p)' <=> Taken(p))
  BY <1>1, <1>2
<1>5. SUFFICES ASSUME NEW p \in Places, n # p PROVE Taken(p)' <=> Taken(p)
  OBVIOUS
<1>6. CASE p \in {1, 2, 6}  BY <1>4, <1>5, <1>6
<1>7. CASE \E i \in 1..3 : p = i + 2
  <2>1. PICK i \in 1..3 : p = i + 2  BY <1>7
  <2> QED  BY <1>3, <1>5, <2>1
<1> QED  BY <1>6, <1>7, EachPlace

(* TakenCases of the next state.                                           *)
LEMMA TakenNext ==
  /\ Taken(1)' <=> temp'
  /\ Taken(2)' <=> "target" \in mounts'
  /\ \A i \in 1..3 : Taken(i + 2)' <=> NonDisk[i] \in mounts'
  /\ Taken(6)' <=> "leftover" \in mounts'
BY Order DEF Taken, Present, NonDisk

LEMMA MakeTempDirLease ==
  ASSUME Inv, Inv', Fresh, MakeTempDir
  PROVE  L!Next
<1>1. ControlOK /\ ControlOK'  BY DEF Inv
<1>2. ControlOK' => ScopesOfPlaces'  BY AnsweredCases, PTL
<1>3. ScopesOfPlaces /\ ScopesOfPlaces'  BY <1>1, <1>2, AnsweredCases
<1>4. /\ pc = "mkdtemp" /\ temp = FALSE /\ temp' = TRUE /\ mounts = {} /\ mounts' = {}
      /\ pc' = "find_image" \/ pc' = "exit"
  BY HandlerCases DEF MakeTempDir, Goto, Move, Raise, Throw, Fresh
<1>5. 1 \in Places /\ 1 # 2 /\ 1 # 6 /\ \A i \in 1..3 : 1 # i + 2  BY PlaceCases
<1>6. \A p \in Places \ {1} : (Taken(p)' <=> Taken(p)) /\ ~Taken(p)
  <2>1. \A p \in Places \ {1} : Taken(p)' <=> Taken(p)
    BY <1>1, <1>4, <1>5, OtherPlaces, Zenon
  <2>2. ~Taken(2) /\ ~Taken(6) /\ \A i \in 1..3 : ~Taken(i + 2)
    BY <1>4, TakenCases, Zenon
  <2>3. \A p \in {2, 6} : ~Taken(p)  BY <2>2
  <2> QED  BY <2>1, <2>2, <2>3, EachPlace, Zenon
<1>7. ~Taken(1) /\ Taken(1)'  BY <1>4, TakenCases, TakenNext, Zenon
<1>8. CASE pc' = "find_image"
  <2>1. pc' \in Calls \ {"mkdtemp"} /\ pc' # "exit" /\ pc # "exit"
    BY <1>4, <1>8, LabelCases DEF InTemp
  <2>2. Answered(1)'  BY <1>3, <2>1, Zenon DEF ScopesOfPlaces
  <2> QED  BY <1>5, <1>6, <1>7, <2>1, <2>2, TakeStep, Zenon
<1>9. CASE pc' = "exit"
  <2>1. pc' \notin Calls /\ pc # "exit"  BY <1>4, <1>9, LabelCases
  <2>2. ~Answered(1)'  BY <1>3, <2>1, Zenon DEF ScopesOfPlaces
  <2>3. MayBeOver  BY <1>1, <2>1, ExitAnswers
  <2> QED  BY <1>5, <1>6, <1>7, <2>1, <2>2, <2>3, MissStep, Zenon
<1> QED  BY <1>4, <1>8, <1>9

LEMMA MountTargetLease ==
  ASSUME Inv, Inv', Fresh, MountTarget
  PROVE  L!Next
<1>1. ControlOK /\ ControlOK'  BY DEF Inv
<1>2. ControlOK' => ScopesOfPlaces'  BY AnsweredCases, PTL
<1>3. ScopesOfPlaces /\ ScopesOfPlaces'  BY <1>1, <1>2, AnsweredCases
<1>4. /\ pc = "mount_target" /\ temp' = temp /\ mounts = {} /\ mounts' = {"target"}
      /\ pc' = "mount_nondisk" \/ pc' = "rmtree"
  BY HandlerCases DEF MountTarget, Goto, Move, Raise, Throw, Fresh, InTemp
<1>5. 2 \in Places /\ 2 # 6 /\ 1 < 2 /\ \A i \in 1..3 : 2 # i + 2 /\ NonDisk[i] # "target"
  BY PlaceCases DEF NonDisk
<1>6. \A p \in Places \ {2} : Taken(p)' <=> Taken(p)
  BY <1>1, <1>4, <1>5, OtherPlaces
<1>7. \A p \in Places \ {2} : Taken(p) => p = 1
  <2>1. ~Taken(6) /\ \A i \in 1..3 : ~Taken(i + 2)
    BY <1>4, TakenCases, Zenon
  <2>2. \A p \in {1, 6} : Taken(p) => p = 1  BY <2>1
  <2> QED  BY <2>1, <2>2, EachPlace, Zenon
<1>8. ~Taken(2) /\ Taken(2)'  BY <1>4, TakenCases, TakenNext
<1>9. /\ pc \in Calls \ {"mkdtemp"} /\ pc' \in Calls \ {"mkdtemp"}
      /\ pc # "exit" /\ pc' # "exit"
  BY <1>4, LabelCases DEF InTemp, InTarget
<1>10. Answered(1)' <=> Answered(1)  BY <1>3, <1>9, Zenon DEF ScopesOfPlaces
<1>11. CASE pc' = "mount_nondisk"
  <2>1. Answered(2)'  BY <1>3, <1>11, LabelCases DEF ScopesOfPlaces
  <2> QED  BY <1>5, <1>6, <1>7, <1>8, <1>9, <1>10, <2>1, TakeStep, Zenon
<1>12. CASE pc' = "rmtree"
  <2>1. pc' \notin TargetScope  BY <1>12, LabelCases DEF InChroot
  <2>2. ~Answered(2)'  BY <1>3, <2>1, Zenon DEF ScopesOfPlaces
  <2>3. MayBeOver  BY <1>1, <1>9, ExitAnswers
  <2> QED  BY <1>5, <1>6, <1>7, <1>8, <1>9, <1>10, <2>2, <2>3, MissStep, Zenon
<1> QED  BY <1>4, <1>11, <1>12

LEMMA MountNonDiskLease ==
  ASSUME Inv, Inv', Fresh, MountNonDisk
  PROVE  L!Next
<1>1. ControlOK /\ ControlOK'  BY DEF Inv
<1>2. ControlOK' => ScopesOfPlaces'  BY AnsweredCases, PTL
<1>3. ScopesOfPlaces /\ ScopesOfPlaces'  BY <1>1, <1>2, AnsweredCases
<1>4. pc = "mount_nondisk" /\ k \in 1..4 /\ temp' = temp
  BY <1>1 DEF MountNonDisk, ControlOK, Indices
<1>5. CASE k <= 3 /\ mounts' = mounts \cup {NonDisk[k]} /\ pc' = pc
  <2>0. PICK j \in 1..3 : j = k  BY <1>4, <1>5
  <2> DEFINE n == j + 2
  <2>1. /\ n \in Places /\ n # 1 /\ n # 2 /\ n # 6 /\ 1 < n /\ 2 < n
        /\ \A i \in 1..3 : i < j => i + 2 < n
    BY PlaceCases
  <2>2. \A i \in 1..3 : NonDisk[i] \in mounts => i < j  BY <1>4, <2>0 DEF Fresh
  <2>3. \A i \in 1..3 : n # i + 2 => NonDisk[i] # NonDisk[j]  BY DEF NonDisk
  <2>4. NonDisk[j] # "target" /\ NonDisk[j] # "leftover" /\ NonDisk[j] \notin mounts
    BY <2>2 DEF NonDisk
  <2>5. ~Taken(n) /\ Taken(n)'
    <3>1. NonDisk[j] \in mounts'  BY <1>5, <2>0
    <3> QED  BY <2>4, <3>1, TakenCases, TakenNext, Zenon
  <2>6. \A p \in Places \ {n} : Taken(p)' <=> Taken(p)
    <3> HIDE DEF n
    <3> QED  BY <1>1, <1>4, <1>5, <2>0, <2>1, <2>3, <2>4, OtherPlaces
  <2>7. pc \in InMounts /\ pc' \in InMounts /\ pc # "exit" /\ pc' # "exit"
    BY <1>4, <1>5 DEF InMounts
  <2>8. Answered(n)'  BY <1>3, <2>7, Zenon DEF ScopesOfPlaces
  <2>9. \A p \in Places : Answered(p)' <=> Answered(p)
    <3>1. /\ (Answered(1)' <=> Answered(1)) /\ (Answered(2)' <=> Answered(2))
          /\ (Answered(6)' <=> Answered(6))
      BY <1>3, <1>5, Zenon DEF ScopesOfPlaces
    <3>2. \A i \in 1..3 : Answered(i + 2)' <=> Answered(i + 2)
      BY <1>3, <2>7, Zenon DEF ScopesOfPlaces
    <3>3. \A p \in {1, 2, 6} : Answered(p)' <=> Answered(p)  BY <3>1
    <3> QED  BY <3>2, <3>3, EachPlace, Zenon
  <2>10. \A p \in Places \ {n} : Taken(p) /\ Answered(p) => p < n
    <3>1. \A i \in 1..3 : Taken(i + 2) => i + 2 < n  BY <2>1, <2>2, TakenCases, Zenon
    <3>2. ~Answered(6)  BY <1>3 DEF ScopesOfPlaces
    <3>3. \A p \in {1, 2, 6} : Answered(p) => p < n  BY <2>1, <3>2
    <3> QED  BY <3>1, <3>3, EachPlace, Zenon
  <2> HIDE DEF n
  <2> QED  BY <2>1, <2>5, <2>6, <2>7, <2>8, <2>9, <2>10, TakeStep, Zenon
<1>6. CASE mounts' = mounts /\ pc' = "key_init"
  BY <1>1, <1>4, <1>6, LabelCases, QuietStep DEF InMounts, InChroot, InTarget
<1> QED  BY <1>5, <1>6 DEF MountNonDisk, Goto, Move

LEMMA PacstrapLeavesMountLease ==
  ASSUME Inv, Inv', PacstrapLeavesMount
  PROVE  L!Next
<1>1. ControlOK /\ ControlOK'  BY DEF Inv
<1>2. ControlOK' => ScopesOfPlaces'  BY AnsweredCases, PTL
<1>3. ScopesOfPlaces /\ ScopesOfPlaces'  BY <1>1, <1>2, AnsweredCases
<1>4. /\ pc = "pacstrap" /\ pc' = pc /\ temp' = temp /\ k' = k
      /\ mounts' = mounts \cup {"leftover"}
  BY DEF PacstrapLeavesMount
<1>5. CASE "leftover" \in mounts
  <2>1. mounts' = mounts  BY <1>4, <1>5
  <2> QED  BY <1>1, <1>4, <2>1, LabelCases, QuietStep DEF InChroot
<1>6. CASE "leftover" \notin mounts
  <2>1. 6 \in Places /\ 6 # 1 /\ 6 # 2 /\ \A i \in 1..3 : NonDisk[i] # "leftover"
    BY PlaceCases DEF NonDisk
  <2>2. ~Taken(6) /\ Taken(6)' /\ ~Answered(6)'
    BY <1>3, <1>4, <1>6, TakenCases, TakenNext DEF ScopesOfPlaces
  <2>3. \A p \in Places \ {6} : Taken(p)' <=> Taken(p)
    BY <1>1, <1>4, <2>1, OtherPlaces
  <2>4. \A p \in Places : Answered(p)' <=> Answered(p)
    BY <1>4, Zenon DEF Answered, Answerable
  <2>5. pc # "exit" /\ pc' # "exit"  BY <1>4
  <2>6. MayBeOver  BY <1>1, <2>5, ExitAnswers
  <2> QED  BY <2>1, <2>2, <2>3, <2>4, <2>5, <2>6, MissStep, Zenon
<1> QED  BY <1>5, <1>6

LEMMA InsideLease ==
  ASSUME Inv, Inv', Pacstrap \/ FixRootLogin
  PROVE  L!Next
<1>1. ControlOK /\ ControlOK'  BY DEF Inv
<1>2. /\ pc \in InChroot /\ temp' = temp /\ mounts' = mounts
      /\ pc' \in InChroot \/ (pc' = "umount_nondisk" /\ k' = 3)
  BY HandlerCases DEF Pacstrap, FixRootLogin, Goto, Move, FirstIndex, Raise, Throw, InChroot
<1>3. \A i \in 1..3 : i <= 3  OBVIOUS
<1> QED  BY <1>1, <1>2, <1>3, LabelCases, QuietStep DEF InMounts, InTarget

LEMMA UnmountNonDiskLease ==
  ASSUME Inv, Inv', UnmountNonDisk
  PROVE  L!Next
<1>1. ControlOK /\ ControlOK'  BY DEF Inv
<1>2. ControlOK' => ScopesOfPlaces'  BY AnsweredCases, PTL
<1>3. ScopesOfPlaces /\ ScopesOfPlaces'  BY <1>1, <1>2, AnsweredCases
<1>4. pc = "umount_nondisk" /\ k \in 0..3 /\ temp' = temp
  BY <1>1 DEF UnmountNonDisk, TryUnmounting, ControlOK, Indices
<1>5. CASE k = 0 /\ mounts' = mounts /\ pc' = "umount_target"
  <2>1. \A i \in 1..3 : ~(i <= k)  BY <1>5
  <2>2. pc' \in TargetScope /\ pc \in TargetScope /\ pc \notin InMounts /\ pc' \notin InMounts
        /\ pc \in Calls \ {"mkdtemp"} /\ pc' \in Calls \ {"mkdtemp"}
    BY <1>4, <1>5, LabelCases DEF InMounts, InChroot, InTemp, InTarget
  <2>3. pc' # "umount_nondisk"  BY <1>5
  <2> QED  BY <1>1, <1>4, <1>5, <2>1, <2>2, <2>3, QuietStep
<1>6. CASE k > 0 /\ pc' = pc /\ k' = k /\ mounts' = mounts
  <2>1. pc \in Calls \ {"mkdtemp"}  BY <1>4, LabelCases DEF InTarget
  <2> QED  BY <1>1, <1>4, <1>6, <2>1, QuietStep
<1>7. CASE /\ k > 0 /\ pc' = pc /\ k' = k - 1
           /\ mounts' = mounts \/ (NonDisk[k] \in mounts /\ mounts' = mounts \ {NonDisk[k]})
  <2>0. PICK j \in 1..3 : j = k  BY <1>4, <1>7
  <2> DEFINE n == j + 2
  <2>1. /\ n \in Places /\ n # 1 /\ n # 2 /\ n # 6 /\ 1 < n /\ 2 < n
        /\ \A i \in 1..3 : i <= j => i + 2 <= n
        /\ \A i \in 1..3 : i <= j - 1 <=> (i <= j /\ i + 2 < n)
        /\ n \in 1..7
    BY PlaceCases
  <2>2. pc \notin InMounts /\ pc # "exit" /\ pc' # "exit"  BY <1>4, <1>7 DEF InMounts, InChroot
  <2>3. \A i \in 1..3 : Answered(i + 2)' <=> Answered(i + 2) /\ i + 2 < n
    <3> HIDE DEF n
    <3>1. \A i \in 1..3 : Answered(i + 2) <=> i <= j
      BY <1>3, <1>4, <2>0, <2>2, Zenon DEF ScopesOfPlaces
    <3>2. \A i \in 1..3 : Answered(i + 2)' <=> i <= j - 1
      BY <1>3, <1>4, <1>7, <2>0, <2>2, Zenon DEF ScopesOfPlaces
    <3> QED  BY <2>1, <3>1, <3>2, Zenon
  <2>4. /\ (Answered(1)' <=> Answered(1)) /\ (Answered(2)' <=> Answered(2))
        /\ ~Answered(6)' /\ ~Answered(6)
    BY <1>3, <1>7, Zenon DEF ScopesOfPlaces
  <2>5. \A p \in Places : Answered(p)' <=> Answered(p) /\ p < n
    <3>1. \A p \in {1, 2, 6} : Answered(p)' <=> Answered(p) /\ p < n  BY <2>1, <2>4
    <3> QED  BY <2>3, <3>1, EachPlace, Zenon
  <2>6. MayBeOver  BY <1>1, <2>2, ExitAnswers
  <2>7. CASE mounts' = mounts
    <3>1. \A p \in Places : Taken(p)' <=> Taken(p)  BY <1>4, <2>7, TakenKept
    <3> HIDE DEF n
    <3> QED  BY <2>1, <2>5, <2>6, <3>1, CutStep, Zenon
  <2>8. CASE NonDisk[k] \in mounts /\ mounts' = mounts \ {NonDisk[k]}
    <3>1. NonDisk[j] \in mounts /\ NonDisk[j] \notin mounts'  BY <2>0, <2>8
    <3>2. Taken(n) /\ ~Taken(n)'  BY <3>1, TakenCases, TakenNext, Zenon
    <3>3. Answered(n)
      <4>1. j <= k  BY <2>0
      <4> QED  BY <1>3, <1>4, <4>1, Zenon DEF ScopesOfPlaces
    <3>4. /\ NonDisk[j] # "target" /\ NonDisk[j] # "leftover"
          /\ \A i \in 1..3 : n # i + 2 => NonDisk[i] # NonDisk[j]
      BY DEF NonDisk
    <3>5. \A p \in Places \ {n} : Taken(p)' <=> Taken(p)
      <4> HIDE DEF n
      <4> QED  BY <1>1, <1>4, <2>0, <2>1, <2>8, <3>4, OtherPlaces
    <3>6. \A p \in Places \ {n} : Answered(p) => p <= n
      <4>1. \A i \in 1..3 : Answered(i + 2) => i + 2 <= n
        <5> HIDE DEF n
        <5> QED  BY <1>3, <1>4, <2>0, <2>1, <2>2, Zenon DEF ScopesOfPlaces
      <4>2. \A p \in {1, 2, 6} : Answered(p) => p <= n  BY <2>1, <2>4
      <4> QED  BY <4>1, <4>2, EachPlace, Zenon
    <3>7. \A p \in Places \ {n} : Answered(p)' <=> Answered(p)
      <4>1. \A p \in Places \ {n} : Answered(p) => p < n
        BY <3>6, PlaceCases
      <4> HIDE DEF n
      <4> QED  BY <2>5, <4>1, Zenon
    <3> HIDE DEF n
    <3> QED  BY <2>1, <2>6, <3>2, <3>3, <3>5, <3>6, <3>7, ReleaseStep, Zenon
  <2> QED  BY <1>7, <2>7, <2>8
<1>8. \/ k = 0 /\ mounts' = mounts /\ pc' = "umount_target"
      \/ k > 0 /\ pc' = pc /\ k' = k /\ mounts' = mounts
      \/ /\ k > 0 /\ pc' = pc /\ k' = k - 1
         /\ mounts' = mounts \/ (NonDisk[k] \in mounts /\ mounts' = mounts \ {NonDisk[k]})
  BY HandlerCases DEF UnmountNonDisk, TryUnmounting, Goto, Move, Continuation, InTarget
<1> QED  BY <1>5, <1>6, <1>7, <1>8

LEMMA UnmountTargetLease ==
  ASSUME Inv, Inv', UnmountTarget
  PROVE  L!Next
<1>1. ControlOK /\ ControlOK'  BY DEF Inv
<1>2. ControlOK' => ScopesOfPlaces'  BY AnsweredCases, PTL
<1>3. ScopesOfPlaces /\ ScopesOfPlaces'  BY <1>1, <1>2, AnsweredCases
<1>4. pc = "umount_target" /\ temp' = temp  BY DEF UnmountTarget, TryUnmounting
<1>5. /\ pc \in Calls \ {"mkdtemp"} /\ pc \in TargetScope /\ pc \notin InMounts
      /\ pc # "umount_nondisk" /\ pc # "exit"
  BY <1>4, LabelCases DEF InMounts, InChroot, InTemp
<1>6. CASE pc' = pc /\ k' = k /\ mounts' = mounts
  BY <1>1, <1>4, <1>5, <1>6, QuietStep
<1>7. CASE pc' = "rmtree" /\ k' = 1
           /\ (mounts' = mounts \/ ("target" \in mounts /\ mounts' = mounts \ {"target"}))
  <2>1. /\ pc' \in Calls \ {"mkdtemp"} /\ pc' \notin TargetScope /\ pc' \notin InMounts
        /\ pc' # "umount_nondisk" /\ pc' # "exit"
    BY <1>7, LabelCases DEF InMounts, InChroot
  <2>2. /\ Answered(1)' /\ Answered(1) /\ ~Answered(2)' /\ Answered(2)
        /\ \A i \in 1..3 : ~Answered(i + 2)' /\ ~Answered(i + 2)
        /\ ~Answered(6)' /\ ~Answered(6)
    BY <1>3, <1>5, <2>1, Zenon DEF ScopesOfPlaces
  <2>3. 1 < 2 /\ ~(2 < 2) /\ 2 \in {1, 2, 3}  OBVIOUS
  <2>4. CASE mounts' = mounts
    <3>1. UNCHANGED <<temp, mounts>>  BY <1>4, <2>4
    <3> QED  BY <1>1, <1>5, <2>2, <2>3, <3>1, CutAt, Zenon
  <2>5. CASE "target" \in mounts /\ mounts' = mounts \ {"target"}
    <3>1. 2 \in Places /\ 2 # 1 /\ 2 # 6 /\ \A i \in 1..3 : NonDisk[i] # "target"
      BY PlaceCases DEF NonDisk
    <3>2. \A p \in Places \ {2} : Taken(p)' <=> Taken(p)
      BY <1>1, <1>4, <2>5, <3>1, OtherPlaces
    <3>3. Taken(2) /\ ~Taken(2)'  BY <2>5, TakenCases, TakenNext
    <3>4. \A p \in Places \ {2} : (Answered(p)' <=> Answered(p)) /\ (Answered(p) => p <= 2)
      <4>1. \A p \in {1, 6} : (Answered(p)' <=> Answered(p)) /\ (Answered(p) => p <= 2)
        BY <2>2
      <4> QED  BY <2>2, <4>1, EachPlace, Zenon
    <3>5. MayBeOver  BY <1>1, <1>5, ExitAnswers
    <3> QED  BY <2>2, <3>1, <3>2, <3>3, <3>4, <3>5, ReleaseStep, Zenon
  <2> QED  BY <1>7, <2>4, <2>5
<1> QED  BY <1>6, <1>7 DEF UnmountTarget, TryUnmounting, Move

LEMMA RemoveTempDirLease ==
  ASSUME Inv, Inv', RemoveTempDir
  PROVE  L!Next
<1>1. ControlOK /\ ControlOK'  BY DEF Inv
<1>2. ControlOK' => ScopesOfPlaces'  BY AnsweredCases, PTL
<1>3. ScopesOfPlaces /\ ScopesOfPlaces'  BY <1>1, <1>2, AnsweredCases
<1>4. /\ pc = "rmtree" /\ mounts' = mounts /\ pc' = "exit"
      /\ temp' = temp \/ (mounts = {} /\ temp' = FALSE)
  BY HandlerCases DEF RemoveTempDir, Goto, Move, Throw
<1>5. /\ pc \in Calls \ {"mkdtemp"} /\ pc \notin TargetScope /\ pc \notin InMounts
      /\ pc # "umount_nondisk" /\ pc # "exit"
  BY <1>4, LabelCases DEF InMounts, InChroot
<1>6. /\ pc' \notin Calls /\ pc' \notin TargetScope /\ pc' \notin InMounts
      /\ pc' # "umount_nondisk"
  BY <1>4, LabelCases DEF InMounts, InChroot
<1>7. /\ ~Answered(1)' /\ Answered(1) /\ ~Answered(2)' /\ ~Answered(2)
      /\ \A i \in 1..3 : ~Answered(i + 2)' /\ ~Answered(i + 2)
      /\ ~Answered(6)' /\ ~Answered(6)
  BY <1>3, <1>5, <1>6, Zenon DEF ScopesOfPlaces
<1>8. CASE temp' = temp
  <2>1. ~(1 < 1) /\ 1 \in {1, 2, 3}  OBVIOUS
  <2>2. UNCHANGED <<temp, mounts>>  BY <1>4, <1>8
  <2> QED  BY <1>1, <1>5, <1>7, <2>1, <2>2, CutAt, Zenon
<1>9. CASE temp /\ mounts = {} /\ temp' = FALSE
  <2>1. 1 \in Places /\ 1 # 2 /\ 1 # 6  BY PlaceCases
  <2>2. \A p \in Places \ {1} : Taken(p)' <=> Taken(p)
    BY <1>1, <1>4, <1>9, <2>1, OtherPlaces
  <2>3. Taken(1) /\ ~Taken(1)'  BY <1>9, TakenCases, TakenNext
  <2>4. \A p \in Places \ {1} : ~Answered(p)' /\ ~Answered(p)
    <3>1. \A p \in {2, 6} : ~Answered(p)' /\ ~Answered(p)  BY <1>7
    <3> QED  BY <1>7, <3>1, EachPlace, Zenon
  <2>5. MayBeOver  BY <1>1, <1>5, ExitAnswers
  <2> QED  BY <1>7, <2>1, <2>2, <2>3, <2>4, <2>5, ReleaseStep, Zenon
<1>10. temp \in BOOLEAN  BY DEF Inv, DataOK
<1> QED  BY <1>4, <1>8, <1>9, <1>10

LEMMA StutterLease == ASSUME UNCHANGED vars PROVE UNCHANGED L!vars
<1>1. UNCHANGED <<pc, k, temp, mounts>>  BY DEF vars, control
<1>2. \A p \in Places : (Taken(p)' <=> Taken(p)) /\ (Answered(p)' <=> Answered(p))
  BY <1>1, Zenon DEF Taken, Answered, Present, Answerable
<1>3. Held' = Held /\ Lost' = Lost
  BY <1>2, Zenon DEF Held, Lost, Taken, Answered
<1> QED  BY <1>1, <1>3 DEF L!vars

LEMMA InitLease == ASSUME Init PROVE L!Init
<1>1. pc = "mkdtemp" /\ mounts = {}  BY DEF Init
<1>2. temp = FALSE  BY Zenon DEF Init
<1>3. ~Taken(1) /\ ~Taken(2) /\ ~Taken(6) /\ \A i \in 1..3 : ~Taken(i + 2)
  BY <1>1, <1>2, TakenCases, Zenon
<1>4. \A p \in {1, 2, 6} : ~Taken(p)  BY <1>3
<1>5. \A p \in Places : ~Taken(p)  BY <1>3, <1>4, EachPlace, Zenon
<1>6. Held = {} /\ Lost = {}  BY <1>5, Zenon DEF Held, Lost, Taken
<1>7. (pc = "exit") = FALSE  BY <1>1
<1> QED  BY <1>6, <1>7, Zenon DEF L!Init

LEMMA StepLease == ASSUME Inv, Inv', Fresh, [Next]_vars PROVE [L!Next]_(L!vars)
<1>1. CASE Unpack
  BY <1>1, AdjustsLease, MakeTempDirLease, MountTargetLease, MountNonDiskLease, Zenon DEF Unpack
<1>2. CASE Populate
  BY <1>2, AdjustsLease, PacstrapLeavesMountLease, InsideLease, Zenon DEF Populate
<1>3. CASE CleanUp
  BY <1>3, UnmountNonDiskLease, UnmountTargetLease, RemoveTempDirLease, Zenon DEF CleanUp
<1>4. CASE Fault  BY <1>4, FaultLease, Zenon
<1>5. CASE UNCHANGED vars  BY <1>5, StutterLease, Zenon
<1> QED  BY <1>1, <1>2, <1>3, <1>4, <1>5, Zenon DEF Next, Call, Finished

(* Whatever fails, run() (arch.py:229-264) gives back only the innermost   *)
(* of what it holds, loses only what an exception or a given-up umount     *)
(* passes by, answers for nothing lost again, and ends holding nothing.    *)
THEOREM LeaseDisciplineHolds == Spec => LeaseDiscipline
<1>1. Init => L!Init  BY InitLease
<1>2. Init => Fresh  BY FreshInit
<1>3. Inv /\ Fresh /\ [Next]_vars => Fresh'  BY FreshKept
<1>4. Inv /\ Inv' /\ Fresh /\ [Next]_vars => [L!Next]_(L!vars)  BY StepLease
<1> QED  BY <1>1, <1>2, <1>3, <1>4, AlwaysInv, PTL DEF Spec, LeaseDiscipline, L!Spec
=============================================================================
