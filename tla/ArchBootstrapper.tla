--------------------------- MODULE ArchBootstrapper ---------------------------
(***************************************************************************)
(* ArchBootstrapper.run() of directory_bootstrap/distros/arch.py: unpacks  *)
(* Arch's bootstrap image into a temporary directory, mounts the target    *)
(* and /dev, /dev/pts and /proc below it, and runs pacstrap inside.  Three *)
(* nested try/finally statements unmount all that and then delete the      *)
(* temporary directory, mounted or not, with everything below.             *)
(*                                                                         *)
(* As in module Engine, pc is the call run() makes next, any call in       *)
(* FaultLabels may fail or be interrupted, and a definition whose name     *)
(* starts with Bug is the next definition with a mistake in it.            *)
(***************************************************************************)
EXTENDS Naturals, Sequences

CONSTANT FaultLabels   \* the calls that may raise or be interrupted

NonDisk == <<"dev", "dev/pts", "proc">>

InTemp   == {"find_image", "download", "extract", "mirror_list", "resolv_conf", "makedirs",
             "mount_target", "umount_target"}
InTarget == {"mount_nondisk", "umount_nondisk"}
InChroot == {"key_init", "key_populate", "check_space", "sync_keyring", "pacstrap",
             "fix_root_login"}
Calls    == {"mkdtemp", "rmtree"} \cup InTemp \cup InTarget \cup InChroot
Labels   == Calls \cup {"exit"}

ASSUME FaultLabelsAssumption == FaultLabels \subseteq Calls

BugHandler(l) ==   \* a try around both mounts
  CASE l \in InTemp              -> "rmtree"
    [] l \in InTarget \ {"umount_nondisk"} -> "rmtree"
    [] l \in InChroot            -> "umount_nondisk"
    [] l = "umount_nondisk"      -> "umount_target"
    [] OTHER                     -> "exit"

(* The finally clause an exception raised by call l runs next.             *)
Handler(l) ==
  CASE l \in InTemp   -> "rmtree"
    [] l \in InTarget -> "umount_target"
    [] l \in InChroot -> "umount_nondisk"
    [] OTHER          -> "exit"   \* mkdtemp, rmtree

(* Faults after which something stays mounted, or the directory exists.    *)
NonDiskFaults == {<<"mount_nondisk", "half">>, <<"umount_nondisk", "early">>,
                  <<"umount_nondisk", "refused">>}
TargetFaults  == {<<"mount_target", "late">>, <<"umount_target", "early">>,
                  <<"umount_target", "refused">>, <<"pacstrap", "leftover">>}
TempFaults    == {<<"mkdtemp", "late">>, <<"rmtree", "early">>}
Fragile       == NonDiskFaults \cup TargetFaults \cup TempFaults

VARIABLES pc,          \* the call run() makes next
          k,           \* position of the loops over NonDisk
          tries,       \* attempt number of check_call__keep_trying
          unwinding,   \* an exception is propagating
          faults,      \* the Fragile faults met
          temp,        \* the temporary directory exists
          mounts,      \* what is mounted below it
          inner,       \* what run() did to the bootstrap image unpacked there
          target,      \* what pacstrap has put into the target directory
          deleted      \* where rmtree has deleted through a mount

control == <<pc, k, tries, unwinding, faults>>
vars    == <<control, temp, mounts, inner, target, deleted>>

InnerParts  == {"bootstrap image", "mirror", "name servers", "mount point", "keyring",
                "archlinux keys", "no CheckSpace", "fresh keys"}
TargetParts == {"system", "root locked"}

TypeOK ==
  /\ pc \in Labels
  /\ k \in 0..4
  /\ tries \in 1..3
  /\ unwinding \in BOOLEAN
  /\ faults \subseteq Fragile
  /\ temp \in BOOLEAN
  /\ mounts \subseteq {"target", "leftover", "dev", "dev/pts", "proc"}
  /\ inner \subseteq InnerParts
  /\ target \subseteq TargetParts
  /\ deleted \subseteq {"target", "dev"}

Init ==
  /\ pc = "mkdtemp" /\ k = 1 /\ tries = 1 /\ unwinding = FALSE /\ faults = {}
  /\ temp = FALSE /\ mounts = {} /\ inner = {} /\ target = {} /\ deleted = {}

(***************************************************************************)
(* Control flow.                                                           *)
(***************************************************************************)
FirstIndex(l) == IF l = "umount_nondisk" THEN 3 ELSE 1   \* reversed()
Move(l, i)    == pc' = l /\ k' = i /\ tries' = 1 /\ UNCHANGED unwinding
Goto(l)       == Move(l, FirstIndex(l)) /\ UNCHANGED faults

Throw(l) == /\ pc' = Handler(l) /\ k' = FirstIndex(Handler(l)) /\ tries' = 1
            /\ unwinding' = TRUE

Note(l, when)  == faults' = faults \cup ({<<l, when>>} \cap Fragile)
Raise(l, when) == l \in FaultLabels /\ Throw(l) /\ Note(l, when)

(* A finally clause that is done continues the exception, if there is one. *)
Continuation(l, next) == IF unwinding THEN Handler(l) ELSE next

(* Call l raises before it did anything (the first mount, nothing at all). *)
Fault ==
  /\ pc # "exit"
  /\ Raise(pc, IF pc = "mount_nondisk" /\ k > 1 THEN "half" ELSE "early")
  /\ UNCHANGED <<temp, mounts, inner, target, deleted>>

(* A call that works on the unpacked bootstrap image.                      *)
Adjust(l, next, part) ==
  /\ pc = l
  /\ inner' = inner \cup part
  /\ Goto(next)
  /\ UNCHANGED <<temp, mounts, target, deleted>>

BugTryUnmountingForever(l, mount, nested, next, i) ==   \* while True
  /\ pc = l
  /\ \/ /\ mount \in mounts /\ nested \cap mounts = {}
        /\ mounts' = mounts \ {mount} /\ Move(next, i)
     \/ UNCHANGED <<mounts, pc, k, unwinding>> /\ tries' = (tries % 3) + 1
  /\ UNCHANGED <<faults, temp, inner, target, deleted>>

(* umount, up to three times; then the program carries on all the same.    *)
TryUnmounting(l, mount, nested, next, i) ==
  /\ pc = l
  /\ \/ /\ mount \in mounts /\ nested \cap mounts = {}
        /\ mounts' = mounts \ {mount}
        /\ Move(next, i) /\ UNCHANGED faults
     \/ /\ mount \notin mounts \/ nested \cap mounts # {} \/ l \in FaultLabels
        /\ UNCHANGED mounts
        /\ IF tries < 3
           THEN tries' = tries + 1 /\ UNCHANGED <<pc, k, unwinding, faults>>
           ELSE /\ Move(next, i)
                /\ IF mount \in mounts /\ nested \cap mounts = {}
                   THEN Note(l, "refused") ELSE UNCHANGED faults
  /\ UNCHANGED <<temp, inner, target, deleted>>

(***************************************************************************)
(* Lines 229-248: unpack the bootstrap image into a temporary directory.   *)
(***************************************************************************)
MakeTempDir ==
  /\ pc = "mkdtemp" /\ temp' = TRUE
  /\ Goto("find_image") \/ Raise("mkdtemp", "late")
  /\ UNCHANGED <<mounts, inner, target, deleted>>

FindImage         == Adjust("find_image", "download", {})
DownloadImage     == Adjust("download", "extract", {})
ExtractImage      == Adjust("extract", "mirror_list", {"bootstrap image"})
AdjustMirrorList  == Adjust("mirror_list", "resolv_conf", {"mirror"})
CopyResolvConf    == Adjust("resolv_conf", "makedirs", {"name servers"})
MakeMountPoint    == Adjust("makedirs", "mount_target", {"mount point"})

MountTarget ==
  /\ pc = "mount_target" /\ mounts' = mounts \cup {"target"}
  /\ Goto("mount_nondisk") \/ Raise("mount_target", "late")
  /\ UNCHANGED <<temp, inner, target, deleted>>

MountNonDisk ==
  /\ pc = "mount_nondisk"
  /\ \/ k <= 3 /\ mounts' = mounts \cup {NonDisk[k]} /\ Move(pc, k + 1) /\ UNCHANGED faults
     \/ k = 4 /\ UNCHANGED mounts /\ Goto("key_init")
  /\ UNCHANGED <<temp, inner, target, deleted>>

Unpack == \/ MakeTempDir \/ FindImage \/ DownloadImage \/ ExtractImage \/ AdjustMirrorList
          \/ CopyResolvConf \/ MakeMountPoint \/ MountTarget \/ MountNonDisk

(***************************************************************************)
(* Lines 253-256: inside the bootstrap image.                              *)
(***************************************************************************)
BugInitializeKeyring == Adjust("key_init", "check_space", {"keyring"})   \* not populated

InitializeKeyring == Adjust("key_init", "key_populate", {"keyring"})
PopulateKeyring   == Adjust("key_populate", "check_space", {"archlinux keys"})
DisableCheckSpace == Adjust("check_space", "sync_keyring", {"no CheckSpace"})
SyncKeyring       == Adjust("sync_keyring", "pacstrap", {"fresh keys"})

(* pacstrap mounts file systems below the target and, when it is killed,   *)
(* may leave them there.                                                   *)
PacstrapLeavesMount ==
  /\ pc = "pacstrap" /\ pc \in FaultLabels
  /\ mounts' = mounts \cup {"leftover"}
  /\ Note(pc, "leftover")
  /\ UNCHANGED <<pc, k, tries, unwinding, temp, inner, target, deleted>>

Pacstrap ==
  /\ pc = "pacstrap" /\ target' = {"system"}
  /\ Goto("fix_root_login") \/ Raise(pc, "late")
  /\ UNCHANGED <<temp, mounts, inner, deleted>>

FixRootLogin ==
  /\ pc = "fix_root_login" /\ target' = target \cup {"root locked"}
  /\ Goto("umount_nondisk")
  /\ UNCHANGED <<temp, mounts, inner, deleted>>

Populate == \/ InitializeKeyring \/ PopulateKeyring \/ DisableCheckSpace \/ SyncKeyring
            \/ PacstrapLeavesMount \/ Pacstrap \/ FixRootLogin

(***************************************************************************)
(* Lines 257-264: the way out.                                             *)
(***************************************************************************)
BugUnmountNonDisk ==   \* without reversed()
  \/ /\ k > 0
     /\ TryUnmounting("umount_nondisk", NonDisk[4 - k],
                      IF NonDisk[4 - k] = "dev" THEN {"dev/pts"} ELSE {}, "umount_nondisk", k - 1)
  \/ /\ pc = "umount_nondisk" /\ k = 0
     /\ Goto(Continuation(pc, "umount_target"))
     /\ UNCHANGED <<temp, mounts, inner, target, deleted>>

UnmountNonDisk ==
  \/ /\ k > 0
     /\ TryUnmounting("umount_nondisk", NonDisk[k],
                      IF NonDisk[k] = "dev" THEN {"dev/pts"} ELSE {}, "umount_nondisk", k - 1)
  \/ /\ pc = "umount_nondisk" /\ k = 0
     /\ Goto(Continuation(pc, "umount_target"))
     /\ UNCHANGED <<temp, mounts, inner, target, deleted>>

UnmountTarget == TryUnmounting("umount_target", "target", {"leftover"}, "rmtree", 1)

BugRemoveTempDir ==   \* shutil.rmtree(abs_temp_dir, ignore_errors=True)
  /\ pc = "rmtree"
  /\ temp' = (mounts # {})
  /\ deleted' = deleted \cup (mounts \cap {"target", "dev"})
  /\ target' = IF "target" \in mounts THEN {} ELSE target
  /\ Goto("exit")
  /\ UNCHANGED <<mounts, inner>>

(* rmtree descends into whatever it finds, in the order of os.scandir.     *)
(* The first mount it meets ends it: procfs and devpts refuse unlink, and  *)
(* a mount point cannot be removed once what is in it has been.  Only      *)
(* without mounts does it get to the end.                                  *)
RemoveTempDir ==
  /\ pc = "rmtree"
  /\ \/ /\ mounts = {} /\ temp' = FALSE /\ Goto("exit")
        /\ UNCHANGED <<target, deleted>>
     \/ \E m \in mounts \cap {"target", "dev", "proc"} :
          /\ \E gone \in {{}, {m} \cap {"target", "dev"}} : deleted' = deleted \cup gone
          /\ target' = IF "target" \in deleted' THEN {} ELSE target
          /\ Throw(pc)
          /\ UNCHANGED <<faults, temp>>
  /\ UNCHANGED <<mounts, inner>>

CleanUp == UnmountNonDisk \/ UnmountTarget \/ RemoveTempDir

Finished == pc = "exit" /\ UNCHANGED vars

Call == Unpack \/ Populate \/ CleanUp
Next == Call \/ Fault \/ Finished

(* One process, and every command returns (or raises) sooner or later.     *)
Spec == Init /\ [][Next]_vars /\ WF_vars(Call)

(***************************************************************************)
(* Properties.                                                             *)
(***************************************************************************)
Succeeded == pc = "exit" /\ ~unwinding

(* Unlike BootstrapEngine.run(), which may leave mounts and still succeed, *)
(* this run() succeeds only if everything is unmounted and the temporary   *)
(* directory is gone: the swallowed failure of an umount comes back as the *)
(* failure of rmtree.  And what it has then installed is still there.      *)
SuccessIsComplete ==
  Succeeded => /\ mounts = {} /\ ~temp /\ deleted = {}
               /\ target = {"system", "root locked"}

(* Something outside the temporary directory is deleted only after a fault *)
(* that left it mounted there: the target's content after its own umount   *)
(* failed or was kept from succeeding by a leftover of pacstrap, the       *)
(* host's device nodes after a mount or unmount of /dev & co. failed.      *)
DeletionExplained ==
  /\ "target" \in deleted => faults \cap TargetFaults # {}
  /\ "dev" \in deleted    => faults \cap NonDiskFaults # {}

(* The temporary directory survives run() only if a fault left something   *)
(* mounted in it, or hit its creation or removal.                          *)
TempDirExplained == pc = "exit" /\ temp => faults # {}

(* pacman finds its keys, pacstrap the mounts and the settings it needs    *)
(* (comments "for gpgme" and "for pacstrap mountpoint detection" of        *)
(* arch.py:28-29, and the note of :145-146 about CheckSpace).              *)
PacstrapEnvironment ==
  /\ pc \in InChroot => {"target", "dev", "dev/pts", "proc"} \subseteq mounts
  /\ pc = "pacstrap" => inner = InnerParts

(* As the message of arch.py:263 has it, 'Cleaning up "%s"...' with the    *)
(* name of the temporary directory: nothing else is removed.               *)
OnlyTempDirRemoved == deleted = {}

(* run() ends, however many umounts fail.                                  *)
Termination == <>(pc = "exit")

(***************************************************************************)
(* run() as a stack of leases, see module Lease.                           *)
(***************************************************************************)
Present(r)  == IF r = "temp" THEN temp ELSE r \in mounts
Answerable(r) ==
  IF r = "temp" THEN pc \in Calls \ {"mkdtemp"}
  ELSE IF r = "target" THEN pc \in InTarget \cup InChroot \cup {"umount_target"}
  ELSE \/ r # "leftover" /\ pc \in InChroot \cup {"mount_nondisk"}
       \/ pc = "umount_nondisk" /\ \E i \in 1..k : r = NonDisk[i]

AcquisitionOrder == <<"temp", "target">> \o NonDisk \o <<"leftover">>
Places == 1..Len(AcquisitionOrder)
Held   == {p \in Places : Present(AcquisitionOrder[p]) /\ Answerable(AcquisitionOrder[p])}
Lost   == {p \in Places : Present(AcquisitionOrder[p]) /\ ~Answerable(AcquisitionOrder[p])}

L == INSTANCE Lease WITH Depth <- Len(AcquisitionOrder), held <- Held, lost <- Lost,
                         over <- (pc = "exit")

(* run() implements the discipline of nested leases.                       *)
LeaseDiscipline == L!Spec
=============================================================================
