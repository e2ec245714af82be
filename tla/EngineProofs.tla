---------------------------- MODULE EngineProofs ----------------------------
(***************************************************************************)
(* Proofs about module Engine, for every set of command lines, every       *)
(* sequence of leftover mounts and every choice of calls that may fail.    *)
(***************************************************************************)
EXTENDS Engine, TLAPS

(***************************************************************************)
(* Type correctness.  What all calls do to pc, k, tries, unwinding and     *)
(* faults is stated once; each call then adds what it does to the rest.    *)
(***************************************************************************)
Indices(l) ==
  IF l = "directory_bootstrap" THEN 1..(Len(Leftovers) + 1)
  ELSE IF l = "umount_leftover" THEN 0..Len(Leftovers)
  ELSE IF l = "mount_nondisk" THEN 1..6
  ELSE IF l = "umount_nondisk" THEN 0..5
  ELSE {1}

ControlOK ==
  /\ pc \in Labels
  /\ k \in Indices(pc)
  /\ tries \in 1..3
  /\ unwinding \in BOOLEAN
  /\ faults \subseteq Fragile

(* Every loop starts at an index of its sequence.                          *)
LEMMA LengthType == Len(Leftovers) \in Nat
<1>1. Leftovers \in Seq(STRING)
  BY LeftoversAssumption, Zenon
<1> QED
  BY <1>1

LEMMA FirstIndexType == \A l : FirstIndex(l) \in Indices(l)
BY LengthType, SMT DEF FirstIndex, Indices

(* An exception always finds a finally clause, or ends the program.        *)
LEMMA HandlerType == \A l : Handler(l) \in Labels
BY SMT DEF Handler, Labels, Calls, InRoot, BeforeBoot, AfterBoot, AfterChroot, InDevices, InDir,
           InChroot

LEMMA ContinuationType == \A l, next : next \in Labels => Continuation(l, next) \in Labels
BY HandlerType DEF Continuation

LEMMA MoveControl ==
  ASSUME ControlOK, NEW l \in Labels, NEW i \in Indices(l), Move(l, i), faults' \subseteq Fragile
  PROVE  ControlOK'
BY SMT DEF ControlOK, Move

LEMMA GotoControl ==
  ASSUME ControlOK, NEW l \in Labels, Goto(l)
  PROVE  ControlOK'
BY FirstIndexType, MoveControl DEF Goto, ControlOK

LEMMA NoteControl ==
  ASSUME ControlOK, NEW l, NEW when, Note(l, when)
  PROVE  faults' \subseteq Fragile
BY DEF ControlOK, Note

LEMMA ThrowControl ==
  ASSUME ControlOK, NEW l, Throw(l), faults' \subseteq Fragile
  PROVE  ControlOK'
BY HandlerType, FirstIndexType, SMT DEF ControlOK, Throw

LEMMA RaiseControl ==
  ASSUME ControlOK, NEW l, NEW when, Raise(l, when)
  PROVE  ControlOK'
BY NoteControl, ThrowControl DEF Raise

(* What check_call__keep_trying does to control: it is done or gives up,   *)
(* is interrupted, or tries again.                                         *)
RetryControl(l, next, i) ==
  \/ Move(next, i) /\ (faults' = faults \/ Note(l, "refused"))
  \/ Raise(l, "late")
  \/ tries < 3 /\ tries' = tries + 1 /\ UNCHANGED <<pc, k, unwinding, faults>>

LEMMA RetryControlOK ==
  ASSUME ControlOK, NEW l, NEW next \in Labels, NEW i \in Indices(next), RetryControl(l, next, i)
  PROVE  ControlOK'
<1>1. CASE Move(next, i) /\ (faults' = faults \/ Note(l, "refused"))
  BY <1>1, MoveControl, NoteControl DEF ControlOK
<1>2. CASE Raise(l, "late")
  BY <1>2, RaiseControl
<1>3. CASE tries < 3 /\ tries' = tries + 1 /\ UNCHANGED <<pc, k, unwinding, faults>>
  BY <1>3, SMT DEF ControlOK
<1>4. QED
  BY <1>1, <1>2, <1>3 DEF RetryControl

(***************************************************************************)
(* StateOK strengthens TypeOK: with loops in their bounds it is inductive. *)
(***************************************************************************)
AllMounts == {"root"} \cup {Leftovers[i] : i \in 1..Len(Leftovers)} \cup {NonDisk[i] : i \in 1..5}
DiskType  == [partition: BOOLEAN, boot: {"off", "on", "clobbered"},
              loader: {"none", "grub", "extlinux"}, uuid: Uuids]
ImageType == [files: SUBSET Files, hostname: {"none", "host", "config"},
              resolv: {"none", "host", "filtered", "resolved"},
              machineId: {"none", "generated", "given", "empty"},
              fstab: Uuids, root: Uuids \cup {"probed"}]

ResourcesOK == devices \in BOOLEAN /\ dir \in BOOLEAN /\ mounts \subseteq AllMounts
ContentsOK  == disk \in DiskType /\ uuid \in Uuids /\ image \in ImageType

StateOK == cfg \in Configs /\ ControlOK /\ ResourcesOK /\ ContentsOK

LEMMA StateOKImpliesTypeOK == StateOK => TypeOK
<1>1. k \in Indices(pc) => k \in 0..(6 + Len(Leftovers))
  BY LengthType, SMT DEF Indices
<1>2. QED
  BY <1>1 DEF StateOK, TypeOK, ControlOK, ResourcesOK, ContentsOK, AllMounts, DiskType, ImageType

(* The disk stays one when a field of it changes.                          *)
LEMMA DiskUpdates ==
  ASSUME NEW d \in DiskType
  PROVE  /\ [d EXCEPT !.partition = TRUE] \in DiskType
         /\ \A b \in {"off", "on", "clobbered"} : [d EXCEPT !.boot = b] \in DiskType
         /\ \A b \in {"none", "grub", "extlinux"} : [d EXCEPT !.loader = b] \in DiskType
         /\ \A u \in Uuids : [d EXCEPT !.uuid = u] \in DiskType
<1>1. [d EXCEPT !.partition = TRUE] \in DiskType
  BY Zenon DEF DiskType
<1>2. \A b \in {"off", "on", "clobbered"} : [d EXCEPT !.boot = b] \in DiskType
  BY DEF DiskType
<1>3. \A b \in {"none", "grub", "extlinux"} : [d EXCEPT !.loader = b] \in DiskType
  BY DEF DiskType
<1>4. \A u \in Uuids : [d EXCEPT !.uuid = u] \in DiskType
  BY DEF DiskType
<1>5. QED
  BY <1>1, <1>2, <1>3, <1>4

LEMMA BlankDiskType == BlankDisk \in DiskType
BY DEF BlankDisk, DiskType, Uuids

LEMMA QuietType ==
  ASSUME StateOK, NEW l, NEW next \in Labels, Quiet(l, next)
  PROVE  StateOK'
<1>1. ControlOK'
  BY GotoControl DEF StateOK, Quiet
<1>2. QED
  BY <1>1 DEF StateOK, Quiet, resources, contents, ResourcesOK, ContentsOK

LEMMA WriteType ==
  ASSUME StateOK, NEW l, NEW next \in Labels, NEW new \in ImageType, Write(l, next, new)
  PROVE  StateOK'
<1>1. ControlOK'
  BY GotoControl DEF StateOK, Write
<1>2. QED
  BY <1>1 DEF StateOK, Write, resources, ResourcesOK, ContentsOK

(* The labels that are mentioned as a destination.                         *)
LEMMA LabelFacts ==
  /\ Preparation \subseteq Labels /\ InDevices \subseteq Labels /\ InDir \subseteq Labels
  /\ InRoot \subseteq Labels /\ InChroot \subseteq Labels
  /\ {"directory_bootstrap", "run_scripts", "remove_devices", "exit"} \subseteq Labels
BY DEF Labels, Calls

LEMMA FaultType == ASSUME StateOK, Fault PROVE StateOK'
<1>1. ControlOK'
  BY RaiseControl DEF StateOK, Fault
<1>2. QED
  BY <1>1 DEF StateOK, Fault, resources, contents, ResourcesOK, ContentsOK

LEMMA PrepareType == ASSUME StateOK, Prepare PROVE StateOK'
<1>1. Preparation \subseteq Labels /\ "format" \in Labels /\ \A l \in Preparation : 1 \in Indices(l)
  BY LabelFacts, SMT DEF InDevices, Preparation, Indices
<1> USE <1>1
<1>2. CASE Unshare \/ CheckDeviceSize \/ KpartxList \/ DeviceNode
  BY <1>2, QuietType DEF Unshare, CheckDeviceSize, KpartxList, DeviceNode, Preparation
<1>3. CASE MakeLabel \/ MakePartition \/ SetDiskId
  <2>1. ControlOK'
    BY <1>3, GotoControl DEF StateOK, MakeLabel, MakePartition, SetDiskId, Preparation
  <2>2. disk' \in DiskType
    BY <1>3, DiskUpdates, BlankDiskType
    DEF StateOK, MakeLabel, MakePartition, SetDiskId, ContentsOK
  <2>3. QED
    BY <1>3, <2>1, <2>2
    DEF StateOK, MakeLabel, MakePartition, SetDiskId, resources, ResourcesOK, ContentsOK
<1>4. CASE PartProbe \/ SetBootFlag
  <2>1. ControlOK'
    <3>1. RetryControl("partprobe", "mkpart", 1) \/ RetryControl("boot_flag", "disk_id", 1)
      BY <1>4 DEF PartProbe, SetBootFlag, KeepTrying, RetryControl
    <3>2. QED
      BY <3>1, RetryControlOK DEF StateOK, Preparation
  <2>2. disk' \in DiskType /\ UNCHANGED <<cfg, resources, uuid, image>>
    BY <1>4, DiskUpdates DEF StateOK, PartProbe, SetBootFlag, KeepTrying, ContentsOK, contents
  <2>3. QED
    BY <2>1, <2>2 DEF StateOK, resources, ResourcesOK, ContentsOK
<1>5. CASE KpartxUpdate \/ KpartxAdd
  <2>1. ControlOK'
    BY <1>5, GotoControl DEF StateOK, KpartxUpdate, KpartxAdd, Preparation
  <2>2. devices' \in BOOLEAN
    BY <1>5, Zenon DEF StateOK, KpartxUpdate, KpartxAdd, ResourcesOK
  <2>3. UNCHANGED <<cfg, dir, mounts, disk, uuid, image>>
    BY <1>5 DEF StateOK, KpartxUpdate, KpartxAdd, contents
  <2>4. QED
    BY <2>1, <2>2, <2>3 DEF StateOK, ResourcesOK, ContentsOK
<1>6. QED
  BY <1>2, <1>3, <1>4, <1>5 DEF Prepare

(* So does the image.                                                      *)
LEMMA ImageUpdates ==
  ASSUME NEW m \in ImageType
  PROVE  /\ m.files \subseteq Files
         /\ \A f \in SUBSET Files : [m EXCEPT !.files = f] \in ImageType
         /\ \A h \in {"none", "host", "config"} : [m EXCEPT !.hostname = h] \in ImageType
         /\ \A r \in {"none", "host", "filtered", "resolved"} :
              [m EXCEPT !.resolv = r] \in ImageType
         /\ \A i \in {"none", "generated", "given", "empty"} :
              [m EXCEPT !.machineId = i] \in ImageType
         /\ \A u \in Uuids : [m EXCEPT !.fstab = u] \in ImageType
         /\ \A u \in Uuids \cup {"probed"} : [m EXCEPT !.root = u] \in ImageType
         /\ m.hostname \in {"none", "host", "config"}
         /\ m.resolv \in {"none", "host", "filtered", "resolved"}
         /\ m.machineId \in {"none", "generated", "given", "empty"}
BY DEF ImageType

LEMMA SetUpType == ASSUME StateOK, SetUp PROVE StateOK'
<1>1. /\ InDevices \cup InDir \cup InRoot \subseteq Labels
      /\ {"directory_bootstrap", "hostname_again"} \subseteq Labels
  BY LabelFacts DEF InRoot, AfterBoot
<1>2. {"uuid", "mkdtemp", "mount_root", "mkdir_etc", "hostname", "resolv_conf",
       "directory_bootstrap", "load_mounts", "umount_leftover", "hostname_again"} \subseteq Labels
  BY <1>1 DEF InDevices, InDir, InRoot, BeforeBoot
<1> HIDE DEF Labels
<1>3. CASE FormatPartitions
  <2>1. ControlOK'
    BY <1>2, <1>3, GotoControl DEF StateOK, FormatPartitions
  <2>2. EmptyImage \in ImageType
    BY DEF EmptyImage, ImageType, Uuids
  <2>3. disk' \in DiskType
    BY <1>3, DiskUpdates DEF StateOK, FormatPartitions, ContentsOK, Uuids
  <2>4. QED
    BY <1>3, <2>1, <2>2, <2>3
    DEF StateOK, FormatPartitions, resources, ResourcesOK, ContentsOK
<1>4. CASE SetOrGatherUuid
  <2>1. ControlOK'
    BY <1>2, <1>4, GotoControl DEF StateOK, SetOrGatherUuid
  <2>2. disk' \in DiskType /\ uuid' \in Uuids
    BY <1>4, DiskUpdates DEF StateOK, SetOrGatherUuid, ContentsOK, DiskType
  <2>3. QED
    BY <1>4, <2>1, <2>2
    DEF StateOK, SetOrGatherUuid, resources, ResourcesOK, ContentsOK
<1>5. CASE MakeMountPoint \/ MountRoot
  <2>1. ControlOK'
    BY <1>2, <1>5, GotoControl, RaiseControl DEF StateOK, MakeMountPoint, MountRoot
  <2>2. ResourcesOK'
    BY <1>5 DEF StateOK, MakeMountPoint, MountRoot, ResourcesOK, AllMounts
  <2>3. QED
    BY <1>5, <2>1, <2>2
    DEF StateOK, MakeMountPoint, MountRoot, contents, ContentsOK
<1>6. CASE MakeEtc \/ LoadMounts
  BY <1>2, <1>6, QuietType DEF MakeEtc, LoadMounts
<1>7. CASE HostnameFirst \/ ResolvConfFirst
  BY <1>2, <1>7, WriteType, ImageUpdates
  DEF StateOK, HostnameFirst, ResolvConfFirst, SetHostname, SetResolvConf, ContentsOK
<1>8. CASE BootstrapperMounts
  <2>1. k + 1 \in Indices(pc) /\ k \in 1..Len(Leftovers)
    BY <1>8, LengthType, SMT DEF StateOK, BootstrapperMounts, ControlOK, Indices
  <2>2. ControlOK'
    BY <1>8, <2>1, MoveControl DEF StateOK, BootstrapperMounts, ControlOK
  <2>3. Leftovers[k] \in AllMounts
    BY <2>1 DEF AllMounts
  <2>4. QED
    BY <1>8, <2>2, <2>3
    DEF StateOK, BootstrapperMounts, contents, ResourcesOK, ContentsOK
<1>9. CASE DirectoryBootstrap
  <2>1. ControlOK'
    BY <1>2, <1>9, GotoControl DEF StateOK, DirectoryBootstrap
  <2>2. Bootstrapped \subseteq Files
    BY DEF Bootstrapped, Files
  <2>3. PICK fromHost \in BOOLEAN, id \in {image.machineId, "generated"} :
          image' = [image EXCEPT !.files = Bootstrapped,
                                 !.machineId = id,
                                 !.hostname = IF fromHost THEN "host" ELSE @,
                                 !.resolv = IF fromHost THEN "host" ELSE @]
    BY <1>9 DEF StateOK, DirectoryBootstrap
  <2>4. image' \in ImageType
    BY <2>2, <2>3 DEF StateOK, ContentsOK, ImageType
  <2>5. QED
    BY <1>9, <2>1, <2>4
    DEF StateOK, DirectoryBootstrap, resources, ResourcesOK, ContentsOK
<1>10. CASE RefuseBootloader
  <2>1. ControlOK'
    BY <1>10, ThrowControl DEF StateOK, RefuseBootloader, ControlOK
  <2>2. QED
    BY <1>10, <2>1
    DEF StateOK, RefuseBootloader, resources, contents, ResourcesOK, ContentsOK
<1>11. CASE UnmountLeftovers
  <2>1. k \in Nat /\ (k = 0 \/ k - 1 \in Indices("umount_leftover"))
    BY <1>11, LengthType, SMT DEF StateOK, ControlOK, Indices, UnmountLeftovers
  <2>2. ControlOK'
    <3>1. CASE k = 0
      BY <1>2, <1>11, <3>1, GotoControl, ContinuationType DEF StateOK, UnmountLeftovers
    <3>2. CASE k > 0
      <4>0. k - 1 \in Indices("umount_leftover")
        BY <2>1, <3>2, SMT
      <4>1. CASE Leftovers[k] \notin mounts
        <5>1. Move("umount_leftover", k - 1) /\ faults' = faults
          BY <1>11, <3>2, <4>1, SMT DEF UnmountLeftovers, KeepTrying, Move
        <5>2. QED
          BY <1>2, <4>0, <5>1, MoveControl DEF StateOK, ControlOK
      <4>2. CASE Leftovers[k] \in mounts
        <5>1. RetryControl("umount_leftover", "umount_leftover", k - 1)
          BY <1>11, <3>2, <4>2, SMT DEF UnmountLeftovers, KeepTrying, RetryControl, Move, Note
        <5>2. QED
          BY <1>2, <4>0, <5>1, RetryControlOK DEF StateOK
      <4>3. QED
        BY <4>1, <4>2
    <3>3. QED
      BY <3>1, <3>2, <1>11 DEF StateOK, UnmountLeftovers
  <2>3. mounts' \subseteq mounts /\ UNCHANGED <<cfg, devices, dir, contents>>
    BY <1>11 DEF StateOK, UnmountLeftovers, KeepTrying, resources
  <2>4. QED
    BY <2>2, <2>3 DEF StateOK, contents, ResourcesOK, ContentsOK
<1>12. QED
  BY <1>3, <1>4, <1>5, <1>6, <1>7, <1>8, <1>9, <1>10, <1>11 DEF SetUp

LEMMA ConfigureType == ASSUME StateOK, Configure PROVE StateOK'
<1>1. {"resolv_conf_again", "fstab", "machine_id", "pre_scripts", "host_loader", "mount_nondisk",
       "autostart_off"} \subseteq Labels
  BY DEF Labels, Calls, InRoot, AfterBoot, InChroot
<1>2. CASE HostnameAgain \/ ResolvConfAgain \/ CreateFstab \/ CreateMachineId
  BY <1>1, <1>2, WriteType, ImageUpdates
  DEF HostnameAgain, ResolvConfAgain, CreateFstab, CreateMachineId, SetHostname, SetResolvConf,
      StateOK, ContentsOK
<1>3. CASE RunPreScripts
  BY <1>1, <1>3, QuietType DEF RunPreScripts
<1>4. CASE InstallHostLoader
  <2>1. ControlOK'
    BY <1>1, <1>4, GotoControl DEF InstallHostLoader, StateOK
  <2>2. disk' \in DiskType /\ image' \in ImageType
    <3>1. disk \in DiskType /\ uuid \in Uuids \cup {"probed"} /\ image \in ImageType
      BY DEF StateOK, ContentsOK
    <3>2. disk' = disk \/ \E b \in {"none", "grub", "extlinux"} : disk' = [disk EXCEPT !.loader = b]
      BY <1>4, Zenon DEF InstallHostLoader
    <3>3. image' = image \/ image' = [image EXCEPT !.root = uuid]
      BY <1>4, Zenon DEF InstallHostLoader
    <3>4. disk' \in DiskType
      BY <3>1, <3>2, DiskUpdates
    <3>5. image' \in ImageType
      BY <3>1, <3>3, ImageUpdates
    <3>6. QED
      BY <3>4, <3>5
  <2>3. QED
    BY <1>4, <2>1, <2>2 DEF InstallHostLoader, resources, StateOK, ResourcesOK, ContentsOK
<1>5. CASE MountNonDisk
  <2>1. CASE k = 6 /\ Goto("autostart_off") /\ UNCHANGED mounts
    BY <1>1, <1>5, <2>1, GotoControl
    DEF MountNonDisk, contents, StateOK, ResourcesOK, ContentsOK
  <2>2. CASE k <= 5 /\ mounts' = mounts \cup {NonDisk[k]} /\ Move(pc, k + 1) /\ UNCHANGED faults
    <3>1. k \in 1..5 /\ k + 1 \in Indices(pc)
      BY <1>5, <2>2, SMT DEF MountNonDisk, StateOK, ControlOK, Indices
    <3>2. ControlOK'
      BY <2>2, <3>1, MoveControl DEF StateOK, ControlOK
    <3>3. NonDisk[k] \in AllMounts
      BY <3>1 DEF AllMounts
    <3>4. QED
      BY <1>5, <2>2, <3>2, <3>3 DEF MountNonDisk, contents, StateOK, ResourcesOK, ContentsOK
  <2>3. QED
    BY <1>5, <2>1, <2>2 DEF MountNonDisk
<1>6. QED
  BY <1>2, <1>3, <1>4, <1>5 DEF Configure

(* Adding known files and removing files keeps the image one.              *)
LEMMA PutType ==
  ASSUME StateOK, NEW l, NEW next \in Labels, NEW new \in SUBSET Files, Put(l, next, new)
  PROVE  StateOK'
BY WriteType, ImageUpdates DEF Put, StateOK, ContentsOK

LEMMA RemoveType ==
  ASSUME StateOK, NEW l, NEW next \in Labels, NEW old, Remove(l, next, old)
  PROVE  StateOK'
BY WriteType, ImageUpdates DEF Remove, StateOK, ContentsOK

LEMMA InstallType ==
  ASSUME StateOK, NEW l, NEW next \in Labels, NEW needed, NEW new \in SUBSET Files,
         Install(l, next, needed, new)
  PROVE  StateOK'
BY PutType DEF Install, Files

LEMMA ProvisionSystemType == ASSUME StateOK, ProvisionSystem PROVE StateOK'
<1>1. {"root_password", "prepare_packages", "kernel", "grub_package", "chroot_loader",
       "dhcp_client"} \subseteq Labels
  BY DEF Labels, Calls, InChroot
<1>2. {"policy-rc.d", "portage config", "kernel", "grub"} \subseteq Files
  BY DEF Files
<1>3. CASE AutostartOff \/ PreparePackages
  BY <1>1, <1>2, <1>3, PutType DEF AutostartOff, PreparePackages
<1>4. CASE SetRootPassword
  BY <1>1, <1>4, QuietType DEF SetRootPassword
<1>5. CASE InstallKernel \/ InstallGrub
  BY <1>1, <1>2, <1>5, InstallType DEF InstallKernel, InstallGrub
<1>6. CASE InstallChrootLoader
  <2>1. ControlOK'
    BY <1>1, <1>6, GotoControl DEF InstallChrootLoader, StateOK
  <2>2. disk' \in DiskType
    BY <1>6, DiskUpdates DEF InstallChrootLoader, StateOK, ContentsOK
  <2>3. QED
    BY <1>6, <2>1, <2>2 DEF InstallChrootLoader, resources, StateOK, ResourcesOK, ContentsOK
<1>7. QED
  BY <1>3, <1>4, <1>5, <1>6 DEF ProvisionSystem

LEMMA ProvisionOpenstackType == ASSUME StateOK, ProvisionOpenstack PROVE StateOK'
<1>1. {"sudo", "cloud_init", "cloud_cfg", "sshd", "services", "tty1_pcspkr", "acpid", "network"}
        \subseteq Labels
  BY DEF Labels, Calls, InChroot
<1>2. {"dhcp client", "sudo", "cloud-init", "sshd", "ssh host keys", "acpid"} \subseteq Files
  BY DEF Files
<1>3. CASE InstallDhcpClient \/ InstallSudo \/ InstallAcpid
  BY <1>1, <1>2, <1>3, InstallType DEF InstallDhcpClient, InstallSudo, InstallAcpid
<1>4. CASE InstallCloudInit
  <2>1. {"cloud-init"} \cup (IF cfg.distro = "gentoo" THEN {"sshd"} ELSE {}) \in SUBSET Files
    BY <1>2
  <2>2. QED
    BY <1>1, <1>4, <2>1, InstallType DEF InstallCloudInit
<1>5. CASE InstallSshd
  <2>1. PICK keys \in {{}, {"ssh host keys"}} :
          Install("sshd", "services", cfg.openstack, {"sshd"} \cup keys)
    BY <1>5 DEF InstallSshd
  <2>2. {"sshd"} \cup keys \in SUBSET Files
    BY <1>2, <2>1
  <2>3. QED
    BY <1>1, <2>1, <2>2, InstallType
<1>6. CASE ConfigureCloudInit \/ ServicesAutostart \/ ConfigureConsole
  BY <1>1, <1>6, QuietType DEF ConfigureCloudInit, ServicesAutostart, ConfigureConsole
<1>7. QED
  BY <1>3, <1>4, <1>5, <1>6 DEF ProvisionOpenstack

LEMMA ProvisionBootType == ASSUME StateOK, ProvisionBoot PROVE StateOK'
<1>1. {"initramfs", "grub_defaults", "grub_cfg", "grub_root", "copy_scripts"} \subseteq Labels
  BY DEF Labels, Calls, InChroot
<1>2. {"network", "initramfs", "package cache", "grub.cfg"} \subseteq Files
  BY DEF Files
<1>3. CASE CreateNetworkConfiguration \/ GenerateInitramfs
  BY <1>1, <1>2, <1>3, PutType DEF CreateNetworkConfiguration, GenerateInitramfs
<1>4. CASE AdjustGrubDefaults
  BY <1>1, <1>4, QuietType DEF AdjustGrubDefaults
<1>5. CASE GenerateGrubCfg
  <2>1. [image EXCEPT !.files = @ \cup {"grub.cfg"}, !.root = "probed"] \in ImageType
    BY <1>2 DEF StateOK, ContentsOK, ImageType
  <2>2. QED
    BY <1>1, <1>5, <2>1, WriteType DEF GenerateGrubCfg, StateOK, ContentsOK
<1>6. CASE FixGrubRootDevice
  BY <1>1, <1>6, WriteType, ImageUpdates DEF FixGrubRootDevice, StateOK, ContentsOK
<1>7. QED
  BY <1>3, <1>4, <1>5, <1>6 DEF ProvisionBoot

LEMMA ChrootScriptsType == ASSUME StateOK, ChrootScripts PROVE StateOK'
<1>1. {"run_scripts", "remove_scripts", "delete_sshd_keys"} \subseteq Labels
  BY DEF Labels, Calls, InChroot
<1>2. {"chroot scripts", "package cache", "ssh host keys"} \subseteq Files
  BY DEF Files
<1>3. CASE CopyChrootScripts
  <2>1. ControlOK'
    BY <1>1, <1>3, GotoControl, RaiseControl DEF CopyChrootScripts, StateOK
  <2>2. image' \in ImageType
    <3>1. image' = image \/ image' = [image EXCEPT !.files = @ \cup {"chroot scripts"}]
      BY <1>3, Zenon DEF CopyChrootScripts
    <3>2. image \in ImageType
      BY DEF StateOK, ContentsOK
    <3>3. image.files \cup {"chroot scripts"} \in SUBSET Files
      BY <1>2, <3>2, ImageUpdates
    <3>4. QED
      BY <3>1, <3>2, <3>3, ImageUpdates
  <2>3. QED
    BY <1>3, <2>1, <2>2 DEF CopyChrootScripts, resources, StateOK, ResourcesOK, ContentsOK
<1>4. CASE RunChrootScripts
  <2>1. PICK keys \in {{}, {"ssh host keys"}}, id \in {image.machineId, "generated"} :
          Write("run_scripts", "remove_scripts",
                [image EXCEPT !.files = @ \cup {"package cache"} \cup keys,
                              !.machineId = IF @ \in {"none", "empty"} THEN id ELSE @])
    BY <1>4 DEF RunChrootScripts
  <2>2. [image EXCEPT !.files = @ \cup {"package cache"} \cup keys,
                      !.machineId = IF @ \in {"none", "empty"} THEN id ELSE @] \in ImageType
    <3>1. image \in ImageType
      BY DEF StateOK, ContentsOK
    <3>2. image.files \cup {"package cache"} \cup keys \subseteq Files
      BY <1>2, <2>1, <3>1, ImageUpdates
    <3>3. (IF image.machineId \in {"none", "empty"} THEN id ELSE image.machineId)
            \in {"none", "generated", "given", "empty"}
      BY <2>1, <3>1, ImageUpdates
    <3>4. QED
      BY <3>1, <3>2, <3>3 DEF ImageType
  <2>3. QED
    BY <1>1, <2>1, <2>2, WriteType
<1>5. CASE RemoveChrootScripts
  BY <1>1, <1>5, RemoveType, ContinuationType DEF RemoveChrootScripts
<1>6. QED
  BY <1>3, <1>4, <1>5 DEF ChrootScripts

LEMMA ShipType == ASSUME StateOK, Ship PROVE StateOK'
<1>1. {"clean_machine_id", "shipping_clean_up", "resolved_link", "autostart_on", "umount_nondisk"}
        \subseteq Labels
  BY DEF Labels, Calls, InChroot, InRoot
<1>2. CASE DeleteSshdKeys \/ AutostartOn
  BY <1>1, <1>2, RemoveType DEF DeleteSshdKeys, AutostartOn
<1>3. CASE CleanMachineId \/ HandOverResolvConf
  BY <1>1, <1>3, WriteType, ImageUpdates DEF CleanMachineId, HandOverResolvConf, StateOK, ContentsOK
<1>4. CASE ShippingCleanUp
  <2>1. "package cache" \in Files
    BY DEF Files
  <2>2. [image EXCEPT !.files = (@ \cup {"package cache"}) \ {"pacman keys"}] \in ImageType
    BY <2>1 DEF StateOK, ContentsOK, ImageType
  <2>3. QED
    BY <1>1, <1>4, <2>2, WriteType DEF ShippingCleanUp, StateOK, ContentsOK
<1>5. QED
  BY <1>2, <1>3, <1>4 DEF Ship

LEMMA WayOutType == ASSUME StateOK, WayOut PROVE StateOK'
<1>1. {"umount_nondisk", "post_clean_up", "post_scripts", "umount_root", "rmdir", "remove_devices",
       "exit"} \subseteq Labels
  BY DEF Labels, Calls, InRoot, AfterChroot, InDir, InDevices
<1>2. CASE UnmountNonDisk
  <2>1. ControlOK'
    <3>1. CASE k = 0
      BY <1>1, <1>2, <3>1, GotoControl, ContinuationType DEF UnmountNonDisk, StateOK
    <3>2. CASE k > 0
      <4>1. k - 1 \in Indices("umount_nondisk")
        BY <1>2, <3>2, SMT DEF UnmountNonDisk, StateOK, ControlOK, Indices
      <4>2. RetryControl("umount_nondisk", "umount_nondisk", k - 1)
        BY <1>2, <3>2, SMT DEF UnmountNonDisk, KeepTrying, RetryControl, Move, Note
      <4>3. QED
        BY <1>1, <4>1, <4>2, RetryControlOK DEF StateOK
    <3>3. QED
      BY <3>1, <3>2, <1>2 DEF UnmountNonDisk
  <2>2. mounts' \subseteq mounts /\ UNCHANGED <<cfg, devices, dir, contents>>
    BY <1>2 DEF UnmountNonDisk, KeepTrying, resources
  <2>3. QED
    BY <2>1, <2>2 DEF contents, StateOK, ResourcesOK, ContentsOK
<1>3. CASE PostCleanUp
  BY <1>1, <1>3, RemoveType DEF PostCleanUp
<1>4. CASE RunPostScripts
  BY <1>1, <1>4, QuietType DEF RunPostScripts
<1>5. CASE UnmountRoot \/ RemoveMountPoint \/ RemovePartitionDevices
  <2>1. /\ 1 \in Indices("rmdir") /\ 1 \in Indices("remove_devices") /\ 1 \in Indices("exit")
    BY DEF Indices
  <2>2. \/ RetryControl("umount_root", "rmdir", 1)
        \/ RetryControl("rmdir", "remove_devices", 1)
        \/ RetryControl("remove_devices", "exit", 1)
    BY <1>5, Zenon
    DEF UnmountRoot, RemoveMountPoint, RemovePartitionDevices, KeepTrying, RetryControl
  <2>3. ControlOK'
    BY <1>1, <2>1, <2>2, RetryControlOK DEF StateOK
  <2>4. /\ devices' \in BOOLEAN /\ dir' \in BOOLEAN /\ mounts' \subseteq mounts
        /\ UNCHANGED <<cfg, contents>>
    BY <1>5
    DEF UnmountRoot, RemoveMountPoint, RemovePartitionDevices, KeepTrying, resources, StateOK,
        ResourcesOK
  <2>5. QED
    BY <2>3, <2>4 DEF contents, StateOK, ResourcesOK, ContentsOK
<1>6. QED
  BY <1>2, <1>3, <1>4, <1>5 DEF WayOut

LEMMA InitType == Init => StateOK
<1> SUFFICES ASSUME Init PROVE StateOK
  OBVIOUS
<1>1. ControlOK
  <2>1. pc = "unshare" /\ k = 1 /\ tries = 1 /\ unwinding = FALSE /\ faults = {}
    BY DEF Init
  <2>2. pc \in Labels /\ k \in Indices(pc)
    BY <2>1 DEF Labels, Calls, Preparation, Indices
  <2>3. tries \in 1..3
    BY <2>1
  <2>4. QED
    BY <2>1, <2>2, <2>3, Zenon DEF ControlOK
<1>2. UsedDisk \in DiskType /\ EmptyImage \in ImageType
  BY DEF UsedDisk, EmptyImage, DiskType, ImageType, Uuids
<1>3. uuid \in Uuids
  BY DEF Init, Uuids
<1>4. ContentsOK
  BY <1>2, <1>3 DEF Init, ContentsOK
<1>5. ResourcesOK
  <2>1. devices = FALSE /\ dir = FALSE /\ mounts = {}
    BY DEF Init
  <2>2. QED
    BY <2>1, Zenon DEF ResourcesOK
<1>6. QED
  BY <1>1, <1>4, <1>5 DEF Init, StateOK

LEMMA StutterType == ASSUME StateOK, UNCHANGED vars PROVE StateOK'
BY DEF vars, control, resources, contents, StateOK, ControlOK, ResourcesOK, ContentsOK

LEMMA NextType == ASSUME StateOK, [Next]_vars PROVE StateOK'
<1>1. CASE Call
  BY <1>1, PrepareType, SetUpType, ConfigureType, ProvisionSystemType, ProvisionOpenstackType,
     ProvisionBootType, ChrootScriptsType, ShipType, WayOutType DEF Call
<1>2. CASE Fault
  BY <1>2, FaultType
<1>3. CASE Finished \/ UNCHANGED vars
  BY <1>3, StutterType DEF Finished
<1>4. QED
  BY <1>1, <1>2, <1>3 DEF Next

LEMMA AlwaysStateOK == Spec => []StateOK
<1>1. StateOK /\ [Next]_vars => StateOK'
  BY NextType
<1>2. QED
  BY <1>1, InitType, PTL DEF Spec

(* Every variable of run() keeps its type, whatever the command line, the  *)
(* mounts a bootstrapper leaves behind and the calls that fail; the loops  *)
(* of engine.py:543-552, 428-430 and 716-721 stay inside their lists, and  *)
(* no command is tried a fourth time (commands.py:46-55).                  *)
THEOREM TypeCorrect == Spec => []TypeOK
<1>1. StateOK => TypeOK
  BY StateOKImpliesTypeOK
<1>2. QED
  BY <1>1, AlwaysStateOK, PTL

(***************************************************************************)
(* CleanExit is not inductive: it says nothing before run() is over.  The  *)
(* strengthening says of every moment that what is held is in the scope of *)
(* the finally clause that releases it, and of the two loops over mounts   *)
(* that what they have passed is not mounted, unless a fault explains it.  *)
(***************************************************************************)
ChrootScope == InChroot \cup {"run_scripts"}
DeviceScope == InDirScope \cup {"kpartx_add", "device_node", "format", "uuid", "mkdtemp",
                                "remove_devices"}
ScriptScope == {"run_scripts", "remove_scripts"}

LeftoverInScope(i) == \/ pc \in {"directory_bootstrap", "load_mounts"}
                      \/ pc = "umount_leftover" /\ i <= k
NonDiskInScope(i)  == \/ pc = "mount_nondisk" /\ i < k
                      \/ pc \in ChrootScope
                      \/ pc = "umount_nondisk" /\ i <= k

LeftoversScoped ==
  faults \cap LeftoverFaults = {} =>
    \A i \in 1..Len(Leftovers) : Leftovers[i] \in mounts => LeftoverInScope(i)
NonDiskScoped ==
  faults \cap NonDiskFaults = {} =>
    \A i \in 1..5 : NonDisk[i] \in mounts => NonDiskInScope(i)
RootScoped    == faults \cap RootFaults = {} => ("root" \in mounts => pc \in InRootScope)
DirScoped     == faults \cap DirFaults = {} => (dir => pc \in InDirScope)
DevicesScoped == faults \cap DeviceFaults = {} => (devices => pc \in DeviceScope)
ScriptsScoped == faults \cap ScriptFaults = {} =>
                   ("chroot scripts" \in image.files => pc \in ScriptScope)

Scoped == /\ LeftoversScoped /\ NonDiskScoped
          /\ RootScoped /\ DirScoped /\ DevicesScoped /\ ScriptsScoped

(* The names of mounts tell them apart.                                    *)
LEMMA MountNames ==
  /\ \A i \in 1..5 : NonDisk[i] # "root"
  /\ \A i \in 1..5 : \A j \in 1..5 : NonDisk[i] = NonDisk[j] => i = j
  /\ \A i \in 1..Len(Leftovers) : Leftovers[i] # "root"
  /\ \A i \in 1..Len(Leftovers) : \A j \in 1..5 : Leftovers[i] # NonDisk[j]
  /\ \A i \in 1..Len(Leftovers) : \A j \in 1..Len(Leftovers) : Leftovers[i] = Leftovers[j] => i = j
<1>1. \A i \in 1..5 : /\ i \in {1, 2, 3, 4, 5}
                     /\ NonDisk[i] \in {"dev", "dev/pts", "dev/shm", "proc", "sys"}
  BY SMT DEF NonDisk
<1>2. \A i \in 1..5 : NonDisk[i] # "root"
  BY <1>1
<1>3. \A i \in 1..5 : \A j \in 1..5 : NonDisk[i] = NonDisk[j] => i = j
  BY SMT DEF NonDisk
<1>4. QED
  BY <1>1, <1>2, <1>3, LeftoversAssumption

LEMMA NaturalIndex == StateOK => k \in Nat
BY LengthType, SMT DEF StateOK, ControlOK, Indices

(* A step to the beginning of call m keeps everything scoped, if whatever  *)
(* m is not in the scope of was released, or was not scoped before either. *)
LEMMA StepScoped ==
  ASSUME Scoped,
         pc' = "umount_leftover" => k' = Len(Leftovers),
         pc' = "umount_nondisk" => k' = 5,
         faults \subseteq faults',
         mounts' \subseteq mounts \cup {"root"},
         faults' \cap LeftoverFaults = {} =>
           /\ pc = "umount_leftover" => k = 0
           /\ pc \in {"directory_bootstrap", "load_mounts"} =>
                pc' \in {"directory_bootstrap", "load_mounts", "umount_leftover"},
         faults' \cap NonDiskFaults = {} =>
           /\ pc = "umount_nondisk" => k = 0
           /\ pc \in ChrootScope \cup {"mount_nondisk"} => pc' \in ChrootScope \cup {"umount_nondisk"},
         k \in Nat,
         RootScoped', DirScoped', DevicesScoped', ScriptsScoped'
  PROVE  Scoped'
<1>1. LeftoversScoped'
  <2> SUFFICES ASSUME faults' \cap LeftoverFaults = {},
                      NEW i \in 1..Len(Leftovers), Leftovers[i] \in mounts'
               PROVE  LeftoverInScope(i)'
    BY DEF LeftoversScoped
  <2>1. Leftovers[i] \in mounts
    BY MountNames
  <2>2. LeftoverInScope(i)
    BY <2>1 DEF Scoped, LeftoversScoped
  <2>3. i <= Len(Leftovers) /\ ~(i <= 0)
    BY LengthType
  <2>4. QED
    BY <2>2, <2>3 DEF LeftoverInScope
<1>2. NonDiskScoped'
  <2> SUFFICES ASSUME faults' \cap NonDiskFaults = {},
                      NEW i \in 1..5, NonDisk[i] \in mounts'
               PROVE  NonDiskInScope(i)'
    BY DEF NonDiskScoped
  <2>1. NonDisk[i] \in mounts
    BY MountNames
  <2>2. NonDiskInScope(i)
    BY <2>1 DEF Scoped, NonDiskScoped
  <2>3. i <= 5 /\ ~(i <= 0)
    OBVIOUS
  <2>4. QED
    BY <2>2, <2>3 DEF NonDiskInScope
<1>3. QED
  BY <1>1, <1>2 DEF Scoped

(* So does a step that stays where it is.                                  *)
LEMMA StayScoped ==
  ASSUME Scoped, UNCHANGED <<pc, k>>, faults \subseteq faults', UNCHANGED <<devices, dir>>,
         mounts' \subseteq mounts, image'.files = image.files
  PROVE  Scoped'
<1>1. LeftoversScoped' /\ NonDiskScoped'
  BY DEF Scoped, LeftoversScoped, NonDiskScoped, LeftoverInScope, NonDiskInScope
<1>2. RootScoped' /\ DirScoped' /\ DevicesScoped' /\ ScriptsScoped'
  BY DEF Scoped, RootScoped, DirScoped, DevicesScoped, ScriptsScoped
<1>3. QED
  BY <1>1, <1>2 DEF Scoped

(* Where Handler leads, scope by scope.                                    *)
LEMMA HandlerScopes ==
  ASSUME NEW l \in Calls
  PROVE  /\ l = "directory_bootstrap" => Handler(l) = "load_mounts"
         /\ l \in ChrootScope => Handler(l) \in ChrootScope \cup {"umount_nondisk"}
         /\ l \in InRootScope \ {"umount_root"} => Handler(l) \in InRootScope
         /\ l \in InDirScope \ {"rmdir"} => Handler(l) \in InDirScope
         /\ l \in DeviceScope \ {"kpartx_add", "device_node", "remove_devices"}
              => Handler(l) \in DeviceScope
         /\ l = "run_scripts" => Handler(l) = "remove_scripts"
         /\ Handler(l) # "umount_leftover"
<1>1. /\ l = "directory_bootstrap" => Handler(l) = "load_mounts"
      /\ l = "run_scripts" => Handler(l) = "remove_scripts"
      /\ l \in InChroot => Handler(l) = "umount_nondisk"
      /\ l \in InRoot => Handler(l) = "umount_root"
      /\ l \in InDir => Handler(l) = "rmdir"
      /\ l \in InDevices => Handler(l) = "remove_devices"
  BY DEF Handler, InChroot, InRoot, BeforeBoot, AfterBoot, AfterChroot, InDir, InDevices
<1>2. Handler(l) # "umount_leftover"
  BY DEF Handler
<1>3. l \in ChrootScope => Handler(l) \in ChrootScope \cup {"umount_nondisk"}
  BY <1>1 DEF ChrootScope, InChroot
<1>4. l \in InRootScope \ {"umount_root"} => Handler(l) \in InRootScope
  BY <1>1 DEF InRootScope, InRoot, InChroot
<1>5. l \in InDirScope \ {"rmdir"} => Handler(l) \in InDirScope
  BY <1>1, <1>4 DEF InDirScope, InRootScope, InDir
<1>6. l \in DeviceScope \ {"kpartx_add", "device_node", "remove_devices"} => Handler(l) \in DeviceScope
  BY <1>1, <1>5 DEF DeviceScope, InDirScope, InDevices
<1>7. QED
  BY <1>1, <1>2, <1>3, <1>4, <1>5, <1>6

LEMMA FirstIndices ==
  /\ FirstIndex("umount_leftover") = Len(Leftovers)
  /\ FirstIndex("umount_nondisk") = 5
BY DEF FirstIndex

(* A failure or ^C, at any call, keeps everything scoped: what the next    *)
(* finally clause is not responsible for explains itself by this fault.    *)
LEMMA FaultScoped == ASSUME StateOK, Scoped, Fault PROVE Scoped'
<1>1. /\ pc \in Calls /\ k \in Nat
      /\ pc' = Handler(pc) /\ k' = FirstIndex(pc')
      /\ faults' = faults \cup ({<<pc, "early">>} \cap Fragile)
      /\ UNCHANGED <<devices, dir, mounts, image>>
  <2>1. pc \in Calls
    BY DEF Fault, StateOK, ControlOK, Labels
  <2>2. k \in Nat
    BY NaturalIndex
  <2>3. QED
    BY <2>1, <2>2 DEF Fault, Raise, Throw, Note, resources, contents
<1>2. /\ pc' = "umount_leftover" => k' = Len(Leftovers)
      /\ pc' = "umount_nondisk" => k' = 5
  BY <1>1, FirstIndices
<1>3. \A f \in Fragile : f = <<pc, "early">> => f \in faults'
  BY <1>1
<1>4. faults' \cap LeftoverFaults = {} => pc \notin {"umount_leftover", "load_mounts"}
  BY <1>3 DEF LeftoverFaults, Fragile, DirFaults, RootFaults
<1>5. faults' \cap NonDiskFaults = {} => pc \notin {"umount_nondisk", "mount_nondisk"}
  BY <1>3 DEF NonDiskFaults, Fragile, DirFaults, RootFaults
<1>6. RootScoped'
  <2>1. faults' \cap RootFaults = {} => pc # "umount_root"
    BY <1>3 DEF RootFaults, Fragile, DirFaults
  <2>2. QED
    BY <1>1, <2>1, HandlerScopes DEF Scoped, RootScoped
<1>7. DirScoped'
  <2>1. faults' \cap DirFaults = {} => pc # "rmdir"
    BY <1>3 DEF Fragile, DirFaults
  <2>2. QED
    BY <1>1, <2>1, HandlerScopes DEF Scoped, DirScoped
<1>8. DevicesScoped'
  <2>1. faults' \cap DeviceFaults = {} => pc \notin {"kpartx_add", "device_node", "remove_devices"}
    BY <1>3 DEF Fragile, DeviceFaults
  <2>2. QED
    BY <1>1, <2>1, HandlerScopes DEF Scoped, DevicesScoped
<1>9. ScriptsScoped'
  <2>1. faults' \cap ScriptFaults = {} => pc # "remove_scripts"
    BY <1>3 DEF Fragile, ScriptFaults
  <2>2. QED
    BY <1>1, <2>1, HandlerScopes DEF Scoped, ScriptsScoped, ScriptScope
<1>10. QED
  BY <1>1, <1>2, <1>4, <1>5, <1>6, <1>7, <1>8, <1>9, HandlerScopes, StepScoped

(* Calls l and m that are in the same scopes, or m ends them.              *)
SameScopes(l, m) ==
  /\ l \notin {"umount_leftover", "umount_nondisk", "mount_nondisk"}
  /\ l \in {"directory_bootstrap", "load_mounts"} => m \in {"load_mounts", "umount_leftover"}
  /\ l \in ChrootScope => m \in ChrootScope \cup {"umount_nondisk"}
  /\ l \in InRootScope => m \in InRootScope
  /\ l \in InDirScope => m \in InDirScope
  /\ l \in DeviceScope => m \in DeviceScope
  /\ l \in ScriptScope => m \in ScriptScope

LEMMA SameScoped ==
  ASSUME StateOK, Scoped, SameScopes(pc, pc'), k' = FirstIndex(pc'), faults \subseteq faults',
         UNCHANGED <<devices, dir, mounts>>,
         "chroot scripts" \in image'.files => "chroot scripts" \in image.files
  PROVE  Scoped'
<1>1. RootScoped' /\ DirScoped' /\ DevicesScoped' /\ ScriptsScoped'
  BY DEF SameScopes, Scoped, RootScoped, DirScoped, DevicesScoped, ScriptsScoped
<1>2. /\ pc' = "umount_leftover" => k' = Len(Leftovers)
      /\ pc' = "umount_nondisk" => k' = 5
  BY FirstIndices
<1>3. QED
  BY <1>1, <1>2, NaturalIndex, StepScoped DEF SameScopes

(* A call outside of all scopes.                                           *)
LEMMA OutsideScopes ==
  ASSUME NEW l \in {"unshare", "check_device_size", "mklabel", "partprobe", "mkpart", "boot_flag",
                    "disk_id", "kpartx_list", "kpartx_update"}
  PROVE  /\ l \notin {"directory_bootstrap", "load_mounts"} \cup ScriptScope
         /\ l \notin {"umount_leftover", "umount_nondisk", "mount_nondisk"}
         /\ l \notin ChrootScope /\ l \notin InRootScope /\ l \notin InDirScope
         /\ l \notin DeviceScope
BY DEF ChrootScope, InRootScope, InDirScope, DeviceScope, ScriptScope, InRoot, BeforeBoot, AfterBoot,
       AfterChroot, InChroot

LEMMA PrepareScoped == ASSUME StateOK, Scoped, Prepare PROVE Scoped'
<1>1. CASE Unshare \/ CheckDeviceSize \/ KpartxList \/ MakeLabel \/ MakePartition \/ SetDiskId
  <2>1. k' = FirstIndex(pc') /\ faults' = faults /\ UNCHANGED <<devices, dir, mounts, image>>
    BY <1>1
    DEF Unshare, CheckDeviceSize, KpartxList, MakeLabel, MakePartition, SetDiskId, Quiet, resources,
        contents, Goto, Move
  <2>2. SameScopes(pc, pc')
    <3>1. pc \in {"unshare", "check_device_size", "mklabel", "mkpart", "disk_id", "kpartx_list"}
      BY <1>1 DEF Unshare, CheckDeviceSize, KpartxList, MakeLabel, MakePartition, SetDiskId, Quiet
    <3>2. QED
      BY <3>1, OutsideScopes DEF SameScopes, ScriptScope
  <2>3. QED
    BY <2>1, <2>2, SameScoped
<1>2. CASE PartProbe \/ SetBootFlag
  <2>1. /\ pc \in {"partprobe", "boot_flag"}
        /\ UNCHANGED <<devices, dir, mounts, image>> /\ faults \subseteq faults'
        /\ \/ UNCHANGED <<pc, k>>
           \/ pc' \in {"mkpart", "disk_id", "exit"}
    <3>1. Handler("partprobe") = "exit" /\ Handler("boot_flag") = "exit"
      BY DEF Handler, InDevices, InDir, InRoot, BeforeBoot, AfterBoot, AfterChroot, InChroot
    <3>2. pc \in {"partprobe", "boot_flag"} /\ UNCHANGED <<devices, dir, mounts, image>>
      BY <1>2 DEF PartProbe, SetBootFlag, KeepTrying, resources, contents
    <3>3. faults \subseteq faults' /\ (UNCHANGED <<pc, k>> \/ pc' \in {"mkpart", "disk_id", "exit"})
      BY <1>2, <3>1, Zenon DEF PartProbe, SetBootFlag, KeepTrying, Move, Raise, Throw, Note
    <3>4. QED
      BY <3>2, <3>3
  <2>2. CASE UNCHANGED <<pc, k>>
    BY <2>1, <2>2, StayScoped
  <2>3. CASE pc' \in {"mkpart", "disk_id", "exit"}
    <3>1. k \in Nat
      BY NaturalIndex
    <3>2. RootScoped' /\ DirScoped' /\ DevicesScoped' /\ ScriptsScoped'
      BY <2>1, OutsideScopes DEF Scoped, RootScoped, DirScoped, DevicesScoped, ScriptsScoped
    <3>3. QED
      BY <2>1, <2>3, <3>1, <3>2, OutsideScopes, StepScoped
  <2>4. QED
    BY <2>1, <2>2, <2>3
<1>3. CASE KpartxUpdate \/ KpartxAdd
  <2>1. /\ pc \in {"kpartx_update", "kpartx_add"} /\ pc' \in {"kpartx_add", "device_node"}
        /\ faults' = faults /\ UNCHANGED <<dir, mounts, image>>
    BY <1>3 DEF KpartxUpdate, KpartxAdd, Goto, Move, contents
  <2>2. k \in Nat
    BY NaturalIndex
  <2>3. /\ pc \notin {"directory_bootstrap", "load_mounts", "umount_leftover", "umount_nondisk"}
        /\ pc \notin ChrootScope \cup {"mount_nondisk"}
        /\ pc \notin InRootScope /\ pc \notin InDirScope /\ pc \notin ScriptScope
    BY <2>1
    DEF ChrootScope, InRootScope, InDirScope, ScriptScope, InRoot, BeforeBoot, AfterBoot,
        AfterChroot, InChroot
  <2>4. DevicesScoped'
    BY <2>1 DEF DevicesScoped, DeviceScope
  <2>5. RootScoped' /\ DirScoped' /\ ScriptsScoped'
    BY <2>1, <2>3 DEF Scoped, RootScoped, DirScoped, ScriptsScoped
  <2>6. QED
    BY <2>1, <2>2, <2>3, <2>4, <2>5, StepScoped
<1>4. CASE DeviceNode
  <2>1. /\ pc = "device_node" /\ pc' = "format" /\ k' = FirstIndex(pc') /\ faults' = faults
        /\ UNCHANGED <<devices, dir, mounts, image>>
    BY <1>4 DEF DeviceNode, Quiet, resources, contents, Goto, Move
  <2>2. SameScopes("device_node", "format")
    BY DEF SameScopes, ChrootScope, InRootScope, InDirScope, DeviceScope, ScriptScope, InRoot,
           BeforeBoot, AfterBoot, AfterChroot, InChroot
  <2>3. QED
    BY <2>1, <2>2, SameScoped
<1>5. QED
  BY <1>1, <1>2, <1>3, <1>4 DEF Prepare

(* The calls before the file system is bootstrapped, and their successors. *)
LEMMA SetUpScopes ==
  /\ SameScopes("format", "uuid") /\ SameScopes("uuid", "mkdtemp")
  /\ SameScopes("mkdir_etc", "hostname") /\ SameScopes("hostname", "resolv_conf")
  /\ SameScopes("resolv_conf", "directory_bootstrap")
  /\ SameScopes("directory_bootstrap", "load_mounts")
  /\ SameScopes("load_mounts", "umount_leftover")
BY DEF SameScopes, ChrootScope, InRootScope, InDirScope, DeviceScope, ScriptScope, InRoot,
       BeforeBoot, AfterBoot, AfterChroot, InChroot

LEMMA NoScriptsYet ==
  "chroot scripts" \notin Bootstrapped /\ "chroot scripts" \notin EmptyImage.files
BY DEF Bootstrapped, EmptyImage

LEMMA SimpleSetUpScoped ==
  ASSUME StateOK, Scoped,
         \/ FormatPartitions \/ SetOrGatherUuid \/ MakeEtc \/ HostnameFirst \/ ResolvConfFirst
         \/ DirectoryBootstrap \/ RefuseBootloader \/ LoadMounts
  PROVE  Scoped'
<1>1. Handler("directory_bootstrap") = "load_mounts"
  BY HandlerScopes DEF Calls
<1>2. /\ k' = FirstIndex(pc') /\ faults' = faults /\ UNCHANGED <<devices, dir, mounts>>
      /\ SameScopes(pc, pc')
  <2>1. CASE FormatPartitions \/ SetOrGatherUuid \/ DirectoryBootstrap
    BY <2>1, SetUpScopes
    DEF FormatPartitions, SetOrGatherUuid, DirectoryBootstrap, resources, Goto, Move
  <2>2. CASE MakeEtc \/ HostnameFirst \/ ResolvConfFirst \/ LoadMounts
    BY <2>2, SetUpScopes
    DEF MakeEtc, HostnameFirst, ResolvConfFirst, SetHostname, SetResolvConf, LoadMounts, Quiet,
        Write, resources, Goto, Move
  <2>3. CASE RefuseBootloader
    BY <1>1, <2>3, SetUpScopes DEF RefuseBootloader, resources, Throw
  <2>4. QED
    BY <2>1, <2>2, <2>3
<1>3. image'.files = image.files \/ "chroot scripts" \notin image'.files
  <2>1. image \in ImageType
    BY DEF StateOK, ContentsOK
  <2>2. CASE FormatPartitions
    BY <2>2, NoScriptsYet DEF FormatPartitions
  <2>3. CASE DirectoryBootstrap
    <3>1. PICK fromHost \in BOOLEAN, id \in {image.machineId, "generated"} :
            image' = [image EXCEPT !.files = Bootstrapped,
                                   !.machineId = id,
                                   !.hostname = IF fromHost THEN "host" ELSE @,
                                   !.resolv = IF fromHost THEN "host" ELSE @]
      BY <2>3 DEF DirectoryBootstrap
    <3>2. image'.files = Bootstrapped
      BY <2>1, <3>1 DEF ImageType
    <3>3. QED
      BY <3>2, NoScriptsYet
  <2>4. CASE HostnameFirst \/ ResolvConfFirst
    BY <2>1, <2>4
    DEF HostnameFirst, ResolvConfFirst, SetHostname, SetResolvConf, Write, ImageType
  <2>5. CASE SetOrGatherUuid \/ MakeEtc \/ RefuseBootloader \/ LoadMounts
    BY <2>5 DEF SetOrGatherUuid, MakeEtc, RefuseBootloader, LoadMounts, Quiet, contents
  <2>6. QED
    BY <2>2, <2>3, <2>4, <2>5
<1>4. QED
  BY <1>2, <1>3, SameScoped

(* tempfile.mkdtemp and mount: what they leave behind is in the scope they *)
(* enter, or an interruption before they enter it explains it.             *)
LEMMA AcquireScoped == ASSUME StateOK, Scoped, MakeMountPoint \/ MountRoot PROVE Scoped'
<1>1. Handler("mkdtemp") = "remove_devices" /\ Handler("mount_root") = "rmdir"
  BY DEF Handler, InDevices, InDir, InRoot, BeforeBoot, AfterBoot, AfterChroot, InChroot
<1>2. /\ "mount_root" \in InDirScope /\ "mount_root" \in DeviceScope
      /\ "mkdir_etc" \in InRootScope /\ "mkdir_etc" \in InDirScope /\ "mkdir_etc" \in DeviceScope
      /\ "rmdir" \in InDirScope /\ "rmdir" \in DeviceScope /\ "remove_devices" \in DeviceScope
  <2>1. "mkdir_etc" \in InRootScope
    BY DEF InRootScope, InRoot, BeforeBoot
  <2>2. /\ "mkdir_etc" \in InDirScope /\ "mount_root" \in InDirScope /\ "rmdir" \in InDirScope
    BY <2>1 DEF InDirScope
  <2>3. QED
    BY <2>1, <2>2 DEF DeviceScope
<1>3. \A l \in {"mkdtemp", "mount_root"} :
        /\ l \notin {"directory_bootstrap", "load_mounts", "umount_leftover", "umount_nondisk"}
        /\ l \notin ChrootScope \cup {"mount_nondisk"} /\ l \notin InRootScope /\ l \notin ScriptScope
        /\ l = "mkdtemp" => l \notin InDirScope
  BY DEF ChrootScope, InRootScope, InDirScope, ScriptScope, InRoot, BeforeBoot, AfterBoot,
         AfterChroot, InChroot
<1>4. k \in Nat
  BY NaturalIndex
<1>5. CASE MakeMountPoint
  <2>1. /\ pc = "mkdtemp" /\ faults \subseteq faults' /\ UNCHANGED <<devices, mounts, image>>
        /\ \/ pc' = "mount_root"
           \/ pc' = "remove_devices" /\ <<"mkdtemp", "late">> \in faults'
    BY <1>1, <1>5
    DEF MakeMountPoint, contents, Goto, Move, Raise, Throw, Note, Fragile, DirFaults
  <2>2. DirScoped'
    BY <1>2, <2>1 DEF DirScoped, DirFaults
  <2>3. RootScoped' /\ DevicesScoped' /\ ScriptsScoped'
    BY <1>2, <1>3, <2>1 DEF Scoped, RootScoped, DevicesScoped, ScriptsScoped
  <2>4. QED
    BY <1>3, <1>4, <2>1, <2>2, <2>3, StepScoped
<1>6. CASE MountRoot
  <2>1. /\ pc = "mount_root" /\ faults \subseteq faults' /\ UNCHANGED <<devices, dir, image>>
        /\ mounts' = mounts \cup {"root"}
        /\ \/ pc' = "mkdir_etc"
           \/ pc' = "rmdir" /\ <<"mount_root", "late">> \in faults'
    BY <1>1, <1>6
    DEF MountRoot, contents, Goto, Move, Raise, Throw, Note, Fragile, DirFaults, RootFaults
  <2>2. RootScoped'
    BY <1>2, <2>1 DEF RootScoped, RootFaults
  <2>3. DirScoped' /\ DevicesScoped' /\ ScriptsScoped'
    BY <1>2, <1>3, <2>1 DEF Scoped, DirScoped, DevicesScoped, ScriptsScoped
  <2>4. QED
    BY <1>3, <1>4, <2>1, <2>2, <2>3, StepScoped
<1>7. QED
  BY <1>5, <1>6

(* The loop that unmounts leftovers: one that it has passed and that is    *)
(* still mounted explains why the one below it cannot be unmounted.        *)
LEMMA UnmountLeftoversScoped == ASSUME StateOK, Scoped, UnmountLeftovers PROVE Scoped'
<1>1. /\ pc = "umount_leftover" /\ k \in 0..Len(Leftovers) /\ Len(Leftovers) \in Nat
      /\ UNCHANGED <<devices, dir, image>> /\ mounts' \subseteq mounts
  <2>1. pc = "umount_leftover" /\ UNCHANGED <<devices, dir, image>> /\ mounts' \subseteq mounts
    BY DEF UnmountLeftovers, KeepTrying, resources, contents
  <2>2. k \in 0..Len(Leftovers)
    BY <2>1 DEF StateOK, ControlOK, Indices
  <2>3. QED
    BY <2>1, <2>2, LengthType
<1>2. CASE k = 0
  <2>1. faults' = faults /\ UNCHANGED mounts /\ k' = FirstIndex(pc')
        /\ pc' \in {"umount_root", "hostname_again"}
    <3>1. Handler("umount_leftover") = "umount_root"
      BY DEF Handler, InDevices, InDir, InRoot, BeforeBoot, AfterBoot, AfterChroot, InChroot
    <3>2. Goto(Continuation("umount_leftover", "hostname_again")) /\ UNCHANGED mounts
      BY <1>2 DEF UnmountLeftovers, resources
    <3>3. QED
      BY <3>1, <3>2 DEF Goto, Move, Continuation
  <2>2. pc' \in InRootScope /\ pc' \in InDirScope /\ pc' \in DeviceScope
    BY <2>1 DEF InRootScope, InDirScope, DeviceScope, InRoot, AfterBoot
  <2>3. pc \notin ChrootScope \cup {"mount_nondisk"} /\ pc \notin ScriptScope
    BY <1>1 DEF ChrootScope, InChroot, ScriptScope
  <2>4. RootScoped' /\ DirScoped' /\ DevicesScoped' /\ ScriptsScoped'
    BY <1>1, <2>1, <2>2, <2>3 DEF Scoped, RootScoped, DirScoped, DevicesScoped, ScriptsScoped
  <2>5. QED
    BY <1>1, <1>2, <2>1, <2>3, <2>4, StepScoped
<1>3. CASE UNCHANGED <<pc, k>> /\ faults \subseteq faults'
  BY <1>1, <1>3, StayScoped
<1>4. CASE /\ k > 0 /\ pc' = pc /\ k' = k - 1 /\ faults \subseteq faults'
           /\ faults' \cap LeftoverFaults = {} => Leftovers[k] \notin mounts'
  <2>1. LeftoversScoped'
    <3> SUFFICES ASSUME faults' \cap LeftoverFaults = {},
                        NEW i \in 1..Len(Leftovers), Leftovers[i] \in mounts'
                 PROVE  LeftoverInScope(i)'
      BY DEF LeftoversScoped
    <3>1. LeftoverInScope(i)
      BY <1>1, <1>4 DEF Scoped, LeftoversScoped
    <3>2. i # k
      BY <1>4
    <3>3. QED
      BY <1>1, <1>4, <3>1, <3>2 DEF LeftoverInScope
  <2>2. NonDiskScoped'
    <3>1. pc \notin ChrootScope
      BY <1>1 DEF ChrootScope, InChroot
    <3>2. QED
      BY <1>1, <1>4, <3>1 DEF Scoped, NonDiskScoped, NonDiskInScope
  <2>3. RootScoped' /\ DirScoped' /\ DevicesScoped' /\ ScriptsScoped'
    BY <1>1, <1>4 DEF Scoped, RootScoped, DirScoped, DevicesScoped, ScriptsScoped
  <2>4. QED
    BY <2>1, <2>2, <2>3 DEF Scoped
<1>5. \/ k = 0
      \/ UNCHANGED <<pc, k>> /\ faults \subseteq faults'
      \/ /\ k > 0 /\ pc' = pc /\ k' = k - 1 /\ faults \subseteq faults'
         /\ faults' \cap LeftoverFaults = {} => Leftovers[k] \notin mounts'
  <2>1. CASE k > 0 /\ Leftovers[k] \notin mounts
    BY <1>1, <2>1, SMT DEF UnmountLeftovers, KeepTrying, Move, resources
  <2>2. CASE k > 0 /\ Leftovers[k] \in mounts
    <3>1. CASE LeftoversAbove(k) \cap mounts = {}
      <4>1. <<"umount_leftover", "refused">> \in LeftoverFaults \cap Fragile
        BY DEF LeftoverFaults, Fragile, DirFaults, RootFaults
      <4>2. CASE tries < 3 /\ UNCHANGED <<pc, k, faults>>
        BY <4>2
      <4>3. CASE mounts' = mounts \ {Leftovers[k]} /\ Move("umount_leftover", k - 1) /\ faults' = faults
        BY <1>1, <2>2, <4>3 DEF Move
      <4>4. CASE Move("umount_leftover", k - 1) /\ Note("umount_leftover", "refused")
        BY <1>1, <2>2, <4>1, <4>4 DEF Move, Note
      <4>5. QED
        BY <2>2, <3>1, <4>2, <4>3, <4>4, SMT DEF UnmountLeftovers, KeepTrying, Move, Note
    <3>2. CASE LeftoversAbove(k) \cap mounts # {}
      <4>1. PICK j \in (k + 1)..Len(Leftovers) : Leftovers[j] \in mounts
        BY <3>2 DEF LeftoversAbove
      <4>2. faults \cap LeftoverFaults # {}
        BY <1>1, <4>1 DEF Scoped, LeftoversScoped, LeftoverInScope
      <4>3. faults' = faults /\ (UNCHANGED <<pc, k>> \/ (pc' = pc /\ k' = k - 1))
        BY <2>2, <3>2, SMT DEF UnmountLeftovers, KeepTrying, Move
      <4>4. QED
        BY <2>2, <4>2, <4>3
    <3>3. QED
      BY <3>1, <3>2
  <2>3. QED
    BY <1>1, <2>1, <2>2
<1>6. QED
  BY <1>2, <1>3, <1>4, <1>5

LEMMA BootstrapperMountsScoped == ASSUME StateOK, Scoped, BootstrapperMounts PROVE Scoped'
<1>1. /\ pc = "directory_bootstrap" /\ pc' = pc /\ k \in 1..Len(Leftovers) /\ faults' = faults
      /\ mounts' = mounts \cup {Leftovers[k]} /\ UNCHANGED <<devices, dir, image>>
  <2>1. pc = "directory_bootstrap" /\ k <= Len(Leftovers)
    BY DEF BootstrapperMounts
  <2>2. k \in 1..(Len(Leftovers) + 1)
    BY <2>1 DEF StateOK, ControlOK, Indices
  <2>3. QED
    BY <2>1, <2>2, LengthType DEF BootstrapperMounts, Move, contents
<1>2. LeftoversScoped'
  BY <1>1 DEF LeftoversScoped, LeftoverInScope
<1>3. NonDiskScoped'
  <2> SUFFICES ASSUME faults' \cap NonDiskFaults = {}, NEW i \in 1..5, NonDisk[i] \in mounts'
               PROVE  FALSE
    BY DEF NonDiskScoped
  <2>1. NonDisk[i] \in mounts
    BY <1>1, MountNames
  <2>2. NonDiskInScope(i)
    BY <1>1, <2>1 DEF Scoped, NonDiskScoped
  <2>3. QED
    BY <1>1, <2>2 DEF NonDiskInScope, ChrootScope, InChroot
<1>4. RootScoped' /\ DirScoped' /\ DevicesScoped' /\ ScriptsScoped'
  BY <1>1, MountNames DEF Scoped, RootScoped, DirScoped, DevicesScoped, ScriptsScoped
<1>5. QED
  BY <1>2, <1>3, <1>4 DEF Scoped

LEMMA SetUpScoped == ASSUME StateOK, Scoped, SetUp PROVE Scoped'
BY SimpleSetUpScoped, AcquireScoped, BootstrapperMountsScoped, UnmountLeftoversScoped DEF SetUp

LEMMA ConfigureScopes ==
  /\ SameScopes("hostname_again", "resolv_conf_again") /\ SameScopes("resolv_conf_again", "fstab")
  /\ SameScopes("fstab", "machine_id") /\ SameScopes("machine_id", "pre_scripts")
  /\ SameScopes("pre_scripts", "host_loader") /\ SameScopes("host_loader", "mount_nondisk")
BY DEF SameScopes, ChrootScope, InRootScope, InDirScope, DeviceScope, ScriptScope, InRoot,
       BeforeBoot, AfterBoot, AfterChroot, InChroot

LEMMA SimpleConfigureScoped ==
  ASSUME StateOK, Scoped,
         \/ HostnameAgain \/ ResolvConfAgain \/ CreateFstab \/ CreateMachineId
         \/ RunPreScripts \/ InstallHostLoader
  PROVE  Scoped'
<1>1. image \in ImageType
  BY DEF StateOK, ContentsOK
<1>2. CASE HostnameAgain \/ ResolvConfAgain \/ CreateFstab \/ CreateMachineId
  <2>1. /\ k' = FirstIndex(pc') /\ faults' = faults /\ UNCHANGED <<devices, dir, mounts>>
        /\ SameScopes(pc, pc')
    BY <1>2, ConfigureScopes
    DEF HostnameAgain, ResolvConfAgain, CreateFstab, CreateMachineId, SetHostname, SetResolvConf,
        Write, resources, Goto, Move
  <2>2. image'.files = image.files
    BY <1>1, <1>2
    DEF HostnameAgain, ResolvConfAgain, CreateFstab, CreateMachineId, SetHostname, SetResolvConf,
        Write, ImageType
  <2>3. QED
    BY <2>1, <2>2, SameScoped
<1>3. CASE RunPreScripts \/ InstallHostLoader
  <2>1. /\ k' = FirstIndex(pc') /\ faults' = faults /\ UNCHANGED <<devices, dir, mounts>>
        /\ SameScopes(pc, pc')
    BY <1>3, ConfigureScopes DEF RunPreScripts, InstallHostLoader, Quiet, resources, Goto, Move
  <2>2. image' = image \/ image' = [image EXCEPT !.root = uuid]
    BY <1>3, Zenon DEF RunPreScripts, InstallHostLoader, Quiet, contents
  <2>3. image'.files = image.files
    BY <1>1, <2>2 DEF ImageType
  <2>4. QED
    BY <2>1, <2>3, SameScoped
<1>4. QED
  BY <1>2, <1>3

(* The loop that mounts /dev & co. enters their scope when it is done; its *)
(* own failure, for which run() has no finally clause, explains the rest.  *)
LEMMA MountNonDiskScoped == ASSUME StateOK, Scoped, MountNonDisk PROVE Scoped'
<1>1. /\ pc = "mount_nondisk" /\ k \in 1..6 /\ faults' = faults
      /\ UNCHANGED <<devices, dir, image>>
  <2>1. pc = "mount_nondisk"
    BY DEF MountNonDisk
  <2>2. k \in 1..6
    BY <2>1 DEF StateOK, ControlOK, Indices
  <2>3. QED
    BY <2>1, <2>2 DEF MountNonDisk, Goto, contents
<1>2. /\ pc \notin {"directory_bootstrap", "load_mounts", "umount_leftover"}
      /\ pc \notin ChrootScope \cup ScriptScope
  BY <1>1 DEF ChrootScope, InChroot, ScriptScope
<1>3. CASE k = 6 /\ pc' = "autostart_off" /\ UNCHANGED mounts
  <2>1. "autostart_off" \in ChrootScope
    BY DEF ChrootScope, InChroot
  <2>2. "autostart_off" \in InRootScope /\ "autostart_off" \in InDirScope
    BY DEF InRootScope, InDirScope, InChroot
  <2>3. RootScoped' /\ DirScoped' /\ DevicesScoped' /\ ScriptsScoped'
    BY <1>1, <1>2, <1>3, <2>2
    DEF Scoped, RootScoped, DirScoped, DevicesScoped, ScriptsScoped, DeviceScope
  <2>4. QED
    BY <1>1, <1>2, <1>3, <2>1, <2>3, NaturalIndex, StepScoped
<1>4. CASE k <= 5 /\ mounts' = mounts \cup {NonDisk[k]} /\ pc' = pc /\ k' = k + 1
  <2>1. k \in 1..5
    BY <1>1, <1>4
  <2>2. LeftoversScoped'
    BY <1>1, <1>2, <1>4, <2>1, MountNames DEF Scoped, LeftoversScoped, LeftoverInScope
  <2>3. NonDiskScoped'
    <3> SUFFICES ASSUME faults' \cap NonDiskFaults = {}, NEW i \in 1..5, NonDisk[i] \in mounts'
                 PROVE  NonDiskInScope(i)'
      BY DEF NonDiskScoped
    <3>1. i = k \/ NonDisk[i] \in mounts
      BY <1>4, <2>1, MountNames
    <3>2. i = k \/ NonDiskInScope(i)
      BY <1>1, <3>1 DEF Scoped, NonDiskScoped
    <3>3. i <= k
      BY <1>1, <1>2, <3>2 DEF NonDiskInScope
    <3>4. QED
      BY <1>1, <1>4, <2>1, <3>3 DEF NonDiskInScope
  <2>4. RootScoped' /\ DirScoped' /\ DevicesScoped' /\ ScriptsScoped'
    BY <1>1, <1>4, <2>1, MountNames DEF Scoped, RootScoped, DirScoped, DevicesScoped, ScriptsScoped
  <2>5. QED
    BY <2>2, <2>3, <2>4 DEF Scoped
<1>5. QED
  BY <1>3, <1>4 DEF MountNonDisk, Goto, Move

LEMMA ConfigureScoped == ASSUME StateOK, Scoped, Configure PROVE Scoped'
BY SimpleConfigureScoped, MountNonDiskScoped DEF Configure

(* The calls between mounting /dev & co. and unmounting them, except those *)
(* that copy, run and remove chroot scripts.                               *)
LEMMA ChrootScopes ==
  ASSUME NEW l \in InChroot \ {"remove_scripts"}, NEW m \in InChroot \cup {"umount_nondisk"}
  PROVE  SameScopes(l, m)
<1>1. /\ l \notin {"umount_leftover", "umount_nondisk", "mount_nondisk"}
      /\ l \notin {"directory_bootstrap", "load_mounts"} /\ l \notin ScriptScope
  BY DEF InChroot, ScriptScope
<1>2. m \in ChrootScope \cup {"umount_nondisk"}
  BY DEF ChrootScope
<1>3. m \in InRootScope
  BY DEF InRootScope, InRoot
<1>4. m \in InDirScope /\ m \in DeviceScope
  BY <1>3 DEF InDirScope, DeviceScope
<1>5. QED
  BY <1>1, <1>2, <1>3, <1>4 DEF SameScopes

LEMMA ChrootStep ==
  ASSUME StateOK, Scoped, pc \in InChroot \ {"remove_scripts"},
         pc' \in InChroot \cup {"umount_nondisk"}, k' = FirstIndex(pc'), faults' = faults,
         UNCHANGED <<devices, dir, mounts>>,
         "chroot scripts" \in image'.files => "chroot scripts" \in image.files
  PROVE  Scoped'
BY ChrootScopes, SameScoped

(* A call in the chroot that writes anything but chroot scripts.           *)
LEMMA WriteScoped ==
  ASSUME StateOK, Scoped, NEW l \in InChroot \ {"remove_scripts"},
         NEW m \in InChroot \cup {"umount_nondisk"}, NEW new, Write(l, m, new),
         "chroot scripts" \in new.files => "chroot scripts" \in image.files
  PROVE  Scoped'
BY ChrootStep DEF Write, resources, Goto, Move

LEMMA PutScoped ==
  ASSUME StateOK, Scoped, NEW l \in InChroot \ {"remove_scripts"},
         NEW m \in InChroot \cup {"umount_nondisk"}, NEW new, Put(l, m, new),
         "chroot scripts" \notin new
  PROVE  Scoped'
<1>1. [image EXCEPT !.files = @ \cup new].files = image.files \cup new
  BY DEF StateOK, ContentsOK, ImageType
<1>2. QED
  BY <1>1, WriteScoped DEF Put

LEMMA RemoveScoped ==
  ASSUME StateOK, Scoped, NEW l \in InChroot \ {"remove_scripts"},
         NEW m \in InChroot \cup {"umount_nondisk"}, NEW old, Remove(l, m, old)
  PROVE  Scoped'
<1>1. [image EXCEPT !.files = @ \ old].files = image.files \ old
  BY DEF StateOK, ContentsOK, ImageType
<1>2. QED
  BY <1>1, WriteScoped DEF Remove

LEMMA InstallScoped ==
  ASSUME StateOK, Scoped, NEW l \in InChroot \ {"remove_scripts"},
         NEW m \in InChroot \cup {"umount_nondisk"}, NEW needed, NEW new,
         Install(l, m, needed, new), "chroot scripts" \notin new
  PROVE  Scoped'
BY PutScoped DEF Install

LEMMA QuietScoped ==
  ASSUME StateOK, Scoped, NEW l \in InChroot \ {"remove_scripts"},
         NEW m \in InChroot \cup {"umount_nondisk"}, Quiet(l, m)
  PROVE  Scoped'
BY ChrootStep DEF Quiet, resources, contents, Goto, Move

LEMMA ProvisionSystemScoped == ASSUME StateOK, Scoped, ProvisionSystem PROVE Scoped'
<1>1. {"autostart_off", "root_password", "prepare_packages", "kernel", "grub_package",
       "chroot_loader", "dhcp_client"} \subseteq InChroot \ {"remove_scripts"}
  BY DEF InChroot
<1>2. CASE AutostartOff \/ PreparePackages
  BY <1>1, <1>2, PutScoped DEF AutostartOff, PreparePackages
<1>3. CASE SetRootPassword
  BY <1>1, <1>3, QuietScoped DEF SetRootPassword
<1>4. CASE InstallKernel \/ InstallGrub
  BY <1>1, <1>4, InstallScoped DEF InstallKernel, InstallGrub
<1>5. CASE InstallChrootLoader
  BY <1>1, <1>5, ChrootStep DEF InstallChrootLoader, resources, Goto, Move
<1>6. QED
  BY <1>2, <1>3, <1>4, <1>5 DEF ProvisionSystem

LEMMA ProvisionOpenstackScoped == ASSUME StateOK, Scoped, ProvisionOpenstack PROVE Scoped'
<1>1. {"dhcp_client", "sudo", "cloud_init", "cloud_cfg", "sshd", "services", "tty1_pcspkr",
       "acpid", "network"} \subseteq InChroot \ {"remove_scripts"}
  BY DEF InChroot
<1>2. CASE InstallDhcpClient \/ InstallSudo \/ InstallAcpid
  BY <1>1, <1>2, InstallScoped DEF InstallDhcpClient, InstallSudo, InstallAcpid
<1>3. CASE InstallCloudInit
  BY <1>1, <1>3, InstallScoped DEF InstallCloudInit
<1>4. CASE InstallSshd
  <2>1. PICK keys \in {{}, {"ssh host keys"}} :
          Install("sshd", "services", cfg.openstack, {"sshd"} \cup keys)
    BY <1>4 DEF InstallSshd
  <2>2. "chroot scripts" \notin {"sshd"} \cup keys
    <3>1. CASE keys = {}
      BY <3>1
    <3>2. CASE keys = {"ssh host keys"}
      BY <3>2
    <3>3. QED
      BY <2>1, <3>1, <3>2
  <2>3. QED
    BY <1>1, <2>1, <2>2, InstallScoped
<1>5. CASE ConfigureCloudInit \/ ServicesAutostart \/ ConfigureConsole
  BY <1>1, <1>5, QuietScoped DEF ConfigureCloudInit, ServicesAutostart, ConfigureConsole
<1>6. QED
  BY <1>2, <1>3, <1>4, <1>5 DEF ProvisionOpenstack

LEMMA ProvisionBootScoped == ASSUME StateOK, Scoped, ProvisionBoot PROVE Scoped'
<1>1. {"network", "initramfs", "grub_defaults", "grub_cfg", "grub_root", "copy_scripts"}
        \subseteq InChroot \ {"remove_scripts"}
  BY DEF InChroot
<1>2. image \in ImageType
  BY DEF StateOK, ContentsOK
<1>3. CASE CreateNetworkConfiguration \/ GenerateInitramfs
  BY <1>1, <1>3, PutScoped DEF CreateNetworkConfiguration, GenerateInitramfs
<1>4. CASE AdjustGrubDefaults
  BY <1>1, <1>4, QuietScoped DEF AdjustGrubDefaults
<1>5. CASE GenerateGrubCfg
  <2>1. [image EXCEPT !.files = @ \cup {"grub.cfg"}, !.root = "probed"].files
          = image.files \cup {"grub.cfg"}
    BY <1>2 DEF ImageType
  <2>2. QED
    BY <1>1, <1>5, <2>1, WriteScoped DEF GenerateGrubCfg
<1>6. CASE FixGrubRootDevice
  <2>1. [image EXCEPT !.root = uuid].files = image.files
    BY <1>2 DEF ImageType
  <2>2. QED
    BY <1>1, <1>6, <2>1, WriteScoped DEF FixGrubRootDevice
<1>7. QED
  BY <1>3, <1>4, <1>5, <1>6 DEF ProvisionBoot

LEMMA ShipScoped == ASSUME StateOK, Scoped, Ship PROVE Scoped'
<1>1. {"delete_sshd_keys", "clean_machine_id", "shipping_clean_up", "resolved_link",
       "autostart_on"} \subseteq InChroot \ {"remove_scripts"}
  BY DEF InChroot
<1>2. image \in ImageType
  BY DEF StateOK, ContentsOK
<1>3. CASE DeleteSshdKeys \/ AutostartOn
  BY <1>1, <1>3, RemoveScoped DEF DeleteSshdKeys, AutostartOn
<1>4. CASE CleanMachineId \/ HandOverResolvConf
  <2>1. [image EXCEPT !.machineId = IF cfg.openstack /\ ~cfg.machineId THEN "empty" ELSE @].files
          = image.files
    BY <1>2 DEF ImageType
  <2>2. [image EXCEPT !.resolv = "resolved"].files = image.files
    BY <1>2 DEF ImageType
  <2>3. QED
    BY <1>1, <1>4, <2>1, <2>2, WriteScoped DEF CleanMachineId, HandOverResolvConf
<1>5. CASE ShippingCleanUp
  <2>1. [image EXCEPT !.files = (@ \cup {"package cache"}) \ {"pacman keys"}].files
          = (image.files \cup {"package cache"}) \ {"pacman keys"}
    BY <1>2 DEF ImageType
  <2>2. QED
    BY <1>1, <1>5, <2>1, WriteScoped DEF ShippingCleanUp
<1>6. QED
  BY <1>3, <1>4, <1>5 DEF Ship

LEMMA ChrootScriptsScoped == ASSUME StateOK, Scoped, ChrootScripts PROVE Scoped'
<1>1. /\ "copy_scripts" \in InChroot \ {"remove_scripts"} /\ "delete_sshd_keys" \in InChroot
      /\ "run_scripts" \in ChrootScope /\ "remove_scripts" \in ChrootScope
      /\ "delete_sshd_keys" \in ChrootScope
  BY DEF ChrootScope, InChroot
<1>2. \A l \in ChrootScope \cup {"umount_nondisk"} :
        l \in InRootScope /\ l \in InDirScope /\ l \in DeviceScope
  <2>1. \A l \in ChrootScope \cup {"umount_nondisk"} : l \in InRootScope
    BY DEF ChrootScope, InRootScope, InRoot
  <2>2. QED
    BY <2>1 DEF InDirScope, DeviceScope
<1>3. \A l \in {"copy_scripts", "run_scripts", "remove_scripts"} :
        l \notin {"directory_bootstrap", "load_mounts", "umount_leftover", "umount_nondisk"}
  OBVIOUS
<1>4. CASE CopyChrootScripts
  <2>1. /\ pc = "copy_scripts" /\ faults \subseteq faults' /\ UNCHANGED <<devices, dir, mounts>>
        /\ \/ pc' = "run_scripts"
           \/ pc' = "umount_nondisk" /\ k' = 5 /\ <<"copy_scripts", "late">> \in faults'
           \/ pc' = "delete_sshd_keys" /\ image' = image
    <3>1. Handler("copy_scripts") = "umount_nondisk"
      BY DEF Handler, InDevices, InDir, InRoot, BeforeBoot, AfterBoot, AfterChroot, InChroot
    <3>2. QED
      BY <1>4, <3>1, FirstIndices
      DEF CopyChrootScripts, resources, Goto, Move, Raise, Throw, Note, Fragile, ScriptFaults
  <2>2. pc' \in ChrootScope \cup {"umount_nondisk"}
    BY <1>1, <2>1
  <2>3. ScriptsScoped'
    <3>1. pc \notin ScriptScope /\ {"run_scripts", "remove_scripts"} \subseteq ScriptScope
      BY <2>1 DEF ScriptScope
    <3>2. QED
      BY <2>1, <3>1 DEF Scoped, ScriptsScoped, ScriptFaults
  <2>4. RootScoped' /\ DirScoped' /\ DevicesScoped'
    BY <1>2, <2>1, <2>2 DEF Scoped, RootScoped, DirScoped, DevicesScoped
  <2>5. QED
    BY <1>3, <2>1, <2>2, <2>3, <2>4, NaturalIndex, StepScoped
<1>5. CASE RunChrootScripts
  <2>1. /\ pc = "run_scripts" /\ pc' = "remove_scripts" /\ faults' = faults
        /\ UNCHANGED <<devices, dir, mounts>>
    BY <1>5 DEF RunChrootScripts, Write, resources, Goto, Move
  <2>2. ScriptsScoped'
    BY <2>1 DEF ScriptsScoped, ScriptScope
  <2>3. RootScoped' /\ DirScoped' /\ DevicesScoped'
    BY <1>1, <1>2, <2>1 DEF Scoped, RootScoped, DirScoped, DevicesScoped
  <2>4. QED
    BY <1>1, <1>3, <2>1, <2>2, <2>3, NaturalIndex, StepScoped
<1>6. CASE RemoveChrootScripts
  <2>1. /\ pc = "remove_scripts" /\ pc' \in {"delete_sshd_keys", "umount_nondisk"}
        /\ k' = FirstIndex(pc') /\ faults' = faults /\ UNCHANGED <<devices, dir, mounts>>
    <3>1. Handler("remove_scripts") = "umount_nondisk"
      BY DEF Handler, InDevices, InDir, InRoot, BeforeBoot, AfterBoot, AfterChroot, InChroot
    <3>2. QED
      BY <1>6, <3>1 DEF RemoveChrootScripts, Continuation, Remove, Write, resources, Goto, Move
  <2>2. "chroot scripts" \notin image'.files
    <3>1. image' = [image EXCEPT !.files = @ \ {"chroot scripts"}]
      BY <1>6 DEF RemoveChrootScripts, Remove, Write
    <3>2. QED
      BY <3>1 DEF StateOK, ContentsOK, ImageType
  <2>3. pc' \in ChrootScope \cup {"umount_nondisk"}
    BY <1>1, <2>1
  <2>4. RootScoped' /\ DirScoped' /\ DevicesScoped' /\ ScriptsScoped'
    BY <1>2, <2>1, <2>2, <2>3 DEF Scoped, RootScoped, DirScoped, DevicesScoped, ScriptsScoped
  <2>5. QED
    BY <1>3, <2>1, <2>3, <2>4, FirstIndices, NaturalIndex, StepScoped
<1>7. QED
  BY <1>4, <1>5, <1>6 DEF ChrootScripts

(* The loop that unmounts /dev & co., as UnmountLeftoversScoped: only dev  *)
(* has something in it, and that comes after it in the list.               *)
LEMMA UnmountNonDiskScoped == ASSUME StateOK, Scoped, UnmountNonDisk PROVE Scoped'
<1>1. /\ pc = "umount_nondisk" /\ k \in 0..5
      /\ UNCHANGED <<devices, dir, image>> /\ mounts' \subseteq mounts
  <2>1. pc = "umount_nondisk" /\ UNCHANGED <<devices, dir, image>> /\ mounts' \subseteq mounts
    BY DEF UnmountNonDisk, KeepTrying, resources, contents
  <2>2. k \in 0..5
    BY <2>1 DEF StateOK, ControlOK, Indices
  <2>3. QED
    BY <2>1, <2>2
<1>2. /\ pc \notin {"directory_bootstrap", "load_mounts", "umount_leftover", "mount_nondisk"}
      /\ pc \notin ChrootScope \cup ScriptScope
  BY <1>1 DEF ChrootScope, InChroot, ScriptScope
<1>3. CASE k = 0
  <2>1. faults' = faults /\ UNCHANGED mounts /\ pc' \in {"umount_root", "post_clean_up"}
    <3>1. Handler("umount_nondisk") = "umount_root"
      BY DEF Handler, InDevices, InDir, InRoot, BeforeBoot, AfterBoot, AfterChroot, InChroot
    <3>2. Goto(Continuation("umount_nondisk", "post_clean_up")) /\ UNCHANGED mounts
      BY <1>3 DEF UnmountNonDisk, resources
    <3>3. QED
      BY <3>1, <3>2 DEF Goto, Move, Continuation
  <2>2. pc' \in InRootScope /\ pc' \in InDirScope /\ pc' \in DeviceScope
    BY <2>1 DEF InRootScope, InDirScope, DeviceScope, InRoot, AfterChroot
  <2>3. RootScoped' /\ DirScoped' /\ DevicesScoped' /\ ScriptsScoped'
    BY <1>1, <1>2, <2>1, <2>2 DEF Scoped, RootScoped, DirScoped, DevicesScoped, ScriptsScoped
  <2>4. QED
    BY <1>1, <1>2, <1>3, <2>1, <2>3, StepScoped
<1>4. CASE UNCHANGED <<pc, k>> /\ faults \subseteq faults'
  BY <1>1, <1>4, StayScoped
<1>5. CASE /\ k > 0 /\ pc' = pc /\ k' = k - 1 /\ faults \subseteq faults'
           /\ faults' \cap NonDiskFaults = {} => NonDisk[k] \notin mounts'
  <2>1. NonDiskScoped'
    <3> SUFFICES ASSUME faults' \cap NonDiskFaults = {}, NEW i \in 1..5, NonDisk[i] \in mounts'
                 PROVE  NonDiskInScope(i)'
      BY DEF NonDiskScoped
    <3>1. NonDiskInScope(i)
      BY <1>1, <1>5 DEF Scoped, NonDiskScoped
    <3>2. i # k
      BY <1>5
    <3>3. QED
      BY <1>1, <1>2, <1>5, <3>1, <3>2 DEF NonDiskInScope
  <2>2. LeftoversScoped'
    BY <1>1, <1>2, <1>5 DEF Scoped, LeftoversScoped, LeftoverInScope
  <2>3. RootScoped' /\ DirScoped' /\ DevicesScoped' /\ ScriptsScoped'
    BY <1>1, <1>5 DEF Scoped, RootScoped, DirScoped, DevicesScoped, ScriptsScoped
  <2>4. QED
    BY <2>1, <2>2, <2>3 DEF Scoped
<1>6. \/ k = 0
      \/ UNCHANGED <<pc, k>> /\ faults \subseteq faults'
      \/ /\ k > 0 /\ pc' = pc /\ k' = k - 1 /\ faults \subseteq faults'
         /\ faults' \cap NonDiskFaults = {} => NonDisk[k] \notin mounts'
  <2>1. CASE k > 0 /\ NestedMounts(NonDisk[k]) \cap mounts = {}
    <3>1. <<"umount_nondisk", "refused">> \in NonDiskFaults \cap Fragile
      BY DEF NonDiskFaults, Fragile, DirFaults, RootFaults
    <3>2. CASE tries < 3 /\ UNCHANGED <<pc, k, faults>>
      BY <3>2
    <3>3. CASE mounts' = mounts \ {NonDisk[k]} /\ Move("umount_nondisk", k - 1) /\ faults' = faults
      BY <1>1, <2>1, <3>3 DEF Move
    <3>4. CASE Move("umount_nondisk", k - 1) /\ Note("umount_nondisk", "refused")
      BY <1>1, <2>1, <3>1, <3>4 DEF Move, Note
    <3>5. QED
      BY <2>1, <3>2, <3>3, <3>4, SMT DEF UnmountNonDisk, KeepTrying, Move, Note
  <2>2. CASE k > 0 /\ NestedMounts(NonDisk[k]) \cap mounts # {}
    <3>1. NonDisk[k] = "dev" /\ NestedMounts(NonDisk[k]) = {"dev/pts", "dev/shm"}
      BY <2>2 DEF NestedMounts
    <3>2. NonDisk[1] = "dev" /\ NonDisk[2] = "dev/pts" /\ NonDisk[3] = "dev/shm"
      BY DEF NonDisk
    <3>3. k = 1
      BY <1>1, <2>2, <3>1, <3>2, MountNames
    <3>4. PICK i \in 2..3 : NonDisk[i] \in mounts
      BY <2>2, <3>1, <3>2
    <3>5. faults \cap NonDiskFaults # {}
      BY <1>1, <1>2, <3>3, <3>4 DEF Scoped, NonDiskScoped, NonDiskInScope
    <3>6. faults' = faults /\ (UNCHANGED <<pc, k>> \/ (pc' = pc /\ k' = k - 1))
      BY <2>2, SMT DEF UnmountNonDisk, KeepTrying, Move
    <3>7. QED
      BY <2>2, <3>5, <3>6
  <2>3. QED
    BY <1>1, <2>1, <2>2
<1>7. QED
  BY <1>3, <1>4, <1>5, <1>6

(* Once the loops are over, something other than the root file system is   *)
(* mounted only if the loops failed.                                       *)
LEMMA OnlyRootMounted ==
  ASSUME StateOK, Scoped, pc \in {"umount_root", "rmdir", "remove_devices", "exit"},
         faults \cap RootFaults = {}
  PROVE  mounts \subseteq {"root"}
<1>1. faults \cap LeftoverFaults = {} /\ faults \cap NonDiskFaults = {}
  BY DEF RootFaults
<1>2. pc \notin ChrootScope
  BY DEF ChrootScope, InChroot
<1>3. \A i \in 1..Len(Leftovers) : Leftovers[i] \notin mounts
  BY <1>1 DEF Scoped, LeftoversScoped, LeftoverInScope
<1>4. \A i \in 1..5 : NonDisk[i] \notin mounts
  BY <1>1, <1>2 DEF Scoped, NonDiskScoped, NonDiskInScope
<1>5. QED
  BY <1>3, <1>4 DEF StateOK, ResourcesOK, AllMounts

(* A command that was tried three times, did what it should, or was        *)
(* interrupted after it had.                                               *)
LEMMA LastReleases ==
  ASSUME StateOK, Scoped, UnmountRoot \/ RemoveMountPoint \/ RemovePartitionDevices
  PROVE  Scoped'
<1>1. /\ Handler("umount_root") = "rmdir" /\ Handler("rmdir") = "remove_devices"
      /\ Handler("remove_devices") = "exit"
  BY DEF Handler, InDevices, InDir, InRoot, BeforeBoot, AfterBoot, AfterChroot, InChroot
<1>2. \A l \in {"umount_root", "rmdir", "remove_devices"} :
        /\ l \notin {"directory_bootstrap", "load_mounts", "umount_leftover", "umount_nondisk"}
        /\ l \notin ChrootScope \cup {"mount_nondisk"} /\ l \notin ScriptScope
        /\ l # "umount_root" => l \notin InRootScope
        /\ l = "remove_devices" => l \notin InDirScope
  BY DEF ChrootScope, InRootScope, InDirScope, ScriptScope, InRoot, BeforeBoot, AfterBoot,
         AfterChroot, InChroot
<1>3. /\ "rmdir" \in InDirScope /\ "rmdir" \in DeviceScope /\ "remove_devices" \in DeviceScope
  BY DEF InDirScope, DeviceScope
<1>4. k \in Nat
  BY NaturalIndex
<1>5. CASE UNCHANGED <<pc, k>> /\ faults' = faults /\ UNCHANGED <<devices, dir, mounts, image>>
  BY <1>5, StayScoped
<1>6. CASE UnmountRoot /\ pc' = "rmdir"
  <2>1. pc = "umount_root" /\ faults \subseteq faults' /\ UNCHANGED <<devices, dir, image>>
    BY <1>6 DEF UnmountRoot, KeepTrying, Move, Raise, Throw, Note, resources, contents
  <2>2. mounts' \subseteq mounts /\ (faults' \cap RootFaults = {} => "root" \notin mounts')
    <3>1. CASE mounts' = {}
      BY <3>1
    <3>2. CASE mounts' = mounts /\ mounts # {"root"} /\ faults' = faults
      BY <2>1, <3>2, OnlyRootMounted
    <3>3. CASE mounts' = mounts /\ Note("umount_root", "refused")
      BY <3>3 DEF Note, RootFaults, Fragile, DirFaults
    <3>4. QED
      BY <1>6, <2>1, <3>1, <3>2, <3>3 DEF UnmountRoot, KeepTrying, Move, resources
  <2>3. RootScoped'
    BY <2>2 DEF RootScoped
  <2>4. DirScoped' /\ DevicesScoped' /\ ScriptsScoped'
    BY <1>2, <1>3, <1>6, <2>1 DEF Scoped, DirScoped, DevicesScoped, ScriptsScoped
  <2>5. QED
    BY <1>2, <1>4, <1>6, <2>1, <2>2, <2>3, <2>4, StepScoped
<1>7. CASE RemoveMountPoint /\ pc' = "remove_devices"
  <2>1. pc = "rmdir" /\ faults \subseteq faults' /\ UNCHANGED <<devices, mounts, image>>
    BY <1>7 DEF RemoveMountPoint, KeepTrying, Move, Raise, Throw, Note, resources, contents
  <2>2. DirScoped'
    <3>1. CASE dir' = FALSE
      BY <3>1 DEF DirScoped
    <3>2. CASE mounts # {}
      <4>1. faults \cap RootFaults # {}
        BY <1>2, <2>1, <3>2, OnlyRootMounted DEF Scoped, RootScoped
      <4>2. QED
        BY <2>1, <4>1 DEF DirScoped, DirFaults
    <3>3. CASE Note("rmdir", "refused")
      BY <3>3 DEF DirScoped, Note, Fragile, DirFaults
    <3>4. QED
      BY <1>7, <2>1, <3>1, <3>2, <3>3 DEF RemoveMountPoint, KeepTrying, Move
  <2>3. RootScoped' /\ DevicesScoped' /\ ScriptsScoped'
    BY <1>2, <1>3, <1>7, <2>1 DEF Scoped, RootScoped, DevicesScoped, ScriptsScoped
  <2>4. QED
    BY <1>2, <1>4, <1>7, <2>1, <2>2, <2>3, StepScoped
<1>8. CASE RemovePartitionDevices /\ pc' = "exit"
  <2>1. pc = "remove_devices" /\ faults \subseteq faults' /\ UNCHANGED <<dir, mounts, image>>
    BY <1>8 DEF RemovePartitionDevices, KeepTrying, Move, Raise, Throw, Note, resources, contents
  <2>2. DevicesScoped'
    <3>1. CASE devices' = FALSE
      BY <3>1 DEF DevicesScoped
    <3>2. CASE mounts # {}
      <4>1. faults \cap RootFaults # {}
        BY <1>2, <2>1, <3>2, OnlyRootMounted DEF Scoped, RootScoped
      <4>2. QED
        BY <2>1, <4>1 DEF DevicesScoped, DeviceFaults
    <3>3. CASE Note("remove_devices", "refused")
      BY <3>3 DEF DevicesScoped, Note, Fragile, DeviceFaults
    <3>4. QED
      BY <1>8, <2>1, <3>1, <3>2, <3>3 DEF RemovePartitionDevices, KeepTrying, Move
  <2>3. RootScoped' /\ DirScoped' /\ ScriptsScoped'
    BY <1>2, <1>8, <2>1 DEF Scoped, RootScoped, DirScoped, ScriptsScoped
  <2>4. QED
    BY <1>2, <1>4, <1>8, <2>1, <2>2, <2>3, StepScoped
<1>9. QED
  <2>1. CASE UnmountRoot
    BY <1>1, <1>5, <1>6, <2>1, Zenon
    DEF UnmountRoot, KeepTrying, Move, Raise, Throw, resources, contents
  <2>2. CASE RemoveMountPoint
    BY <1>1, <1>5, <1>7, <2>2, Zenon
    DEF RemoveMountPoint, KeepTrying, Move, Raise, Throw, resources, contents
  <2>3. CASE RemovePartitionDevices
    BY <1>1, <1>5, <1>8, <2>3, Zenon
    DEF RemovePartitionDevices, KeepTrying, Move, Raise, Throw, resources, contents
  <2>4. QED
    BY <2>1, <2>2, <2>3

LEMMA WayOutScoped == ASSUME StateOK, Scoped, WayOut PROVE Scoped'
<1>1. CASE PostCleanUp \/ RunPostScripts
  <2>1. SameScopes("post_clean_up", "post_scripts") /\ SameScopes("post_scripts", "umount_root")
    BY DEF SameScopes, ChrootScope, InRootScope, InDirScope, DeviceScope, ScriptScope, InRoot,
           BeforeBoot, AfterBoot, AfterChroot, InChroot
  <2>2. /\ k' = FirstIndex(pc') /\ faults' = faults /\ UNCHANGED <<devices, dir, mounts>>
        /\ SameScopes(pc, pc')
    BY <1>1, <2>1
    DEF PostCleanUp, RunPostScripts, Remove, Write, Quiet, resources, Goto, Move
  <2>3. image' = image \/ image' = [image EXCEPT !.files = @ \ {"package cache"}]
    BY <1>1, Zenon DEF PostCleanUp, RunPostScripts, Remove, Write, Quiet, contents
  <2>4. image'.files \subseteq image.files
    BY <2>3 DEF StateOK, ContentsOK, ImageType
  <2>5. QED
    BY <2>2, <2>4, SameScoped
<1>2. QED
  BY <1>1, UnmountNonDiskScoped, LastReleases DEF WayOut

LEMMA NextScoped == ASSUME StateOK, Scoped, [Next]_vars PROVE Scoped'
<1>1. CASE Call
  BY <1>1, PrepareScoped, SetUpScoped, ConfigureScoped, ProvisionSystemScoped,
     ProvisionOpenstackScoped, ProvisionBootScoped, ChrootScriptsScoped, ShipScoped, WayOutScoped
  DEF Call
<1>2. CASE Fault
  BY <1>2, FaultScoped
<1>3. CASE Finished \/ UNCHANGED vars
  BY <1>3, StayScoped DEF Finished, vars, control, resources, contents
<1>4. QED
  BY <1>1, <1>2, <1>3 DEF Next

LEMMA InitScoped == Init => Scoped
BY DEF Init, EmptyImage, Scoped, LeftoversScoped, NonDiskScoped, RootScoped, DirScoped,
       DevicesScoped, ScriptsScoped

(* At every moment of every run, whatever fails or is interrupted, what is *)
(* mounted, mapped or copied is the business of a finally clause that will *)
(* still be run, unless a fault of its own release explains it.            *)
THEOREM AlwaysScoped == Spec => []Scoped
<1>1. StateOK /\ Scoped /\ [Next]_vars => Scoped'
  BY NextScoped
<1>2. QED
  BY <1>1, InitScoped, AlwaysStateOK, PTL DEF Spec

LEMMA ScopedImpliesCleanExit == StateOK /\ Scoped => CleanExit
<1> SUFFICES ASSUME Scoped, pc = "exit" PROVE CleanExit
  BY DEF CleanExit
<1>1. /\ pc \notin ChrootScope /\ pc \notin InRootScope /\ pc \notin InDirScope
      /\ pc \notin DeviceScope /\ pc \notin ScriptScope
  BY DEF ChrootScope, InRootScope, InDirScope, DeviceScope, ScriptScope, InRoot, BeforeBoot,
         AfterBoot, AfterChroot, InChroot
<1>2. mounts \cap LeftoverSet # {} => faults \cap LeftoverFaults # {}
  BY DEF LeftoverSet, Scoped, LeftoversScoped, LeftoverInScope
<1>3. mounts \cap NonDiskSet # {} => faults \cap NonDiskFaults # {}
  BY <1>1 DEF NonDiskSet, Scoped, NonDiskScoped, NonDiskInScope
<1>4. /\ "root" \in mounts => faults \cap RootFaults # {}
      /\ dir => faults \cap DirFaults # {}
      /\ devices => faults \cap DeviceFaults # {}
      /\ "chroot scripts" \in image.files => faults \cap ScriptFaults # {}
  BY <1>1 DEF Scoped, RootScoped, DirScoped, DevicesScoped, ScriptsScoped
<1>5. QED
  BY <1>2, <1>3, <1>4 DEF CleanExit

(* When run() is over, whatever it left on the host is explained by a      *)
(* fault of the very step that had to release it (engine.py:911-1021), for *)
(* every command line, every set of leftovers and every way to fail.       *)
THEOREM CleanExitHolds == Spec => []CleanExit
<1>1. StateOK /\ Scoped => CleanExit
  BY ScopedImpliesCleanExit
<1>2. QED
  BY <1>1, AlwaysStateOK, AlwaysScoped, PTL

(***************************************************************************)
(* The way out: an exception that propagates meets nothing but the finally *)
(* clauses.                                                                *)
(***************************************************************************)
FinallyClauses == {"load_mounts", "umount_leftover", "remove_scripts", "umount_nondisk",
                   "umount_root", "rmdir", "remove_devices", "exit"}

OnTheWayOut == unwinding => pc \in FinallyClauses

LEMMA HandlerFinally == \A l : Handler(l) \in FinallyClauses
BY DEF Handler, FinallyClauses

(* Only an exception starts to unwind.                                     *)
LEMMA OnlyThrowUnwinds ==
  ASSUME Next
  PROVE  UNCHANGED unwinding \/ (unwinding' /\ pc' = Handler(pc))
<1>1. CASE Prepare
  BY <1>1, Zenon
  DEF Prepare, Unshare, CheckDeviceSize, MakeLabel, PartProbe, MakePartition, SetBootFlag, SetDiskId,
      KpartxList, KpartxUpdate, KpartxAdd, DeviceNode, Quiet, KeepTrying, Goto, Move, Raise, Throw
<1>2. CASE SetUp
  <2>1. CASE BootstrapperMounts \/ DirectoryBootstrap \/ RefuseBootloader \/ LoadMounts
    BY <2>1, Zenon
    DEF BootstrapperMounts, DirectoryBootstrap, RefuseBootloader, LoadMounts, Quiet, Goto, Move, Throw
  <2>2. CASE UnmountLeftovers
    BY <2>2, Zenon DEF UnmountLeftovers, KeepTrying, Goto, Move, Raise, Throw
  <2>3. QED
    BY <1>2, <2>1, <2>2, Zenon
    DEF SetUp, FormatPartitions, SetOrGatherUuid, MakeMountPoint, MountRoot, MakeEtc, HostnameFirst,
        ResolvConfFirst, SetHostname, SetResolvConf, Quiet, Write, Goto, Move, Raise, Throw
<1>3. CASE Configure
  BY <1>3, Zenon
  DEF Configure, HostnameAgain, ResolvConfAgain, CreateFstab, CreateMachineId, RunPreScripts,
      InstallHostLoader, MountNonDisk, SetHostname, SetResolvConf, Quiet, Write, Goto, Move
<1>4. CASE ProvisionSystem \/ ProvisionOpenstack
  BY <1>4, Zenon
  DEF ProvisionSystem, AutostartOff, SetRootPassword, PreparePackages, InstallKernel, InstallGrub,
      InstallChrootLoader, ProvisionOpenstack, InstallDhcpClient, InstallSudo, InstallCloudInit,
      ConfigureCloudInit, InstallSshd, ServicesAutostart, ConfigureConsole, InstallAcpid, Install,
      Put, Quiet, Write, Goto, Move
<1>5. CASE ProvisionBoot \/ ChrootScripts \/ Ship
  BY <1>5, Zenon
  DEF ProvisionBoot, CreateNetworkConfiguration, GenerateInitramfs, AdjustGrubDefaults,
      GenerateGrubCfg, FixGrubRootDevice, ChrootScripts, CopyChrootScripts, RunChrootScripts,
      RemoveChrootScripts, Ship, DeleteSshdKeys, CleanMachineId, ShippingCleanUp,
      HandOverResolvConf, AutostartOn, Put, Remove, Quiet, Write, Goto, Move, Raise, Throw
<1>6. CASE WayOut
  BY <1>6, Zenon
  DEF WayOut, UnmountNonDisk, PostCleanUp, RunPostScripts, UnmountRoot, RemoveMountPoint,
      RemovePartitionDevices, Remove, Quiet, Write, KeepTrying, Goto, Move, Raise, Throw
<1>7. CASE Fault \/ Finished
  BY <1>7, Zenon DEF Fault, Finished, Raise, Throw, vars, control
<1>8. QED
  BY <1>1, <1>2, <1>3, <1>4, <1>5, <1>6, <1>7 DEF Next, Call

(* The calls that may be next while an exception propagates.               *)
LEMMA UnwindingSteps ==
  ASSUME Next, pc \in FinallyClauses
  PROVE  \/ LoadMounts \/ UnmountLeftovers \/ RemoveChrootScripts \/ UnmountNonDisk
         \/ UnmountRoot \/ RemoveMountPoint \/ RemovePartitionDevices \/ Fault \/ Finished
<1>1. ~Prepare /\ ~Configure
  BY DEF FinallyClauses, Prepare, Unshare, CheckDeviceSize, MakeLabel, PartProbe, MakePartition,
         SetBootFlag, SetDiskId, KpartxList, KpartxUpdate, KpartxAdd, DeviceNode, Configure,
         HostnameAgain, ResolvConfAgain, CreateFstab, CreateMachineId, RunPreScripts,
         InstallHostLoader, MountNonDisk, SetHostname, SetResolvConf, Quiet, Write, KeepTrying
<1>2. ~ProvisionSystem /\ ~ProvisionOpenstack /\ ~ProvisionBoot /\ ~Ship
  BY DEF FinallyClauses, ProvisionSystem, AutostartOff, SetRootPassword, PreparePackages,
         InstallKernel, InstallGrub, InstallChrootLoader, ProvisionOpenstack, InstallDhcpClient,
         InstallSudo, InstallCloudInit, ConfigureCloudInit, InstallSshd, ServicesAutostart,
         ConfigureConsole, InstallAcpid, ProvisionBoot, CreateNetworkConfiguration,
         GenerateInitramfs, AdjustGrubDefaults, GenerateGrubCfg, FixGrubRootDevice, Ship,
         DeleteSshdKeys, CleanMachineId, ShippingCleanUp, HandOverResolvConf, AutostartOn,
         Install, Put, Remove, Quiet, Write
<1>3. SetUp => LoadMounts \/ UnmountLeftovers
  BY DEF FinallyClauses, SetUp, FormatPartitions, SetOrGatherUuid, MakeMountPoint, MountRoot,
         MakeEtc, HostnameFirst, ResolvConfFirst, SetHostname, SetResolvConf, BootstrapperMounts,
         DirectoryBootstrap, RefuseBootloader, Quiet, Write
<1>4. /\ ChrootScripts => RemoveChrootScripts
      /\ WayOut => UnmountNonDisk \/ UnmountRoot \/ RemoveMountPoint \/ RemovePartitionDevices
  BY DEF FinallyClauses, ChrootScripts, CopyChrootScripts, RunChrootScripts, WayOut, PostCleanUp,
         RunPostScripts, Remove, Quiet, Write
<1>5. QED
  BY <1>1, <1>2, <1>3, <1>4 DEF Next, Call

(* What a step may do while an exception propagates.                       *)
Releases == /\ mounts' \subseteq mounts
            /\ devices' => devices
            /\ dir' => dir
            /\ image'.files \subseteq image.files
            /\ UNCHANGED <<disk, uuid>>
            /\ unwinding'

(* Each clause takes down what it is for, and hands the exception on.      *)
LEMMA WayOutReleases ==
  ASSUME StateOK, unwinding, pc \in FinallyClauses, Next
  PROVE  pc' \in FinallyClauses /\ Releases
<1> USE DEF FinallyClauses
<1>1. \A l, next : Continuation(l, next) = Handler(l)
  BY DEF Continuation
<1>2. CASE LoadMounts
  BY <1>2, Zenon DEF LoadMounts, Quiet, Goto, Move, resources, contents, Releases
<1>3. CASE UnmountLeftovers
  <2>1. pc' \in FinallyClauses /\ unwinding'
    BY <1>1, <1>3, HandlerFinally, Zenon
    DEF UnmountLeftovers, KeepTrying, Goto, Move, Raise, Throw
  <2>2. mounts' \subseteq mounts /\ UNCHANGED <<devices, dir, disk, uuid, image>>
    BY <1>3, Zenon DEF UnmountLeftovers, KeepTrying, resources, contents
  <2>3. QED
    BY <2>1, <2>2, Zenon DEF Releases
<1>4. CASE RemoveChrootScripts
  <2>1. pc' \in FinallyClauses /\ unwinding' /\ UNCHANGED <<devices, dir, mounts, disk, uuid>>
    BY <1>1, <1>4, HandlerFinally, Zenon
    DEF RemoveChrootScripts, Remove, Write, Goto, Move, resources
  <2>2. image'.files \subseteq image.files
    BY <1>4 DEF RemoveChrootScripts, Remove, Write, StateOK, ContentsOK, ImageType
  <2>3. QED
    BY <2>1, <2>2, Zenon DEF Releases
<1>5. CASE UnmountNonDisk
  <2>1. pc' \in FinallyClauses /\ unwinding'
    BY <1>1, <1>5, HandlerFinally, Zenon
    DEF UnmountNonDisk, KeepTrying, Goto, Move, Raise, Throw
  <2>2. mounts' \subseteq mounts /\ UNCHANGED <<devices, dir, disk, uuid, image>>
    BY <1>5, Zenon DEF UnmountNonDisk, KeepTrying, resources, contents
  <2>3. QED
    BY <2>1, <2>2, Zenon DEF Releases
<1>6. CASE UnmountRoot
  <2>1. pc' \in FinallyClauses /\ unwinding'
    BY <1>6, HandlerFinally, Zenon DEF UnmountRoot, KeepTrying, Move, Raise, Throw
  <2>2. mounts' \subseteq mounts /\ UNCHANGED <<devices, dir, disk, uuid, image>>
    BY <1>6, Zenon DEF UnmountRoot, KeepTrying, resources, contents
  <2>3. QED
    BY <2>1, <2>2, Zenon DEF Releases
<1>7. CASE RemoveMountPoint
  <2>1. pc' \in FinallyClauses /\ unwinding'
    BY <1>7, HandlerFinally, Zenon DEF RemoveMountPoint, KeepTrying, Move, Raise, Throw
  <2>2. /\ (dir' = FALSE) \/ (dir' = dir)
        /\ UNCHANGED <<devices, mounts, disk, uuid, image>>
    BY <1>7, Zenon DEF RemoveMountPoint, KeepTrying, resources, contents
  <2>3. dir' => dir
    BY <2>2
  <2>4. QED
    BY <2>1, <2>2, <2>3, Zenon DEF Releases
<1>8. CASE RemovePartitionDevices
  <2>1. pc' \in FinallyClauses /\ unwinding'
    BY <1>8, HandlerFinally, Zenon DEF RemovePartitionDevices, KeepTrying, Move, Raise, Throw
  <2>2. /\ (devices' = FALSE) \/ (devices' = devices)
        /\ UNCHANGED <<dir, mounts, disk, uuid, image>>
    BY <1>8, Zenon DEF RemovePartitionDevices, KeepTrying, resources, contents
  <2>3. devices' => devices
    BY <2>2
  <2>4. QED
    BY <2>1, <2>2, <2>3, Zenon DEF Releases
<1>9. CASE Fault
  BY <1>9, HandlerFinally, Zenon DEF Fault, Raise, Throw, resources, contents, Releases
<1>10. CASE Finished
  BY <1>10, Zenon DEF Finished, vars, control, resources, contents, Releases
<1>11. QED
  BY <1>2, <1>3, <1>4, <1>5, <1>6, <1>7, <1>8, <1>9, <1>10, UnwindingSteps

LEMMA AlwaysOnTheWayOut == Spec => []OnTheWayOut
<1>1. Init => OnTheWayOut
  BY DEF Init, OnTheWayOut
<1>2. ASSUME StateOK, OnTheWayOut, [Next]_vars PROVE OnTheWayOut'
  <2>1. CASE UNCHANGED vars
    BY <1>2, <2>1, Zenon DEF vars, control, OnTheWayOut, FinallyClauses
  <2>2. CASE Next /\ unwinding
    BY <1>2, <2>2, WayOutReleases DEF OnTheWayOut, FinallyClauses
  <2>3. CASE Next /\ ~unwinding
    BY <2>3, OnlyThrowUnwinds, HandlerFinally DEF OnTheWayOut, FinallyClauses
  <2>4. QED
    BY <1>2, <2>1, <2>2, <2>3
<1>3. QED
  BY <1>1, <1>2, AlwaysStateOK, PTL DEF Spec

(* Once a command has failed or ^C has arrived, run() only takes down what *)
(* it had set up (the finally clauses of engine.py:998-1021): it mounts or *)
(* makes nothing more, leaves the boot sector as it is and ends with the   *)
(* exception, for all command lines and all further failures.              *)
THEOREM UnwindingReleases == Spec => UnwindingOnlyReleases
<1>1. ASSUME StateOK, OnTheWayOut, [Next]_vars, unwinding PROVE Releases \/ UNCHANGED vars
  BY <1>1, WayOutReleases DEF OnTheWayOut
<1>2. StateOK /\ OnTheWayOut /\ [Next]_vars =>
        [unwinding => /\ mounts' \subseteq mounts
                      /\ devices' => devices
                      /\ dir' => dir
                      /\ image'.files \subseteq image.files
                      /\ UNCHANGED <<disk, uuid>>
                      /\ unwinding']_vars
  BY <1>1, Zenon DEF Releases
<1>3. QED
  BY <1>2, AlwaysStateOK, AlwaysOnTheWayOut, PTL DEF Spec, UnwindingOnlyReleases

(***************************************************************************)
(* What a run that met no exception has achieved when it gets to a call.   *)
(***************************************************************************)
(* The place of each call in the order run() makes them.                   *)
Rank ==
  [unshare |-> 1, check_device_size |-> 2, mklabel |-> 3, partprobe |-> 4, mkpart |-> 5,
   boot_flag |-> 6, disk_id |-> 7, kpartx_list |-> 8, kpartx_update |-> 9, kpartx_add |-> 10,
   device_node |-> 11, format |-> 12, uuid |-> 13, mkdtemp |-> 14, mount_root |-> 15,
   mkdir_etc |-> 16, hostname |-> 17, resolv_conf |-> 18, directory_bootstrap |-> 19,
   load_mounts |-> 20, umount_leftover |-> 21, hostname_again |-> 22, resolv_conf_again |-> 23,
   fstab |-> 24, machine_id |-> 25, pre_scripts |-> 26, host_loader |-> 27, mount_nondisk |-> 28,
   autostart_off |-> 29, root_password |-> 30, prepare_packages |-> 31, kernel |-> 32,
   grub_package |-> 33, chroot_loader |-> 34, dhcp_client |-> 35, sudo |-> 36, cloud_init |-> 37,
   cloud_cfg |-> 38, sshd |-> 39, services |-> 40, tty1_pcspkr |-> 41, acpid |-> 42,
   network |-> 43, initramfs |-> 44, grub_defaults |-> 45, grub_cfg |-> 46, grub_root |-> 47,
   copy_scripts |-> 48, run_scripts |-> 49, remove_scripts |-> 50, delete_sshd_keys |-> 51,
   clean_machine_id |-> 52, shipping_clean_up |-> 53, resolved_link |-> 54, autostart_on |-> 55,
   umount_nondisk |-> 56, post_clean_up |-> 57, post_scripts |-> 58, umount_root |-> 59,
   rmdir |-> 60, remove_devices |-> 61, exit |-> 62]

Reached(l)    == Rank[l] <= Rank[pc]
Between(l, m) == Rank[l] <= Rank[pc] /\ Rank[pc] <= Rank[m]

(* The partition table, boot code and UUID.                                *)
DiskProgress ==
  /\ ~Reached("mkdtemp")    => uuid = IF cfg.uuidGiven THEN "given" ELSE "none"
  /\ pc = "uuid"            => disk.uuid = "mkfs"
  /\ Reached("mkdtemp")     => disk.uuid = uuid /\ uuid = IF cfg.uuidGiven THEN "given" ELSE "mkfs"
  /\ Reached("boot_flag")   => disk.partition
  /\ Reached("disk_id")     => \/ disk.boot = "on" \/ cfg.diskId = "spills"
                               \/ <<"boot_flag", "refused">> \in faults
  /\ Reached("mount_nondisk") => /\ cfg.bootloader \in HostGrub => disk.loader = "grub"
                                 /\ cfg.bootloader = "host-extlinux" => disk.loader = "extlinux"
  /\ Reached("dhcp_client") => (cfg.bootloader \in ChrootGrub => disk.loader = "grub")

(* The configuration run() writes itself.                                  *)
ConfigProgress ==
  /\ pc = "directory_bootstrap" \/ Between("fstab", "resolved_link") => image.resolv = "filtered"
  /\ Reached("autostart_on") =>
       image.resolv = IF cfg.openstack /\ cfg.distro = "arch" THEN "resolved" ELSE "filtered"
  /\ Reached("resolv_conf_again") => image.hostname = "config"
  /\ Reached("machine_id")  => image.fstab = uuid
  /\ Reached("pre_scripts") => (cfg.machineId => image.machineId = "given")
  /\ Reached("shipping_clean_up") =>
       (cfg.openstack /\ ~cfg.machineId => image.machineId = "empty")
  /\ Reached("mount_nondisk") => (cfg.bootloader = "host-extlinux" => image.root = uuid)
  /\ Reached("copy_scripts") => (cfg.bootloader \in AnyGrub => image.root = uuid)

(* What has been installed and what has been removed.                      *)
InstallProgress ==
  /\ DebianBased /\ Reached("load_mounts") =>
       /\ {"kernel", "initramfs", "dhcp client"} \subseteq image.files
       /\ cfg.bootloader \in AnyGrub => "grub" \in image.files
  /\ cfg.distro = "arch" /\ Reached("load_mounts")       => "dhcp client" \in image.files
  /\ cfg.distro = "gentoo" /\ Reached("kernel")          => "portage config" \in image.files
  /\ Reached("grub_package")                             => "kernel" \in image.files
  /\ cfg.bootloader \in AnyGrub /\ Reached("chroot_loader") => "grub" \in image.files
  /\ cfg.openstack /\ Reached("sudo")                    => "dhcp client" \in image.files
  /\ cfg.openstack /\ Reached("cloud_cfg")               => "cloud-init" \in image.files
  /\ cfg.openstack /\ Reached("services")                => "sshd" \in image.files
  /\ Reached("grub_defaults")                            => "initramfs" \in image.files
  /\ cfg.bootloader \in AnyGrub /\ Reached("grub_root")  => "grub.cfg" \in image.files

RemovalProgress ==
  /\ DebianBased /\ Between("root_password", "autostart_on") => "policy-rc.d" \in image.files
  /\ ~DebianBased \/ Reached("umount_nondisk")           => "policy-rc.d" \notin image.files
  /\ cfg.distro = "arch" /\ Between("load_mounts", "shipping_clean_up") =>
       "pacman keys" \in image.files
  /\ cfg.distro # "arch" \/ (cfg.openstack /\ Reached("resolved_link")) =>
       "pacman keys" \notin image.files
  /\ cfg.openstack /\ Reached("clean_machine_id")        => "ssh host keys" \notin image.files
  /\ Reached("post_scripts")                             => "package cache" \notin image.files

(* What is mounted while the bootstrapper and the chroot need it.          *)
MountProgress ==
  /\ Between("mkdir_etc", "directory_bootstrap") => "root" \in mounts
  /\ pc = "mount_nondisk" => \A i \in 1..5 : i < k => NonDisk[i] \in mounts
  /\ Between("autostart_off", "autostart_on") => NonDiskSet \subseteq mounts

Progress == ~unwinding => /\ DiskProgress /\ ConfigProgress /\ InstallProgress
                          /\ RemovalProgress /\ MountProgress

LEMMA Ranks ==
  /\ Rank["unshare"] = 1 /\ Rank["check_device_size"] = 2 /\ Rank["mklabel"] = 3
  /\ Rank["partprobe"] = 4 /\ Rank["mkpart"] = 5 /\ Rank["boot_flag"] = 6 /\ Rank["disk_id"] = 7
  /\ Rank["kpartx_list"] = 8 /\ Rank["kpartx_update"] = 9 /\ Rank["kpartx_add"] = 10
  /\ Rank["device_node"] = 11 /\ Rank["format"] = 12 /\ Rank["uuid"] = 13
  /\ Rank["mkdtemp"] = 14 /\ Rank["mount_root"] = 15 /\ Rank["mkdir_etc"] = 16
  /\ Rank["hostname"] = 17 /\ Rank["resolv_conf"] = 18 /\ Rank["directory_bootstrap"] = 19
  /\ Rank["load_mounts"] = 20 /\ Rank["umount_leftover"] = 21 /\ Rank["hostname_again"] = 22
  /\ Rank["resolv_conf_again"] = 23 /\ Rank["fstab"] = 24 /\ Rank["machine_id"] = 25
  /\ Rank["pre_scripts"] = 26 /\ Rank["host_loader"] = 27 /\ Rank["mount_nondisk"] = 28
  /\ Rank["autostart_off"] = 29 /\ Rank["root_password"] = 30 /\ Rank["prepare_packages"] = 31
  /\ Rank["kernel"] = 32 /\ Rank["grub_package"] = 33 /\ Rank["chroot_loader"] = 34
  /\ Rank["dhcp_client"] = 35 /\ Rank["sudo"] = 36 /\ Rank["cloud_init"] = 37
  /\ Rank["cloud_cfg"] = 38 /\ Rank["sshd"] = 39 /\ Rank["services"] = 40
  /\ Rank["tty1_pcspkr"] = 41 /\ Rank["acpid"] = 42 /\ Rank["network"] = 43
  /\ Rank["initramfs"] = 44 /\ Rank["grub_defaults"] = 45 /\ Rank["grub_cfg"] = 46
  /\ Rank["grub_root"] = 47 /\ Rank["copy_scripts"] = 48 /\ Rank["run_scripts"] = 49
  /\ Rank["remove_scripts"] = 50 /\ Rank["delete_sshd_keys"] = 51
  /\ Rank["clean_machine_id"] = 52 /\ Rank["shipping_clean_up"] = 53
  /\ Rank["resolved_link"] = 54 /\ Rank["autostart_on"] = 55 /\ Rank["umount_nondisk"] = 56
  /\ Rank["post_clean_up"] = 57 /\ Rank["post_scripts"] = 58 /\ Rank["umount_root"] = 59
  /\ Rank["rmdir"] = 60 /\ Rank["remove_devices"] = 61 /\ Rank["exit"] = 62
BY DEF Rank

(* From each call to the next one.                                         *)
LEMMA PrepareRanks ==
  /\ Rank["check_device_size"] = Rank["unshare"] + 1
  /\ Rank["mklabel"] = Rank["check_device_size"] + 1 /\ Rank["partprobe"] = Rank["mklabel"] + 1
  /\ Rank["mkpart"] = Rank["partprobe"] + 1 /\ Rank["boot_flag"] = Rank["mkpart"] + 1
  /\ Rank["disk_id"] = Rank["boot_flag"] + 1 /\ Rank["kpartx_list"] = Rank["disk_id"] + 1
  /\ Rank["kpartx_update"] = Rank["kpartx_list"] + 1
  /\ Rank["kpartx_add"] = Rank["kpartx_update"] + 1
  /\ Rank["device_node"] = Rank["kpartx_add"] + 1 /\ Rank["format"] = Rank["device_node"] + 1
BY Ranks, SMT

LEMMA SetUpRanks ==
  /\ Rank["uuid"] = Rank["format"] + 1 /\ Rank["mkdtemp"] = Rank["uuid"] + 1
  /\ Rank["mount_root"] = Rank["mkdtemp"] + 1 /\ Rank["mkdir_etc"] = Rank["mount_root"] + 1
  /\ Rank["hostname"] = Rank["mkdir_etc"] + 1 /\ Rank["resolv_conf"] = Rank["hostname"] + 1
  /\ Rank["directory_bootstrap"] = Rank["resolv_conf"] + 1
  /\ Rank["load_mounts"] = Rank["directory_bootstrap"] + 1
  /\ Rank["umount_leftover"] = Rank["load_mounts"] + 1
  /\ Rank["hostname_again"] = Rank["umount_leftover"] + 1
BY Ranks, SMT

LEMMA ConfigureRanks ==
  /\ Rank["resolv_conf_again"] = Rank["hostname_again"] + 1
  /\ Rank["fstab"] = Rank["resolv_conf_again"] + 1 /\ Rank["machine_id"] = Rank["fstab"] + 1
  /\ Rank["pre_scripts"] = Rank["machine_id"] + 1
  /\ Rank["host_loader"] = Rank["pre_scripts"] + 1
  /\ Rank["mount_nondisk"] = Rank["host_loader"] + 1
  /\ Rank["autostart_off"] = Rank["mount_nondisk"] + 1
BY Ranks, SMT

LEMMA ProvisionSystemRanks ==
  /\ Rank["root_password"] = Rank["autostart_off"] + 1
  /\ Rank["prepare_packages"] = Rank["root_password"] + 1
  /\ Rank["kernel"] = Rank["prepare_packages"] + 1 /\ Rank["grub_package"] = Rank["kernel"] + 1
  /\ Rank["chroot_loader"] = Rank["grub_package"] + 1
  /\ Rank["dhcp_client"] = Rank["chroot_loader"] + 1
BY Ranks, SMT

LEMMA ProvisionOpenstackRanks ==
  /\ Rank["sudo"] = Rank["dhcp_client"] + 1 /\ Rank["cloud_init"] = Rank["sudo"] + 1
  /\ Rank["cloud_cfg"] = Rank["cloud_init"] + 1 /\ Rank["sshd"] = Rank["cloud_cfg"] + 1
  /\ Rank["services"] = Rank["sshd"] + 1 /\ Rank["tty1_pcspkr"] = Rank["services"] + 1
  /\ Rank["acpid"] = Rank["tty1_pcspkr"] + 1 /\ Rank["network"] = Rank["acpid"] + 1
BY Ranks, SMT

LEMMA ProvisionBootRanks ==
  /\ Rank["initramfs"] = Rank["network"] + 1 /\ Rank["grub_defaults"] = Rank["initramfs"] + 1
  /\ Rank["grub_cfg"] = Rank["grub_defaults"] + 1 /\ Rank["grub_root"] = Rank["grub_cfg"] + 1
  /\ Rank["copy_scripts"] = Rank["grub_root"] + 1
BY Ranks, SMT

LEMMA ShipRanks ==
  /\ Rank["run_scripts"] = Rank["copy_scripts"] + 1
  /\ Rank["remove_scripts"] = Rank["run_scripts"] + 1
  /\ Rank["delete_sshd_keys"] = Rank["remove_scripts"] + 1
  /\ Rank["clean_machine_id"] = Rank["delete_sshd_keys"] + 1
  /\ Rank["shipping_clean_up"] = Rank["clean_machine_id"] + 1
  /\ Rank["resolved_link"] = Rank["shipping_clean_up"] + 1
  /\ Rank["autostart_on"] = Rank["resolved_link"] + 1
  /\ Rank["umount_nondisk"] = Rank["autostart_on"] + 1
BY Ranks, SMT

LEMMA WayOutRanks ==
  /\ Rank["post_clean_up"] = Rank["umount_nondisk"] + 1
  /\ Rank["post_scripts"] = Rank["post_clean_up"] + 1
  /\ Rank["umount_root"] = Rank["post_scripts"] + 1 /\ Rank["rmdir"] = Rank["umount_root"] + 1
  /\ Rank["remove_devices"] = Rank["rmdir"] + 1 /\ Rank["exit"] = Rank["remove_devices"] + 1
BY Ranks, SMT

LEMMA LabelNames ==
  {"mkpart", "boot_flag", "disk_id", "uuid", "mkdtemp", "host_loader", "mount_nondisk",
   "chroot_loader", "dhcp_client", "format"} \subseteq Labels
BY LabelFacts DEF Preparation, InDevices, InRoot, AfterBoot, InChroot

(* How far a step that meets no exception gets.                            *)
Loops == {"partprobe", "boot_flag", "directory_bootstrap", "umount_leftover", "mount_nondisk",
          "umount_nondisk", "umount_root", "rmdir", "remove_devices", "exit"}

Onward == \/ pc' = pc /\ pc \in Loops
          \/ Rank[pc'] = Rank[pc] + 1
          \/ pc = "kpartx_update" /\ pc' = "device_node"
          \/ pc = "copy_scripts" /\ pc' = "delete_sshd_keys"

LEMMA QuietGoes == \A l, next : Quiet(l, next) => pc = l /\ pc' = next
BY DEF Quiet, Goto, Move

LEMMA WriteGoes == \A l, next, new : Write(l, next, new) => pc = l /\ pc' = next
BY DEF Write, Goto, Move

LEMMA PrepareOnward == ASSUME Prepare, ~unwinding' PROVE Onward
<1>1. CASE Unshare \/ CheckDeviceSize \/ KpartxList \/ DeviceNode
  BY <1>1, PrepareRanks, QuietGoes, Zenon DEF Unshare, CheckDeviceSize, KpartxList, DeviceNode, Onward, Loops
<1>2. CASE PartProbe \/ SetBootFlag
  BY <1>2, PrepareRanks, Zenon DEF PartProbe, SetBootFlag, KeepTrying, Raise, Throw, Move, Onward, Loops
<1>3. QED
  BY <1>1, <1>2, PrepareRanks, Zenon
  DEF Prepare, MakeLabel, MakePartition, SetDiskId, KpartxUpdate, KpartxAdd, Goto, Move, Onward, Loops

LEMMA SetUpOnward == ASSUME SetUp, ~unwinding, ~unwinding' PROVE Onward
<1>1. CASE MakeEtc \/ LoadMounts
  BY <1>1, SetUpRanks, QuietGoes, Zenon DEF MakeEtc, LoadMounts, Onward, Loops
<1>2. CASE HostnameFirst \/ ResolvConfFirst
  BY <1>2, SetUpRanks, WriteGoes, Zenon DEF HostnameFirst, ResolvConfFirst, SetHostname, SetResolvConf, Onward, Loops
<1>3. CASE UnmountLeftovers
  BY <1>3, SetUpRanks, Zenon
  DEF UnmountLeftovers, KeepTrying, Continuation, Goto, Raise, Throw, Move, Onward, Loops
<1>4. CASE BootstrapperMounts \/ DirectoryBootstrap \/ RefuseBootloader
  BY <1>4, SetUpRanks, Zenon
  DEF BootstrapperMounts, DirectoryBootstrap, RefuseBootloader, Goto, Throw, Move, Onward, Loops
<1>5. CASE MakeMountPoint \/ MountRoot \/ FormatPartitions \/ SetOrGatherUuid
  BY <1>5, SetUpRanks, Zenon
  DEF MakeMountPoint, MountRoot, FormatPartitions, SetOrGatherUuid, Goto, Raise, Throw, Move, Onward, Loops
<1>6. QED
  BY <1>1, <1>2, <1>3, <1>4, <1>5 DEF SetUp

LEMMA ConfigureOnward == ASSUME Configure PROVE Onward
<1>1. CASE RunPreScripts
  BY <1>1, ConfigureRanks, QuietGoes, Zenon DEF RunPreScripts, Onward, Loops
<1>2. CASE HostnameAgain \/ ResolvConfAgain \/ CreateFstab \/ CreateMachineId
  BY <1>2, ConfigureRanks, WriteGoes, Zenon
  DEF HostnameAgain, ResolvConfAgain, CreateFstab, CreateMachineId, SetHostname, SetResolvConf, Onward, Loops
<1>3. CASE InstallHostLoader \/ MountNonDisk
  BY <1>3, ConfigureRanks, Zenon DEF InstallHostLoader, MountNonDisk, Goto, Move, Onward, Loops
<1>4. QED
  BY <1>1, <1>2, <1>3 DEF Configure

LEMMA ProvisionSystemOnward == ASSUME ProvisionSystem PROVE Onward
BY ProvisionSystemRanks, QuietGoes, WriteGoes, Zenon
DEF ProvisionSystem, AutostartOff, SetRootPassword, PreparePackages, InstallKernel, InstallGrub,
    InstallChrootLoader, Install, Put, Goto, Move, Onward, Loops

LEMMA ProvisionOpenstackOnward == ASSUME ProvisionOpenstack PROVE Onward
BY ProvisionOpenstackRanks, QuietGoes, WriteGoes, Zenon
DEF ProvisionOpenstack, InstallDhcpClient, InstallSudo, InstallCloudInit, ConfigureCloudInit,
    InstallSshd, ServicesAutostart, ConfigureConsole, InstallAcpid, Install, Put, Onward, Loops

LEMMA ProvisionBootOnward == ASSUME ProvisionBoot PROVE Onward
BY ProvisionBootRanks, QuietGoes, WriteGoes, Zenon
DEF ProvisionBoot, CreateNetworkConfiguration, GenerateInitramfs, AdjustGrubDefaults,
    GenerateGrubCfg, FixGrubRootDevice, Put, Onward, Loops

LEMMA ShipOnward == ASSUME ChrootScripts \/ Ship, ~unwinding, ~unwinding' PROVE Onward
<1>1. CASE CopyChrootScripts
  BY <1>1, ShipRanks, Zenon DEF CopyChrootScripts, Raise, Throw, Goto, Move, Onward, Loops
<1>2. CASE RunChrootScripts
  BY <1>2, ShipRanks, WriteGoes, Zenon DEF RunChrootScripts, Onward, Loops
<1>3. CASE RemoveChrootScripts
  BY <1>3, ShipRanks, WriteGoes, Zenon DEF RemoveChrootScripts, Remove, Continuation, Onward, Loops
<1>4. CASE Ship
  BY <1>4, ShipRanks, WriteGoes, Zenon
  DEF Ship, DeleteSshdKeys, CleanMachineId, ShippingCleanUp, HandOverResolvConf, AutostartOn, Remove, Onward, Loops
<1>5. QED
  BY <1>1, <1>2, <1>3, <1>4 DEF ChrootScripts

LEMMA WayOutOnward == ASSUME WayOut, ~unwinding, ~unwinding' PROVE Onward
<1>1. CASE UnmountNonDisk
  BY <1>1, WayOutRanks, Zenon DEF UnmountNonDisk, KeepTrying, Continuation, Goto, Raise, Throw, Move, Onward, Loops
<1>2. CASE PostCleanUp \/ RunPostScripts
  BY <1>2, WayOutRanks, WriteGoes, QuietGoes, Zenon DEF PostCleanUp, RunPostScripts, Remove, Onward, Loops
<1>3. CASE UnmountRoot \/ RemoveMountPoint \/ RemovePartitionDevices
  BY <1>3, WayOutRanks, Zenon
  DEF UnmountRoot, RemoveMountPoint, RemovePartitionDevices, KeepTrying, Raise, Throw, Move, Onward, Loops
<1>4. QED
  BY <1>1, <1>2, <1>3 DEF WayOut

LEMMA NextOnward == ASSUME Next, ~unwinding, ~unwinding' PROVE Onward
<1>1. CASE Fault \/ Finished
  BY <1>1 DEF Fault, Finished, Raise, Throw, vars, control, Onward, Loops
<1>2. QED
  BY <1>1, PrepareOnward, SetUpOnward, ConfigureOnward, ProvisionSystemOnward,
     ProvisionOpenstackOnward, ProvisionBootOnward, ShipOnward, WayOutOnward
  DEF Next, Call

LEMMA RankInjective == \A l, m \in Labels : Rank[l] = Rank[m] => l = m
BY Ranks, SMTT(60)
DEF Labels, Calls, Preparation, InDevices, InDir, InRoot, BeforeBoot, AfterBoot, AfterChroot, InChroot

(* The command line never changes, and a fault is never forgotten.         *)
LEMMA NextKeeps == ASSUME Next PROVE cfg' = cfg /\ faults \subseteq faults'
<1>1. \A l, when : Note(l, when) => faults \subseteq faults'
  BY DEF Note
<1>2. CASE Prepare
  BY <1>1, <1>2, Zenon
  DEF Prepare, Unshare, CheckDeviceSize, MakeLabel, PartProbe, MakePartition, SetBootFlag, SetDiskId,
      KpartxList, KpartxUpdate, KpartxAdd, DeviceNode, Quiet, KeepTrying, Goto, Raise
<1>3. CASE SetUp
  BY <1>1, <1>3, Zenon
  DEF SetUp, FormatPartitions, SetOrGatherUuid, MakeMountPoint, MountRoot, MakeEtc, HostnameFirst,
      ResolvConfFirst, SetHostname, SetResolvConf, BootstrapperMounts, DirectoryBootstrap,
      RefuseBootloader, LoadMounts, UnmountLeftovers, Quiet, Write, KeepTrying, Goto, Raise
<1>4. CASE Configure
  BY <1>4, Zenon
  DEF Configure, HostnameAgain, ResolvConfAgain, CreateFstab, CreateMachineId, RunPreScripts,
      InstallHostLoader, MountNonDisk, SetHostname, SetResolvConf, Quiet, Write, Goto
<1>5. CASE ProvisionSystem \/ ProvisionOpenstack
  BY <1>5, Zenon
  DEF ProvisionSystem, AutostartOff, SetRootPassword, PreparePackages, InstallKernel, InstallGrub,
      InstallChrootLoader, ProvisionOpenstack, InstallDhcpClient, InstallSudo, InstallCloudInit,
      ConfigureCloudInit, InstallSshd, ServicesAutostart, ConfigureConsole, InstallAcpid, Install,
      Put, Quiet, Write, Goto
<1>6. CASE ProvisionBoot \/ ChrootScripts \/ Ship
  BY <1>1, <1>6, Zenon
  DEF ProvisionBoot, CreateNetworkConfiguration, GenerateInitramfs, AdjustGrubDefaults,
      GenerateGrubCfg, FixGrubRootDevice, ChrootScripts, CopyChrootScripts, RunChrootScripts,
      RemoveChrootScripts, Ship, DeleteSshdKeys, CleanMachineId, ShippingCleanUp,
      HandOverResolvConf, AutostartOn, Put, Remove, Quiet, Write, Goto, Raise
<1>7. CASE WayOut
  BY <1>1, <1>7, Zenon
  DEF WayOut, UnmountNonDisk, PostCleanUp, RunPostScripts, UnmountRoot, RemoveMountPoint,
      RemovePartitionDevices, Remove, Quiet, Write, KeepTrying, Goto, Raise
<1>8. CASE Fault \/ Finished
  BY <1>1, <1>8, Zenon DEF Fault, Finished, Raise, vars, control
<1>9. QED
  BY <1>2, <1>3, <1>4, <1>5, <1>6, <1>7, <1>8 DEF Next, Call

(* The calls that write the disk or learn its UUID.                        *)
DiskWriters == {"mklabel", "mkpart", "boot_flag", "disk_id", "format", "uuid", "host_loader",
                "chroot_loader"}

LEMMA DiskKept == ASSUME Next, pc \notin DiskWriters PROVE UNCHANGED <<disk, uuid>>
<1> USE DEF DiskWriters
<1>2. CASE Prepare
  BY <1>2, Zenon
  DEF Prepare, Unshare, CheckDeviceSize, MakeLabel, PartProbe, MakePartition, SetBootFlag, SetDiskId,
      KpartxList, KpartxUpdate, KpartxAdd, DeviceNode, Quiet, KeepTrying, contents
<1>3. CASE SetUp
  BY <1>3, Zenon
  DEF SetUp, FormatPartitions, SetOrGatherUuid, MakeMountPoint, MountRoot, MakeEtc, HostnameFirst,
      ResolvConfFirst, SetHostname, SetResolvConf, BootstrapperMounts, DirectoryBootstrap,
      RefuseBootloader, LoadMounts, UnmountLeftovers, Quiet, Write, KeepTrying, contents
<1>4. CASE Configure
  BY <1>4, Zenon
  DEF Configure, HostnameAgain, ResolvConfAgain, CreateFstab, CreateMachineId, RunPreScripts,
      InstallHostLoader, MountNonDisk, SetHostname, SetResolvConf, Quiet, Write, contents
<1>5. CASE ProvisionSystem \/ ProvisionOpenstack
  BY <1>5, Zenon
  DEF ProvisionSystem, AutostartOff, SetRootPassword, PreparePackages, InstallKernel, InstallGrub,
      InstallChrootLoader, ProvisionOpenstack, InstallDhcpClient, InstallSudo, InstallCloudInit,
      ConfigureCloudInit, InstallSshd, ServicesAutostart, ConfigureConsole, InstallAcpid, Install,
      Put, Quiet, Write, contents
<1>6. CASE ProvisionBoot \/ ChrootScripts \/ Ship
  BY <1>6, Zenon
  DEF ProvisionBoot, CreateNetworkConfiguration, GenerateInitramfs, AdjustGrubDefaults,
      GenerateGrubCfg, FixGrubRootDevice, ChrootScripts, CopyChrootScripts, RunChrootScripts,
      RemoveChrootScripts, Ship, DeleteSshdKeys, CleanMachineId, ShippingCleanUp,
      HandOverResolvConf, AutostartOn, Put, Remove, Quiet, Write, contents
<1>7. CASE WayOut
  BY <1>7, Zenon
  DEF WayOut, UnmountNonDisk, PostCleanUp, RunPostScripts, UnmountRoot, RemoveMountPoint,
      RemovePartitionDevices, Remove, Quiet, Write, KeepTrying, contents
<1>8. CASE Fault \/ Finished
  BY <1>8, Zenon DEF Fault, Finished, vars, contents
<1>9. QED
  BY <1>2, <1>3, <1>4, <1>5, <1>6, <1>7, <1>8 DEF Next, Call

LEMMA RankType == \A l \in Labels : Rank[l] \in Nat
BY Ranks, SMT
DEF Labels, Calls, Preparation, InDevices, InDir, InRoot, BeforeBoot, AfterBoot, AfterChroot, InChroot

(* A step never goes back, and comes to a call from the one before it.     *)
LEMMA OnwardRanks ==
  ASSUME StateOK, StateOK', Onward
  PROVE  /\ pc \in Labels /\ pc' \in Labels /\ Rank[pc] \in Nat /\ Rank[pc'] \in Nat
         /\ Rank[pc] <= Rank[pc']
         /\ pc' = pc \/ Rank[pc'] = Rank[pc] + 1 \/ pc' \in {"device_node", "delete_sshd_keys"}
<1>1. pc \in Labels /\ pc' \in Labels /\ Rank[pc] \in Nat /\ Rank[pc'] \in Nat
  BY RankType DEF StateOK, ControlOK
<1>2. QED
  BY <1>1, Ranks, SMT DEF Onward

LEMMA Entering ==
  ASSUME StateOK, StateOK', Onward, NEW l \in Labels, Rank[pc'] = Rank[l] + 1,
         pc' \notin {"device_node", "delete_sshd_keys"}
  PROVE  pc = pc' \/ pc = l
<1>1. Rank[l] \in Nat
  BY RankType
<1>2. pc' = pc \/ Rank[pc] = Rank[l]
  BY <1>1, OnwardRanks
<1>3. QED
  BY <1>2, OnwardRanks, RankInjective

LEMMA Crossing ==
  ASSUME StateOK, StateOK', Onward, NEW l \in Labels, NEW m \in Labels, Rank[m] = Rank[l] + 1,
         Rank["kpartx_update"] >= Rank[m] \/ Rank[l] >= Rank["device_node"],
         Rank["copy_scripts"] >= Rank[m] \/ Rank[l] >= Rank["delete_sshd_keys"],
         Reached(m)', pc # l
  PROVE  Reached(m)
<1>1. Rank[l] \in Nat /\ Rank[m] \in Nat /\ Rank[pc] # Rank[l]
  BY OnwardRanks, RankType, RankInjective
<1>2. QED
  BY <1>1, OnwardRanks DEF Onward, Reached

(* The call each action stands for.                                        *)
LEMMA PrepareCalls ==
  /\ (Unshare => pc = "unshare") /\ (CheckDeviceSize => pc = "check_device_size")
  /\ (MakeLabel => pc = "mklabel") /\ (PartProbe => pc = "partprobe")
  /\ (MakePartition => pc = "mkpart") /\ (SetBootFlag => pc = "boot_flag")
  /\ (SetDiskId => pc = "disk_id") /\ (KpartxList => pc = "kpartx_list")
  /\ (KpartxUpdate => pc = "kpartx_update") /\ (KpartxAdd => pc = "kpartx_add")
  /\ (DeviceNode => pc = "device_node")
BY Zenon
DEF Unshare, CheckDeviceSize, MakeLabel, PartProbe, MakePartition, SetBootFlag, SetDiskId,
    KpartxList, KpartxUpdate, KpartxAdd, DeviceNode, Quiet, KeepTrying

LEMMA SetUpCalls ==
  /\ (FormatPartitions => pc = "format") /\ (SetOrGatherUuid => pc = "uuid")
  /\ (MakeMountPoint => pc = "mkdtemp") /\ (MountRoot => pc = "mount_root")
  /\ (MakeEtc => pc = "mkdir_etc") /\ (HostnameFirst => pc = "hostname")
  /\ (ResolvConfFirst => pc = "resolv_conf") /\ (BootstrapperMounts => pc = "directory_bootstrap")
  /\ (DirectoryBootstrap => pc = "directory_bootstrap")
  /\ (RefuseBootloader => pc = "directory_bootstrap") /\ (LoadMounts => pc = "load_mounts")
  /\ (UnmountLeftovers => pc = "umount_leftover")
BY Zenon
DEF FormatPartitions, SetOrGatherUuid, MakeMountPoint, MountRoot, MakeEtc, HostnameFirst,
    ResolvConfFirst, BootstrapperMounts, DirectoryBootstrap, RefuseBootloader, LoadMounts,
    UnmountLeftovers, SetHostname, SetResolvConf, Quiet, Write, KeepTrying

LEMMA ConfigureCalls ==
  /\ (HostnameAgain => pc = "hostname_again") /\ (ResolvConfAgain => pc = "resolv_conf_again")
  /\ (CreateFstab => pc = "fstab") /\ (CreateMachineId => pc = "machine_id")
  /\ (RunPreScripts => pc = "pre_scripts") /\ (InstallHostLoader => pc = "host_loader")
  /\ (MountNonDisk => pc = "mount_nondisk")
BY Zenon
DEF HostnameAgain, ResolvConfAgain, CreateFstab, CreateMachineId, RunPreScripts,
    InstallHostLoader, MountNonDisk, SetHostname, SetResolvConf, Quiet, Write

LEMMA ProvisionSystemCalls ==
  /\ (AutostartOff => pc = "autostart_off") /\ (SetRootPassword => pc = "root_password")
  /\ (PreparePackages => pc = "prepare_packages") /\ (InstallKernel => pc = "kernel")
  /\ (InstallGrub => pc = "grub_package") /\ (InstallChrootLoader => pc = "chroot_loader")
BY Zenon
DEF AutostartOff, SetRootPassword, PreparePackages, InstallKernel, InstallGrub,
    InstallChrootLoader, Install, Put, Quiet, Write

LEMMA ProvisionOpenstackCalls ==
  /\ (InstallDhcpClient => pc = "dhcp_client") /\ (InstallSudo => pc = "sudo")
  /\ (InstallCloudInit => pc = "cloud_init") /\ (ConfigureCloudInit => pc = "cloud_cfg")
  /\ (InstallSshd => pc = "sshd") /\ (ServicesAutostart => pc = "services")
  /\ (ConfigureConsole => pc = "tty1_pcspkr") /\ (InstallAcpid => pc = "acpid")
BY Zenon
DEF InstallDhcpClient, InstallSudo, InstallCloudInit, ConfigureCloudInit, InstallSshd,
    ServicesAutostart, ConfigureConsole, InstallAcpid, Install, Put, Quiet, Write

LEMMA ProvisionBootCalls ==
  /\ (CreateNetworkConfiguration => pc = "network") /\ (GenerateInitramfs => pc = "initramfs")
  /\ (AdjustGrubDefaults => pc = "grub_defaults") /\ (GenerateGrubCfg => pc = "grub_cfg")
  /\ (FixGrubRootDevice => pc = "grub_root")
BY Zenon
DEF CreateNetworkConfiguration, GenerateInitramfs, AdjustGrubDefaults, GenerateGrubCfg,
    FixGrubRootDevice, Put, Quiet, Write

LEMMA ChrootScriptsCalls ==
  /\ (CopyChrootScripts => pc = "copy_scripts") /\ (RunChrootScripts => pc = "run_scripts")
  /\ (RemoveChrootScripts => pc = "remove_scripts")
BY Zenon
DEF CopyChrootScripts, RunChrootScripts, RemoveChrootScripts, Remove, Write

LEMMA ShipCalls ==
  /\ (DeleteSshdKeys => pc = "delete_sshd_keys") /\ (CleanMachineId => pc = "clean_machine_id")
  /\ (ShippingCleanUp => pc = "shipping_clean_up") /\ (HandOverResolvConf => pc = "resolved_link")
  /\ (AutostartOn => pc = "autostart_on")
BY Zenon
DEF DeleteSshdKeys, CleanMachineId, ShippingCleanUp, HandOverResolvConf, AutostartOn, Remove,
    Write

LEMMA WayOutCalls ==
  /\ (UnmountNonDisk => pc = "umount_nondisk") /\ (PostCleanUp => pc = "post_clean_up")
  /\ (RunPostScripts => pc = "post_scripts") /\ (UnmountRoot => pc = "umount_root")
  /\ (RemoveMountPoint => pc = "rmdir") /\ (RemovePartitionDevices => pc = "remove_devices")
BY Zenon
DEF UnmountNonDisk, PostCleanUp, RunPostScripts, UnmountRoot, RemoveMountPoint,
    RemovePartitionDevices, Remove, Quiet, Write, KeepTrying

(* The calls of each group of actions: the call tells the action, if no    *)
(* exception is raised.                                                    *)
SetUpAt == {"format", "uuid", "mkdtemp", "mount_root", "mkdir_etc", "hostname",
            "resolv_conf", "directory_bootstrap", "load_mounts", "umount_leftover"}
ConfigureAt == AfterBoot \cup {"mount_nondisk"}
SystemAt == {"autostart_off", "root_password", "prepare_packages", "kernel",
             "grub_package", "chroot_loader"}
OpenstackAt == {"dhcp_client", "sudo", "cloud_init", "cloud_cfg", "sshd", "services",
                "tty1_pcspkr", "acpid"}
BootAt == {"network", "initramfs", "grub_defaults", "grub_cfg", "grub_root"}
ScriptsAt == {"copy_scripts", "run_scripts", "remove_scripts"}
ShipAt == {"delete_sshd_keys", "clean_machine_id", "shipping_clean_up", "resolved_link",
           "autostart_on"}
WayOutAt == {"umount_nondisk", "post_clean_up", "post_scripts", "umount_root", "rmdir",
             "remove_devices"}

LEMMA GroupCalls ==
  /\ Prepare => pc \in Preparation
  /\ SetUp => pc \in SetUpAt
  /\ Configure => pc \in ConfigureAt
  /\ ProvisionSystem => pc \in SystemAt
  /\ ProvisionOpenstack => pc \in OpenstackAt
  /\ ProvisionBoot => pc \in BootAt
  /\ ChrootScripts => pc \in ScriptsAt
  /\ Ship => pc \in ShipAt
  /\ WayOut => pc \in WayOutAt
<1>1. Prepare => pc \in Preparation
  BY PrepareCalls DEF Prepare, Preparation
<1>2. SetUp => pc \in SetUpAt
  BY SetUpCalls DEF SetUp, SetUpAt
<1>3. Configure => pc \in ConfigureAt
  BY ConfigureCalls DEF Configure, ConfigureAt, AfterBoot
<1>4. QED
  BY <1>1, <1>2, <1>3, ProvisionSystemCalls, ProvisionOpenstackCalls, ProvisionBootCalls,
     ChrootScriptsCalls, ShipCalls, WayOutCalls
  DEF ProvisionSystem, ProvisionOpenstack, ProvisionBoot, ChrootScripts, Ship, WayOut,
      SystemAt, OpenstackAt, BootAt, ScriptsAt, ShipAt, WayOutAt

LEMMA RefuseUnwinds == RefuseBootloader => unwinding'
BY DEF RefuseBootloader, Throw

LEMMA NextGroup ==
  ASSUME Next, ~unwinding', pc # "exit"
  PROVE  /\ pc \in Preparation => Prepare
         /\ pc \in SetUpAt => SetUp
         /\ pc \in ConfigureAt => Configure
         /\ pc \in SystemAt => ProvisionSystem
         /\ pc \in OpenstackAt => ProvisionOpenstack
         /\ pc \in BootAt => ProvisionBoot
         /\ pc \in ScriptsAt => ChrootScripts
         /\ pc \in ShipAt => Ship
         /\ pc \in WayOutAt => WayOut
<1>1. \/ Prepare \/ SetUp \/ Configure \/ ProvisionSystem \/ ProvisionOpenstack
      \/ ProvisionBoot \/ ChrootScripts \/ Ship \/ WayOut
  BY DEF Next, Call, Fault, Finished, Raise, Throw
<1>2. QED
  BY <1>1, GroupCalls, SMT DEF Preparation, ConfigureAt, AfterBoot, SetUpAt, SystemAt, OpenstackAt,
                               BootAt, ScriptsAt, ShipAt, WayOutAt

LEMMA DiskStep ==
  ASSUME StateOK, StateOK', Next, ~unwinding, ~unwinding', DiskProgress PROVE DiskProgress'
<1>1. Onward /\ cfg' = cfg /\ faults \subseteq faults'
  BY NextOnward, NextKeeps
<1>2. CASE pc \notin DiskWriters
  <2>1. UNCHANGED <<disk, uuid>>
    BY <1>2, DiskKept
  <2>2. /\ Reached("boot_flag")' => Reached("boot_flag")
        /\ Reached("disk_id")' => Reached("disk_id")
        /\ Reached("mkdtemp")' => Reached("mkdtemp")
        /\ Reached("mount_nondisk")' => Reached("mount_nondisk")
        /\ Reached("dhcp_client")' => Reached("dhcp_client")
    BY <1>1, <1>2, Crossing, LabelNames, Ranks, SMT DEF DiskWriters
  <2>3. ~Reached("mkdtemp")' => ~Reached("mkdtemp")
    BY <1>1, OnwardRanks, Ranks DEF Reached
  <2>4. pc' = "uuid" => pc = "uuid"
    BY <1>1, <1>2, Entering, LabelNames, Ranks DEF DiskWriters
  <2>5. QED
    BY <1>1, <2>1, <2>2, <2>3, <2>4 DEF DiskProgress
<1>3. CASE pc \in {"mklabel", "mkpart", "boot_flag", "disk_id"}
  <2>1. CASE MakeLabel
    BY <2>1, Ranks DEF MakeLabel, Goto, Move, DiskProgress, Reached
  <2>2. CASE MakePartition
    BY <2>2, Ranks, SMT
    DEF MakePartition, StateOK, ContentsOK, DiskType, Goto, Move, DiskProgress, Reached
  <2>3. CASE SetBootFlag
    <3>1. pc' = "boot_flag" => UNCHANGED <<disk, uuid>>
      BY <2>3, Zenon DEF SetBootFlag, KeepTrying, Move, Raise, Throw, contents
    <3>2. pc' = "disk_id" => \/ disk' = [disk EXCEPT !.boot = "on"] /\ UNCHANGED uuid
                             \/ Note("boot_flag", "refused") /\ UNCHANGED <<disk, uuid>>
      BY <2>3, Zenon DEF SetBootFlag, KeepTrying, Move, contents
    <3>3. Note("boot_flag", "refused") => <<"boot_flag", "refused">> \in faults'
      BY DEF Note, Fragile
    <3>4. pc = "boot_flag" /\ pc' \in {"boot_flag", "disk_id"}
      BY <2>3, Zenon DEF SetBootFlag, KeepTrying, Move, Raise, Throw
    <3>5. QED
      BY <1>1, <3>1, <3>2, <3>3, <3>4, Ranks, SMT
      DEF StateOK, ContentsOK, DiskType, DiskProgress, Reached
  <2>4. CASE SetDiskId
    BY <2>4, Ranks, SMT
    DEF SetDiskId, StateOK, ContentsOK, DiskType, Goto, Move, DiskProgress, Reached
  <2>5. QED
    BY <1>3, <2>1, <2>2, <2>3, <2>4, NextGroup, PrepareCalls, SMT DEF Preparation, Prepare
<1>4. CASE pc \in {"format", "uuid"}
  <2>1. CASE FormatPartitions
    BY <2>1, Ranks, SMT
    DEF FormatPartitions, StateOK, ContentsOK, DiskType, Goto, Move, DiskProgress, Reached
  <2>2. CASE SetOrGatherUuid
    BY <2>2, Ranks, SMT
    DEF SetOrGatherUuid, StateOK, ContentsOK, DiskType, Goto, Move, DiskProgress, Reached
  <2>3. QED
    BY <1>4, <2>1, <2>2, NextGroup, SetUpCalls, SMT DEF SetUpAt, SetUp
<1>5. CASE pc \in {"host_loader", "chroot_loader"}
  <2>1. CASE InstallHostLoader
    BY <2>1, Ranks, SMT
    DEF InstallHostLoader, StateOK, ContentsOK, DiskType, Goto, Move, DiskProgress, Reached,
        HostGrub, ChrootGrub, AnyGrub
  <2>2. CASE InstallChrootLoader
    BY <2>2, Ranks, SMT
    DEF InstallChrootLoader, StateOK, ContentsOK, DiskType, Goto, Move, DiskProgress, Reached,
        HostGrub, ChrootGrub, AnyGrub
  <2>3. QED
    BY <1>5, <2>1, <2>2, NextGroup, ConfigureCalls, ProvisionSystemCalls, SMT
    DEF ConfigureAt, AfterBoot, Configure, SystemAt, ProvisionSystem
<1>6. QED
  BY <1>2, <1>3, <1>4, <1>5 DEF DiskWriters

(***************************************************************************)
(* The files of the image.                                                 *)
(***************************************************************************)
SameConfig == /\ image'.hostname = image.hostname /\ image'.resolv = image.resolv
              /\ image'.machineId = image.machineId /\ image'.fstab = image.fstab
              /\ image'.root = image.root

LEMMA PutFields ==
  ASSUME StateOK, NEW l, NEW m, NEW new, Put(l, m, new)
  PROVE  image'.files = image.files \cup new /\ SameConfig
BY DEF StateOK, ContentsOK, ImageType, Put, Write, SameConfig

LEMMA RemoveFields ==
  ASSUME StateOK, NEW l, NEW m, NEW old, Remove(l, m, old)
  PROVE  image'.files = image.files \ old /\ SameConfig
BY DEF StateOK, ContentsOK, ImageType, Remove, Write, SameConfig

(* What is never removed again, and who writes the rest.                   *)
Durable == {"base", "kernel", "initramfs", "grub", "grub.cfg", "dhcp client", "sudo", "cloud-init",
            "sshd", "acpid", "network", "portage config"}

Tidy ==
  /\ Durable \cap image.files \subseteq image'.files
  /\ pc \notin {"autostart_off", "autostart_on"} =>
       ("policy-rc.d" \in image'.files <=> "policy-rc.d" \in image.files)
  /\ pc # "shipping_clean_up" => ("pacman keys" \in image'.files <=> "pacman keys" \in image.files)
  /\ pc \notin {"sshd", "run_scripts"} =>
       ("ssh host keys" \in image'.files => "ssh host keys" \in image.files)
  /\ pc \in {"post_scripts", "umount_root", "rmdir", "remove_devices", "exit"} =>
       ("package cache" \in image'.files => "package cache" \in image.files)

LEMMA SameTidy == ASSUME image'.files = image.files PROVE Tidy
BY DEF Tidy

LEMMA PutTidy ==
  ASSUME StateOK, NEW l, NEW m, NEW new, Put(l, m, new),
         l = "autostart_off" \/ "policy-rc.d" \notin new, "pacman keys" \notin new,
         l = "sshd" \/ "ssh host keys" \notin new,
         l \notin {"post_scripts", "umount_root", "rmdir", "remove_devices", "exit"}
  PROVE  Tidy
<1>1. pc = l
  BY DEF Put, Write
<1>2. QED
  BY <1>1, PutFields DEF Tidy

LEMMA RemoveTidy ==
  ASSUME StateOK, NEW l, NEW m, NEW old, Remove(l, m, old), Durable \cap old = {},
         l = "autostart_on" \/ "policy-rc.d" \notin old, "pacman keys" \notin old
  PROVE  Tidy
<1>1. pc = l
  BY DEF Remove, Write
<1>2. QED
  BY <1>1, RemoveFields DEF Tidy

LEMMA SystemTidy == ASSUME StateOK, ProvisionSystem PROVE Tidy
<1>1. CASE AutostartOff
  BY <1>1, PutTidy DEF AutostartOff
<1>2. CASE PreparePackages
  BY <1>2, PutTidy DEF PreparePackages
<1>3. CASE InstallKernel \/ InstallGrub
  BY <1>3, PutTidy DEF InstallKernel, InstallGrub, Install
<1>4. CASE SetRootPassword \/ InstallChrootLoader
  BY <1>4, SameTidy, Zenon DEF SetRootPassword, InstallChrootLoader, Quiet, contents
<1>5. QED
  BY <1>1, <1>2, <1>3, <1>4 DEF ProvisionSystem

LEMMA OpenstackTidy == ASSUME StateOK, ProvisionOpenstack PROVE Tidy
<1>1. CASE InstallDhcpClient \/ InstallSudo \/ InstallAcpid
  BY <1>1, PutTidy DEF InstallDhcpClient, InstallSudo, InstallAcpid, Install
<1>2. CASE InstallCloudInit
  <2>1. PICK new \in SUBSET {"cloud-init", "sshd", "package cache"} : Put("cloud_init", "cloud_cfg", new)
    BY <1>2 DEF InstallCloudInit, Install
  <2>2. QED
    BY <2>1, PutTidy
<1>3. CASE InstallSshd
  <2>1. PICK keys \in {{}, {"ssh host keys"}} :
          Install("sshd", "services", cfg.openstack, {"sshd"} \cup keys)
    BY <1>3 DEF InstallSshd
  <2>2. QED
    BY <2>1, PutTidy DEF Install
<1>4. CASE ConfigureCloudInit \/ ServicesAutostart \/ ConfigureConsole
  BY <1>4, SameTidy, Zenon
  DEF ConfigureCloudInit, ServicesAutostart, ConfigureConsole, Quiet, contents
<1>5. QED
  BY <1>1, <1>2, <1>3, <1>4 DEF ProvisionOpenstack

LEMMA BootTidy == ASSUME StateOK, ProvisionBoot PROVE Tidy
<1>1. CASE CreateNetworkConfiguration
  BY <1>1, PutTidy DEF CreateNetworkConfiguration
<1>2. CASE GenerateInitramfs
  BY <1>2, PutTidy DEF GenerateInitramfs
<1>3. CASE GenerateGrubCfg
  <2>1. image'.files = image.files \/ image'.files = image.files \cup {"grub.cfg"}
    BY <1>3 DEF GenerateGrubCfg, Write, StateOK, ContentsOK, ImageType
  <2>2. pc = "grub_cfg"
    BY <1>3, ProvisionBootCalls
  <2>3. QED
    BY <2>1, <2>2 DEF Tidy
<1>4. CASE FixGrubRootDevice
  BY <1>4, SameTidy DEF FixGrubRootDevice, Write, StateOK, ContentsOK, ImageType
<1>5. CASE AdjustGrubDefaults
  BY <1>5, SameTidy, Zenon DEF AdjustGrubDefaults, Quiet, contents
<1>6. QED
  BY <1>1, <1>2, <1>3, <1>4, <1>5 DEF ProvisionBoot

LEMMA ScriptsTidy == ASSUME StateOK, ChrootScripts PROVE Tidy
<1>1. CASE CopyChrootScripts
  <2>1. image'.files = image.files \/ image'.files = image.files \cup {"chroot scripts"}
    BY <1>1 DEF CopyChrootScripts, StateOK, ContentsOK, ImageType
  <2>2. pc = "copy_scripts"
    BY <1>1, ChrootScriptsCalls
  <2>3. QED
    BY <2>1, <2>2 DEF Tidy
<1>2. CASE RunChrootScripts
  <2>1. \E keys \in {{}, {"ssh host keys"}} :
          image'.files = image.files \cup {"package cache"} \cup keys
    BY <1>2 DEF RunChrootScripts, Write, StateOK, ContentsOK, ImageType
  <2>2. pc = "run_scripts"
    BY <1>2, ChrootScriptsCalls
  <2>3. QED
    BY <2>1, <2>2 DEF Tidy
<1>3. CASE RemoveChrootScripts
  BY <1>3, RemoveTidy DEF RemoveChrootScripts, Durable
<1>4. QED
  BY <1>1, <1>2, <1>3 DEF ChrootScripts

LEMMA ShipTidy == ASSUME StateOK, Ship PROVE Tidy
<1>1. CASE DeleteSshdKeys
  BY <1>1, RemoveTidy DEF DeleteSshdKeys, Durable
<1>2. CASE AutostartOn
  BY <1>2, RemoveTidy DEF AutostartOn, Durable
<1>3. CASE CleanMachineId \/ HandOverResolvConf
  BY <1>3, SameTidy DEF CleanMachineId, HandOverResolvConf, Write, StateOK, ContentsOK, ImageType
<1>4. CASE ShippingCleanUp
  <2>1. \/ image'.files = image.files
        \/ image'.files = (image.files \cup {"package cache"}) \ {"pacman keys"}
    BY <1>4 DEF ShippingCleanUp, Write, StateOK, ContentsOK, ImageType
  <2>2. pc = "shipping_clean_up"
    BY <1>4, ShipCalls
  <2>3. QED
    BY <2>1, <2>2 DEF Tidy, Durable
<1>5. QED
  BY <1>1, <1>2, <1>3, <1>4 DEF Ship

LEMMA WayOutTidy == ASSUME StateOK, WayOut PROVE Tidy
<1>1. CASE PostCleanUp
  BY <1>1, RemoveTidy DEF PostCleanUp, Durable
<1>2. QED
  BY <1>1, SameTidy, Zenon
  DEF WayOut, UnmountNonDisk, RunPostScripts, UnmountRoot, RemoveMountPoint, RemovePartitionDevices,
      Quiet, KeepTrying, contents

(* Between formatting and bootstrapping and from there on.                 *)
LEMMA NextTidy == ASSUME StateOK, Next, pc \notin {"format", "directory_bootstrap"} PROVE Tidy
<1>1. CASE Prepare
  BY <1>1, SameTidy, Zenon
  DEF Prepare, Unshare, CheckDeviceSize, MakeLabel, PartProbe, MakePartition, SetBootFlag, SetDiskId,
      KpartxList, KpartxUpdate, KpartxAdd, DeviceNode, Quiet, KeepTrying, contents
<1>2. CASE SetUp
  <2>1. CASE HostnameFirst \/ ResolvConfFirst
    BY <2>1, SameTidy
    DEF HostnameFirst, ResolvConfFirst, SetHostname, SetResolvConf, Write, StateOK, ContentsOK,
        ImageType
  <2>2. QED
    BY <1>2, <2>1, SetUpCalls, SameTidy, Zenon
    DEF SetUp, SetOrGatherUuid, MakeMountPoint, MountRoot, MakeEtc, LoadMounts, UnmountLeftovers,
        Quiet, KeepTrying, contents
<1>3. CASE Configure
  <2>1. CASE HostnameAgain \/ ResolvConfAgain \/ CreateFstab \/ CreateMachineId \/ InstallHostLoader
    BY <2>1, SameTidy
    DEF HostnameAgain, ResolvConfAgain, CreateFstab, CreateMachineId, InstallHostLoader,
        SetHostname, SetResolvConf, Write, StateOK, ContentsOK, ImageType
  <2>2. QED
    BY <1>3, <2>1, SameTidy, Zenon DEF Configure, RunPreScripts, MountNonDisk, Quiet, contents
<1>4. CASE Fault \/ Finished
  BY <1>4, SameTidy, Zenon DEF Fault, Finished, vars, contents
<1>5. QED
  BY <1>1, <1>2, <1>3, <1>4, SystemTidy, OpenstackTidy, BootTidy, ScriptsTidy, ShipTidy, WayOutTidy
  DEF Next, Call

LEMMA FileNames ==
  {"directory_bootstrap", "load_mounts", "prepare_packages", "kernel", "grub_package",
   "chroot_loader", "dhcp_client", "sudo", "cloud_init", "cloud_cfg", "sshd", "services",
   "initramfs", "grub_defaults", "grub_cfg", "grub_root", "autostart_off", "root_password",
   "autostart_on", "umount_nondisk", "shipping_clean_up", "resolved_link", "delete_sshd_keys",
   "clean_machine_id", "post_clean_up", "post_scripts"} \subseteq Labels
BY LabelFacts DEF InRoot, AfterBoot, AfterChroot, InChroot

(* What each call leaves in the image, together with the bootstrapper.     *)
LEMMA Deliveries ==
  ASSUME StateOK, Next, ~unwinding, ~unwinding', InstallProgress
  PROVE  /\ pc = "prepare_packages" /\ cfg.distro = "gentoo" => "portage config" \in image'.files
         /\ pc = "kernel" => "kernel" \in image'.files
         /\ pc = "grub_package" /\ cfg.bootloader \in AnyGrub => "grub" \in image'.files
         /\ pc = "dhcp_client" /\ cfg.openstack => "dhcp client" \in image'.files
         /\ pc = "cloud_init" /\ cfg.openstack => "cloud-init" \in image'.files
         /\ pc = "sshd" /\ cfg.openstack => "sshd" \in image'.files
         /\ pc = "initramfs" => "initramfs" \in image'.files
         /\ pc = "grub_cfg" /\ cfg.bootloader \in AnyGrub => "grub.cfg" \in image'.files
<1>1. ASSUME pc \in {"prepare_packages", "kernel", "grub_package"}
      PROVE  /\ pc = "prepare_packages" => PreparePackages
             /\ pc = "kernel" => InstallKernel
             /\ pc = "grub_package" => InstallGrub
  BY <1>1, NextGroup, ProvisionSystemCalls, SMT DEF SystemAt, ProvisionSystem
<1>2. ASSUME pc \in {"dhcp_client", "cloud_init", "sshd"}
      PROVE  /\ pc = "dhcp_client" => InstallDhcpClient
             /\ pc = "cloud_init" => InstallCloudInit
             /\ pc = "sshd" => InstallSshd
  BY <1>2, NextGroup, ProvisionOpenstackCalls, SMT DEF OpenstackAt, ProvisionOpenstack
<1>3. ASSUME pc \in {"initramfs", "grub_cfg"}
      PROVE  /\ pc = "initramfs" => GenerateInitramfs
             /\ pc = "grub_cfg" => GenerateGrubCfg
  BY <1>3, NextGroup, ProvisionBootCalls, SMT DEF BootAt, ProvisionBoot
<1>4. cfg.distro \in {"arch", "debian", "gentoo", "ubuntu", "trusty"}
  BY ConfigsAssumption DEF StateOK, ConfigType
<1>5. /\ pc \in {"kernel", "grub_package", "dhcp_client"} => Reached("load_mounts")
  BY Ranks, SMT DEF Reached
<1>6. pc = "prepare_packages" /\ cfg.distro = "gentoo" => "portage config" \in image'.files
  BY <1>1
  DEF StateOK, ContentsOK, ImageType, Put, Write, PreparePackages
<1>7. pc = "kernel" => "kernel" \in image'.files
  BY <1>1, <1>5
  DEF StateOK, ContentsOK, ImageType, Put, Write, InstallKernel, Install, InstallProgress
<1>8. pc = "grub_package" /\ cfg.bootloader \in AnyGrub => "grub" \in image'.files
  BY <1>1, <1>5
  DEF StateOK, ContentsOK, ImageType, Put, Write, InstallGrub, Install, InstallProgress
<1>9. pc = "dhcp_client" /\ cfg.openstack => "dhcp client" \in image'.files
  BY <1>2, <1>4, <1>5
  DEF StateOK, ContentsOK, ImageType, Put, Write, InstallDhcpClient, Install, InstallProgress, DebianBased
<1>10. pc = "cloud_init" /\ cfg.openstack => "cloud-init" \in image'.files
  BY <1>2
  DEF StateOK, ContentsOK, ImageType, Put, Write, InstallCloudInit, Install
<1>11. pc = "sshd" /\ cfg.openstack => "sshd" \in image'.files
  BY <1>2
  DEF StateOK, ContentsOK, ImageType, Put, Write, InstallSshd, Install
<1>12. pc = "initramfs" => "initramfs" \in image'.files
  BY <1>3
  DEF StateOK, ContentsOK, ImageType, Put, Write, GenerateInitramfs
<1>13. pc = "grub_cfg" /\ cfg.bootloader \in AnyGrub => "grub.cfg" \in image'.files
  BY <1>3 DEF GenerateGrubCfg, Write, StateOK, ContentsOK, ImageType
<1>14. QED
  BY <1>6, <1>7, <1>8, <1>9, <1>10, <1>11, <1>12, <1>13

LEMMA InstallStep ==
  ASSUME StateOK, StateOK', Next, ~unwinding, ~unwinding', InstallProgress PROVE InstallProgress'
<1>1. Onward /\ cfg' = cfg
  BY NextOnward, NextKeeps
<1>2. CASE pc \notin {"format", "directory_bootstrap"}
  <2>1. Tidy
    BY <1>2, NextTidy
  <2>2. /\ Reached("load_mounts")' => Reached("load_mounts")
        /\ Reached("kernel")' => Reached("kernel") \/ pc = "prepare_packages"
        /\ Reached("grub_package")' => Reached("grub_package") \/ pc = "kernel"
        /\ Reached("chroot_loader")' => Reached("chroot_loader") \/ pc = "grub_package"
        /\ Reached("sudo")' => Reached("sudo") \/ pc = "dhcp_client"
        /\ Reached("cloud_cfg")' => Reached("cloud_cfg") \/ pc = "cloud_init"
        /\ Reached("services")' => Reached("services") \/ pc = "sshd"
        /\ Reached("grub_defaults")' => Reached("grub_defaults") \/ pc = "initramfs"
        /\ Reached("grub_root")' => Reached("grub_root") \/ pc = "grub_cfg"
    BY <1>1, <1>2, Crossing, FileNames, Ranks, SMT
  <2>3. Durable \cap image.files \subseteq image'.files /\ (DebianBased <=> DebianBased')
    BY <1>1, <2>1 DEF Tidy, DebianBased
  <2>4. /\ "kernel" \in image.files => "kernel" \in image'.files
        /\ "initramfs" \in image.files => "initramfs" \in image'.files
        /\ "grub" \in image.files => "grub" \in image'.files
        /\ "grub.cfg" \in image.files => "grub.cfg" \in image'.files
        /\ "dhcp client" \in image.files => "dhcp client" \in image'.files
        /\ "cloud-init" \in image.files => "cloud-init" \in image'.files
        /\ "sshd" \in image.files => "sshd" \in image'.files
        /\ "portage config" \in image.files => "portage config" \in image'.files
    BY <2>3 DEF Durable
  <2>5. /\ pc = "prepare_packages" /\ cfg.distro = "gentoo" => "portage config" \in image'.files
        /\ pc = "kernel" => "kernel" \in image'.files
        /\ pc = "grub_package" /\ cfg.bootloader \in AnyGrub => "grub" \in image'.files
        /\ pc = "dhcp_client" /\ cfg.openstack => "dhcp client" \in image'.files
        /\ pc = "cloud_init" /\ cfg.openstack => "cloud-init" \in image'.files
        /\ pc = "sshd" /\ cfg.openstack => "sshd" \in image'.files
        /\ pc = "initramfs" => "initramfs" \in image'.files
        /\ pc = "grub_cfg" /\ cfg.bootloader \in AnyGrub => "grub.cfg" \in image'.files
    BY Deliveries
  <2>6. (DebianBased /\ Reached("load_mounts") =>
           /\ {"kernel", "initramfs", "dhcp client"} \subseteq image.files
           /\ cfg.bootloader \in AnyGrub => "grub" \in image.files)'
    BY <1>1, <2>2, <2>3, <2>4 DEF InstallProgress
  <2>7. QED
    BY <1>1, <2>2, <2>4, <2>5, <2>6, Zenon DEF InstallProgress
<1>3. CASE pc \in {"format", "directory_bootstrap"}
  <2>1. CASE FormatPartitions
    BY <2>1, Ranks, SMT DEF FormatPartitions, Goto, Move, InstallProgress, Reached
  <2>2. CASE BootstrapperMounts
    BY <2>2, Ranks, SMT DEF BootstrapperMounts, Move, InstallProgress, Reached
  <2>3. CASE DirectoryBootstrap
    <3>1. image'.files = Bootstrapped /\ pc' = "load_mounts"
      BY <2>3 DEF DirectoryBootstrap, StateOK, ContentsOK, ImageType, Goto, Move
    <3>2. ~(Reached("kernel") \/ Reached("grub_package") \/ Reached("chroot_loader") \/ Reached("sudo")
            \/ Reached("cloud_cfg") \/ Reached("services") \/ Reached("grub_defaults")
            \/ Reached("grub_root"))'
      BY <3>1, Ranks DEF Reached
    <3>3. QED
      BY <1>1, <3>1, <3>2 DEF InstallProgress, Bootstrapped, DebianBased
  <2>4. QED
    BY <1>3, <2>1, <2>2, <2>3, NextGroup, SetUpCalls, RefuseUnwinds, SMT DEF SetUpAt, SetUp
<1>4. QED
  BY <1>2, <1>3

(* What each call is there to remove.                                      *)
LEMMA Removals ==
  ASSUME StateOK, Next, ~unwinding, ~unwinding'
  PROVE  /\ pc = "autostart_off" =>
              image'.files = image.files \cup (IF DebianBased THEN {"policy-rc.d"} ELSE {})
         /\ pc = "autostart_on" =>
              image'.files = image.files \ (IF DebianBased THEN {"policy-rc.d"} ELSE {})
         /\ pc = "shipping_clean_up" =>
              image'.files = IF cfg.openstack /\ cfg.distro = "arch"
                             THEN (image.files \cup {"package cache"}) \ {"pacman keys"}
                             ELSE image.files
         /\ pc = "delete_sshd_keys" /\ cfg.openstack => "ssh host keys" \notin image'.files
         /\ pc = "post_clean_up" => "package cache" \notin image'.files
<1>1. pc = "autostart_off" => AutostartOff
  BY NextGroup, ProvisionSystemCalls, SMT DEF SystemAt, ProvisionSystem
<1>2. /\ pc = "autostart_on" => AutostartOn
      /\ pc = "shipping_clean_up" => ShippingCleanUp
      /\ pc = "delete_sshd_keys" => DeleteSshdKeys
  BY NextGroup, ShipCalls, SMT DEF ShipAt, Ship
<1>3. pc = "post_clean_up" => PostCleanUp
  BY NextGroup, WayOutCalls, SMT DEF WayOutAt, WayOut
<1> USE DEF StateOK, ContentsOK, ImageType
<1>4. pc = "autostart_off" =>
        image'.files = image.files \cup (IF DebianBased THEN {"policy-rc.d"} ELSE {})
  BY <1>1 DEF AutostartOff, Put, Write
<1>5. pc = "autostart_on" =>
        image'.files = image.files \ (IF DebianBased THEN {"policy-rc.d"} ELSE {})
  BY <1>2 DEF AutostartOn, Remove, Write
<1>6. pc = "shipping_clean_up" =>
        image'.files = IF cfg.openstack /\ cfg.distro = "arch"
                       THEN (image.files \cup {"package cache"}) \ {"pacman keys"}
                       ELSE image.files
  BY <1>2 DEF ShippingCleanUp, Write
<1>7. pc = "delete_sshd_keys" /\ cfg.openstack => "ssh host keys" \notin image'.files
  BY <1>2 DEF DeleteSshdKeys, Remove, Write
<1>8. pc = "post_clean_up" => "package cache" \notin image'.files
  BY <1>3 DEF PostCleanUp, Remove, Write
<1>9. QED
  BY <1>4, <1>5, <1>6, <1>7, <1>8

LEMMA RemovalStep ==
  ASSUME StateOK, StateOK', Next, ~unwinding, ~unwinding', RemovalProgress PROVE RemovalProgress'
<1>1. Onward /\ cfg' = cfg /\ (DebianBased' <=> DebianBased)
  BY NextOnward, NextKeeps DEF DebianBased
<1>2. CASE pc \notin {"format", "directory_bootstrap"}
  <2>1. Tidy
    BY <1>2, NextTidy
  <2>2. /\ Reached("root_password")' => Reached("root_password") \/ pc = "autostart_off"
        /\ Reached("umount_nondisk")' => Reached("umount_nondisk") \/ pc = "autostart_on"
        /\ Reached("load_mounts")' => Reached("load_mounts")
        /\ Reached("resolved_link")' => Reached("resolved_link") \/ pc = "shipping_clean_up"
        /\ Reached("clean_machine_id")' => Reached("clean_machine_id") \/ pc = "delete_sshd_keys"
        /\ Reached("post_scripts")' => Reached("post_scripts") \/ pc = "post_clean_up"
    BY <1>1, <1>2, Crossing, FileNames, Ranks, SMT
  <2>3. Rank[pc] <= Rank[pc'] /\ Rank[pc] \in Nat /\ Rank[pc'] \in Nat
    BY <1>1, OnwardRanks
  <2>4. (DebianBased /\ Between("root_password", "autostart_on") =>
           "policy-rc.d" \in image.files)'
    <3>1. SUFFICES ASSUME DebianBased, Between("root_password", "autostart_on")'
                   PROVE  "policy-rc.d" \in image'.files
      BY <1>1
    <3>2. pc = "autostart_off" \/ (pc # "autostart_on" /\ Between("root_password", "autostart_on"))
      BY <1>1, <2>2, <2>3, <3>1, Ranks DEF Between, Reached, Onward, Loops
    <3>3. QED
      BY <2>1, <3>1, <3>2, Removals DEF RemovalProgress, Tidy
  <2>5. (~DebianBased \/ Reached("umount_nondisk") => "policy-rc.d" \notin image.files)'
    <3>1. Reached("umount_nondisk") => pc # "autostart_off" /\ pc # "autostart_on"
      BY Ranks DEF Reached
    <3>2. QED
      BY <1>1, <2>1, <2>2, <3>1, Removals DEF RemovalProgress, Tidy
  <2>6. (cfg.distro = "arch" /\ Between("load_mounts", "shipping_clean_up") =>
           "pacman keys" \in image.files)'
    <3>1. Between("load_mounts", "shipping_clean_up")' =>
            pc # "shipping_clean_up" /\ Between("load_mounts", "shipping_clean_up")
      BY <1>1, <2>2, <2>3, Ranks DEF Between, Reached, Onward, Loops
    <3>2. QED
      BY <1>1, <2>1, <3>1 DEF RemovalProgress, Tidy
  <2>7. (cfg.distro # "arch" \/ (cfg.openstack /\ Reached("resolved_link")) =>
           "pacman keys" \notin image.files)'
    BY <1>1, <2>1, <2>2, Removals DEF RemovalProgress, Tidy
  <2>8. (cfg.openstack /\ Reached("clean_machine_id") => "ssh host keys" \notin image.files)'
    <3>1. Reached("clean_machine_id") => pc \notin {"sshd", "run_scripts"}
      BY Ranks DEF Reached
    <3>2. QED
      BY <1>1, <2>1, <2>2, <3>1, Removals DEF RemovalProgress, Tidy
  <2>9. (Reached("post_scripts") => "package cache" \notin image.files)'
    <3>1. Reached("post_scripts") =>
            pc \in {"post_scripts", "umount_root", "rmdir", "remove_devices", "exit"}
      BY Ranks, SMT
      DEF Reached, StateOK, ControlOK, Labels, Calls, Preparation, InDevices, InDir, InRoot,
          BeforeBoot, AfterBoot, AfterChroot, InChroot
    <3>2. QED
      BY <2>1, <2>2, <3>1, Removals DEF RemovalProgress, Tidy
  <2>10. QED
    BY <2>4, <2>5, <2>6, <2>7, <2>8, <2>9 DEF RemovalProgress
<1>3. CASE pc \in {"format", "directory_bootstrap"}
  <2>1. CASE FormatPartitions
    <3>1. image'.files = {} /\ pc' = "uuid"
      BY <2>1 DEF FormatPartitions, EmptyImage, Goto, Move
    <3>2. ~(Between("root_password", "autostart_on") \/ Between("load_mounts", "shipping_clean_up"))'
      BY <3>1, Ranks DEF Reached, Between
    <3>3. QED
      BY <3>1, <3>2 DEF RemovalProgress
  <2>2. CASE BootstrapperMounts
    <3>1. image' = image /\ pc' = pc
      BY <2>2 DEF BootstrapperMounts, Move, contents
    <3>2. QED
      BY <1>1, <3>1 DEF RemovalProgress, Reached, Between
  <2>3. CASE DirectoryBootstrap
    <3>1. image'.files = Bootstrapped /\ pc' = "load_mounts"
      BY <2>3 DEF DirectoryBootstrap, StateOK, ContentsOK, ImageType, Goto, Move
    <3>2. ~(Between("root_password", "autostart_on") \/ Reached("umount_nondisk")
            \/ Reached("resolved_link") \/ Reached("clean_machine_id") \/ Reached("post_scripts"))'
      BY <3>1, Ranks DEF Reached, Between
    <3>3. /\ "policy-rc.d" \notin image'.files
          /\ "pacman keys" \in image'.files <=> cfg.distro = "arch"
      <4>1. CASE DebianBased
        <5>1. cfg.distro # "arch"
          BY <4>1 DEF DebianBased
        <5>2. \E g \in SUBSET {"grub"} : image'.files =
                {"base", "kernel", "initramfs", "dhcp client", "package cache"} \cup g
          BY <3>1, <4>1, Zenon DEF Bootstrapped
        <5>3. QED
          BY <5>1, <5>2
      <4>2. CASE ~DebianBased
        <5>1. /\ cfg.distro = "arch" =>
                   image'.files = {"base", "dhcp client", "package cache", "pacman keys"}
              /\ cfg.distro # "arch" => image'.files = {"base"}
          BY <3>1, <4>2, Zenon DEF Bootstrapped
        <5>2. QED
          BY <5>1
      <4>3. QED
        BY <4>1, <4>2
    <3>4. QED
      BY <1>1, <3>2, <3>3 DEF RemovalProgress
  <2>4. QED
    BY <1>3, <2>1, <2>2, <2>3, NextGroup, SetUpCalls, RefuseUnwinds, SMT DEF SetUpAt, SetUp
<1>4. QED
  BY <1>2, <1>3

(***************************************************************************)
(* The mounts.                                                             *)
(***************************************************************************)
LEMMA MountsKept ==
  ASSUME Next, pc \notin {"umount_leftover", "umount_nondisk", "umount_root"}
  PROVE  mounts \subseteq mounts'
<1>1. CASE Prepare
  BY <1>1, Zenon
  DEF Prepare, Unshare, CheckDeviceSize, MakeLabel, PartProbe, MakePartition, SetBootFlag, SetDiskId,
      KpartxList, KpartxUpdate, KpartxAdd, DeviceNode, Quiet, KeepTrying, resources
<1>2. CASE SetUp
  BY <1>2, SetUpCalls, Zenon
  DEF SetUp, FormatPartitions, SetOrGatherUuid, MakeMountPoint, MountRoot, MakeEtc, HostnameFirst,
      ResolvConfFirst, SetHostname, SetResolvConf, BootstrapperMounts, DirectoryBootstrap,
      RefuseBootloader, LoadMounts, Quiet, Write, resources
<1>3. CASE Configure
  BY <1>3, Zenon
  DEF Configure, HostnameAgain, ResolvConfAgain, CreateFstab, CreateMachineId, RunPreScripts,
      InstallHostLoader, MountNonDisk, SetHostname, SetResolvConf, Quiet, Write, resources
<1>4. CASE ProvisionSystem \/ ProvisionOpenstack
  BY <1>4, Zenon
  DEF ProvisionSystem, AutostartOff, SetRootPassword, PreparePackages, InstallKernel, InstallGrub,
      InstallChrootLoader, ProvisionOpenstack, InstallDhcpClient, InstallSudo, InstallCloudInit,
      ConfigureCloudInit, InstallSshd, ServicesAutostart, ConfigureConsole, InstallAcpid, Install,
      Put, Quiet, Write, resources
<1>5. CASE ProvisionBoot \/ ChrootScripts \/ Ship
  BY <1>5, Zenon
  DEF ProvisionBoot, CreateNetworkConfiguration, GenerateInitramfs, AdjustGrubDefaults,
      GenerateGrubCfg, FixGrubRootDevice, ChrootScripts, CopyChrootScripts, RunChrootScripts,
      RemoveChrootScripts, Ship, DeleteSshdKeys, CleanMachineId, ShippingCleanUp,
      HandOverResolvConf, AutostartOn, Put, Remove, Quiet, Write, resources
<1>6. CASE WayOut
  BY <1>6, WayOutCalls, Zenon
  DEF WayOut, PostCleanUp, RunPostScripts, RemoveMountPoint, RemovePartitionDevices, Remove, Quiet,
      Write, KeepTrying, resources
<1>7. CASE Fault \/ Finished
  BY <1>7, Zenon DEF Fault, Finished, vars, resources
<1>8. QED
  BY <1>1, <1>2, <1>3, <1>4, <1>5, <1>6, <1>7 DEF Next, Call

LEMMA MountStep ==
  ASSUME StateOK, StateOK', Next, ~unwinding, ~unwinding', MountProgress PROVE MountProgress'
<1>1. Onward
  BY NextOnward
<1>2. Rank[pc] <= Rank[pc'] /\ Rank[pc] \in Nat /\ Rank[pc'] \in Nat
  BY <1>1, OnwardRanks
<1>3. {"mount_root", "mkdir_etc", "mount_nondisk", "autostart_off", "host_loader"} \subseteq Labels
  BY LabelFacts DEF InDir, InRoot, BeforeBoot, AfterBoot, InChroot
<1>4. (Between("mkdir_etc", "directory_bootstrap") => "root" \in mounts)'
  <2> SUFFICES ASSUME Between("mkdir_etc", "directory_bootstrap")' PROVE "root" \in mounts'
    OBVIOUS
  <2>1. CASE pc = "mount_root"
    <3>1. MountRoot
      BY <2>1, NextGroup, SetUpCalls, SMT DEF SetUpAt, SetUp
    <3>2. QED
      BY <3>1 DEF MountRoot
  <2>2. CASE pc # "mount_root"
    <3>1. Reached("mkdir_etc")
      BY <1>1, <1>3, <2>2, Crossing, Ranks DEF Between, Reached
    <3>2. Between("mkdir_etc", "directory_bootstrap")
          /\ pc \notin {"umount_leftover", "umount_nondisk", "umount_root"}
      BY <1>2, <3>1, Ranks DEF Between, Reached
    <3>3. QED
      BY <3>2, MountsKept DEF MountProgress
  <2>3. QED
    BY <2>1, <2>2
<1>5. ASSUME pc = "mount_nondisk" PROVE MountNonDisk
  BY <1>5, NextGroup, ConfigureCalls, SMT DEF ConfigureAt, AfterBoot, Configure
<1>6. (pc = "mount_nondisk" => \A i \in 1..5 : i < k => NonDisk[i] \in mounts)'
  <2> SUFFICES ASSUME pc' = "mount_nondisk", NEW i \in 1..5, i < k' PROVE NonDisk[i] \in mounts'
    OBVIOUS
  <2>1. pc = "mount_nondisk" \/ pc = "host_loader"
    BY <1>1, <1>3, Entering, Ranks
  <2>2. CASE pc = "mount_nondisk"
    BY <1>5, <2>2, NaturalIndex DEF MountNonDisk, Goto, Move, MountProgress
  <2>3. CASE pc = "host_loader"
    <3>1. InstallHostLoader
      BY <2>3, NextGroup, ConfigureCalls, SMT DEF ConfigureAt, AfterBoot, Configure
    <3>2. k' = 1
      BY <3>1 DEF InstallHostLoader, Goto, Move, FirstIndex
    <3>3. QED
      BY <3>2
  <2>4. QED
    BY <2>1, <2>2, <2>3
<1>7. (Between("autostart_off", "autostart_on") => NonDiskSet \subseteq mounts)'
  <2> SUFFICES ASSUME Between("autostart_off", "autostart_on")' PROVE NonDiskSet \subseteq mounts'
    BY DEF NonDiskSet
  <2>1. CASE pc = "mount_nondisk"
    <3>1. pc' # "mount_nondisk"
      BY Ranks DEF Between
    <3>2. k = 6 /\ mounts' = mounts
      BY <1>5, <2>1, <3>1 DEF MountNonDisk, Goto, Move
    <3>3. QED
      BY <2>1, <3>2 DEF MountProgress, NonDiskSet
  <2>2. CASE pc # "mount_nondisk"
    <3>1. Reached("autostart_off")
      BY <1>1, <1>3, <2>2, Crossing, Ranks DEF Between, Reached
    <3>2. Between("autostart_off", "autostart_on")
          /\ pc \notin {"umount_leftover", "umount_nondisk", "umount_root"}
      BY <1>2, <3>1, Ranks DEF Between, Reached
    <3>3. QED
      BY <3>2, MountsKept DEF MountProgress
  <2>3. QED
    BY <2>1, <2>2
<1>8. QED
  BY <1>4, <1>6, <1>7 DEF MountProgress

(***************************************************************************)
(* The configuration run() writes into the image.                          *)
(***************************************************************************)
Settled ==
  /\ pc \notin {"hostname", "hostname_again"} => image'.hostname = image.hostname
  /\ pc \notin {"resolv_conf", "resolv_conf_again", "resolved_link"} =>
       image'.resolv = image.resolv
  /\ pc # "fstab" => image'.fstab = image.fstab
  /\ pc \notin {"host_loader", "grub_cfg", "grub_root"} => image'.root = image.root
  /\ pc \notin {"machine_id", "run_scripts", "clean_machine_id"} =>
       image'.machineId = image.machineId

LEMMA SameSettled == ASSUME SameConfig PROVE Settled
BY DEF SameConfig, Settled

LEMMA SameImage == ASSUME image' = image PROVE SameConfig
BY DEF SameConfig

LEMMA SystemSettled == ASSUME StateOK, ProvisionSystem \/ ProvisionOpenstack PROVE SameConfig
<1>1. CASE AutostartOff \/ PreparePackages
  BY <1>1, PutFields DEF AutostartOff, PreparePackages
<1>2. CASE InstallKernel \/ InstallGrub \/ InstallDhcpClient \/ InstallSudo \/ InstallAcpid
  BY <1>2, PutFields
  DEF InstallKernel, InstallGrub, InstallDhcpClient, InstallSudo, InstallAcpid, Install
<1>3. CASE InstallCloudInit
  BY <1>3, PutFields DEF InstallCloudInit, Install
<1>4. CASE InstallSshd
  <2>1. PICK new : Put("sshd", "services", new)
    BY <1>4, Zenon DEF InstallSshd, Install
  <2>2. QED
    BY <2>1, PutFields
<1>5. QED
  BY <1>1, <1>2, <1>3, <1>4, SameImage, Zenon
  DEF ProvisionSystem, ProvisionOpenstack, SetRootPassword, InstallChrootLoader, ConfigureCloudInit,
      ServicesAutostart, ConfigureConsole, Quiet, contents

LEMMA BootSettled == ASSUME StateOK, ProvisionBoot PROVE Settled
<1>1. CASE CreateNetworkConfiguration \/ GenerateInitramfs
  BY <1>1, PutFields, SameSettled DEF CreateNetworkConfiguration, GenerateInitramfs
<1>2. CASE GenerateGrubCfg \/ FixGrubRootDevice
  BY <1>2
  DEF GenerateGrubCfg, FixGrubRootDevice, Write, StateOK, ContentsOK, ImageType, Settled
<1>3. CASE AdjustGrubDefaults
  BY <1>3, SameImage, SameSettled, Zenon DEF AdjustGrubDefaults, Quiet, contents
<1>4. QED
  BY <1>1, <1>2, <1>3 DEF ProvisionBoot

LEMMA ScriptsSettled == ASSUME StateOK, ChrootScripts PROVE Settled
<1>1. CASE CopyChrootScripts
  BY <1>1 DEF CopyChrootScripts, StateOK, ContentsOK, ImageType, Settled
<1>2. CASE RunChrootScripts
  BY <1>2 DEF RunChrootScripts, Write, StateOK, ContentsOK, ImageType, Settled
<1>3. CASE RemoveChrootScripts
  BY <1>3, RemoveFields, SameSettled DEF RemoveChrootScripts
<1>4. QED
  BY <1>1, <1>2, <1>3 DEF ChrootScripts

LEMMA ShipSettled == ASSUME StateOK, Ship PROVE Settled
<1>1. CASE DeleteSshdKeys \/ AutostartOn
  BY <1>1, RemoveFields, SameSettled DEF DeleteSshdKeys, AutostartOn
<1>2. CASE CleanMachineId \/ ShippingCleanUp \/ HandOverResolvConf
  BY <1>2
  DEF CleanMachineId, ShippingCleanUp, HandOverResolvConf, Write, StateOK, ContentsOK, ImageType,
      Settled
<1>3. QED
  BY <1>1, <1>2 DEF Ship

LEMMA WayOutSettled == ASSUME StateOK, WayOut PROVE SameConfig
<1>1. CASE PostCleanUp
  BY <1>1, RemoveFields DEF PostCleanUp
<1>2. QED
  BY <1>1, SameImage, Zenon
  DEF WayOut, UnmountNonDisk, RunPostScripts, UnmountRoot, RemoveMountPoint, RemovePartitionDevices,
      Quiet, KeepTrying, contents

LEMMA NextSettled == ASSUME StateOK, Next, pc \notin {"format", "directory_bootstrap"} PROVE Settled
<1>1. CASE Prepare
  BY <1>1, SameImage, SameSettled, Zenon
  DEF Prepare, Unshare, CheckDeviceSize, MakeLabel, PartProbe, MakePartition, SetBootFlag, SetDiskId,
      KpartxList, KpartxUpdate, KpartxAdd, DeviceNode, Quiet, KeepTrying, contents
<1>2. CASE SetUp
  <2>1. CASE HostnameFirst \/ ResolvConfFirst
    BY <2>1
    DEF HostnameFirst, ResolvConfFirst, SetHostname, SetResolvConf, Write, StateOK, ContentsOK,
        ImageType, Settled
  <2>2. QED
    BY <1>2, <2>1, SetUpCalls, SameImage, SameSettled, Zenon
    DEF SetUp, SetOrGatherUuid, MakeMountPoint, MountRoot, MakeEtc, LoadMounts, UnmountLeftovers,
        Quiet, KeepTrying, contents
<1>3. CASE Configure
  <2>1. CASE HostnameAgain \/ ResolvConfAgain \/ CreateFstab \/ CreateMachineId \/ InstallHostLoader
    BY <2>1
    DEF HostnameAgain, ResolvConfAgain, CreateFstab, CreateMachineId, InstallHostLoader,
        SetHostname, SetResolvConf, Write, StateOK, ContentsOK, ImageType, Settled
  <2>2. QED
    BY <1>3, <2>1, SameImage, SameSettled, Zenon
    DEF Configure, RunPreScripts, MountNonDisk, Quiet, contents
<1>4. CASE Fault \/ Finished
  BY <1>4, SameImage, SameSettled, Zenon DEF Fault, Finished, vars, contents
<1>5. QED
  BY <1>1, <1>2, <1>3, <1>4, SystemSettled, BootSettled, ScriptsSettled, ShipSettled, WayOutSettled,
     SameSettled
  DEF Next, Call

(* What each call is there to write.                                       *)
LEMMA Settings ==
  ASSUME StateOK, Next, ~unwinding, ~unwinding'
  PROVE  /\ pc = "hostname_again" => image'.hostname = "config"
         /\ pc \in {"resolv_conf", "resolv_conf_again"} => image'.resolv = "filtered"
         /\ pc = "resolved_link" =>
              image'.resolv = IF cfg.openstack /\ cfg.distro = "arch" THEN "resolved"
                              ELSE image.resolv
         /\ pc = "fstab" => image'.fstab = uuid
         /\ pc = "machine_id" /\ cfg.machineId => image'.machineId = "given"
         /\ pc = "run_scripts" /\ image.machineId = "given" => image'.machineId = "given"
         /\ pc = "clean_machine_id" =>
              image'.machineId = IF cfg.openstack /\ ~cfg.machineId THEN "empty"
                                 ELSE image.machineId
         /\ pc = "host_loader" =>
              image'.root = IF cfg.bootloader = "host-extlinux" THEN uuid ELSE image.root
         /\ pc = "grub_cfg" /\ cfg.bootloader \notin AnyGrub => image'.root = image.root
         /\ pc = "grub_root" =>
              image'.root = IF cfg.bootloader \in AnyGrub THEN uuid ELSE image.root
<1>1. pc = "resolv_conf" => ResolvConfFirst
  BY NextGroup, SetUpCalls, SMT DEF SetUpAt, SetUp
<1>2. /\ pc = "hostname_again" => HostnameAgain
      /\ pc = "resolv_conf_again" => ResolvConfAgain
      /\ pc = "fstab" => CreateFstab
      /\ pc = "machine_id" => CreateMachineId
      /\ pc = "host_loader" => InstallHostLoader
  BY NextGroup, ConfigureCalls, SMT DEF ConfigureAt, AfterBoot, Configure
<1>3. /\ pc = "grub_cfg" => GenerateGrubCfg
      /\ pc = "grub_root" => FixGrubRootDevice
  BY NextGroup, ProvisionBootCalls, SMT DEF BootAt, ProvisionBoot
<1>4. pc = "run_scripts" => RunChrootScripts
  BY NextGroup, ChrootScriptsCalls, SMT DEF ScriptsAt, ChrootScripts
<1>5. /\ pc = "clean_machine_id" => CleanMachineId
      /\ pc = "resolved_link" => HandOverResolvConf
  BY NextGroup, ShipCalls, SMT DEF ShipAt, Ship
<1> USE DEF StateOK, ContentsOK, ImageType
<1>6. pc = "hostname_again" => image'.hostname = "config"
  BY <1>2 DEF HostnameAgain, SetHostname, Write
<1>7. pc \in {"resolv_conf", "resolv_conf_again"} => image'.resolv = "filtered"
  BY <1>1, <1>2 DEF ResolvConfFirst, ResolvConfAgain, SetResolvConf, Write
<1>8. pc = "resolved_link" =>
        image'.resolv = IF cfg.openstack /\ cfg.distro = "arch" THEN "resolved" ELSE image.resolv
  BY <1>5 DEF HandOverResolvConf, Write
<1>9. pc = "fstab" => image'.fstab = uuid
  BY <1>2 DEF CreateFstab, Write
<1>10. pc = "machine_id" /\ cfg.machineId => image'.machineId = "given"
  BY <1>2 DEF CreateMachineId, Write
<1>11. pc = "run_scripts" /\ image.machineId = "given" => image'.machineId = "given"
  BY <1>4 DEF RunChrootScripts, Write
<1>12. pc = "clean_machine_id" =>
         image'.machineId = IF cfg.openstack /\ ~cfg.machineId THEN "empty" ELSE image.machineId
  BY <1>5 DEF CleanMachineId, Write
<1>13. pc = "host_loader" =>
         image'.root = IF cfg.bootloader = "host-extlinux" THEN uuid ELSE image.root
  BY <1>2 DEF InstallHostLoader, HostGrub, ChrootGrub, AnyGrub
<1>14. pc = "grub_cfg" /\ cfg.bootloader \notin AnyGrub => image'.root = image.root
  BY <1>3 DEF GenerateGrubCfg, Write
<1>15. pc = "grub_root" =>
         image'.root = IF cfg.bootloader \in AnyGrub THEN uuid ELSE image.root
  BY <1>3 DEF FixGrubRootDevice, Write
<1>16. QED
  BY <1>6, <1>7, <1>8, <1>9, <1>10, <1>11, <1>12, <1>13, <1>14, <1>15

(* The UUID is settled before anything is told about it.                   *)
LEMMA UuidKept == ASSUME Next, ~unwinding', pc # "uuid" PROVE uuid' = uuid
<1>1. CASE pc \notin DiskWriters
  BY <1>1, DiskKept
<1>2. CASE pc \in {"mklabel", "mkpart", "boot_flag", "disk_id"}
  <2>1. MakeLabel \/ MakePartition \/ SetBootFlag \/ SetDiskId
    BY <1>2, NextGroup, PrepareCalls, SMT DEF Preparation, Prepare
  <2>2. QED
    BY <2>1, Zenon DEF MakeLabel, MakePartition, SetBootFlag, SetDiskId, KeepTrying, contents
<1>3. CASE pc = "format"
  <2>1. FormatPartitions
    BY <1>3, NextGroup, SetUpCalls, SMT DEF SetUpAt, SetUp
  <2>2. QED
    BY <2>1 DEF FormatPartitions
<1>4. CASE pc = "host_loader"
  <2>1. InstallHostLoader
    BY <1>4, NextGroup, ConfigureCalls, SMT DEF ConfigureAt, AfterBoot, Configure
  <2>2. QED
    BY <2>1 DEF InstallHostLoader
<1>5. CASE pc = "chroot_loader"
  <2>1. InstallChrootLoader
    BY <1>5, NextGroup, ProvisionSystemCalls, SMT DEF SystemAt, ProvisionSystem
  <2>2. QED
    BY <2>1 DEF InstallChrootLoader
<1>6. QED
  BY <1>1, <1>2, <1>3, <1>4, <1>5 DEF DiskWriters

LEMMA ConfigNames ==
  {"resolv_conf", "directory_bootstrap", "hostname_again", "resolv_conf_again", "fstab",
   "machine_id", "pre_scripts", "host_loader", "mount_nondisk", "grub_root", "copy_scripts",
   "clean_machine_id", "shipping_clean_up", "resolved_link", "autostart_on"} \subseteq Labels
BY LabelFacts DEF InRoot, BeforeBoot, AfterBoot, InChroot

LEMMA ConfigStep ==
  ASSUME StateOK, StateOK', Next, ~unwinding, ~unwinding', ConfigProgress PROVE ConfigProgress'
<1>1. Onward /\ cfg' = cfg
  BY NextOnward, NextKeeps
<1>2. Rank[pc] <= Rank[pc'] /\ Rank[pc] \in Nat /\ Rank[pc'] \in Nat
  BY <1>1, OnwardRanks
<1>3. CASE pc \notin {"format", "directory_bootstrap"}
  <2>1. Settled
    BY <1>3, NextSettled
  <2>2. /\ Reached("fstab")' => Reached("fstab") \/ pc = "resolv_conf_again"
        /\ Reached("autostart_on")' => Reached("autostart_on") \/ pc = "resolved_link"
        /\ Reached("resolv_conf_again")' => Reached("resolv_conf_again") \/ pc = "hostname_again"
        /\ Reached("machine_id")' => Reached("machine_id") \/ pc = "fstab"
        /\ Reached("pre_scripts")' => Reached("pre_scripts") \/ pc = "machine_id"
        /\ Reached("shipping_clean_up")' => Reached("shipping_clean_up") \/ pc = "clean_machine_id"
        /\ Reached("mount_nondisk")' => Reached("mount_nondisk") \/ pc = "host_loader"
        /\ Reached("copy_scripts")' => Reached("copy_scripts") \/ pc = "grub_root"
    BY <1>1, <1>3, Crossing, ConfigNames, Ranks, SMT
  <2>3. (pc = "directory_bootstrap" \/ Between("fstab", "resolved_link") =>
           image.resolv = "filtered")'
    <3>1. pc' = "directory_bootstrap" => pc = "resolv_conf"
      BY <1>1, <1>3, Entering, ConfigNames, Ranks
    <3>2. Between("fstab", "resolved_link")' =>
            pc = "resolv_conf_again" \/ (pc # "resolved_link" /\ Between("fstab", "resolved_link"))
      BY <1>1, <1>2, <2>2, Ranks DEF Between, Reached, Onward, Loops
    <3>3. Between("fstab", "resolved_link") => pc \notin {"resolv_conf", "resolv_conf_again"}
      BY Ranks DEF Between
    <3>4. QED
      BY <2>1, <3>1, <3>2, <3>3, Settings DEF ConfigProgress, Settled
  <2>4. (Reached("autostart_on") =>
           image.resolv = IF cfg.openstack /\ cfg.distro = "arch" THEN "resolved" ELSE "filtered")'
    <3>1. Reached("autostart_on") => pc \notin {"resolv_conf", "resolv_conf_again", "resolved_link"}
      BY Ranks DEF Reached
    <3>2. pc = "resolved_link" => Between("fstab", "resolved_link")
      BY Ranks DEF Between
    <3>3. QED
      BY <1>1, <2>1, <2>2, <3>1, <3>2, Settings DEF ConfigProgress, Settled
  <2>5. (Reached("resolv_conf_again") => image.hostname = "config")'
    <3>1. Reached("resolv_conf_again") => pc \notin {"hostname", "hostname_again"}
      BY Ranks DEF Reached
    <3>2. QED
      BY <2>1, <2>2, <3>1, Settings DEF ConfigProgress, Settled
  <2>6. Reached("machine_id") \/ Reached("mount_nondisk") \/ Reached("copy_scripts")
        \/ pc \in {"fstab", "host_loader", "grub_root"} => uuid' = uuid
    <3>1. ~(Reached("machine_id") \/ Reached("mount_nondisk") \/ Reached("copy_scripts"))
          \/ pc # "uuid"
      BY Ranks DEF Reached
    <3>2. QED
      BY <3>1, UuidKept
  <2>7. (Reached("machine_id") => image.fstab = uuid)'
    <3>1. Reached("machine_id") => pc # "fstab"
      BY Ranks DEF Reached
    <3>2. QED
      BY <2>1, <2>2, <2>6, <3>1, Settings DEF ConfigProgress, Settled
  <2>8. (Reached("pre_scripts") => (cfg.machineId => image.machineId = "given"))'
    <3>1. Reached("pre_scripts") => pc # "machine_id"
      BY Ranks DEF Reached
    <3>2. QED
      BY <1>1, <2>1, <2>2, <3>1, Settings DEF ConfigProgress, Settled
  <2>9. (Reached("shipping_clean_up") =>
           (cfg.openstack /\ ~cfg.machineId => image.machineId = "empty"))'
    <3>1. Reached("shipping_clean_up") =>
            pc \notin {"machine_id", "run_scripts", "clean_machine_id"}
      BY Ranks DEF Reached
    <3>2. QED
      BY <1>1, <2>1, <2>2, <3>1, Settings DEF ConfigProgress, Settled
  <2>10. (Reached("mount_nondisk") => (cfg.bootloader = "host-extlinux" => image.root = uuid))'
    <3>1. Reached("mount_nondisk") => pc # "host_loader"
      BY Ranks DEF Reached
    <3>2. cfg.bootloader = "host-extlinux" => cfg.bootloader \notin AnyGrub
      BY DEF AnyGrub
    <3>3. QED
      BY <1>1, <2>1, <2>2, <2>6, <3>1, <3>2, Settings DEF ConfigProgress, Settled
  <2>11. (Reached("copy_scripts") => (cfg.bootloader \in AnyGrub => image.root = uuid))'
    <3>1. Reached("copy_scripts") => pc \notin {"host_loader", "grub_cfg", "grub_root"}
      BY Ranks DEF Reached
    <3>2. QED
      BY <1>1, <2>1, <2>2, <2>6, <3>1, Settings DEF ConfigProgress, Settled
  <2>12. QED
    BY <2>3, <2>4, <2>5, <2>7, <2>8, <2>9, <2>10, <2>11 DEF ConfigProgress
<1>4. CASE pc \in {"format", "directory_bootstrap"}
  <2>1. CASE FormatPartitions
    <3>1. pc' = "uuid"
      BY <2>1 DEF FormatPartitions, Goto, Move
    <3>2. QED
      BY <3>1, Ranks DEF ConfigProgress, Reached, Between
  <2>2. CASE BootstrapperMounts
    <3>1. UNCHANGED <<image, uuid>> /\ pc' = pc
      BY <2>2 DEF BootstrapperMounts, Move, contents
    <3>2. QED
      BY <1>1, <3>1 DEF ConfigProgress, Reached, Between
  <2>3. CASE DirectoryBootstrap
    <3>1. pc' = "load_mounts"
      BY <2>3 DEF DirectoryBootstrap, Goto, Move
    <3>2. QED
      BY <3>1, Ranks DEF ConfigProgress, Reached, Between
  <2>4. QED
    BY <1>4, <2>1, <2>2, <2>3, NextGroup, SetUpCalls, RefuseUnwinds, SMT DEF SetUpAt, SetUp
<1>5. QED
  BY <1>3, <1>4

(* Progress is inductive.                                                  *)
LEMMA AlwaysProgress == Spec => []Progress
<1>1. Init => Progress
  <2> SUFFICES ASSUME Init PROVE Progress
    OBVIOUS
  <2>1. pc = "unshare" /\ uuid = (IF cfg.uuidGiven THEN "given" ELSE "none") /\ image = EmptyImage
    BY DEF Init
  <2>2. image.files = {}
    BY <2>1 DEF EmptyImage
  <2>3. DiskProgress /\ ConfigProgress /\ MountProgress
    BY <2>1, Ranks DEF DiskProgress, ConfigProgress, MountProgress, Reached, Between
  <2>4. InstallProgress
    BY <2>1, Ranks DEF InstallProgress, Reached
  <2>5. ~(Between("root_password", "autostart_on") \/ Between("load_mounts", "shipping_clean_up"))
    BY <2>1, Ranks DEF Between
  <2>6. RemovalProgress
    BY <2>2, <2>5 DEF RemovalProgress
  <2>7. QED
    BY <2>3, <2>4, <2>6 DEF Progress
<1>2. ASSUME StateOK, StateOK', Progress, [Next]_vars PROVE Progress'
  <2>1. CASE UNCHANGED vars
    BY <1>2, <2>1
    DEF vars, control, resources, contents, Progress, DiskProgress, ConfigProgress,
        InstallProgress, RemovalProgress, MountProgress, Reached, Between, DebianBased, NonDiskSet
  <2>2. CASE Next /\ ~unwinding'
    <3>1. ~unwinding
      BY <1>2, <2>2, OnlyThrowUnwinds DEF StateOK, ControlOK
    <3>2. QED
      BY <1>2, <2>2, <3>1, DiskStep, ConfigStep, InstallStep, RemovalStep, MountStep DEF Progress
  <2>3. QED
    BY <1>2, <2>1, <2>2 DEF Progress
<1>3. QED
  BY <1>1, <1>2, AlwaysStateOK, PTL DEF Spec

(* A run that succeeded has come past every call.                          *)
LEMMA AllReached ==
  ASSUME Succeeded, Progress
  PROVE  /\ DiskProgress /\ ConfigProgress /\ InstallProgress /\ RemovalProgress
         /\ Reached("mkdtemp") /\ Reached("boot_flag") /\ Reached("disk_id")
         /\ Reached("mount_nondisk") /\ Reached("dhcp_client")
         /\ Reached("autostart_on") /\ Reached("resolv_conf_again") /\ Reached("machine_id")
         /\ Reached("pre_scripts") /\ Reached("shipping_clean_up") /\ Reached("copy_scripts")
         /\ Reached("grub_package") /\ Reached("grub_defaults") /\ Reached("grub_root")
         /\ Reached("umount_nondisk") /\ Reached("resolved_link") /\ Reached("clean_machine_id")
         /\ Reached("post_scripts")
<1>1. pc = "exit" /\ DiskProgress /\ ConfigProgress /\ InstallProgress /\ RemovalProgress
  BY DEF Succeeded, Progress
<1>2. QED
  BY <1>1, Ranks DEF Reached

(* Nothing of the build host is left in the image of a run that succeeds,  *)
(* whatever the bootstrapper copied into it, for all command lines and all *)
(* failures met and survived (README.md:82 and :87-88).                    *)
THEOREM NoHostLeakHolds == Spec => []NoHostLeak
<1>1. ASSUME Progress PROVE NoHostLeak
  BY <1>1, AllReached DEF NoHostLeak, ConfigProgress, RemovalProgress
<1>2. QED
  BY <1>1, AlwaysProgress, PTL

(* The keys and the machine id of an OpenStack image are not shipped, and  *)
(* a machine id the user asked for survives (engine.py:986-994).           *)
THEOREM NoSharedIdentityHolds == Spec => []NoSharedIdentity
<1>1. ASSUME StateOK, Progress PROVE NoSharedIdentity
  <2>1. Succeeded => "ssh host keys" \notin image.files \/ ~cfg.openstack
    BY <1>1, AllReached DEF RemovalProgress
  <2>2. Succeeded /\ cfg.openstack => "pacman keys" \notin image.files
    BY <1>1, AllReached DEF RemovalProgress
  <2>3. Succeeded => /\ cfg.machineId => image.machineId = "given"
                     /\ cfg.openstack /\ ~cfg.machineId => image.machineId = "empty"
    BY <1>1, AllReached DEF ConfigProgress
  <2>4. QED
    BY <2>1, <2>2, <2>3 DEF NoSharedIdentity
<1>2. QED
  BY <1>1, AlwaysProgress, AlwaysStateOK, PTL

(* fstab and the boot loader name the file system that is on the disk, and *)
(* it has the UUID asked for (engine.py:409-425, :939, :978-980).          *)
THEOREM UuidAgreementHolds == Spec => []UuidAgreement
<1>1. ASSUME StateOK, Progress, Succeeded
      PROVE  /\ image.fstab = disk.uuid
             /\ disk.uuid = IF cfg.uuidGiven THEN "given" ELSE "mkfs"
             /\ cfg.bootloader # "none" => image.root = disk.uuid
  <2>1. cfg.bootloader \in AnyGrub \cup {"host-extlinux", "none"}
    BY <1>1, ConfigsAssumption DEF StateOK, ConfigType
  <2>2. disk.uuid = uuid /\ uuid = IF cfg.uuidGiven THEN "given" ELSE "mkfs"
    BY <1>1, AllReached DEF DiskProgress
  <2>3. /\ image.fstab = uuid
        /\ cfg.bootloader = "host-extlinux" => image.root = uuid
        /\ cfg.bootloader \in AnyGrub => image.root = uuid
    BY <1>1, AllReached DEF ConfigProgress
  <2>4. QED
    BY <2>1, <2>2, <2>3
<1>2. QED
  BY <1>1, AlwaysProgress, AlwaysStateOK, PTL DEF UuidAgreement

(* A run that succeeds leaves a device the boot loader asked for can boot, *)
(* for all distributions, boot loaders and failures survived.              *)
THEOREM BootableHolds == Spec => []Bootable
<1>1. ASSUME StateOK, Progress, Succeeded, cfg.bootloader # "none"
      PROVE  /\ disk.partition
             /\ disk.loader = IF cfg.bootloader \in AnyGrub THEN "grub" ELSE "extlinux"
             /\ {"kernel", "initramfs"} \subseteq image.files
             /\ cfg.bootloader \in AnyGrub => "grub.cfg" \in image.files
             /\ disk.boot = "on" \/ cfg.diskId = "spills" \/ <<"boot_flag", "refused">> \in faults
  <2>1. /\ cfg.bootloader \in AnyGrub => cfg.bootloader \in HostGrub \/ cfg.bootloader \in ChrootGrub
        /\ cfg.bootloader \notin AnyGrub => cfg.bootloader = "host-extlinux"
    BY <1>1, ConfigsAssumption DEF StateOK, ConfigType, ChrootGrub
  <2>2. /\ disk.partition
        /\ disk.boot = "on" \/ cfg.diskId = "spills" \/ <<"boot_flag", "refused">> \in faults
        /\ cfg.bootloader \in HostGrub \/ cfg.bootloader \in ChrootGrub => disk.loader = "grub"
        /\ cfg.bootloader = "host-extlinux" => disk.loader = "extlinux"
    BY <1>1, AllReached DEF DiskProgress
  <2>3. /\ "kernel" \in image.files /\ "initramfs" \in image.files
        /\ cfg.bootloader \in AnyGrub => "grub.cfg" \in image.files
    BY <1>1, AllReached DEF InstallProgress
  <2>4. QED
    BY <2>1, <2>2, <2>3
<1>2. QED
  BY <1>1, AlwaysProgress, AlwaysStateOK, PTL DEF Bootable

(* Every call finds in the image what it works on: the order of the calls  *)
(* in engine.py:932-1015 is right for every distribution, boot loader and  *)
(* option.                                                                 *)
THEOREM ToolsPresentHolds == Spec => []ToolsPresent
<1>1. ASSUME OnTheWayOut, unwinding PROVE ToolsPresent
  BY <1>1 DEF OnTheWayOut, FinallyClauses, ToolsPresent, Needs
<1>2. ASSUME Progress, ~unwinding PROVE ToolsPresent
  <2>1. InstallProgress /\ RemovalProgress
    BY <1>2 DEF Progress
  <2>2. /\ pc = "kernel" => Reached("kernel")
        /\ pc = "chroot_loader" => Reached("chroot_loader")
        /\ pc = "cloud_cfg" => Reached("cloud_cfg")
        /\ pc = "services" => Reached("services") /\ Reached("cloud_cfg")
        /\ pc = "network" => Reached("sudo")
        /\ pc = "initramfs" => Reached("grub_package")
        /\ pc = "grub_defaults" => Reached("chroot_loader")
        /\ pc = "grub_cfg" =>
             Reached("chroot_loader") /\ Reached("grub_package") /\ Reached("grub_defaults")
        /\ pc = "grub_root" => Reached("grub_root")
        /\ pc = "delete_sshd_keys" => Reached("services")
        /\ pc = "shipping_clean_up" => Between("load_mounts", "shipping_clean_up")
    BY Ranks DEF Reached, Between
  <2>3. cfg.bootloader \in ChrootGrub => cfg.bootloader \in AnyGrub
    BY DEF ChrootGrub
  <2>4. CASE pc \in {"kernel", "chroot_loader", "cloud_cfg", "services"}
    BY <2>1, <2>2, <2>3, <2>4 DEF InstallProgress, ToolsPresent, Needs
  <2>5. CASE pc \in {"network", "initramfs", "grub_defaults", "grub_cfg"}
    BY <2>1, <2>2, <2>5 DEF InstallProgress, ToolsPresent, Needs
  <2>6. CASE pc \in {"grub_root", "delete_sshd_keys"}
    BY <2>1, <2>2, <2>6 DEF InstallProgress, ToolsPresent, Needs
  <2>7. CASE pc = "shipping_clean_up"
    BY <2>1, <2>2, <2>7 DEF RemovalProgress, ToolsPresent, Needs
  <2>8. CASE pc \notin {"kernel", "chroot_loader", "cloud_cfg", "services", "network", "initramfs",
                        "grub_defaults", "grub_cfg", "grub_root", "delete_sshd_keys",
                        "shipping_clean_up"}
    BY <2>8 DEF ToolsPresent, Needs
  <2>9. QED
    BY <2>4, <2>5, <2>6, <2>7, <2>8
<1>3. QED
  BY <1>1, <1>2, AlwaysProgress, AlwaysOnTheWayOut, PTL

(* Whatever installs packages or runs code in the chroot finds it set up:  *)
(* none of these calls is made while an exception propagates, and on the   *)
(* way forward mounts and configuration are in place (engine.py:892).      *)
THEOREM InstallEnvironmentHolds == Spec => []InstallEnvironment
<1>1. ASSUME OnTheWayOut, unwinding PROVE InstallEnvironment
  BY <1>1 DEF OnTheWayOut, FinallyClauses, InstallEnvironment, InstallCalls
<1>2. ASSUME Progress, ~unwinding PROVE InstallEnvironment
  <2>1. ConfigProgress /\ RemovalProgress /\ MountProgress
    BY <1>2 DEF Progress
  <2>2. pc \in InstallCalls => /\ Between("autostart_off", "autostart_on")
                               /\ Between("root_password", "autostart_on")
                               /\ Between("fstab", "resolved_link")
                               /\ Between("load_mounts", "shipping_clean_up")
    BY Ranks DEF InstallCalls, Between
  <2>3. pc = "directory_bootstrap" => Between("mkdir_etc", "directory_bootstrap")
    BY Ranks DEF Between
  <2>4. QED
    BY <2>1, <2>2, <2>3 DEF ConfigProgress, RemovalProgress, MountProgress, InstallEnvironment
<1>3. QED
  BY <1>1, <1>2, AlwaysProgress, AlwaysOnTheWayOut, PTL

(***************************************************************************)
(* What run() takes and gives back.  Every place of AcquisitionOrder has a *)
(* moment from which it may be taken (Started) and a moment at which       *)
(* nobody answers for it any more (Passed), both read off Rank[pc] and k.  *)
(* Every step moves on, in the order of Rank or within a loop, and takes   *)
(* one place, gives one back or changes nothing taken; a place that passes *)
(* while it is taken is lost.  That is a step of module Lease.             *)
(***************************************************************************)
N == Len(Leftovers)

Taken(p)    == Present(AcquisitionOrder[p])
Answered(p) == Answerable(AcquisitionOrder[p])

(* The moment from which on place p may be taken, and the moment at which  *)
(* nobody answers for it any more.                                         *)
StartedAt(p, r, i) ==
  CASE p = 1 -> r > 9
    [] p = 2 -> r > 14
    [] p = 3 -> r > 15
    [] p \in 4..(3 + N) -> r > 19 \/ (r = 19 /\ p < 3 + i)
    [] p \in (4 + N)..(8 + N) -> r > 28 \/ (r = 28 /\ p < 3 + N + i)
    [] OTHER -> r > 48
PassedAt(p, r, i) ==
  CASE p = 1 -> r > 61
    [] p = 2 -> r > 60
    [] p = 3 -> r > 59
    [] p \in 4..(3 + N) -> r > 21 \/ (r = 21 /\ p > 3 + i)
    [] p \in (4 + N)..(8 + N) -> r > 56 \/ (r = 56 /\ p > 3 + N + i)
    [] OTHER -> r > 50

Started(p) == StartedAt(p, Rank[pc], k)
Passed(p)  == PassedAt(p, Rank[pc], k)

(* What is taken may be: none is there before its moment.                  *)
Fresh == \A p \in Places : Taken(p) => Started(p)

(* What is taken is answered for until it is passed.                       *)
Split == \A p \in Places : Taken(p) => (Answered(p) <=> ~Passed(p))

(* A step takes place n, gives it back or leaves all places as they are.   *)
(* What is held along with n is outside of it.                             *)
Others(n) == \A p \in Places \ {n} : /\ Taken(p)' <=> Taken(p)
                                     /\ Taken(p) /\ ~Passed(p) => p < n /\ ~Passed(p)'
Takes(n) == Taken(n)' /\ Started(n)' /\ Others(n)
Gives(n) == ~Taken(n)' /\ ~Passed(n) /\ Others(n)
Same == \A p \in Places : Taken(p)' <=> Taken(p)

(***************************************************************************)
(* Every step moves on in the order of Rank, or stays in a loop.           *)
(***************************************************************************)
Looping == \/ k' = k
           \/ pc \in {"directory_bootstrap", "mount_nondisk"} /\ k' = k + 1
           \/ pc \in {"umount_leftover", "umount_nondisk"} /\ k' = k - 1

Going == \/ pc' = pc /\ Looping
         \/ pc' = Handler(pc)
         \/ Rank[pc'] = Rank[pc] + 1
         \/ pc = "kpartx_update" /\ pc' = "device_node"
         \/ pc = "copy_scripts" /\ pc' = "delete_sshd_keys"

LEMMA PrepareGoes == ASSUME Prepare PROVE Going
<1>1. CASE Unshare \/ CheckDeviceSize \/ KpartxList \/ DeviceNode
  BY <1>1, PrepareRanks, QuietGoes, Zenon DEF Unshare, CheckDeviceSize, KpartxList, DeviceNode, Going
<1>2. CASE PartProbe \/ SetBootFlag
  BY <1>2, PrepareRanks, Zenon DEF PartProbe, SetBootFlag, KeepTrying, Raise, Throw, Move, Going, Looping
<1> QED
  BY <1>1, <1>2, PrepareRanks, Zenon
  DEF Prepare, MakeLabel, MakePartition, SetDiskId, KpartxUpdate, KpartxAdd, Goto, Move, Going

LEMMA SetUpGoes == ASSUME SetUp PROVE Going
<1>1. CASE MakeEtc \/ LoadMounts
  BY <1>1, SetUpRanks, QuietGoes, Zenon DEF MakeEtc, LoadMounts, Going
<1>2. CASE HostnameFirst \/ ResolvConfFirst
  BY <1>2, SetUpRanks, WriteGoes, Zenon DEF HostnameFirst, ResolvConfFirst, SetHostname, SetResolvConf, Going
<1>3. CASE UnmountLeftovers
  BY <1>3, SetUpRanks, Zenon
  DEF UnmountLeftovers, KeepTrying, Continuation, Goto, Raise, Throw, Move, Going, Looping
<1>4. CASE BootstrapperMounts \/ DirectoryBootstrap \/ RefuseBootloader
  BY <1>4, SetUpRanks, Zenon
  DEF BootstrapperMounts, DirectoryBootstrap, RefuseBootloader, Goto, Throw, Move, Going, Looping
<1>5. CASE MakeMountPoint \/ MountRoot \/ FormatPartitions \/ SetOrGatherUuid
  BY <1>5, SetUpRanks, Zenon
  DEF MakeMountPoint, MountRoot, FormatPartitions, SetOrGatherUuid, Goto, Raise, Throw, Move, Going
<1> QED
  BY <1>1, <1>2, <1>3, <1>4, <1>5 DEF SetUp

LEMMA ConfigureGoes == ASSUME Configure PROVE Going
<1>1. CASE RunPreScripts
  BY <1>1, ConfigureRanks, QuietGoes, Zenon DEF RunPreScripts, Going
<1>2. CASE HostnameAgain \/ ResolvConfAgain \/ CreateFstab \/ CreateMachineId
  BY <1>2, ConfigureRanks, WriteGoes, Zenon
  DEF HostnameAgain, ResolvConfAgain, CreateFstab, CreateMachineId, SetHostname, SetResolvConf, Going
<1>3. CASE InstallHostLoader \/ MountNonDisk
  BY <1>3, ConfigureRanks, Zenon DEF InstallHostLoader, MountNonDisk, Goto, Move, Going, Looping
<1> QED
  BY <1>1, <1>2, <1>3 DEF Configure

LEMMA ProvisionGoes == ASSUME ProvisionSystem \/ ProvisionOpenstack \/ ProvisionBoot PROVE Going
<1>1. CASE ProvisionSystem
  BY <1>1, ProvisionSystemRanks, QuietGoes, WriteGoes, Zenon
  DEF ProvisionSystem, AutostartOff, SetRootPassword, PreparePackages, InstallKernel, InstallGrub,
      InstallChrootLoader, Install, Put, Goto, Move, Going
<1>2. CASE ProvisionOpenstack
  BY <1>2, ProvisionOpenstackRanks, QuietGoes, WriteGoes, Zenon
  DEF ProvisionOpenstack, InstallDhcpClient, InstallSudo, InstallCloudInit, ConfigureCloudInit,
      InstallSshd, ServicesAutostart, ConfigureConsole, InstallAcpid, Install, Put, Going
<1>3. CASE ProvisionBoot
  BY <1>3, ProvisionBootRanks, QuietGoes, WriteGoes, Zenon
  DEF ProvisionBoot, CreateNetworkConfiguration, GenerateInitramfs, AdjustGrubDefaults,
      GenerateGrubCfg, FixGrubRootDevice, Put, Going
<1> QED  BY <1>1, <1>2, <1>3

LEMMA ShipGoes == ASSUME ChrootScripts \/ Ship PROVE Going
<1>1. CASE CopyChrootScripts
  BY <1>1, ShipRanks, Zenon DEF CopyChrootScripts, Raise, Throw, Goto, Move, Going
<1>2. CASE RunChrootScripts
  BY <1>2, ShipRanks, WriteGoes, Zenon DEF RunChrootScripts, Going
<1>3. CASE RemoveChrootScripts
  BY <1>3, ShipRanks, WriteGoes, Zenon DEF RemoveChrootScripts, Remove, Continuation, Going
<1>4. CASE Ship
  BY <1>4, ShipRanks, WriteGoes, Zenon
  DEF Ship, DeleteSshdKeys, CleanMachineId, ShippingCleanUp, HandOverResolvConf, AutostartOn, Remove, Going
<1> QED
  BY <1>1, <1>2, <1>3, <1>4 DEF ChrootScripts

LEMMA WayOutGoes == ASSUME WayOut PROVE Going
<1>1. CASE UnmountNonDisk
  BY <1>1, WayOutRanks, Zenon
  DEF UnmountNonDisk, KeepTrying, Continuation, Goto, Raise, Throw, Move, Going, Looping
<1>2. CASE PostCleanUp \/ RunPostScripts
  BY <1>2, WayOutRanks, WriteGoes, QuietGoes, Zenon DEF PostCleanUp, RunPostScripts, Remove, Going
<1>3. CASE UnmountRoot \/ RemoveMountPoint \/ RemovePartitionDevices
  BY <1>3, WayOutRanks, Zenon
  DEF UnmountRoot, RemoveMountPoint, RemovePartitionDevices, KeepTrying, Raise, Throw, Move, Going, Looping
<1> QED
  BY <1>1, <1>2, <1>3 DEF WayOut

LEMMA NextGoes == ASSUME Next PROVE Going
<1>1. CASE Fault \/ Finished
  BY <1>1 DEF Fault, Finished, Raise, Throw, vars, control, Going, Looping
<1> QED
  BY <1>1, PrepareGoes, SetUpGoes, ConfigureGoes, ProvisionGoes, ShipGoes, WayOutGoes
  DEF Next, Call

(* An exception is handled later than it was raised.                       *)
LEMMA HandlerRank == \A l \in Calls : Rank[Handler(l)] > Rank[l]
<1>1. \A l \in InDevices : Rank["remove_devices"] > Rank[l]
  BY Ranks DEF InDevices
<1>2. \A l \in InDir : Rank["rmdir"] > Rank[l]
  BY Ranks DEF InDir
<1>3. \A l \in InRoot : Rank["umount_root"] > Rank[l]
  BY Ranks DEF InRoot, BeforeBoot, AfterBoot, AfterChroot
<1>4. \A l \in InChroot : Rank["umount_nondisk"] > Rank[l]
  BY Ranks DEF InChroot
<1>5. \A l \in Preparation : Rank["exit"] > Rank[l]
  BY Ranks DEF Preparation
<1>6. Rank["load_mounts"] > Rank["directory_bootstrap"] /\ Rank["remove_scripts"] > Rank["run_scripts"]
      /\ Rank["exit"] > Rank["remove_devices"]
  BY Ranks
<1>7. \A l \in Preparation \cup {"remove_devices"} : Handler(l) = "exit"
  BY DEF Handler, Preparation, InDevices, InDir, InRoot, BeforeBoot, AfterBoot, AfterChroot, InChroot
<1>8. \A l \in Calls : /\ l = "directory_bootstrap" => Handler(l) = "load_mounts"
                       /\ l = "run_scripts" => Handler(l) = "remove_scripts"
                       /\ l \in InChroot => Handler(l) = "umount_nondisk"
                       /\ l \in InRoot => Handler(l) = "umount_root"
                       /\ l \in InDir => Handler(l) = "rmdir"
                       /\ l \in InDevices => Handler(l) = "remove_devices"
  BY DEF Handler, InChroot, InRoot, BeforeBoot, AfterBoot, AfterChroot, InDir, InDevices
<1>9. \A l \in Calls : \/ l \in Preparation \cup {"remove_devices"} \/ l \in InDevices \/ l \in InDir
                       \/ l \in InRoot \/ l \in InChroot \/ l = "directory_bootstrap"
                       \/ l = "run_scripts"
  BY Zenon DEF Calls
<1> HIDE DEF Calls, Handler, Rank
<1> QED
  BY <1>1, <1>2, <1>3, <1>4, <1>5, <1>6, <1>7, <1>8, <1>9

Forward == \/ Rank[pc] < Rank[pc']
           \/ pc' = pc /\ Looping

LEMMA NextForward ==
  ASSUME StateOK, StateOK', Next
  PROVE  /\ Forward
         /\ Rank[pc] \in Nat /\ Rank[pc'] \in Nat /\ k \in Nat /\ k' \in Nat
<1>1. /\ pc \in Labels /\ pc' \in Labels
      /\ Rank[pc] \in Nat /\ Rank[pc'] \in Nat
  BY RankType DEF StateOK, ControlOK
<1>2. StateOK' => (k \in Nat)'  BY NaturalIndex, PTL
<1>3. k \in Nat /\ k' \in Nat  BY <1>2, NaturalIndex
<1>4. Forward
  <2>1. CASE pc = "exit"
    <3>1. pc' = pc /\ k' = k
      BY <2>1, GroupCalls, Ranks DEF Next, Call, Fault, Finished, vars, control, Preparation, SetUpAt,
         ConfigureAt, AfterBoot, SystemAt, OpenstackAt, BootAt, ScriptsAt, ShipAt, WayOutAt
    <3> QED  BY <3>1 DEF Forward, Looping
  <2>2. CASE pc \in Calls /\ pc' = Handler(pc)
    BY <2>2, HandlerRank DEF Forward
  <2>3. CASE Going /\ pc' # Handler(pc)
    BY <2>3, <1>1, Ranks DEF Going, Forward
  <2> QED  BY <1>1, <2>1, <2>2, <2>3, NextGoes DEF Labels
<1> QED  BY <1>1, <1>3, <1>4

(***************************************************************************)
(* The places, from the outside in.                                        *)
(***************************************************************************)
Joined(s, t, u, m, n) ==
  /\ Len(u) = m + n
  /\ \A i \in 1..m : u[i] = s[i]
  /\ \A i \in 1..n : u[m + i] = t[i]

LEMMA Concatenation ==
  ASSUME NEW S, NEW s \in Seq(S), NEW t \in Seq(S), NEW m, NEW n, Len(s) = m, Len(t) = n
  PROVE  s \o t \in Seq(S) /\ Joined(s, t, s \o t, m, n)
<1>1. /\ s \o t \in Seq(S) /\ Len(s \o t) = m + n
      /\ \A i \in 1..m : (s \o t)[i] = s[i]
      /\ \A i \in 1..n : (s \o t)[m + i] = t[i]
  OBVIOUS
<1> QED  BY <1>1 DEF Joined

(* One type for all names: the prover does not know that they are strings. *)
Names == STRING \cup {"devices", "directory", "root", "dev", "dev/pts", "dev/shm", "proc", "sys",
                      "chroot scripts"}

LEMMA Tuples ==
  ASSUME NEW S
  PROVE  /\ \A a \in S : <<a>> \in Seq(S) /\ Len(<<a>>) = 1
         /\ \A a, b, c \in S : <<a, b, c>> \in Seq(S) /\ Len(<<a, b, c>>) = 3
         /\ \A a, b, c, d, e \in S : <<a, b, c, d, e>> \in Seq(S) /\ Len(<<a, b, c, d, e>>) = 5
OBVIOUS

LEMMA MoreElements == ASSUME NEW S, NEW T, S \subseteq T, NEW s \in Seq(S) PROVE s \in Seq(T)
OBVIOUS

LEMMA NumberOfLeftovers == N \in Nat
BY LengthType DEF N

LEMMA Parts ==
  /\ Leftovers \in Seq(Names) /\ NonDisk \in Seq(Names)
  /\ <<"devices", "directory", "root">> \in Seq(Names) /\ <<"chroot scripts">> \in Seq(Names)
  /\ Len(Leftovers) = N /\ N \in Nat /\ Len(NonDisk) = 5
  /\ Len(<<"devices", "directory", "root">>) = 3 /\ Len(<<"chroot scripts">>) = 1
<1>1. Leftovers \in Seq(Names)  BY LeftoversAssumption, MoreElements, Zenon DEF Names
<1>2. Len(Leftovers) = N  BY DEF N
<1>3. N \in Nat  BY LengthType DEF N
<1>4. NonDisk \in Seq(Names) /\ Len(NonDisk) = 5  BY Tuples, Zenon DEF NonDisk, Names
<1>5. <<"chroot scripts">> \in Seq(Names) /\ Len(<<"chroot scripts">>) = 1
  BY Tuples, Zenon DEF Names
<1>6. /\ <<"devices", "directory", "root">> \in Seq(Names)
      /\ Len(<<"devices", "directory", "root">>) = 3
  BY Tuples, Zenon DEF Names
<1> QED  BY <1>1, <1>2, <1>3, <1>4, <1>5, <1>6, Zenon

(* The order is put together in three steps.                               *)
Frame  == <<"devices", "directory", "root">>
Frame2 == Frame \o Leftovers
Frame3 == Frame2 \o NonDisk

Framed(x, y, z, l, m) ==
  /\ \A i \in 1..x : Frame2[i] = Frame[i]
  /\ \A i \in 1..N : Frame2[x + i] = Leftovers[i]
  /\ \A i \in 1..l : Frame3[i] = Frame2[i]
  /\ \A i \in 1..y : Frame3[l + i] = NonDisk[i]
  /\ \A i \in 1..m : AcquisitionOrder[i] = Frame3[i]
  /\ \A i \in 1..z : AcquisitionOrder[m + i] = <<"chroot scripts">>[i]
  /\ Len(AcquisitionOrder) = m + z

LEMMA Frames ==
  \A x, y, z, l, m : x = 3 /\ y = 5 /\ z = 1 /\ l = x + N /\ m = l + y => Framed(x, y, z, l, m)
<1> TAKE x, y, z, l, m
<1> HAVE x = 3 /\ y = 5 /\ z = 1 /\ l = x + N /\ m = l + y
<1> DEFINE Z == <<"chroot scripts">>
<1>1. /\ Frame \in Seq(Names) /\ Leftovers \in Seq(Names) /\ NonDisk \in Seq(Names)
      /\ Z \in Seq(Names)
      /\ Len(Frame) = x /\ Len(Leftovers) = N /\ Len(NonDisk) = y /\ Len(Z) = z
  BY Parts DEF Frame
<1>2. AcquisitionOrder = Frame3 \o Z
  BY Zenon DEF AcquisitionOrder, Frame3, Frame2, Frame
<1> HIDE DEF Z
<1>3. Frame2 \in Seq(Names) /\ Joined(Frame, Leftovers, Frame2, x, N)
  BY <1>1, Concatenation, Zenon DEF Frame2
<1>4. Len(Frame2) = l  BY <1>3 DEF Joined
<1>5. Frame3 \in Seq(Names) /\ Joined(Frame2, NonDisk, Frame3, l, y)
  BY <1>1, <1>3, <1>4, Concatenation, Zenon DEF Frame3
<1>6. Len(Frame3) = m  BY <1>5 DEF Joined
<1>7. Joined(Frame3, Z, Frame3 \o Z, m, z)
  BY <1>1, <1>5, <1>6, Concatenation, Zenon
<1> QED  BY <1>2, <1>3, <1>5, <1>7, Zenon DEF Z, Joined, Framed

LEMMA Order ==
  /\ N \in Nat /\ Len(AcquisitionOrder) = 9 + N
  /\ AcquisitionOrder[1] = "devices"
  /\ AcquisitionOrder[2] = "directory"
  /\ AcquisitionOrder[3] = "root"
  /\ \A i \in 1..N : AcquisitionOrder[3 + i] = Leftovers[i]
  /\ \A i \in 1..5 : AcquisitionOrder[3 + N + i] = NonDisk[i]
  /\ AcquisitionOrder[9 + N] = "chroot scripts"
<1> DEFINE Z == <<"chroot scripts">>
<1>1. Frame[1] = "devices" /\ Frame[2] = "directory" /\ Frame[3] = "root" /\ Z[1] = "chroot scripts"
  BY DEF Frame
<1> HIDE DEF Z
<1>2. /\ \A i \in 1..3 : Frame2[i] = Frame[i]
      /\ \A i \in 1..N : Frame2[3 + i] = Leftovers[i]
      /\ \A i \in 1..(3 + N) : Frame3[i] = Frame2[i]
      /\ \A i \in 1..5 : Frame3[3 + N + i] = NonDisk[i]
      /\ \A i \in 1..(3 + N + 5) : AcquisitionOrder[i] = Frame3[i]
      /\ \A i \in 1..1 : AcquisitionOrder[3 + N + 5 + i] = Z[i]
      /\ Len(AcquisitionOrder) = 3 + N + 5 + 1
  <2>1. Framed(3, 5, 1, 3 + N, 3 + N + 5)  BY Frames, Zenon
  <2> QED  BY <2>1, Zenon DEF Framed, Z
<1>3. Len(AcquisitionOrder) = 9 + N /\ N \in Nat
  BY <1>2, NumberOfLeftovers
<1>4. \A i \in 1..3 : AcquisitionOrder[i] = Frame[i]
  BY <1>2, NumberOfLeftovers
<1>5. \A i \in 1..N : AcquisitionOrder[3 + i] = Leftovers[i]
  BY <1>2, NumberOfLeftovers
<1>6. \A i \in 1..5 : AcquisitionOrder[3 + N + i] = NonDisk[i]
  BY <1>2, NumberOfLeftovers
<1>7. AcquisitionOrder[9 + N] = Z[1]
  BY <1>2, NumberOfLeftovers
<1>8. /\ AcquisitionOrder[1] = Frame[1] /\ AcquisitionOrder[2] = Frame[2]
      /\ AcquisitionOrder[3] = Frame[3]
  BY <1>4
<1> QED  BY <1>1, <1>3, <1>5, <1>6, <1>7, <1>8, Zenon

(* Each place is one of these.                                             *)
LEMMA EachPlace ==
  /\ Places = 1..(9 + N)
  /\ \A p \in Places : \/ p \in {1, 2, 3, 9 + N}
                       \/ \E i \in 1..N : p = 3 + i
                       \/ \E i \in 1..5 : p = 3 + N + i
<1>1. Places = 1..(9 + N) /\ N \in Nat  BY Order DEF Places
<1>2. ASSUME NEW p \in 1..(9 + N), p \notin {1, 2, 3, 9 + N}
      PROVE  (\E i \in 1..N : p = 3 + i) \/ (\E i \in 1..5 : p = 3 + N + i)
  <2>1. CASE p <= 3 + N
    <3>1. p - 3 \in 1..N /\ p = 3 + (p - 3)  BY <1>1, <1>2, <2>1
    <3> QED  BY <3>1
  <2>2. CASE p > 3 + N
    <3>1. p - 3 - N \in 1..5 /\ p = 3 + N + (p - 3 - N)  BY <1>1, <1>2, <2>2
    <3> QED  BY <3>1
  <2> QED  BY <1>1, <2>1, <2>2
<1>3. \A p \in 1..(9 + N) : \/ p \in {1, 2, 3, 9 + N}
                            \/ \E i \in 1..N : p = 3 + i
                            \/ \E i \in 1..5 : p = 3 + N + i
  BY <1>2, Zenon
<1> QED  BY <1>1, <1>3, Zenon

TakenAsListed ==
  /\ Taken(1) <=> devices
  /\ Taken(2) <=> dir
  /\ Taken(3) <=> "root" \in mounts
  /\ \A i \in 1..N : Taken(3 + i) <=> Leftovers[i] \in mounts
  /\ \A i \in 1..5 : Taken(3 + N + i) <=> NonDisk[i] \in mounts
  /\ Taken(9 + N) <=> "chroot scripts" \in image.files

LEMMA PlainNames ==
  /\ \A i \in 1..N : /\ Leftovers[i] # "root" /\ Leftovers[i] # "devices"
                      /\ Leftovers[i] # "directory" /\ Leftovers[i] # "chroot scripts"
                      /\ Leftovers[i] \in LeftoverSet
  /\ \A i \in 1..5 : /\ NonDisk[i] # "root" /\ NonDisk[i] # "devices"
                      /\ NonDisk[i] # "directory" /\ NonDisk[i] # "chroot scripts"
                      /\ NonDisk[i] \notin LeftoverSet
<1>1. \A i \in 1..5 : NonDisk[i] \in {"dev", "dev/pts", "dev/shm", "proc", "sys"}
  BY DEF NonDisk
<1>2. \A i \in 1..5 : NonDisk[i] \notin LeftoverSet
  BY <1>1, LeftoversAssumption DEF LeftoverSet
<1> QED  BY <1>1, <1>2, LeftoversAssumption DEF N, LeftoverSet

LEMMA TakenCases == TakenAsListed
<1>1. /\ Taken(1) <=> devices
      /\ Taken(2) <=> dir
      /\ Taken(3) <=> "root" \in mounts
      /\ Taken(9 + N) <=> "chroot scripts" \in image.files
  BY Order DEF Taken, Present
<1>2. \A i \in 1..N : Taken(3 + i) <=> Leftovers[i] \in mounts
  BY Order, PlainNames, Zenon DEF Taken, Present
<1>3. \A i \in 1..5 : Taken(3 + N + i) <=> NonDisk[i] \in mounts
  BY Order, PlainNames, Zenon DEF Taken, Present
<1> QED  BY <1>1, <1>2, <1>3 DEF TakenAsListed

LEMMA TakenNext == TakenAsListed'
BY TakenCases, PTL

(* Where run() answers for what.                                           *)
ScopesAsListed ==
  /\ Answered(1) <=> pc \in DeviceScope
  /\ Answered(2) <=> pc \in InDirScope
  /\ Answered(3) <=> pc \in InRootScope
  /\ \A i \in 1..N : Answered(3 + i) <=> \/ pc \in {"directory_bootstrap", "load_mounts"}
                                         \/ pc = "umount_leftover" /\ i <= k
  /\ \A i \in 1..5 : Answered(3 + N + i) <=> \/ pc \in ChrootScope \cup {"mount_nondisk"}
                                             \/ pc = "umount_nondisk" /\ i <= k
  /\ Answered(9 + N) <=> pc \in ScriptScope

LEMMA AnsweredCases == ASSUME StateOK PROVE ScopesAsListed
<1>1. /\ Answered(1) <=> pc \in DeviceScope
      /\ Answered(2) <=> pc \in InDirScope
      /\ Answered(3) <=> pc \in InRootScope
      /\ Answered(9 + N) <=> pc \in ScriptScope
  BY Order DEF Answered, Answerable, DeviceScope, ScriptScope
<1>2. /\ pc = "umount_leftover" => k \in 0..N
      /\ pc = "umount_nondisk" => k \in 0..5
  BY DEF StateOK, ControlOK, Indices, N
<1>3. ASSUME NEW i \in 1..N
      PROVE  Answered(3 + i) <=> \/ pc \in {"directory_bootstrap", "load_mounts"}
                                 \/ pc = "umount_leftover" /\ i <= k
  <2>1. Answered(3 + i) <=>
          \/ pc \in {"directory_bootstrap", "load_mounts"}
          \/ pc = "umount_leftover" /\ \E j \in 1..k : Leftovers[i] = Leftovers[j]
    BY Order, PlainNames, Zenon DEF Answered, Answerable
  <2>2. \A j \in 1..N : Leftovers[i] = Leftovers[j] => i = j  BY MountNames DEF N
  <2>3. pc = "umount_leftover" => ((\E j \in 1..k : Leftovers[i] = Leftovers[j]) <=> i <= k)
    <3>1. CASE pc = "umount_leftover"
      <4>1. k \in 0..N /\ N \in Nat /\ \A j \in 1..k : j \in 1..N  BY <3>1, <1>2, NumberOfLeftovers
      <4>2. i <= k => i \in 1..k  BY <4>1
      <4>3. \A j \in 1..k : j <= k  BY <4>1
      <4>4. (\E j \in 1..k : Leftovers[i] = Leftovers[j]) <=> i <= k
        BY <4>1, <4>2, <4>3, <2>2, Zenon
      <4> QED  BY <4>4
    <3> QED  BY <3>1
  <2> QED  BY <2>1, <2>3, Zenon
<1>4. ASSUME NEW i \in 1..5
      PROVE  Answered(3 + N + i) <=> \/ pc \in ChrootScope \cup {"mount_nondisk"}
                                     \/ pc = "umount_nondisk" /\ i <= k
  <2>1. Answered(3 + N + i) <=>
          \/ pc \in ChrootScope \cup {"mount_nondisk"}
          \/ pc = "umount_nondisk" /\ \E j \in 1..k : NonDisk[i] = NonDisk[j]
    BY Order, PlainNames, Zenon DEF Answered, Answerable, ChrootScope
  <2>2. \A j \in 1..5 : NonDisk[i] = NonDisk[j] => i = j  BY MountNames
  <2>3. pc = "umount_nondisk" => ((\E j \in 1..k : NonDisk[i] = NonDisk[j]) <=> i <= k)
    BY <1>2, <2>2
  <2> QED  BY <2>1, <2>3, Zenon
<1> QED  BY <1>1, <1>3, <1>4, Zenon DEF ScopesAsListed

(* The scopes are stretches of the order of Rank.                          *)
LEMMA ScopeRanks ==
  \A l \in Labels :
    /\ l \in DeviceScope <=> Rank[l] > 9 /\ Rank[l] <= 61
    /\ l \in InDirScope  <=> Rank[l] > 14 /\ Rank[l] <= 60
    /\ l \in InRootScope <=> Rank[l] > 15 /\ Rank[l] <= 59
    /\ l \in {"directory_bootstrap", "load_mounts"} <=> Rank[l] > 18 /\ Rank[l] <= 20
    /\ l \in ChrootScope \cup {"mount_nondisk"} <=> Rank[l] > 27 /\ Rank[l] <= 55
    /\ l \in ScriptScope <=> Rank[l] > 48 /\ Rank[l] <= 50
    /\ l = "directory_bootstrap" <=> Rank[l] = 19
    /\ l = "umount_leftover" <=> Rank[l] = 21
    /\ l = "mount_nondisk" <=> Rank[l] = 28
    /\ l = "umount_nondisk" <=> Rank[l] = 56
<1>1. \A l \in Labels : Rank[l] \in 1..62  BY Ranks, SMT
DEF Labels, Calls, Preparation, InDevices, InDir, InRoot, BeforeBoot, AfterBoot, AfterChroot, InChroot
<1> QED  BY <1>1, Ranks, SMTT(60)
DEF Labels, Calls, Preparation, InDevices, InDir, InRoot, BeforeBoot, AfterBoot, AfterChroot, InChroot,
    DeviceScope, InDirScope, InRootScope, ChrootScope, ScriptScope

(***************************************************************************)
(* Between its two moments a place is answered for.                        *)
(***************************************************************************)
LEMMA MomentCases ==
  ASSUME NEW r \in Nat, NEW i \in Nat
  PROVE  /\ StartedAt(1, r, i) <=> r > 9
         /\ StartedAt(2, r, i) <=> r > 14
         /\ StartedAt(3, r, i) <=> r > 15
         /\ \A j \in 1..N : StartedAt(3 + j, r, i) <=> (r > 19 \/ (r = 19 /\ j < i))
         /\ \A j \in 1..5 : StartedAt(3 + N + j, r, i) <=> (r > 28 \/ (r = 28 /\ j < i))
         /\ StartedAt(9 + N, r, i) <=> r > 48
         /\ PassedAt(1, r, i) <=> r > 61
         /\ PassedAt(2, r, i) <=> r > 60
         /\ PassedAt(3, r, i) <=> r > 59
         /\ \A j \in 1..N : PassedAt(3 + j, r, i) <=> (r > 21 \/ (r = 21 /\ j > i))
         /\ \A j \in 1..5 : PassedAt(3 + N + j, r, i) <=> (r > 56 \/ (r = 56 /\ j > i))
         /\ PassedAt(9 + N, r, i) <=> r > 50
BY NumberOfLeftovers DEF StartedAt, PassedAt

LEMMA FreshSplit == ASSUME StateOK, Fresh PROVE Split
<1>1. pc \in Labels /\ Rank[pc] \in Nat /\ k \in Nat
  BY RankType, NaturalIndex DEF StateOK, ControlOK
<1>2. ScopesAsListed  BY AnsweredCases
<1> DEFINE r == Rank[pc]
<1>3. /\ Started(1) <=> r > 9
      /\ Started(2) <=> r > 14
      /\ Started(3) <=> r > 15
      /\ \A j \in 1..N : Started(3 + j) <=> (r > 19 \/ (r = 19 /\ j < k))
      /\ \A j \in 1..5 : Started(3 + N + j) <=> (r > 28 \/ (r = 28 /\ j < k))
      /\ Started(9 + N) <=> r > 48
      /\ Passed(1) <=> r > 61
      /\ Passed(2) <=> r > 60
      /\ Passed(3) <=> r > 59
      /\ \A j \in 1..N : Passed(3 + j) <=> (r > 21 \/ (r = 21 /\ j > k))
      /\ \A j \in 1..5 : Passed(3 + N + j) <=> (r > 56 \/ (r = 56 /\ j > k))
      /\ Passed(9 + N) <=> r > 50
  BY <1>1, MomentCases, Zenon DEF Started, Passed
<1>4. /\ pc \in DeviceScope <=> r > 9 /\ r <= 61
      /\ pc \in InDirScope  <=> r > 14 /\ r <= 60
      /\ pc \in InRootScope <=> r > 15 /\ r <= 59
      /\ pc \in {"directory_bootstrap", "load_mounts"} <=> r > 18 /\ r <= 20
      /\ pc \in ChrootScope \cup {"mount_nondisk"} <=> r > 27 /\ r <= 55
      /\ pc \in ScriptScope <=> r > 48 /\ r <= 50
      /\ pc = "umount_leftover" <=> r = 21
      /\ pc = "umount_nondisk" <=> r = 56
  BY <1>1, ScopeRanks, Zenon
<1> HIDE DEF r
<1>5. r \in Nat  BY <1>1 DEF r
<1>6. \A p \in {1, 2, 3, 9 + N} : Started(p) => (Answered(p) <=> ~Passed(p))
  <2>1. Started(1) => (Answered(1) <=> ~Passed(1))  BY <1>2, <1>3, <1>4, <1>5 DEF ScopesAsListed
  <2>2. Started(2) => (Answered(2) <=> ~Passed(2))  BY <1>2, <1>3, <1>4, <1>5 DEF ScopesAsListed
  <2>3. Started(3) => (Answered(3) <=> ~Passed(3))  BY <1>2, <1>3, <1>4, <1>5 DEF ScopesAsListed
  <2>4. Started(9 + N) => (Answered(9 + N) <=> ~Passed(9 + N))
    BY <1>2, <1>3, <1>4, <1>5 DEF ScopesAsListed
  <2> QED  BY <2>1, <2>2, <2>3, <2>4, Zenon
<1>7. \A j \in 1..N : Started(3 + j) => (Answered(3 + j) <=> ~Passed(3 + j))
  <2> TAKE j \in 1..N
  <2>1. Started(3 + j) <=> (r > 19 \/ (r = 19 /\ j < k))  BY <1>3, Zenon
  <2>2. Passed(3 + j) <=> (r > 21 \/ (r = 21 /\ j > k))  BY <1>3, Zenon
  <2>3. Answered(3 + j) <=> ((r > 18 /\ r <= 20) \/ (r = 21 /\ j <= k))
    BY <1>2, <1>4, Zenon DEF ScopesAsListed
  <2> QED  BY <1>1, <1>5, <2>1, <2>2, <2>3
<1>8. \A j \in 1..5 : Started(3 + N + j) => (Answered(3 + N + j) <=> ~Passed(3 + N + j))
  <2> TAKE j \in 1..5
  <2>1. Started(3 + N + j) <=> (r > 28 \/ (r = 28 /\ j < k))  BY <1>3, Zenon
  <2>2. Passed(3 + N + j) <=> (r > 56 \/ (r = 56 /\ j > k))  BY <1>3, Zenon
  <2>3. Answered(3 + N + j) <=> ((r > 27 /\ r <= 55) \/ (r = 56 /\ j <= k))
    BY <1>2, <1>4, Zenon DEF ScopesAsListed
  <2> QED  BY <1>1, <1>5, <2>1, <2>2, <2>3
<1> QED  BY <1>6, <1>7, <1>8, EachPlace, Zenon DEF Fresh, Split

(***************************************************************************)
(* The moments come one after the other, as the places do.                 *)
(***************************************************************************)
Later(r, i, r2, i2) ==
  \/ r < r2
  \/ r2 = r /\ (i2 = i \/ (r \in {19, 28} /\ i2 = i + 1) \/ (r \in {21, 56} /\ i2 = i - 1))

InOrder(r, i, r2, i2) ==
  /\ \A p \in 1..(9 + N) : /\ StartedAt(p, r, i) => StartedAt(p, r2, i2)
                           /\ PassedAt(p, r, i) => PassedAt(p, r2, i2)
  /\ \A p, q \in 1..(9 + N) :
       p < q /\ StartedAt(q, r, i) /\ ~PassedAt(p, r, i) /\ PassedAt(p, r2, i2) => PassedAt(q, r2, i2)

LEMMA Moments ==
  ASSUME NEW r \in Nat, NEW i \in Nat, NEW r2 \in Nat, NEW i2 \in Nat, Later(r, i, r2, i2)
  PROVE  InOrder(r, i, r2, i2)
<1>1. \A p \in 1..(9 + N) : StartedAt(p, r, i) => StartedAt(p, r2, i2)
  BY NumberOfLeftovers DEF StartedAt, Later
<1>2. \A p \in 1..(9 + N) : PassedAt(p, r, i) => PassedAt(p, r2, i2)
  BY NumberOfLeftovers DEF PassedAt, Later
<1>3. \A p, q \in 1..(9 + N) :
        p < q /\ StartedAt(q, r, i) /\ ~PassedAt(p, r, i) /\ PassedAt(p, r2, i2)
          => PassedAt(q, r2, i2)
  BY NumberOfLeftovers, SMTT(30) DEF PassedAt, StartedAt, Later
<1> QED  BY <1>1, <1>2, <1>3, Zenon DEF InOrder

(* Along a step every moment that has come has come for good, and no place *)
(* is given up before those inside it.                                     *)
MovesOn ==
  /\ \A p \in Places : (Started(p) => Started(p)') /\ (Passed(p) => Passed(p)')
  /\ \A p, q \in Places : p < q /\ Started(q) /\ ~Passed(p) /\ Passed(p)' => Passed(q)'

LEMMA NextMovesOn == ASSUME StateOK, StateOK', Next PROVE MovesOn
<1>1. /\ pc \in Labels /\ Forward
      /\ Rank[pc] \in Nat /\ Rank[pc'] \in Nat /\ k \in Nat /\ k' \in Nat
  BY NextForward DEF StateOK, ControlOK
<1>2. /\ pc = "directory_bootstrap" => Rank[pc] = 19
      /\ pc = "umount_leftover" => Rank[pc] = 21
      /\ pc = "mount_nondisk" => Rank[pc] = 28
      /\ pc = "umount_nondisk" => Rank[pc] = 56
  BY <1>1, ScopeRanks, Zenon
<1>3. Later(Rank[pc], k, Rank[pc'], k')
  <2>1. CASE pc' = pc /\ Looping
    BY <1>2, <2>1 DEF Looping, Later
  <2> QED  BY <1>1, <2>1 DEF Forward, Later
<1>4. InOrder(Rank[pc], k, Rank[pc'], k')  BY <1>1, <1>3, Moments, Zenon
<1>5. Places = 1..(9 + N)  BY EachPlace, Zenon
<1>6. ASSUME NEW p \in Places
      PROVE  (Started(p) => Started(p)') /\ (Passed(p) => Passed(p)')
  <2>1. p \in 1..(9 + N)  BY <1>5
  <2> QED  BY <1>4, <2>1, Zenon DEF Started, Passed, InOrder
<1>7. ASSUME NEW p \in Places, NEW q \in Places, p < q, Started(q), ~Passed(p), Passed(p)'
      PROVE  Passed(q)'
  <2>1. p \in 1..(9 + N) /\ q \in 1..(9 + N)  BY <1>5
  <2> QED  BY <1>4, <1>7, <2>1, Zenon DEF Started, Passed, InOrder
<1> QED  BY <1>6, <1>7, Zenon DEF MovesOn

(* What is held and what is lost, told by the moments.                     *)
Leases == \A p \in Places : /\ p \in Held <=> Taken(p) /\ ~Passed(p)
                            /\ p \in Lost <=> Taken(p) /\ Passed(p)

LEMMA LeasesHold == StateOK /\ Fresh => Leases
<1> HAVE StateOK /\ Fresh
<1>1. \A p \in Places : /\ p \in Held <=> Taken(p) /\ Answered(p)
                        /\ p \in Lost <=> Taken(p) /\ ~Answered(p)
  BY Zenon DEF Held, Lost, Taken, Answered
<1> QED  BY <1>1, FreshSplit, Zenon DEF Leases, Split

(* run() is over only when every place is passed, and stays over.          *)
Ending == /\ pc' = "exit" => \A p \in Places : Passed(p)'
          /\ pc = "exit" => pc' = "exit" /\ Same

LEMMA ExitPasses == StateOK /\ pc = "exit" => \A p \in Places : Passed(p)
<1> HAVE StateOK /\ pc = "exit"
<1>1. Rank[pc] = 62 /\ k \in Nat  BY Ranks, NaturalIndex
<1>2. \A p \in 1..(9 + N) : PassedAt(p, 62, k)
  BY <1>1, NumberOfLeftovers DEF PassedAt
<1> QED  BY <1>1, <1>2, EachPlace, Zenon DEF Passed

LEMMA NextEnding == ASSUME StateOK, StateOK', Next PROVE Ending
<1>1. StateOK' /\ pc' = "exit" => \A p \in Places : Passed(p)'
  <2>1. (StateOK /\ pc = "exit")' => (\A p \in Places : Passed(p))'  BY ExitPasses, PTL
  <2> QED  BY <2>1
<1>2. pc = "exit" => UNCHANGED vars
  BY GroupCalls, Ranks DEF Next, Call, Fault, Finished, vars, control, Preparation, SetUpAt,
     ConfigureAt, AfterBoot, SystemAt, OpenstackAt, BootAt, ScriptsAt, ShipAt, WayOutAt
<1>3. UNCHANGED vars => Same
  <2>1. UNCHANGED vars => devices' = devices /\ dir' = dir /\ mounts' = mounts /\ image' = image
    BY DEF vars, resources, contents
  <2>2. ASSUME UNCHANGED vars, NEW p \in Places PROVE Taken(p)' <=> Taken(p)
    BY <2>1, <2>2 DEF Taken, Present
  <2> QED  BY <2>2, Zenon DEF Same
<1>4. UNCHANGED vars => pc' = pc  BY DEF vars, control
<1> QED  BY <1>1, <1>2, <1>3, <1>4 DEF Ending

(***************************************************************************)
(* The three kinds of steps, as steps of Lease.                            *)
(***************************************************************************)
Ordered == MovesOn /\ Ending /\ Leases /\ Leases' /\ Fresh

LEMMA PlacesOrdered == \A p, q \in Places : (p # q /\ ~(p < q) => q < p) /\ (p < q => p <= q) /\ p <= p
<1>1. \A p, q \in 1..(9 + N) : (p # q /\ ~(p < q) => q < p) /\ (p < q => p <= q) /\ p <= p
  BY NumberOfLeftovers
<1> QED  BY <1>1, EachPlace, Zenon

LEMMA MayEndHolds == ASSUME Ordered PROVE L!MayEnd
<1>1. pc' = "exit" => Held' = {}
  <2>1. ASSUME pc' = "exit", NEW p \in Places PROVE p \notin Held'
    BY <2>1, Zenon DEF Ordered, Ending, Leases
  <2>2. Held' \subseteq Places  BY DEF Held
  <2> QED  BY <2>1, <2>2
<1>2. (pc' = "exit") \in BOOLEAN  OBVIOUS
<1> QED  BY <1>1, <1>2, Zenon DEF L!MayEnd, Ordered, Ending

LEMMA SameLease == ASSUME Ordered, Same PROVE L!Next
<1>1. \A p \in Places : /\ p \in Held' <=> (p \in Held /\ ~Passed(p)')
                        /\ p \in Lost' <=> (p \in Lost \/ (p \in Held /\ Passed(p)'))
  BY Zenon DEF Ordered, Leases, MovesOn, Same
<1>2. /\ Held \subseteq Places /\ Lost \subseteq Places
      /\ Held' \subseteq Places /\ Lost' \subseteq Places
  BY DEF Held, Lost
<1>3. Held' \subseteq Held /\ Lost' = Lost \cup (Held \ Held')
  BY <1>1, <1>2
<1>4. \A h \in Held' : \A g \in Held \ Held' : h < g
  <2> SUFFICES ASSUME NEW h \in Held', NEW g \in Held \ Held', ~(h < g) PROVE FALSE
    OBVIOUS
  <2>1. h \in Places /\ g \in Places /\ h # g /\ h \in Held  BY <1>2, <1>3
  <2>2. g < h  BY <2>1, PlacesOrdered, Zenon
  <2>3. /\ ~Passed(g) /\ Passed(g)' /\ ~Passed(h)' /\ Started(h)
    BY <1>1, <2>1, Zenon DEF Ordered, Leases, Fresh
  <2> QED  BY <2>1, <2>2, <2>3, Zenon DEF Ordered, MovesOn
<1>5. L!Abandon  BY <1>3, <1>4, MayEndHolds, Zenon DEF L!Abandon
<1> QED  BY <1>5, Zenon DEF L!Next

LEMMA TakesLease == ASSUME Ordered, NEW n \in Places, Takes(n), ~Taken(n) PROVE L!Next
<1>1. pc # "exit"
  BY Zenon DEF Ordered, Ending, Same, Takes
<1>2. /\ Held \subseteq Places /\ Lost \subseteq Places
      /\ Held' \subseteq Places /\ Lost' \subseteq Places
  BY DEF Held, Lost
<1>3. n \notin Held /\ n \notin Lost  BY Zenon DEF Ordered, Leases
<1>4. \A p \in Places \ {n} : (p \in Held' <=> p \in Held) /\ (p \in Lost' <=> p \in Lost)
  BY Zenon DEF Ordered, Leases, MovesOn, Takes, Others
<1>5. CASE Passed(n)'
  <2>1. n \notin Held' /\ n \in Lost'  BY <1>5, Zenon DEF Ordered, Leases, Takes
  <2>2. Held' = Held /\ Lost' = Lost \cup {n}  BY <1>2, <1>3, <1>4, <2>1
  <2>3. L!Miss(n)  BY <1>1, <1>3, <2>2, MayEndHolds, Zenon DEF L!Miss
  <2> QED  BY <2>3, Zenon DEF L!Next, L!Places, Places
<1>6. CASE ~Passed(n)'
  <2>1. n \in Held' /\ n \notin Lost'  BY <1>6, Zenon DEF Ordered, Leases, Takes
  <2>2. Held' = Held \cup {n} /\ Lost' = Lost  BY <1>2, <1>3, <1>4, <2>1
  <2>3. \A h \in Held : h < n  BY <1>2, <1>3, Zenon DEF Ordered, Leases, Takes, Others
  <2>4. (pc = "exit")' <=> (pc = "exit")  BY <1>1, <1>6, Zenon DEF Ordered, Ending
  <2>5. L!Acquire(n)  BY <1>1, <1>3, <2>2, <2>3, <2>4, Zenon DEF L!Acquire
  <2> QED  BY <2>5, Zenon DEF L!Next, L!Places, Places
<1> QED  BY <1>5, <1>6

LEMMA GivesLease == ASSUME Ordered, NEW n \in Places, Gives(n), Taken(n) PROVE L!Next
<1>1. /\ Held \subseteq Places /\ Lost \subseteq Places
      /\ Held' \subseteq Places /\ Lost' \subseteq Places
  BY DEF Held, Lost
<1>2. n \in Held /\ n \notin Lost /\ n \notin Held' /\ n \notin Lost'
  BY Zenon DEF Ordered, Leases, Gives
<1>3. \A p \in Places \ {n} : (p \in Held' <=> p \in Held) /\ (p \in Lost' <=> p \in Lost)
  BY Zenon DEF Ordered, Leases, MovesOn, Gives, Others
<1>4. Held' = Held \ {n} /\ Lost' = Lost  BY <1>1, <1>2, <1>3
<1>5. \A h \in Held : h <= n
  BY <1>1, PlacesOrdered, Zenon DEF Ordered, Leases, Gives, Others
<1>6. L!Release(n)  BY <1>2, <1>4, <1>5, MayEndHolds, Zenon DEF L!Release
<1> QED  BY <1>6, Zenon DEF L!Next, L!Places, Places

LEMMA KindsLease ==
  ASSUME Ordered, Same \/ \E n \in Places : Takes(n) \/ Gives(n)
  PROVE  L!Next
<1>1. ASSUME NEW n \in Places, Takes(n) PROVE L!Next
  <2>1. CASE Taken(n)
    <3>1. Same  BY <1>1, <2>1, Zenon DEF Takes, Others, Same
    <3> QED  BY <3>1, SameLease
  <2> QED  BY <1>1, <2>1, TakesLease
<1>2. ASSUME NEW n \in Places, Gives(n) PROVE L!Next
  <2>1. CASE ~Taken(n)
    <3>1. Same  BY <1>2, <2>1, Zenon DEF Gives, Others, Same
    <3> QED  BY <3>1, SameLease
  <2> QED  BY <1>2, <2>1, GivesLease
<1> QED  BY <1>1, <1>2, SameLease

(***************************************************************************)
(* What takes or gives place n leaves the others alone: those that have    *)
(* started by then and are not passed are outside of it, and stay so.      *)
(***************************************************************************)
Inward(n, r, i, r2, i2) ==
  \A p \in 1..(9 + N) \ {n} : StartedAt(p, r, i) /\ ~PassedAt(p, r, i) => p < n /\ ~PassedAt(p, r2, i2)

LEMMA InwardTakes ==
  ASSUME NEW i \in Nat, NEW i2 \in Nat
  PROVE  /\ \A r \in {9, 10} : \A r2 : Inward(1, r, i, r2, i2)
         /\ \A r2 \in {15, 61} : Inward(2, 14, i, r2, i2)
         /\ \A r2 \in {16, 60} : Inward(3, 15, i, r2, i2)
         /\ \A j \in 1..N : Inward(3 + j, 19, j, 19, j + 1)
         /\ \A j \in 1..5 : Inward(3 + N + j, 28, j, 28, j + 1)
         /\ Inward(9 + N, 48, i, 49, i2) /\ Inward(9 + N, 48, i, 56, 5)
<1>1. \A r \in {9, 10} : \A r2 : Inward(1, r, i, r2, i2)
  BY NumberOfLeftovers DEF Inward, StartedAt, PassedAt
<1>2. \A r2 \in {15, 61} : Inward(2, 14, i, r2, i2)
  BY NumberOfLeftovers DEF Inward, StartedAt, PassedAt
<1>3. \A r2 \in {16, 60} : Inward(3, 15, i, r2, i2)
  BY NumberOfLeftovers DEF Inward, StartedAt, PassedAt
<1>4. \A j \in 1..N : Inward(3 + j, 19, j, 19, j + 1)
  BY NumberOfLeftovers DEF Inward, StartedAt, PassedAt
<1>5. \A j \in 1..5 : Inward(3 + N + j, 28, j, 28, j + 1)
  BY NumberOfLeftovers DEF Inward, StartedAt, PassedAt
<1>6. Inward(9 + N, 48, i, 49, i2) /\ Inward(9 + N, 48, i, 56, 5)
  BY NumberOfLeftovers DEF Inward, StartedAt, PassedAt
<1> QED  BY <1>1, <1>2, <1>3, <1>4, <1>5, <1>6

LEMMA InwardGives ==
  ASSUME NEW i \in Nat, NEW i2 \in Nat
  PROVE  /\ Inward(9 + N, 50, i, 51, i2) /\ Inward(9 + N, 50, i, 56, 5)
         /\ \A j \in 1..N : Inward(3 + j, 21, j, 21, j - 1)
         /\ \A j \in 1..5 : Inward(3 + N + j, 56, j, 56, j - 1)
         /\ Inward(3, 59, i, 60, i2) /\ Inward(2, 60, i, 61, i2) /\ Inward(1, 61, i, 62, i2)
<1>1. Inward(9 + N, 50, i, 51, i2) /\ Inward(9 + N, 50, i, 56, 5)
  BY NumberOfLeftovers DEF Inward, StartedAt, PassedAt
<1>2. \A j \in 1..N : Inward(3 + j, 21, j, 21, j - 1)
  BY NumberOfLeftovers DEF Inward, StartedAt, PassedAt
<1>3. \A j \in 1..5 : Inward(3 + N + j, 56, j, 56, j - 1)
  BY NumberOfLeftovers DEF Inward, StartedAt, PassedAt
<1>4. Inward(3, 59, i, 60, i2) /\ Inward(2, 60, i, 61, i2) /\ Inward(1, 61, i, 62, i2)
  BY NumberOfLeftovers DEF Inward, StartedAt, PassedAt
<1> QED  BY <1>1, <1>2, <1>3, <1>4

OthersKept(n) == \A p \in Places \ {n} : Taken(p)' <=> Taken(p)

LEMMA InwardOthers ==
  ASSUME Fresh, NEW n \in Places, Inward(n, Rank[pc], k, Rank[pc'], k'), OthersKept(n)
  PROVE  Others(n)
<1>1. ASSUME NEW p \in Places \ {n}, Taken(p), ~Passed(p) PROVE p < n /\ ~Passed(p)'
  <2>1. p \in 1..(9 + N) \ {n}  BY EachPlace
  <2>2. StartedAt(p, Rank[pc], k) /\ ~PassedAt(p, Rank[pc], k)
    BY <1>1, Zenon DEF Fresh, Started, Passed
  <2>3. p < n /\ ~PassedAt(p, Rank[pc'], k')  BY <2>1, <2>2, Zenon DEF Inward
  <2> QED  BY <2>3, Zenon DEF Passed
<1> QED  BY <1>1, Zenon DEF Others, OthersKept

(* No two places have the same name.                                       *)
LEMMA DistinctNames == \A p, q \in Places : AcquisitionOrder[p] = AcquisitionOrder[q] => p = q
<1>1. ASSUME NEW i \in 1..N, NEW j \in 1..5
      PROVE  Leftovers[i] # NonDisk[j]
  BY MountNames DEF N
<1>2. ASSUME NEW i \in 1..N, NEW j \in 1..N, Leftovers[i] = Leftovers[j]
      PROVE  i = j
  BY <1>2, MountNames DEF N
<1>3. ASSUME NEW p \in Places
      PROVE  \/ p = 1 /\ AcquisitionOrder[p] = "devices"
             \/ p = 2 /\ AcquisitionOrder[p] = "directory"
             \/ p = 3 /\ AcquisitionOrder[p] = "root"
             \/ p = 9 + N /\ AcquisitionOrder[p] = "chroot scripts"
             \/ \E i \in 1..N : p = 3 + i /\ AcquisitionOrder[p] = Leftovers[i]
             \/ \E i \in 1..5 : p = 3 + N + i /\ AcquisitionOrder[p] = NonDisk[i]
  <2>1. CASE p \in {1, 2, 3, 9 + N}  BY <2>1, Order
  <2>2. CASE \E i \in 1..N : p = 3 + i  BY <2>2, Order, Zenon
  <2>3. CASE \E i \in 1..5 : p = 3 + N + i  BY <2>3, Order, Zenon
  <2> QED  BY <2>1, <2>2, <2>3, EachPlace, Zenon
<1>4. "devices" # "directory" /\ "devices" # "root" /\ "devices" # "chroot scripts"
      /\ "directory" # "root" /\ "directory" # "chroot scripts" /\ "root" # "chroot scripts"
  OBVIOUS
<1>5. ASSUME NEW i \in 1..5, NEW j \in 1..5, NonDisk[i] = NonDisk[j]
      PROVE  i = j
  BY <1>5, MountNames
<1>6. ASSUME NEW p \in Places, NEW q \in Places, AcquisitionOrder[p] = AcquisitionOrder[q]
      PROVE  p = q
  <2>1. CASE AcquisitionOrder[p] = "devices"
    BY <1>3, <1>4, <1>6, <2>1, PlainNames, Zenon
  <2>2. CASE AcquisitionOrder[p] = "directory"
    BY <1>3, <1>4, <1>6, <2>2, PlainNames, Zenon
  <2>3. CASE AcquisitionOrder[p] = "root"
    BY <1>3, <1>4, <1>6, <2>3, PlainNames, Zenon
  <2>4. CASE AcquisitionOrder[p] = "chroot scripts"
    BY <1>3, <1>4, <1>6, <2>4, PlainNames, Zenon
  <2>5. ASSUME NEW i \in 1..N, p = 3 + i, AcquisitionOrder[p] = Leftovers[i]
        PROVE  p = q
    BY <1>1, <1>2, <1>3, <1>6, <2>5, PlainNames, Zenon
  <2>6. ASSUME NEW i \in 1..5, p = 3 + N + i, AcquisitionOrder[p] = NonDisk[i]
        PROVE  p = q
    BY <1>1, <1>3, <1>6, <1>5, <2>6, PlainNames, Zenon
  <2> QED  BY <1>3, <2>1, <2>2, <2>3, <2>4, <2>5, <2>6, Zenon
<1> QED  BY <1>6, Zenon

(***************************************************************************)
(* What each call does to what is taken.                                   *)
(***************************************************************************)
Effect == Same \/ \E n \in Places : Takes(n) \/ Gives(n)

SameScripts == "chroot scripts" \in image'.files <=> "chroot scripts" \in image.files

LEMMA KeptSame == ASSUME devices' = devices, dir' = dir, mounts' = mounts, SameScripts PROVE Effect
<1>1. ASSUME NEW p \in Places PROVE Taken(p)' <=> Taken(p)
  BY DEF Taken, Present, SameScripts
<1> QED  BY <1>1, Zenon DEF Effect, Same

LEMMA UntouchedSame == ASSUME UNCHANGED resources, image' = image PROVE Effect
BY KeptSame DEF resources, SameScripts

(* The directory, the mapping, one mount or the scripts alone.             *)
LEMMA OneTaken ==
  /\ 1 \in Places /\ 2 \in Places /\ 3 \in Places /\ 9 + N \in Places
  /\ \A i \in 1..N : 3 + i \in Places
  /\ \A i \in 1..5 : 3 + N + i \in Places
BY EachPlace, NumberOfLeftovers

LEMMA OthersOfDevices ==
  ASSUME dir' = dir, mounts' = mounts, image' = image PROVE OthersKept(1)
<1>1. ASSUME NEW p \in Places \ {1} PROVE Taken(p)' <=> Taken(p)
  <2>1. AcquisitionOrder[p] # "devices"  BY DistinctNames, OneTaken, Order
  <2> QED  BY <2>1 DEF Taken, Present
<1> QED  BY <1>1, Zenon DEF OthersKept

LEMMA OthersOfDirectory ==
  ASSUME devices' = devices, mounts' = mounts, image' = image PROVE OthersKept(2)
<1>1. ASSUME NEW p \in Places \ {2} PROVE Taken(p)' <=> Taken(p)
  <2>1. AcquisitionOrder[p] # "directory"  BY DistinctNames, OneTaken, Order
  <2> QED  BY <2>1 DEF Taken, Present
<1> QED  BY <1>1, Zenon DEF OthersKept

LEMMA OthersOfMount ==
  ASSUME NEW n \in Places, devices' = devices, dir' = dir, image' = image,
         mounts' = mounts \cup {AcquisitionOrder[n]} \/ mounts' = mounts \ {AcquisitionOrder[n]}
  PROVE  OthersKept(n)
<1>1. ASSUME NEW p \in Places \ {n} PROVE Taken(p)' <=> Taken(p)
  <2>1. AcquisitionOrder[p] # AcquisitionOrder[n]  BY DistinctNames
  <2> QED  BY <2>1 DEF Taken, Present
<1> QED  BY <1>1, Zenon DEF OthersKept

LEMMA OthersOfScripts ==
  ASSUME devices' = devices, dir' = dir, mounts' = mounts PROVE OthersKept(9 + N)
<1>1. ASSUME NEW p \in Places \ {9 + N} PROVE Taken(p)' <=> Taken(p)
  <2>1. AcquisitionOrder[p] # "chroot scripts"  BY DistinctNames, OneTaken, Order
  <2> QED  BY <2>1 DEF Taken, Present
<1> QED  BY <1>1, Zenon DEF OthersKept

(* A step that takes or gives place n and no other.                        *)
LEMMA TakesOne ==
  ASSUME Fresh, NEW n \in Places, OthersKept(n), Taken(n)', StartedAt(n, Rank[pc'], k'),
         Inward(n, Rank[pc], k, Rank[pc'], k')
  PROVE  Effect
<1>1. Others(n)  BY InwardOthers
<1>2. Started(n)'  BY Zenon DEF Started
<1> QED  BY <1>1, <1>2, Zenon DEF Effect, Takes

LEMMA GivesOne ==
  ASSUME Fresh, NEW n \in Places, OthersKept(n), ~Taken(n)', ~PassedAt(n, Rank[pc], k),
         Inward(n, Rank[pc], k, Rank[pc'], k')
  PROVE  Effect
<1>1. Others(n)  BY InwardOthers
<1>2. ~Passed(n)  BY Zenon DEF Passed
<1> QED  BY <1>1, <1>2, Zenon DEF Effect, Gives

LEMMA HandlerNames ==
  /\ Handler("mkdtemp") = "remove_devices" /\ Handler("mount_root") = "rmdir"
  /\ Handler("copy_scripts") = "umount_nondisk" /\ Handler("remove_scripts") = "umount_nondisk"
  /\ Handler("umount_root") = "rmdir" /\ Handler("rmdir") = "remove_devices"
  /\ Handler("remove_devices") = "exit"
BY DEF Handler, InDevices, InDir, InRoot, BeforeBoot, AfterBoot, AfterChroot, InChroot

LEMMA Numbers == ASSUME StateOK, StateOK' PROVE k \in Nat /\ k' \in Nat
<1>1. StateOK' => (k \in Nat)'  BY NaturalIndex, PTL
<1> QED  BY <1>1, NaturalIndex

LEMMA KpartxEffect == ASSUME StateOK, StateOK', Fresh, KpartxUpdate \/ KpartxAdd PROVE Effect
<1>1. /\ dir' = dir /\ mounts' = mounts /\ image' = image
      /\ pc \in {"kpartx_update", "kpartx_add"} /\ pc' \in {"kpartx_add", "device_node"}
      /\ devices' = devices \/ devices' = TRUE
  BY DEF KpartxUpdate, KpartxAdd, Goto, Move, contents
<1>2. CASE devices' = devices
  BY <1>1, <1>2, KeptSame DEF SameScripts
<1>3. CASE devices' = TRUE
  <2>1. Taken(1)'  BY <1>3, TakenNext DEF TakenAsListed
  <2>2. Rank[pc] \in {9, 10} /\ Rank[pc'] \in {10, 11}  BY <1>1, Ranks
  <2>3. StartedAt(1, Rank[pc'], k')  BY <2>2, Numbers, MomentCases
  <2>4. Inward(1, Rank[pc], k, Rank[pc'], k')  BY <2>2, Numbers, InwardTakes, Zenon
  <2>5. OthersKept(1)  BY <1>1, OthersOfDevices
  <2> QED  BY <2>1, <2>3, <2>4, <2>5, OneTaken, TakesOne, Zenon
<1> QED  BY <1>1, <1>2, <1>3

LEMMA MakeMountPointEffect == ASSUME StateOK, StateOK', Fresh, MakeMountPoint PROVE Effect
<1>1. /\ devices' = devices /\ mounts' = mounts /\ image' = image /\ dir' = TRUE
      /\ pc = "mkdtemp" /\ pc' \in {"mount_root", "remove_devices"}
  BY HandlerNames DEF MakeMountPoint, Goto, Move, Raise, Throw, contents
<1>2. Taken(2)'  BY <1>1, TakenNext DEF TakenAsListed
<1>3. Rank[pc] = 14 /\ Rank[pc'] \in {15, 61}  BY <1>1, Ranks
<1>4. StartedAt(2, Rank[pc'], k')  BY <1>3, Numbers, MomentCases
<1>5. Inward(2, Rank[pc], k, Rank[pc'], k')  BY <1>3, Numbers, InwardTakes, Zenon
<1>6. OthersKept(2)  BY <1>1, OthersOfDirectory
<1> QED  BY <1>2, <1>4, <1>5, <1>6, OneTaken, TakesOne, Zenon

LEMMA MountRootEffect == ASSUME StateOK, StateOK', Fresh, MountRoot PROVE Effect
<1>1. /\ devices' = devices /\ dir' = dir /\ image' = image /\ mounts' = mounts \cup {"root"}
      /\ pc = "mount_root" /\ pc' \in {"mkdir_etc", "rmdir"}
  BY HandlerNames DEF MountRoot, Goto, Move, Raise, Throw, contents
<1>2. Taken(3)'  BY <1>1, TakenNext DEF TakenAsListed
<1>3. Rank[pc] = 15 /\ Rank[pc'] \in {16, 60}  BY <1>1, Ranks
<1>4. StartedAt(3, Rank[pc'], k')  BY <1>3, Numbers, MomentCases
<1>5. Inward(3, Rank[pc], k, Rank[pc'], k')  BY <1>3, Numbers, InwardTakes, Zenon
<1>6. OthersKept(3)  BY <1>1, OthersOfMount, OneTaken, Order
<1> QED  BY <1>2, <1>4, <1>5, <1>6, OneTaken, TakesOne, Zenon

LEMMA BootstrapperMountsEffect == ASSUME StateOK, StateOK', Fresh, BootstrapperMounts PROVE Effect
<1>1. /\ devices' = devices /\ dir' = dir /\ image' = image /\ mounts' = mounts \cup {Leftovers[k]}
      /\ pc = "directory_bootstrap" /\ pc' = pc /\ k' = k + 1 /\ k <= N
  BY DEF BootstrapperMounts, Move, contents, N
<1>2. PICK j \in 1..N : j = k
  BY <1>1, NumberOfLeftovers DEF StateOK, ControlOK, Indices
<1> DEFINE n == 3 + j
<1>3. n \in Places /\ AcquisitionOrder[n] = Leftovers[j]  BY <1>2, OneTaken, Order
<1>4. mounts' = mounts \cup {Leftovers[j]} /\ k' = j + 1  BY <1>1, <1>2
<1>5. Taken(n)'  BY <1>4, TakenNext, Zenon DEF TakenAsListed
<1>6. Rank[pc] = 19 /\ Rank[pc'] = 19  BY <1>1, Ranks
<1>7. StartedAt(n, 19, j + 1)  BY <1>2, NumberOfLeftovers DEF StartedAt
<1>8. Inward(n, 19, j, 19, j + 1)  BY <1>2, Numbers, InwardTakes, Zenon
<1> HIDE DEF n
<1>9. OthersKept(n)  BY <1>1, <1>3, <1>4, OthersOfMount
<1> QED  BY <1>2, <1>3, <1>4, <1>5, <1>6, <1>7, <1>8, <1>9, TakesOne, Zenon

LEMMA MountNonDiskEffect == ASSUME StateOK, StateOK', Fresh, MountNonDisk PROVE Effect
<1>1. CASE mounts' = mounts
  BY <1>1, KeptSame DEF MountNonDisk, contents, SameScripts
<1>2. CASE k <= 5 /\ mounts' = mounts \cup {NonDisk[k]} /\ pc' = pc /\ k' = k + 1
  <2>1. devices' = devices /\ dir' = dir /\ image' = image /\ pc = "mount_nondisk"
    BY DEF MountNonDisk, contents
  <2>2. PICK j \in 1..5 : j = k
    BY <1>2, <2>1 DEF StateOK, ControlOK, Indices
  <2> DEFINE n == 3 + N + j
  <2>3. n \in Places /\ AcquisitionOrder[n] = NonDisk[j]  BY <2>2, OneTaken, Order
  <2>4. mounts' = mounts \cup {NonDisk[j]} /\ k' = j + 1  BY <1>2, <2>2
  <2>5. Taken(n)'  BY <2>4, TakenNext, Zenon DEF TakenAsListed
  <2>6. Rank[pc] = 28 /\ Rank[pc'] = 28  BY <1>2, <2>1, Ranks
  <2>7. StartedAt(n, 28, j + 1)  BY <2>2, NumberOfLeftovers DEF StartedAt
  <2>8. Inward(n, 28, j, 28, j + 1)  BY <2>2, Numbers, InwardTakes, Zenon
  <2> HIDE DEF n
  <2>9. OthersKept(n)  BY <2>1, <2>3, <2>4, OthersOfMount
  <2> QED  BY <2>2, <2>3, <2>4, <2>5, <2>6, <2>7, <2>8, <2>9, TakesOne, Zenon
<1> QED  BY <1>1, <1>2 DEF MountNonDisk, Move

LEMMA CopyChrootScriptsEffect == ASSUME StateOK, StateOK', Fresh, CopyChrootScripts PROVE Effect
<1>1. devices' = devices /\ dir' = dir /\ mounts' = mounts /\ pc = "copy_scripts"
  BY DEF CopyChrootScripts, resources
<1>2. CASE image' = image
  BY <1>1, <1>2, KeptSame DEF SameScripts
<1>3. CASE /\ "chroot scripts" \in image'.files
           /\ pc' = "run_scripts" \/ (pc' = "umount_nondisk" /\ k' = 5)
  <2>1. Taken(9 + N)'  BY <1>3, TakenNext DEF TakenAsListed
  <2>2. Rank[pc] = 48 /\ (Rank[pc'] = 49 \/ (Rank[pc'] = 56 /\ k' = 5))  BY <1>1, <1>3, Ranks
  <2>3. StartedAt(9 + N, Rank[pc'], k')  BY <2>2, NumberOfLeftovers DEF StartedAt
  <2>4. Inward(9 + N, Rank[pc], k, Rank[pc'], k')  BY <2>2, Numbers, InwardTakes, Zenon
  <2>5. OthersKept(9 + N)  BY <1>1, OthersOfScripts
  <2> QED  BY <2>1, <2>3, <2>4, <2>5, OneTaken, TakesOne, Zenon
<1>4. image' = [image EXCEPT !.files = @ \cup {"chroot scripts"}] => "chroot scripts" \in image'.files
  BY DEF StateOK, ContentsOK, ImageType
<1>5. FirstIndex("umount_nondisk") = 5  BY DEF FirstIndex
<1> QED
  BY <1>2, <1>3, <1>4, <1>5, HandlerNames DEF CopyChrootScripts, Goto, Move, Raise, Throw

LEMMA RemoveChrootScriptsEffect ==
  ASSUME StateOK, StateOK', Fresh, RemoveChrootScripts PROVE Effect
<1>1. /\ devices' = devices /\ dir' = dir /\ mounts' = mounts /\ pc = "remove_scripts"
      /\ image' = [image EXCEPT !.files = @ \ {"chroot scripts"}]
  BY DEF RemoveChrootScripts, Remove, Write, resources
<1>2. "chroot scripts" \notin image'.files
  BY <1>1 DEF StateOK, ContentsOK, ImageType
<1>3. FirstIndex("umount_nondisk") = 5  BY DEF FirstIndex
<1>4. pc' = "delete_sshd_keys" \/ (pc' = "umount_nondisk" /\ k' = 5)
  BY <1>3, HandlerNames DEF RemoveChrootScripts, Remove, Write, Goto, Move, Continuation
<1>5. ~Taken(9 + N)'  BY <1>2, TakenNext DEF TakenAsListed
<1>6. Rank[pc] = 50 /\ (Rank[pc'] = 51 \/ (Rank[pc'] = 56 /\ k' = 5))  BY <1>1, <1>4, Ranks
<1>7. ~PassedAt(9 + N, Rank[pc], k)  BY <1>6, Numbers, MomentCases
<1>8. Inward(9 + N, Rank[pc], k, Rank[pc'], k')  BY <1>6, Numbers, InwardGives, Zenon
<1>9. OthersKept(9 + N)  BY <1>1, OthersOfScripts
<1> QED  BY <1>5, <1>7, <1>8, <1>9, OneTaken, GivesOne, Zenon

LEMMA UnmountLeftoversEffect == ASSUME StateOK, StateOK', Fresh, UnmountLeftovers PROVE Effect
<1>1. CASE UNCHANGED <<resources, image>>
  BY <1>1, UntouchedSame
<1>2. CASE /\ k > 0 /\ mounts' = mounts \ {Leftovers[k]} /\ pc' = pc /\ k' = k - 1
           /\ devices' = devices /\ dir' = dir /\ image' = image
  <2>1. pc = "umount_leftover"  BY DEF UnmountLeftovers
  <2>2. PICK j \in 1..N : j = k
    BY <1>2, <2>1, NumberOfLeftovers DEF StateOK, ControlOK, Indices, N
  <2> DEFINE n == 3 + j
  <2>3. n \in Places /\ AcquisitionOrder[n] = Leftovers[j]  BY <2>2, OneTaken, Order
  <2>4. mounts' = mounts \ {Leftovers[j]} /\ k' = j - 1  BY <1>2, <2>2
  <2>5. ~Taken(n)'
    <3>1. Leftovers[j] \notin mounts'  BY <2>4
    <3> QED  BY <3>1, TakenNext, Zenon DEF TakenAsListed
  <2>6. Rank[pc] = 21 /\ Rank[pc'] = 21  BY <1>2, <2>1, Ranks
  <2>7. ~PassedAt(n, 21, j)  BY <2>2, NumberOfLeftovers DEF PassedAt
  <2>8. Inward(n, 21, j, 21, j - 1)  BY <2>2, Numbers, InwardGives, Zenon
  <2> HIDE DEF n
  <2>9. OthersKept(n)  BY <1>2, <2>3, <2>4, OthersOfMount
  <2> QED  BY <2>2, <2>3, <2>4, <2>5, <2>6, <2>7, <2>8, <2>9, GivesOne, Zenon
<1> QED
  BY <1>1, <1>2 DEF UnmountLeftovers, KeepTrying, Move, resources, contents

LEMMA UnmountNonDiskEffect == ASSUME StateOK, StateOK', Fresh, UnmountNonDisk PROVE Effect
<1>1. CASE UNCHANGED <<resources, image>>
  BY <1>1, UntouchedSame
<1>2. CASE /\ k > 0 /\ mounts' = mounts \ {NonDisk[k]} /\ pc' = pc /\ k' = k - 1
           /\ devices' = devices /\ dir' = dir /\ image' = image
  <2>1. pc = "umount_nondisk"  BY DEF UnmountNonDisk
  <2>2. PICK j \in 1..5 : j = k
    BY <1>2, <2>1 DEF StateOK, ControlOK, Indices
  <2> DEFINE n == 3 + N + j
  <2>3. n \in Places /\ AcquisitionOrder[n] = NonDisk[j]  BY <2>2, OneTaken, Order
  <2>4. mounts' = mounts \ {NonDisk[j]} /\ k' = j - 1  BY <1>2, <2>2
  <2>5. ~Taken(n)'
    <3>1. NonDisk[j] \notin mounts'  BY <2>4
    <3> QED  BY <3>1, TakenNext, Zenon DEF TakenAsListed
  <2>6. Rank[pc] = 56 /\ Rank[pc'] = 56  BY <1>2, <2>1, Ranks
  <2>7. ~PassedAt(n, 56, j)  BY <2>2, NumberOfLeftovers DEF PassedAt
  <2>8. Inward(n, 56, j, 56, j - 1)  BY <2>2, Numbers, InwardGives, Zenon
  <2> HIDE DEF n
  <2>9. OthersKept(n)  BY <1>2, <2>3, <2>4, OthersOfMount
  <2> QED  BY <2>2, <2>3, <2>4, <2>5, <2>6, <2>7, <2>8, <2>9, GivesOne, Zenon
<1> QED
  BY <1>1, <1>2 DEF UnmountNonDisk, KeepTrying, Move, resources, contents

LEMMA UnmountRootEffect == ASSUME StateOK, StateOK', Fresh, UnmountRoot PROVE Effect
<1>1. CASE UNCHANGED <<resources, image>>
  BY <1>1, UntouchedSame
<1>2. CASE /\ mounts = {"root"} /\ mounts' = {} /\ pc' = "rmdir"
           /\ devices' = devices /\ dir' = dir /\ image' = image
  <2>1. pc = "umount_root"  BY WayOutCalls
  <2>2. mounts' = mounts \ {"root"}  BY <1>2
  <2>3. ~Taken(3)'  BY <1>2, TakenNext DEF TakenAsListed
  <2>4. Rank[pc] = 59 /\ Rank[pc'] = 60  BY <1>2, <2>1, Ranks
  <2>5. ~PassedAt(3, Rank[pc], k)  BY <2>4, Numbers, MomentCases
  <2>6. Inward(3, Rank[pc], k, Rank[pc'], k')  BY <2>4, Numbers, InwardGives, Zenon
  <2>7. OthersKept(3)  BY <1>2, <2>2, OthersOfMount, OneTaken, Order
  <2> QED  BY <2>3, <2>5, <2>6, <2>7, OneTaken, GivesOne, Zenon
<1> QED
  BY <1>1, <1>2, HandlerNames DEF UnmountRoot, KeepTrying, Move, Raise, Throw, resources, contents

LEMMA RemoveMountPointEffect == ASSUME StateOK, StateOK', Fresh, RemoveMountPoint PROVE Effect
<1>1. CASE UNCHANGED <<resources, image>>
  BY <1>1, UntouchedSame
<1>2. CASE /\ dir' = FALSE /\ pc' = "remove_devices"
           /\ devices' = devices /\ mounts' = mounts /\ image' = image
  <2>1. pc = "rmdir"  BY WayOutCalls
  <2>2. ~Taken(2)'  BY <1>2, TakenNext DEF TakenAsListed
  <2>3. Rank[pc] = 60 /\ Rank[pc'] = 61  BY <1>2, <2>1, Ranks
  <2>4. ~PassedAt(2, Rank[pc], k)  BY <2>3, Numbers, MomentCases
  <2>5. Inward(2, Rank[pc], k, Rank[pc'], k')  BY <2>3, Numbers, InwardGives, Zenon
  <2>6. OthersKept(2)  BY <1>2, OthersOfDirectory
  <2> QED  BY <2>2, <2>4, <2>5, <2>6, OneTaken, GivesOne, Zenon
<1> QED
  BY <1>1, <1>2, HandlerNames
  DEF RemoveMountPoint, KeepTrying, Move, Raise, Throw, resources, contents

LEMMA RemoveDevicesEffect == ASSUME StateOK, StateOK', Fresh, RemovePartitionDevices PROVE Effect
<1>1. CASE UNCHANGED <<resources, image>>
  BY <1>1, UntouchedSame
<1>2. CASE /\ devices' = FALSE /\ pc' = "exit"
           /\ dir' = dir /\ mounts' = mounts /\ image' = image
  <2>1. pc = "remove_devices"  BY WayOutCalls
  <2>2. ~Taken(1)'  BY <1>2, TakenNext DEF TakenAsListed
  <2>3. Rank[pc] = 61 /\ Rank[pc'] = 62  BY <1>2, <2>1, Ranks
  <2>4. ~PassedAt(1, Rank[pc], k)  BY <2>3, Numbers, MomentCases
  <2>5. Inward(1, Rank[pc], k, Rank[pc'], k')  BY <2>3, Numbers, InwardGives, Zenon
  <2>6. OthersKept(1)  BY <1>2, OthersOfDevices
  <2> QED  BY <2>2, <2>4, <2>5, <2>6, OneTaken, GivesOne, Zenon
<1> QED
  BY <1>1, <1>2, HandlerNames
  DEF RemovePartitionDevices, KeepTrying, Move, Raise, Throw, resources, contents

(* The image is replaced only before the scripts are copied into it.       *)
LEMMA NoScriptsTaken ==
  ASSUME StateOK, Fresh, pc \in {"format", "directory_bootstrap"}
  PROVE  "chroot scripts" \notin image.files
<1>1. Rank[pc] \in {12, 19}  BY Ranks
<1>2. ~Started(9 + N)
  <2>1. k \in Nat  BY NaturalIndex
  <2> QED  BY <1>1, <2>1, MomentCases DEF Started
<1>3. ~Taken(9 + N)  BY <1>2, OneTaken, Zenon DEF Fresh
<1> QED  BY <1>3, TakenCases DEF TakenAsListed

LEMMA FreshImageEffect ==
  ASSUME StateOK, StateOK', Fresh, FormatPartitions \/ DirectoryBootstrap PROVE Effect
<1>1. /\ devices' = devices /\ dir' = dir /\ mounts' = mounts
      /\ pc \in {"format", "directory_bootstrap"}
  BY DEF FormatPartitions, DirectoryBootstrap, resources
<1>2. "chroot scripts" \notin image'.files
  BY NoScriptsYet DEF FormatPartitions, DirectoryBootstrap, StateOK, ContentsOK, ImageType
<1> QED  BY <1>1, <1>2, NoScriptsTaken, KeptSame DEF SameScripts

(* The calls that only write the file system, and none of the scripts.     *)
LEMMA PutEffect ==
  ASSUME StateOK, NEW l, NEW next, NEW new, Put(l, next, new), "chroot scripts" \notin new
  PROVE  Effect
<1>1. image'.files = image.files \cup new  BY PutFields
<1>2. UNCHANGED resources  BY DEF Put, Write
<1> QED  BY <1>1, <1>2, KeptSame DEF resources, SameScripts

LEMMA RemoveEffect ==
  ASSUME StateOK, NEW l, NEW next, NEW old, Remove(l, next, old), "chroot scripts" \notin old
  PROVE  Effect
<1>1. image'.files = image.files \ old  BY RemoveFields
<1>2. UNCHANGED resources  BY DEF Remove, Write
<1> QED  BY <1>1, <1>2, KeptSame DEF resources, SameScripts

LEMMA QuietEffect == ASSUME NEW l, NEW next, Quiet(l, next) PROVE Effect
BY UntouchedSame DEF Quiet, contents

LEMMA InstallEffect ==
  ASSUME StateOK, NEW l, NEW next, NEW needed, NEW new, Install(l, next, needed, new),
         "chroot scripts" \notin new
  PROVE  Effect
<1> DEFINE all == IF needed THEN new \cup {"package cache"} ELSE {}
<1>1. Put(l, next, all) /\ "chroot scripts" \notin all  BY DEF Install
<1> HIDE DEF all
<1> QED  BY <1>1, PutEffect

LEMMA PrepareEffect == ASSUME StateOK, StateOK', Fresh, Prepare PROVE Effect
<1>1. CASE KpartxUpdate \/ KpartxAdd
  BY <1>1, KpartxEffect
<1>2. CASE ~(KpartxUpdate \/ KpartxAdd)
  <2>1. UNCHANGED resources /\ image' = image
    BY <1>2, Zenon
    DEF Prepare, Unshare, CheckDeviceSize, MakeLabel, PartProbe, MakePartition, SetBootFlag,
        SetDiskId, KpartxList, DeviceNode, Quiet, KeepTrying, resources, contents
  <2> QED  BY <2>1, UntouchedSame
<1> QED  BY <1>1, <1>2

LEMMA SetUpEffect == ASSUME StateOK, StateOK', Fresh, SetUp PROVE Effect
<1>1. CASE SetOrGatherUuid \/ RefuseBootloader \/ MakeEtc \/ LoadMounts
  <2>1. UNCHANGED resources /\ image' = image
    BY <1>1, Zenon DEF SetOrGatherUuid, RefuseBootloader, MakeEtc, LoadMounts, Quiet, contents
  <2> QED  BY <2>1, UntouchedSame
<1>2. CASE HostnameFirst \/ ResolvConfFirst
  <2>1. UNCHANGED resources  BY <1>2 DEF HostnameFirst, ResolvConfFirst, SetHostname, SetResolvConf, Write
  <2>2. image'.files = image.files
    BY <1>2 DEF HostnameFirst, ResolvConfFirst, SetHostname, SetResolvConf, Write, StateOK,
                ContentsOK, ImageType
  <2> QED  BY <2>1, <2>2, KeptSame DEF resources, SameScripts
<1> QED
  BY <1>1, <1>2, FreshImageEffect, MakeMountPointEffect, MountRootEffect, BootstrapperMountsEffect,
     UnmountLeftoversEffect
  DEF SetUp

LEMMA ConfigureEffect == ASSUME StateOK, StateOK', Fresh, Configure PROVE Effect
<1>1. CASE HostnameAgain \/ ResolvConfAgain \/ CreateFstab \/ CreateMachineId
  <2>1. UNCHANGED resources
    BY <1>1, Zenon
    DEF HostnameAgain, ResolvConfAgain, CreateFstab, CreateMachineId, SetHostname, SetResolvConf, Write
  <2>2. image'.files = image.files
    BY <1>1 DEF HostnameAgain, ResolvConfAgain, CreateFstab, CreateMachineId, SetHostname,
                SetResolvConf, Write, StateOK, ContentsOK, ImageType
  <2> QED  BY <2>1, <2>2, KeptSame DEF resources, SameScripts
<1>2. CASE InstallHostLoader
  <2>1. UNCHANGED resources  BY <1>2, Zenon DEF InstallHostLoader
  <2>2. image'.files = image.files
    BY <1>2 DEF InstallHostLoader, StateOK, ContentsOK, ImageType
  <2> QED  BY <2>1, <2>2, KeptSame DEF resources, SameScripts
<1>3. CASE RunPreScripts
  BY <1>3, QuietEffect DEF RunPreScripts
<1> QED  BY <1>1, <1>2, <1>3, MountNonDiskEffect DEF Configure

LEMMA ProvisionSystemEffect == ASSUME StateOK, ProvisionSystem PROVE Effect
<1>1. CASE AutostartOff \/ PreparePackages
  BY <1>1, PutEffect DEF AutostartOff, PreparePackages
<1>2. CASE InstallKernel \/ InstallGrub
  BY <1>2, InstallEffect DEF InstallKernel, InstallGrub
<1>3. CASE SetRootPassword
  BY <1>3, QuietEffect DEF SetRootPassword
<1>4. CASE InstallChrootLoader
  BY <1>4, UntouchedSame, Zenon DEF InstallChrootLoader
<1> QED  BY <1>1, <1>2, <1>3, <1>4 DEF ProvisionSystem

LEMMA ProvisionOpenstackEffect == ASSUME StateOK, ProvisionOpenstack PROVE Effect
<1>1. CASE InstallDhcpClient \/ InstallSudo \/ InstallCloudInit \/ InstallAcpid
  BY <1>1, InstallEffect DEF InstallDhcpClient, InstallSudo, InstallCloudInit, InstallAcpid
<1>2. CASE InstallSshd
  BY <1>2, InstallEffect DEF InstallSshd
<1>3. CASE ConfigureCloudInit \/ ServicesAutostart \/ ConfigureConsole
  BY <1>3, QuietEffect DEF ConfigureCloudInit, ServicesAutostart, ConfigureConsole
<1> QED  BY <1>1, <1>2, <1>3 DEF ProvisionOpenstack

LEMMA ProvisionBootEffect == ASSUME StateOK, ProvisionBoot PROVE Effect
<1>1. CASE CreateNetworkConfiguration \/ GenerateInitramfs
  BY <1>1, PutEffect DEF CreateNetworkConfiguration, GenerateInitramfs
<1>2. CASE AdjustGrubDefaults
  BY <1>2, QuietEffect DEF AdjustGrubDefaults
<1>3. CASE GenerateGrubCfg \/ FixGrubRootDevice
  <2>1. UNCHANGED resources  BY <1>3, Zenon DEF GenerateGrubCfg, FixGrubRootDevice, Write
  <2>2. SameScripts
    <3>1. image'.files = image.files \/ image'.files = image.files \cup {"grub.cfg"}
      <4>1. CASE GenerateGrubCfg
        BY <4>1 DEF GenerateGrubCfg, Write, StateOK, ContentsOK, ImageType
      <4>2. CASE FixGrubRootDevice
        BY <4>2 DEF FixGrubRootDevice, Write, StateOK, ContentsOK, ImageType
      <4> QED  BY <1>3, <4>1, <4>2
    <3> QED  BY <3>1 DEF SameScripts
  <2> QED  BY <2>1, <2>2, KeptSame DEF resources
<1> QED  BY <1>1, <1>2, <1>3 DEF ProvisionBoot

LEMMA ChrootScriptsEffect == ASSUME StateOK, StateOK', Fresh, ChrootScripts PROVE Effect
<1>1. CASE RunChrootScripts
  <2>1. UNCHANGED resources  BY <1>1, Zenon DEF RunChrootScripts, Write
  <2>2. SameScripts
    <3>1. \E keys \in {{}, {"ssh host keys"}} :
            image'.files = image.files \cup {"package cache"} \cup keys
      BY <1>1 DEF RunChrootScripts, Write, StateOK, ContentsOK, ImageType
    <3> QED  BY <3>1 DEF SameScripts
  <2> QED  BY <2>1, <2>2, KeptSame DEF resources
<1> QED  BY <1>1, CopyChrootScriptsEffect, RemoveChrootScriptsEffect DEF ChrootScripts

LEMMA ShipEffect == ASSUME StateOK, Ship PROVE Effect
<1>1. CASE DeleteSshdKeys \/ AutostartOn
  BY <1>1, RemoveEffect DEF DeleteSshdKeys, AutostartOn
<1>2. CASE CleanMachineId \/ ShippingCleanUp \/ HandOverResolvConf
  <2>1. UNCHANGED resources
    BY <1>2, Zenon DEF CleanMachineId, ShippingCleanUp, HandOverResolvConf, Write
  <2>2. SameScripts
    <3>1. \/ image'.files = image.files
          \/ image'.files = (image.files \cup {"package cache"}) \ {"pacman keys"}
      <4>1. CASE CleanMachineId \/ HandOverResolvConf
        BY <4>1 DEF CleanMachineId, HandOverResolvConf, Write, StateOK, ContentsOK, ImageType
      <4>2. CASE ShippingCleanUp
        BY <4>2 DEF ShippingCleanUp, Write, StateOK, ContentsOK, ImageType
      <4> QED  BY <1>2, <4>1, <4>2
    <3> QED  BY <3>1 DEF SameScripts
  <2> QED  BY <2>1, <2>2, KeptSame DEF resources
<1> QED  BY <1>1, <1>2 DEF Ship

LEMMA WayOutEffect == ASSUME StateOK, StateOK', Fresh, WayOut PROVE Effect
<1>1. CASE PostCleanUp
  BY <1>1, RemoveEffect DEF PostCleanUp
<1>2. CASE RunPostScripts
  BY <1>2, QuietEffect DEF RunPostScripts
<1> QED
  BY <1>1, <1>2, UnmountNonDiskEffect, UnmountRootEffect, RemoveMountPointEffect, RemoveDevicesEffect
  DEF WayOut

LEMMA NextEffect == ASSUME StateOK, StateOK', Fresh, Next PROVE Effect
<1>1. CASE Fault \/ Finished
  BY <1>1, UntouchedSame, Zenon DEF Fault, Finished, vars, contents
<1> QED
  BY <1>1, PrepareEffect, SetUpEffect, ConfigureEffect, ProvisionSystemEffect,
     ProvisionOpenstackEffect, ProvisionBootEffect, ChrootScriptsEffect, ShipEffect, WayOutEffect
  DEF Next, Call

(***************************************************************************)
(* run() implements Lease.                                                 *)
(***************************************************************************)
LEMMA StutterLease == ASSUME UNCHANGED vars PROVE UNCHANGED L!vars /\ (Fresh => Fresh')
<1>1. UNCHANGED <<pc, k, devices, dir, mounts, image>>
  BY DEF vars, control, resources, contents
<1>2. ASSUME NEW p \in Places
      PROVE  /\ Taken(p)' <=> Taken(p)
             /\ Answered(p)' <=> Answered(p)
             /\ Started(p)' <=> Started(p)
  <2>1. Taken(p)' <=> Taken(p)  BY <1>1, Zenon DEF Taken, Present
  <2>2. Answered(p)' <=> Answered(p)  BY <1>1, Zenon DEF Answered, Answerable
  <2>3. Started(p)' <=> Started(p)  BY <1>1, Zenon DEF Started
  <2> QED  BY <2>1, <2>2, <2>3
<1>3. Held' = Held /\ Lost' = Lost
  BY <1>2, Zenon DEF Held, Lost, Taken, Answered
<1>4. Fresh => Fresh'  BY <1>2, Zenon DEF Fresh
<1> QED  BY <1>1, <1>3, <1>4 DEF L!vars

LEMMA InitLease == ASSUME Init PROVE L!Init /\ Fresh
<1>1. pc = "unshare" /\ mounts = {} /\ image.files = {}
  BY DEF Init, EmptyImage
<1>2. devices = FALSE /\ dir = FALSE
  BY Zenon DEF Init
<1>3. \A p \in Places : ~Taken(p)
  BY <1>1, <1>2 DEF Taken, Present
<1>4. Held = {} /\ Lost = {}  BY <1>3, Zenon DEF Held, Lost, Taken
<1>5. (pc = "exit") = FALSE  BY <1>1
<1>6. Fresh  BY <1>3, Zenon DEF Fresh
<1> QED  BY <1>4, <1>5, <1>6, Zenon DEF L!Init

LEMMA FreshKept == ASSUME MovesOn, Effect, Fresh PROVE Fresh'
<1>1. ASSUME NEW p \in Places, Taken(p)' PROVE Started(p)'
  BY <1>1, Zenon DEF MovesOn, Effect, Fresh, Same, Takes, Gives, Others
<1> QED  BY <1>1, Zenon DEF Fresh

LEMMA StepLease ==
  ASSUME StateOK, StateOK', Fresh, [Next]_vars PROVE [L!Next]_(L!vars) /\ Fresh'
<1>1. CASE Next
  <2>1. MovesOn /\ Ending  BY <1>1, NextMovesOn, NextEnding
  <2>2. Effect  BY <1>1, NextEffect
  <2>3. Fresh'  BY <2>1, <2>2, FreshKept
  <2>4. StateOK' /\ Fresh' => Leases'  BY LeasesHold, PTL
  <2>5. Ordered  BY <2>1, <2>3, <2>4, LeasesHold, Zenon DEF Ordered
  <2>6. L!Next  BY <2>2, <2>5, KindsLease, Zenon DEF Effect
  <2> QED  BY <2>3, <2>6, Zenon
<1>2. CASE UNCHANGED vars
  BY <1>2, StutterLease, Zenon
<1> QED  BY <1>1, <1>2

(* Whatever fails, run() (engine.py:911-1021) takes inside what it holds,  *)
(* gives back only the innermost of it, loses only what an exception or a  *)
(* given-up command passes by, and ends answering for nothing.             *)
THEOREM LeaseDisciplineHolds == Spec => LeaseDiscipline
<1>1. Init => L!Init /\ Fresh  BY InitLease
<1>2. StateOK /\ StateOK' /\ Fresh /\ [Next]_vars => [L!Next]_(L!vars) /\ Fresh'  BY StepLease
<1> QED  BY <1>1, <1>2, AlwaysStateOK, PTL DEF Spec, LeaseDiscipline, L!Spec

(***************************************************************************)
(* What the discipline is worth: from the steps of Lease alone, whatever   *)
(* takes the resources and however many there are.                         *)
(***************************************************************************)
LeaseInv == L!TypeOK /\ L!NothingHeldInTheEnd

LEMMA AcquireKeeps == ASSUME LeaseInv, NEW p \in L!Places, L!Acquire(p) PROVE LeaseInv'
<1>1. L!TypeOK'  BY Zenon DEF LeaseInv, L!TypeOK, L!Acquire
<1>2. p \notin Lost /\ (pc' = "exit" <=> pc = "exit") /\ pc # "exit"  BY DEF L!Acquire
<1>3. L!NothingHeldInTheEnd'  BY <1>2, Zenon DEF LeaseInv, L!NothingHeldInTheEnd, L!Acquire
<1> QED  BY <1>1, <1>3 DEF LeaseInv

LEMMA MissKeeps == ASSUME LeaseInv, NEW p \in L!Places, L!Miss(p) PROVE LeaseInv'
<1>1. L!TypeOK'  BY Zenon DEF LeaseInv, L!TypeOK, L!Miss, L!MayEnd
<1>2. L!NothingHeldInTheEnd'  BY Zenon DEF LeaseInv, L!NothingHeldInTheEnd, L!Miss, L!MayEnd
<1> QED  BY <1>1, <1>2 DEF LeaseInv

LEMMA ReleaseKeeps == ASSUME LeaseInv, NEW p \in L!Places, L!Release(p) PROVE LeaseInv'
<1>1. L!TypeOK'  BY Zenon DEF LeaseInv, L!TypeOK, L!Release, L!MayEnd
<1>2. L!NothingHeldInTheEnd'  BY Zenon DEF LeaseInv, L!NothingHeldInTheEnd, L!Release, L!MayEnd
<1> QED  BY <1>1, <1>2 DEF LeaseInv

(* What is lost is no longer held, and all that is lost was taken.         *)
LEMMA AbandonKeeps == ASSUME LeaseInv, L!Abandon PROVE LeaseInv'
<1>1. L!TypeOK'  BY Zenon DEF LeaseInv, L!TypeOK, L!Abandon, L!MayEnd
<1>2. L!NothingHeldInTheEnd'  BY Zenon DEF LeaseInv, L!NothingHeldInTheEnd, L!Abandon, L!MayEnd
<1> QED  BY <1>1, <1>2 DEF LeaseInv

LEMMA LeaseNextKeeps == ASSUME LeaseInv, [L!Next]_(L!vars) PROVE LeaseInv'
<1>1. CASE UNCHANGED L!vars
  BY <1>1, Zenon DEF L!vars, LeaseInv, L!TypeOK, L!NothingHeldInTheEnd
<1> QED
  BY <1>1, AcquireKeeps, MissKeeps, ReleaseKeeps, AbandonKeeps DEF L!Next

(* Whatever follows the discipline, as run() of engine.py:911-1021 does,   *)
(* ends with nothing held, and never gives up a resource it still answers  *)
(* for.                                                                    *)
THEOREM NothingHeld == L!Spec => []L!NothingHeldInTheEnd
<1>1. L!Init => LeaseInv  BY Zenon DEF L!Init, LeaseInv, L!TypeOK, L!NothingHeldInTheEnd
<1>2. LeaseInv => L!NothingHeldInTheEnd  BY DEF LeaseInv
<1> QED  BY <1>1, <1>2, LeaseNextKeeps, PTL DEF L!Spec
=============================================================================
