------------------------------- MODULE Engine -------------------------------
(***************************************************************************)
(* BootstrapEngine.run() of image_bootstrap/engine.py: the sequential      *)
(* program that partitions a block device, bootstraps a distribution into  *)
(* it and makes the result bootable, inside five nested try/finally scopes *)
(* that release what was acquired (partition device mappings, mount point, *)
(* root mount, mounts a bootstrapper left behind, /dev & co.).             *)
(*                                                                         *)
(* pc names the call run() is about to make.  Any command may fail and ^C  *)
(* may arrive at any call: the exception then unwinds to the innermost     *)
(* enclosing finally, here Handler(pc).                                    *)
(*                                                                         *)
(* A definition whose name starts with Bug is the next definition with a   *)
(* mistake in it: it belongs to no behaviour of Spec and serves to show    *)
(* that the properties at the end would notice.                            *)
(***************************************************************************)
EXTENDS Naturals, Sequences

CONSTANTS Configs,      \* the command lines considered, see ConfigType
          Leftovers,    \* mounts a directory bootstrapper may leave behind, in mount order
          FaultLabels   \* the calls that may raise or be interrupted, for each command line

AnyGrub    == {"chroot-grub2-device", "chroot-grub2-drive",
               "host-grub2-device", "host-grub2-drive"}
HostGrub   == {"host-grub2-device", "host-grub2-drive"}
ChrootGrub == AnyGrub \ HostGrub

(* "trusty" is Ubuntu's only release without systemd.  A disk id spills    *)
(* when at least three of its four bytes are not ASCII (module DiskId).    *)
ConfigType == [distro: {"arch", "debian", "gentoo", "ubuntu", "trusty"},
               bootloader: AnyGrub \cup {"host-extlinux", "none"},
               openstack: BOOLEAN, uuidGiven: BOOLEAN, machineId: BOOLEAN,
               chrootScripts: BOOLEAN, diskId: {"none", "fits", "spills"}]

NonDisk == <<"dev", "dev/pts", "dev/shm", "proc", "sys">>

ASSUME ConfigsAssumption == Configs \subseteq ConfigType
ASSUME LeftoversAssumption ==
  /\ Leftovers \in Seq(STRING)
  /\ \A i \in 1..Len(Leftovers) :
       /\ Leftovers[i] \notin {"root", "dev", "dev/pts", "dev/shm", "proc", "sys",
                              "devices", "directory", "chroot scripts"}   \* see Present
       /\ \A j \in 1..Len(Leftovers) : Leftovers[i] = Leftovers[j] => i = j

(***************************************************************************)
(* The calls of run(), by the try statement they are in.                   *)
(***************************************************************************)
Preparation == {"unshare", "check_device_size", "mklabel", "partprobe", "mkpart", "boot_flag",
                "disk_id", "kpartx_list", "kpartx_update", "kpartx_add", "device_node"}
InDevices   == {"format", "uuid", "mkdtemp", "rmdir"}
InDir       == {"mount_root", "umount_root"}
BeforeBoot  == {"mkdir_etc", "hostname", "resolv_conf"}
AfterBoot   == {"hostname_again", "resolv_conf_again", "fstab", "machine_id", "pre_scripts",
                "host_loader"}
AfterChroot == {"post_clean_up", "post_scripts"}
InRoot      == BeforeBoot \cup {"load_mounts", "umount_leftover"} \cup AfterBoot
               \cup {"mount_nondisk", "umount_nondisk"} \cup AfterChroot
InChroot    == {"autostart_off", "root_password", "prepare_packages", "kernel", "grub_package",
                "chroot_loader", "dhcp_client", "sudo", "cloud_init", "cloud_cfg", "sshd",
                "services", "tty1_pcspkr", "acpid", "network", "initramfs", "grub_defaults",
                "grub_cfg", "grub_root", "copy_scripts", "remove_scripts", "delete_sshd_keys",
                "clean_machine_id", "shipping_clean_up", "resolved_link", "autostart_on"}
Calls       == Preparation \cup InDevices \cup InDir \cup InRoot \cup InChroot
               \cup {"directory_bootstrap", "run_scripts", "remove_devices"}
Labels      == Calls \cup {"exit"}

ASSUME FaultLabelsAssumption == FaultLabels \in [Configs -> SUBSET Calls]

BugHandler(l) ==   \* mount() moved out of the try that removes the directory
  CASE l \in InDevices \cup InDir -> "remove_devices"
    [] l \in InRoot               -> "umount_root"
    [] l = "directory_bootstrap"  -> "load_mounts"
    [] l \in InChroot             -> "umount_nondisk"
    [] l = "run_scripts"          -> "remove_scripts"
    [] OTHER                      -> "exit"

(* The finally clause an exception raised by call l runs next.             *)
Handler(l) ==
  CASE l \in InDevices            -> "remove_devices"
    [] l \in InDir                -> "rmdir"
    [] l \in InRoot               -> "umount_root"
    [] l = "directory_bootstrap"  -> "load_mounts"
    [] l \in InChroot             -> "umount_nondisk"
    [] l = "run_scripts"          -> "remove_scripts"
    [] OTHER                      -> "exit"   \* Preparation, remove_devices

(* Faults run() has no finally clause for: an acquisition whose exception  *)
(* arrives before its try is entered, a release that fails, and a command  *)
(* that check_call__keep_trying gave up on.                                *)
LeftoverFaults == {<<"load_mounts", "early">>, <<"umount_leftover", "early">>,
                   <<"umount_leftover", "refused">>}
NonDiskFaults  == {<<"mount_nondisk", "early">>, <<"umount_nondisk", "early">>,
                   <<"umount_nondisk", "refused">>}
RootFaults     == LeftoverFaults \cup NonDiskFaults \cup
                  {<<"mount_root", "late">>, <<"umount_root", "early">>, <<"umount_root", "refused">>}
DirFaults      == RootFaults \cup
                  {<<"mkdtemp", "late">>, <<"rmdir", "early">>, <<"rmdir", "refused">>}
DeviceFaults   == RootFaults \cup
                  {<<"kpartx_add", "early">>, <<"device_node", "early">>,
                   <<"remove_devices", "early">>, <<"remove_devices", "refused">>}
ScriptFaults   == {<<"copy_scripts", "late">>, <<"remove_scripts", "early">>}
Fragile        == DirFaults \cup DeviceFaults \cup ScriptFaults \cup {<<"boot_flag", "refused">>}

VARIABLES cfg,        \* the MachineConfig and the strategy chosen, fixed
          pc,         \* the call run() makes next
          k,          \* position of the loops over mount points
          tries,      \* attempt number of check_call__keep_trying and _rmdir_mountpount
          unwinding,  \* an exception is propagating
          faults,     \* the Fragile faults met
          devices,    \* kpartx mapping of the partitions exists
          dir,        \* the directory made under /mnt exists
          mounts,     \* what is mounted at and below it
          disk,       \* partition table, boot code and file system UUID
          uuid,       \* self._config.first_partition_uuid
          image       \* the root file system's content

control   == <<pc, k, tries, unwinding, faults>>
resources == <<devices, dir, mounts>>
contents  == <<disk, uuid, image>>
vars      == <<cfg, control, resources, contents>>

Uuids == {"none", "old", "mkfs", "given"}
Files == {"base", "kernel", "initramfs", "grub", "grub.cfg", "dhcp client", "sudo", "cloud-init",
          "sshd", "ssh host keys", "acpid", "network", "policy-rc.d", "package cache",
          "pacman keys", "portage config", "chroot scripts"}

TypeOK ==
  /\ cfg \in Configs
  /\ pc \in Labels
  /\ k \in 0..(6 + Len(Leftovers))
  /\ tries \in 1..3
  /\ unwinding \in BOOLEAN
  /\ faults \subseteq Fragile
  /\ devices \in BOOLEAN
  /\ dir \in BOOLEAN
  /\ mounts \subseteq {"root"} \cup {Leftovers[i] : i \in 1..Len(Leftovers)}
                      \cup {NonDisk[i] : i \in 1..5}
  /\ disk \in [partition: BOOLEAN, boot: {"off", "on", "clobbered"},
               loader: {"none", "grub", "extlinux"}, uuid: Uuids]
  /\ uuid \in Uuids
  /\ image \in [files: SUBSET Files, hostname: {"none", "host", "config"},
                resolv: {"none", "host", "filtered", "resolved"},
                machineId: {"none", "generated", "given", "empty"},
                fstab: Uuids, root: Uuids \cup {"probed"}]

EmptyImage == [files |-> {}, hostname |-> "none", resolv |-> "none", machineId |-> "none",
               fstab |-> "none", root |-> "none"]
BlankDisk  == [partition |-> FALSE, boot |-> "off", loader |-> "none", uuid |-> "none"]
UsedDisk   == [partition |-> TRUE, boot |-> "on", loader |-> "none", uuid |-> "old"]

Init ==
  /\ cfg \in Configs
  /\ pc = "unshare" /\ k = 1 /\ tries = 1 /\ unwinding = FALSE /\ faults = {}
  /\ devices = FALSE /\ dir = FALSE /\ mounts = {}
  /\ disk = UsedDisk     \* run() may be given a device that was installed to before
  /\ uuid = IF cfg.uuidGiven THEN "given" ELSE "none"
  /\ image = EmptyImage

(***************************************************************************)
(* Control flow.                                                           *)
(***************************************************************************)
FirstIndex(l) == CASE l = "umount_leftover" -> Len(Leftovers)
                   [] l = "umount_nondisk"  -> 5
                   [] OTHER                 -> 1

Move(l, i) == pc' = l /\ k' = i /\ tries' = 1 /\ UNCHANGED unwinding
Note(l, when) == faults' = faults \cup ({<<l, when>>} \cap Fragile)

Goto(l) == Move(l, FirstIndex(l)) /\ UNCHANGED faults

Throw(l) == /\ pc' = Handler(l) /\ k' = FirstIndex(Handler(l)) /\ tries' = 1
            /\ unwinding' = TRUE

Fallible(l) == l \in FaultLabels[cfg]

Raise(l, when) == Fallible(l) /\ Throw(l) /\ Note(l, when)

BugContinuation(l, next) == next   \* a return in the finally clause

(* A finally clause that is done continues the exception, if there is one. *)
Continuation(l, next) == IF unwinding THEN Handler(l) ELSE next

(* Call l raises before it did anything.                                   *)
Fault == pc # "exit" /\ Raise(pc, "early") /\ UNCHANGED <<cfg, resources, contents>>

(* A call that only writes the file system, and is part of the same scope  *)
(* as the next one.                                                        *)
Write(l, next, newImage) ==
  /\ pc = l
  /\ image' = newImage
  /\ Goto(next)
  /\ UNCHANGED <<cfg, resources, disk, uuid>>

(* A call without an effect on what is modelled.                           *)
Quiet(l, next) == pc = l /\ Goto(next) /\ UNCHANGED <<cfg, resources, contents>>

BugKeepTryingOnceMore(l, possible, Effect, next, i) ==   \* range(4)
  /\ pc = l
  /\ \/ /\ possible
        /\ Effect
        /\ Move(next, i) /\ UNCHANGED faults
     \/ /\ ~possible \/ Fallible(l)
        /\ UNCHANGED <<resources, contents>>
        /\ IF tries <= 3
           THEN tries' = tries + 1 /\ UNCHANGED <<pc, k, unwinding, faults>>
           ELSE Move(next, i) /\ Note(l, "refused")
  /\ UNCHANGED cfg

BugKeepTryingForever(l, possible, Effect, next, i) ==   \* while True
  /\ pc = l
  /\ \/ possible /\ Effect /\ Move(next, i) /\ UNCHANGED faults
     \/ /\ ~possible \/ Fallible(l)
        /\ tries' = IF tries < 3 THEN tries + 1 ELSE 1
        /\ UNCHANGED <<pc, k, unwinding, faults, resources, contents>>
  /\ UNCHANGED cfg

(* check_call__keep_trying: three attempts, then the program carries on as *)
(* if the command had succeeded.  The command is bound to fail unless      *)
(* `possible`, and may fail anyway.                                        *)
KeepTrying(l, possible, Effect, next, i) ==
  /\ pc = l
  /\ \/ /\ possible
        /\ Effect
        /\ \/ Move(next, i) /\ UNCHANGED faults
           \/ next # l /\ Raise(l, "late")
     \/ /\ ~possible \/ Fallible(l)
        /\ UNCHANGED <<resources, contents>>
        /\ IF tries < 3
           THEN tries' = tries + 1 /\ UNCHANGED <<pc, k, unwinding, faults>>
           ELSE /\ Move(next, i)
                /\ IF possible THEN Note(l, "refused") ELSE UNCHANGED faults
  /\ UNCHANGED cfg


(***************************************************************************)
(* Lines 912-916: before the first try.                                    *)
(***************************************************************************)
DebianBased == cfg.distro \in {"debian", "ubuntu", "trusty"}
UsesSystemd == cfg.distro \notin {"gentoo", "trusty"}

Unshare         == Quiet("unshare", "check_device_size")
CheckDeviceSize == Quiet("check_device_size", "mklabel")

MakeLabel == /\ pc = "mklabel" /\ disk' = BlankDisk /\ Goto("partprobe")
             /\ UNCHANGED <<cfg, resources, uuid, image>>
PartProbe == KeepTrying("partprobe", TRUE, UNCHANGED <<resources, contents>>, "mkpart", 1)
MakePartition == /\ pc = "mkpart" /\ disk' = [disk EXCEPT !.partition = TRUE] /\ Goto("boot_flag")
                 /\ UNCHANGED <<cfg, resources, uuid, image>>
SetBootFlag ==
  KeepTrying("boot_flag", TRUE,
             disk' = [disk EXCEPT !.boot = "on"] /\ UNCHANGED <<resources, uuid, image>>,
             "disk_id", 1)

(* Text written in UTF-8: an identifier that spills overwrites the status  *)
(* byte of the first partition entry.                                      *)
SetDiskId ==
  /\ pc = "disk_id"
  /\ disk' = IF cfg.diskId = "spills" THEN [disk EXCEPT !.boot = "clobbered"] ELSE disk
  /\ Goto("kpartx_list")
  /\ UNCHANGED <<cfg, resources, uuid, image>>

KpartxList == Quiet("kpartx_list", "kpartx_update")

(* kpartx -u, and kpartx -a if that failed, with or without an effect.     *)
KpartxUpdate ==
  /\ pc = "kpartx_update"
  /\ \/ devices' = TRUE /\ Goto("device_node")
     \/ /\ Fallible("kpartx_update")
        /\ devices' \in {devices, TRUE}
        /\ Goto("kpartx_add")
  /\ UNCHANGED <<cfg, dir, mounts, contents>>
KpartxAdd == /\ pc = "kpartx_add" /\ devices' = TRUE /\ Goto("device_node")
             /\ UNCHANGED <<cfg, dir, mounts, contents>>
DeviceNode == Quiet("device_node", "format")

Prepare == \/ Unshare \/ CheckDeviceSize \/ MakeLabel \/ PartProbe \/ MakePartition
           \/ SetBootFlag \/ SetDiskId \/ KpartxList \/ KpartxUpdate \/ KpartxAdd \/ DeviceNode

(***************************************************************************)
(* Lines 918-932: file system, mount point, bootstrapping.                 *)
(***************************************************************************)
FormatPartitions ==
  /\ pc = "format"
  /\ disk' = [disk EXCEPT !.uuid = "mkfs"]
  /\ image' = EmptyImage
  /\ Goto("uuid")
  /\ UNCHANGED <<cfg, resources, uuid>>

BugSetOrGatherUuid ==   \* without tune2fs
  /\ pc = "uuid"
  /\ uuid' = IF uuid = "none" THEN disk.uuid ELSE uuid
  /\ Goto("mkdtemp")
  /\ UNCHANGED <<cfg, resources, disk, image>>

SetOrGatherUuid ==
  /\ pc = "uuid"
  /\ \/ uuid # "none" /\ disk' = [disk EXCEPT !.uuid = uuid] /\ UNCHANGED uuid
     \/ uuid = "none" /\ uuid' = disk.uuid /\ UNCHANGED disk
  /\ Goto("mkdtemp")
  /\ UNCHANGED <<cfg, resources, image>>

MakeMountPoint ==
  /\ pc = "mkdtemp" /\ dir' = TRUE
  /\ Goto("mount_root") \/ Raise("mkdtemp", "late")
  /\ UNCHANGED <<cfg, devices, mounts, contents>>

MountRoot ==
  /\ pc = "mount_root" /\ mounts' = mounts \cup {"root"}
  /\ Goto("mkdir_etc") \/ Raise("mount_root", "late")
  /\ UNCHANGED <<cfg, devices, dir, contents>>

SetHostname(l, next)   == Write(l, next, [image EXCEPT !.hostname = "config"])
SetResolvConf(l, next) == Write(l, next, [image EXCEPT !.resolv = "filtered"])

MakeEtc          == Quiet("mkdir_etc", "hostname")
HostnameFirst    == SetHostname("hostname", "resolv_conf")
ResolvConfFirst  == SetResolvConf("resolv_conf", "directory_bootstrap")

Bootstrapped ==
  IF DebianBased
  THEN {"base", "kernel", "initramfs", "dhcp client", "package cache"}
       \cup (IF cfg.bootloader \in AnyGrub THEN {"grub"} ELSE {})
  ELSE IF cfg.distro = "arch" THEN {"base", "dhcp client", "package cache", "pacman keys"}
  ELSE {"base"}

UnsupportedBootloader == DebianBased /\ cfg.bootloader = "none"

(* debootstrap, pacstrap or a stage3 tarball, which may mount things below *)
(* the target and not unmount them, whether it succeeds or not ...         *)
BootstrapperMounts ==
  /\ pc = "directory_bootstrap" /\ ~UnsupportedBootloader
  /\ k <= Len(Leftovers)
  /\ mounts' = mounts \cup {Leftovers[k]}
  /\ Move(pc, k + 1)
  /\ UNCHANGED <<cfg, faults, devices, dir, contents>>

(* ... and may put the host's name and resolv.conf into the target and     *)
(* generate a machine id.                                                  *)
DirectoryBootstrap ==
  /\ pc = "directory_bootstrap" /\ ~UnsupportedBootloader
  /\ \E fromHost \in BOOLEAN, id \in {image.machineId, "generated"} :
       image' = [image EXCEPT !.files = Bootstrapped,
                              !.machineId = id,
                              !.hostname = IF fromHost THEN "host" ELSE @,
                              !.resolv = IF fromHost THEN "host" ELSE @]
  /\ Goto("load_mounts")
  /\ UNCHANGED <<cfg, resources, disk, uuid>>

RefuseBootloader ==   \* NotImplementedError
  /\ pc = "directory_bootstrap" /\ UnsupportedBootloader
  /\ Throw("directory_bootstrap")
  /\ UNCHANGED <<cfg, faults, resources, contents>>

(* Lines 935-936: what is mounted below the mount point, last one first.   *)
(* dev/pts and dev/shm keep dev busy.                                      *)
NestedMounts(m) == IF m = "dev" THEN {"dev/pts", "dev/shm"} ELSE {}
LeftoversAbove(i) == {Leftovers[j] : j \in (i + 1)..Len(Leftovers)}

LoadMounts == Quiet("load_mounts", "umount_leftover")

UnmountLeftovers ==
  /\ pc = "umount_leftover"
  /\ \/ /\ k = 0
        /\ Goto(Continuation("umount_leftover", "hostname_again"))
        /\ UNCHANGED <<cfg, resources, contents>>
     \/ /\ k > 0 /\ Leftovers[k] \notin mounts
        /\ Move(pc, k - 1)
        /\ UNCHANGED <<cfg, faults, resources, contents>>
     \/ /\ k > 0 /\ Leftovers[k] \in mounts
        /\ KeepTrying("umount_leftover", LeftoversAbove(k) \cap mounts = {},
                      /\ mounts' = mounts \ {Leftovers[k]}
                      /\ UNCHANGED <<devices, dir, contents>>,
                      "umount_leftover", k - 1)

SetUp == \/ FormatPartitions \/ SetOrGatherUuid \/ MakeMountPoint \/ MountRoot \/ MakeEtc
         \/ HostnameFirst \/ ResolvConfFirst \/ BootstrapperMounts \/ DirectoryBootstrap
         \/ RefuseBootloader \/ LoadMounts \/ UnmountLeftovers

(***************************************************************************)
(* Lines 937-946: configuration of the fresh system, host-side boot        *)
(* loaders, and the mounts for working inside the chroot.                  *)
(***************************************************************************)
BugHostnameAgain   == Quiet("hostname_again", "resolv_conf_again")   \* not re-written
BugResolvConfAgain == Quiet("resolv_conf_again", "fstab")

HostnameAgain   == SetHostname("hostname_again", "resolv_conf_again")
ResolvConfAgain == SetResolvConf("resolv_conf_again", "fstab")
CreateFstab     == Write("fstab", "machine_id", [image EXCEPT !.fstab = uuid])
CreateMachineId == Write("machine_id", "pre_scripts",
                         [image EXCEPT !.machineId = IF cfg.machineId THEN "given" ELSE @])
RunPreScripts   == Quiet("pre_scripts", "host_loader")

InstallHostLoader ==
  /\ pc = "host_loader"
  /\ \/ /\ cfg.bootloader \in HostGrub
        /\ disk' = [disk EXCEPT !.loader = "grub"] /\ UNCHANGED image
     \/ /\ cfg.bootloader = "host-extlinux"
        /\ disk' = [disk EXCEPT !.loader = "extlinux"]
        /\ image' = [image EXCEPT !.root = uuid]
     \/ /\ cfg.bootloader \in ChrootGrub \cup {"none"}
        /\ UNCHANGED <<disk, image>>
  /\ Goto("mount_nondisk")
  /\ UNCHANGED <<cfg, resources, uuid>>

MountNonDisk ==
  /\ pc = "mount_nondisk"
  /\ \/ /\ k <= 5
        /\ mounts' = mounts \cup {NonDisk[k]}
        /\ Move(pc, k + 1) /\ UNCHANGED faults
     \/ k = 6 /\ Goto("autostart_off") /\ UNCHANGED mounts
  /\ UNCHANGED <<cfg, devices, dir, contents>>

Configure == \/ HostnameAgain \/ ResolvConfAgain \/ CreateFstab \/ CreateMachineId
             \/ RunPreScripts \/ InstallHostLoader \/ MountNonDisk

(***************************************************************************)
(* Lines 948-1011: inside the chroot.                                      *)
(***************************************************************************)
Put(l, next, new)    == Write(l, next, [image EXCEPT !.files = @ \cup new])
Remove(l, next, old) == Write(l, next, [image EXCEPT !.files = @ \ old])

(* Packages are installed if the distribution needs a call to do so.       *)
Install(l, next, needed, new) ==
  Put(l, next, IF needed THEN new \cup {"package cache"} ELSE {})

BugInstallGrub == Install("grub_package", "chroot_loader",   \* for chroot approaches only
                          ~DebianBased /\ cfg.bootloader \in ChrootGrub, {"grub"})

AutostartOff    == Put("autostart_off", "root_password",
                       IF DebianBased THEN {"policy-rc.d"} ELSE {})
SetRootPassword == Quiet("root_password", "prepare_packages")
PreparePackages == Put("prepare_packages", "kernel",
                       IF cfg.distro = "gentoo" THEN {"portage config"} ELSE {})
InstallKernel   == Install("kernel", "grub_package", ~DebianBased, {"kernel"})
InstallGrub     == Install("grub_package", "chroot_loader",
                           ~DebianBased /\ cfg.bootloader \in AnyGrub, {"grub"})

InstallChrootLoader ==
  /\ pc = "chroot_loader"
  /\ disk' = IF cfg.bootloader \in ChrootGrub THEN [disk EXCEPT !.loader = "grub"] ELSE disk
  /\ Goto("dhcp_client")
  /\ UNCHANGED <<cfg, resources, uuid, image>>

InstallDhcpClient == Install("dhcp_client", "sudo",
                             cfg.openstack /\ cfg.distro = "gentoo", {"dhcp client"})
InstallSudo       == Install("sudo", "cloud_init", cfg.openstack, {"sudo"})
InstallCloudInit  == Install("cloud_init", "cloud_cfg", cfg.openstack,
                             {"cloud-init"} \cup (IF cfg.distro = "gentoo" THEN {"sshd"} ELSE {}))
ConfigureCloudInit == Quiet("cloud_cfg", "sshd")
InstallSshd       == \E keys \in {{}, {"ssh host keys"}} :
                       Install("sshd", "services", cfg.openstack, {"sshd"} \cup keys)
ServicesAutostart == Quiet("services", "tty1_pcspkr")
ConfigureConsole  == Quiet("tty1_pcspkr", "acpid")
InstallAcpid      == Install("acpid", "network", cfg.openstack /\ ~UsesSystemd, {"acpid"})

BugGenerateGrubCfg ==   \* for chroot approaches only
  Write("grub_cfg", "grub_root",
        IF cfg.bootloader \in ChrootGrub
        THEN [image EXCEPT !.files = @ \cup {"grub.cfg"}, !.root = "probed"] ELSE image)

CreateNetworkConfiguration == Put("network", "initramfs", {"network"})
GenerateInitramfs == Put("initramfs", "grub_defaults",
                         {"initramfs"} \cup (IF cfg.distro = "gentoo" THEN {"package cache"} ELSE {}))
AdjustGrubDefaults == Quiet("grub_defaults", "grub_cfg")
GenerateGrubCfg ==
  Write("grub_cfg", "grub_root",
        IF cfg.bootloader \in AnyGrub
        THEN [image EXCEPT !.files = @ \cup {"grub.cfg"}, !.root = "probed"] ELSE image)
FixGrubRootDevice ==
  Write("grub_root", "copy_scripts",
        IF cfg.bootloader \in AnyGrub THEN [image EXCEPT !.root = uuid] ELSE image)

CopyChrootScripts ==
  /\ pc = "copy_scripts"
  /\ \/ /\ cfg.chrootScripts
        /\ image' = [image EXCEPT !.files = @ \cup {"chroot scripts"}]
        /\ Goto("run_scripts") \/ Raise("copy_scripts", "late")
     \/ ~cfg.chrootScripts /\ UNCHANGED image /\ Goto("delete_sshd_keys")
  /\ UNCHANGED <<cfg, resources, disk, uuid>>

(* The user's scripts may install packages and start services.             *)
RunChrootScripts ==
  \E keys \in {{}, {"ssh host keys"}}, id \in {image.machineId, "generated"} :
    Write("run_scripts", "remove_scripts",
          [image EXCEPT !.files = @ \cup {"package cache"} \cup keys,
                        !.machineId = IF @ \in {"none", "empty"} THEN id ELSE @])

RemoveChrootScripts == Remove("remove_scripts", Continuation("remove_scripts", "delete_sshd_keys"),
                              {"chroot scripts"})

BugCleanMachineId ==   \* an explicit id is not kept
  Write("clean_machine_id", "shipping_clean_up",
        [image EXCEPT !.machineId = IF cfg.openstack THEN "empty" ELSE @])

DeleteSshdKeys == Remove("delete_sshd_keys", "clean_machine_id",
                         IF cfg.openstack THEN {"ssh host keys"} ELSE {})
CleanMachineId ==
  Write("clean_machine_id", "shipping_clean_up",
        [image EXCEPT !.machineId = IF cfg.openstack /\ ~cfg.machineId THEN "empty" ELSE @])
ShippingCleanUp ==
  Write("shipping_clean_up", "resolved_link",
        IF cfg.openstack /\ cfg.distro = "arch"
        THEN [image EXCEPT !.files = (@ \cup {"package cache"}) \ {"pacman keys"}] ELSE image)
HandOverResolvConf ==
  Write("resolved_link", "autostart_on",
        IF cfg.openstack /\ cfg.distro = "arch" THEN [image EXCEPT !.resolv = "resolved"] ELSE image)
AutostartOn == Remove("autostart_on", "umount_nondisk",
                      IF DebianBased THEN {"policy-rc.d"} ELSE {})

ProvisionSystem == \/ AutostartOff \/ SetRootPassword \/ PreparePackages \/ InstallKernel
                   \/ InstallGrub \/ InstallChrootLoader
ProvisionOpenstack == \/ InstallDhcpClient \/ InstallSudo \/ InstallCloudInit \/ ConfigureCloudInit
                      \/ InstallSshd \/ ServicesAutostart \/ ConfigureConsole \/ InstallAcpid
ProvisionBoot == \/ CreateNetworkConfiguration \/ GenerateInitramfs \/ AdjustGrubDefaults
                 \/ GenerateGrubCfg \/ FixGrubRootDevice
ChrootScripts == CopyChrootScripts \/ RunChrootScripts \/ RemoveChrootScripts
Ship == \/ DeleteSshdKeys \/ CleanMachineId \/ ShippingCleanUp \/ HandOverResolvConf \/ AutostartOn

(***************************************************************************)
(* Lines 1012-1021: the way out.                                           *)
(***************************************************************************)
BugUnmountNonDisk ==   \* without reversed()
  /\ pc = "umount_nondisk"
  /\ \/ /\ k = 0
        /\ Goto(Continuation("umount_nondisk", "post_clean_up"))
        /\ UNCHANGED <<cfg, resources, contents>>
     \/ /\ k > 0
        /\ KeepTrying("umount_nondisk", NestedMounts(NonDisk[6 - k]) \cap mounts = {},
                      /\ mounts' = mounts \ {NonDisk[6 - k]}
                      /\ UNCHANGED <<devices, dir, contents>>,
                      "umount_nondisk", k - 1)

UnmountNonDisk ==
  /\ pc = "umount_nondisk"
  /\ \/ /\ k = 0
        /\ Goto(Continuation("umount_nondisk", "post_clean_up"))
        /\ UNCHANGED <<cfg, resources, contents>>
     \/ /\ k > 0
        /\ KeepTrying("umount_nondisk", NestedMounts(NonDisk[k]) \cap mounts = {},
                      /\ mounts' = mounts \ {NonDisk[k]}
                      /\ UNCHANGED <<devices, dir, contents>>,
                      "umount_nondisk", k - 1)

PostCleanUp    == Remove("post_clean_up", "post_scripts", {"package cache"})
RunPostScripts == Quiet("post_scripts", "umount_root")

UnmountRoot ==
  KeepTrying("umount_root", mounts = {"root"},
             mounts' = {} /\ UNCHANGED <<devices, dir, contents>>, "rmdir", 1)
RemoveMountPoint ==
  KeepTrying("rmdir", mounts = {}, dir' = FALSE /\ UNCHANGED <<devices, mounts, contents>>,
             "remove_devices", 1)
RemovePartitionDevices ==
  KeepTrying("remove_devices", mounts = {},
             devices' = FALSE /\ UNCHANGED <<dir, mounts, contents>>, "exit", 1)

WayOut == \/ UnmountNonDisk \/ PostCleanUp \/ RunPostScripts
          \/ UnmountRoot \/ RemoveMountPoint \/ RemovePartitionDevices

Finished == pc = "exit" /\ UNCHANGED vars

Call == \/ Prepare \/ SetUp \/ Configure \/ ProvisionSystem \/ ProvisionOpenstack
        \/ ProvisionBoot \/ ChrootScripts \/ Ship \/ WayOut

Next == Call \/ Fault \/ Finished

(* One process, and every command returns (or raises) sooner or later.     *)
Spec == Init /\ [][Next]_vars /\ WF_vars(Call)

(***************************************************************************)
(* Properties.                                                             *)
(***************************************************************************)
NonDiskSet  == {NonDisk[i] : i \in 1..5}
LeftoverSet == {Leftovers[i] : i \in 1..Len(Leftovers)}
Succeeded   == pc = "exit" /\ ~unwinding

(* Whatever is still held when run() is over is explained by a fault of    *)
(* the very step that should have released it, or by what is nested in it: *)
(* the mounts below by their own unmounting, the root file system also by  *)
(* those, the directory and the partition devices by what keeps them busy, *)
(* the copied chroot scripts by the copying or the removal itself.  Every  *)
(* other failure or ^C anywhere in run() leaves nothing behind.            *)
CleanExit ==
  pc = "exit" =>
    /\ mounts \cap LeftoverSet # {}       => faults \cap LeftoverFaults # {}
    /\ mounts \cap NonDiskSet # {}        => faults \cap NonDiskFaults # {}
    /\ "root" \in mounts                  => faults \cap RootFaults # {}
    /\ dir                                => faults \cap DirFaults # {}
    /\ devices                            => faults \cap DeviceFaults # {}
    /\ "chroot scripts" \in image.files   => faults \cap ScriptFaults # {}

(* While an exception propagates, the finally clauses only take down: they *)
(* mount nothing, create nothing and leave the boot sector alone.          *)
UnwindingOnlyReleases ==
  [][unwinding => /\ mounts' \subseteq mounts
                  /\ devices' => devices
                  /\ dir' => dir
                  /\ image'.files \subseteq image.files
                  /\ UNCHANGED <<disk, uuid>>
                  /\ unwinding']_vars

(* The shipped image has the requested host name, name servers that were   *)
(* filtered or handed to systemd-resolved, starts services again and has   *)
(* no package archives: nothing of the build host is left in it, whatever  *)
(* the bootstrapper copied there (README.md:82 and :87-88).                *)
NoHostLeak ==
  Succeeded =>
    /\ image.hostname = "config"
    /\ image.resolv = IF cfg.openstack /\ cfg.distro = "arch" THEN "resolved" ELSE "filtered"
    /\ image.files \cap {"policy-rc.d", "package cache"} = {}

(* Two machines made from one OpenStack image share neither SSH host keys, *)
(* nor pacman keys, nor a machine id, unless the user asked for a fixed    *)
(* machine id, which then survives every later step.                       *)
NoSharedIdentity ==
  Succeeded =>
    /\ cfg.machineId => image.machineId = "given"
    /\ cfg.openstack => /\ image.files \cap {"ssh host keys", "pacman keys"} = {}
                        /\ ~cfg.machineId => image.machineId = "empty"

(* fstab and the boot loader's configuration name the file system that is  *)
(* really on the partition, and it has the UUID the user asked for.        *)
UuidAgreement ==
  Succeeded =>
    /\ image.fstab = disk.uuid
    /\ disk.uuid = IF cfg.uuidGiven THEN "given" ELSE "mkfs"
    /\ cfg.bootloader # "none" => image.root = disk.uuid

(* A run that succeeds leaves a device the requested boot loader can boot, *)
(* except when parted refused the boot flag three times or the disk        *)
(* identifier spilled over it.                                             *)
Bootable ==
  Succeeded /\ cfg.bootloader # "none" =>
    /\ disk.partition
    /\ disk.loader = IF cfg.bootloader \in AnyGrub THEN "grub" ELSE "extlinux"
    /\ {"kernel", "initramfs"} \subseteq image.files
    /\ cfg.bootloader \in AnyGrub => "grub.cfg" \in image.files
    /\ disk.boot = "on" \/ cfg.diskId = "spills" \/ <<"boot_flag", "refused">> \in faults

(* What a call relies on an earlier one to have put into the image.        *)
Needs(l) ==
  IF l = "kernel" /\ cfg.distro = "gentoo" THEN {"portage config"}
  ELSE IF l = "chroot_loader" /\ cfg.bootloader \in ChrootGrub THEN {"grub"}
  ELSE IF l = "cloud_cfg" /\ cfg.openstack THEN {"cloud-init"}
  ELSE IF l = "services" /\ cfg.openstack THEN {"cloud-init", "sshd"}
  ELSE IF l = "network" /\ cfg.openstack THEN {"dhcp client"}
  ELSE IF l = "initramfs" THEN {"kernel"}
  ELSE IF l = "grub_defaults" /\ cfg.bootloader \in AnyGrub THEN {"grub"}
  ELSE IF l = "grub_cfg" /\ cfg.bootloader \in AnyGrub THEN {"grub", "kernel", "initramfs"}
  ELSE IF l = "grub_root" /\ cfg.bootloader \in AnyGrub THEN {"grub.cfg"}
  ELSE IF l = "delete_sshd_keys" /\ cfg.openstack THEN {"sshd"}
  ELSE IF l = "shipping_clean_up" /\ cfg.openstack /\ cfg.distro = "arch" THEN {"pacman keys"}
  ELSE {}

(* The order of run() provides, for every distribution, boot loader and    *)
(* option, each call with what it works on: the kernel before the          *)
(* initramfs, both before grub.cfg, the DHCP client before its             *)
(* configuration, the services before they are enabled (engine.py:952-954, *)
(* :958, :983).                                                            *)
ToolsPresent == Needs(pc) \subseteq image.files

(* The calls that install packages or run code inside the chroot.          *)
InstallCalls ==
  {"kernel", "grub_package", "chroot_loader", "dhcp_client", "sudo", "cloud_init", "sshd",
   "acpid", "initramfs", "grub_cfg", "run_scripts", "shipping_clean_up"}

(* Whatever installs packages finds /dev, /proc and /sys mounted, name     *)
(* servers that work from the host, pacman its keys, and dpkg a policy     *)
(* that keeps it from starting services (engine.py:892, :1008;             *)
(* distros/arch.py:207).                                                   *)
InstallEnvironment ==
  /\ pc \in InstallCalls =>
       /\ NonDiskSet \subseteq mounts
       /\ image.resolv = "filtered"
       /\ DebianBased => "policy-rc.d" \in image.files
       /\ cfg.distro = "arch" => "pacman keys" \in image.files
  /\ pc = "directory_bootstrap" => "root" \in mounts /\ image.resolv = "filtered"

(* run() ends: every retry loop is bounded, also while unwinding.          *)
Termination == <>(pc = "exit")

(***************************************************************************)
(* run() as a stack of leases, see module Lease.  A resource is held while *)
(* a scope entered by run() is answerable for it, and lost if it exists    *)
(* without one.                                                            *)
(***************************************************************************)
Present(r) ==
  IF r = "devices" THEN devices
  ELSE IF r = "directory" THEN dir
  ELSE IF r = "chroot scripts" THEN r \in image.files
  ELSE r \in mounts

InRootScope == InRoot \cup InChroot \cup {"directory_bootstrap", "run_scripts", "umount_root"}
InDirScope  == InRootScope \cup {"mount_root", "rmdir"}

Answerable(r) ==
  IF r = "devices"
  THEN pc \in InDirScope \cup {"kpartx_add", "device_node", "format", "uuid", "mkdtemp",
                               "remove_devices"}
  ELSE IF r = "directory" THEN pc \in InDirScope
  ELSE IF r = "root" THEN pc \in InRootScope
  ELSE IF r = "chroot scripts" THEN pc \in {"run_scripts", "remove_scripts"}
  ELSE IF r \in LeftoverSet
  THEN \/ pc \in {"directory_bootstrap", "load_mounts"}
       \/ pc = "umount_leftover" /\ \E i \in 1..k : r = Leftovers[i]
  ELSE \/ pc = "mount_nondisk"
       \/ pc \in InChroot \cup {"run_scripts"}
       \/ pc = "umount_nondisk" /\ \E i \in 1..k : r = NonDisk[i]

AcquisitionOrder == <<"devices", "directory", "root">> \o Leftovers \o NonDisk \o <<"chroot scripts">>
Places == 1..Len(AcquisitionOrder)
Held   == {p \in Places : Present(AcquisitionOrder[p]) /\ Answerable(AcquisitionOrder[p])}
Lost   == {p \in Places : Present(AcquisitionOrder[p]) /\ ~Answerable(AcquisitionOrder[p])}

L == INSTANCE Lease WITH Depth <- Len(AcquisitionOrder), held <- Held, lost <- Lost,
                         over <- (pc = "exit")

(* run() implements the discipline of nested leases.                       *)
LeaseDiscipline == L!Spec
=============================================================================
