------------------------------ MODULE MCEngine ------------------------------
(* Instances of Engine for TLC.                                            *)
EXTENDS Engine

(* Two nested leftovers, as debootstrap's /proc with binfmt_misc in it.    *)
MCLeftovers == <<"leftover proc", "leftover binfmt_misc">>

(* One command line that goes through every scope and every call.          *)
FullConfigs ==
  {[distro |-> "arch", bootloader |-> "chroot-grub2-drive", openstack |-> TRUE,
    uuidGiven |-> FALSE, machineId |-> FALSE, chrootScripts |-> TRUE, diskId |-> "fits"]}

(* The disk id has nothing to do with the UUID and the machine id: a run   *)
(* that is given one of these needs none.                                  *)
AllConfigs == {c \in ConfigType : c.uuidGiven \/ c.machineId => c.diskId = "none"}
ExtlinuxConfigs ==
  [distro: {"debian"}, bootloader: {"host-extlinux"}, openstack: {FALSE}, uuidGiven: {FALSE},
   machineId: {FALSE}, chrootScripts: {FALSE}, diskId: {"none"}]

(* The calls that go through check_call__keep_trying or retry by hand.     *)
RetriedCalls == {"partprobe", "boot_flag", "umount_leftover", "umount_nondisk", "umount_root",
                 "rmdir", "remove_devices"}

(* Everything may fail with the one command line, all that is retried with *)
(* another, and the boot flag may be refused with each.                    *)
MCFaultLabels ==
  [c \in AllConfigs |-> IF c \in FullConfigs THEN Calls
                        ELSE IF c \in ExtlinuxConfigs THEN RetriedCalls ELSE {"boot_flag"}]
=============================================================================
