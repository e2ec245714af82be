------------------------------- MODULE Preflight -------------------------------
(***************************************************************************)
(* What image-bootstrap and directory-bootstrap do before run(): the boot  *)
(* loader approach and GRUB's installer are selected, and everything that  *)
(* can be found missing or unfit is to be found now, before run() changes  *)
(* the device or directory.  _main__level_three of both __main__.py, the   *)
(* checks of engine.py:140-291 and how errors become an exit status.       *)
(*                                                                         *)
(* A definition whose name starts with Bug is the next definition with a   *)
(* mistake in it.                                                          *)
(***************************************************************************)
EXTENDS Naturals

CONSTANTS CommandLines,   \* the command lines considered, see CommandLineType
          Hosts           \* the hosts considered with each of them, see HostType

NoCommand   == "none"
ChrootGrub  == {"chroot-grub2-device", "chroot-grub2-drive"}
HostGrub    == {"host-grub2-device", "host-grub2-drive"}
Approaches  == ChrootGrub \cup HostGrub \cup {"host-extlinux", "none"}
DebianBased == {"debian", "ubuntu"}
Categories  == {"pre", "chroot", "post"}

(* command is that of --grub2-install; bookworm stands for the releases    *)
(* that check_release of debian.py does not refuse.                        *)
CommandLineType ==
  [program: {"image"}, distro: {"arch", "debian", "gentoo", "ubuntu"},
   approach: Approaches \cup {"auto"}, command: {NoCommand, "grub-install"},
   release: {"bookworm", "stable", "bullseye"},
   architecture: {"amd64", "i386", "i686", "x86_64"}]
  \cup
  [program: {"directory"}, distro: {"alpine", "arch", "gentoo", "void"}]

(* A script is ignored if its name starts with a dot or ends with "~".     *)
ScriptType == [ignored: BOOLEAN, executable: BOOLEAN]
DirType    == [kind: {"directory", "symlink", "file"}, writable: BOOLEAN,   \* to others
               owner: {"root", "sudo user", "other"}, scripts: SUBSET ScriptType]

NoScripts == [kind |-> "none"]

HostCommands == {"blkid", "blockdev", "chmod", "chroot", "cp", "debootstrap", "extlinux", "find",
                 "gpg", "grub-install", "grub2-install", "install-mbr", "kpartx", "md5sum",
                 "mkdir", "mkfs.ext4", "mount", "parted", "partprobe", "rm", "rmdir", "sed",
                 "sha512sum", "tar", "tune2fs", "umount", "uname", "unshare", "unxz", "wget"}

(* legacy: its grub-install is of GRUB 0.x.                                *)
HostType == [absent: SUBSET HostCommands, legacy: BOOLEAN, machine: {"x86_64", "i686", "aarch64"},
             block: BOOLEAN, sudoUid: BOOLEAN,
             scripts: [Categories -> DirType \cup {NoScripts}]]

ASSUME CommandLinesAssumption == CommandLines \subseteq CommandLineType
ASSUME HostsAssumption        == Hosts \in [CommandLines -> SUBSET HostType]

VARIABLES opts,           \* the command line, fixed
          host,           \* the host, fixed
          pc,             \* the call main makes next
          approach,       \* MachineConfig.bootloader_approach
          command,        \* BootstrapEngine._command_grub2_install
          architecture,   \* MachineConfig.architecture
          touched,        \* run() has been called
          outside,        \* an I/O error or ^C came from outside
          status          \* the exit status; 0 until there is another

vars == <<opts, host, pc, approach, command, architecture, touched, outside, status>>

TypeOK ==
  /\ opts \in CommandLines
  /\ host \in Hosts[opts]
  /\ pc \in {"check_release", "select_bootloader", "detect_grub2_install", "check_architecture",
             "check_device", "check_scripts", "root_password", "create", "check_for_commands",
             "unshare", "run", "exit"}
  /\ approach \in Approaches \cup {"auto"}
  /\ command \in {NoCommand, "grub-install", "grub2-install"}
  /\ architecture \in {"amd64", "i386", "i686", "x86_64"}
  /\ touched \in BOOLEAN /\ outside \in BOOLEAN
  /\ status \in {0, 1, 130}

Init ==
  /\ opts \in CommandLines
  /\ host \in Hosts[opts]
  /\ \/ opts.program = "image" /\ pc = "check_release"
        /\ approach = opts.approach /\ command = opts.command /\ architecture = opts.architecture
     \/ opts.program = "directory" /\ pc = "create"
        /\ approach = "none" /\ command = NoCommand /\ architecture = "x86_64"
  /\ touched = FALSE /\ outside = FALSE /\ status = 0

(***************************************************************************)
(* The commands that are looked for, and those that run() starts on the    *)
(* host with any of its options.                                           *)
(***************************************************************************)
BootstrapperCommands(d) ==
  {"wget"} \cup CASE d = "alpine" -> {"gpg", "unshare"}
                  [] d = "arch"   -> {"chroot", "mount", "tar", "umount"}
                  [] d = "gentoo" -> {"gpg", "md5sum", "sha512sum", "tar", "unxz"}
                  [] d = "void"   -> {"cp", "tar", "unxz"}

StrategyCommands(d) ==
  CASE d \in DebianBased -> {"chroot", "find", "uname", "unshare", "debootstrap"}
    [] d = "arch"        -> BootstrapperCommands(d) \cup {"chroot", "cp", "find", "rm", "wget"}
    [] d = "gentoo"      -> BootstrapperCommands(d) \cup {"chroot", "find", "wget"}

EngineCommands ==
  {"blkid", "blockdev", "chmod", "chroot", "cp", "find", "kpartx", "mkdir", "mkfs.ext4", "mount",
   "parted", "partprobe", "rm", "rmdir", "sed", "tune2fs", "umount"}

BugExtlinuxCommands ==   \* for the approach asked for, not the one selected
  IF opts.approach = "host-extlinux" THEN {"extlinux", "install-mbr"} ELSE {}

ExtlinuxCommands == IF approach = "host-extlinux" THEN {"extlinux", "install-mbr"} ELSE {}

BugCommandsToCheckFor ==   \* what one approach needs is looked for with every one
  IF opts.program = "directory" THEN BootstrapperCommands(opts.distro)
  ELSE StrategyCommands(opts.distro) \cup EngineCommands \cup ({command} \ {NoCommand})
       \cup {"extlinux", "install-mbr"}

CommandsToCheckFor ==
  IF opts.program = "directory" THEN BootstrapperCommands(opts.distro)
  ELSE StrategyCommands(opts.distro) \cup EngineCommands \cup ({command} \ {NoCommand})
       \cup ExtlinuxCommands

StartedByBootstrapper(d) ==
  CASE d = "alpine" -> {"wget", "unshare", "gpg"}
    [] d = "arch"   -> {"wget", "tar", "mount", "unshare", "chroot", "umount"}
    [] d = "gentoo" -> {"gpg", "wget", "md5sum", "sha512sum", "unxz", "tar"}
    [] d = "void"   -> {"wget", "unxz", "cp"}

StartedByStrategy(d) ==
  CASE d \in DebianBased -> {"unshare", "debootstrap", "chroot", "find"}
    [] d = "arch"        -> StartedByBootstrapper(d) \cup {"chroot", "find", "rm", "wget"}
    [] d = "gentoo"      -> StartedByBootstrapper(d) \cup {"chroot", "find", "wget"}

StartedByEngine ==
  {"blockdev", "parted", "partprobe", "kpartx", "mkfs.ext4", "tune2fs", "blkid", "mount", "umount",
   "chroot", "sed", "find", "mkdir", "cp", "chmod", "rm", "rmdir"}
  \cup (IF approach \in HostGrub THEN {command} ELSE {})
  \cup (IF approach = "host-extlinux" THEN {"extlinux", "install-mbr"} ELSE {})

StartedByRun ==
  IF opts.program = "directory" THEN StartedByBootstrapper(opts.distro)
  ELSE StartedByStrategy(opts.distro) \cup StartedByEngine

Absent == host.absent \cup {NoCommand}

(***************************************************************************)
(* Control flow.  After an exception run_handle_errors ends the program    *)
(* with status 1, but lets ^C through to main(), which makes it 130.       *)
(***************************************************************************)
Goto(l) == pc' = l /\ UNCHANGED <<opts, host, status>>
Raise   == pc' = "exit" /\ status' = 1 /\ UNCHANGED <<opts, host>>

Error ==   \* any call may raise an OSError or the like
  /\ pc # "exit" /\ Raise /\ outside' = TRUE
  /\ touched' = (touched \/ pc = "run")
  /\ UNCHANGED <<approach, command, architecture>>

BugInterrupt ==   \* without raise in run_handle_errors
  /\ pc # "exit" /\ pc' = "exit" /\ status' = 0 /\ outside' = TRUE
  /\ touched' = (touched \/ pc = "run")
  /\ UNCHANGED <<opts, host, approach, command, architecture>>

(* While ^C unwinds run(), a finally clause may replace it by an error.    *)
Interrupt ==
  /\ pc # "exit" /\ pc' = "exit" /\ outside' = TRUE
  /\ status' \in IF pc = "run" THEN {1, 130} ELSE {130}
  /\ touched' = (touched \/ pc = "run")
  /\ UNCHANGED <<opts, host, approach, command, architecture>>

CheckRelease ==
  /\ pc = "check_release"
  /\ IF opts.distro = "debian" /\ opts.release # "bookworm"   \* an alias, or out of support
     THEN Raise ELSE Goto("select_bootloader")
  /\ UNCHANGED <<approach, command, architecture, touched, outside>>

SelectBootloader ==
  /\ pc = "select_bootloader"
  /\ approach' = IF approach # "auto" THEN approach
                 ELSE IF opts.distro = "ubuntu" THEN "host-extlinux" ELSE "chroot-grub2-drive"
  /\ Goto("detect_grub2_install")
  /\ UNCHANGED <<command, architecture, touched, outside>>

BugDetectGrub2Install ==   \* without _protect_against_grub_legacy
  /\ pc = "detect_grub2_install"
  /\ command' = IF command # NoCommand \/ approach \notin HostGrub THEN command
                ELSE IF "grub2-install" \notin Absent THEN "grub2-install" ELSE "grub-install"
  /\ Goto("check_for_commands")
  /\ UNCHANGED <<approach, architecture, touched, outside>>

(* If neither is there, the search for commands will report grub-install.  *)
DetectGrub2Install ==
  /\ pc = "detect_grub2_install"
  /\ IF command # NoCommand \/ approach \notin HostGrub
     THEN Goto("check_for_commands") /\ UNCHANGED command
     ELSE IF "grub2-install" \notin Absent
     THEN Goto("check_for_commands") /\ command' = "grub2-install"
     ELSE /\ command' = "grub-install"
          /\ IF command' \notin Absent /\ host.legacy THEN Raise ELSE Goto("check_for_commands")
  /\ UNCHANGED <<approach, architecture, touched, outside>>

CheckForCommands ==
  /\ pc = "check_for_commands"
  /\ IF CommandsToCheckFor \cap host.absent # {} THEN Raise
     ELSE Goto(IF opts.program = "image" THEN "check_architecture"
               ELSE IF opts.distro = "gentoo" THEN "run"       \* wants_to_be_unshared()
               ELSE "unshare")
  /\ UNCHANGED <<approach, command, architecture, touched, outside>>

(* Arch calls amd64 x86_64; Debian and Ubuntu compare with the machine.    *)
ArchitectureFor == IF opts.distro = "arch" /\ architecture = "amd64" THEN "x86_64"
                   ELSE architecture

BugArchitectureSupported ==   \* checked before it is translated
  CASE opts.distro = "arch"        -> architecture \in {"i686", "x86_64"}
    [] opts.distro \in DebianBased -> /\ architecture = "amd64" => host.machine = "x86_64"
                                      /\ architecture = "i386"  => host.machine # "aarch64"
    [] OTHER                       -> TRUE

ArchitectureSupported ==
  CASE opts.distro = "arch"        -> ArchitectureFor \in {"i686", "x86_64"}
    [] opts.distro \in DebianBased -> /\ architecture = "amd64" => host.machine = "x86_64"
                                      /\ architecture = "i386"  => host.machine # "aarch64"
    [] OTHER                       -> TRUE

CheckArchitecture ==
  /\ pc = "check_architecture"
  /\ IF ArchitectureSupported
     THEN Goto("check_device") /\ architecture' = ArchitectureFor
     ELSE Raise /\ UNCHANGED architecture
  /\ UNCHANGED <<approach, command, touched, outside>>

CheckTargetBlockDevice ==
  /\ pc = "check_device"
  /\ IF host.block THEN Goto("check_scripts") ELSE Raise
  /\ UNCHANGED <<approach, command, architecture, touched, outside>>

GoodOwners == {"root"} \cup (IF host.sudoUid THEN {"sudo user"} ELSE {})

ScriptsAccepted(c) ==
  \/ host.scripts[c] = NoScripts
  \/ /\ host.scripts[c].kind = "directory"
     /\ ~host.scripts[c].writable
     /\ host.scripts[c].owner \in GoodOwners
     /\ \A s \in host.scripts[c].scripts : s.ignored \/ s.executable

CheckScriptPermissions ==
  /\ pc = "check_scripts"
  /\ IF \A c \in Categories : ScriptsAccepted(c) THEN Goto("root_password") ELSE Raise
  /\ UNCHANGED <<approach, command, architecture, touched, outside>>

(* A missing password file is an Error.                                    *)
ProcessRootPassword ==
  /\ pc = "root_password"
  /\ Goto("run")
  /\ UNCHANGED <<approach, command, architecture, touched, outside>>

Create ==   \* directory-bootstrap; Gentoo asks for a mirror here
  /\ pc = "create"
  /\ Goto("check_for_commands")
  /\ UNCHANGED <<approach, command, architecture, touched, outside>>

Unshare ==
  /\ pc = "unshare"
  /\ Goto("run")
  /\ UNCHANGED <<approach, command, architecture, touched, outside>>

(* run(), see modules Engine and ArchBootstrapper.  It fails when it       *)
(* starts a command that is not there or does not support the approach,    *)
(* and may fail for other reasons (Error).                                 *)
Run ==
  /\ pc = "run" /\ touched' = TRUE
  /\ IF \/ StartedByRun \cap Absent # {}
        \/ opts.distro \in DebianBased /\ approach = "none"   \* NotImplementedError
     THEN Raise ELSE Goto("exit")
  /\ UNCHANGED <<approach, command, architecture, outside>>

Finished == pc = "exit" /\ UNCHANGED vars

Check == \/ CheckRelease \/ SelectBootloader \/ DetectGrub2Install \/ CheckForCommands
         \/ CheckArchitecture \/ CheckTargetBlockDevice \/ CheckScriptPermissions
         \/ ProcessRootPassword \/ Create \/ Unshare
Next == Check \/ Run \/ Error \/ Interrupt \/ Finished

Spec == Init /\ [][Next]_vars

(***************************************************************************)
(* Properties.                                                             *)
(***************************************************************************)

(* ArchBootstrapper starts unshare (arch.py:122, :132 and :164) without    *)
(* get_commands_to_check_for of arch.py:60-68 naming it.                   *)
Unchecked == IF opts.distro = "arch" THEN {"unshare"} ELSE {}

(* run() is entered only if every command it can start on the host, in the *)
(* engine, the strategy or the bootstrapper, is there: the lists of what   *)
(* to look for, kept apart from the code that uses it, are complete, but   *)
(* for the one of Unchecked.  Otherwise the device would be formatted      *)
(* before the lack is noticed.                                             *)
CommandsPresent == pc = "run" => StartedByRun \cap Absent \subseteq Unchecked

(* GRUB Legacy's grub-install is never run unless the user named it, and   *)
(* no approach is left to be selected.                                     *)
Grub2Only ==
  /\ pc = "run" /\ opts.program = "image" => approach # "auto"
  /\ pc = "run" /\ approach \in HostGrub /\ opts.command = NoCommand =>
       command = "grub2-install" \/ ~host.legacy

(* What the checks themselves start on the host: uname of debian_based.py. *)
StartedByChecks ==
  IF opts.program = "image" /\ opts.distro \in DebianBased THEN {"uname"} ELSE {}

(* Commands that are looked for although nothing starts them: the tar of   *)
(* void.py:41, where run() unpacks with tarfile, and what --grub2-install  *)
(* names (engine.py:173) if no installer of the host is to be used.        *)
Needless ==
  CASE opts.program = "directory"                       -> IF opts.distro = "void" THEN {"tar"} ELSE {}
    [] opts.program = "image" /\ approach \notin HostGrub -> {opts.command} \ StartedByRun
    [] OTHER                                             -> {}

Unfit(d) ==
  \/ d.kind # "directory" \/ d.writable \/ d.owner = "other"
  \/ d.owner = "sudo user" /\ ~host.sudoUid
  \/ \E s \in d.scripts : ~s.ignored /\ ~s.executable

Reason ==
  \/ (StartedByRun \cup StartedByChecks) \cap host.absent # {}
  \/ opts.program = "image" /\
       \/ opts.distro = "debian" /\ opts.release # "bookworm"
       \/ approach \in HostGrub /\ command = "grub-install" /\ host.legacy /\ opts.command = NoCommand
       \/ opts.distro = "arch" /\ opts.architecture = "i386"
       \/ opts.distro \in DebianBased
            /\ <<opts.architecture, host.machine>> \in
                 {<<"amd64", "i686">>, <<"amd64", "aarch64">>, <<"i386", "aarch64">>}
       \/ ~host.block
       \/ \E c \in Categories : host.scripts[c] # NoScripts /\ Unfit(host.scripts[c])

(* No command line is refused that run() could serve: what is refused      *)
(* lacks a command that is started, with the approach and installer        *)
(* selected, or is unfit in one of the ways listed; what run() ignores or  *)
(* translates is no reason, but for the commands of Needless.              *)
RefusalExplained ==
  pc = "exit" /\ ~touched => outside \/ Reason \/ Needless \cap host.absent # {}

(* Status 0 means that run() was called and returned: an error, ^C, and an *)
(* error that replaced ^C all show in the status.                          *)
StatusTells == pc = "exit" =>
  /\ status = 0 => touched /\ ~outside /\ StartedByRun \cap Absent = {}
  /\ status = 130 => outside
=============================================================================
