---------------------------- MODULE PreflightProofs ----------------------------
(***************************************************************************)
(* Proofs about Preflight, for any set of command lines and hosts.         *)
(***************************************************************************)
EXTENDS Preflight, TLAPS

Before == {"check_release", "select_bootloader"}   \* no approach selected yet
Checked == {"check_architecture", "check_device", "check_scripts", "root_password",
            "unshare", "run"}

(* GRUB's installer has a name once it is detected, and not Legacy's.      *)
InstallerKnown ==
  opts.program = "image" /\ approach \in HostGrub =>
    /\ command # NoCommand
    /\ opts.command = NoCommand => command = "grub2-install" \/ ~host.legacy \/ command \in Absent

(* What the calls made so far have established.                            *)
IInv ==
  /\ TypeOK
  /\ opts.program = "directory" => approach = "none" /\ pc \notin Before \cup {"detect_grub2_install"}
  /\ pc = "create" => opts.program = "directory"
  /\ pc \in Before \cup {"detect_grub2_install"} => command = opts.command
  /\ pc \notin Before /\ opts.program = "image" => approach # "auto" \/ pc = "exit"
  /\ opts.program = "image" /\ approach \notin HostGrub => command = opts.command
  /\ pc \in Checked \cup {"check_for_commands"} => InstallerKnown
  /\ pc \in Checked => CommandsToCheckFor \cap host.absent = {}

LEMMA Types ==
  ASSUME opts \in CommandLines, host \in Hosts[opts]
  PROVE  /\ \/ /\ opts.program = "image" /\ opts.distro \in {"arch", "debian", "gentoo", "ubuntu"}
               /\ opts.approach \in Approaches \cup {"auto"}
               /\ opts.command \in {NoCommand, "grub-install"}
               /\ opts.architecture \in {"amd64", "i386", "i686", "x86_64"}
            \/ opts.program = "directory" /\ opts.distro \in {"alpine", "arch", "gentoo", "void"}
         /\ host.absent \subseteq HostCommands /\ host.legacy \in BOOLEAN
<1>1. opts \in CommandLineType /\ host \in HostType
  BY CommandLinesAssumption, HostsAssumption
<1> QED  BY <1>1 DEF CommandLineType, HostType

(* The lists of what to look for name all that is started, but for one.    *)
LEMMA ListsComplete ==
  ASSUME opts \in CommandLines, host \in Hosts[opts],
         opts.program = "directory" => approach = "none",
         opts.program = "image" /\ approach \in HostGrub => command # NoCommand
  PROVE  StartedByRun \ Unchecked \subseteq CommandsToCheckFor /\ NoCommand \notin StartedByRun
<1>1. ASSUME opts.distro = "arch" \/ opts.distro = "gentoo" \/ opts.distro = "alpine" \/ opts.distro = "void"
      PROVE  /\ StartedByBootstrapper(opts.distro) \ Unchecked \subseteq BootstrapperCommands(opts.distro)
             /\ NoCommand \notin StartedByBootstrapper(opts.distro)
  BY <1>1 DEF StartedByBootstrapper, BootstrapperCommands, Unchecked, NoCommand
<1>2. CASE opts.program = "directory"
  BY <1>1, <1>2, Types DEF StartedByRun, CommandsToCheckFor
<1>3. CASE opts.program = "image"
  <2>1. /\ StartedByStrategy(opts.distro) \ Unchecked \subseteq StrategyCommands(opts.distro)
        /\ NoCommand \notin StartedByStrategy(opts.distro)
    <3>1. CASE opts.distro = "debian" \/ opts.distro = "ubuntu"
      BY <3>1 DEF StartedByStrategy, StrategyCommands, DebianBased, NoCommand
    <3>2. CASE opts.distro = "arch" \/ opts.distro = "gentoo"
      BY <1>1, <3>2 DEF StartedByStrategy, StrategyCommands, DebianBased, NoCommand
    <3> QED  BY <1>3, <3>1, <3>2, Types
  <2>2. /\ StartedByEngine \subseteq EngineCommands \cup ({command} \ {NoCommand}) \cup ExtlinuxCommands
        /\ NoCommand \notin StartedByEngine
    BY <1>3 DEF StartedByEngine, EngineCommands, ExtlinuxCommands, NoCommand, HostGrub
  <2> QED  BY <1>3, <2>1, <2>2 DEF StartedByRun, CommandsToCheckFor
<1> QED  BY <1>2, <1>3, Types

(* And they name nothing else, but for what is listed in Needless.         *)
LEMMA ListsNeeded ==
  ASSUME opts \in CommandLines, host \in Hosts[opts],
         opts.program = "directory" => approach = "none",
         opts.program = "image" /\ approach \notin HostGrub => command = opts.command
  PROVE  CommandsToCheckFor \subseteq StartedByRun \cup StartedByChecks \cup Needless
<1>1. CASE opts.program = "directory"
  <2>1. CommandsToCheckFor = BootstrapperCommands(opts.distro) /\ StartedByRun = StartedByBootstrapper(opts.distro)
    BY <1>1 DEF CommandsToCheckFor, StartedByRun
  <2>2. Needless = IF opts.distro = "void" THEN {"tar"} ELSE {}
    BY <1>1 DEF Needless
  <2>3. opts.distro \in {"alpine", "arch", "gentoo", "void"}  BY <1>1, Types
  <2> QED  BY <2>1, <2>2, <2>3 DEF BootstrapperCommands, StartedByBootstrapper
<1>2. CASE opts.program = "image"
  <2>1. opts.distro \in {"arch", "debian", "gentoo", "ubuntu"}  BY <1>2, Types
  <2>2. StrategyCommands(opts.distro) \subseteq StartedByRun \cup StartedByChecks
    <3>1. EngineCommands \subseteq StartedByRun
      BY <1>2 DEF StartedByRun, StartedByEngine, EngineCommands
    <3>2. CASE opts.distro = "debian" \/ opts.distro = "ubuntu"
      BY <1>2, <3>2 DEF StartedByRun, StartedByStrategy, StartedByChecks, StrategyCommands, DebianBased
    <3>3. CASE opts.distro = "arch"
      <4>1. StrategyCommands(opts.distro) = {"wget", "chroot", "mount", "tar", "umount", "cp", "find", "rm"}
        BY <3>3 DEF StrategyCommands, BootstrapperCommands, DebianBased
      <4>2. {"wget", "tar", "mount", "umount"} \subseteq StartedByRun
        BY <1>2, <3>3 DEF StartedByRun, StartedByStrategy, StartedByBootstrapper, DebianBased
      <4> QED  BY <3>1, <4>1, <4>2 DEF EngineCommands
    <3>4. CASE opts.distro = "gentoo"
      BY <1>2, <3>4 DEF StartedByRun, StartedByStrategy, StrategyCommands,
                        StartedByBootstrapper, BootstrapperCommands, DebianBased
    <3> QED  BY <2>1, <3>2, <3>3, <3>4
  <2>3. EngineCommands \cup ExtlinuxCommands \subseteq StartedByRun
    BY <1>2 DEF StartedByRun, StartedByEngine, EngineCommands, ExtlinuxCommands
  <2>4. {command} \ {NoCommand} \subseteq StartedByRun \cup Needless
    <3>1. CASE approach \in HostGrub
      BY <1>2, <3>1 DEF StartedByRun, StartedByEngine
    <3>2. CASE approach \notin HostGrub
      <4>1. Needless = {opts.command} \ StartedByRun  BY <1>2, <3>2 DEF Needless
      <4> QED  BY <1>2, <3>2, <4>1
    <3> QED  BY <3>1, <3>2
  <2> QED  BY <1>2, <2>2, <2>3, <2>4 DEF CommandsToCheckFor
<1> QED  BY <1>1, <1>2, Types

LEMMA InitInv == Init => IInv
<1> SUFFICES ASSUME Init PROVE IInv
  OBVIOUS
<1>1. opts \in CommandLines /\ host \in Hosts[opts]
  BY DEF Init
<1>2. CASE opts.program = "image" /\ pc = "check_release"
           /\ approach = opts.approach /\ command = opts.command /\ architecture = opts.architecture
  BY <1>1, <1>2, Types DEF Init, IInv, TypeOK, Before, Checked, NoCommand
<1>3. CASE opts.program = "directory" /\ pc = "create"
           /\ approach = "none" /\ command = NoCommand /\ architecture = "x86_64"
  BY <1>1, <1>3, Types DEF Init, IInv, TypeOK, Before, Checked, NoCommand, Approaches
<1> QED  BY <1>2, <1>3 DEF Init

LEMMA StepInv == IInv /\ [Next]_vars => IInv'
<1> SUFFICES ASSUME IInv, [Next]_vars  PROVE IInv'
  OBVIOUS
<1>0. TypeOK /\ opts \in CommandLines /\ host \in Hosts[opts]
  BY DEF IInv, TypeOK
<1> USE DEF IInv, TypeOK, Before, Checked
<1>1. CASE UNCHANGED vars
  BY <1>1 DEF vars, InstallerKnown, CommandsToCheckFor, ExtlinuxCommands, Absent
<1>2. CASE CheckRelease
  BY <1>2 DEF CheckRelease, Goto, Raise
<1>3. CASE SelectBootloader
  BY <1>3 DEF SelectBootloader, Goto, Approaches, ChrootGrub
<1>4. CASE DetectGrub2Install
  BY <1>0, <1>4, Types DEF DetectGrub2Install, Goto, Raise, InstallerKnown, Absent, NoCommand
<1>5. CASE CheckForCommands
  BY <1>0, <1>5, Types DEF CheckForCommands, Goto, Raise, InstallerKnown, Absent, CommandsToCheckFor, ExtlinuxCommands
<1>6. CASE CheckArchitecture
  BY <1>6 DEF CheckArchitecture, Goto, Raise, InstallerKnown, Absent, CommandsToCheckFor, ExtlinuxCommands, ArchitectureFor
<1>7. CASE CheckTargetBlockDevice
  BY <1>7 DEF CheckTargetBlockDevice, Goto, Raise, InstallerKnown, Absent, CommandsToCheckFor, ExtlinuxCommands
<1>8. CASE CheckScriptPermissions
  BY <1>8 DEF CheckScriptPermissions, Goto, Raise, InstallerKnown, Absent, CommandsToCheckFor, ExtlinuxCommands
<1>9. CASE ProcessRootPassword
  BY <1>9 DEF ProcessRootPassword, Goto, InstallerKnown, Absent, CommandsToCheckFor, ExtlinuxCommands
<1>10. CASE Create
  BY <1>0, <1>10, Types DEF Create, Goto, InstallerKnown, HostGrub
<1>11. CASE Unshare
  BY <1>11 DEF Unshare, Goto, InstallerKnown, Absent, CommandsToCheckFor, ExtlinuxCommands
<1>12. CASE Run
  BY <1>12 DEF Run, Goto, Raise
<1>13. CASE Error
  BY <1>13 DEF Error, Raise
<1>14. CASE Interrupt
  BY <1>14 DEF Interrupt
<1> QED  BY <1>1, <1>2, <1>3, <1>4, <1>5, <1>6, <1>7, <1>8, <1>9, <1>10, <1>11, <1>12, <1>13, <1>14
         DEF Next, Check, Finished

LEMMA AlwaysInv == Spec => []IInv
BY InitInv, StepInv, PTL DEF Spec

(* For all command lines and hosts, run() is entered only when all it can  *)
(* start is there, but for the one command the Arch bootstrapper forgets.  *)
THEOREM CommandsArePresent == Spec => []CommandsPresent
<1>1. IInv => CommandsPresent
  <2> SUFFICES ASSUME IInv, pc = "run"  PROVE StartedByRun \cap Absent \subseteq Unchecked
    BY DEF CommandsPresent
  <2>1. /\ opts \in CommandLines /\ host \in Hosts[opts]
        /\ opts.program = "directory" => approach = "none"
        /\ InstallerKnown /\ CommandsToCheckFor \cap host.absent = {}
    BY DEF IInv, TypeOK, Checked
  <2>2. StartedByRun \ Unchecked \subseteq CommandsToCheckFor /\ NoCommand \notin StartedByRun
    BY <2>1, ListsComplete DEF InstallerKnown
  <2> QED  BY <2>1, <2>2 DEF Absent
<1> QED  BY <1>1, AlwaysInv, PTL

(* For all command lines and hosts, run() is entered only with an approach *)
(* selected, and with an installer that is not GRUB Legacy's.              *)
THEOREM Grub2IsUsed == Spec => []Grub2Only
<1>1. IInv => Grub2Only
  <2> SUFFICES ASSUME IInv, pc = "run"  PROVE Grub2Only
    BY DEF Grub2Only
  <2>1. /\ opts \in CommandLines /\ host \in Hosts[opts]
        /\ opts.program = "directory" => approach = "none"
        /\ opts.program = "image" => approach # "auto"
        /\ InstallerKnown /\ CommandsToCheckFor \cap host.absent = {}
    BY DEF IInv, TypeOK, Checked, Before
  <2>2. opts.program = "image" /\ approach \in HostGrub => command \in CommandsToCheckFor
    BY <2>1 DEF InstallerKnown, CommandsToCheckFor
  <2> QED  BY <2>1, <2>2, Types DEF Grub2Only, InstallerKnown, Absent, HostGrub
<1> QED  BY <1>1, AlwaysInv, PTL

(***************************************************************************)
(* How it ends.                                                            *)
(***************************************************************************)
Unjudged == Before \cup {"detect_grub2_install", "check_for_commands", "check_architecture"}

(* Nothing has gone wrong while calls are still to be made; and the end    *)
(* tells what has happened.                                                *)
Outcome ==
  /\ pc # "exit" => status = 0 /\ ~touched /\ ~outside
  /\ pc \in Unjudged /\ opts.program = "image" => architecture = opts.architecture
  /\ pc \in {"check_architecture", "check_device", "check_scripts", "root_password"} => opts.program = "image"
  /\ pc \in {"create", "unshare"} => opts.program = "directory"
  /\ RefusalExplained
  /\ StatusTells

LEMMA UnfitScripts ==
  ASSUME host \in HostType, NEW c \in Categories, ~ScriptsAccepted(c)
  PROVE  host.scripts[c] # NoScripts /\ Unfit(host.scripts[c])
<1>1. host.scripts[c] # NoScripts
  BY DEF ScriptsAccepted
<1>2. host.scripts[c] \in DirType \cup {NoScripts}
  BY DEF HostType
<1>3. host.scripts[c] \in DirType
  BY <1>1, <1>2
<1>4. host.scripts[c].owner \in {"root", "sudo user", "other"}
  BY <1>3 DEF DirType
<1> QED  BY <1>1, <1>4 DEF ScriptsAccepted, Unfit, GoodOwners

LEMMA UnsupportedArchitecture ==
  ASSUME opts \in CommandLines, host \in Hosts[opts], opts.program = "image",
         architecture = opts.architecture, ~ArchitectureSupported
  PROVE  \/ opts.distro = "arch" /\ opts.architecture = "i386"
         \/ opts.distro \in DebianBased
              /\ <<opts.architecture, host.machine>> \in
                   {<<"amd64", "i686">>, <<"amd64", "aarch64">>, <<"i386", "aarch64">>}
<1>1. /\ opts.distro \in {"arch", "debian", "gentoo", "ubuntu"}
      /\ opts.architecture \in {"amd64", "i386", "i686", "x86_64"}
      /\ host.machine \in {"x86_64", "i686", "aarch64"}
  BY CommandLinesAssumption, HostsAssumption DEF CommandLineType, HostType
<1>2. CASE opts.distro = "arch"
  BY <1>1, <1>2 DEF ArchitectureSupported, ArchitectureFor
<1>3. CASE opts.distro \in DebianBased
  BY <1>1, <1>3 DEF ArchitectureSupported, DebianBased
<1>4. CASE opts.distro = "gentoo"
  BY <1>4 DEF ArchitectureSupported, DebianBased
<1> QED  BY <1>1, <1>2, <1>3, <1>4 DEF DebianBased

(* What a reason is depends on the options, the host, and the selection.   *)
LEMMA SameReason ==
  ASSUME UNCHANGED <<opts, host, approach, command>>
  PROVE  /\ Reason' = Reason
         /\ Needless' = Needless
         /\ StartedByRun' = StartedByRun
BY DEF Reason, Needless, StartedByRun, StartedByChecks, StartedByEngine, Unfit

LEMMA InitOutcome == Init => Outcome
BY DEF Init, Outcome, Unjudged, Before, RefusalExplained, StatusTells

LEMMA StepOutcome ==
  ASSUME IInv, Outcome, [Next]_vars
  PROVE  Outcome'
<1>0. TypeOK /\ opts \in CommandLines /\ host \in Hosts[opts] /\ host \in HostType
  BY HostsAssumption DEF IInv, TypeOK
<1> USE DEF Outcome, Unjudged, Before, Checked, RefusalExplained, StatusTells
<1>1. CASE UNCHANGED vars
  BY <1>1, SameReason DEF vars, Absent
<1>2. CASE CheckRelease
  BY <1>0, <1>2, Types DEF CheckRelease, Goto, Raise, Reason, IInv
<1>3. CASE SelectBootloader
  BY <1>3 DEF SelectBootloader, Goto
<1>4. CASE DetectGrub2Install
  BY <1>0, <1>4, Types DEF DetectGrub2Install, Goto, Raise, Reason, IInv
<1>5. CASE CheckForCommands
  <2>1. /\ UNCHANGED <<opts, host, approach, command, architecture, touched, outside>>
        /\ opts.program \in {"image", "directory"} /\ pc # "exit"
    BY <1>0, <1>5, Types DEF CheckForCommands, Goto, Raise
  <2>2. CASE CommandsToCheckFor \cap host.absent # {}
    <3>1. pc' = "exit" /\ status' = 1
      BY <1>5, <2>2 DEF CheckForCommands, Raise
    <3>2. CommandsToCheckFor \subseteq StartedByRun \cup StartedByChecks \cup Needless
      BY <1>0, ListsNeeded DEF IInv
    <3>3. Reason \/ Needless \cap host.absent # {}
      BY <2>2, <3>2 DEF Reason
    <3>4. Reason' \/ Needless' \cap host'.absent # {}
      BY <2>1, <3>3, SameReason
    <3> QED  BY <2>1, <3>1, <3>4
  <2>3. CASE CommandsToCheckFor \cap host.absent = {}
    <3> DEFINE next == IF opts.program = "image" THEN "check_architecture"
                       ELSE IF opts.distro = "gentoo" THEN "run" ELSE "unshare"
    <3>1. status' = status /\ pc' = next
      BY <1>5, <2>3 DEF CheckForCommands, Goto
    <3>2. CASE opts.program = "image"
      <4>1. next = "check_architecture" /\ architecture = opts.architecture
        BY <1>5, <3>2 DEF CheckForCommands
      <4> QED  BY <2>1, <3>1, <3>2, <4>1
    <3>3. CASE opts.program = "directory"
      <4>1. next \in {"run", "unshare"}
        BY <3>3
      <4> QED  BY <2>1, <3>1, <3>3, <4>1
    <3> QED  BY <2>1, <3>2, <3>3
  <2> QED  BY <2>2, <2>3
<1>6. CASE CheckArchitecture
  BY <1>0, <1>6, UnsupportedArchitecture DEF CheckArchitecture, Goto, Raise, Reason
<1>7. CASE CheckTargetBlockDevice
  BY <1>7 DEF CheckTargetBlockDevice, Goto, Raise, Reason
<1>8. CASE CheckScriptPermissions
  <2>1. CASE \A c \in Categories : ScriptsAccepted(c)
    BY <1>8, <2>1 DEF CheckScriptPermissions, Goto
  <2>2. CASE ~\A c \in Categories : ScriptsAccepted(c)
    <3>1. \E c \in Categories : host.scripts[c] # NoScripts /\ Unfit(host.scripts[c])
      BY <1>0, <2>2, UnfitScripts
    <3>2. Reason /\ UNCHANGED <<opts, host, approach, command>> /\ pc' = "exit" /\ status' = 1
          /\ UNCHANGED <<touched, outside>>
      BY <1>8, <2>2, <3>1 DEF CheckScriptPermissions, Raise, Reason
    <3>3. Reason'
      BY <3>2, SameReason
    <3> QED  BY <3>2, <3>3
  <2> QED  BY <2>1, <2>2
<1>9. CASE ProcessRootPassword
  BY <1>9 DEF ProcessRootPassword, Goto
<1>10. CASE Create
  BY <1>10 DEF Create, Goto, IInv
<1>11. CASE Unshare
  BY <1>11 DEF Unshare, Goto, IInv
<1>12. CASE Run
  BY <1>12 DEF Run, Goto, Raise, StartedByRun, StartedByEngine, Absent
<1>13. CASE Error
  BY <1>13 DEF Error, Raise
<1>14. CASE Interrupt
  BY <1>14 DEF Interrupt
<1> QED  BY <1>1, <1>2, <1>3, <1>4, <1>5, <1>6, <1>7, <1>8, <1>9, <1>10, <1>11, <1>12, <1>13, <1>14
         DEF Next, Check, Finished

LEMMA AlwaysOutcome == Spec => []Outcome
BY InitOutcome, StepOutcome, AlwaysInv, PTL DEF Spec

(* For all command lines and hosts, when run() is not called it would miss *)
(* a command it starts, or something else is unfit, but for the commands   *)
(* of Needless.                                                            *)
THEOREM RefusalsAreExplained == Spec => []RefusalExplained
BY AlwaysOutcome, PTL DEF Outcome

(* For all command lines and hosts, status 0 means that run() was called   *)
(* and returned, and 130 that there was a ^C.                              *)
THEOREM StatusIsHonest == Spec => []StatusTells
BY AlwaysOutcome, PTL DEF Outcome
=============================================================================
