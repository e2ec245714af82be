----------------------------- MODULE MCPreflight -----------------------------
(* An instance of Preflight for TLC.                                       *)
EXTENDS Preflight

(* Every command line, on hosts where up to one command is missing, or     *)
(* both names of GRUB's installer.                                         *)
NoScriptsAnywhere == [c \in Categories |-> NoScripts]
OneMissing == {{c} : c \in HostCommands} \cup {{}, {"grub-install", "grub2-install"}}
CommandHosts ==
  [absent: OneMissing, legacy: BOOLEAN, machine: {"x86_64", "i686", "aarch64"}, block: BOOLEAN,
   sudoUid: {FALSE}, scripts: {NoScriptsAnywhere}]

(* With one of them also script directories that are fit or not.           *)
DefaultLine ==
  [program |-> "image", distro |-> "debian", approach |-> "auto", command |-> NoCommand,
    release |-> "bookworm", architecture |-> "amd64"]
Fit     == [ignored |-> FALSE, executable |-> TRUE]
Backup  == [ignored |-> TRUE, executable |-> FALSE]
NotExec == [ignored |-> FALSE, executable |-> FALSE]
Directories == [kind: {"directory", "symlink"}, writable: BOOLEAN, owner: {"root", "sudo user", "other"},
                scripts: {{}, {Fit, Backup}, {Fit, NotExec}}]
ScriptHosts ==
  [absent: {{}}, legacy: {FALSE}, machine: {"x86_64"}, block: {TRUE}, sudoUid: BOOLEAN,
   scripts: {[c \in Categories |-> IF c \in used THEN d ELSE NoScripts] :
               d \in Directories, used \in SUBSET Categories}]
MCHosts ==
  [l \in CommandLineType |-> IF l = DefaultLine THEN CommandHosts \cup ScriptHosts ELSE CommandHosts]
=============================================================================
