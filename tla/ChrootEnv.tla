------------------------------- MODULE ChrootEnv -------------------------------
(***************************************************************************)
(* The environment variables of the commands image-bootstrap starts, on    *)
(* the host and inside the new root: os.environ, whose PATH main() has     *)
(* sanitised (PathSanitize), the prototype the strategy keeps, and the     *)
(* copies made from either for a command.  Which commands are started, and *)
(* in which order, is Engine's: here in any.                               *)
(*                                                                         *)
(* One variable stands for all that are treated alike: LANG for LANGUAGE,  *)
(* HOSTNAME for IB_HOSTNAME, IB_ROOT for MNTPOINT, DONT_MOUNT_BOOT for     *)
(* MAKEOPTS, HOME for whatever else the user has set.                      *)
(***************************************************************************)
EXTENDS PathSanitize

Names == {"PATH", "LANG", "TMPDIR", "LC_ALL", "HOSTNAME", "IB_ROOT", "PYTHONPATH",
          "DEBIAN_FRONTEND", "DONT_MOUNT_BOOT", "HOME"}

CONSTANT UserEnvironments   \* the sets of names that are set at the start

ASSUME UserEnvironmentsAssumption ==
  \A u \in UserEnvironments : u \subseteq Names /\ "PATH" \in u

(* Started on the host, by chroot in the new root, or by chroot in the     *)
(* bootstrap image of Arch ("pacstrap").                                   *)
Outside == {"host command", "script"}
Inside  == {"chroot command", "chroot script", "chpasswd", "grub-install",
            "apt-get", "emerge", "pacstrap"}
Kinds   == Outside \cup Inside

EnvironmentType == [Names -> {"unset", "user", "ours"}]

VARIABLES user,     \* the names set at the start, fixed
          distro,   \* the distribution, once set_distro was called
          heap,     \* the dictionaries: os.environ, the prototype and one more
          seen      \* the environments the commands of each kind were started with

strategy == <<user, distro, heap, seen>>
envVars  == <<vars, strategy>>

Given(v) == IF v \in user THEN "user" ELSE "unset"

EnvInit ==
  /\ Init
  /\ user \in UserEnvironments
  /\ distro = "none"
  /\ heap = [o \in {"environ", "prototype", "local"} |-> [v \in Names |-> Given(v)]]
  /\ seen = [k \in Kinds |-> {}]

(***************************************************************************)
(* Python: a reference is the dictionaries there are, and the one referred *)
(* to.  env.copy(), env.update(), env.setdefault().                        *)
(***************************************************************************)
Refer(h, o) == [heap |-> h, at |-> o]
Copy(h, o)  == Refer([h EXCEPT !.local = h[o]], "local")

Put(r, vs, value) ==
  [r EXCEPT !.heap[r.at] = [v \in Names |-> IF v \in vs THEN value ELSE @[v]]]

SetDefault(r, v) == IF r.heap[r.at][v] = "unset" THEN Put(r, {v}, "ours") ELSE r

(* The part of os.environ that run() replaces.                             *)
BugMakeEnvironment(h, tellMountpoint) ==   \* os.environ itself
  LET r == Put(Put(Refer(h, "environ"), {"LANG", "TMPDIR"}, "unset"), {"HOSTNAME", "LC_ALL"}, "ours")
  IN  IF tellMountpoint THEN Put(r, {"IB_ROOT"}, "ours") ELSE r

MakeEnvironment(h, tellMountpoint) ==
  LET r == Put(Put(Copy(h, "environ"), {"LANG", "TMPDIR"}, "unset"), {"HOSTNAME", "LC_ALL"}, "ours")
  IN  IF tellMountpoint THEN Put(r, {"IB_ROOT"}, "ours") ELSE r

(* _make_chroot_env of the Arch bootstrapper.                              *)
BugMakeChrootEnv(h) == Put(Copy(h, "environ"), {"LANG"}, "unset")   \* LC_ALL forgotten

MakeChrootEnv(h) == Put(Put(Copy(h, "environ"), {"LANG"}, "unset"), {"LC_ALL"}, "ours")

BugCreateChrootEnv(h) == Refer(h, "prototype")   \* the prototype itself

CreateChrootEnv(h) == Copy(h, "prototype")

(* Executor.check_call: os.environ if there is no env, and no PYTHONPATH.  *)
CheckCall(r) == [r.heap[r.at] EXCEPT !.PYTHONPATH = "unset"]

(***************************************************************************)
(* main(): sanitize_path, then set_distro, then run().                     *)
(***************************************************************************)
Sanitize ==
  /\ i < 7 /\ Next
  /\ heap' = IF i' = 7 THEN [heap EXCEPT !.environ.PATH = "ours"] ELSE heap
  /\ UNCHANGED <<user, distro, seen>>

SetDistro ==
  /\ i = 7 /\ distro = "none"
  /\ distro' \in {"arch", "debian", "gentoo"}
  /\ LET r == MakeEnvironment(heap, FALSE) IN
       heap' = [r.heap EXCEPT !.prototype = r.heap[r.at]]
  /\ UNCHANGED <<vars, user, seen>>

Start(k, r, environment) ==
  /\ distro # "none"
  /\ heap' = r.heap
  /\ seen' = [seen EXCEPT ![k] = @ \cup {environment}]
  /\ UNCHANGED <<vars, user, distro>>

HostCommand == LET r == Refer(heap, "environ") IN Start("host command", r, CheckCall(r))

RunScripts == LET r == MakeEnvironment(heap, TRUE) IN Start("script", r, CheckCall(r))

RunChrootScripts == LET r == MakeEnvironment(heap, FALSE) IN Start("chroot script", r, CheckCall(r))

(* subprocess.Popen, not the executor.                                     *)
SetRootPassword == LET r == MakeEnvironment(heap, FALSE) IN Start("chpasswd", r, r.heap[r.at])

ChrootCommand ==   \* the strategy's, and the engine's
  \E r \in {CreateChrootEnv(heap), MakeEnvironment(heap, FALSE)} : Start("chroot command", r, CheckCall(r))

InstallGrub2 == LET r == MakeEnvironment(heap, FALSE) IN Start("grub-install", r, CheckCall(r))

InstallPackages ==
  /\ distro = "debian"
  /\ LET r == SetDefault(CreateChrootEnv(heap), "DEBIAN_FRONTEND") IN Start("apt-get", r, CheckCall(r))

(* env is what dict.update() returns, None, and not the updated copy.      *)
InstallPackageAtoms ==
  /\ distro = "gentoo"
  /\ LET r == Put(CreateChrootEnv(heap), {"DONT_MOUNT_BOOT"}, "ours") IN
       Start("emerge", r, CheckCall(Refer(r.heap, "environ")))

RunPacstrap ==
  /\ distro = "arch"
  /\ LET r == MakeChrootEnv(heap) IN Start("pacstrap", r, CheckCall(r))

Run == HostCommand \/ RunScripts \/ RunChrootScripts \/ SetRootPassword \/ ChrootCommand
       \/ InstallGrub2 \/ InstallPackages \/ InstallPackageAtoms \/ RunPacstrap

EnvNext == Sanitize \/ SetDistro \/ Run

EnvSpec == EnvInit /\ [][EnvNext]_envVars

(***************************************************************************)
(* Properties.                                                             *)
(***************************************************************************)

(* However many environments have been made from it, os.environ is as the  *)
(* user had it but for PATH: a command started without an environment of   *)
(* its own sees the user's settings and none of those meant for others.    *)
UserEnvironmentKept == \A v \in Names \ {"PATH"} : heap.environ[v] = Given(v)

(* Names whose value on the host makes no sense inside the new root, and   *)
(* those of them the code lets pass: the Arch bootstrapper drops only the  *)
(* language, chpasswd keeps PYTHONPATH, and emerge is given os.environ.    *)
OfTheHost == {"LANG", "LC_ALL", "TMPDIR", "HOSTNAME", "PYTHONPATH"}
LetPass(k) == CASE k = "pacstrap" -> {"TMPDIR", "HOSTNAME"}
                [] k = "chpasswd" -> {"PYTHONPATH"}
                [] k = "emerge"   -> {"LANG", "LC_ALL", "TMPDIR", "HOSTNAME"}
                [] OTHER          -> {}

(* No command inside the new root sees the user's language, TMPDIR, host   *)
(* name or PYTHONPATH, with the exceptions above, and each is looked for   *)
(* in a PATH that has the wanted directories.                              *)
InsideClean ==
  \A k \in Inside : \A e \in seen[k] :
    e.PATH = "ours" /\ \A v \in OfTheHost \ LetPass(k) : e[v] # "user"

(* What a command sees does not depend on the commands started before it:  *)
(* settings for one of them (DEBIAN_FRONTEND, IB_ROOT) stay with it.       *)
OrderIndependent == \A k \in Kinds : \A e, f \in seen[k] : e = f

(* As gentoo.py:153-156 has it, emerge is started with DONT_MOUNT_BOOT set *)
(* for sys-boot/grub.                                                      *)
EmergeSettings == \A e \in seen["emerge"] : e.DONT_MOUNT_BOOT = "ours"
=============================================================================
