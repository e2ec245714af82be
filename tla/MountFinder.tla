------------------------------ MODULE MountFinder ------------------------------
(***************************************************************************)
(* What a directory bootstrapper left mounted in the new root file system  *)
(* is found in /proc/PID/mountinfo and unmounted: MountFinder of           *)
(* image_bootstrap/mount.py, used by engine.py:426-430, together with the  *)
(* kernel's table of mounts, where a mount hides what was mounted below    *)
(* it, and cannot be unmounted while it is in use or has others in it.     *)
(*                                                                         *)
(* Paths are sequences of names.  A definition whose name starts with Bug  *)
(* is the next definition with a mistake in it.                            *)
(***************************************************************************)
EXTENDS Naturals, Sequences

CONSTANTS Mountpoint,   \* BootstrapEngine._abs_mountpoint
          HostTables,   \* what may be mounted before, as sequences of paths
          Paths,        \* where the bootstrapper may mount something
          MaxMounts     \* bound on the number of mounts

(* path.startswith(prefix), of paths normalised and with a slash at the end *)
StartsWith(path, prefix) ==
  /\ Len(prefix) <= Len(path)
  /\ \A k \in 1..Len(prefix) : path[k] = prefix[k]

ASSUME PathsAssumption ==
  /\ Mountpoint \in Seq(STRING)
  /\ Paths \subseteq Seq(STRING)
  /\ \A p \in Paths : ~StartsWith(Mountpoint, p)
ASSUME HostAssumption ==   \* the mount point is a new directory
  \A h \in HostTables : h \in Seq(Seq(STRING)) /\ \A k \in 1..Len(h) : ~StartsWith(h[k], Mountpoint)
ASSUME BoundAssumption == MaxMounts \in Nat

VARIABLES mounts,       \* the kernel's mounts: where, and since when (id)
          next,         \* the next id
          used,         \* the ids of mounts that a process has something open in
          unreadable,   \* a mount has another root than _PROC_PID_MOUNTINFO_LINE allows
          phase,        \* "bootstrap", "unmount", "done" or "failed"
          loaded,       \* the mounts when mountinfo was read
          todo,         \* the mounts still to be unmounted
          failures,     \* failed calls of umount for the mount at hand
          blocked       \* where unmounting was given up with a process in the way

vars == <<mounts, next, used, unreadable, phase, loaded, todo, failures, blocked>>

MountType == [id: Nat, at: Seq(STRING)]

TypeOK ==
  /\ mounts \subseteq MountType /\ loaded \subseteq MountType /\ todo \subseteq MountType
  /\ next \in Nat /\ used \subseteq Nat /\ unreadable \in BOOLEAN
  /\ phase \in {"bootstrap", "unmount", "done", "failed"}
  /\ failures \in 0..2
  /\ blocked \subseteq Seq(STRING)

(* The root file system has just been mounted at the mount point.          *)
Init ==
  /\ \E h \in HostTables :
       /\ mounts = {[id |-> k, at |-> h[k]] : k \in 1..Len(h)}
                   \cup {[id |-> Len(h) + 1, at |-> Mountpoint]}
       /\ next = Len(h) + 2
  /\ unreadable \in BOOLEAN
  /\ used = {} /\ phase = "bootstrap" /\ loaded = {} /\ todo = {} /\ failures = 0 /\ blocked = {}

(***************************************************************************)
(* The kernel.  A path leads into the mount made last of those it passes.  *)
(***************************************************************************)
LeadsInto(path, m) ==
  /\ StartsWith(path, m.at)
  /\ \A n \in mounts : StartsWith(path, n.at) => n.id <= m.id

MountedIn(n, m) ==   \* n is in m: path n.at led into m before n was made
  /\ m.id < n.id /\ StartsWith(n.at, m.at)
  /\ \A l \in mounts : l.id < n.id /\ StartsWith(n.at, l.at) => l.id <= m.id

Umountable(path, m) ==
  /\ LeadsInto(path, m) /\ m.at = path
  /\ m.id \notin used /\ ~\E n \in mounts : MountedIn(n, m)

InUse(path) == \E m \in mounts : LeadsInto(path, m) /\ m.at = path /\ m.id \in used

(***************************************************************************)
(* The bootstrapper, which may stop anywhere, and processes it started.    *)
(***************************************************************************)
MountAt(p) ==
  /\ phase = "bootstrap" /\ next <= MaxMounts
  /\ mounts' = mounts \cup {[id |-> next, at |-> p]} /\ next' = next + 1
  /\ UNCHANGED <<used, unreadable, phase, loaded, todo, failures, blocked>>

UmountAt(p) ==
  /\ phase = "bootstrap"
  /\ \E m \in mounts : Umountable(p, m) /\ mounts' = mounts \ {m}
  /\ UNCHANGED <<next, used, unreadable, phase, loaded, todo, failures, blocked>>

Open ==
  /\ phase = "bootstrap"
  /\ \E m \in mounts : m.at \in Paths /\ used' = used \cup {m.id}
  /\ UNCHANGED <<mounts, next, unreadable, phase, loaded, todo, failures, blocked>>

Close ==   \* at any time
  /\ \E k \in used : used' = used \ {k}
  /\ UNCHANGED <<mounts, next, unreadable, phase, loaded, todo, failures, blocked>>

Bootstrapper == (\E p \in Paths : MountAt(p) \/ UmountAt(p)) \/ Open \/ Close

(***************************************************************************)
(* _unmount_directory_bootstrap_leftovers                                  *)
(***************************************************************************)
BugBelow(path) ==   \* prefix without a slash at its end
  LET n == Len(Mountpoint) IN
  /\ Len(path) >= n /\ path # Mountpoint
  /\ \A k \in 1..(n - 1) : path[k] = Mountpoint[k]
  /\ path[n] \in {Mountpoint[n], Mountpoint[n] \o "y"}

Below(path) == StartsWith(path, Mountpoint) /\ path # Mountpoint

LoadMounts ==
  /\ phase = "bootstrap"
  /\ loaded' = mounts
  /\ IF unreadable   \* ValueError of _parse_line
     THEN phase' = "failed" /\ UNCHANGED todo
     ELSE phase' = "unmount" /\ todo' = {m \in mounts : Below(m.at)}
  /\ UNCHANGED <<mounts, next, used, unreadable, failures, blocked>>

BugAtHand(t) == t \in todo /\ \A m \in todo : t.id <= m.id   \* without reversed

AtHand(t) == t \in todo /\ \A m \in todo : m.id <= t.id

Unmount(t) ==
  /\ phase = "unmount" /\ AtHand(t)
  /\ \E m \in mounts : Umountable(t.at, m) /\ mounts' = mounts \ {m}
  /\ todo' = todo \ {t} /\ failures' = 0
  /\ UNCHANGED <<next, used, unreadable, phase, loaded, blocked>>

GiveUp(t) ==
  /\ IF failures < 2 THEN failures' = failures + 1 /\ UNCHANGED <<todo, blocked>>
     ELSE /\ failures' = 0 /\ todo' = todo \ {t}
          /\ blocked' = IF InUse(t.at) THEN blocked \cup {t.at} ELSE blocked

FailToUnmount(t) ==   \* check_call__keep_trying of commands.py
  /\ phase = "unmount" /\ AtHand(t)
  /\ ~\E m \in mounts : Umountable(t.at, m)
  /\ GiveUp(t)
  /\ UNCHANGED <<mounts, next, used, unreadable, phase, loaded>>

EndUnmounting ==
  /\ phase = "unmount" /\ todo = {} /\ phase' = "done"
  /\ UNCHANGED <<mounts, next, used, unreadable, loaded, todo, failures, blocked>>

Finished == phase \in {"done", "failed"} /\ UNCHANGED vars

UnmountLeftovers == LoadMounts \/ (\E t \in todo : Unmount(t) \/ FailToUnmount(t)) \/ EndUnmounting

Next == Bootstrapper \/ UnmountLeftovers \/ Finished

Spec == Init /\ [][Next]_vars

(***************************************************************************)
(* Properties.                                                             *)
(***************************************************************************)

Inside(path) == StartsWith(path, Mountpoint) /\ Len(path) > Len(Mountpoint)

(* Nothing is unmounted but what is below the mount point: not the root    *)
(* file system itself, and not what is next to it under a longer name.     *)
OthersKept == phase # "bootstrap" => \A m \in loaded : Inside(m.at) \/ m \in mounts

(* The directory of the new root that a path below it is in.               *)
TreeOf(path) == path[Len(Mountpoint) + 1]

(* Something is left mounted below the mount point only if a process was   *)
(* in the way to the last, of this mount or of another one in the same     *)
(* directory of the new root: no umount comes too early or in vain, and    *)
(* one that fails does not keep the others from being unmounted.           *)
LeftoversExplained ==
  phase = "done" =>
    \A m \in mounts : Inside(m.at) => \E q \in blocked : TreeOf(q) = TreeOf(m.at)
=============================================================================
