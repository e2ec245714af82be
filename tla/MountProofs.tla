------------------------------ MODULE MountProofs ------------------------------
(***************************************************************************)
(* Proofs about MountFinder, for every mount point, every table of mounts  *)
(* of the host and any number of mounts of the bootstrapper.               *)
(***************************************************************************)
EXTENDS MountFinder, SequenceTheorems, TLAPS

LEMMA Prefixes ==
  ASSUME NEW p \in Seq(STRING), NEW a \in Seq(STRING), NEW b \in Seq(STRING)
  PROVE  /\ StartsWith(p, a) /\ StartsWith(a, b) => StartsWith(p, b)
         /\ StartsWith(p, a) /\ StartsWith(p, b) => StartsWith(a, b) \/ StartsWith(b, a)
         /\ StartsWith(p, a) /\ Len(p) <= Len(a) => p = a
<1>1. Len(p) \in Nat /\ Len(a) \in Nat /\ Len(b) \in Nat
  BY LenProperties
<1>2. StartsWith(p, a) /\ StartsWith(a, b) => StartsWith(p, b)
  BY <1>1 DEF StartsWith
<1>3. ASSUME StartsWith(p, a), StartsWith(p, b)  PROVE StartsWith(a, b) \/ StartsWith(b, a)
  <2>1. CASE Len(a) <= Len(b)
    BY <1>1, <1>3, <2>1 DEF StartsWith
  <2>2. CASE Len(b) <= Len(a)
    BY <1>1, <1>3, <2>2 DEF StartsWith
  <2> QED  BY <1>1, <2>1, <2>2
<1>4. ASSUME StartsWith(p, a), Len(p) <= Len(a)  PROVE p = a
  <2>1. Len(p) = Len(a) /\ \A k \in 1..Len(p) : p[k] = a[k]
    BY <1>1, <1>4 DEF StartsWith
  <2> QED  BY <2>1, SeqEqual
<1> QED  BY <1>2, <1>3, <1>4

(* Below is what is really inside, and all that goes on in one directory   *)
(* of the new root stays in it.                                            *)
LEMMA Insides ==
  ASSUME NEW p \in Seq(STRING), NEW q \in Seq(STRING)
  PROVE  /\ Below(p) <=> Inside(p)
         /\ Inside(p) /\ StartsWith(q, p) => Inside(q) /\ TreeOf(q) = TreeOf(p)
         /\ Inside(p) /\ StartsWith(p, q) => StartsWith(Mountpoint, q) \/ Inside(q)
         /\ Inside(p) => ~StartsWith(Mountpoint, p)
<1>1. Len(p) \in Nat /\ Len(q) \in Nat /\ Len(Mountpoint) \in Nat /\ Mountpoint \in Seq(STRING)
  BY LenProperties, PathsAssumption
<1>2. Below(p) <=> Inside(p)
  <2>1. StartsWith(p, Mountpoint) => Len(Mountpoint) <= Len(p)
    BY DEF StartsWith
  <2>2. StartsWith(p, Mountpoint) /\ Len(p) <= Len(Mountpoint) => p = Mountpoint
    BY <1>1, Prefixes
  <2> QED  BY <1>1, <2>1, <2>2 DEF Below, Inside
<1>3. ASSUME Inside(p), StartsWith(q, p)  PROVE Inside(q) /\ TreeOf(q) = TreeOf(p)
  <2>1. StartsWith(q, Mountpoint)
    BY <1>1, <1>3, Prefixes DEF Inside
  <2>2. Len(p) <= Len(q) /\ \A k \in 1..Len(p) : q[k] = p[k]
    BY <1>3 DEF StartsWith
  <2>3. Len(p) > Len(Mountpoint) /\ Len(Mountpoint) + 1 \in 1..Len(p)
    BY <1>1, <1>3 DEF Inside
  <2> QED  BY <1>1, <2>1, <2>2, <2>3 DEF Inside, TreeOf
<1>4. ASSUME Inside(p), StartsWith(p, q)  PROVE StartsWith(Mountpoint, q) \/ Inside(q)
  <2>1. StartsWith(Mountpoint, q) \/ StartsWith(q, Mountpoint)
    BY <1>1, <1>4, Prefixes DEF Inside
  <2>2. CASE StartsWith(q, Mountpoint)
    <3>1. CASE Len(q) > Len(Mountpoint)
      BY <2>2, <3>1 DEF Inside
    <3>2. CASE Len(q) <= Len(Mountpoint)
      <4>1. q = Mountpoint
        BY <1>1, <2>2, <3>2, Prefixes
      <4> QED  BY <4>1, <1>1 DEF StartsWith
    <3> QED  BY <1>1, <3>1, <3>2
  <2> QED  BY <2>1, <2>2
<1>5. Inside(p) => ~StartsWith(Mountpoint, p)
  BY <1>1 DEF Inside, StartsWith
<1> QED  BY <1>2, <1>3, <1>4, <1>5

(***************************************************************************)
(* The inductive invariant.                                                *)
(***************************************************************************)
IdsInOrder ==
  /\ \A m \in mounts : m.id < next
  /\ \A m, n \in mounts : m.id = n.id => m = n

(* Nothing was mounted over the root file system or above since.           *)
RootFirst == \A m, n \in mounts : StartsWith(Mountpoint, m.at) /\ Inside(n.at) => m.id < n.id

TodoThere == todo \subseteq mounts /\ \A t \in todo : Inside(t.at)

Explained(m) == \E q \in blocked : TreeOf(q) = TreeOf(m.at)

GivenUpExplained ==
  phase \in {"unmount", "done"} => \A m \in mounts \ todo : Inside(m.at) => Explained(m)

IInv == /\ TypeOK /\ IdsInOrder /\ RootFirst /\ TodoThere
        /\ phase \in {"bootstrap", "done"} => todo = {}
        /\ OthersKept /\ GivenUpExplained

LEMMA InitInv == Init => IInv
<1> SUFFICES ASSUME Init PROVE IInv
  OBVIOUS
<1>1. PICK h \in HostTables :
        /\ mounts = {[id |-> k, at |-> h[k]] : k \in 1..Len(h)}
                    \cup {[id |-> Len(h) + 1, at |-> Mountpoint]}
        /\ next = Len(h) + 2
  BY DEF Init
<1>2. /\ h \in Seq(Seq(STRING)) /\ Len(h) \in Nat /\ Mountpoint \in Seq(STRING)
      /\ \A k \in 1..Len(h) : h[k] \in Seq(STRING) /\ ~StartsWith(h[k], Mountpoint)
  BY HostAssumption, PathsAssumption, LenProperties, ElementOfSeq
<1>3. /\ unreadable \in BOOLEAN /\ used = {} /\ phase = "bootstrap" /\ loaded = {} /\ todo = {}
      /\ failures = 0 /\ blocked = {}
  BY DEF Init
<1>4. \A m \in mounts : m \in MountType
  BY <1>1, <1>2 DEF MountType
<1>5. TypeOK
  BY <1>1, <1>2, <1>3, <1>4 DEF TypeOK
<1>6. IdsInOrder
  BY <1>1, <1>2 DEF IdsInOrder
<1>7. \A m \in mounts : ~Inside(m.at)
  <2>1. ~Inside(Mountpoint)
    BY <1>2, LenProperties DEF Inside
  <2> QED  BY <1>1, <1>2, <2>1 DEF Inside
<1>8. RootFirst /\ TodoThere
  BY <1>3, <1>7 DEF RootFirst, TodoThere
<1> QED  BY <1>3, <1>5, <1>6, <1>8 DEF IInv, OthersKept, GivenUpExplained

(* Taking a mount away disturbs nothing but what has to be there.          *)
LEMMA FewerMounts ==
  ASSUME IdsInOrder, RootFirst, NEW m, mounts' = mounts \ {m}, UNCHANGED next
  PROVE  IdsInOrder' /\ RootFirst'
BY DEF IdsInOrder, RootFirst, Inside

(* What is mounted later than the mount at hand, in it or over it, is      *)
(* inside, was given up, and has the same explanation.                     *)
LEMMA LaterExplained ==
  ASSUME IInv, phase = "unmount", NEW t \in todo, AtHand(t),
         NEW n \in mounts, t.id < n.id, StartsWith(n.at, t.at) \/ StartsWith(t.at, n.at)
  PROVE  n \notin todo /\ Explained(t)
<1>1. /\ t \in mounts /\ Inside(t.at) /\ t.id \in Nat /\ n.id \in Nat
      /\ t.at \in Seq(STRING) /\ n.at \in Seq(STRING)
  BY DEF IInv, TodoThere, TypeOK, MountType
<1>2. n \notin todo
  BY <1>1 DEF AtHand
<1>3. Inside(n.at) /\ TreeOf(n.at) = TreeOf(t.at)
  <2>1. CASE StartsWith(n.at, t.at)
    BY <1>1, <2>1, Insides
  <2>2. CASE StartsWith(t.at, n.at)
    <3>1. ~StartsWith(Mountpoint, n.at)
      BY <1>1 DEF IInv, RootFirst
    <3>2. Inside(n.at)
      BY <1>1, <2>2, <3>1, Insides
    <3> QED  BY <1>1, <2>2, <3>2, Insides
  <2> QED  BY <2>1, <2>2
<1>4. Explained(n)
  BY <1>2, <1>3 DEF IInv, GivenUpExplained
<1> QED  BY <1>2, <1>3, <1>4 DEF Explained

LEMMA UnmountStep ==
  ASSUME IInv, NEW t \in todo, Unmount(t)
  PROVE  IInv'
<1>0. /\ TypeOK /\ IdsInOrder /\ RootFirst /\ TodoThere /\ OthersKept /\ GivenUpExplained
      /\ phase = "unmount" /\ AtHand(t)
  BY DEF IInv, Unmount
<1>1. PICK m \in mounts : Umountable(t.at, m) /\ mounts' = mounts \ {m}
  BY DEF Unmount
<1>2. /\ todo' = todo \ {t} /\ failures' = 0
      /\ UNCHANGED <<next, used, unreadable, phase, loaded, blocked>>
  BY DEF Unmount
<1>3. /\ t \in mounts /\ Inside(t.at) /\ t.at \in Seq(STRING) /\ m.at = t.at
      /\ StartsWith(t.at, t.at) /\ t.id \in Nat /\ m.id \in Nat /\ t.id <= m.id
  <2>1. t \in mounts /\ Inside(t.at) /\ t.at \in Seq(STRING) /\ t.id \in Nat /\ m.id \in Nat
    BY <1>0 DEF TodoThere, TypeOK, MountType
  <2>2. StartsWith(t.at, t.at)
    BY <2>1, LenProperties DEF StartsWith
  <2>3. m.at = t.at /\ LeadsInto(t.at, m)
    BY <1>1 DEF Umountable
  <2> QED  BY <2>1, <2>2, <2>3 DEF LeadsInto
<1>4. m = t \/ (m \notin todo /\ Explained(t))
  <2>1. CASE m.id = t.id
    BY <1>0, <1>3, <2>1 DEF IdsInOrder
  <2>2. CASE t.id < m.id
    BY <1>0, <1>3, <2>2, LaterExplained
  <2> QED  BY <1>3, <2>1, <2>2
<1>5. TypeOK'
  BY <1>0, <1>1, <1>2 DEF TypeOK
<1>6. IdsInOrder' /\ RootFirst'
  BY <1>0, <1>1, <1>2, FewerMounts
<1>7. TodoThere'
  BY <1>0, <1>1, <1>2, <1>4 DEF TodoThere, Inside
<1>8. OthersKept'
  BY <1>0, <1>1, <1>2, <1>3 DEF OthersKept, Inside
<1>9. GivenUpExplained'
  BY <1>0, <1>1, <1>2, <1>4 DEF GivenUpExplained, Explained, Inside, TreeOf
<1> QED  BY <1>0, <1>2, <1>5, <1>6, <1>7, <1>8, <1>9 DEF IInv

LEMMA FailStep ==
  ASSUME IInv, NEW t \in todo, FailToUnmount(t)
  PROVE  IInv'
<1>0. /\ TypeOK /\ IdsInOrder /\ RootFirst /\ TodoThere /\ OthersKept /\ GivenUpExplained
      /\ phase = "unmount" /\ AtHand(t) /\ ~\E m \in mounts : Umountable(t.at, m)
      /\ UNCHANGED <<mounts, next, used, unreadable, phase, loaded>>
  BY DEF IInv, FailToUnmount
<1>1. IdsInOrder' /\ RootFirst' /\ OthersKept'
  BY <1>0 DEF IdsInOrder, RootFirst, OthersKept, Inside
<1>2. /\ t \in mounts /\ Inside(t.at) /\ t.at \in Seq(STRING) /\ t.id \in Nat
      /\ \A m \in mounts : m.id \in Nat
  BY <1>0 DEF TodoThere, TypeOK, MountType
<1>3. CASE failures < 2
  <2>1. failures' = failures + 1 /\ todo' = todo /\ blocked' = blocked
    BY <1>3 DEF FailToUnmount, GiveUp
  <2>2. TypeOK'
    BY <1>0, <1>3, <2>1 DEF TypeOK
  <2>3. TodoThere' /\ GivenUpExplained'
    BY <1>0, <2>1 DEF TodoThere, GivenUpExplained, Explained, Inside, TreeOf
  <2> QED  BY <1>0, <1>1, <2>2, <2>3 DEF IInv
<1>4. CASE ~(failures < 2)
  <2>1. /\ failures' = 0 /\ todo' = todo \ {t}
        /\ blocked' = IF InUse(t.at) THEN blocked \cup {t.at} ELSE blocked
    BY <1>4 DEF FailToUnmount, GiveUp
  <2>2. TypeOK'
    BY <1>0, <1>2, <2>1 DEF TypeOK
  <2>3. TodoThere'
    BY <1>0, <2>1 DEF TodoThere, Inside
  <2>4. blocked \subseteq blocked'
    BY <2>1
  <2>5. \E q \in blocked' : TreeOf(q) = TreeOf(t.at)
    <3>1. CASE InUse(t.at)
      BY <2>1, <3>1
    <3>2. CASE \E n \in mounts : t.id < n.id /\ (StartsWith(n.at, t.at) \/ StartsWith(t.at, n.at))
      <4>1. Explained(t)
        BY <1>0, <3>2, LaterExplained
      <4> QED  BY <2>4, <4>1 DEF Explained
    <3>3. InUse(t.at) \/ \E n \in mounts : t.id < n.id /\ (StartsWith(n.at, t.at) \/ StartsWith(t.at, n.at))
      <4>1. StartsWith(t.at, t.at)
        BY <1>2, LenProperties DEF StartsWith
      <4>2. CASE ~LeadsInto(t.at, t)
        <5>1. PICK n \in mounts : StartsWith(t.at, n.at) /\ ~(n.id <= t.id)
          BY <4>1, <4>2 DEF LeadsInto
        <5>2. t.id < n.id
          BY <1>2, <5>1
        <5> QED  BY <5>1, <5>2
      <4>3. CASE LeadsInto(t.at, t) /\ t.id \in used
        BY <1>2, <4>3 DEF InUse
      <4>4. CASE LeadsInto(t.at, t) /\ t.id \notin used
        <5>1. PICK n \in mounts : MountedIn(n, t)
          BY <1>0, <1>2, <4>4 DEF Umountable
        <5> QED  BY <5>1 DEF MountedIn
      <4> QED  BY <4>2, <4>3, <4>4
    <3> QED  BY <3>1, <3>2, <3>3
  <2>6. GivenUpExplained'
    <3>1. ASSUME NEW m \in mounts \ todo', Inside(m.at)  PROVE \E q \in blocked' : TreeOf(q) = TreeOf(m.at)
      <4>1. CASE m = t
        BY <2>5, <4>1
      <4>2. CASE m \notin todo
        BY <1>0, <2>4, <3>1, <4>2 DEF GivenUpExplained, Explained
      <4> QED  BY <2>1, <3>1, <4>1, <4>2
    <3> QED  BY <1>0, <3>1 DEF GivenUpExplained, Explained, Inside, TreeOf
  <2> QED  BY <1>0, <1>1, <2>2, <2>3, <2>6 DEF IInv
<1> QED  BY <1>3, <1>4

LEMMA StepInv == IInv /\ [Next]_vars => IInv'
<1> SUFFICES ASSUME IInv, [Next]_vars  PROVE IInv'
  OBVIOUS
<1>0. /\ TypeOK /\ IdsInOrder /\ RootFirst /\ TodoThere /\ OthersKept /\ GivenUpExplained
      /\ phase \in {"bootstrap", "done"} => todo = {}
  BY DEF IInv
<1>1. CASE UNCHANGED vars
  BY <1>0, <1>1 DEF vars, IInv, TypeOK, IdsInOrder, RootFirst, TodoThere, OthersKept,
                    GivenUpExplained, Explained, Inside, TreeOf
<1>2. ASSUME NEW p \in Paths, MountAt(p)  PROVE IInv'
  <2>0. /\ phase = "bootstrap" /\ mounts' = mounts \cup {[id |-> next, at |-> p]} /\ next' = next + 1
        /\ UNCHANGED <<used, unreadable, phase, loaded, todo, failures, blocked>>
    BY <1>2 DEF MountAt
  <2>1. p \in Seq(STRING) /\ ~StartsWith(Mountpoint, p) /\ next \in Nat
    BY <1>0, PathsAssumption DEF TypeOK
  <2>2. TypeOK'
    BY <1>0, <2>0, <2>1 DEF TypeOK, MountType
  <2>3. \A m \in mounts : m.id \in Nat
    BY <1>0 DEF TypeOK, MountType
  <2>4. IdsInOrder'
    BY <1>0, <2>0, <2>1, <2>3 DEF IdsInOrder
  <2>5. RootFirst'
    BY <1>0, <2>0, <2>1, <2>3 DEF RootFirst, IdsInOrder, Inside
  <2>6. TodoThere' /\ OthersKept' /\ GivenUpExplained'
    BY <1>0, <2>0 DEF TodoThere, OthersKept, GivenUpExplained, Inside
  <2> QED  BY <1>0, <2>0, <2>2, <2>4, <2>5, <2>6 DEF IInv
<1>3. ASSUME NEW p \in Paths, UmountAt(p)  PROVE IInv'
  <2>0. PICK m \in mounts : mounts' = mounts \ {m}
    BY <1>3 DEF UmountAt
  <2>1. phase = "bootstrap" /\ UNCHANGED <<next, used, unreadable, phase, loaded, todo, failures, blocked>>
    BY <1>3 DEF UmountAt
  <2>2. IdsInOrder' /\ RootFirst'
    BY <1>0, <2>0, <2>1, FewerMounts
  <2>3. TodoThere'
    BY <1>0, <2>1 DEF TodoThere
  <2>4. TypeOK' /\ OthersKept' /\ GivenUpExplained'
    BY <1>0, <2>0, <2>1 DEF TypeOK, OthersKept, GivenUpExplained
  <2> QED  BY <1>0, <2>1, <2>2, <2>3, <2>4 DEF IInv
<1>4. CASE Open \/ Close
  <2>1. UNCHANGED <<mounts, next, unreadable, phase, loaded, todo, failures, blocked>>
    BY <1>4 DEF Open, Close
  <2>2. TypeOK'
    BY <1>0, <1>4, <2>1 DEF TypeOK, Open, Close, MountType
  <2> QED  BY <1>0, <2>1, <2>2 DEF IInv, IdsInOrder, RootFirst, TodoThere, OthersKept,
                    GivenUpExplained, Explained, Inside, TreeOf
<1>5. CASE LoadMounts
  <2>0. /\ phase = "bootstrap" /\ loaded' = mounts
        /\ UNCHANGED <<mounts, next, used, unreadable, failures, blocked>>
        /\ \/ phase' = "failed" /\ UNCHANGED todo
           \/ phase' = "unmount" /\ todo' = {m \in mounts : Below(m.at)}
    BY <1>5 DEF LoadMounts
  <2>1. \A m \in mounts : Below(m.at) <=> Inside(m.at)
    BY <1>0, Insides DEF TypeOK, MountType
  <2>2. TypeOK' /\ IdsInOrder' /\ RootFirst' /\ OthersKept'
    BY <1>0, <2>0 DEF TypeOK, IdsInOrder, RootFirst, OthersKept, Inside
  <2>3. TodoThere' /\ GivenUpExplained'
    BY <1>0, <2>0, <2>1 DEF TodoThere, GivenUpExplained, Inside
  <2> QED  BY <2>0, <2>2, <2>3 DEF IInv
<1>6. ASSUME NEW t \in todo, Unmount(t) \/ FailToUnmount(t)  PROVE IInv'
  BY <1>6, UnmountStep, FailStep
<1>7. CASE EndUnmounting
  BY <1>0, <1>7 DEF EndUnmounting, IInv, TypeOK, IdsInOrder, RootFirst, TodoThere, OthersKept,
                    GivenUpExplained, Explained, Inside, TreeOf
<1>8. CASE Finished
  BY <1>1, <1>8 DEF Finished
<1> QED  BY <1>1, <1>2, <1>3, <1>4, <1>5, <1>6, <1>7, <1>8
         DEF Next, Bootstrapper, UnmountLeftovers

LEMMA AlwaysInv == Spec => []IInv
BY InitInv, StepInv, PTL DEF Spec

(* For every table of mounts, only what is below the mount point is        *)
(* unmounted.                                                              *)
THEOREM OthersAreKept == Spec => []OthersKept
<1>1. IInv => OthersKept
  BY DEF IInv
<1> QED  BY <1>1, AlwaysInv, PTL

(* For any number of mounts, nested and stacked at will: what is left was  *)
(* given up with a process in the way, in the same directory of the root.  *)
THEOREM LeftoversAreExplained == Spec => []LeftoversExplained
<1>1. IInv => LeftoversExplained
  BY DEF IInv, GivenUpExplained, Explained, LeftoversExplained
<1> QED  BY <1>1, AlwaysInv, PTL
=============================================================================
