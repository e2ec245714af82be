----------------------------- MODULE PathSanitize -----------------------------
(***************************************************************************)
(* _sanitize_path of directory_bootstrap/shared/executor.py: directories   *)
(* missing from PATH are put into it, one by one, each after those and     *)
(* before those that surround it in the list of wanted ones, or at the end *)
(* if the user's PATH has these in another order.                          *)
(*                                                                         *)
(* A definition whose name starts with Bug is the next definition with a   *)
(* mistake in it.                                                          *)
(***************************************************************************)
EXTENDS Naturals, SequencesExt

CONSTANTS Directories,   \* the names of directories considered
          Originals      \* the values of PATH considered, split at ":"

WantedPaths == <<"/usr/local/sbin", "/usr/local/bin", "/usr/sbin", "/usr/bin", "/sbin", "/bin">>

ASSUME DirectoriesAssumption == \A w \in 1..6 : WantedPaths[w] \in Directories
ASSUME OriginalsAssumption   == Originals \subseteq Seq(Directories) \ {<<>>}

VARIABLES original,   \* PATH at the start
          path,       \* future_paths
          i           \* the task at hand, 7 when done

vars == <<original, path, i>>

TypeOK == original \in Originals /\ path \in Seq(Directories) /\ i \in 1..7

Init == original \in Originals /\ path = original /\ i = 1

(* s.index(e) = p                                                          *)
First(s, e, p) == p \in 1..Len(s) /\ s[p] = e /\ \A q \in 1..(p - 1) : s[q] # e

Befores == {p \in 1..Len(path) : \E w \in 1..(i - 1) : First(path, WantedPaths[w], p)}
Afters  == {p \in 1..Len(path) : \E w \in (i + 1)..6 : First(path, WantedPaths[w], p)}

Conflict == \E b \in Befores, a \in Afters : a <= b

BugConflictAhead(p) ==   \* in front instead of at the end, and no -1 for "none"
  IF Conflict \/ Befores = {} THEN p = 1
  ELSE p = (CHOOSE b \in Befores : TRUE) + 1

InsertionIndex(p) ==
  IF Conflict THEN p = Len(path) + 1
  ELSE /\ \A b \in Befores : b < p
       /\ p = 1 \/ p - 1 \in Befores

BugInsertBeforeAfter(p) == path' = ReplaceAt(path, IF p > Len(path) THEN Len(path) ELSE p, WantedPaths[i])

InsertBeforeAfter(p) == path' = InsertAt(path, p, WantedPaths[i])

BugPresent(e) ==   \* looked for in the string PATH, not in the list
  \/ Contains(path, e)
  \/ e = "/bin"  /\ (Contains(path, "/usr/bin")  \/ Contains(path, "/usr/local/bin"))
  \/ e = "/sbin" /\ (Contains(path, "/usr/sbin") \/ Contains(path, "/usr/local/sbin"))

Present(e) == Contains(path, e)

Skip   == i < 7 /\ Present(WantedPaths[i]) /\ UNCHANGED path
Insert == /\ i < 7 /\ ~Present(WantedPaths[i])
          /\ \E p \in 1..(Len(path) + 1) : InsertionIndex(p) /\ InsertBeforeAfter(p)

Finished == i = 7 /\ UNCHANGED vars
Next     == \/ (Skip \/ Insert) /\ i' = i + 1 /\ UNCHANGED original
            \/ Finished

Spec == Init /\ [][Next]_vars

(***************************************************************************)
(* Properties.                                                             *)
(***************************************************************************)

(* Every wanted directory is searched in the end.                          *)
AllWanted == \A w \in 1..(i - 1) : Contains(path, WantedPaths[w])

(* Which of two directories of the user's PATH is searched first does not  *)
(* change, so that every command found before is still the same one,       *)
(* unless a directory that was not in PATH provides it.                    *)
Precedes(s, d, e) == \E p, q \in 1..Len(s) : First(s, d, p) /\ First(s, e, q) /\ p < q

PrecedenceKept ==
  \A m, n \in 1..Len(original) :
    Precedes(path, original[m], original[n]) <=> Precedes(original, original[m], original[n])

(* If the wanted directories in the user's PATH are in the wanted order,   *)
(* then so are all of them in the result.                                  *)
InOrder(s) == \A v, w \in 1..6 : \A p, q \in 1..Len(s) :
                v < w /\ First(s, WantedPaths[v], p) /\ First(s, WantedPaths[w], q) => p < q
WantedInOrder == InOrder(original) => InOrder(path)
=============================================================================
