------------------------------ MODULE MCChrootEnv ------------------------------
(* Instances of ChrootEnv for TLC: users who have set everything or only   *)
(* PATH; lists of up to two of the wanted directories and another one, of  *)
(* three of some of these, and the longer ones of test_path_extension.py.  *)
EXTENDS ChrootEnv

MCUserEnvironments == {Names, {"PATH"}}
MCDirectories == ToSet(WantedPaths) \cup {"/one", "/usr/local/games", "/usr/games", "."}
ShortLists == UNION {[1..n -> ToSet(WantedPaths) \cup {"/one"}] : n \in 1..2}
              \cup [1..3 -> {"/usr/local/bin", "/usr/bin", "/bin", "/one"}]
MCOriginals ==
  ShortLists
  \cup {<<"/usr/local/bin", "/usr/local/sbin", "/usr/bin", "/usr/sbin", "/bin", "/sbin", ".">>,
        <<"/usr/local/bin", "/usr/bin", "/bin", "/usr/local/games", "/usr/games">>}
ArchPath == {<<"/usr/local/sbin", "/usr/local/bin", "/usr/bin">>}
=============================================================================
