----------------------------- MODULE MCMountFinder -----------------------------
(* An instance of MountFinder for TLC: the new root at /mnt/x, next to     *)
(* nothing or another mount under a longer name, and a bootstrapper that   *)
(* mounts in two of its directories, one in the other and over each other. *)
EXTENDS MountFinder

MCMountpoint == <<"mnt", "x">>
MCHostTables == {<< <<>> >>, << <<>>, <<"mnt", "xy">> >>}
MCPaths == {<<"mnt", "x", "dev">>, <<"mnt", "x", "dev", "pts">>, <<"mnt", "x", "proc">>}
=============================================================================
