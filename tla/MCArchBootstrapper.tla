------------------------- MODULE MCArchBootstrapper -------------------------
(* Instances of ArchBootstrapper for TLC.                                  *)
EXTENDS ArchBootstrapper

(* Only the mounting of /dev & co. may fail.                               *)
OneMount == {"mount_nondisk"}
=============================================================================
