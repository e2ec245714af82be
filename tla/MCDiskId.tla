------------------------------ MODULE MCDiskId ------------------------------
(* Instances of DiskId for TLC: the boundaries of ASCII and of the two     *)
(* lead bytes UTF-8 has for characters below 256.                          *)
EXTENDS DiskId

Boundaries == {0, 18, 127, 128, 191, 192, 255}
=============================================================================
