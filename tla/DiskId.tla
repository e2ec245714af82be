------------------------------- MODULE DiskId -------------------------------
(***************************************************************************)
(* BootstrapEngine._set_disk_id_in_mbr (image_bootstrap/engine.py:760-771):*)
(* DiskIdentifier.byte_sequence makes a str of four characters below 256,  *)
(* and the device is opened in text mode, so that the str is encoded in    *)
(* the locale's encoding, UTF-8.                                           *)
(***************************************************************************)
EXTENDS Integers, Sequences

CONSTANT Octets      \* the octets the four bytes of an identifier are taken from

DISK_ID_OFFSET == 440
DISK_ID_COUNT_BYTES == 4
(* The boot sector from the identifier on: two reserved bytes follow it,   *)
(* then the first partition entry: status, CHS of its first sector, ...    *)
StatusOffset == 446
Sector == 440..449
Active == 128

VARIABLES octets,    \* the identifier, least significant byte first
          mbr,       \* this part of the boot sector
          pending,   \* what f.write has encoded and close has not yet flushed
          closed     \* f.close() returned

vars == <<octets, mbr, pending, closed>>

(* What parted left behind: an unset identifier and an active partition.   *)
Parted == [i \in Sector |-> IF i = StatusOffset THEN Active ELSE 0]

Init == /\ octets \in [1..4 -> Octets \cap (0..255)]
        /\ mbr = Parted /\ pending = <<>> /\ closed = FALSE

(* The UTF-8 encoding of a character below 256.                            *)
Utf8(c) == IF c < 128 THEN <<c>> ELSE <<192 + (c \div 64), 128 + (c % 64)>>

byte_sequence == <<octets[1], octets[2], octets[3], octets[4]>>

Encoded(s) == Utf8(s[1]) \o Utf8(s[2]) \o Utf8(s[3]) \o Utf8(s[4])

Encode == /\ pending = <<>> /\ ~closed
          /\ Len(byte_sequence) = DISK_ID_COUNT_BYTES
          /\ pending' = Encoded(byte_sequence)
          /\ UNCHANGED <<octets, mbr, closed>>

Flush == /\ pending # <<>>
         /\ mbr' = [i \in Sector |-> IF i - DISK_ID_OFFSET + 1 \in 1..Len(pending)
                                    THEN pending[i - DISK_ID_OFFSET + 1] ELSE mbr[i]]
         /\ pending' = <<>> /\ closed' = TRUE
         /\ UNCHANGED octets

Next == Encode \/ Flush \/ (closed /\ UNCHANGED vars)

Spec == Init /\ [][Next]_vars

High == {i \in 1..4 : octets[i] >= 128}

(* An identifier of four ASCII bytes is written as it is, and nothing else *)
(* is.                                                                     *)
AsciiExact ==
  closed /\ High = {} => mbr = [i \in Sector |-> IF i \in 440..443 THEN octets[i - 439]
                                                ELSE Parted[i]]

(* Up to two bytes above 127 spill no further than into the two reserved  *)
(* bytes: the first partition entry stays as parted wrote it.              *)
EntryKept ==
  closed /\ ~(\E i, j, l \in High : i # j /\ j # l /\ i # l) =>
    \A i \in Sector : i >= StatusOffset => mbr[i] = Parted[i]

(* As the message of engine.py:767 and the assertion of :765 have it, what *)
(* is set are "(4 bytes)".                                                 *)
FourBytes == closed => \A i \in Sector : i >= 444 => mbr[i] = Parted[i]
=============================================================================
