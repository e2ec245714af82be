----------------------------- MODULE DiskProofs -----------------------------
(***************************************************************************)
(* Proofs about module DiskId, for all identifiers.                        *)
(***************************************************************************)
EXTENDS DiskId, SequenceTheorems, TLAPS

(* The bytes of a character below 256 are one or two, and bytes.           *)
Encodes(u, c) ==
  /\ u \in Seq(0..255)
  /\ c < 128 => Len(u) = 1 /\ u[1] = c
  /\ c >= 128 => Len(u) = 2

LEMMA Utf8Bytes == \A c \in 0..255 : Encodes(Utf8(c), c)
<1> SUFFICES ASSUME NEW c \in 0..255 PROVE Encodes(Utf8(c), c)
  OBVIOUS
<1>1. CASE c < 128
  <2>1. Utf8(c) = <<c>>  BY <1>1 DEF Utf8
  <2>2. ~(c >= 128)  BY <1>1
  <2> QED  BY <2>1, <2>2 DEF Encodes
<1>2. CASE c >= 128
  <2>1. Utf8(c) = <<192 + (c \div 64), 128 + (c % 64)>>  BY <1>2 DEF Utf8
  <2>2. c \div 64 \in 2..3 /\ c % 64 \in 0..63  BY <1>2
  <2>3. 192 + (c \div 64) \in 0..255 /\ 128 + (c % 64) \in 0..255
    BY <2>2
  <2>4. ~(c < 128)  BY <1>2
  <2> QED  BY <2>1, <2>3, <2>4 DEF Encodes
<1> QED  BY <1>1, <1>2

(* Two sequences, and four, one after the other.                           *)
Joined(s, a, b) == /\ Len(s) = Len(a) + Len(b)
                   /\ \A i \in 1..Len(a) : s[i] = a[i]
                   /\ \A i \in 1..Len(b) : s[Len(a) + i] = b[i]

FourJoined(s, a, b, c, d) ==
  /\ Len(s) = Len(a) + Len(b) + Len(c) + Len(d)
  /\ \A i \in 1..Len(a) : s[i] = a[i]
  /\ \A i \in 1..Len(b) : s[Len(a) + i] = b[i]
  /\ \A i \in 1..Len(c) : s[Len(a) + Len(b) + i] = c[i]
  /\ \A i \in 1..Len(d) : s[Len(a) + Len(b) + Len(c) + i] = d[i]

LEMMA TwoConcatenated ==
  ASSUME NEW S, NEW a \in Seq(S), NEW b \in Seq(S)
  PROVE  a \o b \in Seq(S) /\ Joined(a \o b, a, b)
<1>1. Len(a) \in Nat /\ Len(b) \in Nat  OBVIOUS
<1> QED  BY <1>1, ConcatProperties DEF Joined

LEMMA FourConcatenated ==
  ASSUME NEW S, NEW a \in Seq(S), NEW b \in Seq(S), NEW c \in Seq(S), NEW d \in Seq(S)
  PROVE  FourJoined(a \o b \o c \o d, a, b, c, d)
<1> DEFINE ab == a \o b
           abc == ab \o c
           s == abc \o d
<1>0. Len(a) \in Nat /\ Len(b) \in Nat /\ Len(c) \in Nat /\ Len(d) \in Nat  OBVIOUS
<1>1. ab \in Seq(S) /\ Joined(ab, a, b)  BY TwoConcatenated, Zenon
<1>2. abc \in Seq(S) /\ Joined(abc, ab, c)  BY <1>1, TwoConcatenated, Zenon
<1>3. s \in Seq(S) /\ Joined(s, abc, d)  BY <1>2, TwoConcatenated, Zenon
<1> HIDE DEF ab, abc, s
<1>4. Len(ab) = Len(a) + Len(b) /\ Len(abc) = Len(ab) + Len(c) /\ Len(s) = Len(abc) + Len(d)
  BY <1>1, <1>2, <1>3, Zenon DEF Joined
<1>5. \A i \in 1..Len(ab) : s[i] = ab[i]
  <2>1. \A i \in 1..Len(ab) : i \in 1..Len(abc)  BY <1>0, <1>4
  <2> QED  BY <2>1, <1>2, <1>3, Zenon DEF Joined
<1>6. \A i \in 1..Len(a) : s[i] = a[i]
  <2>1. \A i \in 1..Len(a) : i \in 1..Len(ab)  BY <1>0, <1>4
  <2> QED  BY <2>1, <1>1, <1>5, Zenon DEF Joined
<1>7. \A i \in 1..Len(b) : s[Len(a) + i] = b[i]
  <2>1. \A i \in 1..Len(b) : Len(a) + i \in 1..Len(ab)  BY <1>0, <1>4
  <2> QED  BY <2>1, <1>1, <1>5, Zenon DEF Joined
<1>8. \A i \in 1..Len(c) : s[Len(a) + Len(b) + i] = c[i]
  <2>1. \A i \in 1..Len(c) : Len(ab) + i \in 1..Len(abc)  BY <1>0, <1>4
  <2>2. \A i \in 1..Len(c) : s[Len(ab) + i] = c[i]  BY <2>1, <1>2, <1>3, Zenon DEF Joined
  <2> QED  BY <2>2, <1>4, Zenon
<1>9. \A i \in 1..Len(d) : s[Len(a) + Len(b) + Len(c) + i] = d[i]
  BY <1>3, <1>4, Zenon DEF Joined
<1>10. Len(s) = Len(a) + Len(b) + Len(c) + Len(d)
  BY <1>4, Zenon
<1> QED
  BY <1>6, <1>7, <1>8, <1>9, <1>10, Zenon DEF s, abc, ab, FourJoined

(* The bytes u of character c, e of them more than one; four of them in a  *)
(* row.                                                                    *)
CharacterOK(u, e, c) ==
  /\ u \in Seq(0..255)
  /\ c \in 0..255
  /\ e \in {0, 1}
  /\ Len(u) = 1 + e
  /\ e = 0 => u[1] = c /\ c < 128
  /\ e = 1 => c >= 128

FourOK(s, e, c) ==
  /\ Len(s) = 4 + e[1] + e[2] + e[3] + e[4]
  /\ e = <<0, 0, 0, 0>> => s[1] = c[1] /\ s[2] = c[2] /\ s[3] = c[3] /\ s[4] = c[4]

LEMMA FourCharacters ==
  ASSUME NEW u1, NEW u2, NEW u3, NEW u4, NEW e1, NEW e2, NEW e3, NEW e4,
         NEW c1, NEW c2, NEW c3, NEW c4,
         CharacterOK(u1, e1, c1), CharacterOK(u2, e2, c2),
         CharacterOK(u3, e3, c3), CharacterOK(u4, e4, c4)
  PROVE  FourOK(u1 \o u2 \o u3 \o u4, <<e1, e2, e3, e4>>, <<c1, c2, c3, c4>>)
<1> DEFINE s == u1 \o u2 \o u3 \o u4
<1>1. /\ u1 \in Seq(0..255) /\ u2 \in Seq(0..255) /\ u3 \in Seq(0..255) /\ u4 \in Seq(0..255)
  BY Zenon DEF CharacterOK
<1>0. FourJoined(s, u1, u2, u3, u4)
  BY <1>1, FourConcatenated, Zenon
<1> HIDE DEF s
<1>2. /\ Len(s) = Len(u1) + Len(u2) + Len(u3) + Len(u4)
      /\ \A i \in 1..Len(u1) : s[i] = u1[i]
      /\ \A i \in 1..Len(u2) : s[Len(u1) + i] = u2[i]
      /\ \A i \in 1..Len(u3) : s[Len(u1) + Len(u2) + i] = u3[i]
      /\ \A i \in 1..Len(u4) : s[Len(u1) + Len(u2) + Len(u3) + i] = u4[i]
  BY <1>0, Zenon DEF FourJoined
<1>3. /\ e1 \in {0, 1} /\ e2 \in {0, 1} /\ e3 \in {0, 1} /\ e4 \in {0, 1}
      /\ Len(u1) = 1 + e1 /\ Len(u2) = 1 + e2 /\ Len(u3) = 1 + e3 /\ Len(u4) = 1 + e4
  BY Zenon DEF CharacterOK
<1>4. Len(s) = 4 + e1 + e2 + e3 + e4
  BY <1>2, <1>3
<1>5. s[1] = u1[1]
  BY <1>2, <1>3
<1>6. s[2 + e1] = u2[1]
  <2>1. 1 \in 1..Len(u2) /\ Len(u1) + 1 = 2 + e1  BY <1>3
  <2> QED  BY <1>2, <2>1
<1>7. s[3 + e1 + e2] = u3[1]
  <2>1. 1 \in 1..Len(u3) /\ Len(u1) + Len(u2) + 1 = 3 + e1 + e2  BY <1>3
  <2> QED  BY <1>2, <2>1
<1>8. s[4 + e1 + e2 + e3] = u4[1]
  <2>1. 1 \in 1..Len(u4) /\ Len(u1) + Len(u2) + Len(u3) + 1 = 4 + e1 + e2 + e3  BY <1>3
  <2> QED  BY <1>2, <2>1
<1>9. ASSUME e1 = 0, e2 = 0, e3 = 0, e4 = 0
      PROVE  s[1] = c1 /\ s[2] = c2 /\ s[3] = c3 /\ s[4] = c4
  <2>1. u1[1] = c1 /\ u2[1] = c2 /\ u3[1] = c3 /\ u4[1] = c4
    BY <1>9 DEF CharacterOK
  <2> QED  BY <1>5, <1>6, <1>7, <1>8, <1>9, <2>1
<1>10. FourOK(s, <<e1, e2, e3, e4>>, <<c1, c2, c3, c4>>)
  BY <1>4, <1>9 DEF FourOK
<1> QED  BY <1>10 DEF s

(***************************************************************************)
(* What an identifier is encoded as.                                       *)
(***************************************************************************)
IsOctets == octets \in [1..4 -> 0..255]

Bytes == Encoded(byte_sequence)

(* The bytes that the i-th character takes beyond one.                     *)
Extra(i) == IF octets[i] < 128 THEN 0 ELSE 1

Extras == <<Extra(1), Extra(2), Extra(3), Extra(4)>>

LEMMA Characters ==
  IsOctets => \A i \in 1..4 : CharacterOK(Utf8(octets[i]), Extra(i), octets[i])
<1> SUFFICES ASSUME IsOctets, NEW i \in 1..4
             PROVE  CharacterOK(Utf8(octets[i]), Extra(i), octets[i])
  OBVIOUS
<1> DEFINE c == octets[i]
           u == Utf8(octets[i])
<1>1. c \in 0..255  BY DEF IsOctets
<1>2. Encodes(u, c)  BY <1>1, Utf8Bytes, Zenon
<1>3. Extra(i) = IF c < 128 THEN 0 ELSE 1  BY DEF Extra
<1> HIDE DEF c, u
<1>4. CharacterOK(u, Extra(i), c)
  BY <1>1, <1>2, <1>3 DEF Encodes, CharacterOK
<1> QED  BY <1>4 DEF c, u

LEMMA EncodedIdentifier == IsOctets => FourOK(Bytes, Extras, byte_sequence)
<1> SUFFICES ASSUME IsOctets PROVE FourOK(Bytes, Extras, byte_sequence)
  OBVIOUS
<1>1. /\ CharacterOK(Utf8(octets[1]), Extra(1), octets[1])
      /\ CharacterOK(Utf8(octets[2]), Extra(2), octets[2])
      /\ CharacterOK(Utf8(octets[3]), Extra(3), octets[3])
      /\ CharacterOK(Utf8(octets[4]), Extra(4), octets[4])
  <2>1. 1 \in 1..4 /\ 2 \in 1..4 /\ 3 \in 1..4 /\ 4 \in 1..4  OBVIOUS
  <2> QED  BY <2>1, Characters, Zenon
<1>2. Bytes = Utf8(octets[1]) \o Utf8(octets[2]) \o Utf8(octets[3]) \o Utf8(octets[4])
  BY DEF Bytes, Encoded, byte_sequence
<1> QED
  BY <1>1, <1>2, FourCharacters, Zenon DEF Extras, byte_sequence

(* An identifier of four ASCII characters is encoded as itself.            *)
LEMMA BytesOfAscii ==
  ASSUME IsOctets, High = {}
  PROVE  /\ Len(Bytes) = 4
         /\ Bytes[1] = octets[1] /\ Bytes[2] = octets[2]
         /\ Bytes[3] = octets[3] /\ Bytes[4] = octets[4]
<1>1. \A i \in 1..4 : Extra(i) = 0
  BY DEF High, IsOctets, Extra
<1>2. Extras = <<0, 0, 0, 0>>
  BY <1>1 DEF Extras
<1>3. FourOK(Bytes, <<0, 0, 0, 0>>, byte_sequence)
  BY <1>2, EncodedIdentifier, Zenon
<1> QED
  BY <1>3 DEF FourOK, byte_sequence

(* More than six bytes, the identifier's four and the two reserved ones,   *)
(* are written only with three or more characters that are not ASCII.      *)
ThreeHigh == \E i, j, l \in High : i # j /\ j # l /\ i # l

LEMMA BytesOverSix == ASSUME IsOctets PROVE Len(Bytes) \in Nat /\ (ThreeHigh <=> Len(Bytes) > 6)
<1>1. \A i \in 1..4 : octets[i] \in 0..255  BY DEF IsOctets
<1>2. \A i \in 1..4 : i \in High <=> Extra(i) = 1
  BY <1>1 DEF High, Extra
<1>3. High \subseteq 1..4  BY DEF High
<1>4. \A i \in 1..4 : Extra(i) \in {0, 1}  BY DEF Extra
<1>5. ThreeHigh <=> Extra(1) + Extra(2) + Extra(3) + Extra(4) > 2
  BY <1>2, <1>3, <1>4 DEF ThreeHigh
<1>6. Len(Bytes) = 4 + Extra(1) + Extra(2) + Extra(3) + Extra(4)
  BY EncodedIdentifier DEF FourOK, Extras
<1> QED
  BY <1>4, <1>5, <1>6

(***************************************************************************)
(* The inductive invariant: until close() the sector is parted's, and from *)
(* then on it has the bytes of the identifier in it.                       *)
(***************************************************************************)
Written == [i \in Sector |-> IF i - DISK_ID_OFFSET + 1 \in 1..Len(Bytes)
                             THEN Bytes[i - DISK_ID_OFFSET + 1] ELSE Parted[i]]

Inv == /\ IsOctets
       /\ pending # <<>> => pending = Bytes
       /\ ~closed => mbr = Parted
       /\ closed => mbr = Written /\ pending = <<>>

LEMMA InitInv == Init => Inv
<1> SUFFICES ASSUME Init PROVE Inv
  OBVIOUS
<1>1. IsOctets  BY DEF Init, IsOctets
<1>2. pending = <<>> /\ mbr = Parted  BY DEF Init
<1>3. ~closed  BY Zenon DEF Init
<1> QED  BY <1>1, <1>2, <1>3, Zenon DEF Inv

LEMMA SameOctets == ASSUME UNCHANGED octets PROVE Bytes' = Bytes /\ (IsOctets => IsOctets')
<1>1. byte_sequence' = byte_sequence  BY Zenon DEF byte_sequence
<1>2. Bytes' = Bytes  BY <1>1, Zenon DEF Bytes, Encoded
<1> QED  BY <1>2 DEF IsOctets

LEMMA NextInv == Inv /\ [Next]_vars => Inv'
<1> SUFFICES ASSUME Inv, [Next]_vars PROVE Inv'
  OBVIOUS
<1>1. octets' = octets  BY Zenon DEF Next, vars, Encode, Flush
<1>2. Bytes' = Bytes /\ IsOctets'  BY <1>1, SameOctets, Zenon DEF Inv
<1>3. Written' = Written  BY <1>2, Zenon DEF Written
<1>4. CASE Encode
  <2>1. pending' = Bytes /\ mbr' = mbr /\ ~closed /\ ~closed'
    BY <1>4, Zenon DEF Encode, Bytes
  <2> QED  BY <1>2, <2>1, Zenon DEF Inv, Parted
<1>5. CASE Flush
  <2>1. pending' = <<>> /\ closed' = TRUE  BY <1>5, Zenon DEF Flush
  <2>2. pending = Bytes /\ mbr = Parted  BY <1>5, Zenon DEF Inv, Flush
  <2>3. mbr' = Written  BY <1>5, <2>2, Zenon DEF Flush, Written
  <2> QED  BY <1>2, <1>3, <2>1, <2>3, Zenon DEF Inv
<1>6. CASE UNCHANGED vars
  <2>1. pending' = pending /\ mbr' = mbr /\ (closed' <=> closed)  BY <1>6, Zenon DEF vars
  <2> QED  BY <1>2, <1>3, <2>1, Zenon DEF Inv, Parted
<1> QED  BY <1>4, <1>5, <1>6, Zenon DEF Next

LEMMA AlwaysInv == Spec => []Inv
BY InitInv, NextInv, PTL DEF Spec

(* _set_disk_id_in_mbr (engine.py:760-771) writes an identifier of four    *)
(* ASCII bytes as it is, and nothing else.                                 *)
THEOREM AsciiIsExact == Spec => []AsciiExact
<1>1. Inv => AsciiExact
  <2> SUFFICES ASSUME Inv, closed, High = {}
               PROVE  mbr = [i \in Sector |-> IF i \in 440..443 THEN octets[i - 439] ELSE Parted[i]]
    BY Zenon DEF AsciiExact
  <2>1. IsOctets /\ mbr = Written  BY Zenon DEF Inv
  <2>2. /\ Len(Bytes) = 4
        /\ Bytes[1] = octets[1] /\ Bytes[2] = octets[2]
        /\ Bytes[3] = octets[3] /\ Bytes[4] = octets[4]
    BY <2>1, BytesOfAscii, Zenon
  <2>3. ASSUME NEW i \in Sector
        PROVE  Written[i] = IF i \in 440..443 THEN octets[i - 439] ELSE Parted[i]
    <3>1. Written[i] = IF i - 440 + 1 \in 1..4 THEN Bytes[i - 440 + 1] ELSE Parted[i]
      BY <2>2, Zenon DEF Written, DISK_ID_OFFSET
    <3>2. i \in Int  BY DEF Sector
    <3>3. i - 440 + 1 \in 1..4 <=> i \in 440..443  BY <3>2
    <3>4. ASSUME i \in 440..443 PROVE Bytes[i - 440 + 1] = octets[i - 439]
      <4>1. i - 440 + 1 = i - 439 /\ i - 439 \in {1, 2, 3, 4}  BY <3>4
      <4> QED  BY <2>2, <4>1
    <3> QED  BY <3>1, <3>3, <3>4, Zenon
  <2> QED  BY <2>1, <2>3, Zenon DEF Written
<1> QED  BY <1>1, AlwaysInv, PTL

(* Fewer than three bytes above 127 reach no further than the reserved     *)
(* bytes: the partition entry, its status first, stays as it is.           *)
THEOREM EntryIsKept == Spec => []EntryKept
<1>1. Inv => EntryKept
  <2> SUFFICES ASSUME Inv, ~ThreeHigh, closed, NEW i \in Sector, i >= StatusOffset
               PROVE  mbr[i] = Parted[i]
    BY Zenon DEF EntryKept, ThreeHigh
  <2>1. IsOctets /\ mbr = Written  BY Zenon DEF Inv
  <2>2. Len(Bytes) \in Nat /\ ~(Len(Bytes) > 6)  BY <2>1, BytesOverSix
  <2>3. mbr[i] = IF i - 440 + 1 \in 1..Len(Bytes) THEN Bytes[i - 440 + 1] ELSE Parted[i]
    BY <2>1, Zenon DEF Written, DISK_ID_OFFSET
  <2>4. i \in Int /\ i >= 446  BY DEF Sector, StatusOffset
  <2>5. i - 440 + 1 \notin 1..Len(Bytes)  BY <2>2, <2>4
  <2> QED  BY <2>3, <2>5, Zenon
<1> QED  BY <1>1, AlwaysInv, PTL
=============================================================================
