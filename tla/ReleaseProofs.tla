------------------------------ MODULE ReleaseProofs ------------------------------
(***************************************************************************)
(* Proofs about Release, for all dates, command lines, mirrors and caches. *)
(***************************************************************************)
EXTENDS Release, TLAPS

Gentoo == opts.distro = "gentoo"

Stage3Chosen   == {"find snapshot", "find new snapshot", "download snapshot", "download stage3", "done"}
SnapshotChosen == {"download snapshot", "download stage3", "done"}

(* Which distribution is at which step.                                    *)
InPlace ==
  /\ pc \in {"find stage3"} \cup (Stage3Chosen \ {"done"}) => Gentoo
  /\ pc \in {"find image", "download image"} => ~Gentoo

Stage3Listed == \E e \in read.stage3 : e.arch = "ours" /\ stage3 = Named(e)

Stage3Known ==
  Gentoo /\ pc \in Stage3Chosen =>
    /\ opts.stage3 = Latest => LatestStage3 /\ Stage3Listed
    /\ opts.stage3 # Latest => stage3 = [day |-> opts.stage3, time |-> 0, flavor |-> ""]

SnapshotKnown ==
  /\ Gentoo /\ pc \in SnapshotChosen /\ opts.snapshot = Latest => LatestSnapshot
  /\ opts.snapshot # Latest => listing = "unassigned" /\ pc # "find new snapshot"

ImageKnown == pc = "download image" => day \in read.days \cup {opts.image}

Inv == TypeOK /\ InPlace /\ Stage3Known /\ SnapshotKnown /\ ImageKnown

LEMMA DaysAreNumbers == \A d \in Days : d \in Nat
BY NumbersAssumption DEF Days

LEMMA NotEarlier ==
  ASSUME NEW c \in Nat, NEW d \in Nat, c > d \/ c = d
  PROVE  c >= d
OBVIOUS

LEMMA FreshAsWell ==
  ASSUME NEW c \in Nat, NEW d \in Nat, c >= d, ~TooOld(d)
  PROVE  FreshEnough(c)
<1>1. Today \in Nat /\ MaxAge \in Nat  BY NumbersAssumption
<1> QED  BY <1>1 DEF TooOld, FreshEnough

LEMMA InitHolds ==
  ASSUME Init
  PROVE  Inv
<1>1. opts \in RequestType /\ mirror \in MirrorType /\ cached \subseteq FileType
  BY RequestsAssumption, MirrorsAssumption, CachesAssumption DEF Init
<1>2. 0 \in Days /\ 0 \in Nat /\ 0 \in 0..MaxSyncs  BY NumbersAssumption DEF Days
<1>3. NoStage3 \in NameType  BY <1>2 DEF NoStage3, NameType
<1>4. read \in [stage3: SUBSET EntryType, days: SUBSET Days]  BY DEF Init
<1>5. pc = IF Gentoo THEN "find stage3" ELSE "find image"  BY DEF Init, Initial, Gentoo
<1>6. TypeOK  BY <1>1, <1>2, <1>3, <1>4, <1>5 DEF Init, TypeOK
<1>7. InPlace  BY <1>5 DEF InPlace, Stage3Chosen
<1>8. Stage3Known /\ ImageKnown /\ SnapshotKnown
  BY <1>5 DEF Init, Stage3Known, ImageKnown, SnapshotKnown, Stage3Chosen, SnapshotChosen
<1> QED  BY <1>6, <1>7, <1>8 DEF Inv

(* What IsLatest chooses.                                                  *)
LEMMA LatestIsChosen ==
  ASSUME mirror \in MirrorType, NEW e, IsLatest(e)
  PROVE  /\ e \in EntryType /\ e \in mirror.stage3 /\ e.arch = "ours"
         /\ e.flavor \in {"", "-openrc"}
         /\ Named(e) \in NameType
         /\ \A f \in mirror.stage3 : f.arch = "ours" /\ f.flavor \in {"", "-openrc"} =>
              e.day > f.day \/ (e.day = f.day /\ f.time <= e.time)
<1>1. mirror.stage3 \subseteq EntryType  BY DEF MirrorType
<1>2. e \in EntryType /\ e \in mirror.stage3 /\ Matches(e)  BY <1>1 DEF IsLatest
<1>3. e.arch = "ours" /\ e.flavor \in {"", "-openrc"}  BY <1>2 DEF Matches, EntryType
<1>4. e.day \in Days /\ e.time \in Nat  BY <1>2 DEF EntryType
<1>5. Named(e) \in NameType  BY <1>3, <1>4 DEF Named, NameType
<1>6. ASSUME NEW f \in mirror.stage3, f.arch = "ours", f.flavor \in {"", "-openrc"}
      PROVE  e.day > f.day \/ (e.day = f.day /\ f.time <= e.time)
  <2>1. Matches(f)  BY <1>6 DEF Matches
  <2>2. ~Later(f, e)  BY <2>1 DEF IsLatest
  <2>3. f.day \in Days /\ f.time \in Nat  BY <1>1 DEF EntryType
  <2> QED  BY <1>4, <2>2, <2>3, NumbersAssumption DEF Later, Days
<1> QED  BY <1>1, <1>2, <1>3, <1>5, <1>6

LEMMA FindStage3KeepsInv ==
  ASSUME Inv, FindStage3
  PROVE  Inv'
<1>1. pc = "find stage3" /\ Gentoo  BY DEF FindStage3, Inv, InPlace
<1>2. UNCHANGED <<opts, mirror, syncs, overtaken, cached, day, listing, outside>>  BY DEF FindStage3
<1>3. opts \in RequestType /\ mirror \in MirrorType
  BY RequestsAssumption, MirrorsAssumption DEF Inv, TypeOK
<1>4. CASE opts.stage3 # Latest
  <2>1. /\ stage3' = [day |-> opts.stage3, time |-> 0, flavor |-> ""]
        /\ pc' = "find snapshot" /\ read' = read
    BY <1>4 DEF FindStage3
  <2>2. opts.stage3 \in Days  BY <1>3, <1>4 DEF RequestType
  <2>3. stage3' \in NameType  BY <2>1, <2>2 DEF NameType
  <2>4. TypeOK'  BY <1>2, <2>1, <2>3 DEF Inv, TypeOK
  <2>5. InPlace' /\ ImageKnown'  BY <1>1, <1>2, <2>1 DEF InPlace, ImageKnown, Gentoo
  <2>6. Stage3Known'  BY <1>2, <1>4, <2>1 DEF Stage3Known
  <2>7. SnapshotKnown'  BY <1>2, <2>1 DEF Inv, SnapshotKnown, SnapshotChosen
  <2> QED  BY <2>4, <2>5, <2>6, <2>7 DEF Inv
<1>5. CASE opts.stage3 = Latest
  <2>1. read' = [read EXCEPT !.stage3 = mirror.stage3]  BY <1>5 DEF FindStage3
  <2>2. read'.stage3 = mirror.stage3 /\ read'.days = read.days
        /\ read' \in [stage3: SUBSET EntryType, days: SUBSET Days]
    BY <1>3, <2>1 DEF Inv, TypeOK, MirrorType
  <2>3. CASE \E e \in mirror.stage3 :
               /\ IsLatest(e) /\ stage3' = Named(e)
               /\ pc' = IF FreshEnough(e.day) THEN "find snapshot" ELSE "failed"
    <3>1. PICK e \in mirror.stage3 :
               /\ IsLatest(e) /\ stage3' = Named(e)
               /\ pc' = IF FreshEnough(e.day) THEN "find snapshot" ELSE "failed"
      BY <2>3
    <3>2. /\ e \in EntryType /\ e.arch = "ours" /\ Named(e) \in NameType
          /\ \A f \in mirror.stage3 : f.arch = "ours" /\ f.flavor \in {"", "-openrc"} =>
               e.day > f.day \/ (e.day = f.day /\ f.time <= e.time)
      BY <1>3, <3>1, LatestIsChosen
    <3>3. /\ stage3'.day = e.day
          /\ stage3'.time = IF e.time = 0 THEN None ELSE e.time
      BY <3>1 DEF Named
    <3>4. TypeOK'  BY <1>2, <2>2, <3>1, <3>2 DEF Inv, TypeOK
    <3>5. InPlace' /\ ImageKnown'  BY <1>1, <1>2, <3>1 DEF InPlace, ImageKnown, Gentoo, Stage3Chosen
    <3>6. SnapshotKnown'  BY <1>2, <3>1 DEF Inv, SnapshotKnown, SnapshotChosen
    <3>7. Stage3Listed'  BY <2>2, <3>1, <3>2 DEF Stage3Listed, Named
    <3>8. FreshEnough(e.day) => LatestStage3'
      <4>1. e.day \in Days /\ e.time \in Nat  BY <3>2 DEF EntryType
      <4>2. (IF stage3'.time = None THEN 0 ELSE stage3'.time) = e.time
        BY <3>3, <4>1, MarksAssumption
      <4>3. \A f \in mirror.stage3 : f.day \in Days /\ f.time \in Nat
        BY <1>3 DEF MirrorType, EntryType
      <4>4. ASSUME NEW f \in read'.stage3, f.arch = "ours", f.flavor \in {"", "-openrc"}
            PROVE  f.day < stage3'.day \/ (f.day = stage3'.day /\ f.time <= IF stage3'.time = None THEN 0 ELSE stage3'.time)
        <5>1. f \in mirror.stage3  BY <2>2
        <5>2. e.day > f.day \/ (e.day = f.day /\ f.time <= e.time)  BY <3>2, <4>4, <5>1
        <5>3. f.day < e.day <=> e.day > f.day  BY <4>1, <4>3, <5>1, NumbersAssumption DEF Days
        <5> QED  BY <3>3, <4>2, <5>2, <5>3
      <4>5. FreshEnough(e.day) => Today <= stage3'.day + MaxAge
        BY <3>3, <4>1, NumbersAssumption DEF FreshEnough, Days
      <4> QED  BY <4>4, <4>5 DEF LatestStage3
    <3>9. Stage3Known'  BY <1>2, <1>5, <3>1, <3>7, <3>8 DEF Stage3Known, Stage3Chosen
    <3> QED  BY <3>4, <3>5, <3>6, <3>9 DEF Inv
  <2>4. CASE pc' = "failed" /\ stage3' = stage3
    <3>1. TypeOK'  BY <1>2, <2>2, <2>4 DEF Inv, TypeOK
    <3> QED  BY <1>2, <2>4, <3>1
             DEF Inv, InPlace, ImageKnown, Stage3Known, SnapshotKnown, Stage3Chosen, SnapshotChosen
  <2> QED  BY <1>5, <2>3, <2>4 DEF FindStage3
<1> QED  BY <1>4, <1>5

(* A failing step.                                                         *)
LEMMA FailureKeepsInv ==
  ASSUME Inv, pc' = "failed", TypeOK', opts' = opts, opts.snapshot # Latest => listing' = listing
  PROVE  Inv'
BY DEF Inv, InPlace, ImageKnown, Stage3Known, SnapshotKnown, Stage3Chosen, SnapshotChosen

LEMMA ExtractedIsLatest ==
  ASSUME TypeOK, NEW days \in SUBSET Days, NEW accepted, NEW next, ExtractLatestDate(days, accepted, next)
  PROVE  /\ read' \in [stage3: SUBSET EntryType, days: SUBSET Days]
         /\ read'.stage3 = read.stage3 /\ read'.days = days
         /\ day' \in Days
         /\ \/ pc' = "failed"
            \/ /\ pc' = next /\ day' \in days /\ day' \in accepted
               /\ \A d \in days : d <= day'
<1>1. read' = [read EXCEPT !.days = days]  BY DEF ExtractLatestDate
<1>2. /\ read' \in [stage3: SUBSET EntryType, days: SUBSET Days]
      /\ read'.stage3 = read.stage3 /\ read'.days = days
  BY <1>1 DEF TypeOK
<1>3. CASE pc' = "failed" /\ day' = day
  BY <1>2, <1>3 DEF TypeOK
<1>4. CASE \E d \in days : /\ \A c \in days : c <= d
                          /\ day' = d /\ pc' = IF d \in accepted THEN next ELSE "failed"
  BY <1>2, <1>4
<1> QED  BY <1>3, <1>4 DEF ExtractLatestDate

(* The stage3 that was chosen stays as it is.                              *)
LEMMA Stage3StaysKnown ==
  ASSUME Stage3Known, pc \in Stage3Chosen \/ ~Gentoo, opts' = opts, stage3' = stage3, read'.stage3 = read.stage3
  PROVE  Stage3Known'
BY DEF Stage3Known, Gentoo, LatestStage3, Stage3Listed, Named

LEMMA FreshSnapshot ==
  ASSUME NEW days \in SUBSET Days, read'.days = days,
         day' \in days, day' \in FreshDays, \A d \in days : d <= day'
  PROVE  LatestSnapshot'
<1>1. FreshEnough(day') /\ day' \in Days  BY DEF FreshDays
<1> QED  BY <1>1, NumbersAssumption DEF LatestSnapshot, FreshEnough, Days

LEMMA FindSnapshotKeepsInv ==
  ASSUME Inv, FindSnapshot
  PROVE  Inv'
<1>1. pc = "find snapshot" /\ Gentoo /\ pc \in Stage3Chosen
  BY DEF FindSnapshot, Inv, InPlace, Stage3Chosen
<1>2. UNCHANGED <<opts, mirror, syncs, overtaken, cached, stage3, outside>>  BY DEF FindSnapshot
<1>3. opts \in RequestType /\ mirror.old \subseteq Days /\ mirror.new \subseteq Days
  BY RequestsAssumption, MirrorsAssumption DEF Inv, TypeOK, MirrorType
<1>4. CASE opts.snapshot # Latest
  <2>1. day' = opts.snapshot /\ pc' = "download snapshot" /\ listing' = listing /\ read' = read
    BY <1>4 DEF FindSnapshot
  <2>2. day' \in Days  BY <1>3, <1>4, <2>1 DEF RequestType
  <2>3. TypeOK'  BY <1>2, <2>1, <2>2 DEF Inv, TypeOK
  <2>4. InPlace' /\ ImageKnown'  BY <1>1, <1>2, <2>1 DEF InPlace, ImageKnown, Gentoo
  <2>5. Stage3Known'  BY <1>1, <1>2, <2>1, Stage3StaysKnown DEF Inv
  <2>6. SnapshotKnown'  BY <1>2, <1>4, <2>1 DEF Inv, SnapshotKnown
  <2> QED  BY <2>3, <2>4, <2>5, <2>6 DEF Inv
<1>5. CASE opts.snapshot = Latest /\ mirror.gone
  <2>1. pc' = "find new snapshot" /\ listing' = "old" /\ day' = day /\ read' = read
    BY <1>5 DEF FindSnapshot
  <2>2. TypeOK'  BY <1>2, <2>1 DEF Inv, TypeOK
  <2>3. InPlace' /\ ImageKnown'  BY <1>1, <1>2, <2>1 DEF InPlace, ImageKnown, Gentoo
  <2>4. Stage3Known'  BY <1>1, <1>2, <2>1, Stage3StaysKnown DEF Inv
  <2>5. SnapshotKnown'  BY <1>2, <1>5, <2>1 DEF SnapshotKnown, SnapshotChosen
  <2> QED  BY <2>2, <2>3, <2>4, <2>5 DEF Inv
<1>6. CASE opts.snapshot = Latest /\ ~mirror.gone
  <2>1. listing' = "old" /\ ExtractLatestDate(mirror.old, FreshDays, "download snapshot")
    BY <1>6 DEF FindSnapshot
  <2>2. /\ read' \in [stage3: SUBSET EntryType, days: SUBSET Days]
        /\ read'.stage3 = read.stage3 /\ read'.days = mirror.old
        /\ day' \in Days
        /\ \/ pc' = "failed"
           \/ /\ pc' = "download snapshot" /\ day' \in mirror.old /\ day' \in FreshDays
              /\ \A d \in mirror.old : d <= day'
    BY <1>3, <2>1, ExtractedIsLatest DEF Inv
  <2>3. TypeOK'  BY <1>2, <2>1, <2>2 DEF Inv, TypeOK
  <2>4. CASE pc' = "failed"  BY <1>2, <1>6, <2>3, <2>4, FailureKeepsInv
  <2>5. CASE pc' = "download snapshot" /\ LatestSnapshot'
    <3>1. InPlace' /\ ImageKnown'  BY <1>1, <1>2, <2>5 DEF InPlace, ImageKnown, Gentoo
    <3>2. Stage3Known'  BY <1>1, <1>2, <2>2, Stage3StaysKnown DEF Inv
    <3>3. SnapshotKnown'  BY <1>2, <1>6, <2>5 DEF SnapshotKnown
    <3> QED  BY <2>3, <3>1, <3>2, <3>3 DEF Inv
  <2> QED  BY <1>3, <2>2, <2>4, <2>5, FreshSnapshot
<1> QED  BY <1>4, <1>5, <1>6

LEMMA FindNewSnapshotKeepsInv ==
  ASSUME Inv, FindNewSnapshot
  PROVE  Inv'
<1>1. pc = "find new snapshot" /\ Gentoo /\ pc \in Stage3Chosen
  BY DEF FindNewSnapshot, Inv, InPlace, Stage3Chosen
<1>2. UNCHANGED <<opts, mirror, syncs, overtaken, cached, stage3, outside>>  BY DEF FindNewSnapshot
<1>3. mirror.new \subseteq Days  BY MirrorsAssumption DEF Inv, TypeOK, MirrorType
<1>4. opts.snapshot = Latest  BY <1>1 DEF Inv, SnapshotKnown
<1>5. listing' = "new" /\ ExtractLatestDate(mirror.new, FreshDays, "download snapshot")
  BY DEF FindNewSnapshot
<1>6. /\ read' \in [stage3: SUBSET EntryType, days: SUBSET Days]
      /\ read'.stage3 = read.stage3 /\ read'.days = mirror.new
      /\ day' \in Days
      /\ \/ pc' = "failed"
         \/ /\ pc' = "download snapshot" /\ day' \in mirror.new /\ day' \in FreshDays
            /\ \A d \in mirror.new : d <= day'
  BY <1>3, <1>5, ExtractedIsLatest DEF Inv
<1>7. TypeOK'  BY <1>2, <1>5, <1>6 DEF Inv, TypeOK
<1>8. CASE pc' = "failed"  BY <1>2, <1>4, <1>7, <1>8, FailureKeepsInv
<1>9. CASE pc' = "download snapshot" /\ LatestSnapshot'
  <2>1. InPlace' /\ ImageKnown'  BY <1>1, <1>2, <1>9 DEF InPlace, ImageKnown, Gentoo
  <2>2. Stage3Known'  BY <1>1, <1>2, <1>6, Stage3StaysKnown DEF Inv
  <2>3. SnapshotKnown'  BY <1>2, <1>4, <1>9 DEF SnapshotKnown
  <2> QED  BY <1>7, <2>1, <2>2, <2>3 DEF Inv
<1> QED  BY <1>3, <1>6, <1>8, <1>9, FreshSnapshot

LEMMA FindImageKeepsInv ==
  ASSUME Inv, FindImage
  PROVE  Inv'
<1>1. pc = "find image" /\ ~Gentoo  BY DEF FindImage, Inv, InPlace
<1>2. UNCHANGED <<opts, mirror, syncs, overtaken, cached, stage3, listing, outside>>  BY DEF FindImage
<1>3. opts \in RequestType /\ mirror.images \subseteq Days
  BY RequestsAssumption, MirrorsAssumption DEF Inv, TypeOK, MirrorType
<1>4. CASE opts.image # Latest
  <2>1. day' = opts.image /\ pc' = "download image" /\ read' = read  BY <1>4 DEF FindImage
  <2>2. day' \in Days  BY <1>3, <1>4, <2>1 DEF RequestType
  <2>3. TypeOK'  BY <1>2, <2>1, <2>2 DEF Inv, TypeOK
  <2>4. ImageKnown'  BY <1>2, <2>1 DEF ImageKnown
  <2>5. InPlace' /\ Stage3Known'  BY <1>1, <1>2, <2>1 DEF InPlace, Stage3Known, Gentoo, Stage3Chosen
  <2>6. SnapshotKnown'  BY <1>1, <1>2, <2>1 DEF Inv, SnapshotKnown, Gentoo
  <2> QED  BY <2>3, <2>4, <2>5, <2>6 DEF Inv
<1>5. CASE opts.image = Latest
  <2>1. ExtractLatestDate(mirror.images, Days, "download image")  BY <1>5 DEF FindImage
  <2>2. /\ read' \in [stage3: SUBSET EntryType, days: SUBSET Days]
        /\ read'.days = mirror.images /\ day' \in Days
        /\ pc' = "failed" \/ (pc' = "download image" /\ day' \in mirror.images)
    BY <1>3, <2>1, ExtractedIsLatest DEF Inv
  <2>3. TypeOK'  BY <1>2, <2>2 DEF Inv, TypeOK
  <2>4. CASE pc' = "failed"  BY <1>2, <2>3, <2>4, FailureKeepsInv
  <2>5. CASE pc' = "download image" /\ day' \in mirror.images
    <3>1. ImageKnown'  BY <2>2, <2>5 DEF ImageKnown
    <3>2. InPlace' /\ Stage3Known'  BY <1>1, <1>2, <2>5 DEF InPlace, Stage3Known, Gentoo, Stage3Chosen
    <3>3. SnapshotKnown'  BY <1>1, <1>2, <2>5 DEF Inv, SnapshotKnown, Gentoo
    <3> QED  BY <2>3, <3>1, <3>2, <3>3 DEF Inv
  <2> QED  BY <2>2, <2>4, <2>5
<1> QED  BY <1>4, <1>5

LEMMA FetchKeepsInv ==
  ASSUME Inv, NEW file \in FileType, NEW offered, NEW next, Fetch(file, offered, next),
         next \in {"download stage3", "done"}, Gentoo => pc \in SnapshotChosen,
         next = "download stage3" => Gentoo
  PROVE  Inv'
<1>1. /\ UNCHANGED <<opts, mirror, syncs, overtaken, stage3, day, listing, read, outside>>
      /\ cached' = cached \cup {file} /\ pc' \in {next, "failed"}
  BY DEF Fetch
<1>2. TypeOK'  BY <1>1 DEF Inv, TypeOK
<1>3. CASE pc' = "failed"  BY <1>1, <1>2, <1>3, FailureKeepsInv
<1>4. CASE pc' = next
  <2>1. ImageKnown'  BY <1>4 DEF ImageKnown
  <2>2. InPlace'  BY <1>1, <1>4 DEF InPlace, Gentoo, Stage3Chosen
  <2>3. Stage3Known'
    BY <1>1, Stage3StaysKnown DEF Inv, Stage3Chosen, SnapshotChosen
  <2>4. SnapshotKnown'  BY <1>1, <1>4 DEF Inv, SnapshotKnown, Gentoo, LatestSnapshot
  <2> QED  BY <1>2, <2>1, <2>2, <2>3, <2>4 DEF Inv
<1> QED  BY <1>1, <1>3, <1>4

LEMMA DownloadSnapshotKeepsInv ==
  ASSUME Inv, DownloadSnapshot
  PROVE  Inv'
<1> DEFINE file == [kind |-> "snapshot", name |-> day]
<1>1. pc = "download snapshot" /\ Gentoo  BY DEF DownloadSnapshot, Inv, InPlace, Stage3Chosen
<1>2. CASE listing = "unassigned"
  <2>1. /\ UNCHANGED <<opts, mirror, syncs, overtaken, cached, stage3, day, listing, read, outside>>
        /\ pc' = "failed"
    BY <1>2 DEF DownloadSnapshot
  <2>2. TypeOK'  BY <2>1 DEF Inv, TypeOK
  <2> QED  BY <2>1, <2>2, FailureKeepsInv
<1>3. CASE listing # "unassigned"
  <2>1. Fetch(file, SnapshotOffered, "download stage3")  BY <1>3 DEF DownloadSnapshot
  <2>2. file \in FileType  BY DEF Inv, TypeOK, FileType
  <2> HIDE DEF file
  <2> QED  BY <1>1, <2>1, <2>2, FetchKeepsInv DEF SnapshotChosen
<1> QED  BY <1>2, <1>3

LEMMA DownloadStage3KeepsInv ==
  ASSUME Inv, DownloadStage3
  PROVE  Inv'
<1> DEFINE file == [kind |-> "stage3", name |-> stage3]
<1>1. pc = "download stage3" /\ Gentoo  BY DEF DownloadStage3, Inv, InPlace, Stage3Chosen
<1>2. Fetch(file, Stage3Offered, "done")  BY DEF DownloadStage3
<1>3. file \in FileType  BY DEF Inv, TypeOK, FileType
<1> HIDE DEF file
<1> QED  BY <1>1, <1>2, <1>3, FetchKeepsInv DEF SnapshotChosen

LEMMA DownloadImageKeepsInv ==
  ASSUME Inv, DownloadImage
  PROVE  Inv'
<1> DEFINE file    == [kind |-> "image", name |-> day]
           offered == day \in mirror.images
<1>1. pc = "download image" /\ ~Gentoo  BY DEF DownloadImage, Inv, InPlace
<1>2. Fetch(file, offered, "done")  BY DEF DownloadImage
<1>3. file \in FileType  BY DEF Inv, TypeOK, FileType
<1> HIDE DEF file, offered
<1> QED  BY <1>1, <1>2, <1>3, FetchKeepsInv

LEMMA OthersKeepInv ==
  ASSUME Inv, Sync \/ NetworkFails \/ UNCHANGED vars
  PROVE  Inv'
<1>1. CASE NetworkFails
  <2>1. TypeOK' /\ pc' = "failed" /\ opts' = opts /\ listing' = listing
    BY <1>1 DEF NetworkFails, Inv, TypeOK
  <2> QED  BY <2>1, FailureKeepsInv
<1>2. CASE Sync \/ UNCHANGED vars
  <2>1. /\ opts' = opts /\ pc' = pc /\ cached' = cached /\ stage3' = stage3 /\ day' = day
        /\ listing' = listing /\ read' = read /\ outside' = outside
    BY <1>2 DEF Sync, vars
  <2>2. mirror' \in Mirrors /\ syncs' \in 0..MaxSyncs
    <3>1. mirror \in Mirrors /\ syncs \in 0..MaxSyncs  BY DEF Inv, TypeOK
    <3>2. CASE Sync  BY <3>1, <3>2, NumbersAssumption DEF Sync
    <3>3. CASE UNCHANGED vars  BY <3>1, <3>3 DEF vars
    <3> QED  BY <1>2, <3>2, <3>3
  <2>3. overtaken' \in BOOLEAN
    <3>1. CASE Sync  BY <3>1, Zenon DEF Sync
    <3>2. CASE UNCHANGED vars  BY <3>2 DEF vars, Inv, TypeOK
    <3> QED  BY <1>2, <3>1, <3>2
  <2>4. TypeOK'  BY <2>1, <2>2, <2>3 DEF Inv, TypeOK
  <2>5. Stage3Known'  BY <2>1 DEF Inv, Stage3Known, Gentoo, LatestStage3, Stage3Listed, Named
  <2>6. InPlace' /\ SnapshotKnown' /\ ImageKnown'
    BY <2>1 DEF Inv, InPlace, SnapshotKnown, ImageKnown, Gentoo, LatestSnapshot
  <2> QED  BY <2>4, <2>5, <2>6 DEF Inv
<1> QED  BY <1>1, <1>2

LEMMA InvHolds == Spec => []Inv
<1>1. Inv /\ [Next]_vars => Inv'
  BY FindStage3KeepsInv, FindSnapshotKeepsInv, FindNewSnapshotKeepsInv, FindImageKeepsInv,
     DownloadSnapshotKeepsInv, DownloadStage3KeepsInv, DownloadImageKeepsInv, OthersKeepInv
     DEF Next, Run, Finished
<1> QED  BY <1>1, InitHolds, PTL DEF Spec

(* Unless a date was given, a run that succeeds has the latest of what was *)
(* listed, and nothing older than MaxAge.                                  *)
THEOREM LatestAndFreshHolds == Spec => []LatestAndFresh
<1>1. Inv => LatestAndFresh
  BY DEF Inv, LatestAndFresh, Stage3Known, SnapshotKnown, Gentoo, Stage3Chosen, SnapshotChosen
<1> QED  BY <1>1, InvHolds, PTL

(* What gets into the cache has a name that was listed or asked for.       *)
THEOREM OnlyListedIsCached == Spec => OnlyListedCached
<1>1. Inv /\ [Next]_vars => [CachesListed]_vars
  <2> SUFFICES ASSUME Inv, Next, NEW f \in cached' \ cached PROVE ListedOrGiven(f)
    BY DEF CachesListed
  <2>1. DownloadSnapshot \/ DownloadStage3 \/ DownloadImage
    BY DEF Next, Run, FindStage3, FindSnapshot, FindNewSnapshot, FindImage, Sync, NetworkFails,
           Finished, vars
  <2>2. CASE DownloadSnapshot
    <3>1. pc = "download snapshot" /\ listing # "unassigned" /\ f = [kind |-> "snapshot", name |-> day]
      BY <2>2 DEF DownloadSnapshot, Fetch
    <3>2. day \in read.days
      BY <3>1 DEF Inv, InPlace, SnapshotKnown, Stage3Chosen, SnapshotChosen, LatestSnapshot
    <3> QED  BY <3>1, <3>2 DEF ListedOrGiven
  <2>3. CASE DownloadStage3
    <3>1. pc = "download stage3" /\ f = [kind |-> "stage3", name |-> stage3]
      BY <2>3 DEF DownloadStage3, Fetch
    <3>2. f.kind = "stage3" /\ f.name = stage3  BY <3>1
    <3>3. \/ stage3 = [day |-> opts.stage3, time |-> 0, flavor |-> ""]
          \/ Stage3Listed
      BY <3>1 DEF Inv, InPlace, Stage3Known, Stage3Chosen
    <3>4. CASE Stage3Listed
      <4>1. PICK e \in read.stage3 : e.arch = "ours" /\ stage3 = Named(e)
        BY <3>4 DEF Stage3Listed
      <4>2. /\ e.day = stage3.day /\ e.flavor = stage3.flavor
            /\ stage3.time = IF e.time = 0 THEN None ELSE e.time
        BY <4>1 DEF Named
      <4> QED  BY <3>2, <4>1, <4>2 DEF ListedOrGiven
    <3> QED  BY <3>2, <3>3, <3>4 DEF ListedOrGiven
  <2>4. CASE DownloadImage
    <3>1. pc = "download image" /\ f = [kind |-> "image", name |-> day]
      BY <2>4 DEF DownloadImage, Fetch
    <3> QED  BY <3>1 DEF Inv, ImageKnown, ListedOrGiven
  <2> QED  BY <2>1, <2>2, <2>3, <2>4
<1> QED  BY <1>1, InvHolds, PTL DEF Spec, OnlyListedCached

(***************************************************************************)
(* Failures.  What was chosen is offered, unless it was overtaken or comes *)
(* from one of the defects; what is not found is not offered.              *)
(***************************************************************************)
Found ==
  /\ pc = "find new snapshot" => overtaken \/ mirror.gone
  /\ pc = "download snapshot" =>
       \/ opts.snapshot # Latest /\ day = opts.snapshot
       \/ opts.snapshot = Latest /\ listing # "unassigned" /\ (overtaken \/ SnapshotOffered)
  /\ Gentoo /\ pc \in Stage3Chosen /\ opts.stage3 = Latest =>
       overtaken \/ stage3.time = None \/ Stage3Offered
  /\ pc = "download image" =>
       \/ opts.image # Latest /\ day = opts.image
       \/ overtaken \/ day \in mirror.images
  /\ FailureExplained

LEMMA FoundInit ==
  ASSUME Init
  PROVE  Found
<1>1. pc = "find stage3" \/ pc = "find image"  BY DEF Init, Initial
<1> QED  BY <1>1 DEF Found, Stage3Chosen, FailureExplained, OfferedIsInstalled

LEMMA NotFailedYet ==
  ASSUME pc # "failed"
  PROVE  FailureExplained
BY DEF FailureExplained, OfferedIsInstalled

LEMMA OffersKept ==
  ASSUME UNCHANGED <<opts, mirror>>
  PROVE  Offers(opts)' = Offers(opts)
BY DEF Offers, OffersStage3, OffersSnapshot, OffersImage, GoodStage3, GoodSnapshot, Snapshots

(* A step that does not find what is asked for.                            *)
LEMMA NotOffered ==
  ASSUME UNCHANGED <<opts, mirror>>, ~Offers(opts), pc' = "failed"
  PROVE  Found'
<1>1. ~Offers(opts)'  BY OffersKept
<1> QED  BY <1>1 DEF Found, FailureExplained, OfferedIsInstalled, Stage3Chosen

(* A failure after a choice was overtaken.                                 *)
LEMMA Overtaken ==
  ASSUME overtaken' = TRUE, pc' = "failed"
  PROVE  Found'
BY DEF Found, FailureExplained, OfferedIsInstalled, Stage3Chosen

LEMMA FindStage3Finds ==
  ASSUME Inv, Found, FindStage3
  PROVE  Found'
<1>1. pc = "find stage3" /\ Gentoo /\ opts.distro # "arch"  BY DEF FindStage3, Inv, InPlace, Gentoo
<1>2. UNCHANGED <<opts, mirror, syncs, overtaken, cached, day, listing, outside>>  BY DEF FindStage3
<1>3. mirror \in MirrorType  BY MirrorsAssumption DEF Inv, TypeOK
<1>4. \A f \in mirror.stage3 : f.day \in Nat /\ f.time \in Nat
  BY <1>3, DaysAreNumbers DEF MirrorType, EntryType
<1>5. CASE opts.stage3 # Latest
  <2>1. pc' = "find snapshot"  BY <1>5 DEF FindStage3
  <2> QED  BY <1>2, <1>5, <2>1 DEF Found, FailureExplained, OfferedIsInstalled
<1>6. CASE opts.stage3 = Latest
  <2>1. CASE \E e \in mirror.stage3 :
               /\ IsLatest(e) /\ stage3' = Named(e)
               /\ pc' = IF FreshEnough(e.day) THEN "find snapshot" ELSE "failed"
    <3>1. PICK e \in mirror.stage3 :
               /\ IsLatest(e) /\ stage3' = Named(e)
               /\ pc' = IF FreshEnough(e.day) THEN "find snapshot" ELSE "failed"
      BY <2>1
    <3>2. /\ e.arch = "ours"
          /\ \A f \in mirror.stage3 : f.arch = "ours" /\ f.flavor \in {"", "-openrc"} =>
               e.day > f.day \/ (e.day = f.day /\ f.time <= e.time)
      BY <1>3, <3>1, LatestIsChosen
    <3>3. CASE FreshEnough(e.day)
      <4>1. pc' = "find snapshot"  BY <3>1, <3>3
      <4>2. stage3'.time = None \/ Stage3Offered'
        BY <1>2, <3>1, <3>2 DEF Named, Stage3Offered
      <4> QED  BY <4>1, <4>2 DEF Found, FailureExplained, OfferedIsInstalled
    <3>4. CASE ~FreshEnough(e.day)
      <4>1. ASSUME NEW f \in mirror.stage3, Fit(f), ~TooOld(f.day)  PROVE FALSE
        <5>1. e.day > f.day \/ e.day = f.day  BY <3>2, <4>1 DEF Fit
        <5>2. e.day >= f.day  BY <1>4, <5>1, NotEarlier
        <5> QED  BY <1>4, <3>4, <4>1, <5>2, FreshAsWell
      <4>2. ~Offers(opts)
        BY <1>1, <1>6, <4>1 DEF Offers, OffersStage3, GoodStage3
      <4>3. pc' = "failed"  BY <3>1, <3>4
      <4> QED  BY <1>2, <4>2, <4>3, NotOffered
    <3> QED  BY <3>3, <3>4
  <2>2. CASE ~(\E e \in mirror.stage3 : Matches(e)) /\ pc' = "failed"
    <3>1. \A e \in mirror.stage3 : Fit(e) => Matches(e)  BY DEF Fit, Matches
    <3>2. ~Offers(opts)
      BY <1>1, <1>6, <2>2, <3>1 DEF Offers, OffersStage3, GoodStage3
    <3> QED  BY <1>2, <2>2, <3>2, NotOffered
  <2> QED  BY <1>6, <2>1, <2>2 DEF FindStage3
<1> QED  BY <1>5, <1>6

(* Where no date is found, none is fresh enough.                           *)
LEMMA NoneFresh ==
  ASSUME NEW days \in SUBSET Days, ExtractLatestDate(days, FreshDays, "download snapshot"),
         pc' = "failed", NEW d \in days
  PROVE  TooOld(d)
<1>1. PICK c \in days : /\ \A e \in days : e <= c
                        /\ pc' = IF c \in FreshDays THEN "download snapshot" ELSE "failed"
  BY DEF ExtractLatestDate
<1>2. d <= c /\ d \in Days /\ c \in Days /\ c \notin FreshDays  BY <1>1
<1>3. d \in Nat /\ c \in Nat  BY <1>2, DaysAreNumbers
<1>4. c >= d /\ ~FreshEnough(c)  BY <1>2, <1>3 DEF FreshDays
<1> QED  BY <1>3, <1>4, FreshAsWell

LEMMA FindSnapshotFinds ==
  ASSUME Inv, Found, FindSnapshot \/ FindNewSnapshot
  PROVE  Found'
<1>1. Gentoo /\ pc \in Stage3Chosen /\ opts.distro # "arch"
  BY DEF FindSnapshot, FindNewSnapshot, Inv, InPlace, Stage3Chosen, Gentoo
<1>2. UNCHANGED <<opts, mirror, syncs, overtaken, cached, stage3, outside>>
  BY DEF FindSnapshot, FindNewSnapshot
<1>3. mirror.old \in SUBSET Days /\ mirror.new \in SUBSET Days
  BY MirrorsAssumption DEF Inv, TypeOK, MirrorType
<1>4. Gentoo' /\ (opts.stage3 = Latest => overtaken' \/ stage3'.time = None \/ Stage3Offered')
  BY <1>1, <1>2 DEF Found, Gentoo, Stage3Offered
<1>5. CASE FindSnapshot /\ opts.snapshot # Latest
  <2>1. day' = opts.snapshot /\ pc' = "download snapshot"  BY <1>5 DEF FindSnapshot
  <2> QED  BY <1>2, <1>4, <1>5, <2>1 DEF Found, FailureExplained, OfferedIsInstalled
<1>6. CASE FindSnapshot /\ opts.snapshot = Latest /\ mirror.gone
  <2>1. pc' = "find new snapshot" /\ mirror'.gone  BY <1>2, <1>6 DEF FindSnapshot
  <2> QED  BY <1>2, <1>4, <2>1 DEF Found, FailureExplained, OfferedIsInstalled
<1>7. CASE FindSnapshot /\ opts.snapshot = Latest /\ ~mirror.gone
  <2>1. listing' = "old" /\ ExtractLatestDate(mirror.old, FreshDays, "download snapshot")
    BY <1>7 DEF FindSnapshot
  <2>2. pc' = "failed" \/ (pc' = "download snapshot" /\ day' \in mirror.old)
    BY <1>3, <2>1, ExtractedIsLatest DEF Inv
  <2>3. CASE pc' = "failed"
    <3>1. \A d \in mirror.old : TooOld(d)  BY <1>3, <2>1, <2>3, NoneFresh
    <3>2. ~Offers(opts)
      BY <1>1, <1>7, <3>1 DEF Offers, OffersSnapshot, GoodSnapshot, Snapshots
    <3> QED  BY <1>2, <2>3, <3>2, NotOffered
  <2>4. CASE pc' = "download snapshot" /\ day' \in mirror.old
    <3>1. SnapshotOffered' /\ listing' # "unassigned"  BY <1>2, <1>7, <2>1, <2>4 DEF SnapshotOffered
    <3> QED  BY <1>2, <1>4, <1>7, <2>4, <3>1 DEF Found, FailureExplained, OfferedIsInstalled
  <2> QED  BY <2>2, <2>3, <2>4
<1>8. CASE FindNewSnapshot
  <2>1. listing' = "new" /\ ExtractLatestDate(mirror.new, FreshDays, "download snapshot")
    BY <1>8 DEF FindNewSnapshot
  <2>2. pc = "find new snapshot" /\ opts.snapshot = Latest
    BY <1>8 DEF FindNewSnapshot, Inv, SnapshotKnown
  <2>3. pc' = "failed" \/ (pc' = "download snapshot" /\ day' \in mirror.new)
    BY <1>3, <2>1, ExtractedIsLatest DEF Inv
  <2>4. CASE pc' = "failed" /\ overtaken
    <3>1. overtaken' = TRUE  BY <1>2, <2>4 DEF Inv, TypeOK
    <3> QED  BY <2>4, <3>1, Overtaken
  <2>5. CASE pc' = "failed" /\ ~overtaken
    <3>1. Snapshots = mirror.new  BY <2>2, <2>5 DEF Found, Snapshots
    <3>2. \A d \in mirror.new : TooOld(d)  BY <1>3, <2>1, <2>5, NoneFresh
    <3>3. ~Offers(opts)
      BY <1>1, <2>2, <3>1, <3>2 DEF Offers, OffersSnapshot, GoodSnapshot
    <3> QED  BY <1>2, <2>5, <3>3, NotOffered
  <2>6. CASE pc' = "download snapshot" /\ day' \in mirror.new
    <3>1. SnapshotOffered' /\ listing' # "unassigned"  BY <1>2, <2>1, <2>6 DEF SnapshotOffered
    <3> QED  BY <1>2, <1>4, <2>2, <2>6, <3>1 DEF Found, FailureExplained, OfferedIsInstalled
  <2> QED  BY <2>3, <2>4, <2>5, <2>6
<1> QED  BY <1>5, <1>6, <1>7, <1>8

LEMMA FindImageFinds ==
  ASSUME Inv, Found, FindImage
  PROVE  Found'
<1>1. pc = "find image" /\ opts.distro = "arch"
  BY RequestsAssumption DEF FindImage, Inv, InPlace, TypeOK, RequestType, Gentoo
<1>2. UNCHANGED <<opts, mirror, syncs, overtaken, cached, stage3, listing, outside>>  BY DEF FindImage
<1>3. mirror.images \in SUBSET Days  BY MirrorsAssumption DEF Inv, TypeOK, MirrorType
<1>4. CASE opts.image # Latest
  <2>1. day' = opts.image /\ pc' = "download image"  BY <1>4 DEF FindImage
  <2> QED  BY <1>2, <1>4, <2>1 DEF Found, FailureExplained, OfferedIsInstalled, Stage3Chosen
<1>5. CASE opts.image = Latest
  <2>1. ExtractLatestDate(mirror.images, Days, "download image")  BY <1>5 DEF FindImage
  <2>2. CASE mirror.images = {}
    <3>1. ~Offers(opts) /\ pc' = "failed"
      BY <1>1, <1>5, <2>1, <2>2 DEF Offers, OffersImage, ExtractLatestDate
    <3> QED  BY <1>2, <3>1, NotOffered
  <2>3. CASE mirror.images # {}
    <3>1. pc' = "download image" /\ day' \in mirror.images
      BY <1>3, <2>1, <2>3 DEF ExtractLatestDate
    <3> QED  BY <1>2, <3>1 DEF Found, FailureExplained, OfferedIsInstalled, Stage3Chosen
  <2> QED  BY <2>2, <2>3
<1> QED  BY <1>4, <1>5

LEMMA DownloadSnapshotFinds ==
  ASSUME Inv, Found, DownloadSnapshot
  PROVE  Found'
<1>1. pc = "download snapshot" /\ Gentoo  BY DEF DownloadSnapshot, Inv, InPlace, Stage3Chosen
<1>2. UNCHANGED <<opts, mirror, syncs, overtaken, stage3, day, listing, read, outside>>
  BY DEF DownloadSnapshot, Fetch
<1>3. Gentoo' /\ (opts.stage3 = Latest => overtaken' \/ stage3'.time = None \/ Stage3Offered')
  BY <1>1, <1>2 DEF Found, Gentoo, Stage3Offered, Stage3Chosen
<1>4. CASE opts.snapshot # Latest
  <2>1. listing = "unassigned" /\ day = opts.snapshot  BY <1>1, <1>4 DEF Inv, SnapshotKnown, Found
  <2>2. pc' = "failed"  BY <2>1 DEF DownloadSnapshot
  <2>3. UrlUnassigned' /\ opts'.distro = "gentoo"  BY <1>1, <1>2, <1>4, <2>1 DEF UrlUnassigned, Gentoo
  <2> QED  BY <2>2, <2>3 DEF Found, FailureExplained, Stage3Chosen
<1>5. CASE opts.snapshot = Latest
  <2>1. listing # "unassigned" /\ (overtaken \/ SnapshotOffered)  BY <1>1, <1>5 DEF Found
  <2>2. Fetch([kind |-> "snapshot", name |-> day], SnapshotOffered, "download stage3")
    BY <2>1 DEF DownloadSnapshot
  <2>3. CASE pc' = "failed"
    <3>1. ~SnapshotOffered  BY <2>2, <2>3 DEF Fetch
    <3>2. overtaken' = TRUE  BY <1>2, <2>1, <3>1 DEF Inv, TypeOK
    <3> QED  BY <2>3, <3>2, Overtaken
  <2>4. CASE pc' = "download stage3"
    BY <1>2, <1>3, <2>4 DEF Found, FailureExplained, OfferedIsInstalled
  <2> QED  BY <2>2, <2>3, <2>4 DEF Fetch
<1> QED  BY <1>4, <1>5

LEMMA DownloadStage3Finds ==
  ASSUME Inv, Found, DownloadStage3
  PROVE  Found'
<1>1. pc = "download stage3" /\ Gentoo  BY DEF DownloadStage3, Inv, InPlace, Stage3Chosen
<1>2. UNCHANGED <<opts, mirror, syncs, overtaken, stage3, day, listing, read, outside>>
  BY DEF DownloadStage3, Fetch
<1>3. Fetch([kind |-> "stage3", name |-> stage3], Stage3Offered, "done")  BY DEF DownloadStage3
<1>4. CASE pc' = "done"
  <2>1. Gentoo => (opts.stage3 = Latest => overtaken' \/ stage3'.time = None \/ Stage3Offered')
    BY <1>1, <1>2 DEF Found, Stage3Offered, Stage3Chosen
  <2> QED  BY <1>1, <1>2, <1>4, <2>1 DEF Found, FailureExplained, OfferedIsInstalled, Gentoo
<1>5. CASE pc' = "failed"
  <2>1. ~Stage3Offered  BY <1>3, <1>5 DEF Fetch
  <2>2. opts'.distro = "gentoo"  BY <1>1, <1>2 DEF Gentoo
  <2>3. CASE opts.stage3 = Latest /\ overtaken
    <3>1. overtaken' = TRUE  BY <1>2, <2>3 DEF Inv, TypeOK
    <3> QED  BY <1>5, <3>1, Overtaken
  <2>4. CASE opts.stage3 = Latest /\ stage3.time = None
    BY <1>2, <1>5, <2>2, <2>4 DEF Found, FailureExplained, NamedNone, Stage3Chosen
  <2>5. CASE opts.stage3 # Latest
    <3>1. stage3 = [day |-> opts.stage3, time |-> 0, flavor |-> ""]
      BY <1>1, <2>5 DEF Inv, Stage3Known, Stage3Chosen
    <3>2. NamedPlain'  BY <1>2, <2>1, <2>5, <3>1 DEF NamedPlain, Stage3Offered
    <3> QED  BY <1>5, <2>2, <3>2 DEF Found, FailureExplained, Stage3Chosen
  <2> QED  BY <1>1, <2>1, <2>3, <2>4, <2>5 DEF Found, Stage3Chosen
<1> QED  BY <1>3, <1>4, <1>5 DEF Fetch

LEMMA DownloadImageFinds ==
  ASSUME Inv, Found, DownloadImage
  PROVE  Found'
<1>1. pc = "download image" /\ opts.distro = "arch"
  BY RequestsAssumption DEF DownloadImage, Inv, InPlace, TypeOK, RequestType, Gentoo
<1>2. UNCHANGED <<opts, mirror, syncs, overtaken, stage3, day, listing, read, outside>>
  BY DEF DownloadImage, Fetch
<1>3. Fetch([kind |-> "image", name |-> day], day \in mirror.images, "done")  BY DEF DownloadImage
<1>4. CASE pc' = "done"
  BY <1>1, <1>2, <1>4 DEF Found, FailureExplained, OfferedIsInstalled, Gentoo
<1>5. CASE pc' = "failed"
  <2>1. day \notin mirror.images  BY <1>3, <1>5 DEF Fetch
  <2>2. CASE overtaken
    <3>1. overtaken' = TRUE  BY <1>2, <2>2 DEF Inv, TypeOK
    <3> QED  BY <1>5, <3>1, Overtaken
  <2>3. CASE ~overtaken
    <3>1. opts.image # Latest /\ day = opts.image  BY <1>1, <2>1, <2>3 DEF Found
    <3>2. ~Offers(opts)  BY <1>1, <2>1, <3>1 DEF Offers, OffersImage
    <3> QED  BY <1>2, <1>5, <3>2, NotOffered
  <2> QED  BY <2>2, <2>3
<1> QED  BY <1>3, <1>4, <1>5 DEF Fetch

LEMMA OthersFind ==
  ASSUME Inv, Found, Sync \/ NetworkFails \/ UNCHANGED vars
  PROVE  Found'
<1>1. CASE NetworkFails
  BY <1>1 DEF NetworkFails, Found, FailureExplained, OfferedIsInstalled, Stage3Chosen
<1>2. CASE Sync
  <2>1. /\ UNCHANGED <<opts, pc, stage3, day, listing>> /\ pc # "failed"
        /\ overtaken' = (overtaken \/ ~StillThere)
    BY <1>2 DEF Sync, Running
  <2>2. Gentoo' = Gentoo  BY <2>1 DEF Gentoo
  <2>3. CASE overtaken'
    BY <2>1, <2>2, <2>3 DEF Found, FailureExplained, OfferedIsInstalled
  <2>4. CASE ~overtaken'
    <3>1. ~overtaken /\ StillThere  BY <2>1, <2>4
    <3> QED  BY <2>1, <2>2, <3>1 DEF Found, FailureExplained, OfferedIsInstalled, StillThere
  <2> QED  BY <2>3, <2>4
<1>3. CASE UNCHANGED vars
  <2>1. UNCHANGED <<opts, mirror, overtaken, outside, pc, day, listing, stage3>>
    BY <1>3 DEF vars
  <2>2. /\ Gentoo' = Gentoo /\ Stage3Offered' = Stage3Offered /\ SnapshotOffered' = SnapshotOffered
        /\ Offers(opts)' = Offers(opts)
        /\ UrlUnassigned' = UrlUnassigned /\ NamedNone' = NamedNone /\ NamedPlain' = NamedPlain
    BY <2>1, OffersKept DEF Gentoo, Stage3Offered, SnapshotOffered, UrlUnassigned, NamedNone, NamedPlain
  <2> QED  BY <2>1, <2>2 DEF Found, FailureExplained, OfferedIsInstalled
<1> QED  BY <1>1, <1>2, <1>3

(* But for the three defects of gentoo.py, what is offered gets installed, *)
(* whatever synchronisations add, remove or move, unless they take away    *)
(* what had been chosen.                                                   *)
THEOREM FailuresAreExplained == Spec => []FailureExplained
<1>1. Inv /\ Found /\ [Next]_vars => Found'
  BY FindStage3Finds, FindSnapshotFinds, FindImageFinds, DownloadSnapshotFinds,
     DownloadStage3Finds, DownloadImageFinds, OthersFind DEF Next, Run, Finished
<1>2. Found => FailureExplained  BY DEF Found
<1>3. Spec => []Found  BY <1>1, FoundInit, InvHolds, PTL DEF Spec
<1> QED  BY <1>2, <1>3, PTL
=============================================================================
