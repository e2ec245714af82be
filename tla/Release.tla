-------------------------------- MODULE Release --------------------------------
(***************************************************************************)
(* Which release the Gentoo and Arch bootstrappers install: the search for *)
(* the latest stage3 tarball, portage snapshot and bootstrap image on a    *)
(* mirror, and their download from where they were found, on a mirror that *)
(* may be synchronised between any two requests, into a cache that keeps   *)
(* files of earlier runs.  What a cached file contains is DownloadCache's. *)
(*                                                                         *)
(* A definition whose name starts with Bug is the next definition with a   *)
(* mistake in it.                                                          *)
(***************************************************************************)
EXTENDS Naturals

CONSTANTS Today,      \* datetime.date.today(), in days
          MaxAge,     \* --max-age-days
          Requests,   \* the command lines, see RequestType
          Mirrors,    \* what the mirror may offer, see MirrorType
          Caches,     \* what may be cached, sets of file names
          MaxSyncs,   \* bound on the synchronisations of the mirror
          Latest,     \* stands for no date on the command line
          None        \* what Python makes of a time of day that is not there

Days == 0..Today

RequestType == [distro: {"gentoo", "arch"}, stage3: Days \cup {Latest},
                snapshot: Days \cup {Latest}, image: Days \cup {Latest}]

(* A stage3 tarball, as listed in latest-stage3.txt and as offered: time 0 *)
(* is for names without a time of day, as builds had them once.            *)
EntryType  == [day: Days, time: Nat, arch: {"ours", "other"}, flavor: {"", "-openrc", "-other"}]
(* old, new: the two places for portage snapshots, one of them may be gone.*)
MirrorType == [stage3: SUBSET EntryType, images: SUBSET Days, gone: BOOLEAN,
               old: SUBSET Days, new: SUBSET Days]

NameType == [day: Days, time: Nat \cup {None}, flavor: {"", "-openrc"}]
FileType == [kind: {"stage3"}, name: NameType] \cup [kind: {"snapshot", "image"}, name: Days]

ASSUME NumbersAssumption  == Today \in Nat /\ MaxAge \in Nat /\ MaxSyncs \in Nat
ASSUME MarksAssumption    == Latest \notin Days /\ None \notin Nat
ASSUME RequestsAssumption == Requests \subseteq RequestType
ASSUME MirrorsAssumption  == Mirrors \subseteq MirrorType
ASSUME CachesAssumption   == \A c \in Caches : c \subseteq FileType

VARIABLES opts,      \* the command line, fixed
          mirror,    \* what the mirror offers now
          syncs,     \* how often it was synchronised
          overtaken, \* a synchronisation made a choice outdated, see Sync
          cached,    \* the files in the cache
          pc,        \* what run() does next
          stage3,    \* the name of the stage3 to download
          day,       \* the day of the snapshot or image to download
          listing,   \* snapshot_listing_url: "unassigned", "old" or "new"
          read,      \* the entries and days in the listings read
          outside    \* a request failed for reasons of the network

vars == <<opts, mirror, syncs, overtaken, cached, pc, stage3, day, listing, read, outside>>

NoStage3 == [day |-> 0, time |-> 0, flavor |-> ""]
Initial  == IF opts.distro = "gentoo" THEN "find stage3" ELSE "find image"

TypeOK ==
  /\ opts \in Requests /\ mirror \in Mirrors /\ syncs \in 0..MaxSyncs /\ cached \subseteq FileType
  /\ pc \in {"find stage3", "find snapshot", "find new snapshot", "download snapshot",
             "download stage3", "find image", "download image", "done", "failed"}
  /\ stage3 \in NameType
  /\ day \in Days /\ listing \in {"unassigned", "old", "new"}
  /\ read \in [stage3: SUBSET EntryType, days: SUBSET Days]
  /\ outside \in BOOLEAN /\ overtaken \in BOOLEAN

Init ==
  /\ opts \in Requests /\ mirror \in Mirrors /\ cached \in Caches
  /\ syncs = 0 /\ pc = Initial
  /\ stage3 = NoStage3 /\ day = 0 /\ listing = "unassigned"
  /\ read = [stage3 |-> {}, days |-> {}]
  /\ outside = FALSE /\ overtaken = FALSE

Running == pc \notin {"done", "failed"}

NetworkFails ==
  /\ Running /\ pc' = "failed" /\ outside' = TRUE
  /\ UNCHANGED <<opts, mirror, syncs, overtaken, cached, stage3, day, listing, read>>

(***************************************************************************)
(* find_latest_stage3_date                                                 *)
(***************************************************************************)
Matches(e) == e.arch = "ours" /\ e.flavor # "-other"

(* As strings: the digits of the day, then the time of day if there is one.*)
BugLater(e, f) == e.day > f.day   \* the time of day left out

Later(e, f) == e.day > f.day \/ (e.day = f.day /\ e.time > f.time)

IsLatest(e) ==
  e \in mirror.stage3 /\ Matches(e) /\ ~\E f \in mirror.stage3 : Matches(f) /\ Later(f, e)

BugNamed(e) ==   \* the flavor left out
  [day |-> e.day, time |-> IF e.time = 0 THEN None ELSE e.time, flavor |-> ""]

Named(e) == [day |-> e.day, time |-> IF e.time = 0 THEN None ELSE e.time, flavor |-> e.flavor]

FreshEnough(d) == d + MaxAge >= Today

FindStage3 ==
  /\ pc = "find stage3"
  /\ IF opts.stage3 # Latest
     THEN /\ stage3' = [day |-> opts.stage3, time |-> 0, flavor |-> ""]
          /\ pc' = "find snapshot" /\ UNCHANGED read
     ELSE /\ read' = [read EXCEPT !.stage3 = mirror.stage3]
          /\ \/ \E e \in mirror.stage3 :
                  /\ IsLatest(e) /\ stage3' = Named(e)
                  /\ pc' = IF FreshEnough(e.day) THEN "find snapshot" ELSE "failed"
             \/ ~(\E e \in mirror.stage3 : Matches(e)) /\ pc' = "failed" /\ UNCHANGED stage3
  /\ UNCHANGED <<opts, mirror, syncs, overtaken, cached, day, listing, outside>>

(***************************************************************************)
(* extract_latest_date: the latest day some link names, or IndexError      *)
(***************************************************************************)
ExtractLatestDate(days, accepted, next) ==
  /\ read' = [read EXCEPT !.days = days]
  /\ \/ \E d \in days : /\ \A c \in days : c <= d
                        /\ day' = d /\ pc' = IF d \in accepted THEN next ELSE "failed"
     \/ days = {} /\ pc' = "failed" /\ UNCHANGED day

FreshDays == {d \in Days : FreshEnough(d)}

FindSnapshot ==
  /\ pc = "find snapshot"
  /\ \/ /\ opts.snapshot # Latest
        /\ day' = opts.snapshot /\ pc' = "download snapshot" /\ UNCHANGED <<listing, read>>
     \/ /\ opts.snapshot = Latest /\ listing' = "old"
        /\ IF mirror.gone   \* HTTPError
           THEN pc' = "find new snapshot" /\ UNCHANGED <<day, read>>
           ELSE ExtractLatestDate(mirror.old, FreshDays, "download snapshot")
  /\ UNCHANGED <<opts, mirror, syncs, overtaken, cached, stage3, outside>>

BugFindNewSnapshot ==   \* the listing from the new place, the URL of the old one
  /\ pc = "find new snapshot"
  /\ ExtractLatestDate(mirror.new, FreshDays, "download snapshot")
  /\ UNCHANGED <<opts, mirror, syncs, overtaken, cached, stage3, listing, outside>>

FindNewSnapshot ==
  /\ pc = "find new snapshot"
  /\ listing' = "new" /\ ExtractLatestDate(mirror.new, FreshDays, "download snapshot")
  /\ UNCHANGED <<opts, mirror, syncs, overtaken, cached, stage3, outside>>

FindImage ==   \* of any age
  /\ pc = "find image"
  /\ IF opts.image # Latest
     THEN day' = opts.image /\ pc' = "download image" /\ UNCHANGED read
     ELSE ExtractLatestDate(mirror.images, Days, "download image")
  /\ UNCHANGED <<opts, mirror, syncs, overtaken, cached, stage3, listing, outside>>

(***************************************************************************)
(* download_url_to_file: the cached file, or the one offered, or wget fails*)
(* and leaves an empty file of that name.                                  *)
(***************************************************************************)
Fetch(file, offered, next) ==
  /\ pc' = IF file \in cached \/ offered THEN next ELSE "failed"
  /\ cached' = cached \cup {file}
  /\ UNCHANGED <<opts, mirror, syncs, overtaken, stage3, day, listing, read, outside>>

SnapshotOffered == CASE listing = "old" -> ~mirror.gone /\ day \in mirror.old
                     [] listing = "new" -> day \in mirror.new
                     [] OTHER           -> FALSE

DownloadSnapshot ==
  /\ pc = "download snapshot"
  /\ IF listing = "unassigned"   \* UnboundLocalError
     THEN /\ pc' = "failed"
          /\ UNCHANGED <<opts, mirror, syncs, overtaken, cached, stage3, day, listing, read, outside>>
     ELSE Fetch([kind |-> "snapshot", name |-> day], SnapshotOffered, "download stage3")

Stage3Offered ==
  \E e \in mirror.stage3 : /\ e.arch = "ours" /\ e.day = stage3.day /\ e.flavor = stage3.flavor
                           /\ e.time = stage3.time

DownloadStage3 == pc = "download stage3" /\ Fetch([kind |-> "stage3", name |-> stage3], Stage3Offered, "done")

DownloadImage ==
  pc = "download image" /\ Fetch([kind |-> "image", name |-> day], day \in mirror.images, "done")

(* The mirror is synchronised, or the bouncer's mirror redirects elsewhere.*)
(* For the properties, overtaken says that this withdrew what had been     *)
(* found and was still to be downloaded, or brought back the place for     *)
(* snapshots that run() has just given up on.                              *)
StillThere ==
  /\ Stage3Offered => Stage3Offered'
  /\ SnapshotOffered => SnapshotOffered'
  /\ day \in mirror.images => day \in mirror'.images
  /\ pc = "find new snapshot" => mirror'.gone

Sync ==
  /\ Running /\ syncs < MaxSyncs
  /\ mirror' \in Mirrors /\ syncs' = syncs + 1
  /\ UNCHANGED <<opts, cached, pc, stage3, day, listing, read, outside>>
  /\ overtaken' = (overtaken \/ ~StillThere)

Finished == ~Running /\ UNCHANGED vars

Run == FindStage3 \/ FindSnapshot \/ FindNewSnapshot \/ FindImage
       \/ DownloadSnapshot \/ DownloadStage3 \/ DownloadImage

Next == Run \/ Sync \/ NetworkFails \/ Finished

Spec == Init /\ [][Next]_vars

(***************************************************************************)
(* Properties.                                                             *)
(***************************************************************************)

LatestStage3 ==
  /\ Today <= stage3.day + MaxAge
  /\ \A e \in read.stage3 : e.arch = "ours" /\ e.flavor \in {"", "-openrc"} =>
       \/ e.day < stage3.day
       \/ e.day = stage3.day /\ e.time <= IF stage3.time = None THEN 0 ELSE stage3.time

LatestSnapshot ==
  Today <= day + MaxAge /\ day \in read.days /\ \A d \in read.days : d <= day

(* Unless the user asked for a date, what Gentoo is installed from is not  *)
(* older than --max-age-days, and it is the latest of its kind that was    *)
(* listed, at the time of day as well: a mirror cannot sell something old. *)
LatestAndFresh ==
  pc = "done" /\ opts.distro = "gentoo" =>
    (opts.stage3 = Latest => LatestStage3) /\ (opts.snapshot = Latest => LatestSnapshot)

(* What a mirror has for the user, as the options are explained            *)
(* (gentoo.py:395-400, arch.py:272): the latest, if it is fresh enough, or  *)
(* what is of the date given; named with a time of day or without one.     *)
Fit(e)     == e.arch = "ours" /\ e.flavor \in {"", "-openrc"}
TooOld(d)  == d + MaxAge < Today
Snapshots  == IF mirror.gone THEN mirror.new ELSE mirror.old
GoodStage3   == \E e \in mirror.stage3 : Fit(e) /\ ~TooOld(e.day)
GoodSnapshot == \E d \in Snapshots : ~TooOld(d)

OffersStage3(date)   == IF date = Latest THEN GoodStage3 ELSE \E e \in mirror.stage3 : Fit(e) /\ e.day = date
OffersSnapshot(date) == IF date = Latest THEN GoodSnapshot ELSE date \in Snapshots
OffersImage(date)    == IF date = Latest THEN mirror.images # {} ELSE date \in mirror.images

Offers(r) == IF r.distro = "arch" THEN OffersImage(r.image)
             ELSE OffersStage3(r.stage3) /\ OffersSnapshot(r.snapshot)

(* What is offered gets installed: run() fails for reasons of the network  *)
(* only, or because the mirror that answered its last request does not     *)
(* have what the user asked for, or changed under it.                      *)
OfferedIsInstalled == pc = "failed" => outside \/ overtaken \/ ~Offers(opts)

(* The defects of gentoo.py that break this: the date of a snapshot leaves *)
(* snapshot_listing_url unassigned (:369); the latest stage3 is named      *)
(* without a time of day, and is asked for with "None" in its place (:346);*)
(* a stage3 of a given date is asked for without time of day and flavor    *)
(* only (:350), which may not be how the mirror names it.                  *)
UrlUnassigned == opts.snapshot # Latest /\ day = opts.snapshot /\ listing = "unassigned"
NamedNone     == opts.stage3 = Latest /\ stage3.time = None
NamedPlain    ==
  opts.stage3 # Latest /\ ~\E e \in mirror.stage3 : /\ e.arch = "ours" /\ e.day = opts.stage3
                                                   /\ e.time = 0 /\ e.flavor = ""

(* But for these three defects what is offered gets installed, whichever   *)
(* listings are read from whichever place, and whatever newer or older     *)
(* files a synchronisation adds or removes meanwhile.                      *)
FailureExplained ==
  \/ OfferedIsInstalled
  \/ opts.distro = "gentoo" /\ (UrlUnassigned \/ NamedNone \/ NamedPlain)

ListedOrGiven(f) ==
  CASE f.kind = "snapshot" -> f.name \in read.days
    [] f.kind = "image"    -> f.name \in read.days \cup {opts.image}
    [] f.kind = "stage3"   ->
         \/ f.name = [day |-> opts.stage3, time |-> 0, flavor |-> ""]
         \/ \E e \in read.stage3 : /\ e.day = f.name.day /\ e.flavor = f.name.flavor
                                   /\ f.name.time = IF e.time = 0 THEN None ELSE e.time
                                   /\ e.arch = "ours"

CachesListed == \A f \in cached' \ cached : ListedOrGiven(f)

(* A name gets into the cache, with the file or as what wget leaves of it, *)
(* only if the user gave its date or a listing that was read had it, flavor*)
(* included, whatever the mirror does between listing and download.  (None *)
(* is put in place of a time of day that the listing did not have.)        *)
OnlyListedCached == [][CachesListed]_vars
=============================================================================
