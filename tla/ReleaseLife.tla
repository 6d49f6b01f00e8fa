----------------------------- MODULE ReleaseLife -----------------------------
(***************************************************************************)
(* What becomes of a release: a feed lists it, the search offers it        *)
(* (search.go, releaseJSON), a file of its download, whatever its name, is *)
(* imported under a name made from the movie and the quality that the name *)
(* tells (import.go, importMovie), and the file of the library may be      *)
(* imported again, when its own name is parsed.                            *)
(***************************************************************************)
EXTENDS Naming, Feeds

CONSTANTS
  Feed,   \* feeds: sequences of raw items, each with what it means (see Meant)
  Video,  \* what a video file may be called other than its release
  Ext     \* extensions of the video files

VARIABLES
  feed,
  offers,  \* the releases offered, None before the search
  taken,   \* the one that was imported, 0 for none
  video,   \* base name of the file that was imported first
  file,    \* base name in movie_file.path
  label,   \* movie_file.quality
  place    \* where that file is: "here", in the root folder that the movie
           \* has, "away", in another one, or "gone"

vars == <<feed, offers, taken, video, file, label, place>>

\* What the uploader named, in the fields of Parse.
Meant == {"title", "year", "resolution", "source", "codec", "group", "proper", "repack"}

Attribute == [name : STRING, value : Int \cup {Garbage}]

ASSUME FeedAssumption ==
  \A f \in Feed :
    /\ 0 \notin DOMAIN f
    /\ \A i \in DOMAIN f :
         /\ Meant = DOMAIN f[i].means
         /\ f[i].attrs \in Seq(Attribute)
         /\ {f[i].size, f[i].enclosure.length} \subseteq Int \cup {Garbage}

Init ==
  /\ feed \in Feed
  /\ offers = None
  /\ taken = 0
  /\ video = <<>>
  /\ file = <<>>
  /\ label = <<>>
  /\ place = "gone"

-----------------------------------------------------------------------------
\* The first link there is, or else the title.
Guid(it) ==
  IF it.magnetUrl # None THEN it.magnetUrl
  ELSE IF it.downloadUrl # None THEN it.downloadUrl ELSE it.title

releaseJSON(it) ==
  LET rel == Parse(it.title)
  IN  [title |-> it.title, size |-> it.size, seeders |-> it.seeders,
       leechers |-> it.leechers, magnetUrl |-> it.magnetUrl, downloadUrl |-> it.downloadUrl,
       guid |-> Guid(it), parsed |-> rel,
       quality |-> QualityName(rel.source, rel.resolution),
       weight |-> Weight(rel.source, rel.resolution)]

SearchReleases ==
  /\ taken = 0
  /\ LET items == Decode(feed)
     IN  offers' = [i \in DOMAIN items |-> releaseJSON(items[i])]
  /\ UNCHANGED <<feed, taken, video, file, label, place>>

QualityRead(name) ==
  LET rel == Parse(name) IN QualityName(rel.source, rel.resolution)
DestName(i, name) ==
  FileName(feed[i].movie, feed[i].means.year, QualityRead(name), Last(name))

\* importMovie reads the base name of the file and names it for the movie.
Place(i, name) ==
  /\ label' = QualityRead(name)
  /\ file' = DestName(i, name)
  /\ place' = "here"

\* The largest video file of the download: it bears the name of the release
\* or any other.  Imports that replace a file of the library are modelled in
\* ImportPipeline.
Import(i, name, ext) ==
  /\ place = "gone"
  /\ taken' = i
  /\ video' = name \o <<".", ext>>
  /\ Place(i, name \o <<".", ext>>)
  /\ UNCHANGED <<feed, offers>>

\* The library is moved, or the movie gets another root folder.
Relocate ==
  /\ place = "here"
  /\ place' = "away"
  /\ UNCHANGED <<feed, offers, taken, video, file, label>>

\* A file that is its own destination is removed; Link fails and nothing is
\* recorded.
Reimport ==
  /\ place # "gone"
  /\ LET itself == place = "here" /\ DestName(taken, file) = file
     IN  \/ itself /\ place' = "gone" /\ UNCHANGED <<file, label>>
         \/ ~itself /\ Place(taken, file)
  /\ UNCHANGED <<feed, offers, taken, video>>

Next ==
  \/ SearchReleases
  \/ /\ offers # None
     /\ \E i \in DOMAIN offers : \E name \in Video \cup {feed[i].title}, ext \in Ext :
          Import(i, name, ext)
  \/ Relocate
  \/ Reimport

Spec == Init /\ [][Next]_vars

-----------------------------------------------------------------------------
Offered == IF offers = None THEN {} ELSE DOMAIN offers

(* "It extracts the title, year, and quality attributes from scene/p2p     *)
(* release names" (parser.go:1-3): every attribute that the uploader named *)
(* is read back, in each style of naming, also when the title looks like a *)
(* year, edition and language stand before or after the year, dashes       *)
(* belong to a source or glue the year, or a disc is called by two rules.  *)
NameRead ==
  \A i \in Offered : \A f \in Meant :
    offers[i].parsed[f] = feed[i].means[f]

(* The quality read from the name of the downloaded file is recorded by    *)
(* its import and by each import of the library file: the label is read    *)
(* back from the name that FileName made (import.go:75-76, importer.go:    *)
(* 76-84).  If the downloaded file bears the name of the release, it is    *)
(* also the quality that search shows.  With an extension that parser.go:33*)
(* does not strip, .ts, only sources that are found before TS are safe     *)
(* from it, and of them DVDRip, whose label is dvd, not the second time.   *)
OneQuality ==
  taken # 0 =>
    /\ \/ label = QualityRead(video)
       \/ Last(video) \notin StrippedExts /\ Parse(video).source = "DVDRip"
    /\ \A ext \in Ext : video = feed[taken].title \o <<".", ext>> =>
         \/ QualityRead(video) = offers[taken].quality
         \/ ext \notin StrippedExts /\ offers[taken].parsed.source \in {"DVD", ""}

(* The name in the library tells the movie: its title, as the file system  *)
(* allows it, and its year (importer.go:67-84, parser.go:268-298).         *)
LibraryNameRead ==
  taken # 0 =>
    LET rel == Parse(file)
    IN  /\ rel.title = Fields(Sanitize(feed[taken].movie))
        /\ rel.year = feed[taken].means.year

(* An item with a link can be grabbed: it is offered with exactly one of   *)
(* the two addresses that POST /release looks for (grab.go:28), which is   *)
(* one of its links and the guid; and no item of a sound feed is lost.     *)
OffersUsable ==
  /\ \A i \in Offered :
       LET links == {feed[i].link, feed[i].enclosure.url} \ {None}
           urls == {offers[i].magnetUrl, offers[i].downloadUrl} \ {None}
       IN  links # {} =>
             /\ offers[i].magnetUrl = None \/ offers[i].downloadUrl = None
             /\ urls = {offers[i].guid} /\ urls \subseteq links
  /\ offers # None /\ (\A i \in DOMAIN feed : Sound(feed[i])) => Offered = DOMAIN feed

\* The attributes of a name, and the numbers that they state.
Stated(x, name) == {k \in DOMAIN x.attrs : x.attrs[k].name = name}
Value(x, k) == atoiSafe(x.attrs[k].value)
Told(x, ks) == IF ks = {} THEN {0} ELSE {Value(x, k) : k \in ks}

\* No number is given twice under one name.
StatedOnce(x) ==
  \A name \in {"seeders", "leechers", "peers", "size"} :
    \A j, k \in Stated(x, name) : j = k

\* Peers that are taken for leechers: none are stated but 0, and that before.
Standing(x) ==
  {k \in Stated(x, "peers") : \A j \in Stated(x, "leechers") : j < k /\ Value(x, j) = 0}

EnclosureLength(x) ==
  IF x.link \in Magnet \/ x.enclosure.url = None THEN 0 ELSE x.enclosure.length

(* The numbers of an item, of which each is stated once (torznab.go:122-   *)
(* 147).  Their order decides in one case only, that of leechers stated as *)
(* 0 beside peers: the one that comes later counts.  Otherwise leechers win*)
(* over peers wherever they stand, and a size that is not 0 is taken from  *)
(* the size element, or else the attribute, or else the enclosure.         *)
CountsKept ==
  \A i \in Offered :
    LET x == feed[i]
        sizes == Told(x, Stated(x, "size"))
    IN  /\ offers[i].seeders \in Told(x, Stated(x, "seeders"))
        /\ offers[i].leechers \in
             Told(x, IF Standing(x) # {} THEN Standing(x) ELSE Stated(x, "leechers"))
        /\ offers[i].size \in
             IF x.size # 0 THEN {x.size}
             ELSE IF sizes # {0} THEN sizes ELSE {EnclosureLength(x)}
=============================================================================
