-------------------------- MODULE ReleaseLife_proof --------------------------
(***************************************************************************)
(* Proofs about what torznab reads from an item and what parser and        *)
(* importer make of names, for feeds, items and names of any length.  The  *)
(* loops over the attributes of an item and the characters of a name are   *)
(* recursive functions; facts about them are proved by induction in the    *)
(* form of sets: a set that holds 0 and, with each number, the next one    *)
(* holds them all.                                                         *)
(***************************************************************************)
EXTENDS ReleaseLife, SequenceTheorems, WellFoundedInduction, TLAPS

(* Induction up to n, over a set instead of a predicate.                   *)
LEMMA UpTo ==
  ASSUME NEW n \in Nat, NEW S, 0 \in S, \A k \in 0..(n - 1) : k \in S => k + 1 \in S
  PROVE  \A k \in 0..n : k \in S
<1> DEFINE T == {k \in 0..n : k \notin S}
           R == OpToRel(<, Nat)
<1>1. IsWellFoundedOn(R, Nat)
  BY NatLessThanWellFounded
<1>2. T \subseteq Nat
  OBVIOUS
<1>3. ASSUME T # {}
      PROVE  FALSE
  <2> HIDE DEF T, R
  <2>1. PICK x \in T : \A y \in T : ~(<<y, x>> \in R)
    BY <1>1, <1>2, <1>3, WFMin
  <2>2. x \in 0..n /\ x \notin S /\ x # 0
    BY <2>1 DEF T
  <2>3. x - 1 \in T
    BY <2>2 DEF T
  <2>4. <<x - 1, x>> \in R
    BY <2>2 DEF R, OpToRel
  <2> QED
    BY <2>1, <2>3, <2>4
<1> QED
  BY <1>3

Start(x) == [title |-> x.title, size |-> x.size, seeders |-> 0, leechers |-> 0,
             magnetUrl |-> None, downloadUrl |-> None]

\* g is what the loop of Parse computes in its first n rounds.
Reads(g, x, n) ==
  g = [k \in 0..n |-> IF k = 0 THEN Start(x) ELSE Attr(g[k - 1], x.attrs[k])]

(* The loop over the attributes of an item is well defined.                 *)
LEMMA AttrsReadDef ==
  ASSUME NEW x, Len(x.attrs) \in Nat
  PROVE  Reads(AttrsRead(x), x, Len(x.attrs))
<1> DEFINE N == Len(x.attrs)
           S == {n \in 0..N : \E g : Reads(g, x, n)}
<1>1. 0 \in S
  <2> DEFINE g == [k \in 0..0 |-> Start(x)]
  <2>1. Reads(g, x, 0)
    BY DEF Reads
  <2> QED
    BY <2>1
<1>2. ASSUME NEW n \in 0..(N - 1), n \in S
      PROVE  n + 1 \in S
  <2>1. PICK g : Reads(g, x, n)
    BY <1>2
  <2> DEFINE h == [k \in 0..(n + 1) |->
                     IF k = n + 1 THEN Attr(g[n], x.attrs[n + 1]) ELSE g[k]]
  <2>2. \A k \in 0..n : h[k] = g[k]
    OBVIOUS
  <2>3. \A k \in 0..(n + 1) : h[k] = IF k = 0 THEN Start(x) ELSE Attr(h[k - 1], x.attrs[k])
    <3> SUFFICES ASSUME NEW k \in 0..(n + 1)
                 PROVE  h[k] = IF k = 0 THEN Start(x) ELSE Attr(h[k - 1], x.attrs[k])
      OBVIOUS
    <3>1. CASE k = n + 1
      <4>1. h[k] = Attr(g[n], x.attrs[n + 1]) /\ h[n] = g[n]
        BY <3>1, <2>2
      <4> HIDE DEF h
      <4> QED
        BY <3>1, <4>1
    <3>2. CASE k # n + 1
      <4>1. g[k] = IF k = 0 THEN Start(x) ELSE Attr(g[k - 1], x.attrs[k])
        BY <2>1, <3>2 DEF Reads
      <4>2. h[k] = g[k] /\ (k # 0 => h[k - 1] = g[k - 1])
        BY <2>2, <3>2
      <4> HIDE DEF h
      <4> QED
        BY <4>1, <4>2
    <3> QED
      BY <3>1, <3>2
  <2>4. Reads(h, x, n + 1)
    <3>1. h = [k \in 0..(n + 1) |-> h[k]]
      OBVIOUS
    <3> HIDE DEF h
    <3> QED
      BY <2>3, <3>1 DEF Reads
  <2> QED
    BY <2>4
<1>3. N \in S
  <2>1. N \in Nat
    OBVIOUS
  <2>2. \A n \in 0..(N - 1) : n \in S => n + 1 \in S
    BY <1>2
  <2> HIDE DEF S, N
  <2>3. \A n \in 0..N : n \in S
    BY <1>1, <2>1, <2>2, UpTo
  <2> QED
    BY <2>1, <2>3
<1>4. PICK g : Reads(g, x, N)
  BY <1>3
<1>5. AttrsRead(x) = CHOOSE item : Reads(item, x, N)
  BY DEF AttrsRead, Reads, Start
<1> QED
  BY <1>4, <1>5

(* The first round starts from the elements of the item, each round reads   *)
(* one attribute.                                                           *)
LEMMA AttrsReadSteps ==
  ASSUME NEW x, Len(x.attrs) \in Nat
  PROVE  /\ AttrsRead(x)[0] = Start(x)
         /\ \A k \in 0..(Len(x.attrs) - 1) :
              AttrsRead(x)[k + 1] = Attr(AttrsRead(x)[k], x.attrs[k + 1])
<1> DEFINE N == Len(x.attrs)
           item == AttrsRead(x)
<1>1. item = [k \in 0..N |-> IF k = 0 THEN Start(x) ELSE Attr(item[k - 1], x.attrs[k])]
  BY AttrsReadDef DEF Reads
<1> HIDE DEF item
<1>2. item[0] = Start(x)
  BY <1>1
<1>3. ASSUME NEW k \in 0..(N - 1)
      PROVE  item[k + 1] = Attr(item[k], x.attrs[k + 1])
  <2>1. k + 1 \in 0..N /\ k + 1 # 0 /\ (k + 1) - 1 = k
    OBVIOUS
  <2> QED
    BY <1>1, <2>1
<1> QED
  BY <1>2, <1>3 DEF item

-----------------------------------------------------------------------------
\* The items that Parse may have while it reads the attributes of x.
Partly(x) == [title : {x.title}, size : Int, seeders : Int, leechers : Int,
              magnetUrl : {None}, downloadUrl : {None}]

(* A number as strconv reads it is an int.                                  *)
LEMMA AtoiInt == \A v \in Int \cup {Garbage} : atoiSafe(v) \in Int
BY FeedsAssumption DEF atoiSafe

(* What one attribute does to an item, case by case.                        *)
LEMMA AttrCases ==
  ASSUME NEW x, NEW it \in Partly(x), NEW a \in Attribute
  PROVE  /\ Attr(it, a) \in Partly(x)
         /\ Attr(it, a).seeders = IF a.name = "seeders" THEN atoiSafe(a.value) ELSE it.seeders
         /\ Attr(it, a).leechers =
              IF a.name = "leechers" \/ (a.name = "peers" /\ it.leechers = 0)
              THEN atoiSafe(a.value) ELSE it.leechers
         /\ Attr(it, a).size =
              IF a.name = "size" /\ it.size = 0 THEN atoiSafe(a.value) ELSE it.size
<1>1. atoiSafe(a.value) \in Int
  BY AtoiInt DEF Attribute
<1>2. CASE a.name = "seeders"
  BY <1>1, <1>2 DEF Attr, Partly
<1>3. CASE a.name = "leechers"
  BY <1>1, <1>3 DEF Attr, Partly
<1>4. CASE a.name = "peers"
  BY <1>1, <1>4 DEF Attr, Partly
<1>5. CASE a.name = "size"
  BY <1>1, <1>5 DEF Attr, Partly
<1>6. CASE a.name \notin {"seeders", "leechers", "peers", "size"}
  BY <1>6 DEF Attr, Partly
<1> QED
  BY <1>2, <1>3, <1>4, <1>5, <1>6

(* The loop leaves the links alone, for the switch after it.                *)
LEMMA AttrsTyped ==
  ASSUME NEW x, x.attrs \in Seq(Attribute), x.size \in Int
  PROVE  AttrsRead(x)[Len(x.attrs)] \in Partly(x)
<1> DEFINE N == Len(x.attrs)
           item == AttrsRead(x)
           S == {k \in 0..N : item[k] \in Partly(x)}
<1>0. N \in Nat /\ \A k \in 1..N : x.attrs[k] \in Attribute
  OBVIOUS
<1>1. 0 \in S
  <2>1. item[0] = Start(x)
    BY <1>0, AttrsReadSteps
  <2> QED
    BY <1>0, <2>1 DEF Start, Partly
<1>2. ASSUME NEW k \in 0..(N - 1), k \in S
      PROVE  k + 1 \in S
  <2>1. item[k + 1] = Attr(item[k], x.attrs[k + 1]) /\ x.attrs[k + 1] \in Attribute
    BY <1>0, AttrsReadSteps
  <2>2. item[k + 1] \in Partly(x)
    <3> HIDE DEF item
    <3> QED
      BY <1>2, <2>1, AttrCases
  <2> QED
    BY <1>0, <2>2
<1>3. \A k \in 0..(N - 1) : k \in S => k + 1 \in S
  BY <1>2
<1> HIDE DEF S, N
<1>4. \A k \in 0..N : k \in S
  BY <1>0, <1>1, <1>3, UpTo
<1>5. N \in 0..N
  BY <1>0
<1> QED
  BY <1>4, <1>5 DEF S, N

\* What Stated and Standing are when the first k attributes are read.
Called(x, k, name) == {j \in 1..k : x.attrs[j].name = name}
StandingIn(x, k) ==
  {j \in Called(x, k, "peers") :
     \A l \in Called(x, k, "leechers") : l < j /\ Value(x, l) = 0}
Leeching(x, k) ==
  IF StandingIn(x, k) # {} THEN StandingIn(x, k) ELSE Called(x, k, "leechers")

\* What is true of the numbers of x once its first k attributes are read.
Counted(x, it, k) ==
  /\ it \in Partly(x)
  /\ it.seeders \in Told(x, Called(x, k, "seeders"))
  /\ it.leechers \in Told(x, Leeching(x, k))
  /\ x.size # 0 => it.size = x.size
  /\ x.size = 0 => it.size \in Told(x, Called(x, k, "size"))

(* After each attribute, the numbers are those that the attributes so far   *)
(* state, as long as each of them is stated once.                           *)
LEMMA AttrsCounted ==
  ASSUME NEW x, x.attrs \in Seq(Attribute), x.size \in Int, StatedOnce(x)
  PROVE  Counted(x, AttrsRead(x)[Len(x.attrs)], Len(x.attrs))
<1> DEFINE N == Len(x.attrs)
           item == AttrsRead(x)
           S == {k \in 0..N : Counted(x, item[k], k)}
<1>0. N \in Nat /\ DOMAIN x.attrs = 1..N /\ \A k \in 1..N : x.attrs[k] \in Attribute
  OBVIOUS
<1>1. 0 \in S
  <2>1. item[0] = Start(x)
    BY <1>0, AttrsReadSteps
  <2>2. \A name : Called(x, 0, name) = {}
    BY DEF Called
  <2>3. Counted(x, Start(x), 0)
    BY <2>2 DEF Counted, Partly, Start, Told, Leeching, StandingIn
  <2> QED
    BY <1>0, <2>1, <2>3
<1>2. ASSUME NEW k \in 0..(N - 1), k \in S
      PROVE  k + 1 \in S
  <2> DEFINE it == item[k]
             a == x.attrs[k + 1]
             new == Attr(it, a)
  <2>1. Counted(x, it, k) /\ it \in Partly(x)
    BY <1>2 DEF Counted
  <2>2. a \in Attribute /\ k + 1 \in 1..N
    BY <1>0
  <2>3. item[k + 1] = new
    BY <1>0, AttrsReadSteps
  <2>4. \A name : Called(x, k + 1, name) =
                     Called(x, k, name) \cup {j \in {k + 1} : a.name = name}
    BY DEF Called
  <2>5. \A name \in {"seeders", "leechers", "peers", "size"} :
          a.name = name => Called(x, k, name) = {}
    BY <1>0, <2>2 DEF Called, StatedOnce, Stated
  <2>6. atoiSafe(a.value) = Value(x, k + 1)
    BY DEF Value
  <2>7. atoiSafe(a.value) \in Int
    BY <2>2, AtoiInt DEF Attribute
  <2> HIDE DEF item, S
  <2>8. /\ new \in Partly(x)
        /\ new.seeders = IF a.name = "seeders" THEN Value(x, k + 1) ELSE it.seeders
        /\ new.leechers = IF a.name = "leechers" \/ (a.name = "peers" /\ it.leechers = 0)
                          THEN Value(x, k + 1) ELSE it.leechers
        /\ new.size = IF a.name = "size" /\ it.size = 0 THEN Value(x, k + 1) ELSE it.size
    BY <2>1, <2>2, <2>6, AttrCases
  <2> HIDE DEF new, a
  <2>9. it.leechers \in Int /\ it.size \in Int
    BY <2>1 DEF Partly
  <2> HIDE DEF it
  <2>10. new.seeders \in Told(x, Called(x, k + 1, "seeders"))
    BY <2>1, <2>4, <2>5, <2>8 DEF Counted, Told
  <2>11. new.leechers \in Told(x, Leeching(x, k + 1))
    <3> DEFINE L == Called(x, k, "leechers")
               P == Called(x, k, "peers")
    <3>1. /\ it.leechers \in Told(x, Leeching(x, k))
          /\ L \subseteq 1..k /\ P \subseteq 1..k /\ k \in Nat
          /\ \A j, l \in L : j = l
      BY <1>0, <2>1, SMTT(20) DEF Counted, Called, StatedOnce, Stated
    <3>2. CASE a.name = "leechers"
      <4>1. L = {} /\ Called(x, k + 1, "leechers") = {k + 1} /\ Called(x, k + 1, "peers") = P
        BY <2>4, <2>5, <3>2
      <4>2. StandingIn(x, k + 1) = {}
        <5>1. \A j \in P : ~(k + 1 < j)
          BY <3>1
        <5>2. k + 1 \in Called(x, k + 1, "leechers")
          BY <4>1
        <5> HIDE DEF L, P
        <5> QED
          BY <4>1, <5>1, <5>2 DEF StandingIn
      <4> QED
        BY <2>8, <3>2, <4>1, <4>2 DEF Leeching, Told
    <3>3. CASE a.name = "peers"
      <4>1. P = {} /\ Called(x, k + 1, "peers") = {k + 1} /\ Called(x, k + 1, "leechers") = L
        BY <2>4, <2>5, <3>3
      <4>2. it.leechers \in Told(x, L)
        BY <3>1, <4>1 DEF Leeching, StandingIn
      <4>3. CASE it.leechers = 0
        <5>1. \A l \in L : l < k + 1 /\ Value(x, l) = 0
          BY <3>1, <4>2, <4>3 DEF Told
        <5>2. StandingIn(x, k + 1) = {k + 1}
          BY <4>1, <5>1 DEF StandingIn
        <5> QED
          BY <2>8, <3>3, <4>3, <5>2 DEF Leeching, Told
      <4>4. CASE it.leechers # 0
        <5>1. \E l \in L : Value(x, l) # 0
          BY <4>2, <4>4 DEF Told
        <5>2. StandingIn(x, k + 1) = {}
          BY <4>1, <5>1 DEF StandingIn
        <5> QED
          BY <2>8, <3>3, <4>1, <4>2, <4>4, <5>2 DEF Leeching
      <4> QED
        BY <4>3, <4>4
    <3>4. CASE a.name \notin {"leechers", "peers"}
      <4>1. Called(x, k + 1, "leechers") = L /\ Called(x, k + 1, "peers") = P
        BY <2>4, <3>4
      <4>2. Leeching(x, k + 1) = Leeching(x, k)
        BY <4>1 DEF Leeching, StandingIn
      <4> QED
        BY <2>8, <3>1, <3>4, <4>2
    <3> QED
      BY <3>2, <3>3, <3>4
  <2>12. x.size # 0 => new.size = x.size
    BY <2>1, <2>8 DEF Counted
  <2>13. x.size = 0 => new.size \in Told(x, Called(x, k + 1, "size"))
    BY <2>1, <2>4, <2>5, <2>8 DEF Counted, Told
  <2>14. Counted(x, new, k + 1)
    BY <2>8, <2>10, <2>11, <2>12, <2>13 DEF Counted
  <2> QED
    BY <1>0, <2>3, <2>14 DEF S, item, new
<1>3. \A k \in 0..(N - 1) : k \in S => k + 1 \in S
  BY <1>2
<1> HIDE DEF S, N
<1>4. \A k \in 0..N : k \in S
  BY <1>0, <1>1, <1>3, UpTo
<1>5. N \in 0..N
  BY <1>0
<1> QED
  BY <1>4, <1>5 DEF S, N

-----------------------------------------------------------------------------
\* The items of a feed that was decoded.
Decoded(f) == \A i \in DOMAIN f : Sound(f[i])

\* What is on offer is what was read from the feed.
OffersRead ==
  /\ feed \in Feed
  /\ offers # None =>
       /\ Decoded(feed) => DOMAIN offers = DOMAIN feed
       /\ \A i \in DOMAIN offers :
            /\ i \in DOMAIN feed /\ Sound(feed[i])
            /\ offers[i] = releaseJSON(Item(feed[i]))

(* The search offers the items it decodes, and an import changes no offer.  *)
LEMMA OffersAreRead == Spec => []OffersRead
<1>1. Init => OffersRead
  BY DEF Init, OffersRead
<1>2. OffersRead /\ [Next]_vars => OffersRead'
  <2> SUFFICES ASSUME OffersRead, [Next]_vars
               PROVE  OffersRead'
    OBVIOUS
  <2>1. CASE SearchReleases
    <3> DEFINE items == Decode(feed)
    <3>1. offers' = [i \in DOMAIN items |-> releaseJSON(items[i])] /\ feed' = feed
      BY <2>1 DEF SearchReleases
    <3>2. CASE Decoded(feed)
      <4>1. items = [i \in DOMAIN feed |-> Item(feed[i])]
        BY <3>2 DEF Decode, Decoded
      <4> HIDE DEF items
      <4>2. DOMAIN offers' = DOMAIN feed
        BY <3>1, <4>1
      <4>3. \A i \in DOMAIN offers' : offers'[i] = releaseJSON(Item(feed[i]))
        BY <3>1, <4>1
      <4> QED
        BY <3>1, <3>2, <4>2, <4>3 DEF OffersRead, Decoded
    <3>3. CASE ~Decoded(feed)
      <4>1. items = <<>>
        BY <3>3 DEF Decode, Decoded
      <4> HIDE DEF items
      <4>2. DOMAIN offers' = {}
        BY <3>1, <4>1
      <4> QED
        BY <3>1, <3>3, <4>2 DEF OffersRead, Decoded
    <3> QED
      BY <3>2, <3>3
  <2>2. CASE UNCHANGED <<feed, offers>>
    BY <2>2 DEF OffersRead, Decoded
  <2> QED
    BY <2>1, <2>2 DEF Next, Import, Relocate, Reimport, vars
<1> QED
  BY <1>1, <1>2, PTL DEF Spec

(* A sound item has numbers to be read.                                     *)
LEMMA SoundItem ==
  ASSUME NEW f \in Feed, NEW i \in DOMAIN f, Sound(f[i])
  PROVE  f[i].attrs \in Seq(Attribute) /\ f[i].size \in Int /\ f[i].enclosure.length \in Int
BY FeedAssumption DEF Sound

(* The links end the item, and keep the numbers that are there.             *)
LEMMA LinksKeep ==
  ASSUME NEW x, NEW it \in Partly(x), x.enclosure.length \in Int
  PROVE  /\ Links(it, x).seeders = it.seeders /\ Links(it, x).leechers = it.leechers
         /\ Links(it, x).size = IF it.size # 0 THEN it.size ELSE EnclosureLength(x)
         /\ Links(it, x).magnetUrl = IF x.link \in Magnet THEN x.link ELSE None
         /\ Links(it, x).downloadUrl = IF x.link \in Magnet THEN None
                                       ELSE IF x.enclosure.url # None THEN x.enclosure.url
                                       ELSE x.link
         /\ DOMAIN Links(it, x) = DOMAIN it
<1>1. CASE x.link \in Magnet
  BY <1>1 DEF Links, Partly, EnclosureLength
<1>2. CASE x.link \notin Magnet /\ x.enclosure.url # None
  BY <1>2 DEF Links, Partly, EnclosureLength
<1>3. CASE x.link \notin Magnet /\ x.enclosure.url = None
  BY <1>3 DEF Links, Partly, EnclosureLength
<1> QED
  BY <1>1, <1>2, <1>3

(* The numbers and links of an item are offered as they were read.          *)
LEMMA OfferFields ==
  ASSUME NEW f \in Feed, NEW i \in DOMAIN f, Sound(f[i])
  PROVE  LET x == f[i]
             it == AttrsRead(x)[Len(x.attrs)]
             offer == releaseJSON(Item(x))
         IN  /\ it \in Partly(x)
             /\ offer.seeders = it.seeders /\ offer.leechers = it.leechers
             /\ offer.size = IF it.size # 0 THEN it.size ELSE EnclosureLength(x)
             /\ offer.magnetUrl = IF x.link \in Magnet THEN x.link ELSE None
             /\ offer.downloadUrl = IF x.link \in Magnet THEN None
                                    ELSE IF x.enclosure.url # None THEN x.enclosure.url
                                    ELSE x.link
             /\ offer.guid = IF offer.magnetUrl # None THEN offer.magnetUrl
                             ELSE IF offer.downloadUrl # None THEN offer.downloadUrl
                             ELSE offer.title
<1> DEFINE x == f[i]
           it == AttrsRead(x)[Len(x.attrs)]
<1>1. it \in Partly(x)
  BY SoundItem, AttrsTyped
<1>2. x.enclosure.length \in Int
  BY SoundItem
<1> HIDE DEF it, x
<1>3. releaseJSON(Links(it, x)).guid = Guid(Links(it, x))
  BY DEF releaseJSON
<1> QED
  BY <1>1, <1>2, LinksKeep DEF releaseJSON, Guid, Item, it, x

-----------------------------------------------------------------------------
(* For every feed: an offer with a link carries exactly one address, its    *)
(* own, and a feed that can be decoded loses no item.                       *)
THEOREM EveryOfferUsable == Spec => []OffersUsable
<1>1. OffersRead => OffersUsable
  <2> SUFFICES ASSUME OffersRead
               PROVE  OffersUsable
    OBVIOUS
  <2>1. ASSUME NEW i \in Offered
        PROVE  LET links == {feed[i].link, feed[i].enclosure.url} \ {None}
                   urls == {offers[i].magnetUrl, offers[i].downloadUrl} \ {None}
               IN  links # {} =>
                     /\ offers[i].magnetUrl = None \/ offers[i].downloadUrl = None
                     /\ urls = {offers[i].guid} /\ urls \subseteq links
    <3> DEFINE x == feed[i]
               offer == offers[i]
    <3>1. feed \in Feed /\ i \in DOMAIN feed /\ Sound(x) /\ offer = releaseJSON(Item(x))
      BY <2>1 DEF OffersRead, Offered
    <3>2. /\ offer.magnetUrl = IF x.link \in Magnet THEN x.link ELSE None
          /\ offer.downloadUrl = IF x.link \in Magnet THEN None
                                 ELSE IF x.enclosure.url # None THEN x.enclosure.url
                                 ELSE x.link
          /\ offer.guid = IF offer.magnetUrl # None THEN offer.magnetUrl
                          ELSE IF offer.downloadUrl # None THEN offer.downloadUrl
                          ELSE offer.title
      BY <3>1, OfferFields
    <3> HIDE DEF x, offer
    <3> QED
      BY <3>2, FeedsAssumption DEF x, offer
  <2>2. offers # None /\ (\A i \in DOMAIN feed : Sound(feed[i])) => Offered = DOMAIN feed
    BY DEF OffersRead, Offered, Decoded
  <2> QED
    BY <2>1, <2>2 DEF OffersUsable
<1> QED
  BY <1>1, OffersAreRead, PTL

(* For every feed whose items state each number once: seeders, leechers and *)
(* size are those that CountsKept names, for any number of attributes in    *)
(* any order.                                                               *)
THEOREM NumbersKept ==
  ASSUME \A f \in Feed : \A i \in DOMAIN f : StatedOnce(f[i])
  PROVE  Spec => []CountsKept
<1>1. OffersRead => CountsKept
  <2> SUFFICES ASSUME OffersRead, NEW i \in Offered
               PROVE  LET x == feed[i]
                          sizes == Told(x, Stated(x, "size"))
                      IN  /\ offers[i].seeders \in Told(x, Stated(x, "seeders"))
                          /\ offers[i].leechers \in
                               Told(x, IF Standing(x) # {} THEN Standing(x) ELSE Stated(x, "leechers"))
                          /\ offers[i].size \in
                               IF x.size # 0 THEN {x.size}
                               ELSE IF sizes # {0} THEN sizes ELSE {EnclosureLength(x)}
    BY DEF CountsKept
  <2> DEFINE x == feed[i]
             offer == offers[i]
             N == Len(x.attrs)
             it == AttrsRead(x)[N]
  <2>1. feed \in Feed /\ i \in DOMAIN feed /\ Sound(x) /\ offer = releaseJSON(Item(x))
    BY DEF OffersRead, Offered
  <2>2. x.attrs \in Seq(Attribute) /\ x.size \in Int
    BY <2>1, SoundItem
  <2>3. Counted(x, it, N)
    BY <2>1, <2>2, AttrsCounted
  <2>4. /\ offer.seeders = it.seeders /\ offer.leechers = it.leechers
        /\ offer.size = IF it.size # 0 THEN it.size ELSE EnclosureLength(x)
    BY <2>1, OfferFields
  <2>5. \A name : Stated(x, name) = Called(x, N, name)
    BY <2>2 DEF Stated, Called
  <2>6. \A j, k \in Stated(x, "size") : j = k
    BY <2>1 DEF StatedOnce
  <2> HIDE DEF x, offer, it, N
  <2>7. Standing(x) = StandingIn(x, N)
    BY <2>5 DEF Standing, StandingIn
  <2>8. offer.seeders \in Told(x, Stated(x, "seeders"))
    BY <2>3, <2>4, <2>5 DEF Counted
  <2>9. offer.leechers \in Told(x, IF Standing(x) # {} THEN Standing(x) ELSE Stated(x, "leechers"))
    BY <2>3, <2>4, <2>5, <2>7 DEF Counted, Leeching
  <2>10. x.size # 0 => offer.size = x.size
    BY <2>3, <2>4 DEF Counted
  <2>11. CASE x.size = 0
    <3>1. it.size \in Told(x, Stated(x, "size"))
      BY <2>3, <2>5, <2>11 DEF Counted
    <3>2. Told(x, Stated(x, "size")) = {it.size}
      BY <2>6, <3>1 DEF Told
    <3> QED
      BY <2>4, <2>8, <2>9, <2>11, <3>2 DEF x, offer
  <2>12. CASE x.size # 0
    BY <2>8, <2>9, <2>10, <2>12 DEF x, offer
  <2> QED
    BY <2>11, <2>12
<1> QED
  BY <1>1, OffersAreRead, PTL

-----------------------------------------------------------------------------

\* g holds what a loop makes of base in its first m rounds.
Rounds(g, m, V, base, step) ==
  /\ g \in [0..m -> V]
  /\ g[0] = base
  /\ \A k \in 1..m : g[k] = step[k][g[k - 1]]

(* A loop of n rounds is well defined.                                      *)
LEMMA Recursion ==
  ASSUME NEW n \in Nat, NEW V, NEW base \in V, NEW step \in [1..n -> [V -> V]]
  PROVE  \E g : Rounds(g, n, V, base, step)
<1> DEFINE S == {m \in 0..n : \E g : Rounds(g, m, V, base, step)}
<1>1. 0 \in S
  <2> DEFINE g == [k \in 0..0 |-> base]
  <2>1. Rounds(g, 0, V, base, step)
    BY DEF Rounds
  <2> QED
    BY <2>1
<1>2. ASSUME NEW m \in 0..(n - 1), m \in S
      PROVE  m + 1 \in S
  <2>1. PICK g : Rounds(g, m, V, base, step)
    BY <1>2
  <2> DEFINE v == step[m + 1][g[m]]
             h == [k \in 0..(m + 1) |-> IF k = m + 1 THEN v ELSE g[k]]
  <2>2. v \in V
    <3>1. m + 1 \in 1..n /\ g[m] \in V
      BY <2>1 DEF Rounds
    <3>2. step[m + 1] \in [V -> V]
      BY <3>1
    <3> QED
      BY <3>1, <3>2
  <2>3. h \in [0..(m + 1) -> V] /\ h[0] = base
    BY <2>1, <2>2 DEF Rounds
  <2>4. ASSUME NEW k \in 1..(m + 1)
        PROVE  h[k] = step[k][h[k - 1]]
    <3>1. CASE k = m + 1
      BY <3>1
    <3>2. CASE k # m + 1
      <4>1. k \in 1..m /\ h[k] = g[k] /\ h[k - 1] = g[k - 1]
        BY <3>2
      <4> QED
        BY <2>1, <4>1 DEF Rounds
    <3> QED
      BY <3>1, <3>2
  <2>5. Rounds(h, m + 1, V, base, step)
    <3> HIDE DEF h
    <3> QED
      BY <2>3, <2>4 DEF Rounds
  <2> QED
    BY <2>5
<1>3. \A m \in 0..(n - 1) : m \in S => m + 1 \in S
  BY <1>2
<1> HIDE DEF S
<1>4. \A m \in 0..n : m \in S
  BY <1>1, <1>3, UpTo
<1>5. n \in S
  BY <1>4
<1> QED
  BY <1>5 DEF S

LEMMA ConcatRange ==
  ASSUME NEW X, NEW s \in Seq(X), NEW t \in Seq(X)
  PROVE  s \o t \in Seq(X) /\ Range(s \o t) = Range(s) \cup Range(t)
<1>1. /\ s \o t \in Seq(X)
      /\ DOMAIN (s \o t) = 1..(Len(s) + Len(t))
      /\ \A k \in DOMAIN s : (s \o t)[k] = s[k]
      /\ \A k \in DOMAIN t : Len(s) + k \in DOMAIN (s \o t) /\ (s \o t)[Len(s) + k] = t[k]
      /\ DOMAIN s = 1..Len(s) /\ DOMAIN t = 1..Len(t)
      /\ Len(s) \in Nat /\ Len(t) \in Nat
  OBVIOUS
<1>2. \A k \in DOMAIN (s \o t) : k \in DOMAIN s \/ (k - Len(s) \in DOMAIN t /\ k = Len(s) + (k - Len(s)))
  BY <1>1
<1>3. Range(s \o t) \subseteq Range(s) \cup Range(t)
  BY <1>1, <1>2 DEF Range
<1>4. Range(s) \subseteq Range(s \o t)
  BY <1>1 DEF Range
<1>5. Range(t) \subseteq Range(s \o t)
  <2> SUFFICES ASSUME NEW k \in DOMAIN t
               PROVE  t[k] \in Range(s \o t)
    BY DEF Range
  <2> QED
    BY <1>1 DEF Range
<1> QED
  BY <1>1, <1>3, <1>4, <1>5

\* The lexemes of some tokens.
Parts(tokens) == UNION {Range(tokens[i]) : i \in DOMAIN tokens}

\* f holds the first q[1] \o ... \o q[k] under each k.
Flat(f, q) == f = [i \in 1..Len(q) |-> IF i = 1 THEN q[i] ELSE f[i - 1] \o q[i]]

(* The loop of FlattenSeq is well defined.                                  *)
LEMMA FlattenDef ==
  ASSUME NEW X, NEW q \in Seq(Seq(X)), q # <<>>
  PROVE  \E f : Flat(f, q) /\ FlattenSeq(q) = f[Len(q)]
<1> DEFINE n == Len(q)
           step == [k \in 1..n |-> [v \in Seq(X) |-> v \o q[k]]]
<1>0. n \in Nat \ {0} /\ DOMAIN q = 1..n /\ \A i \in 1..n : q[i] \in Seq(X)
  BY EmptySeq, LenProperties, ElementOfSeq
<1>1. step \in [1..n -> [Seq(X) -> Seq(X)]]
  BY <1>0, ConcatProperties
<1>2. <<>> \in Seq(X)
  OBVIOUS
<1> HIDE DEF step, n
<1>3. PICK g : Rounds(g, n, Seq(X), <<>>, step)
  BY <1>0, <1>1, <1>2, Recursion
<1>4. g \in [0..n -> Seq(X)] /\ g[0] = <<>>
  BY <1>3 DEF Rounds
<1>5. ASSUME NEW k \in 1..n
      PROVE  g[k] = g[k - 1] \o q[k]
  <2>1. k - 1 \in 0..n
    BY <1>0
  <2>2. g[k - 1] \in Seq(X)
    BY <1>4, <2>1
  <2>3. g[k] = step[k][g[k - 1]]
    BY <1>3 DEF Rounds
  <2> QED
    BY <2>2, <2>3 DEF step
<1> DEFINE h == [i \in 1..n |-> g[i]]
<1>6. ASSUME NEW i \in 1..n
      PROVE  h[i] = IF i = 1 THEN q[i] ELSE h[i - 1] \o q[i]
  <2>1. CASE i = 1
    <3>1. q[i] \in Seq(X) /\ g[i] = g[i - 1] \o q[i]
      BY <1>0, <1>5
    <3>2. <<>> \o q[i] = q[i]
      BY <3>1, ConcatEmptySeq
    <3>3. i - 1 = 0
      BY <2>1
    <3> QED
      BY <1>4, <2>1, <3>1, <3>2, <3>3
  <2>2. CASE i # 1
    <3>1. i - 1 \in 1..n
      BY <1>0, <2>2
    <3> QED
      BY <1>5, <2>2, <3>1
  <2> QED
    BY <2>1, <2>2
<1>7. h = [i \in 1..n |-> h[i]]
  OBVIOUS
<1> HIDE DEF h
<1>8. Flat(h, q)
  BY <1>6, <1>7 DEF Flat, n
<1>9. FlattenSeq(q) = (CHOOSE f : Flat(f, q))[Len(q)]
  BY <1>0 DEF FlattenSeq, Flat, n
<1> QED
  BY <1>8, <1>9

(* FlattenSeq strings its arguments together.                               *)
LEMMA Flattened ==
  ASSUME NEW X, NEW q \in Seq(Seq(X))
  PROVE  FlattenSeq(q) \in Seq(X) /\ Range(FlattenSeq(q)) = Parts(q)
<1> DEFINE n == Len(q)
<1>0. n \in Nat /\ DOMAIN q = 1..n /\ \A i \in 1..n : q[i] \in Seq(X)
  BY LenProperties, ElementOfSeq
<1>1. CASE q = <<>>
  <2>1. FlattenSeq(q) = <<>>
    BY <1>1 DEF FlattenSeq
  <2>2. Range(<<>>) = {} /\ Parts(<<>>) = {} /\ <<>> \in Seq(X)
    BY EmptySeq DEF Parts, Range
  <2> QED
    BY <1>1, <2>1, <2>2
<1>2. CASE q # <<>>
  <2>0. n # 0
    BY <1>2, EmptySeq
  <2>1. PICK f : Flat(f, q) /\ FlattenSeq(q) = f[n]
    BY <1>2, FlattenDef
  <2> DEFINE U(k) == UNION {Range(q[i]) : i \in 1..k}
             S == {k \in 0..n : k # 0 => f[k] \in Seq(X) /\ Range(f[k]) = U(k)}
  <2>2. 0 \in S
    BY <1>0
  <2>3. ASSUME NEW k \in 0..(n - 1), k \in S
        PROVE  k + 1 \in S
    <3>0. k + 1 \in 1..n /\ q[k + 1] \in Seq(X)
      BY <1>0
    <3>1. CASE k = 0
      <4>1. f[1] = q[1]
        BY <2>1, <3>0, <3>1 DEF Flat
      <4>2. U(1) = Range(q[1])
        OBVIOUS
      <4> QED
        BY <1>0, <3>0, <3>1, <4>1, <4>2
    <3>2. CASE k # 0
      <4>1. f[k + 1] = f[k] \o q[k + 1]
        <5>1. k + 1 # 1 /\ (k + 1) - 1 = k
          BY <3>2
        <5>2. f[k + 1] = IF k + 1 = 1 THEN q[k + 1] ELSE f[(k + 1) - 1] \o q[k + 1]
          BY <2>1, <3>0 DEF Flat
        <5> QED
          BY <5>1, <5>2
      <4>2. f[k] \in Seq(X) /\ Range(f[k]) = U(k)
        BY <2>3, <3>2
      <4>3. f[k + 1] \in Seq(X) /\ Range(f[k + 1]) = U(k) \cup Range(q[k + 1])
        BY <3>0, <4>1, <4>2, ConcatRange
      <4>4. U(k + 1) = U(k) \cup Range(q[k + 1])
        <5>1. \A i : i \in 1..(k + 1) <=> i \in 1..k \/ i = k + 1
          BY <3>0, <3>2
        <5> QED
          BY <5>1
      <4>5. k + 1 \in 0..n
        BY <1>0, <3>0
      <4> HIDE DEF U
      <4> QED
        BY <4>3, <4>4, <4>5
    <3> QED
      BY <3>1, <3>2
  <2>4. n \in S
    <3>1. \A k \in 0..(n - 1) : k \in S => k + 1 \in S
      BY <2>3
    <3> HIDE DEF S, n
    <3>2. \A k \in 0..n : k \in S
      BY <1>0, <2>2, <3>1, UpTo
    <3> QED
      BY <1>0, <3>2
  <2>5. U(n) = Parts(q)
    BY <1>0 DEF Parts
  <2> QED
    BY <2>0, <2>1, <2>4, <2>5
<1> QED
  BY <1>1, <1>2

(* The least and the greatest of some positions.                            *)
LEMMA MinMax ==
  ASSUME NEW n \in Nat, NEW I \in SUBSET (1..n), I # {}
  PROVE  /\ Min(I) \in I /\ \A i \in I : Min(I) <= i
         /\ Max(I) \in I /\ \A i \in I : i <= Max(I)
<1> DEFINE S == {k \in 0..n : (\E i \in I : i <= k) => \E i \in I : \A j \in I : i <= j}
           T == {k \in 0..n : (\E i \in I : n - k < i) => \E i \in I : \A j \in I : i >= j}
<1>1. 0 \in S /\ 0 \in T
  OBVIOUS
<1>2. ASSUME NEW k \in 0..(n - 1), k \in S
      PROVE  k + 1 \in S
  BY <1>2
<1>3. ASSUME NEW k \in 0..(n - 1), k \in T
      PROVE  k + 1 \in T
  BY <1>3
<1>4. n \in S /\ n \in T
  <2>1. \A k \in 0..(n - 1) : (k \in S => k + 1 \in S) /\ (k \in T => k + 1 \in T)
    BY <1>2, <1>3
  <2> HIDE DEF S, T
  <2>2. \A k \in 0..n : k \in S
    BY <1>1, <2>1, UpTo
  <2>3. \A k \in 0..n : k \in T
    BY <1>1, <2>1, UpTo
  <2> QED
    BY <2>2, <2>3
<1>5. (\E i \in I : i <= n) /\ (\E i \in I : n - n < i)
  <2>1. PICK i \in I : TRUE
    OBVIOUS
  <2>2. i \in 1..n
    OBVIOUS
  <2>3. i <= n /\ n - n < i
    BY <2>2
  <2> QED
    BY <2>3
<1>6. \E i \in I : \A j \in I : i <= j
  BY <1>4, <1>5
<1>7. \E i \in I : \A j \in I : i >= j
  BY <1>4, <1>5
<1> HIDE DEF S, T
<1>8. Min(I) \in I /\ \A j \in I : Min(I) <= j
  BY <1>6 DEF Min
<1>9. Max(I) \in I /\ \A j \in I : Max(I) >= j
  BY <1>7 DEF Max
<1> QED
  BY <1>8, <1>9

LEMMA SubSeqRange ==
  ASSUME NEW X, NEW s \in Seq(X), NEW m \in Int, NEW n \in Int, m >= 1, n <= Len(s)
  PROVE  /\ SubSeq(s, m, n) \in Seq(X)
         /\ Len(SubSeq(s, m, n)) = IF m <= n THEN n - m + 1 ELSE 0
         /\ \A i \in 1..(n - m + 1) : SubSeq(s, m, n)[i] = s[m + i - 1]
         /\ Range(SubSeq(s, m, n)) = {s[k] : k \in m..n}
<1>1. \A k \in m..n : k \in 1..Len(s)
  BY LenProperties
<1>2. \A k \in m..n : s[k] \in X
  BY <1>1, ElementOfSeq
<1>3. /\ SubSeq(s, m, n) \in Seq(X)
      /\ Len(SubSeq(s, m, n)) = IF m <= n THEN n - m + 1 ELSE 0
      /\ \A i \in 1..(n - m + 1) : SubSeq(s, m, n)[i] = s[m + i - 1]
  BY <1>2, SubSeqProperties
<1> DEFINE t == SubSeq(s, m, n)
<1> HIDE DEF t
<1>4. DOMAIN t = 1..(n - m + 1) /\ \A i \in 1..(n - m + 1) : t[i] = s[m + i - 1]
  <2>1. DOMAIN t = 1..Len(t)
    BY <1>3, LenProperties DEF t
  <2> QED
    BY <1>3, <2>1 DEF t
<1>5. Range(t) = {s[k] : k \in m..n}
  <2>1. ASSUME NEW i \in DOMAIN t
        PROVE  t[i] \in {s[k] : k \in m..n}
    BY <1>4
  <2>2. ASSUME NEW k \in m..n
        PROVE  s[k] \in Range(t)
    <3>1. k - m + 1 \in DOMAIN t /\ t[k - m + 1] = s[m + (k - m + 1) - 1]
      BY <1>4
    <3>2. m + (k - m + 1) - 1 = k
      OBVIOUS
    <3> QED
      BY <3>1, <3>2 DEF Range
  <2> QED
    BY <2>1, <2>2 DEF Range
<1> QED
  BY <1>3, <1>5 DEF t

(* TrimSpace leaves the words, and none of the spaces in front of them.     *)
LEMMA TrimKeeps ==
  ASSUME NEW X, NEW s \in Seq(X)
  PROVE  /\ Trim(s) \in Seq(X)
         /\ Range(Trim(s)) \subseteq Range(s)
         /\ Range(s) \subseteq Range(Trim(s)) \cup {Space}
         /\ Trim(s) # <<>> => Trim(s)[1] # Space
<1> DEFINE I == {i \in 1..Len(s) : s[i] # Space}
<1>0. Len(s) \in Nat /\ DOMAIN s = 1..Len(s)
  BY LenProperties
<1>1. CASE I = {}
  <2>1. Trim(s) = <<>>
    BY <1>1 DEF Trim, SelectInSeq
  <2>2. Range(<<>>) = {} /\ <<>> \in Seq(X)
    BY EmptySeq DEF Range
  <2> QED
    BY <1>0, <1>1, <2>1, <2>2 DEF Range
<1>2. CASE I # {}
  <2>1. I \in SUBSET (1..Len(s))
    OBVIOUS
  <2>2. /\ Min(I) \in I /\ Max(I) \in I
        /\ \A i \in I : Min(I) <= i /\ i <= Max(I)
    <3> HIDE DEF I
    <3> QED
      BY <1>0, <1>2, <2>1, MinMax
  <2>3. Trim(s) = SubSeq(s, Min(I), Max(I))
    <3>1. SelectInSeq(s, LAMBDA x : x # Space) = Min(I)
      BY <1>2 DEF SelectInSeq
    <3>2. SelectLastInSeq(s, LAMBDA x : x # Space) = Max(I)
      BY <1>2 DEF SelectLastInSeq
    <3> HIDE DEF I
    <3>3. Min(I) # 0
      BY <2>1, <2>2
    <3> QED
      BY <3>1, <3>2, <3>3 DEF Trim
  <2>4. /\ \A k \in 1..Len(s) : s[k] = Space \/ k \in I
        /\ \A k \in I : s[k] # Space
    OBVIOUS
  <2> HIDE DEF I
  <2>5. PICK lo \in 1..Len(s), hi \in 1..Len(s) :
          /\ Trim(s) = SubSeq(s, lo, hi) /\ \A i \in I : lo <= i /\ i <= hi
          /\ s[lo] # Space /\ lo <= hi
    BY <2>1, <2>2, <2>3, <2>4
  <2>7. /\ SubSeq(s, lo, hi) \in Seq(X) /\ Range(SubSeq(s, lo, hi)) = {s[k] : k \in lo..hi}
        /\ SubSeq(s, lo, hi)[1] = s[lo]
    <3>1. lo \in Int /\ hi \in Int /\ lo >= 1 /\ hi <= Len(s)
      BY <1>0
    <3>2. 1 \in 1..(hi - lo + 1) /\ lo + 1 - 1 = lo
      BY <2>5
    <3> QED
      BY <3>1, <3>2, SubSeqRange
  <2>8. \A k \in lo..hi : k \in 1..Len(s)
    BY <1>0
  <2>9. \A k \in 1..Len(s) : s[k] = Space \/ k \in lo..hi
    <3> SUFFICES ASSUME NEW k \in 1..Len(s), s[k] # Space
                 PROVE  k \in lo..hi
      OBVIOUS
    <3>1. lo <= k /\ k <= hi
      BY <2>4, <2>5
    <3> QED
      BY <1>0, <3>1
  <2>10. Range(s) = {s[k] : k \in 1..Len(s)}
    BY <1>0 DEF Range
  <2> QED
    BY <2>5, <2>7, <2>8, <2>9, <2>10
<1> QED
  BY <1>1, <1>2

-----------------------------------------------------------------------------
\* The tokens after character k, given those before it.
NextFields(s, k, before) ==
  IF s[k] = Space THEN before
  ELSE IF k = 1 \/ s[k - 1] = Space THEN Append(before, <<s[k]>>)
  ELSE [before EXCEPT ![Len(before)] = Append(@, s[k])]

\* f holds the tokens of the first k characters under each k.
FieldsOf(f, s) ==
  f = [k \in 0..Len(s) |-> IF k = 0 THEN <<>> ELSE NextFields(s, k, f[k - 1])]

LEMMA NextFieldsType ==
  ASSUME NEW X, NEW s \in Seq(X), NEW k \in 1..Len(s), NEW v \in Seq(Seq(X))
  PROVE  /\ NextFields(s, k, v) \in Seq(Seq(X))
         /\ s[k] # Space /\ (k = 1 \/ s[k - 1] = Space) =>
              /\ NextFields(s, k, v) # <<>>
              /\ Parts(NextFields(s, k, v)) = Parts(v) \cup {s[k]}
         /\ s[k] # Space /\ ~(k = 1 \/ s[k - 1] = Space) /\ v # <<>> =>
              /\ NextFields(s, k, v) # <<>>
              /\ Parts(NextFields(s, k, v)) = Parts(v) \cup {s[k]}
<1>0. s[k] \in X /\ Len(v) \in Nat /\ DOMAIN v = 1..Len(v) /\ \A i \in 1..Len(v) : v[i] \in Seq(X)
  BY ElementOfSeq, LenProperties
<1>1. CASE s[k] = Space
  BY <1>1 DEF NextFields
<1>2. CASE s[k] # Space /\ (k = 1 \/ s[k - 1] = Space)
  <2> DEFINE t == <<s[k]>>
  <2>1. NextFields(s, k, v) = Append(v, t)
    BY <1>2 DEF NextFields
  <2>2. t \in Seq(X) /\ Range(t) = {s[k]}
    BY <1>0 DEF Range
  <2> HIDE DEF t
  <2>3. /\ Append(v, t) \in Seq(Seq(X)) /\ Append(v, t) # <<>>
        /\ DOMAIN Append(v, t) = 1..(Len(v) + 1)
        /\ \A i \in 1..Len(v) : Append(v, t)[i] = v[i]
        /\ Append(v, t)[Len(v) + 1] = t
    <3>1. /\ Append(v, t) \in Seq(Seq(X)) /\ Append(v, t) # <<>>
          /\ Len(Append(v, t)) = Len(v) + 1
          /\ \A i \in 1..Len(v) : Append(v, t)[i] = v[i]
          /\ Append(v, t)[Len(v) + 1] = t
      BY <2>2, AppendProperties
    <3> QED
      BY <3>1, LenProperties
  <2>4. Parts(Append(v, t)) = Parts(v) \cup Range(t)
    <3>1. \A i : i \in 1..(Len(v) + 1) <=> i \in 1..Len(v) \/ i = Len(v) + 1
      BY <1>0
    <3> QED
      BY <1>0, <2>3, <3>1 DEF Parts
  <2> QED
    BY <1>2, <2>1, <2>2, <2>3, <2>4
<1>3. CASE s[k] # Space /\ ~(k = 1 \/ s[k - 1] = Space)
  <2> DEFINE t == Append(v[Len(v)], s[k])
  <2>1. NextFields(s, k, v) = [v EXCEPT ![Len(v)] = t]
    BY <1>3 DEF NextFields
  <2>2. CASE v = <<>>
    <3>1. [v EXCEPT ![Len(v)] = t] = <<>>
      BY <2>2
    <3> QED
      BY <1>3, <2>1, <2>2, <3>1
  <2>3. CASE v # <<>>
    <3>1. Len(v) \in 1..Len(v)
      BY <1>0, <2>3, EmptySeq
    <3>2. t \in Seq(X) /\ Range(t) = Range(v[Len(v)]) \cup {s[k]}
      <4> DEFINE p == v[Len(v)]
                 q == <<s[k]>>
      <4>1. p \in Seq(X) /\ q \in Seq(X) /\ Range(q) = {s[k]}
        BY <1>0, <3>1 DEF Range
      <4>2. t = p \o q
        BY <1>0, <4>1, AppendIsConcat
      <4> HIDE DEF t, p, q
      <4>3. p \o q \in Seq(X) /\ Range(p \o q) = Range(p) \cup Range(q)
        BY <4>1, ConcatRange
      <4> QED
        BY <4>1, <4>2, <4>3 DEF p
    <3> HIDE DEF t
    <3> DEFINE w == [v EXCEPT ![Len(v)] = t]
    <3>3. w \in Seq(Seq(X)) /\ Len(w) = Len(v)
      BY <3>1, <3>2, ExceptSeq
    <3>4. DOMAIN w = 1..Len(v) /\ w[Len(v)] = t /\ \A i \in 1..Len(v) : i # Len(v) => w[i] = v[i]
      BY <1>0, <3>1
    <3> HIDE DEF w
    <3>5. Parts(w) = Parts(v) \cup {s[k]}
      BY <1>0, <3>1, <3>2, <3>4 DEF Parts
    <3>6. w # <<>>
      BY <3>1, <3>3
    <3> QED
      BY <1>3, <2>1, <3>3, <3>5, <3>6 DEF w
  <2> QED
    BY <2>2, <2>3
<1> QED
  BY <1>1, <1>2, <1>3

(* The loop of Fields is well defined.                                      *)
LEMMA FieldsDef ==
  ASSUME NEW X, NEW s \in Seq(X)
  PROVE  \E f \in [0..Len(s) -> Seq(Seq(X))] : FieldsOf(f, s) /\ Fields(s) = f[Len(s)]
<1> DEFINE n == Len(s)
           V == Seq(Seq(X))
           step == [k \in 1..n |-> [v \in V |-> NextFields(s, k, v)]]
<1>0. n \in Nat
  BY LenProperties
<1>1. step \in [1..n -> [V -> V]]
  BY NextFieldsType
<1>2. <<>> \in V
  OBVIOUS
<1>3. \A k \in 1..n : \A v \in V : step[k][v] = NextFields(s, k, v)
  OBVIOUS
<1> HIDE DEF step, V, n
<1>4. PICK g : Rounds(g, n, V, <<>>, step)
  BY <1>0, <1>1, <1>2, Recursion
<1>5. g \in [0..n -> V] /\ g[0] = <<>>
  BY <1>4 DEF Rounds
<1>6. \A k \in 1..n : g[k] = NextFields(s, k, g[k - 1])
  <2> SUFFICES ASSUME NEW k \in 1..n
               PROVE  g[k] = NextFields(s, k, g[k - 1])
    OBVIOUS
  <2>1. k - 1 \in 0..n
    BY <1>0
  <2>2. g[k - 1] \in V
    BY <1>5, <2>1
  <2>3. g[k] = step[k][g[k - 1]]
    BY <1>4 DEF Rounds
  <2> QED
    BY <1>3, <2>2, <2>3
<1>7. FieldsOf(g, s)
  <2>1. g = [k \in 0..n |-> IF k = 0 THEN <<>> ELSE NextFields(s, k, g[k - 1])]
    <3>1. \A k \in 0..n : g[k] = IF k = 0 THEN <<>> ELSE NextFields(s, k, g[k - 1])
      BY <1>0, <1>5, <1>6
    <3> QED
      BY <1>5, <3>1
  <2> QED
    BY <2>1 DEF FieldsOf, n
<1>8. PICK f : f = (CHOOSE h : FieldsOf(h, s)) /\ FieldsOf(f, s) /\ Fields(s) = f[n]
  BY <1>7 DEF Fields, FieldsOf, NextFields, n
<1>9. f = g
  <2> DEFINE S == {k \in 0..n : f[k] = g[k]}
  <2>1. f = [k \in 0..n |-> IF k = 0 THEN <<>> ELSE NextFields(s, k, f[k - 1])]
    BY <1>8 DEF FieldsOf, n
  <2>2. f[0] = <<>> /\ \A k \in 1..n : f[k] = NextFields(s, k, f[k - 1])
    BY <1>0, <2>1
  <2>3. 0 \in S
    BY <1>0, <1>5, <2>2
  <2>4. ASSUME NEW k \in 0..(n - 1), k \in S
        PROVE  k + 1 \in S
    <3>1. k + 1 \in 1..n /\ (k + 1) - 1 = k /\ k + 1 \in 0..n
      BY <1>0
    <3>2. f[k + 1] = NextFields(s, k + 1, f[k]) /\ g[k + 1] = NextFields(s, k + 1, g[k])
      BY <1>6, <2>2, <3>1
    <3> QED
      BY <2>4, <3>1, <3>2
  <2>5. \A k \in 0..(n - 1) : k \in S => k + 1 \in S
    BY <2>4
  <2> HIDE DEF S
  <2>6. \A k \in 0..n : k \in S
    BY <1>0, <2>3, <2>5, UpTo
  <2>7. DOMAIN f = 0..n /\ f = [k \in 0..n |-> f[k]]
    BY <2>1
  <2> QED
    BY <1>5, <2>6, <2>7 DEF S
<1> QED
  BY <1>5, <1>8, <1>9 DEF n, V

\* f[k] are the tokens of the first k characters.
FieldsIn(f, X, s) ==
  /\ f \in [0..Len(s) -> Seq(Seq(X))]
  /\ f[0] = <<>> /\ f[Len(s)] = Fields(s)
  /\ \A k \in 1..Len(s) : /\ f[k] = NextFields(s, k, f[k - 1])
                          /\ s[k] # Space => f[k] # <<>>

(* The loop of Fields, round by round.                                      *)
LEMMA FieldsSteps ==
  ASSUME NEW X, NEW s \in Seq(X)
  PROVE  \E f : FieldsIn(f, X, s)
<1> DEFINE n == Len(s)
<1>0. n \in Nat
  BY LenProperties
<1>1. PICK f \in [0..n -> Seq(Seq(X))] : FieldsOf(f, s) /\ Fields(s) = f[n]
  BY FieldsDef
<1>2. f[0] = <<>> /\ \A k \in 1..n : f[k] = NextFields(s, k, f[k - 1])
  BY <1>0, <1>1 DEF FieldsOf
<1> DEFINE S == {k \in 0..n : k # 0 /\ s[k] # Space => f[k] # <<>>}
<1>3. 0 \in S
  BY <1>0
<1>4. ASSUME NEW k \in 0..(n - 1), k \in S
      PROVE  k + 1 \in S
  <2>1. k + 1 \in 1..n /\ (k + 1) - 1 = k /\ k + 1 \in 0..n /\ k \in 0..n
    BY <1>0
  <2>2. f[k] \in Seq(Seq(X)) /\ f[k + 1] = NextFields(s, k + 1, f[k])
    BY <1>1, <1>2, <2>1
  <2>3. k # 0 /\ s[k] # Space => f[k] # <<>>
    BY <1>4
  <2>4. CASE s[k + 1] = Space
    BY <2>1, <2>4
  <2>5. CASE s[k + 1] # Space
    <3>1. k + 1 = 1 \/ s[(k + 1) - 1] = Space \/ (~(k + 1 = 1 \/ s[(k + 1) - 1] = Space) /\ f[k] # <<>>)
      BY <2>1, <2>3
    <3>2. f[k + 1] # <<>>
      BY <2>1, <2>2, <2>5, <3>1, NextFieldsType
    <3> QED
      BY <2>1, <3>2
  <2> QED
    BY <2>4, <2>5
<1>5. \A k \in 0..n : k \in S
  <2>1. \A k \in 0..(n - 1) : k \in S => k + 1 \in S
    BY <1>4
  <2> HIDE DEF S, n
  <2> QED
    BY <1>0, <1>3, <2>1, UpTo
<1>6. \A k \in 1..n : s[k] # Space => f[k] # <<>>
  BY <1>0, <1>5
<1> QED
  BY <1>1, <1>2, <1>6 DEF FieldsIn

(* Fields drops the spaces and keeps all the rest.                          *)
LEMMA FieldsWords ==
  ASSUME NEW X, NEW s \in Seq(X)
  PROVE  Fields(s) \in Seq(Seq(X)) /\ Parts(Fields(s)) = Range(s) \ {Space}
<1> DEFINE n == Len(s)
           read(k) == {s[i] : i \in 1..k} \ {Space}
<1>0. n \in Nat /\ DOMAIN s = 1..n
  BY LenProperties
<1>1. PICK f : FieldsIn(f, X, s)
  BY FieldsSteps
<1>2. /\ f \in [0..n -> Seq(Seq(X))] /\ f[0] = <<>> /\ f[n] = Fields(s)
      /\ \A k \in 1..n : f[k] = NextFields(s, k, f[k - 1]) /\ (s[k] # Space => f[k] # <<>>)
  BY <1>1 DEF FieldsIn
<1> DEFINE S == {k \in 0..n : Parts(f[k]) = read(k)}
<1>3. 0 \in S
  <2>1. Parts(<<>>) = {} /\ read(0) = {}
    BY DEF Parts
  <2> QED
    BY <1>0, <1>2, <2>1
<1>4. ASSUME NEW k \in 0..(n - 1), k \in S
      PROVE  k + 1 \in S
  <2>1. k + 1 \in 1..n /\ (k + 1) - 1 = k /\ k + 1 \in 0..n /\ k \in 0..n
    BY <1>0
  <2>2. f[k] \in Seq(Seq(X)) /\ f[k + 1] = NextFields(s, k + 1, f[k])
    BY <1>2, <2>1
  <2>3. Parts(f[k]) = read(k) /\ (k # 0 /\ s[k] # Space => f[k] # <<>>)
    <3>1. k # 0 => k \in 1..n
      BY <1>0
    <3> QED
      BY <1>2, <1>4, <3>1
  <2>4. read(k + 1) = read(k) \cup ({s[k + 1]} \ {Space})
    <3>1. \A i : i \in 1..(k + 1) <=> i \in 1..k \/ i = k + 1
      BY <1>0
    <3> QED
      BY <3>1
  <2> HIDE DEF read
  <2>5. CASE s[k + 1] = Space
    <3>1. f[k + 1] = f[k]
      BY <2>2, <2>5 DEF NextFields
    <3> QED
      BY <2>1, <2>3, <2>4, <2>5, <3>1
  <2>6. CASE s[k + 1] # Space
    <3>1. k + 1 = 1 \/ s[(k + 1) - 1] = Space \/ (~(k + 1 = 1 \/ s[(k + 1) - 1] = Space) /\ f[k] # <<>>)
      BY <2>1, <2>3
    <3>2. f[k + 1] # <<>> /\ Parts(f[k + 1]) = Parts(f[k]) \cup {s[k + 1]}
      BY <2>1, <2>2, <2>6, <3>1, NextFieldsType
    <3> QED
      BY <2>1, <2>3, <2>4, <2>6, <3>2
  <2> QED
    BY <2>5, <2>6
<1>5. n \in S
  <2>1. \A k \in 0..(n - 1) : k \in S => k + 1 \in S
    BY <1>4
  <2> HIDE DEF S, n
  <2>2. \A k \in 0..n : k \in S
    BY <1>0, <1>3, <2>1, UpTo
  <2> QED
    BY <1>0, <2>2
<1>6. read(n) = Range(s) \ {Space}
  BY <1>0 DEF Range
<1> QED
  BY <1>0, <1>2, <1>5, <1>6

(* What is changed at the end of the second part is changed at the end.     *)
LEMMA EndOfConcat ==
  ASSUME NEW X, NEW u \in Seq(X), NEW v \in Seq(X), NEW e \in X
  PROVE  v # <<>> => /\ (u \o v)[Len(u \o v)] = v[Len(v)]
                     /\ [u \o v EXCEPT ![Len(u \o v)] = e] = u \o [v EXCEPT ![Len(v)] = e]
<1> DEFINE n == Len(u)
           m == Len(v)
           w == u \o v
<1>1. n \in Nat /\ m \in Nat
  BY LenProperties
<1>2. /\ w \in Seq(X) /\ Len(w) = n + m
      /\ \A i \in 1..(n + m) : w[i] = IF i <= n THEN u[i] ELSE v[i - n]
  BY ConcatProperties
<1>3. ASSUME v # <<>>
      PROVE  /\ w[Len(w)] = v[m]
             /\ [w EXCEPT ![Len(w)] = e] = u \o [v EXCEPT ![m] = e]
  <2> DEFINE a == [w EXCEPT ![n + m] = e]
             b == [v EXCEPT ![m] = e]
             c == u \o b
  <2> HIDE DEF n, m, w
  <2>1. m \in 1..m /\ n + m \in 1..(n + m) /\ ~(n + m <= n) /\ (n + m) - n = m
    <3>1. m # 0
      BY <1>3, EmptySeq DEF m
    <3> QED
      BY <1>1, <3>1
  <2>2. w[n + m] = v[m]
    BY <1>2, <2>1
  <2>3. /\ a \in Seq(X) /\ Len(a) = n + m
        /\ \A j \in 1..(n + m) : a[j] = IF j = n + m THEN e ELSE w[j]
    <3>1. n + m \in 1..Len(w)
      BY <1>2, <2>1
    <3> QED
      BY <1>2, <3>1, ExceptSeq
  <2>4. /\ b \in Seq(X) /\ Len(b) = m
        /\ \A j \in 1..m : b[j] = IF j = m THEN e ELSE v[j]
    <3>1. m \in 1..Len(v)
      BY <2>1 DEF m
    <3>2. /\ b \in Seq(X) /\ Len(b) = Len(v)
          /\ \A j \in 1..Len(v) : b[j] = IF j = m THEN e ELSE v[j]
      BY <3>1, ExceptSeq
    <3> QED
      BY <3>2 DEF m
  <2> HIDE DEF a, b
  <2>5. /\ c \in Seq(X) /\ Len(c) = n + m
        /\ \A j \in 1..(n + m) : c[j] = IF j <= n THEN u[j] ELSE b[j - n]
    <3>1. /\ c \in Seq(X) /\ Len(c) = Len(u) + Len(b)
          /\ \A j \in 1..(Len(u) + Len(b)) : c[j] = IF j <= Len(u) THEN u[j] ELSE b[j - Len(u)]
      BY <2>4, ConcatProperties
    <3> QED
      BY <2>4, <3>1 DEF n
  <2> HIDE DEF c
  <2>6. ASSUME NEW j \in 1..(n + m)
        PROVE  a[j] = c[j]
    <3>1. CASE j <= n
      <4>1. j # n + m
        BY <1>1, <2>1, <3>1
      <4> QED
        BY <1>2, <2>3, <2>5, <3>1, <4>1
    <3>2. CASE ~(j <= n)
      <4>1. j - n \in 1..m /\ (j - n = m <=> j = n + m)
        BY <1>1, <3>2
      <4> QED
        BY <1>2, <2>3, <2>4, <2>5, <3>2, <4>1
    <3> QED
      BY <3>1, <3>2
  <2>7. a = c
    BY <2>3, <2>5, <2>6, SeqEqual
  <2> QED
    BY <1>2, <2>2, <2>7 DEF a, b, c
<1> QED
  BY <1>3

\* The tokens after one more character, given the one before it.
Extend(v, last, c) ==
  IF c = Space THEN v
  ELSE IF last = Space THEN Append(v, <<c>>) ELSE [v EXCEPT ![Len(v)] = Append(@, c)]

(* A character does not touch the tokens before the last.                   *)
LEMMA ExtendAfter ==
  ASSUME NEW X, NEW before \in Seq(Seq(X)), NEW v \in Seq(Seq(X)), NEW last, NEW c \in X,
         c # Space /\ last # Space => v # <<>>
  PROVE  Extend(before \o v, last, c) = before \o Extend(v, last, c)
<1>0. \A e \in Seq(X) :
        /\ Append(before \o v, e) = before \o Append(v, e)
        /\ v # <<>> =>
             /\ (before \o v)[Len(before \o v)] = v[Len(v)]
             /\ [before \o v EXCEPT ![Len(before \o v)] = e] = before \o [v EXCEPT ![Len(v)] = e]
  <2> DEFINE Y == Seq(X)
  <2>1. before \in Seq(Y) /\ v \in Seq(Y)
    OBVIOUS
  <2> HIDE DEF Y
  <2>2. ASSUME NEW e \in Y
        PROVE  /\ Append(before \o v, e) = before \o Append(v, e)
               /\ v # <<>> =>
                    /\ (before \o v)[Len(before \o v)] = v[Len(v)]
                    /\ [before \o v EXCEPT ![Len(before \o v)] = e] = before \o [v EXCEPT ![Len(v)] = e]
    <3>1. Append(before \o v, e) = before \o Append(v, e)
      <4>1. <<e>> \in Seq(Y) /\ Append(v, e) = v \o <<e>>
        BY ONLY <2>1, e \in Y, AppendIsConcat
      <4>2. before \o v \in Seq(Y)
        BY ONLY <2>1, ConcatProperties
      <4>3. Append(before \o v, e) = (before \o v) \o <<e>>
        BY ONLY <4>2, e \in Y, AppendIsConcat
      <4>4. (before \o v) \o <<e>> = before \o (v \o <<e>>)
        BY ONLY <2>1, <4>1, ConcatAssociative, SMTT(20)
      <4> QED
        BY <4>1, <4>3, <4>4
    <3>2. ASSUME v # <<>> PROVE (before \o v)[Len(before \o v)] = v[Len(v)]
      BY ONLY <2>1, <3>2, e \in Y, EndOfConcat
    <3>3. ASSUME v # <<>> PROVE [before \o v EXCEPT ![Len(before \o v)] = e] = before \o [v EXCEPT ![Len(v)] = e]
      BY ONLY <2>1, <3>3, e \in Y, EndOfConcat
    <3> QED
      BY <3>1, <3>2, <3>3
  <2> QED
    BY <2>2 DEF Y
<1>1. CASE c = Space
  BY <1>1 DEF Extend
<1>2. CASE c # Space /\ last = Space
  <2>1. <<c>> \in Seq(X)
    OBVIOUS
  <2>2. Append(before \o v, <<c>>) = before \o Append(v, <<c>>)
    BY <1>0, <2>1
  <2> QED
    BY <1>2, <2>2 DEF Extend
<1>3. CASE c # Space /\ last # Space
  <2> DEFINE w == before \o v
             e == Append(v[Len(v)], c)
  <2>1. v # <<>>
    BY <1>3
  <2>2. Len(v) \in 1..Len(v)
    BY <2>1, EmptySeq
  <2>3. v[Len(v)] \in Seq(X)
    BY <2>2, ElementOfSeq
  <2>4. e \in Seq(X)
    BY <2>3, AppendProperties
  <2>5. w[Len(w)] = v[Len(v)]
    BY <1>0, <2>1, <2>4
  <2>6. [w EXCEPT ![Len(w)] = e] = before \o [v EXCEPT ![Len(v)] = e]
    BY <1>0, <2>1, <2>4, Zenon
  <2>7. Extend(w, last, c) = [w EXCEPT ![Len(w)] = Append(w[Len(w)], c)]
    BY <1>3 DEF Extend
  <2>8. Extend(v, last, c) = [v EXCEPT ![Len(v)] = Append(v[Len(v)], c)]
    BY <1>3 DEF Extend
  <2> HIDE DEF w
  <2>9. Extend(w, last, c) = before \o Extend(v, last, c)
    BY <2>5, <2>6, <2>7, <2>8
  <2> QED
    BY <2>9 DEF w
<1> QED
  BY <1>1, <1>2, <1>3

(* A space ends a token: what comes before it and what comes after it are   *)
(* divided each for itself.                                                 *)
LEMMA FieldsSplit ==
  ASSUME NEW X, NEW s \in Seq(X), NEW a \in Seq(X), NEW b \in Seq(X),
         Len(s) = Len(a) + 1 + Len(b), s[Len(a) + 1] = Space,
         \A k \in 1..Len(a) : s[k] = a[k], \A k \in 1..Len(b) : s[Len(a) + 1 + k] = b[k]
  PROVE  Fields(s) = Fields(a) \o Fields(b)
<1> DEFINE n == Len(a)
           m == Len(b)
<1>0. n \in Nat /\ m \in Nat
  BY LenProperties
<1>1. /\ Len(s) = n + 1 + m /\ s[n + 1] = Space
      /\ \A k \in 1..n : s[k] = a[k]
      /\ \A k \in 1..m : s[n + 1 + k] = b[k]
  OBVIOUS
<1>2. PICK f : FieldsIn(f, X, a)
  BY FieldsSteps
<1>3. PICK g : FieldsIn(g, X, b)
  BY FieldsSteps
<1>4. PICK h : FieldsIn(h, X, s)
  BY FieldsSteps
<1>5. /\ f \in [0..n -> Seq(Seq(X))] /\ f[0] = <<>> /\ f[n] = Fields(a)
      /\ \A k \in 1..n : f[k] = NextFields(a, k, f[k - 1]) /\ (a[k] # Space => f[k] # <<>>)
  BY <1>2 DEF FieldsIn
<1>6. /\ g \in [0..m -> Seq(Seq(X))] /\ g[0] = <<>> /\ g[m] = Fields(b)
      /\ \A k \in 1..m : g[k] = NextFields(b, k, g[k - 1]) /\ (b[k] # Space => g[k] # <<>>)
  BY <1>3 DEF FieldsIn
<1>7. /\ h[0] = <<>> /\ h[n + 1 + m] = Fields(s)
      /\ \A k \in 1..(n + 1 + m) : h[k] = NextFields(s, k, h[k - 1])
  BY <1>1, <1>4 DEF FieldsIn
<1> HIDE DEF n, m
<1>8. h[n] = f[n]
  <2> DEFINE S == {k \in 0..n : h[k] = f[k]}
  <2>1. 0 \in S
    BY <1>0, <1>5, <1>7
  <2>2. ASSUME NEW k \in 0..(n - 1), k \in S
        PROVE  k + 1 \in S
    <3>1. /\ k + 1 \in 1..n /\ k + 1 \in 1..(n + 1 + m) /\ (k + 1) - 1 = k /\ k + 1 \in 0..n
          /\ k + 1 # 1 => k \in 1..n
      BY <1>0
    <3>2. h[k + 1] = NextFields(s, k + 1, h[k]) /\ f[k + 1] = NextFields(a, k + 1, f[k])
      BY <1>5, <1>7, <3>1
    <3>3. s[k + 1] = a[k + 1] /\ (k + 1 # 1 => s[(k + 1) - 1] = a[(k + 1) - 1])
      BY <1>1, <3>1
    <3>4. h[k] = f[k]
      BY <2>2
    <3>5. h[k + 1] = f[k + 1]
      BY <3>2, <3>3, <3>4, Zenon DEF NextFields
    <3> QED
      BY <3>1, <3>5
  <2>3. \A k \in 0..(n - 1) : k \in S => k + 1 \in S
    BY <2>2
  <2> HIDE DEF S
  <2>4. \A k \in 0..n : k \in S
    BY <1>0, <2>1, <2>3, UpTo
  <2>5. n \in S
    BY <1>0, <2>4
  <2> QED
    BY <2>5 DEF S
<1>9. h[n + 1] = f[n]
  <2>1. n + 1 \in 1..(n + 1 + m) /\ (n + 1) - 1 = n
    BY <1>0
  <2>2. h[n + 1] = NextFields(s, n + 1, h[n])
    BY <1>7, <2>1
  <2> QED
    BY <1>1, <1>8, <2>2 DEF NextFields
<1>10. h[n + 1 + m] = f[n] \o g[m]
  <2> DEFINE before == f[n]
             S == {k \in 0..m : h[n + 1 + k] = before \o g[k]}
  <2>0. before \in Seq(Seq(X))
    BY <1>0, <1>5
  <2>1. 0 \in S
    <3>1. n + 1 + 0 = n + 1 /\ 0 \in 0..m
      BY <1>0
    <3>2. before \o g[0] = before
      BY <1>6, <2>0, ConcatEmptySeq
    <3> QED
      BY <1>9, <3>1, <3>2
  <2> HIDE DEF before
  <2>2. ASSUME NEW k \in 0..(m - 1), k \in S
        PROVE  k + 1 \in S
    <3> DEFINE i == n + 1 + (k + 1)
               v == g[k]
    <3>1. /\ k + 1 \in 1..m /\ (k + 1) - 1 = k /\ k \in 0..m /\ k + 1 \in 0..m
          /\ i \in 1..(n + 1 + m) /\ i - 1 = n + 1 + k /\ i # 1
          /\ k # 0 => k \in 1..m
          /\ k + 1 = 1 <=> k = 0
      BY <1>0
    <3>2. h[i] = NextFields(s, i, before \o v) /\ g[k + 1] = NextFields(b, k + 1, v)
      BY <1>6, <1>7, <2>2, <3>1
    <3>3. s[i] = b[k + 1] /\ (k = 0 => s[n + 1 + k] = Space) /\ (k # 0 => s[n + 1 + k] = b[k])
      <4>1. s[n + 1 + (k + 1)] = b[k + 1]
        BY <1>1, <3>1
      <4>2. k = 0 => n + 1 + k = n + 1
        BY <1>0
      <4> QED
        BY <1>1, <3>1, <4>1, <4>2
    <3>4. v \in Seq(Seq(X)) /\ b[k + 1] \in X
      <4>1. Len(b) \in Nat /\ k + 1 \in 1..Len(b)
        BY <1>0, <3>1 DEF m
      <4> QED
        BY <1>6, <3>1, <4>1, ElementOfSeq
    <3>5. k # 0 /\ b[k] # Space => v # <<>>
      BY <1>6, <3>1
    <3>6. i = 1 \/ s[i - 1] = Space <=> k + 1 = 1 \/ b[(k + 1) - 1] = Space
      BY <3>1, <3>3
    <3>7. b[k + 1] # Space /\ ~(k + 1 = 1 \/ b[(k + 1) - 1] = Space) => v # <<>>
      BY <3>1, <3>5
    <3>8. s[i] = b[k + 1]
      BY <3>3
    <3> DEFINE j == k + 1
    <3> HIDE DEF i, v, j
    <3>9. NextFields(s, i, before \o v) = before \o NextFields(b, j, v)
      <4> DEFINE c == b[j]
                 last == IF j = 1 THEN Space ELSE b[j - 1]
      <4>1. NextFields(b, j, v) = Extend(v, last, c)
        BY Zenon DEF NextFields, Extend
      <4>2. NextFields(s, i, before \o v) = Extend(before \o v, last, c)
        <5>1. last = Space <=> (i = 1 \/ s[i - 1] = Space)
          BY <3>6 DEF j
        <5>2. c = s[i]
          BY <3>8 DEF j
        <5> HIDE DEF c, last
        <5> QED
          BY <5>1, <5>2, Zenon DEF NextFields, Extend
      <4>3. c \in X /\ (c # Space /\ last # Space => v # <<>>)
        BY <3>4, <3>7 DEF j
      <4> HIDE DEF c, last
      <4>4. Extend(before \o v, last, c) = before \o Extend(v, last, c)
        BY <2>0, <3>4, <4>3, ExtendAfter, SMTT(20)
      <4> QED
        BY <4>1, <4>2, <4>4
    <3>10. h[i] = before \o g[k + 1]
      BY <3>2, <3>9 DEF j
    <3> QED
      BY <3>1, <3>10 DEF i
  <2>3. \A k \in 0..(m - 1) : k \in S => k + 1 \in S
    BY <2>2
  <2> HIDE DEF S
  <2>4. \A k \in 0..m : k \in S
    BY <1>0, <2>1, <2>3, UpTo
  <2>5. m \in S
    BY <1>0, <2>4
  <2> QED
    BY <2>5 DEF S, before
<1> QED
  BY <1>5, <1>6, <1>7, <1>10

(* Without a space there is one token, or none.                             *)
LEMMA FieldsOne ==
  ASSUME NEW X, NEW s \in Seq(X), \A k \in 1..Len(s) : s[k] # Space
  PROVE  Fields(s) = IF s = <<>> THEN <<>> ELSE <<s>>
<1> DEFINE n == Len(s)
<1>0. n \in Nat
  BY LenProperties
<1>1. PICK f : FieldsIn(f, X, s)
  BY FieldsSteps
<1>2. \A k \in 1..n : s[k] # Space /\ s[k] \in X
  BY ElementOfSeq
<1>3. s = <<>> => n = 0
  BY EmptySeq
<1>4. s # <<>> => n >= 1 /\ n \in 1..n
  BY EmptySeq
<1>5. /\ f \in [0..n -> Seq(Seq(X))] /\ f[0] = <<>> /\ f[n] = Fields(s)
      /\ \A k \in 1..n : f[k] = NextFields(s, k, f[k - 1])
  BY <1>1 DEF FieldsIn
<1> HIDE DEF n
<1> DEFINE read(k) == SubSeq(s, 1, k)
           S == {k \in 0..n : k # 0 => f[k] = <<read(k)>>}
<1>6. 0 \in S
  BY <1>0
<1>7. ASSUME NEW k \in 0..(n - 1), k \in S
      PROVE  k + 1 \in S
  <2>1. k + 1 \in 1..n /\ (k + 1) - 1 = k /\ k + 1 \in 0..n /\ k \in 0..n
    BY <1>0
  <2>2. f[k + 1] = NextFields(s, k + 1, f[k]) /\ s[k + 1] # Space /\ s[k + 1] \in X
    BY <1>2, <1>5, <2>1
  <2>3. CASE k = 0
    <3>1. f[k + 1] = Append(<<>>, <<s[k + 1]>>)
      <4>1. f[k] = <<>> /\ k + 1 = 1
        BY <1>5, <2>3
      <4> QED
        BY <2>2, <4>1 DEF NextFields
    <3>2. read(k + 1) = <<s[k + 1]>>
      <4>1. read(1) \in Seq(X) /\ Len(read(1)) = 1 /\ read(1)[1] = s[1]
        <5>1. 1 \in Int /\ \A i \in 1..1 : s[i] \in X
          BY <2>2, <2>3
        <5> QED
          BY <5>1, SubSeqProperties
      <4> HIDE DEF read
      <4>2. \A q \in Seq(X) : Len(q) = 1 => q = <<q[1]>>
        OBVIOUS
      <4>3. read(1) = <<s[1]>>
        BY <4>1, <4>2
      <4> QED
        BY <2>3, <4>3
    <3> HIDE DEF read
    <3>3. f[k + 1] = <<read(k + 1)>>
      BY <3>1, <3>2
    <3> QED
      BY <2>1, <3>3
  <2>4. CASE k # 0
    <3>1. f[k] = <<read(k)>> /\ s[k] # Space
      BY <1>2, <1>7, <2>1, <2>4
    <3>2. f[k + 1] = [f[k] EXCEPT ![Len(f[k])] = Append(f[k][Len(f[k])], s[k + 1])]
      BY <2>1, <2>2, <2>4, <3>1 DEF NextFields
    <3>3. Append(read(k), s[k + 1]) = read(k + 1)
      <4>1. Len(s) \in Nat /\ k \in 0..(Len(s) - 1) /\ s \in Seq(X)
        BY <1>0 DEF n
      <4> QED
        BY ONLY <4>1
    <3> HIDE DEF read
    <3>4. f[k + 1] = <<read(k + 1)>>
      BY <3>1, <3>2, <3>3, SMTT(20)
    <3> QED
      BY <2>1, <3>4
  <2> QED
    BY <2>3, <2>4
<1>8. n \in S
  <2>1. \A k \in 0..(n - 1) : k \in S => k + 1 \in S
    BY <1>7
  <2> HIDE DEF S
  <2>2. \A k \in 0..n : k \in S
    BY <1>0, <1>6, <2>1, UpTo
  <2> QED
    BY <1>0, <2>2
<1>9. CASE s = <<>>
  BY <1>3, <1>5, <1>9
<1>10. CASE s # <<>>
  <2>1. read(n) = s
    BY <1>0, SubSeqFull DEF n
  <2>2. n # 0 => f[n] = <<read(n)>>
    BY <1>8
  <2> HIDE DEF read
  <2>3. Fields(s) = <<s>>
    BY <1>0, <1>4, <1>5, <1>10, <2>1, <2>2
  <2> QED
    BY <1>10, <2>3, Zenon
<1> QED
  BY <1>9, <1>10

(* The same in the rest of a name, from lo on.                              *)
LEMMA FieldsTail ==
  ASSUME NEW X, NEW s \in Seq(X), NEW lo \in 1..Len(s), NEW i \in lo..Len(s), s[i] = Space,
         NEW a \in Seq(X), Len(a) = i - lo, \A k \in 1..(i - lo) : s[lo + k - 1] = a[k]
  PROVE  Fields(SubSeq(s, lo, Len(s))) = Fields(a) \o Fields(SubSeq(s, i + 1, Len(s)))
<1> DEFINE N == Len(s)
           t == SubSeq(s, lo, N)
           b == SubSeq(s, i + 1, N)
<1>0. N \in Nat
  BY LenProperties
<1>1. /\ t \in Seq(X) /\ Len(t) = N - lo + 1
      /\ \A k \in 1..(N - lo + 1) : t[k] = s[lo + k - 1]
  <2>1. lo \in Int /\ N \in Int /\ lo >= 1 /\ N <= Len(s) /\ lo <= N
    BY <1>0
  <2> QED
    BY <2>1, SubSeqRange
<1>2. /\ b \in Seq(X) /\ Len(b) = N - i
      /\ \A k \in 1..(N - i) : b[k] = s[i + k]
  <2>1. i + 1 \in Int /\ N \in Int /\ i + 1 >= 1 /\ N <= Len(s) /\ i <= N
    BY <1>0
  <2>2. /\ b \in Seq(X)
        /\ Len(b) = IF i + 1 <= N THEN N - (i + 1) + 1 ELSE 0
        /\ \A k \in 1..(N - (i + 1) + 1) : b[k] = s[(i + 1) + k - 1]
    BY <2>1, SubSeqRange
  <2> HIDE DEF N, b
  <2>3. Len(b) = N - i
    BY <1>0, <2>1, <2>2
  <2>4. \A k \in 1..(N - i) : k \in 1..(N - (i + 1) + 1) /\ (i + 1) + k - 1 = i + k
    BY <1>0
  <2> QED
    BY <2>2, <2>3, <2>4
<1> HIDE DEF t, b
<1>3. Len(t) = Len(a) + 1 + Len(b)
  BY <1>0, <1>1, <1>2
<1>4. t[Len(a) + 1] = Space
  <2>1. i - lo + 1 \in 1..(N - lo + 1) /\ lo + (i - lo + 1) - 1 = i
    BY <1>0
  <2> HIDE DEF N
  <2> QED
    BY <1>1, <2>1
<1>5. \A k \in 1..Len(a) : t[k] = a[k]
  <2>1. \A k \in 1..(i - lo) : k \in 1..(N - lo + 1)
    BY <1>0
  <2> HIDE DEF N
  <2> QED
    BY <1>1, <2>1
<1>6. ASSUME NEW k \in 1..Len(b)
      PROVE  t[Len(a) + 1 + k] = b[k]
  <2>1. /\ k \in 1..(N - i)
        /\ i - lo + 1 + k \in 1..(N - lo + 1) /\ lo + (i - lo + 1 + k) - 1 = i + k
    BY <1>0, <1>2
  <2> HIDE DEF N
  <2> QED
    BY <1>1, <1>2, <2>1
<1>7. Fields(t) = Fields(a) \o Fields(b)
  BY <1>1, <1>2, <1>3, <1>4, <1>5, <1>6, FieldsSplit
<1> QED
  BY <1>7 DEF t, b, N

(* Spaces in front make no token.                                           *)
LEMMA FieldsOfSpace ==
  ASSUME NEW X, NEW s \in Seq(X), NEW i \in 1..Len(s), s[i] = Space
  PROVE  Fields(SubSeq(s, i, Len(s))) = Fields(SubSeq(s, i + 1, Len(s)))
<1> DEFINE N == Len(s)
           none == <<>>
<1>1. N \in Nat
  BY LenProperties
<1>2. none \in Seq(X) /\ Len(none) = 0 /\ \A k \in 1..0 : none[k] # Space
  BY EmptySeq
<1>3. Fields(none) = <<>>
  BY <1>2, FieldsOne
<1> HIDE DEF none
<1>4. /\ i \in i..N /\ Len(none) = i - i /\ \A k \in 1..(i - i) : s[i + k - 1] = none[k]
  BY <1>1, <1>2
<1>5. Fields(SubSeq(s, i, N)) = Fields(none) \o Fields(SubSeq(s, i + 1, N))
  BY <1>2, <1>4, FieldsTail
<1>6. SubSeq(s, i + 1, N) \in Seq(X)
  <2>1. i + 1 \in Int /\ N \in Int /\ i + 1 >= 1 /\ N <= Len(s)
    BY <1>1
  <2> QED
    BY <2>1, SubSeqRange
<1>7. Fields(SubSeq(s, i + 1, N)) \in Seq(Seq(X))
  BY <1>6, FieldsWords
<1> QED
  BY <1>3, <1>5, <1>7, ConcatEmptySeq

(* A dash that is split becomes a space, nothing else changes.              *)
LEMMA SplitKeeps ==
  ASSUME NEW X, Space \in X, NEW s \in Seq(X), NEW dashes \in SUBSET Dashes(s)
  PROVE  /\ Split(s, dashes) \in Seq(X)
         /\ Len(Split(s, dashes)) = Len(s)
         /\ \A k \in 1..Len(s) :
              \/ Split(s, dashes)[k] = s[k]
              \/ s[k] = "-" /\ Split(s, dashes)[k] = Space
<1>0. Len(s) \in Nat /\ DOMAIN s = 1..Len(s) /\ \A k \in 1..Len(s) : s[k] \in X
  BY LenProperties, ElementOfSeq
<1>1. \A k \in dashes : s[k] = "-"
  BY DEF Dashes
<1>2. PICK cond : Split(s, dashes) = [k \in DOMAIN s |-> IF k \in dashes /\ cond[k] THEN Space ELSE s[k]]
  BY DEF Split
<1> DEFINE r == [k \in 1..Len(s) |-> IF k \in dashes /\ cond[k] THEN Space ELSE s[k]]
<1>3. \A k \in 1..Len(s) : /\ r[k] \in X
                           /\ r[k] = s[k] \/ (s[k] = "-" /\ r[k] = Space)
  BY <1>0, <1>1
<1>4. r = [k \in 1..Len(s) |-> r[k]]
  OBVIOUS
<1>5. Split(s, dashes) = r
  BY <1>0, <1>2
<1> HIDE DEF r
<1>6. r \in [1..Len(s) -> X]
  BY <1>3, <1>4
<1>7. r \in Seq(X) /\ Len(r) = Len(s)
  BY <1>0, <1>6
<1> QED
  BY <1>3, <1>5, <1>7

LEMMA SplitNone ==
  ASSUME NEW X, NEW s \in Seq(X)
  PROVE  Split(s, {}) = s
<1>1. PICK cond : Split(s, {}) = [k \in DOMAIN s |-> IF k \in {} /\ cond[k] THEN Space ELSE s[k]]
  BY DEF Split
<1>2. Split(s, {}) = [k \in DOMAIN s |-> s[k]]
  BY <1>1
<1>3. s = [k \in DOMAIN s |-> s[k]]
  OBVIOUS
<1> QED
  BY <1>2, <1>3

\* A name whose brackets, dots and underscores are spaces.
Breaks == {".", "_", "[", "]", "(", ")", "{", "}"}
Spaced(s) == [k \in DOMAIN s |-> IF s[k] \in Breaks THEN Space ELSE s[k]]

(* Where no dash is beside a year, the tokens are those between spaces.     *)
LEMMA NormalizePlain ==
  ASSUME NEW X, Space \in X, NEW s \in Seq(X),
         \A k \in Dashes(Spaced(s)) : /\ Spaced(s)[k - 1] \notin YearWord
                                      /\ Spaced(s)[k + 1] \notin YearWord
  PROVE  /\ Spaced(s) \in Seq(X) /\ Len(Spaced(s)) = Len(s)
         /\ normalize(s) = Fields(Spaced(s))
<1> DEFINE r == Spaced(s)
<1>0. Len(s) \in Nat /\ DOMAIN s = 1..Len(s) /\ \A k \in 1..Len(s) : s[k] \in X
  BY LenProperties, ElementOfSeq
<1>1. \A k \in 1..Len(s) : r[k] \in X
  BY <1>0 DEF Spaced
<1>2. r = [k \in 1..Len(s) |-> r[k]]
  BY <1>0 DEF Spaced
<1>3. normalize(s) = Fields(SplitAfter(SplitBefore(r)))
  BY Zenon DEF normalize, Spaced, Breaks
<1> HIDE DEF r
<1>4. r \in [1..Len(s) -> X]
  BY <1>1, <1>2
<1>5. r \in Seq(X) /\ Len(r) = Len(s)
  BY <1>0, <1>4
<1>6. /\ {k \in Dashes(r) : r[k - 1] # Space /\ r[k + 1] \in YearWord} = {}
      /\ {k \in Dashes(r) : r[k - 1] \in YearWord /\ r[k + 1] # Space} = {}
  BY DEF r
<1>7. SplitBefore(r) = r /\ SplitAfter(r) = r
  BY <1>5, <1>6, SplitNone DEF SplitBefore, SplitAfter
<1> QED
  BY <1>3, <1>5, <1>7 DEF r

(* Two sequences of the same words.                                         *)
LEMMA SameWords ==
  ASSUME NEW X, NEW s \in Seq(X), NEW t \in Seq(X), Len(t) = Len(s),
         \A k \in 1..Len(s) : t[k] = s[k] \/ (s[k] \in Marks /\ t[k] \in Marks)
  PROVE  Range(t) \ Marks = Range(s) \ Marks
<1>1. Range(s) = {s[k] : k \in 1..Len(s)} /\ Range(t) = {t[k] : k \in 1..Len(s)}
  BY LenProperties, RangeEquality
<1> HIDE DEF Marks
<1> QED
  BY <1>1

(* The tokens of a name have its words.                                     *)
LEMMA NormalizeWords ==
  ASSUME NEW X, Space \in X, NEW s \in Seq(X)
  PROVE  /\ normalize(s) \in Seq(Seq(X))
         /\ Parts(normalize(s)) \ Marks = Range(s) \ Marks
<1> DEFINE r == Spaced(s)
           b == SplitBefore(r)
           a == SplitAfter(b)
<1>0. Len(s) \in Nat /\ DOMAIN s = 1..Len(s) /\ \A k \in 1..Len(s) : s[k] \in X
  BY LenProperties, ElementOfSeq
<1>1. Breaks \cup {Space, "-"} \subseteq Marks
  BY DEF Marks, Breaks
<1>2. normalize(s) = Fields(a)
  BY Zenon DEF normalize, Spaced, Breaks
<1>3. \A k \in 1..Len(s) : /\ r[k] \in X
                           /\ r[k] = s[k] \/ (s[k] \in Breaks /\ r[k] = Space)
  BY <1>0 DEF Spaced
<1>4. r = [k \in 1..Len(s) |-> r[k]]
  BY <1>0 DEF Spaced
<1> HIDE DEF r
<1>5. r \in [1..Len(s) -> X]
  BY <1>3, <1>4
<1>6. r \in Seq(X) /\ Len(r) = Len(s)
  BY <1>0, <1>5
<1>7. Range(r) \ Marks = Range(s) \ Marks
  BY <1>1, <1>3, <1>6, SameWords
<1>8. b \in Seq(X) /\ Range(b) \ Marks = Range(r) \ Marks
  <2> DEFINE d == {k \in Dashes(r) : r[k - 1] # Space /\ r[k + 1] \in YearWord}
  <2>1. d \in SUBSET Dashes(r) /\ b = Split(r, d)
    BY DEF SplitBefore
  <2> HIDE DEF d, b
  <2>2. /\ b \in Seq(X) /\ Len(b) = Len(r)
        /\ \A k \in 1..Len(r) : b[k] = r[k] \/ (r[k] = "-" /\ b[k] = Space)
    BY <1>6, <2>1, SplitKeeps
  <2> QED
    BY <1>1, <1>6, <2>2, SameWords
<1> HIDE DEF b
<1>9. a \in Seq(X) /\ Range(a) \ Marks = Range(b) \ Marks
  <2> DEFINE d == {k \in Dashes(b) : b[k - 1] \in YearWord /\ b[k + 1] # Space}
  <2>1. d \in SUBSET Dashes(b) /\ a = Split(b, d)
    BY DEF SplitAfter
  <2> HIDE DEF d, a
  <2>2. /\ a \in Seq(X) /\ Len(a) = Len(b)
        /\ \A k \in 1..Len(b) : a[k] = b[k] \/ (b[k] = "-" /\ a[k] = Space)
    BY <1>8, <2>1, SplitKeeps
  <2> QED
    BY <1>1, <1>8, <2>2, SameWords
<1> HIDE DEF a
<1>10. Fields(a) \in Seq(Seq(X)) /\ Parts(Fields(a)) = Range(a) \ {Space}
  BY <1>9, FieldsWords
<1> QED
  BY <1>1, <1>2, <1>7, <1>8, <1>9, <1>10

(* The name that the rules are tried on has the words of its tokens.        *)
LEMMA JoinWords ==
  ASSUME NEW X, Space \in X, NEW tokens \in Seq(Seq(X))
  PROVE  /\ JoinFields(tokens) \in Seq(X)
         /\ Range(JoinFields(tokens)) \ Marks = Parts(tokens) \ Marks
<1> DEFINE N == Len(tokens)
           q == [i \in 1..N |-> IF i = 1 THEN tokens[i] ELSE <<Space>> \o tokens[i]]
<1>0. N \in Nat /\ DOMAIN tokens = 1..N /\ \A i \in 1..N : tokens[i] \in Seq(X)
  BY LenProperties, ElementOfSeq
<1>1. JoinFields(tokens) = FlattenSeq(q)
  BY <1>0 DEF JoinFields
<1>2. Space \in Marks
  BY DEF Marks
<1>3. \A i \in 1..N : q[i] \in Seq(X) /\ Range(q[i]) \ Marks = Range(tokens[i]) \ Marks
  <2> SUFFICES ASSUME NEW i \in 1..N
               PROVE  q[i] \in Seq(X) /\ Range(q[i]) \ Marks = Range(tokens[i]) \ Marks
    OBVIOUS
  <2> DEFINE t == <<Space>>
  <2>1. t \in Seq(X) /\ Range(t) = {Space}
    BY DEF Range
  <2>2. tokens[i] \in Seq(X)
    BY <1>0
  <2> HIDE DEF t
  <2>3. t \o tokens[i] \in Seq(X) /\ Range(t \o tokens[i]) = {Space} \cup Range(tokens[i])
    BY <2>1, <2>2, ConcatRange
  <2>4. q[i] = IF i = 1 THEN tokens[i] ELSE t \o tokens[i]
    BY DEF t
  <2> QED
    BY <1>2, <2>2, <2>3, <2>4
<1>4. q = [i \in 1..N |-> q[i]]
  OBVIOUS
<1> HIDE DEF q
<1>5. q \in [1..N -> Seq(X)]
  BY <1>3, <1>4
<1>6. q \in Seq(Seq(X)) /\ DOMAIN q = 1..N
  <2> HIDE DEF N
  <2> QED
    BY <1>0, <1>5
<1>7. FlattenSeq(q) \in Seq(X) /\ Range(FlattenSeq(q)) = Parts(q)
  BY <1>6, Flattened
<1>8. Parts(q) \ Marks = Parts(tokens) \ Marks
  BY <1>0, <1>3, <1>6 DEF Parts
<1> QED
  BY <1>1, <1>7, <1>8

-----------------------------------------------------------------------------
(* A word of a name is one of its parts, and a part has words of the name.  *)
LEMMA WordIsPart ==
  ASSUME NEW X, NEW n \in Seq(X), NEW w \in Range(n)
  PROVE  <<w>> \in SubSeqs(n)
<1>0. Len(n) \in Nat /\ Range(n) = {n[i] : i \in 1..Len(n)}
  BY LenProperties, RangeEquality
<1>1. PICK k \in 1..Len(n) : w = n[k]
  BY <1>0
<1>2. n[k] \in X
  BY ElementOfSeq
<1>3. (k - 1) + 1 = k /\ k - 1 \in 0..Len(n) /\ k \in 0..Len(n) /\ k \in Int
  BY <1>0
<1>4. SubSeq(n, k, k) = <<n[k]>>
  <2>1. /\ SubSeq(n, k, k) \in Seq(X)
        /\ Len(SubSeq(n, k, k)) = 1
        /\ \A i \in 1..1 : SubSeq(n, k, k)[i] = n[k]
    <3>1. \A i \in k..k : n[i] \in X
      BY <1>2, <1>3
    <3>2. /\ SubSeq(n, k, k) \in Seq(X)
          /\ Len(SubSeq(n, k, k)) = IF k <= k THEN k - k + 1 ELSE 0
          /\ \A i \in 1..(k - k + 1) : SubSeq(n, k, k)[i] = n[k + i - 1]
      BY <1>3, <3>1, SubSeqProperties
    <3> QED
      BY <1>3, <3>2
  <2>2. <<n[k]>> \in Seq(X) /\ Len(<<n[k]>>) = 1 /\ \A i \in 1..1 : <<n[k]>>[i] = n[k]
    BY <1>2
  <2> QED
    BY <2>1, <2>2, SeqEqual
<1>5. SubSeq(n, (k - 1) + 1, k) \in SubSeqs(n)
  <2>1. PICK j \in 0..Len(n) : j = k - 1
    BY <1>3
  <2>2. SubSeq(n, j + 1, k) \in SubSeqs(n)
    <3> DEFINE v == SubSeq(n, j + 1, k)
    <3>1. \E a, b \in 0..Len(n) : v = SubSeq(n, a + 1, b)
      BY <1>3
    <3> HIDE DEF v
    <3>2. v \in {SubSeq(n, a + 1, b) : a, b \in 0..Len(n)}
      BY <3>1
    <3> QED
      BY <3>2 DEF SubSeqs, v
  <2> QED
    BY <2>1, <2>2
<1> QED
  BY <1>1, <1>3, <1>4, <1>5

LEMMA PartWords ==
  ASSUME NEW X, NEW n \in Seq(X), NEW p \in SubSeqs(n)
  PROVE  Range(p) \subseteq Range(n)
<1>0. Len(n) \in Nat /\ Range(n) = {n[i] : i \in 1..Len(n)}
  BY LenProperties, RangeEquality
<1>1. PICK i \in 0..Len(n), j \in 0..Len(n) : p = SubSeq(n, i + 1, j)
  BY DEF SubSeqs
<1>2. i + 1 \in Int /\ j \in Int /\ i + 1 >= 1 /\ j <= Len(n)
  BY <1>0
<1>3. Range(p) = {n[k] : k \in (i + 1)..j}
  BY <1>1, <1>2, SubSeqRange
<1>4. (i + 1)..j \subseteq 1..Len(n)
  BY <1>0
<1> QED
  BY <1>0, <1>3, <1>4

(* FirstMatch takes the first rule of which a pattern occurs.               *)
LEMMA RuleFound ==
  ASSUME NEW rules, NEW parts, Len(rules) \in Nat, NEW i \in 1..Len(rules),
         Occurs(rules[i][2], parts), \A j \in 1..(i - 1) : ~Occurs(rules[j][2], parts)
  PROVE  FirstMatch(rules, parts) = rules[i][1]
<1> DEFINE I == {k \in 1..Len(rules) : Occurs(rules[k][2], parts)}
<1>1. SelectInSeq(rules, LAMBDA rule : Occurs(rule[2], parts)) = IF I # {} THEN Min(I) ELSE 0
  BY DEF SelectInSeq
<1>2. i \in I /\ I \in SUBSET (1..Len(rules)) /\ \A k \in I : k >= i
  OBVIOUS
<1> HIDE DEF I
<1>3. Min(I) \in I /\ \A k \in I : Min(I) <= k
  BY <1>2, MinMax
<1>4. PICK m \in 1..Len(rules) : m = Min(I) /\ m <= i /\ m >= i
  BY <1>2, <1>3
<1>5. m = i /\ i # 0
  BY <1>4
<1>6. SelectInSeq(rules, LAMBDA rule : Occurs(rule[2], parts)) = i
  BY <1>1, <1>2, <1>4, <1>5
<1> QED
  BY <1>5, <1>6, Zenon DEF FirstMatch

LEMMA NoRuleFound ==
  ASSUME NEW rules, NEW parts, \A j \in 1..Len(rules) : ~Occurs(rules[j][2], parts)
  PROVE  FirstMatch(rules, parts) = ""
BY Zenon DEF FirstMatch, SelectInSeq

\* Each pattern of a rule of SourceRules has one of these words.
RuleWords == <<
  {"remux"}, {"webdl", "web"},
  {"bluray", "bdrip", "brrip", "bd25", "bd50", "bdremux", "blu"},
  {"webrip", "web"}, {"hdtv"}, {"dvdrip", "rip"}, {"hdcam", "cam"},
  {"telesync", "ts", "hdts"}, {"dvd", "pal", "ntsc"} >>

(* A rule finds nothing in a name that has none of its words.               *)
LEMMA RuleQuiet ==
  ASSUME NEW X, NEW n \in Seq(X), NEW i \in 1..9, Range(n) \cap RuleWords[i] = {}
  PROVE  ~Occurs(SourceRules[i][2], SubSeqs(n))
<1>1. \A p \in SourceRules[i][2] : \E k \in DOMAIN p : p[k] \in RuleWords[i]
  <2>1. CASE i = 1 BY <2>1 DEF SourceRules, RuleWords, Words
  <2>2. CASE i = 2 BY <2>2 DEF SourceRules, RuleWords, Words
  <2>3. CASE i = 3 BY <2>3 DEF SourceRules, RuleWords, Words
  <2>4. CASE i = 4 BY <2>4 DEF SourceRules, RuleWords, Words
  <2>5. CASE i = 5 BY <2>5 DEF SourceRules, RuleWords, Words
  <2>6. CASE i = 6 BY <2>6 DEF SourceRules, RuleWords, Words
  <2>7. CASE i = 7 BY <2>7 DEF SourceRules, RuleWords, Words
  <2>8. CASE i = 8 BY <2>8 DEF SourceRules, RuleWords, Words
  <2>9. CASE i = 9 BY <2>9 DEF SourceRules, RuleWords, Words
  <2> QED
    BY <2>1, <2>2, <2>3, <2>4, <2>5, <2>6, <2>7, <2>8, <2>9
<1>2. \A p \in SubSeqs(n) : \A k \in DOMAIN p : p[k] \in Range(n)
  BY PartWords DEF Range
<1> QED
  BY <1>1, <1>2 DEF Occurs

\* No source, resolution or year.
Blank == ""

\* The words of a name that may tell its source or its resolution.
Telling == (UNION {RuleWords[i] : i \in 1..9}) \cup {"4k", "uhd"} \cup (Resolution \ {Blank})

SourcePrefixes == {"remux", "bluray", "webdl", "webrip", "hdtv", "dvd", "cam", "telesync", Blank}

LEMMA PrefixType == \A source : sourcePrefix(source) \in SourcePrefixes
BY Zenon DEF sourcePrefix, SourcePrefixes, Blank

(* Neither a prefix nor the word of a rule is a resolution.                 *)
LEMMA WordTables ==
  /\ SourcePrefixes \cap Resolution = {Blank}
  /\ \A i \in 1..9 : RuleWords[i] \cap Resolution = {}
  /\ "4k" \notin SourcePrefixes /\ "uhd" \notin SourcePrefixes
<1>1. ASSUME NEW i \in 1..9
      PROVE  RuleWords[i] \cap Resolution = {}
  <2>1. CASE i = 1 BY <2>1 DEF RuleWords, Resolution
  <2>2. CASE i = 2 BY <2>2 DEF RuleWords, Resolution
  <2>3. CASE i = 3 BY <2>3 DEF RuleWords, Resolution
  <2>4. CASE i = 4 BY <2>4 DEF RuleWords, Resolution
  <2>5. CASE i = 5 BY <2>5 DEF RuleWords, Resolution
  <2>6. CASE i = 6 BY <2>6 DEF RuleWords, Resolution
  <2>7. CASE i = 7 BY <2>7 DEF RuleWords, Resolution
  <2>8. CASE i = 8 BY <2>8 DEF RuleWords, Resolution
  <2>9. CASE i = 9 BY <2>9 DEF RuleWords, Resolution
  <2> QED
    BY <2>1, <2>2, <2>3, <2>4, <2>5, <2>6, <2>7, <2>8, <2>9
<1> QED
  BY <1>1 DEF SourcePrefixes, Resolution, Blank

(* A resolution alone among the telling words is the one that is read.      *)
LEMMA ResolutionRead ==
  ASSUME NEW X, NEW n \in Seq(X), NEW prefix \in SourcePrefixes, NEW res \in Resolution,
         Range(n) \cap Telling = {prefix, res} \ {Blank}
  PROVE  detectResolution(n, SubSeqs(n)) = res
<1> DEFINE I == {i \in 1..Len(n) : n[i] \in Resolution \ {Blank}}
<1>0. Len(n) \in Nat /\ Range(n) = {n[i] : i \in 1..Len(n)}
  BY LenProperties, RangeEquality
<1>1. \A w \in Range(n) : w \in Resolution \ {Blank} => w = res
  <2>1. Resolution \ {Blank} \subseteq Telling
    BY DEF Telling
  <2> QED
    BY <2>1, WordTables
<1>2. res # Blank => \E i \in 1..Len(n) : n[i] = res
  BY <1>0 DEF Telling
<1>3. SelectInSeq(n, LAMBDA x : x \in Resolution \ {Blank}) = IF I # {} THEN Min(I) ELSE 0
  BY DEF SelectInSeq
<1>4. CASE res # Blank
  <2>1. I # {} /\ I \in SUBSET (1..Len(n))
    BY <1>2, <1>4
  <2>2. \A i \in I : n[i] = res
    BY <1>0, <1>1
  <2> HIDE DEF I
  <2>3. PICK m \in I : m = Min(I)
    BY <1>0, <2>1, MinMax
  <2>4. m # 0
    <3>1. m \in 1..Len(n)
      BY <2>1
    <3> QED
      BY <1>0, <3>1
  <2>5. SelectInSeq(n, LAMBDA x : x \in Resolution \ {Blank}) = m
    BY <1>3, <2>1, <2>3
  <2> QED
    BY <2>2, <2>4, <2>5, Zenon DEF detectResolution, Blank
<1>5. CASE res = Blank
  <2>1. I = {}
    BY <1>0, <1>1, <1>5
  <2>2. ~Occurs(Words({"4k", "uhd"}), SubSeqs(n))
    <3>1. "4k" \notin Range(n) /\ "uhd" \notin Range(n)
      <4>1. "4k" \in Telling /\ "uhd" \in Telling
        BY DEF Telling
      <4> QED
        BY <1>5, <4>1, WordTables
    <3>2. \A p \in SubSeqs(n) : \A k \in DOMAIN p : p[k] \in Range(n)
      <4> SUFFICES ASSUME NEW p \in SubSeqs(n), NEW k \in DOMAIN p
                   PROVE  p[k] \in Range(n)
        OBVIOUS
      <4>1. Range(p) \subseteq Range(n)
        BY PartWords
      <4> QED
        BY <4>1, Zenon DEF Range
    <3>3. <<"4k">> \notin SubSeqs(n) /\ <<"uhd">> \notin SubSeqs(n)
      BY <3>1, <3>2
    <3> QED
      BY <3>3 DEF Occurs, Words
  <2> HIDE DEF I
  <2>3. SelectInSeq(n, LAMBDA x : x \in Resolution \ {Blank}) = 0
    BY <1>3, <2>1
  <2> QED
    BY <1>5, <2>2, <2>3, Zenon DEF detectResolution, Blank
<1> QED
  BY <1>4, <1>5

\* The rule that reads a prefix of quality.Name.
RuleOf(prefix) ==
  CASE prefix = "remux" -> 1
    [] prefix = "webdl" -> 2
    [] prefix = "bluray" -> 3
    [] prefix = "webrip" -> 4
    [] prefix = "hdtv" -> 5
    [] prefix = "cam" -> 7
    [] prefix = "telesync" -> 8
    [] prefix = "dvd" -> 9

(* A prefix alone among the telling words is the one that is read.          *)
LEMMA PrefixRead ==
  ASSUME NEW X, NEW n \in Seq(X), NEW prefix \in SourcePrefixes, NEW res \in Resolution,
         Range(n) \cap Telling = {prefix, res} \ {Blank}
  PROVE  sourcePrefix(detectSource(SubSeqs(n))) = prefix
<1>1. Len(SourceRules) = 9
  BY DEF SourceRules
<1>2. \A i \in 1..9 : \A w \in RuleWords[i] : w \in Range(n) => w = prefix
  BY WordTables DEF Telling
<1>3. CASE prefix = Blank
  <2>1. \A i \in 1..9 : Range(n) \cap RuleWords[i] = {}
    <3>1. \A i \in 1..9 : Blank \notin RuleWords[i]
      BY WordTables
    <3> QED
      BY <1>2, <1>3, <3>1
  <2>2. \A i \in 1..9 : ~Occurs(SourceRules[i][2], SubSeqs(n))
    BY <2>1, RuleQuiet
  <2>3. detectSource(SubSeqs(n)) = Blank
    BY <1>1, <2>2, NoRuleFound, Zenon DEF detectSource, Blank
  <2> QED
    BY <1>3, <2>3, Zenon DEF sourcePrefix, Blank
<1>4. CASE prefix # Blank
  <2>1. PICK i \in 1..9 :
          /\ <<prefix>> \in SourceRules[i][2]
          /\ \A j \in 1..(i - 1) : prefix \notin RuleWords[j]
          /\ sourcePrefix(SourceRules[i][1]) = prefix
          /\ prefix \in Range(n)
    <3>1. PICK i \in 1..9 : i = RuleOf(prefix)
      BY <1>4 DEF RuleOf, SourcePrefixes
    <3>2. <<prefix>> \in SourceRules[i][2]
      BY <1>4, <3>1 DEF RuleOf, SourcePrefixes, SourceRules, Words
    <3>3. sourcePrefix(SourceRules[i][1]) = prefix
      <4>1. CASE prefix = "remux"
        <5>1. SourceRules[i][1] = "Remux"
          BY <3>1, <4>1 DEF RuleOf, SourceRules
        <5> QED
          BY <4>1, <5>1, Zenon DEF sourcePrefix
      <4>2. CASE prefix = "webdl"
        <5>1. SourceRules[i][1] = "WEB-DL"
          BY <3>1, <4>2 DEF RuleOf, SourceRules
        <5> QED
          BY <4>2, <5>1, Zenon DEF sourcePrefix
      <4>3. CASE prefix = "bluray"
        <5>1. SourceRules[i][1] = "BluRay"
          BY <3>1, <4>3 DEF RuleOf, SourceRules
        <5> QED
          BY <4>3, <5>1, Zenon DEF sourcePrefix
      <4>4. CASE prefix = "webrip"
        <5>1. SourceRules[i][1] = "WEBRip"
          BY <3>1, <4>4 DEF RuleOf, SourceRules
        <5> QED
          BY <4>4, <5>1, Zenon DEF sourcePrefix
      <4>5. CASE prefix = "hdtv"
        <5>1. SourceRules[i][1] = "HDTV"
          BY <3>1, <4>5 DEF RuleOf, SourceRules
        <5> QED
          BY <4>5, <5>1, Zenon DEF sourcePrefix
      <4>6. CASE prefix = "cam"
        <5>1. SourceRules[i][1] = "CAM"
          BY <3>1, <4>6 DEF RuleOf, SourceRules
        <5> QED
          BY <4>6, <5>1, Zenon DEF sourcePrefix
      <4>7. CASE prefix = "telesync"
        <5>1. SourceRules[i][1] = "TS"
          BY <3>1, <4>7 DEF RuleOf, SourceRules
        <5> QED
          BY <4>7, <5>1, Zenon DEF sourcePrefix
      <4>8. CASE prefix = "dvd"
        <5>1. SourceRules[i][1] = "DVD"
          BY <3>1, <4>8 DEF RuleOf, SourceRules
        <5> QED
          BY <4>8, <5>1, Zenon DEF sourcePrefix
      <4> QED
        BY <1>4, <4>1, <4>2, <4>3, <4>4, <4>5, <4>6, <4>7, <4>8 DEF SourcePrefixes
    <3>4. \A j \in 1..(i - 1) : prefix \notin RuleWords[j]
      <4> SUFFICES ASSUME NEW j \in 1..9, prefix \in RuleWords[j]
                   PROVE  j >= i
        OBVIOUS
      <4>1. CASE j = 1 BY <1>4, <3>1, <4>1 DEF RuleOf, SourcePrefixes, RuleWords
      <4>2. CASE j = 2 BY <1>4, <3>1, <4>2 DEF RuleOf, SourcePrefixes, RuleWords
      <4>3. CASE j = 3 BY <1>4, <3>1, <4>3 DEF RuleOf, SourcePrefixes, RuleWords
      <4>4. CASE j = 4 BY <1>4, <3>1, <4>4 DEF RuleOf, SourcePrefixes, RuleWords
      <4>5. CASE j = 5 BY <1>4, <3>1, <4>5 DEF RuleOf, SourcePrefixes, RuleWords
      <4>6. CASE j = 6 BY <1>4, <3>1, <4>6 DEF RuleOf, SourcePrefixes, RuleWords
      <4>7. CASE j = 7 BY <1>4, <3>1, <4>7 DEF RuleOf, SourcePrefixes, RuleWords
      <4>8. CASE j = 8 BY <1>4, <3>1, <4>8 DEF RuleOf, SourcePrefixes, RuleWords
      <4>9. CASE j = 9 BY <1>4, <3>1, <4>9 DEF RuleOf, SourcePrefixes, RuleWords
      <4> QED
        BY <4>1, <4>2, <4>3, <4>4, <4>5, <4>6, <4>7, <4>8, <4>9
    <3> QED
      BY <1>4, <3>2, <3>3, <3>4
  <2>2. Occurs(SourceRules[i][2], SubSeqs(n))
    BY <2>1, WordIsPart DEF Occurs
  <2>3. ASSUME NEW j \in 1..(i - 1)
        PROVE  ~Occurs(SourceRules[j][2], SubSeqs(n))
    <3>1. j \in 1..9
      OBVIOUS
    <3>2. Range(n) \cap RuleWords[j] = {}
      BY <1>2, <2>1, <3>1
    <3> QED
      BY <3>1, <3>2, RuleQuiet
  <2>4. detectSource(SubSeqs(n)) = SourceRules[i][1]
    <3>1. Len(SourceRules) \in Nat /\ i \in 1..Len(SourceRules)
      BY <1>1
    <3>2. FirstMatch(SourceRules, SubSeqs(n)) = SourceRules[i][1]
      BY <2>2, <2>3, <3>1, RuleFound
    <3> QED
      BY <3>2 DEF detectSource
  <2> QED
    BY <2>1, <2>4
<1> QED
  BY <1>3, <1>4

(* A label is read back from a name in which nothing else tells a quality.  *)
LEMMA LabelRead ==
  ASSUME NEW X, NEW n \in Seq(X), NEW source, NEW res \in Resolution,
         Range(n) \cap Telling = {sourcePrefix(source), res} \ {Blank}
  PROVE  QualityName(detectSource(SubSeqs(n)), detectResolution(n, SubSeqs(n)))
           = QualityName(source, res)
<1> DEFINE prefix == sourcePrefix(source)
<1>1. prefix \in SourcePrefixes
  BY PrefixType
<1> HIDE DEF prefix
<1>2. sourcePrefix(detectSource(SubSeqs(n))) = prefix
  BY <1>1, PrefixRead DEF prefix
<1>3. detectResolution(n, SubSeqs(n)) = res
  BY <1>1, ResolutionRead DEF prefix
<1> QED
  BY <1>2, <1>3, Zenon DEF QualityName, prefix

(* The rules give a source of quality.Weight, whatever the name.            *)
LEMMA SourceKnown == \A parts : detectSource(parts) \in Source
<1> SUFFICES ASSUME NEW parts
             PROVE  detectSource(parts) \in Source
  OBVIOUS
<1>1. Len(SourceRules) = 9
  BY DEF SourceRules
<1>2. ASSUME NEW i \in 1..9
      PROVE  SourceRules[i][1] \in Source
  <2>1. CASE i = 1 BY <2>1 DEF SourceRules, Source
  <2>2. CASE i = 2 BY <2>2 DEF SourceRules, Source
  <2>3. CASE i = 3 BY <2>3 DEF SourceRules, Source
  <2>4. CASE i = 4 BY <2>4 DEF SourceRules, Source
  <2>5. CASE i = 5 BY <2>5 DEF SourceRules, Source
  <2>6. CASE i = 6 BY <2>6 DEF SourceRules, Source
  <2>7. CASE i = 7 BY <2>7 DEF SourceRules, Source
  <2>8. CASE i = 8 BY <2>8 DEF SourceRules, Source
  <2>9. CASE i = 9 BY <2>9 DEF SourceRules, Source
  <2> QED
    BY <2>1, <2>2, <2>3, <2>4, <2>5, <2>6, <2>7, <2>8, <2>9
<1>3. "" \in Source
  BY Zenon DEF Source
<1> DEFINE I == {i \in 1..9 : Occurs(SourceRules[i][2], parts)}
<1>4. detectSource(parts) = IF SelectInSeq(SourceRules, LAMBDA rule : Occurs(rule[2], parts)) = 0
                            THEN "" ELSE SourceRules[SelectInSeq(SourceRules, LAMBDA rule : Occurs(rule[2], parts))][1]
  BY Zenon DEF detectSource, FirstMatch
<1>5. SelectInSeq(SourceRules, LAMBDA rule : Occurs(rule[2], parts)) = IF I # {} THEN Min(I) ELSE 0
  BY <1>1 DEF SelectInSeq
<1>6. I \in SUBSET (1..9)
  OBVIOUS
<1> HIDE DEF I
<1>7. I # {} => Min(I) \in 1..9
  BY <1>6, MinMax
<1>8. CASE I = {}
  BY <1>3, <1>4, <1>5, <1>8, Zenon
<1>9. CASE I # {}
  <2>1. PICK m \in 1..9 : m = Min(I)
    BY <1>7, <1>9
  <2>2. m # 0
    BY <2>1
  <2>3. detectSource(parts) = SourceRules[m][1]
    BY <1>4, <1>5, <1>9, <2>1, <2>2, Zenon
  <2> QED
    BY <1>2, <2>3
<1> QED
  BY <1>8, <1>9

LEMMA ResolutionKnown ==
  ASSUME NEW X, NEW n \in Seq(X), NEW parts
  PROVE  detectResolution(n, parts) \in Resolution
<1> DEFINE I == {i \in 1..Len(n) : n[i] \in Resolution \ {Blank}}
<1>1. SelectInSeq(n, LAMBDA x : x \in Resolution \ {Blank}) = IF I # {} THEN Min(I) ELSE 0
  BY DEF SelectInSeq
<1>2. I \in SUBSET (1..Len(n)) /\ Len(n) \in Nat /\ \A i \in I : n[i] \in Resolution
  BY LenProperties
<1> HIDE DEF I
<1>3. I # {} => Min(I) \in I
  BY <1>2, MinMax
<1>4. detectResolution(n, parts) \in {"2160p", Blank} \cup {n[i] : i \in I}
  BY <1>1, <1>3, Zenon DEF detectResolution, Blank
<1>5. {"2160p", Blank} \subseteq Resolution
  BY Zenon DEF Resolution, Blank
<1> QED
  BY <1>2, <1>4, <1>5

-----------------------------------------------------------------------------
\* What Parse leaves of a name once its group is gone, and what the rules see.
Rest(name) == extractGroup(StripExt(Trim(name))).rest
Seen(name) == JoinFields(normalize(Rest(name)))

LEMMA MarksTellNothing == Telling \cap Marks = {}
<1>1. ASSUME NEW i \in 1..9
      PROVE  RuleWords[i] \cap Marks = {}
  <2>1. CASE i = 1 BY <2>1 DEF RuleWords, Marks, Space
  <2>2. CASE i = 2 BY <2>2 DEF RuleWords, Marks, Space
  <2>3. CASE i = 3 BY <2>3 DEF RuleWords, Marks, Space
  <2>4. CASE i = 4 BY <2>4 DEF RuleWords, Marks, Space
  <2>5. CASE i = 5 BY <2>5 DEF RuleWords, Marks, Space
  <2>6. CASE i = 6 BY <2>6 DEF RuleWords, Marks, Space
  <2>7. CASE i = 7 BY <2>7 DEF RuleWords, Marks, Space
  <2>8. CASE i = 8 BY <2>8 DEF RuleWords, Marks, Space
  <2>9. CASE i = 9 BY <2>9 DEF RuleWords, Marks, Space
  <2> QED
    BY <2>1, <2>2, <2>3, <2>4, <2>5, <2>6, <2>7, <2>8, <2>9
<1>2. (Resolution \cup {"4k", "uhd"}) \cap Marks = {}
  BY Zenon DEF Resolution, Marks, Space
<1> QED
  BY <1>1, <1>2 DEF Telling

LEMMA SeenWords ==
  ASSUME NEW X, Space \in X, NEW name, Rest(name) \in Seq(X)
  PROVE  /\ Seen(name) \in Seq(X)
         /\ Range(Seen(name)) \cap Telling = Range(Rest(name)) \cap Telling
<1> DEFINE tokens == normalize(Rest(name))
<1> HIDE DEF tokens
<1>2. tokens \in Seq(Seq(X)) /\ Parts(tokens) \ Marks = Range(Rest(name)) \ Marks
  BY NormalizeWords DEF tokens
<1>3. Seen(name) \in Seq(X) /\ Range(Seen(name)) \ Marks = Parts(tokens) \ Marks
  BY <1>2, JoinWords DEF Seen, tokens
<1> QED
  BY <1>2, <1>3, MarksTellNothing

LEMMA GroupRest ==
  ASSUME NEW X, NEW s \in Seq(X)
  PROVE  extractGroup(s).rest \in Seq(X)
<1>0. Len(s) \in Nat /\ DOMAIN s = 1..Len(s)
  BY LenProperties
<1>1. \A m \in 1..(Len(s) + 1), n \in Int : n <= Len(s) => SubSeq(s, m, n) \in Seq(X)
  BY <1>0, SubSeqRange
<1>2. \A b \in Brackets(s) : Cut(s, b) \in Seq(X)
  <2> SUFFICES ASSUME NEW b \in Brackets(s)
               PROVE  Cut(s, b) \in Seq(X)
    OBVIOUS
  <2>1. b[1] \in 1..Len(s) /\ b[2] \in 1..Len(s)
    BY <1>0 DEF Brackets
  <2>2. SubSeq(s, 1, b[1] - 1) \in Seq(X) /\ SubSeq(s, b[2] + 1, Len(s)) \in Seq(X)
    BY <1>0, <1>1, <2>1
  <2> QED
    BY <2>2, ConcatProperties DEF Cut
<1>3. SubSeq(s, 1, Len(s) - 2) \in Seq(X)
  BY <1>0, <1>1
<1>4. extractGroup(s).rest \in {s, SubSeq(s, 1, Len(s) - 2)} \cup {Cut(s, b) : b \in Brackets(s)}
  BY Zenon DEF extractGroup
<1> QED
  BY <1>2, <1>3, <1>4

LEMMA ParseReads ==
  \A name : /\ Parse(name).source = detectSource(SubSeqs(Seen(name)))
            /\ Parse(name).resolution = detectResolution(Seen(name), SubSeqs(Seen(name)))
BY DEF Parse, Seen, Rest

-----------------------------------------------------------------------------
(* The extension goes, and with it the spaces in front of the name.         *)
LEMMA StripName ==
  ASSUME NEW X, NEW a \in Seq(X), NEW ext \in StrippedExts, "." \in X, ext \in X
  PROVE  \E lo \in 1..(Len(a) + 1) :
           /\ StripExt(Trim(a \o <<".", ext>>)) = SubSeq(a, lo, Len(a))
           /\ \A k \in 1..(lo - 1) : a[k] = Space
           /\ lo <= Len(a) => a[lo] # Space
<1> DEFINE n == Len(a)
           e == <<".", ext>>
           s == a \o e
           I == {i \in 1..Len(s) : s[i] # Space}
<1>0. n \in Nat /\ e \in Seq(X) /\ Len(e) = 2 /\ e[1] = "." /\ e[2] = ext
  BY LenProperties
<1>a. "." # Space /\ ext # Space
  BY Zenon DEF Space, StrippedExts
<1> HIDE DEF e, n
<1>1. s \in Seq(X) /\ Len(s) = n + 2 /\ s[n + 1] = "." /\ s[n + 2] = ext /\ \A k \in 1..n : s[k] = a[k]
  <2>1. /\ s \in Seq(X) /\ Len(s) = n + 2
        /\ \A i \in 1..(n + 2) : s[i] = IF i <= n THEN a[i] ELSE e[i - n]
    <3>1. /\ s \in Seq(X) /\ Len(s) = Len(a) + Len(e)
          /\ \A i \in 1..(Len(a) + Len(e)) : s[i] = IF i <= Len(a) THEN a[i] ELSE e[i - Len(a)]
      BY <1>0, ConcatProperties
    <3> HIDE DEF s
    <3> QED
      BY <1>0, <3>1 DEF n
  <2> HIDE DEF s
  <2>2. n + 1 \in 1..(n + 2) /\ n + 2 \in 1..(n + 2) /\ (n + 1) - n = 1 /\ (n + 2) - n = 2
    BY <1>0
  <2> QED
    BY <1>0, <2>1, <2>2
<1> HIDE DEF s
<1>2. I \in SUBSET (1..(n + 2)) /\ n + 1 \in I /\ n + 2 \in I /\ \A k \in 1..(n + 2) : k \in I <=> s[k] # Space
  BY <1>0, <1>a, <1>1
<1>3. /\ SelectInSeq(s, LAMBDA x : x # Space) = IF I # {} THEN Min(I) ELSE 0
      /\ SelectLastInSeq(s, LAMBDA x : x # Space) = IF I # {} THEN Max(I) ELSE 0
  BY DEF SelectInSeq, SelectLastInSeq
<1> HIDE DEF I
<1>4. PICK lo \in 1..(n + 2), hi \in 1..(n + 2) :
        lo = Min(I) /\ hi = Max(I) /\ lo \in I /\ \A i \in I : lo <= i /\ i <= hi
  <2>1. n + 2 \in Nat /\ I # {}
    BY <1>0, <1>2
  <2> QED
    BY <1>2, <2>1, MinMax
<1>5. lo \in 1..(n + 1) /\ hi = n + 2 /\ lo # 0
  BY <1>0, <1>2, <1>4
<1>6. \A k \in 1..(lo - 1) : s[k] = Space
  <2> SUFFICES ASSUME NEW k \in 1..(lo - 1)
               PROVE  s[k] = Space
    OBVIOUS
  <2>1. k \in 1..(n + 2) /\ ~(lo <= k)
    BY <1>5
  <2> QED
    BY <1>2, <1>4, <2>1
<1>7. Trim(s) = SubSeq(s, lo, n + 2)
  BY <1>2, <1>3, <1>4, <1>5, Zenon DEF Trim
<1> DEFINE t == SubSeq(s, lo, n + 2)
<1>8. /\ t \in Seq(X) /\ Len(t) = n + 3 - lo
      /\ \A i \in 1..(n + 3 - lo) : t[i] = s[lo + i - 1]
  <2>1. PICK top \in Int : top = n + 2 /\ lo \in Int /\ lo >= 1 /\ top <= Len(s) /\ lo <= top
    BY <1>0, <1>1, <1>5
  <2>2. /\ SubSeq(s, lo, top) \in Seq(X)
        /\ Len(SubSeq(s, lo, top)) = top - lo + 1
        /\ \A i \in 1..(top - lo + 1) : SubSeq(s, lo, top)[i] = s[lo + i - 1]
    BY <1>1, <2>1, SubSeqRange
  <2>3. top - lo + 1 = n + 3 - lo
    BY <1>0, <1>5, <2>1
  <2> QED
    BY <2>1, <2>2, <2>3
<1> HIDE DEF t
<1>9. Len(t) > 1 /\ t[Len(t) - 1] = "." /\ t[Len(t)] = ext
  <2>1. PICK m \in Nat : m = n + 3 - lo /\ m > 1
    BY <1>0, <1>5
  <2>2. m - 1 \in 1..m /\ m \in 1..m /\ lo + (m - 1) - 1 = n + 1 /\ lo + m - 1 = n + 2
    BY <1>0, <1>5, <2>1
  <2>3. Len(t) = m /\ t[m - 1] = s[n + 1] /\ t[m] = s[n + 2]
    BY <1>8, <2>1, <2>2
  <2> QED
    BY <1>1, <2>1, <2>3
<1>10. StripExt(t) = SubSeq(t, 1, Len(t) - 2)
  BY <1>9 DEF StripExt, Last
<1>11. SubSeq(t, 1, Len(t) - 2) = SubSeq(a, lo, n)
  <2>1. PICK m \in Nat : m = n + 1 - lo /\ Len(t) - 2 = m
    BY <1>0, <1>5, <1>8
  <2>2. \A i \in 1..m : t[i] = a[lo + i - 1] /\ t[i] \in X
    <3> SUFFICES ASSUME NEW i \in 1..m
                 PROVE  t[i] = a[lo + i - 1] /\ t[i] \in X
      OBVIOUS
    <3>1. i \in 1..(n + 3 - lo) /\ lo + i - 1 \in 1..n
      BY <1>0, <1>5, <2>1
    <3>2. t[i] = a[lo + i - 1]
      BY <1>1, <1>8, <3>1
    <3>3. a[lo + i - 1] \in X
      BY <3>1, ElementOfSeq DEF n
    <3> QED
      BY <3>2, <3>3
  <2>3. /\ SubSeq(t, 1, m) \in Seq(X) /\ Len(SubSeq(t, 1, m)) = m
        /\ \A i \in 1..m : SubSeq(t, 1, m)[i] = t[i]
    <3>1. m <= Len(t) /\ m \in Int /\ 1 \in Int /\ m - 1 + 1 = m
      BY <1>0, <1>5, <1>8, <2>1
    <3>2. /\ SubSeq(t, 1, m) \in Seq(X)
          /\ Len(SubSeq(t, 1, m)) = IF 1 <= m THEN m - 1 + 1 ELSE 0
          /\ \A i \in 1..(m - 1 + 1) : SubSeq(t, 1, m)[i] = t[1 + i - 1]
      BY <1>8, <3>1, SubSeqRange
    <3> QED
      BY <3>1, <3>2
  <2>4. /\ SubSeq(a, lo, n) \in Seq(X) /\ Len(SubSeq(a, lo, n)) = m
        /\ \A i \in 1..m : SubSeq(a, lo, n)[i] = a[lo + i - 1]
    <3>1. lo \in Int /\ n \in Int /\ lo >= 1 /\ n <= Len(a) /\ n - lo + 1 = m
      BY <1>0, <1>5, <2>1 DEF n
    <3>2. /\ SubSeq(a, lo, n) \in Seq(X)
          /\ Len(SubSeq(a, lo, n)) = IF lo <= n THEN n - lo + 1 ELSE 0
          /\ \A i \in 1..(n - lo + 1) : SubSeq(a, lo, n)[i] = a[lo + i - 1]
      BY <3>1, SubSeqRange
    <3> QED
      BY <1>0, <1>5, <2>1, <3>1, <3>2, SMTT(20)
  <2>5. SubSeq(t, 1, m) = SubSeq(a, lo, n)
    BY <2>2, <2>3, <2>4, SeqEqual
  <2> QED
    BY <2>1, <2>5
<1>12. lo <= n => a[lo] # Space
  BY <1>0, <1>1, <1>2, <1>4, <1>5
<1>13. \A k \in 1..(lo - 1) : a[k] = Space
  BY <1>0, <1>1, <1>5, <1>6
<1> QED
  BY <1>5, <1>7, <1>10, <1>11, <1>12, <1>13 DEF n, s, e, t

(* Without brackets only a last word can be taken for the group.            *)
LEMMA PlainRest ==
  ASSUME NEW X, NEW s \in Seq(X), \A k \in 1..Len(s) : s[k] # "["
  PROVE  extractGroup(s).rest \in Seq(X) /\ Range(extractGroup(s).rest) \subseteq Range(s)
<1>0. Len(s) \in Nat /\ DOMAIN s = 1..Len(s) /\ Range(s) = {s[k] : k \in 1..Len(s)}
  BY LenProperties, RangeEquality
<1>1. Brackets(s) = {}
  BY <1>0 DEF Brackets
<1>2. extractGroup(s).rest \in {s} \cup {SubSeq(s, 1, Len(s) - 2)}
  BY <1>1, Zenon DEF extractGroup
<1>3. /\ SubSeq(s, 1, Len(s) - 2) \in Seq(X)
      /\ Range(SubSeq(s, 1, Len(s) - 2)) \subseteq Range(s)
  <2> DEFINE m == Len(s) - 2
  <2>1. m = Len(s) - 2 /\ m \in Int /\ m <= Len(s) /\ 1 \in Int
    BY <1>0
  <2> HIDE DEF m
  <2>2. SubSeq(s, 1, m) \in Seq(X) /\ Range(SubSeq(s, 1, m)) = {s[k] : k \in 1..m}
    BY <2>1, SubSeqRange
  <2>3. 1..m \subseteq 1..Len(s)
    BY <1>0, <2>1
  <2> QED
    BY <1>0, <2>1, <2>2, <2>3
<1> QED
  BY <1>2, <1>3

(* A name that ends in a bracket has no group after a dash.                 *)
LEMMA WholeRest ==
  ASSUME NEW X, NEW s \in Seq(X), \A k \in 1..Len(s) : s[k] # "[", s[Len(s)] = ")"
  PROVE  extractGroup(s).rest = s
<1>0. DOMAIN s = 1..Len(s)
  BY LenProperties
<1>1. Brackets(s) = {}
  BY <1>0 DEF Brackets
<1>2. ~IsWord(Last(s))
  BY Zenon DEF Last, IsWord, Marks
<1> DEFINE lead == {b \in Brackets(s) : b[1] = 1}
           tags == {b \in Brackets(s) : \A c \in Brackets(s) : c[1] <= b[1]}
           yts == {b \in tags : isYts(Inside(s, b))}
<1>3. lead = {} /\ yts = {}
  BY <1>1, Zenon
<1> HIDE DEF lead, yts
<1> QED
  BY <1>2, <1>3, Zenon DEF extractGroup, lead, yts

(* A label in brackets after the name is not taken for a group.             *)
LEMMA LabelKept ==
  ASSUME NEW X, NEW s \in Seq(X), NEW m \in 2..(Len(s) - 2),
         \A k \in 1..Len(s) : /\ s[k] = "[" <=> k = m
                              /\ s[k] = "]" <=> k = Len(s)
                              /\ k > m => s[k] \notin {"yts", "yify"}
  PROVE  extractGroup(s).rest = s
<1>0. /\ Len(s) \in Nat /\ DOMAIN s = 1..Len(s) /\ Range(s) = {s[k] : k \in 1..Len(s)}
      /\ m \in 1..Len(s) /\ Len(s) \in 1..Len(s) /\ m # 1
  BY LenProperties, RangeEquality
<1>1. \A b \in Brackets(s) : b = <<m, Len(s)>>
  <2>1. {i \in DOMAIN s : s[i] = "["} \X {i \in DOMAIN s : s[i] = "]"} \subseteq {<<m, Len(s)>>}
    <3>1. {i \in DOMAIN s : s[i] = "["} \subseteq {m} /\ {i \in DOMAIN s : s[i] = "]"} \subseteq {Len(s)}
      BY <1>0
    <3> QED
      BY ONLY <3>1
  <2>2. Brackets(s) \subseteq {i \in DOMAIN s : s[i] = "["} \X {i \in DOMAIN s : s[i] = "]"}
    BY Zenon DEF Brackets
  <2> QED
    BY <2>1, <2>2, Zenon
<1>2. \A b \in Brackets(s) : b[1] # 1
  <2>1. <<m, Len(s)>>[1] # 1
    BY <1>0
  <2> QED
    BY <1>1, <2>1, Zenon
<1>3. \A b \in Brackets(s) : ~isYts(Inside(s, b))
  <2> DEFINE lo == m + 1
             hi == Len(s) - 1
             tag == SubSeq(s, lo, hi)
  <2>1. /\ lo \in Int /\ hi \in Int
        /\ lo = m + 1 /\ hi = Len(s) - 1 /\ lo >= 1 /\ hi <= Len(s) /\ lo <= hi
        /\ \A k \in lo..hi : k \in 1..Len(s) /\ k > m
    <3>1. Len(s) \in Nat /\ m \in 2..(Len(s) - 2)
      BY <1>0
    <3> QED
      BY ONLY <3>1
  <2> HIDE DEF lo, hi
  <2>2. tag \in Seq(X) /\ Range(tag) = {s[k] : k \in lo..hi}
    <3>1. s \in Seq(X) /\ lo \in Int /\ hi \in Int /\ lo >= 1 /\ hi <= Len(s)
      BY <2>1
    <3> QED
      BY ONLY <3>1, SubSeqRange
  <2> HIDE DEF tag
  <2>3. "yts" \notin Range(tag) /\ "yify" \notin Range(tag)
    BY <2>1, <2>2
  <2>4. ~isYts(tag)
    <3>1. \A k \in DOMAIN tag : tag[k] # "yts"
      BY <2>3, Zenon DEF Range
    <3>2. Range(<<"yify">>) = {"yify"}
      BY DEF Range
    <3> QED
      BY <2>3, <3>1, <3>2, Zenon DEF isYts
  <2>5. \A b \in Brackets(s) : Inside(s, b) = tag
    BY <1>1 DEF Inside, tag, lo, hi
  <2> QED
    BY <2>4, <2>5
<1>4. ~IsWord(Last(s))
  BY <1>0, Zenon DEF Last, IsWord, Marks
<1> DEFINE lead == {b \in Brackets(s) : b[1] = 1}
           tags == {b \in Brackets(s) : \A c \in Brackets(s) : c[1] <= b[1]}
           yts == {b \in tags : isYts(Inside(s, b))}
<1>5. lead = {} /\ yts = {}
  BY <1>2, <1>3, Zenon
<1> HIDE DEF lead, yts
<1> QED
  BY <1>4, <1>5, Zenon DEF extractGroup, lead, yts

-----------------------------------------------------------------------------
\* The strings: no backend knows that a literal is one.
Lexeme == STRING \cup Marks \cup Telling \cup StrippedExts \cup {Blank}

LEMMA TupleRange ==
  /\ Range(<<>>) = {}
  /\ \A a : Range(<<a>>) = {a}
  /\ \A a, b : Range(<<a, b>>) = {a, b}
  /\ \A a, b, c : Range(<<a, b, c>>) = {a, b, c}
  /\ \A a, b, c, d : Range(<<a, b, c, d>>) = {a, b, c, d}
BY DEF Range

(* The file system's form of a title keeps its words.                       *)
LEMMA SanitizeWords ==
  ASSUME NEW title \in Seq(Lexeme)
  PROVE  /\ Sanitize(title) \in Seq(Lexeme)
         /\ Range(Sanitize(title)) \subseteq Range(title) \cup {Space, "-"}
         /\ Range(title) \ Marks \subseteq Range(Sanitize(title))
         /\ Sanitize(title) # <<>> => Sanitize(title)[1] # Space
<1> DEFINE n == Len(title)
           q == [k \in 1..n |-> CASE title[k] = ":" -> <<Space, "-">>
                                  [] title[k] \in {"/", "?"} -> <<>>
                                  [] OTHER -> <<title[k]>>]
           flat == FlattenSeq(q)
<1>0. n \in Nat /\ DOMAIN title = 1..n /\ \A k \in 1..n : title[k] \in Lexeme
  BY LenProperties, ElementOfSeq
<1>1. Range(title) = {title[k] : k \in 1..n}
  BY RangeEquality
<1>a. Space \in Lexeme /\ "-" \in Lexeme
  BY Zenon DEF Lexeme, Marks
<1>2. Sanitize(title) = Trim(flat)
  BY <1>0, Zenon DEF Sanitize
<1>3. ASSUME NEW k \in 1..n
      PROVE  /\ q[k] \in Seq(Lexeme)
             /\ Range(q[k]) \subseteq {title[k], Space, "-"}
             /\ IsWord(title[k]) => title[k] \in Range(q[k])
  <2>1. title[k] \in Lexeme
    BY <1>0
  <2>2. CASE title[k] = ":"
    <3>1. q[k] = <<Space, "-">>
      BY <2>2, Zenon
    <3>2. ~IsWord(title[k])
      BY <2>2, Zenon DEF IsWord, Marks
    <3> HIDE DEF q
    <3> QED
      BY <1>a, <3>1, <3>2, TupleRange
  <2>3. CASE title[k] \in {"/", "?"}
    <3>1. q[k] = <<>>
      BY <2>3, Zenon
    <3>2. ~IsWord(title[k])
      BY <2>3, Zenon DEF IsWord, Marks
    <3> HIDE DEF q
    <3> QED
      BY <3>1, <3>2, TupleRange
  <2>4. CASE title[k] \notin {":", "/", "?"}
    <3>1. q[k] = <<title[k]>>
      BY <2>4, Zenon
    <3> HIDE DEF q
    <3> QED
      BY <2>1, <3>1, TupleRange
  <2> QED
    BY <2>2, <2>3, <2>4
<1>4. q = [k \in 1..n |-> q[k]]
  OBVIOUS
<1> HIDE DEF q
<1>5. q \in Seq(Seq(Lexeme)) /\ DOMAIN q = 1..n
  <2>1. q \in [1..n -> Seq(Lexeme)]
    BY <1>3, <1>4
  <2> HIDE DEF n
  <2> QED
    BY <1>0, <2>1
<1>6. flat \in Seq(Lexeme) /\ Range(flat) = Parts(q)
  BY <1>5, Flattened
<1> HIDE DEF flat
<1>7. Range(flat) \subseteq Range(title) \cup {Space, "-"} /\ Range(title) \ Marks \subseteq Range(flat)
  <2>1. Parts(q) \subseteq Range(title) \cup {Space, "-"}
    BY <1>1, <1>3, <1>5 DEF Parts
  <2>2. Range(title) \ Marks \subseteq Parts(q)
    <3> SUFFICES ASSUME NEW w \in Range(title), w \notin Marks
                 PROVE  w \in Parts(q)
      OBVIOUS
    <3>1. PICK k \in 1..n : w = title[k]
      BY <1>1
    <3>2. w \in Range(q[k])
      BY <1>3, <3>1, Zenon DEF IsWord
    <3> QED
      BY <1>5, <3>2, Zenon DEF Parts
  <2> QED
    BY <1>6, <2>1, <2>2
<1>8. /\ Trim(flat) \in Seq(Lexeme) /\ Range(Trim(flat)) \subseteq Range(flat)
      /\ Range(flat) \subseteq Range(Trim(flat)) \cup {Space}
      /\ Trim(flat) # <<>> => Trim(flat)[1] # Space
  BY <1>6, TrimKeeps
<1>9. Space \in Marks
  BY Zenon DEF Marks
<1> QED
  BY <1>2, <1>7, <1>8, <1>9

LEMMA FolderWords ==
  ASSUME NEW title \in Seq(Lexeme), NEW year \in Lexeme
  PROVE  /\ FolderName(title, year) \in Seq(Lexeme)
         /\ Range(FolderName(title, year)) \subseteq
              Range(title) \cup {Space, "-"} \cup (IF year = Blank THEN {} ELSE {"(", year, ")"})
         /\ Range(title) \ Marks \subseteq Range(FolderName(title, year))
<1> DEFINE t == Sanitize(title)
           y == IF year = Blank THEN <<>> ELSE <<Space, "(", year, ")">>
<1>1. /\ t \in Seq(Lexeme) /\ Range(t) \subseteq Range(title) \cup {Space, "-"}
      /\ Range(title) \ Marks \subseteq Range(t)
  BY SanitizeWords
<1>2. {Space, "(", ")"} \subseteq Lexeme
  BY Zenon DEF Lexeme, Marks
<1>3. /\ y \in Seq(Lexeme)
      /\ Range(y) \subseteq {Space} \cup (IF year = Blank THEN {} ELSE {"(", year, ")"})
  <2>1. CASE year = Blank
    BY <2>1, TupleRange
  <2>2. CASE year # Blank
    BY <1>2, <2>2, TupleRange
  <2> QED
    BY <2>1, <2>2
<1>4. FolderName(title, year) = t \o y
  BY Zenon DEF FolderName, Blank
<1> HIDE DEF t, y
<1>5. t \o y \in Seq(Lexeme) /\ Range(t \o y) = Range(t) \cup Range(y)
  BY <1>1, <1>3, ConcatRange
<1> QED
  BY <1>1, <1>3, <1>4, <1>5

(* A label in brackets, as FileName puts it behind the name.                *)
LEMMA LabelBracketed ==
  ASSUME NEW tag \in Seq(Lexeme)
  PROVE  LET b == <<Space, "[">> \o tag \o <<"]">>
         IN  /\ b \in Seq(Lexeme) /\ Len(b) = Len(tag) + 3
             /\ b[1] = Space /\ b[2] = "[" /\ b[Len(tag) + 3] = "]"
             /\ \A k \in 1..Len(tag) : b[k + 2] = tag[k]
             /\ Range(b) = Range(tag) \cup {Space, "[", "]"}
<1> DEFINE o == <<Space, "[">>
           c == <<"]">>
           h == o \o tag
           b == h \o c
<1>0. Len(tag) \in Nat
  BY LenProperties
<1>1. {Space, "[", "]"} \subseteq Lexeme
  BY Zenon DEF Lexeme, Marks
<1>2. o \in Seq(Lexeme) /\ Len(o) = 2 /\ o[1] = Space /\ o[2] = "[" /\ Range(o) = {Space, "["}
  BY <1>1, TupleRange
<1>3. c \in Seq(Lexeme) /\ Len(c) = 1 /\ c[1] = "]" /\ Range(c) = {"]"}
  BY <1>1, TupleRange
<1> HIDE DEF o, c
<1>4. /\ h \in Seq(Lexeme) /\ Len(h) = Len(tag) + 2 /\ Range(h) = Range(o) \cup Range(tag)
      /\ h[1] = Space /\ h[2] = "[" /\ \A k \in 1..Len(tag) : h[k + 2] = tag[k]
  <2>1. /\ h \in Seq(Lexeme) /\ Len(h) = Len(o) + Len(tag)
        /\ \A i \in 1..(Len(o) + Len(tag)) : h[i] = IF i <= Len(o) THEN o[i] ELSE tag[i - Len(o)]
        /\ Range(h) = Range(o) \cup Range(tag)
    <3>1. Range(h) = Range(o) \cup Range(tag)
      BY <1>2, ConcatRange
    <3>2. /\ h \in Seq(Lexeme) /\ Len(h) = Len(o) + Len(tag)
          /\ \A i \in 1..(Len(o) + Len(tag)) : h[i] = IF i <= Len(o) THEN o[i] ELSE tag[i - Len(o)]
      <4>1. o \in Seq(Lexeme) /\ tag \in Seq(Lexeme)
        BY <1>2
      <4> QED
        BY ONLY <4>1, ConcatProperties
    <3> QED
      BY <3>1, <3>2
  <2> HIDE DEF h
  <2> QED
    BY <1>0, <1>2, <2>1
<1> HIDE DEF h
<1>5. /\ b \in Seq(Lexeme) /\ Len(b) = Len(tag) + 3 /\ Range(b) = Range(h) \cup Range(c)
      /\ b[Len(tag) + 3] = "]" /\ \A k \in 1..(Len(tag) + 2) : b[k] = h[k]
  <2>1. /\ b \in Seq(Lexeme) /\ Len(b) = Len(h) + Len(c)
        /\ \A i \in 1..(Len(h) + Len(c)) : b[i] = IF i <= Len(h) THEN h[i] ELSE c[i - Len(h)]
        /\ Range(b) = Range(h) \cup Range(c)
    <3>1. Range(b) = Range(h) \cup Range(c)
      BY <1>3, <1>4, ConcatRange
    <3>2. /\ b \in Seq(Lexeme) /\ Len(b) = Len(h) + Len(c)
          /\ \A i \in 1..(Len(h) + Len(c)) : b[i] = IF i <= Len(h) THEN h[i] ELSE c[i - Len(h)]
      <4>1. h \in Seq(Lexeme) /\ c \in Seq(Lexeme)
        BY <1>3, <1>4
      <4> QED
        BY ONLY <4>1, ConcatProperties
    <3> QED
      BY <3>1, <3>2
  <2> HIDE DEF b
  <2> QED
    BY <1>0, <1>3, <1>4, <2>1
<1> HIDE DEF b
<1>6. \A k \in 1..Len(tag) : k + 2 \in 1..(Len(tag) + 2)
  BY <1>0
<1>7. b[1] = Space /\ b[2] = "["
  BY <1>0, <1>4, <1>5
<1>8. \A k \in 1..Len(tag) : b[k + 2] = tag[k]
  BY <1>4, <1>5, <1>6
<1>9. Range(b) = Range(tag) \cup {Space, "[", "]"}
  BY <1>2, <1>3, <1>4, <1>5
<1> QED
  BY <1>5, <1>7, <1>8, <1>9 DEF b, h, o, c

(* What quality.Name makes of a source and a resolution.                    *)
LEMMA LabelWords ==
  ASSUME NEW source, NEW res \in Resolution
  PROVE  LET tag == QualityName(source, res)
             words == {sourcePrefix(source), res} \ {Blank}
         IN  /\ tag # Unknown => /\ tag \in Seq(Lexeme) /\ Len(tag) >= 1
                                   /\ words \subseteq Range(tag)
                                   /\ Range(tag) \subseteq words \cup {"-"}
             /\ tag = Unknown => words = {}
             /\ words \cap {"[", "]", "yts", "yify"} = {} /\ words \subseteq Telling
<1> DEFINE prefix == sourcePrefix(source)
           tag == QualityName(source, res)
           words == {prefix, res} \ {Blank}
<1>1. prefix \in SourcePrefixes
  BY PrefixType
<1> HIDE DEF prefix
<1>2. /\ prefix = Blank /\ res = Blank => tag = Unknown
      /\ prefix = Blank /\ res # Blank => tag = <<res>>
      /\ prefix # Blank /\ res = Blank => tag = <<prefix>>
      /\ prefix # Blank /\ res # Blank => tag = <<prefix, "-", res>>
  BY Zenon DEF QualityName, Blank, prefix
<1> HIDE DEF tag
<1>3. words \cap {"[", "]", "yts", "yify", "unknown"} = {}
  BY <1>1, Zenon DEF SourcePrefixes, Resolution
<1>4. words \subseteq Telling
  <2>1. SourcePrefixes \ {Blank} \subseteq Telling
    BY DEF SourcePrefixes, Telling, RuleWords
  <2>2. Resolution \ {Blank} \subseteq Telling
    BY Zenon DEF Telling
  <2> QED
    BY <1>1, <2>1, <2>2
<1>5. words \cup {"-"} \subseteq Lexeme
  BY <1>4, Zenon DEF Lexeme, Marks
<1>6. tag # Unknown => /\ tag \in Seq(Lexeme) /\ Len(tag) >= 1
                         /\ words \subseteq Range(tag) /\ Range(tag) \subseteq words \cup {"-"}
  <2>1. \A w \in Lexeme : /\ <<w>> \in Seq(Lexeme) /\ Len(<<w>>) = 1
                            /\ Range(<<w>>) = {w}
    BY TupleRange
  <2>2. \A v, w \in Lexeme : "-" \in Lexeme =>
          /\ <<v, "-", w>> \in Seq(Lexeme) /\ Len(<<v, "-", w>>) = 3
          /\ Range(<<v, "-", w>>) = {v, "-", w}
    BY TupleRange
  <2>3. CASE prefix = Blank /\ res # Blank
    <3>1. tag = <<res>> /\ res \in Lexeme /\ words = {res}
      BY <1>2, <1>5, <2>3
    <3> QED
      BY <2>1, <3>1
  <2>4. CASE prefix # Blank /\ res = Blank
    <3>1. tag = <<prefix>> /\ prefix \in Lexeme /\ words = {prefix}
      BY <1>2, <1>5, <2>4
    <3> QED
      BY <2>1, <3>1
  <2>5. CASE prefix # Blank /\ res # Blank
    <3>1. /\ tag = <<prefix, "-", res>> /\ {prefix, "-", res} \subseteq Lexeme
          /\ words = {prefix, res}
      BY <1>2, <1>5, <2>5
    <3> QED
      BY <2>2, <3>1
  <2> QED
    BY <1>2, <2>3, <2>4, <2>5
<1>7. tag = Unknown => words = {}
  <2>1. \A w \in words : <<w>> # Unknown /\ \A v : <<w, "-", v>> # Unknown
    BY <1>3 DEF Unknown
  <2> QED
    BY <1>2, <2>1
<1> QED
  BY <1>3, <1>4, <1>6, <1>7 DEF tag, prefix

-----------------------------------------------------------------------------
\* A title with a word, and nothing in it that tells a quality or a group.
PlainTitle(title) ==
  /\ title \in Seq(Lexeme)
  /\ Range(title) \cap (Telling \cup {"[", "]"}) = {}
  /\ Range(title) \ Marks # {}

PlainYears == YearWord \subseteq Lexeme \ (Telling \cup Marks \cup {Blank})

\* The name of a library file without its extension.
Bare(title, year, tag) ==
  FolderName(title, year) \o (IF tag = Unknown THEN <<>> ELSE <<Space, "[">> \o tag \o <<"]">>)

(* A file name ends in its extension.                                       *)
LEMMA LastOfFile ==
  ASSUME NEW name \in Seq(Lexeme), NEW ext \in Lexeme
  PROVE  Last(name \o <<".", ext>>) = ext
<1> DEFINE e == <<".", ext>>
<1>1. "." \in Lexeme
  BY Zenon DEF Lexeme, Marks
<1>2. e \in Seq(Lexeme) /\ Len(e) = 2 /\ e[2] = ext /\ Len(name) \in Nat
  BY <1>1, LenProperties
<1> HIDE DEF e
<1>3. /\ Len(name \o e) = Len(name) + Len(e)
      /\ \A i \in 1..(Len(name) + Len(e)) :
           (name \o e)[i] = IF i <= Len(name) THEN name[i] ELSE e[i - Len(name)]
  BY <1>2, ConcatProperties
<1>4. (name \o e)[Len(name) + 2] = ext
  <2>1. /\ Len(name) + 2 \in 1..(Len(name) + Len(e)) /\ ~(Len(name) + 2 <= Len(name))
        /\ (Len(name) + 2) - Len(name) = 2
    BY <1>2
  <2> QED
    BY <1>2, <1>3, <2>1
<1> QED
  BY <1>2, <1>3, <1>4 DEF Last, e

(* A library name is taken apart down to the label it was given, and if it  *)
(* has a year nothing is taken for the name of a group.                     *)
LEMMA LibraryRest ==
  ASSUME PlainYears, NEW title, PlainTitle(title), NEW year \in YearWord \cup {Blank},
         NEW source, NEW res \in Resolution, NEW ext \in StrippedExts
  PROVE  LET name == FileName(title, year, QualityName(source, res), ext)
             rest == Rest(name)
         IN  /\ Last(name) = ext
             /\ rest \in Seq(Lexeme)
             /\ Range(rest) \cap Telling = {sourcePrefix(source), res} \ {Blank}
             /\ year # Blank => rest = Bare(title, year, QualityName(source, res))
<1> DEFINE tag == QualityName(source, res)
           words == {sourcePrefix(source), res} \ {Blank}
           F == FolderName(title, year)
           b == <<Space, "[">> \o tag \o <<"]">>
           a == F \o (IF tag = Unknown THEN <<>> ELSE b)
           rest == Rest(FileName(title, year, tag, ext))
<1>0. a = Bare(title, year, tag)
  BY Zenon DEF Bare
<1>1. /\ F \in Seq(Lexeme) /\ Range(F) \cap (Telling \cup {"[", "]"}) = {}
      /\ \E w \in Range(F) : w # Space
  <2>0. year \in Lexeme /\ (year = Blank \/ year \notin Telling \cup Marks)
    BY Zenon DEF PlainYears, Lexeme
  <2>1. /\ F \in Seq(Lexeme)
        /\ Range(F) \subseteq Range(title) \cup {Space, "-"} \cup (IF year = Blank THEN {} ELSE {"(", year, ")"})
        /\ Range(title) \ Marks \subseteq Range(F)
    <3>1. title \in Seq(Lexeme)
      BY DEF PlainTitle
    <3> QED
      BY <2>0, <3>1, FolderWords
  <2>2. {Space, "-", "(", ")"} \cap (Telling \cup {"[", "]"}) = {}
    <3>1. {Space, "-", "(", ")"} \subseteq Marks
      BY Zenon DEF Marks
    <3>2. {Space, "-", "(", ")"} \cap {"[", "]"} = {}
      BY Zenon DEF Space
    <3> QED
      BY <3>1, <3>2, MarksTellNothing
  <2>3. {"[", "]", Space} \subseteq Marks
    BY Zenon DEF Marks
  <2> HIDE DEF F
  <2>4. Range(F) \cap (Telling \cup {"[", "]"}) = {}
    BY <2>0, <2>1, <2>2, <2>3 DEF PlainTitle
  <2>5. \E w \in Range(F) : w # Space
    BY <2>1, <2>3 DEF PlainTitle
  <2> QED
    BY <2>1, <2>4, <2>5
<1>2. /\ tag # Unknown => /\ tag \in Seq(Lexeme) /\ Len(tag) >= 1
                            /\ words \subseteq Range(tag) /\ Range(tag) \subseteq words \cup {"-"}
      /\ tag = Unknown => words = {}
      /\ words \cap {"[", "]", "yts", "yify"} = {} /\ words \subseteq Telling
  BY LabelWords
<1>3. FileName(title, year, tag, ext) = a \o <<".", ext>>
  BY Zenon DEF FileName
<1>4. "." \in Lexeme /\ ext \in Lexeme
  BY Zenon DEF Lexeme, Marks
<1> HIDE DEF F, tag, words
<1>5. a \in Seq(Lexeme)
  <2>1. CASE tag = Unknown
    BY <1>1, <2>1, ConcatEmptySeq
  <2>2. CASE tag # Unknown
    <3>1. b \in Seq(Lexeme)
      BY <1>2, <2>2, LabelBracketed
    <3> HIDE DEF b
    <3> QED
      BY <1>1, <2>2, <3>1, ConcatProperties
  <2> QED
    BY <2>1, <2>2
<1> HIDE DEF a
<1>a. Last(a \o <<".", ext>>) = ext
  BY <1>4, <1>5, LastOfFile
<1>6. PICK lo \in 1..(Len(a) + 1) :
        /\ StripExt(Trim(a \o <<".", ext>>)) = SubSeq(a, lo, Len(a))
        /\ \A k \in 1..(lo - 1) : a[k] = Space
        /\ lo <= Len(a) => a[lo] # Space
  BY <1>4, <1>5, StripName
<1> DEFINE s == SubSeq(a, lo, Len(a))
<1>7. rest = extractGroup(s).rest
  BY <1>3, <1>6 DEF Rest
<1>8. /\ s \in Seq(Lexeme) /\ Range(s) = {a[k] : k \in lo..Len(a)}
      /\ Len(s) = IF lo <= Len(a) THEN Len(a) - lo + 1 ELSE 0
      /\ \A i \in 1..(Len(a) - lo + 1) : s[i] = a[lo + i - 1]
  <2>1. Len(a) \in Int /\ lo \in Int /\ lo >= 1 /\ Len(a) <= Len(a) /\ a \in Seq(Lexeme)
    BY <1>5, LenProperties
  <2> QED
    BY ONLY <2>1, SubSeqRange
<1> HIDE DEF s
<1>b. year # Blank => F # <<>> /\ F[1] # Space /\ F[Len(F)] = ")"
  <2> SUFFICES ASSUME year # Blank
               PROVE  F # <<>> /\ F[1] # Space /\ F[Len(F)] = ")"
    OBVIOUS
  <2> DEFINE S == Sanitize(title)
             y == <<Space, "(", year, ")">>
  <2>1. S \in Seq(Lexeme) /\ S # <<>> /\ S[1] # Space
    <3>1. /\ S \in Seq(Lexeme) /\ Range(title) \ Marks \subseteq Range(S)
          /\ S # <<>> => S[1] # Space
      BY SanitizeWords DEF PlainTitle
    <3>2. Range(S) # {}
      BY <3>1 DEF PlainTitle
    <3> QED
      BY <3>1, <3>2, TupleRange
  <2>2. y \in Seq(Lexeme) /\ Len(y) = 4 /\ y[4] = ")"
    <3>1. {Space, "(", year, ")"} \subseteq Lexeme
      BY Zenon DEF PlainYears, Lexeme, Marks
    <3> QED
      BY <3>1
  <2>3. F = S \o y
    BY Zenon DEF F, FolderName, Blank
  <2> HIDE DEF S, y
  <2>4. /\ Len(S \o y) = Len(S) + Len(y)
        /\ \A i \in 1..(Len(S) + Len(y)) :
             (S \o y)[i] = IF i <= Len(S) THEN S[i] ELSE y[i - Len(S)]
    <3>1. S \in Seq(Lexeme) /\ y \in Seq(Lexeme)
      BY <2>1, <2>2
    <3> QED
      BY ONLY <3>1, ConcatProperties
  <2>5. Len(S) \in Nat /\ Len(S) >= 1
    BY <2>1, EmptySeq
  <2>6. F[1] = S[1]
    BY <2>2, <2>3, <2>4, <2>5
  <2>7. Len(F) = Len(S) + 4 /\ F[Len(S) + 4] = ")"
    BY <2>2, <2>3, <2>4, <2>5
  <2>8. F # <<>>
    BY <1>1, <2>5, <2>7, EmptySeq
  <2> QED
    BY <2>1, <2>6, <2>7, <2>8
<1>c. year # Blank => s = a
  <2> SUFFICES ASSUME year # Blank
               PROVE  s = a
    OBVIOUS
  <2>1. Len(a) >= 1 /\ a[1] = F[1] /\ Len(a) \in Nat
    <3> DEFINE c == IF tag = Unknown THEN <<>> ELSE b
    <3>1. c \in Seq(Lexeme)
      <4>1. tag # Unknown => b \in Seq(Lexeme)
        BY <1>2, LabelBracketed
      <4>2. <<>> \in Seq(Lexeme)
        BY EmptySeq
      <4> HIDE DEF b
      <4> QED
        BY <4>1, <4>2
    <3>2. a = F \o c
      BY Zenon DEF a
    <3> HIDE DEF c
    <3>3. Len(F) \in Nat /\ Len(F) >= 1 /\ Len(c) \in Nat
      BY <1>1, <1>b, <3>1, EmptySeq, LenProperties
    <3>4. /\ Len(F \o c) = Len(F) + Len(c)
          /\ \A i \in 1..(Len(F) + Len(c)) :
               (F \o c)[i] = IF i <= Len(F) THEN F[i] ELSE c[i - Len(F)]
      <4>1. F \in Seq(Lexeme) /\ c \in Seq(Lexeme)
        BY <1>1, <3>1
      <4> QED
        BY ONLY <4>1, ConcatProperties
    <3>5. 1 \in 1..(Len(F) + Len(c)) /\ 1 <= Len(F)
      BY <3>3
    <3> QED
      BY <3>2, <3>3, <3>4, <3>5
  <2>2. lo = 1
    <3>1. lo # 1 => 1 \in 1..(lo - 1)
      BY <2>1
    <3> QED
      BY <1>6, <1>b, <2>1, <3>1
  <2> QED
    BY <1>5, <2>2, SubSeqFull DEF s
<1>9. CASE tag = Unknown
  <2>1. a = F
    BY <1>1, <1>9, ConcatEmptySeq DEF a
  <2>2. Range(s) \subseteq Range(F)
    <3>1. Len(a) \in Nat /\ Range(a) = {a[k] : k \in 1..Len(a)}
      BY <1>5, LenProperties, RangeEquality
    <3>2. lo..Len(a) \subseteq 1..Len(a)
      BY <3>1
    <3> QED
      BY <1>8, <2>1, <3>1, <3>2
  <2>3. \A k \in 1..Len(s) : s[k] # "["
    <3>1. Range(s) = {s[k] : k \in 1..Len(s)}
      BY <1>8, RangeEquality
    <3> QED
      BY <1>1, <2>2, <3>1
  <2>4. extractGroup(s).rest \in Seq(Lexeme) /\ Range(extractGroup(s).rest) \subseteq Range(s)
    BY <1>8, <2>3, PlainRest
  <2>5. year # Blank => rest = Bare(title, year, tag)
    <3>1. year # Blank => s[Len(s)] = ")"
      BY <1>b, <1>c, <2>1
    <3>2. year # Blank => extractGroup(s).rest = s
      BY <1>8, <2>3, <3>1, WholeRest
    <3> QED
      BY <1>0, <1>7, <1>c, <3>2
  <2> QED
    BY <1>1, <1>2, <1>3, <1>a, <1>7, <1>9, <2>2, <2>4, <2>5 DEF tag, words
<1>10. CASE tag # Unknown
  <2> DEFINE f == Len(F)
             l == Len(tag)
  <2>0. /\ f \in Nat /\ Range(F) = {F[k] : k \in 1..f}
        /\ l \in Nat /\ l >= 1 /\ Range(tag) = {tag[k] : k \in 1..l}
    BY <1>1, <1>2, <1>10, LenProperties, RangeEquality
  <2>1. /\ b \in Seq(Lexeme) /\ Len(b) = l + 3
        /\ b[1] = Space /\ b[2] = "[" /\ b[l + 3] = "]"
        /\ \A k \in 1..l : b[k + 2] = tag[k]
        /\ Range(b) = Range(tag) \cup {Space, "[", "]"}
    BY <1>2, <1>10, LabelBracketed
  <2> HIDE DEF b
  <2>2. a = F \o b
    BY <1>10 DEF a
  <2>3. Range(a) = Range(F) \cup Range(b)
    BY <1>1, <2>1, <2>2, ConcatRange
  <2>4. /\ Len(a) = f + Len(b)
        /\ \A i \in 1..(f + Len(b)) : a[i] = IF i <= f THEN F[i] ELSE b[i - f]
    <3>1. F \in Seq(Lexeme) /\ b \in Seq(Lexeme)
      BY <1>1, <2>1
    <3>2. /\ Len(F \o b) = Len(F) + Len(b)
          /\ \A i \in 1..(Len(F) + Len(b)) :
               (F \o b)[i] = IF i <= Len(F) THEN F[i] ELSE b[i - Len(F)]
      BY ONLY <3>1, ConcatProperties
    <3> QED
      BY <2>2, <3>2
  <2> HIDE DEF f, l
  <2>5. Len(a) = f + l + 3
    BY <2>0, <2>1, <2>4
  <2>6. /\ \A i \in 1..f : a[i] = F[i]
        /\ a[f + 1] = Space /\ a[f + 2] = "[" /\ a[f + l + 3] = "]"
        /\ \A k \in 1..l : a[f + 2 + k] = tag[k]
    <3>1. ASSUME NEW j \in 1..(l + 3)
          PROVE  a[f + j] = b[j]
      <4>1. f + j \in 1..(f + Len(b)) /\ ~(f + j <= f) /\ (f + j) - f = j
        BY <2>0, <2>1
      <4> QED
        BY <2>4, <4>1
    <3> QED
      BY <2>0, <2>1, <2>4, <3>1
  <2>7. ASSUME NEW j \in 1..(f + l + 3)
        PROVE  /\ a[j] = "[" <=> j = f + 2
               /\ a[j] = "]" <=> j = f + l + 3
               /\ j > f + 2 => a[j] \notin {"yts", "yify"}
    <3>0. Space \notin {"[", "]"}
      BY Zenon DEF Space
    <3>1. CASE j \in 1..f
      <4>1. a[j] \notin {"[", "]"}
        BY <1>1, <2>0, <2>6, <3>1
      <4> QED
        BY <2>0, <3>1, <4>1
    <3>2. CASE j = f + 1
      BY <2>0, <2>6, <3>0, <3>2
    <3>3. CASE j = f + 2
      BY <2>0, <2>6, <3>3
    <3>4. CASE j = f + l + 3
      BY <2>0, <2>6, <3>4
    <3>5. CASE j \in (f + 3)..(f + l + 2)
      <4> DEFINE i == j - (f + 2)
      <4>1. i \in 1..l /\ f + 2 + i = j
        BY <2>0, <3>5
      <4> HIDE DEF i
      <4>2. a[j] = tag[i] /\ tag[i] \in Range(tag)
        BY <2>0, <2>6, <4>1
      <4>a. a[j] \in words \cup {"-"}
        BY <1>2, <1>10, <4>2
      <4>3. a[j] \notin {"[", "]", "yts", "yify"}
        BY <1>2, <4>a
      <4> QED
        BY <2>0, <3>5, <4>3
    <3> QED
      BY <2>0, <3>1, <3>2, <3>3, <3>4, <3>5
  <2>8. lo <= f /\ lo \in Nat /\ lo >= 1
    <3>1. PICK k \in 1..f : F[k] # Space
      BY <1>1, <2>0
    <3>2. a[k] # Space
      BY <2>6, <3>1
    <3>3. ~(k \in 1..(lo - 1))
      BY <1>6, <3>2
    <3> QED
      BY <2>0, <2>5, <3>1, <3>3
  <2> DEFINE m == f + 3 - lo
  <2>9. /\ Len(s) = f + l + 4 - lo
        /\ \A i \in 1..(f + l + 4 - lo) : s[i] = a[lo + i - 1]
    BY <1>8, <2>0, <2>5, <2>8
  <2>10. m \in 2..(Len(s) - 2)
    BY <2>0, <2>8, <2>9
  <2>11. ASSUME NEW k \in 1..Len(s)
         PROVE  /\ s[k] = "[" <=> k = m
                /\ s[k] = "]" <=> k = Len(s)
                /\ k > m => s[k] \notin {"yts", "yify"}
    <3> DEFINE j == lo + k - 1
    <3>1. /\ j \in 1..(f + l + 3) /\ s[k] = a[j]
          /\ j = f + 2 <=> k = m
          /\ j = f + l + 3 <=> k = Len(s)
          /\ k > m => j > f + 2
      BY <2>0, <2>8, <2>9
    <3> HIDE DEF j, m
    <3> QED
      BY <2>7, <3>1
  <2> HIDE DEF m
  <2>12. extractGroup(s).rest = s
    BY <1>8, <2>10, <2>11, LabelKept
  <2>13. Range(s) \cap Telling = words
    <3>1. Range(s) \subseteq Range(F) \cup words \cup {"-", Space, "[", "]"}
      <4>1. Range(a) = {a[k] : k \in 1..(f + l + 3)}
        BY <1>5, <2>5, RangeEquality
      <4>2. Range(s) \subseteq Range(a)
        BY <1>8, <2>5, <2>8, <4>1
      <4> QED
        BY <1>2, <1>10, <2>1, <2>3, <4>2
    <3>2. {"-", Space, "[", "]"} \cap Telling = {}
      <4>1. {"-", Space, "[", "]"} \subseteq Marks
        BY Zenon DEF Marks
      <4> QED
        BY <4>1, MarksTellNothing
    <3>3. Range(tag) \subseteq Range(s)
      <4> SUFFICES ASSUME NEW k \in 1..l
                   PROVE  tag[k] \in Range(s)
        BY <2>0
      <4>1. f + 2 + k \in lo..Len(a)
        BY <2>0, <2>5, <2>8
      <4> QED
        BY <1>8, <2>6, <4>1
    <3> QED
      BY <1>1, <1>2, <1>10, <3>1, <3>2, <3>3
  <2> QED
    BY <1>0, <1>3, <1>a, <1>7, <1>8, <1>c, <2>12, <2>13 DEF tag, words
<1> QED
  BY <1>9, <1>10

(* Every quality that is parsed is one that quality.Weight ranks.           *)
THEOREM QualityKnown ==
  ASSUME NEW name \in Seq(Lexeme)
  PROVE  Parse(name).source \in Source /\ Parse(name).resolution \in Resolution
<1> DEFINE t == Trim(name)
<1>1. t \in Seq(Lexeme)
  BY TrimKeeps
<1> HIDE DEF t
<1>2. StripExt(t) \in Seq(Lexeme)
  <2>1. Len(t) \in Nat
    BY <1>1, LenProperties
  <2>2. Len(t) > 1 => SubSeq(t, 1, Len(t) - 2) \in Seq(Lexeme)
    BY <1>1, <2>1, SubSeqRange
  <2> QED
    BY <1>1, <2>2 DEF StripExt
<1>3. Rest(name) \in Seq(Lexeme)
  BY <1>2, GroupRest DEF Rest, t
<1>4. Seen(name) \in Seq(Lexeme)
  <2>1. Space \in Lexeme
    BY Zenon DEF Lexeme, Marks
  <2> QED
    BY <1>3, <2>1, SeenWords
<1> QED
  BY <1>4, ParseReads, SourceKnown, ResolutionKnown

(* The label of a library file is read back from its name.                  *)
LEMMA LabelReadBack ==
  ASSUME PlainYears, NEW title, PlainTitle(title), NEW year \in YearWord \cup {Blank},
         NEW source, NEW res \in Resolution, NEW ext \in StrippedExts
  PROVE  LET name == FileName(title, year, QualityName(source, res), ext)
         IN  /\ Last(name) = ext
             /\ QualityName(Parse(name).source, Parse(name).resolution) = QualityName(source, res)
<1> DEFINE name == FileName(title, year, QualityName(source, res), ext)
<1>1. /\ Last(name) = ext /\ Rest(name) \in Seq(Lexeme)
      /\ Range(Rest(name)) \cap Telling = {sourcePrefix(source), res} \ {Blank}
  BY LibraryRest
<1>2. Space \in Lexeme
  BY Zenon DEF Lexeme, Marks
<1> HIDE DEF name
<1>3. /\ Seen(name) \in Seq(Lexeme)
      /\ Range(Seen(name)) \cap Telling = {sourcePrefix(source), res} \ {Blank}
  BY <1>1, <1>2, SeenWords
<1>4. QualityName(detectSource(SubSeqs(Seen(name))), detectResolution(Seen(name), SubSeqs(Seen(name))))
        = QualityName(source, res)
  BY <1>3, LabelRead
<1> QED
  BY <1>1, <1>4, ParseReads DEF name

-----------------------------------------------------------------------------
(* The tokens of a title, of a year and of what follows them, once the      *)
(* brackets of a library name are spaces.                                   *)
LEMMA TitleAndYearFound ==
  ASSUME NEW X, NEW s \in Seq(X), NEW S \in Seq(X), NEW year \in X, year # Space,
         Len(S) + 4 <= Len(s), \A k \in 1..Len(S) : s[k] = S[k],
         s[Len(S) + 1] = Space, s[Len(S) + 2] = Space, s[Len(S) + 3] = year, s[Len(S) + 4] = Space
  PROVE  Fields(s) = Fields(S) \o (<<<<year>>>> \o Fields(SubSeq(s, Len(S) + 5, Len(s))))
<1> DEFINE n == Len(S)
           N == Len(s)
           y == <<year>>
<1>0. n \in Nat /\ N \in Nat /\ n + 4 <= N
  BY LenProperties
<1>1. Fields(SubSeq(s, 1, N)) = Fields(S) \o Fields(SubSeq(s, (n + 1) + 1, N))
  <2>1. /\ 1 \in 1..N /\ n + 1 \in 1..N /\ Len(S) = (n + 1) - 1
        /\ \A k \in 1..((n + 1) - 1) : s[1 + k - 1] = S[k]
    <3>1. \A k \in 1..n : 1 + k - 1 = k
      BY <1>0
    <3> QED
      BY <1>0, <3>1
  <2> QED
    BY <2>1, FieldsTail
<1>2. Fields(SubSeq(s, n + 2, N)) = Fields(SubSeq(s, (n + 2) + 1, N))
  <2>1. n + 2 \in 1..N
    BY <1>0
  <2> QED
    BY <2>1, FieldsOfSpace
<1>3. y \in Seq(X) /\ Len(y) = 1 /\ y[1] = year /\ y # <<>>
  OBVIOUS
<1>4. Fields(y) = <<y>>
  <2>1. \A k \in 1..Len(y) : y[k] # Space
    BY <1>3
  <2> HIDE DEF y
  <2> QED
    BY <1>3, <2>1, FieldsOne
<1> HIDE DEF y
<1>5. Fields(SubSeq(s, n + 3, N)) = Fields(y) \o Fields(SubSeq(s, (n + 4) + 1, N))
  <2>1. /\ n + 3 \in 1..N /\ n + 4 \in (n + 3)..N /\ Len(y) = (n + 4) - (n + 3)
        /\ \A k \in 1..((n + 4) - (n + 3)) : s[(n + 3) + k - 1] = y[k]
    BY <1>0, <1>3
  <2> QED
    BY <1>3, <2>1, FieldsTail
<1>6. (n + 1) + 1 = n + 2 /\ (n + 2) + 1 = n + 3 /\ (n + 4) + 1 = n + 5
  BY <1>0
<1>7. SubSeq(s, 1, N) = s
  BY SubSeqFull
<1> HIDE DEF n, N
<1>8. Fields(s) = Fields(S) \o (<<y>> \o Fields(SubSeq(s, n + 5, N)))
  BY <1>1, <1>2, <1>4, <1>5, <1>6, <1>7
<1> QED
  BY <1>8 DEF n, N, y

(* A word at the end, between two spaces and a last one.                    *)
LEMMA LabelFound ==
  ASSUME NEW X, NEW s \in Seq(X), NEW lo \in Nat, lo >= 1, NEW tag \in Seq(X), tag # <<>>,
         \A k \in 1..Len(tag) : tag[k] # Space,
         Len(s) = lo + Len(tag) + 2, s[lo] = Space, s[lo + 1] = Space, s[Len(s)] = Space,
         \A k \in 1..Len(tag) : s[lo + 1 + k] = tag[k]
  PROVE  Fields(SubSeq(s, lo, Len(s))) = <<tag>>
<1> DEFINE N == Len(s)
           l == Len(tag)
<1>0. N \in Nat /\ l \in Nat /\ N = lo + l + 2
  BY LenProperties
<1>1. Fields(SubSeq(s, lo, N)) = Fields(SubSeq(s, lo + 1, N))
  <2>1. lo \in 1..N
    BY <1>0
  <2> QED
    BY <2>1, FieldsOfSpace
<1>2. Fields(SubSeq(s, lo + 1, N)) = Fields(SubSeq(s, (lo + 1) + 1, N))
  <2>1. lo + 1 \in 1..N
    BY <1>0
  <2> QED
    BY <2>1, FieldsOfSpace
<1>3. Fields(SubSeq(s, lo + 2, N)) = Fields(tag) \o Fields(SubSeq(s, N + 1, N))
  <2>1. /\ lo + 2 \in 1..N /\ N \in (lo + 2)..N /\ Len(tag) = N - (lo + 2)
        /\ \A k \in 1..(N - (lo + 2)) : s[(lo + 2) + k - 1] = tag[k]
    <3>1. \A k \in 1..l : (lo + 2) + k - 1 = lo + 1 + k
      BY <1>0
    <3> QED
      BY <1>0, <3>1
  <2> QED
    BY <2>1, FieldsTail
<1>4. Fields(tag) = <<tag>>
  BY FieldsOne
<1>5. SubSeq(s, N + 1, N) = <<>>
  BY <1>0, SubSeqEmpty
<1>6. Fields(<<>>) = <<>>
  <2> DEFINE none == <<>>
  <2>1. none \in Seq(X) /\ Len(none) = 0 /\ \A k \in 1..0 : none[k] # Space
    BY EmptySeq
  <2> QED
    BY <2>1, FieldsOne
<1>7. <<tag>> \o <<>> = <<tag>>
  OBVIOUS
<1>8. (lo + 1) + 1 = lo + 2
  OBVIOUS
<1> HIDE DEF N, l
<1>9. Fields(SubSeq(s, lo, N)) = <<tag>>
  BY <1>1, <1>2, <1>3, <1>4, <1>5, <1>6, <1>7, <1>8
<1> QED
  BY <1>9 DEF N

(* The one of some positions beyond which there is none is the last.        *)
LEMMA MaxIs ==
  ASSUME NEW n \in Nat, NEW I \in SUBSET (1..n), NEW i \in I, \A j \in I : j <= i
  PROVE  Max(I) = i
<1>1. Max(I) \in I /\ i <= Max(I)
  BY MinMax
<1>2. i \in 1..n /\ Max(I) \in 1..n /\ Max(I) <= i
  BY <1>1
<1> QED
  BY <1>1, <1>2

(* The year before the quality ends the title, whatever comes after it.     *)
LEMMA TitleRead ==
  ASSUME NEW X, NEW T \in Seq(X), T # <<>>, NEW y \in X, NEW more \in Seq(X),
         \A i \in 1..Len(T) : T[i] \notin QualityToken, T[Len(T)] \notin TitleStripTok,
         y \in Words(YearWord), y \notin QualityToken,
         \A i \in 1..Len(more) : more[i] \notin Words(YearWord)
  PROVE  LET named == titleAndYear(T \o (<<y>> \o more))
         IN  named.title = T /\ named.year = y[1]
<1> DEFINE n == Len(T)
           m == Len(more)
           t == T \o (<<y>> \o more)
           N == Len(t)
<1>0. n \in Nat /\ m \in Nat /\ n >= 1 /\ n \in 1..n
  BY LenProperties, EmptySeq
<1>1. /\ t \in Seq(X) /\ N = n + 1 + m
      /\ \A i \in 1..n : t[i] = T[i]
      /\ t[n + 1] = y
      /\ \A i \in 1..m : t[n + 1 + i] = more[i]
  <2> DEFINE o == <<y>>
             u == o \o more
  <2>1. o \in Seq(X) /\ Len(o) = 1 /\ o[1] = y
    OBVIOUS
  <2> HIDE DEF o
  <2>2. /\ u \in Seq(X) /\ Len(u) = 1 + m
        /\ \A i \in 1..(1 + m) : u[i] = IF i <= 1 THEN o[i] ELSE more[i - 1]
    <3>1. o \in Seq(X) /\ more \in Seq(X)
      BY <2>1
    <3>2. /\ u \in Seq(X) /\ Len(u) = Len(o) + Len(more)
          /\ \A i \in 1..(Len(o) + Len(more)) : u[i] = IF i <= Len(o) THEN o[i] ELSE more[i - Len(o)]
      BY ONLY <3>1, ConcatProperties
    <3> QED
      BY <2>1, <3>2
  <2> HIDE DEF u
  <2>3. /\ T \o u \in Seq(X) /\ Len(T \o u) = n + Len(u)
        /\ \A i \in 1..(n + Len(u)) : (T \o u)[i] = IF i <= n THEN T[i] ELSE u[i - n]
    BY <2>2, ConcatProperties
  <2> DEFINE v == T \o u
  <2> HIDE DEF v
  <2>4. v = t
    BY DEF v, u, o
  <2> HIDE DEF n, m, t
  <2>5. v \in Seq(X) /\ Len(v) = n + 1 + m
    BY <1>0, <2>2, <2>3 DEF v
  <2>6. \A i \in 1..n : v[i] = T[i]
    BY <1>0, <2>2, <2>3 DEF v
  <2>7. v[n + 1] = y
    <3>1. n + 1 \in 1..(n + Len(u)) /\ ~(n + 1 <= n) /\ (n + 1) - n = 1 /\ 1 \in 1..(1 + m)
      BY <1>0, <2>2
    <3> QED
      BY <2>1, <2>2, <2>3, <3>1 DEF v
  <2>8. ASSUME NEW i \in 1..m
        PROVE  v[n + 1 + i] = more[i]
    <3>1. /\ n + 1 + i \in 1..(n + Len(u)) /\ ~(n + 1 + i <= n) /\ (n + 1 + i) - n = 1 + i
          /\ 1 + i \in 1..(1 + m) /\ ~(1 + i <= 1) /\ (1 + i) - 1 = i
      BY <1>0, <2>2
    <3> QED
      BY <2>2, <2>3, <3>1 DEF v
  <2> QED
    BY <2>4, <2>5, <2>6, <2>7, <2>8
<1> HIDE DEF t
<1>2. \A i \in 1..N : i \in 1..n \/ i = n + 1 \/ (i \in (n + 2)..N /\ \E j \in 1..m : i = n + 1 + j)
  <2>1. \A i \in 1..N : i \in 1..n \/ i = n + 1 \/ i \in (n + 2)..N
    BY <1>0, <1>1
  <2>2. \A i \in (n + 2)..N : i - (n + 1) \in 1..m /\ i = n + 1 + (i - (n + 1))
    BY <1>0, <1>1
  <2> HIDE DEF n, m, N
  <2> QED
    BY <2>1, <2>2
<1> DEFINE quality == SelectInSeq(t, LAMBDA token : token \in QualityToken)
           anchor == IF quality = 0 THEN N + 1 ELSE quality
           year == SelectLastInSubSeq(t, 1, anchor - 1, LAMBDA token : token \in Words(YearWord))
           end == IF year = 0 THEN anchor - 1 ELSE year - 1
           last == SelectLastInSubSeq(t, 1, end, LAMBDA token : token \notin TitleStripTok)
<1>3. anchor \in (n + 2)..(N + 1)
  <2> DEFINE I == {i \in 1..N : t[i] \in QualityToken}
  <2>1. quality = IF I # {} THEN Min(I) ELSE 0
    BY DEF SelectInSeq
  <2>2. I \subseteq (n + 2)..N
    BY <1>1, <1>2
  <2>3. I \in SUBSET (1..N) /\ N \in Nat
    BY <1>0, <1>1
  <2> HIDE DEF I, quality, N
  <2>4. I # {} => Min(I) \in (n + 2)..N
    BY <2>2, <2>3, MinMax
  <2> QED
    BY <1>0, <1>1, <2>1, <2>3, <2>4 DEF N
<1>4. year = n + 1
  <2> DEFINE I == {i \in 1..(anchor - 1) : t[i] \in Words(YearWord)}
  <2>1. year = IF I # {} THEN Max(I) ELSE 0
    BY DEF SelectLastInSubSeq
  <2> HIDE DEF anchor, year, N
  <2>2. /\ anchor - 1 \in Nat /\ n + 1 \in 1..(anchor - 1)
        /\ \A i \in 1..(anchor - 1) : i \in 1..N
    BY <1>0, <1>1, <1>3 DEF N
  <2>3. n + 1 \in I /\ I \in SUBSET (1..(anchor - 1))
    BY <1>1, <2>2
  <2>4. \A i \in I : i <= n + 1
    <3> SUFFICES ASSUME NEW i \in 1..(anchor - 1), i > n + 1
                 PROVE  t[i] \notin Words(YearWord)
      BY <1>0, <2>2
    <3>1. i \in 1..N /\ i \notin 1..n /\ i # n + 1
      BY <1>0, <2>2
    <3>2. PICK j \in 1..m : i = n + 1 + j
      BY <1>2, <3>1
    <3> QED
      BY <1>1, <3>2
  <2> HIDE DEF I
  <2>5. Max(I) = n + 1
    BY <2>2, <2>3, <2>4, MaxIs
  <2> QED
    BY <2>1, <2>3, <2>5
<1>5. end = n
  BY <1>0, <1>4
<1> HIDE DEF year, end
<1>6. last = n
  <2> DEFINE I == {i \in 1..end : t[i] \notin TitleStripTok}
  <2>1. last = IF I # {} THEN Max(I) ELSE 0
    BY DEF SelectLastInSubSeq
  <2>2. I \in SUBSET (1..n) /\ n \in I /\ \A i \in I : i <= n
    BY <1>0, <1>1, <1>5
  <2> HIDE DEF I, n
  <2>3. Max(I) = n
    BY <1>0, <2>2, MaxIs
  <2> QED
    BY <2>1, <2>2, <2>3
<1>7. SubSeq(t, 1, n) = T
  <2>1. 1 \in Int /\ n \in Int /\ n <= Len(t) /\ 1 <= n /\ n - 1 + 1 = n
    BY <1>0, <1>1
  <2>2. /\ SubSeq(t, 1, n) \in Seq(X)
        /\ Len(SubSeq(t, 1, n)) = IF 1 <= n THEN n - 1 + 1 ELSE 0
        /\ \A i \in 1..(n - 1 + 1) : SubSeq(t, 1, n)[i] = t[1 + i - 1]
    BY <1>1, <2>1, SubSeqRange
  <2>3. \A i \in 1..n : 1 + i - 1 = i
    BY <1>0
  <2> QED
    BY <1>1, <2>1, <2>2, <2>3, SeqEqual
<1>8. /\ titleAndYear(t).title = SubSeq(t, 1, last)
      /\ year # 0 => titleAndYear(t).year = t[year][1]
  BY Zenon DEF titleAndYear, last, end, year, anchor, quality, N
<1> HIDE DEF last, n
<1>9. year # 0 /\ t[year] = y
  BY <1>0, <1>1, <1>4
<1> QED
  BY <1>6, <1>7, <1>8, <1>9 DEF t

\* A film whose title can be told from the year and the label behind it: no dot
\* or bracket in it, no dash beside a word that reads as a year, no word that
\* ends a title, and none of an edition or a language at its end.
PlainFilm(title) ==
  LET S == Sanitize(title)
      tokens == Fields(S)
  IN  /\ PlainTitle(title)
      /\ Range(title) \cap Breaks = {}
      /\ \A k \in DOMAIN S : S[k] = "-" => /\ k > 1 => S[k - 1] \notin YearWord
                                           /\ k < Len(S) => S[k + 1] \notin YearWord
      /\ \A i \in DOMAIN tokens : tokens[i] \notin QualityToken
      /\ Last(tokens) \notin TitleStripTok

\* How the characters of the name a stand, its brackets and dots made spaces: the
\* file system's form S of the title, the year, the label.
Laid(a, S, year, tag) ==
  LET n == Len(S)
      r == Spaced(a)
  IN  /\ a \in Seq(Lexeme) /\ DOMAIN r = 1..Len(a)
      /\ Len(a) = n + 4 + (IF tag = Unknown THEN 0 ELSE Len(tag) + 3)
      /\ \A k \in 1..n : r[k] = S[k]
      /\ r[n + 1] = Space /\ r[n + 2] = Space /\ r[n + 3] = year /\ r[n + 4] = Space
      /\ tag # Unknown => /\ r[n + 5] = Space /\ r[n + 6] = Space /\ r[Len(a)] = Space
                          /\ \A k \in 1..Len(tag) : r[n + 6 + k] = tag[k]

(* That is how they stand in a library name.                                *)
LEMMA BareSpaced ==
  ASSUME PlainYears, NEW title, PlainFilm(title), NEW year \in YearWord,
         NEW source, NEW res \in Resolution
  PROVE  LET tag == QualityName(source, res)
         IN  Laid(Bare(title, year, tag), Sanitize(title), year, tag)
<1> DEFINE S == Sanitize(title)
           n == Len(S)
           tag == QualityName(source, res)
           y == <<Space, "(", year, ")">>
           b == <<Space, "[">> \o tag \o <<"]">>
           F == S \o y
           a == Bare(title, year, tag)
           r == Spaced(a)
<1>1. S \in Seq(Lexeme) /\ n \in Nat /\ \A k \in 1..n : S[k] \notin Breaks
  <2>1. S \in Seq(Lexeme) /\ Range(S) \subseteq Range(title) \cup {Space, "-"}
    BY SanitizeWords DEF PlainFilm, PlainTitle
  <2>2. Range(title) \cap Breaks = {}
    BY DEF PlainFilm
  <2>3. {Space, "-"} \cap Breaks = {}
    BY Zenon DEF Breaks, Space
  <2> HIDE DEF S
  <2>4. Range(S) = {S[k] : k \in 1..n} /\ n \in Nat
    BY <2>1, RangeEquality, LenProperties
  <2> QED
    BY <2>1, <2>2, <2>3, <2>4
<1>2. Space \notin Breaks /\ year \notin Breaks /\ {"(", ")", "[", "]"} \subseteq Breaks
  <2>1. Breaks \subseteq Marks
    BY Zenon DEF Breaks, Marks
  <2>2. year \notin Marks
    BY Zenon DEF PlainYears
  <2>3. Space \notin Breaks /\ {"(", ")", "[", "]"} \subseteq Breaks
    BY Zenon DEF Breaks, Space
  <2> QED
    BY <2>1, <2>2, <2>3
<1>3. y \in Seq(Lexeme) /\ Len(y) = 4 /\ y[1] = Space /\ y[2] = "(" /\ y[3] = year /\ y[4] = ")"
  <2>1. {Space, "(", year, ")"} \subseteq Lexeme
    BY Zenon DEF PlainYears, Lexeme, Marks
  <2> QED
    BY <2>1
<1>4. tag # Unknown => /\ tag \in Seq(Lexeme) /\ Len(tag) \in Nat
                       /\ \A k \in 1..Len(tag) : tag[k] \notin Breaks
  <2> DEFINE words == {sourcePrefix(source), res} \ {Blank}
  <2>1. /\ tag # Unknown => tag \in Seq(Lexeme) /\ Range(tag) \subseteq words \cup {"-"}
        /\ words \subseteq Telling
    BY LabelWords
  <2>2. (Telling \cup {"-"}) \cap Breaks = {}
    <3>1. Breaks \subseteq Marks /\ "-" \notin Breaks
      BY Zenon DEF Breaks, Marks
    <3> QED
      BY <3>1, MarksTellNothing
  <2> HIDE DEF tag, words
  <2>3. tag \in Seq(Lexeme) => Range(tag) = {tag[k] : k \in 1..Len(tag)} /\ Len(tag) \in Nat
    BY RangeEquality, LenProperties
  <2> QED
    BY <2>1, <2>2, <2>3
<1>5. a = F \o (IF tag = Unknown THEN <<>> ELSE b)
  <2>1. year # Blank
    BY Zenon DEF PlainYears
  <2> QED
    BY <2>1, Zenon DEF Bare, FolderName, Blank
<1> HIDE DEF S, y, tag
<1>6. /\ F \in Seq(Lexeme) /\ Len(F) = n + 4 /\ \A k \in 1..n : F[k] = S[k]
      /\ F[n + 1] = Space /\ F[n + 2] = "(" /\ F[n + 3] = year /\ F[n + 4] = ")"
  <2>1. /\ F \in Seq(Lexeme) /\ Len(F) = Len(S) + Len(y)
        /\ \A i \in 1..(Len(S) + Len(y)) : F[i] = IF i <= Len(S) THEN S[i] ELSE y[i - Len(S)]
    <3>1. S \in Seq(Lexeme) /\ y \in Seq(Lexeme)
      BY <1>1, <1>3
    <3> QED
      BY ONLY <3>1, ConcatProperties
  <2> HIDE DEF F
  <2>2. \A i \in 1..n : i \in 1..(n + 4) /\ i <= n
    BY <1>1
  <2>3. \A i \in 1..4 : n + i \in 1..(n + 4) /\ ~(n + i <= n) /\ (n + i) - n = i
    BY <1>1
  <2> HIDE DEF n
  <2>4. Len(F) = n + 4 /\ \A i \in 1..(n + 4) : F[i] = IF i <= n THEN S[i] ELSE y[i - n]
    BY <1>3, <2>1 DEF n
  <2>5. \A i \in 1..4 : F[n + i] = y[i]
    BY <2>3, <2>4
  <2> QED
    BY <1>3, <2>1, <2>2, <2>4, <2>5
<1> HIDE DEF F, n
<1>7. CASE tag = Unknown
  <2>1. a = F
    BY <1>5, <1>6, <1>7, ConcatEmptySeq
  <2> HIDE DEF a
  <2>2. DOMAIN a = 1..(n + 4) /\ n \in Nat
    BY <1>1, <1>6, <2>1, LenProperties
  <2>3. DOMAIN r = 1..(n + 4) /\ \A k \in 1..(n + 4) : r[k] = IF F[k] \in Breaks THEN Space ELSE F[k]
    BY <2>1, <2>2 DEF Spaced
  <2> HIDE DEF r
  <2>4. /\ \A k \in 1..n : k \in 1..(n + 4)
        /\ {n + 1, n + 2, n + 3, n + 4} \subseteq 1..(n + 4)
    BY <1>1
  <2>5. /\ \A k \in 1..n : r[k] = S[k]
        /\ r[n + 1] = Space /\ r[n + 2] = Space /\ r[n + 3] = year /\ r[n + 4] = Space
    BY <1>1, <1>2, <1>6, <2>3, <2>4
  <2>6. Len(a) = n + 4 + 0
    BY <1>1, <1>6, <2>1
  <2>7. DOMAIN r = 1..Len(a)
    BY <1>6, <2>1, <2>3
  <2> QED
    BY <1>6, <1>7, <2>1, <2>5, <2>6, <2>7 DEF Laid, r, a, n, S, tag
<1>8. CASE tag # Unknown
  <2> DEFINE l == Len(tag)
  <2>1. /\ b \in Seq(Lexeme) /\ Len(b) = l + 3
        /\ b[1] = Space /\ b[2] = "[" /\ b[l + 3] = "]"
        /\ \A k \in 1..l : b[k + 2] = tag[k]
    BY <1>4, <1>8, LabelBracketed
  <2> HIDE DEF b
  <2>2. a = F \o b
    BY <1>5, <1>8
  <2> HIDE DEF a
  <2>3. /\ a \in Seq(Lexeme) /\ Len(a) = Len(F) + Len(b)
        /\ \A i \in 1..(Len(F) + Len(b)) : a[i] = IF i <= Len(F) THEN F[i] ELSE b[i - Len(F)]
    <3>1. F \in Seq(Lexeme) /\ b \in Seq(Lexeme)
      BY <1>6, <2>1
    <3>2. /\ F \o b \in Seq(Lexeme) /\ Len(F \o b) = Len(F) + Len(b)
          /\ \A i \in 1..(Len(F) + Len(b)) : (F \o b)[i] = IF i <= Len(F) THEN F[i] ELSE b[i - Len(F)]
      BY ONLY <3>1, ConcatProperties
    <3> QED
      BY <2>2, <3>2
  <2> DEFINE N == n + 4 + (l + 3)
  <2>4. l \in Nat /\ n \in Nat
    BY <1>1, <1>4, <1>8
  <2>5. Len(a) = N /\ \A i \in 1..N : a[i] = IF i <= n + 4 THEN F[i] ELSE b[i - (n + 4)]
    BY <1>6, <2>1, <2>3
  <2> HIDE DEF l
  <2>6. DOMAIN a = 1..N
    BY <2>3, <2>5, LenProperties
  <2>7. DOMAIN r = 1..N /\ \A k \in 1..N : r[k] = IF a[k] \in Breaks THEN Space ELSE a[k]
    BY <2>6 DEF Spaced
  <2> HIDE DEF r
  <2>8. ASSUME NEW i \in 1..(n + 4)
        PROVE  r[i] = IF F[i] \in Breaks THEN Space ELSE F[i]
    <3>1. i \in 1..N /\ i <= n + 4
      BY <2>4
    <3> HIDE DEF N
    <3> QED
      BY <2>5, <2>7, <3>1
  <2>9. ASSUME NEW j \in 1..(l + 3)
        PROVE  r[n + 4 + j] = IF b[j] \in Breaks THEN Space ELSE b[j]
    <3>1. n + 4 + j \in 1..N /\ ~(n + 4 + j <= n + 4) /\ (n + 4 + j) - (n + 4) = j
      BY <2>4
    <3> HIDE DEF N
    <3>2. a[n + 4 + j] = b[j]
      BY <2>5, <3>1
    <3> QED
      BY <2>7, <3>1, <3>2
  <2>10. /\ \A k \in 1..n : r[k] = S[k]
         /\ r[n + 1] = Space /\ r[n + 2] = Space /\ r[n + 3] = year /\ r[n + 4] = Space
    <3>1. /\ \A k \in 1..n : k \in 1..(n + 4)
          /\ {n + 1, n + 2, n + 3, n + 4} \subseteq 1..(n + 4)
      BY <2>4
    <3> QED
      BY <1>1, <1>2, <1>6, <2>8, <3>1
  <2>11. r[n + 4 + 1] = Space /\ r[n + 4 + 2] = Space /\ r[n + 4 + (l + 3)] = Space
    <3>1. {1, 2, l + 3} \subseteq 1..(l + 3)
      BY <2>4
    <3> QED
      BY <1>2, <2>1, <2>9, <3>1 DEF l
  <2>12. ASSUME NEW k \in 1..l
         PROVE  r[n + 4 + (k + 2)] = tag[k]
    <3>1. k + 2 \in 1..(l + 3)
      BY <2>4
    <3>2. r[n + 4 + (k + 2)] = IF b[k + 2] \in Breaks THEN Space ELSE b[k + 2]
      BY <2>9, <3>1
    <3>3. b[k + 2] = tag[k] /\ tag[k] \notin Breaks
      BY <1>4, <1>8, <2>1 DEF l
    <3> QED
      BY <3>2, <3>3
  <2>13. /\ n + 4 + 1 = n + 5 /\ n + 4 + 2 = n + 6
         /\ \A k \in 1..l : n + 4 + (k + 2) = n + 6 + k
    BY <2>4
  <2>14. /\ r[n + 5] = Space /\ r[n + 6] = Space /\ r[Len(a)] = Space
         /\ \A k \in 1..l : r[n + 6 + k] = tag[k]
    BY <2>5, <2>11, <2>12, <2>13
  <2>15. DOMAIN r = 1..Len(a)
    BY <2>5, <2>7
  <2> QED
    BY <1>8, <2>3, <2>5, <2>10, <2>14, <2>15 DEF Laid, r, a, n, l, S, tag
<1> QED
  BY <1>7, <1>8

(* The tokens of a library name: those of the title, the year, the label.   *)
LEMMA LibraryTokens ==
  ASSUME PlainYears, NEW title, PlainFilm(title), NEW year \in YearWord,
         NEW source, NEW res \in Resolution
  PROVE  LET tag == QualityName(source, res)
         IN  normalize(Bare(title, year, tag))
               = Fields(Sanitize(title)) \o (<<<<year>>>> \o (IF tag = Unknown THEN <<>> ELSE <<tag>>))
<1> DEFINE S == Sanitize(title)
           n == Len(S)
           tag == QualityName(source, res)
           a == Bare(title, year, tag)
           r == Spaced(a)
           l == Len(tag)
           rest == IF tag = Unknown THEN <<>> ELSE <<tag>>
<1>1. /\ a \in Seq(Lexeme) /\ DOMAIN r = 1..Len(a)
      /\ Len(a) = n + 4 + (IF tag = Unknown THEN 0 ELSE Len(tag) + 3)
      /\ \A k \in 1..n : r[k] = S[k]
      /\ r[n + 1] = Space /\ r[n + 2] = Space /\ r[n + 3] = year /\ r[n + 4] = Space
      /\ tag # Unknown => /\ r[n + 5] = Space /\ r[n + 6] = Space /\ r[Len(a)] = Space
                          /\ \A k \in 1..Len(tag) : r[n + 6 + k] = tag[k]
  <2>1. Laid(a, S, year, tag)
    BY BareSpaced
  <2> HIDE DEF S, tag, a
  <2> QED
    BY <2>1, Zenon DEF Laid
<1>2. S \in Seq(Lexeme) /\ n \in Nat
  <2>1. S \in Seq(Lexeme)
    BY SanitizeWords DEF PlainFilm, PlainTitle
  <2> HIDE DEF S
  <2> QED
    BY <2>1, LenProperties
<1>3. Space # "-" /\ Space \notin YearWord /\ year # "-" /\ year # Space /\ year \in Lexeme /\ Space \in Lexeme
  <2>1. Space # "-" /\ Space \in Marks /\ "-" \in Marks
    BY Zenon DEF Marks, Space
  <2>2. year \in Lexeme \ Marks /\ Space \notin YearWord
    BY <2>1, Zenon DEF PlainYears
  <2> QED
    BY <2>1, <2>2, Zenon DEF Lexeme
<1>4. tag # Unknown => /\ tag \in Seq(Lexeme) /\ l \in Nat /\ l >= 1
                       /\ \A k \in 1..l : tag[k] # Space /\ tag[k] \notin YearWord
  <2> DEFINE words == {sourcePrefix(source), res} \ {Blank}
  <2>1. /\ tag # Unknown => tag \in Seq(Lexeme) /\ l >= 1 /\ Range(tag) \subseteq words \cup {"-"}
        /\ words \subseteq Telling
    BY LabelWords
  <2>2. (Telling \cup {"-"}) \cap ({Space} \cup YearWord) = {}
    <3>1. Space \in Marks /\ "-" \in Marks
      BY Zenon DEF Marks
    <3>2. YearWord \cap (Telling \cup Marks) = {}
      BY Zenon DEF PlainYears
    <3> HIDE DEF Marks
    <3> QED
      BY <1>3, <3>1, <3>2, MarksTellNothing
  <2> HIDE DEF tag, words
  <2>3. tag \in Seq(Lexeme) => Range(tag) = {tag[k] : k \in 1..l} /\ l \in Nat
    BY RangeEquality, LenProperties
  <2> HIDE DEF l
  <2> QED
    BY <2>1, <2>2, <2>3
<1>5. \A k \in 1..n : S[k] = "-" => /\ k > 1 => S[k - 1] \notin YearWord
                                    /\ k < n => S[k + 1] \notin YearWord
  <2>1. \A k \in DOMAIN S : S[k] = "-" => /\ k > 1 => S[k - 1] \notin YearWord
                                          /\ k < n => S[k + 1] \notin YearWord
    BY Zenon DEF PlainFilm
  <2>2. DOMAIN S = 1..n
    BY <1>2, LenProperties
  <2> HIDE DEF S, n
  <2> QED
    BY <2>1, <2>2
<1> HIDE DEF S, n, tag, l, a
<1>6. /\ Len(a) = n + 4 + (IF tag = Unknown THEN 0 ELSE l + 3)
      /\ tag # Unknown => \A k \in 1..l : r[n + 6 + k] = tag[k]
  BY <1>1 DEF l
<1> HIDE DEF r
<1>7. ASSUME NEW k \in Dashes(r)
      PROVE  r[k - 1] \notin YearWord /\ r[k + 1] \notin YearWord
  <2> DEFINE N == Len(a)
  <2>1. k \in 2..(N - 1) /\ r[k] = "-" /\ N \in Nat
    <3>1. N \in Nat /\ r \in Seq(Lexeme) /\ Len(r) = N
      <4>1. N \in Nat
        BY <1>1, LenProperties
      <4>2. r = [i \in 1..N |-> r[i]]
        BY <1>1 DEF r, Spaced
      <4>3. \A i \in 1..N : a[i] \in Lexeme
        BY <1>1, ElementOfSeq
      <4>4. \A i \in 1..N : r[i] \in Lexeme
        BY <1>1, <1>3, <4>3 DEF r, Spaced
      <4>5. r \in [1..N -> Lexeme]
        BY <4>2, <4>4
      <4> QED
        BY <4>1, <4>5
    <3> QED
      BY <3>1 DEF Dashes
  <2>2. CASE k <= n
    <3>0. k \in 1..n /\ k - 1 \in 1..n /\ k > 1 /\ (k < n => k + 1 \in 1..n) /\ (~(k < n) => k = n)
      BY <1>2, <2>1, <2>2
    <3>1. S[k] = "-"
      BY <1>1, <2>1, <3>0
    <3>2. r[k - 1] = S[k - 1]
      BY <1>1, <3>0
    <3>3. k < n => r[k + 1] = S[k + 1]
      BY <1>1, <3>0
    <3>4. ~(k < n) => r[k + 1] = Space
      BY <1>1, <3>0
    <3> QED
      BY <1>3, <1>5, <3>0, <3>1, <3>2, <3>3, <3>4
  <2>3. CASE k > n
    <3>1. k # n + 1 /\ k # n + 2 /\ k # n + 3 /\ k # n + 4
      BY <1>1, <1>3, <2>1
    <3>2. tag # Unknown /\ k > n + 4
      BY <1>2, <1>6, <2>1, <2>3, <3>1
    <3>3. k # n + 5 /\ k # n + 6 /\ k # N /\ N = n + 4 + (l + 3)
      BY <1>1, <1>3, <1>6, <2>1, <3>2
    <3>4. PICK j \in 1..l : k = n + 6 + j
      <4>1. k - (n + 6) \in 1..l /\ k = n + 6 + (k - (n + 6))
        BY <1>2, <1>4, <2>1, <3>2, <3>3
      <4> QED
        BY <4>1
    <3>5. r[k - 1] \notin YearWord
      <4>1. j # 1 => j - 1 \in 1..l /\ k - 1 = n + 6 + (j - 1)
        BY <1>2, <1>4, <3>2, <3>4
      <4>2. j = 1 => k - 1 = n + 6
        BY <1>2, <3>4
      <4> QED
        BY <1>1, <1>3, <1>4, <1>6, <3>2, <4>1, <4>2, SMTT(20)
    <3>6. r[k + 1] \notin YearWord
      <4>1. j # l => j + 1 \in 1..l /\ k + 1 = n + 6 + (j + 1)
        BY <1>2, <1>4, <3>2, <3>4
      <4>2. j = l => k + 1 = N
        BY <1>2, <1>4, <3>2, <3>3, <3>4
      <4> QED
        BY <1>1, <1>3, <1>4, <1>6, <3>2, <4>1, <4>2
    <3> QED
      BY <3>5, <3>6
  <2> QED
    BY <1>2, <2>1, <2>2, <2>3
<1>8. r \in Seq(Lexeme) /\ Len(r) = Len(a) /\ normalize(a) = Fields(r)
  BY <1>1, <1>3, <1>7, NormalizePlain DEF r
<1>9. Fields(r) = Fields(S) \o (<<<<year>>>> \o Fields(SubSeq(r, n + 5, Len(r))))
  <2>1. n + 4 <= Len(r)
    BY <1>2, <1>4, <1>6, <1>8
  <2>2. /\ Len(S) + 4 <= Len(r) /\ \A k \in 1..Len(S) : r[k] = S[k]
        /\ r[Len(S) + 1] = Space /\ r[Len(S) + 2] = Space
        /\ r[Len(S) + 3] = year /\ r[Len(S) + 4] = Space
    BY <1>1, <2>1 DEF n
  <2>3. r \in Seq(Lexeme) /\ S \in Seq(Lexeme) /\ year \in Lexeme /\ year # Space
    BY <1>2, <1>3, <1>8
  <2>4. Fields(r) = Fields(S) \o (<<<<year>>>> \o Fields(SubSeq(r, Len(S) + 5, Len(r))))
    BY ONLY <2>2, <2>3, TitleAndYearFound
  <2> QED
    BY <2>4 DEF n
<1>10. Fields(SubSeq(r, n + 5, Len(r))) = rest
  <2>1. CASE tag = Unknown
    <3>1. SubSeq(r, n + 5, Len(r)) = <<>>
      <4>1. Len(r) = n + 4 /\ n + 5 \in Int /\ n + 4 \in Int /\ n + 5 > n + 4
        BY <1>2, <1>6, <1>8, <2>1
      <4> QED
        BY <1>8, <4>1, SubSeqEmpty
    <3>2. Fields(<<>>) = <<>>
      <4> DEFINE none == <<>>
      <4>1. none \in Seq(Lexeme) /\ Len(none) = 0 /\ \A k \in 1..0 : none[k] # Space
        BY EmptySeq
      <4> QED
        BY <4>1, FieldsOne
    <3> QED
      BY <2>1, <3>1, <3>2
  <2>2. CASE tag # Unknown
    <3>1. /\ tag \in Seq(Lexeme) /\ tag # <<>> /\ n + 5 \in Nat /\ n + 5 >= 1
          /\ \A k \in 1..Len(tag) : tag[k] # Space
      BY <1>2, <1>4, <2>2, EmptySeq DEF l
    <3>2. /\ Len(r) = (n + 5) + Len(tag) + 2
          /\ r[n + 5] = Space /\ r[(n + 5) + 1] = Space /\ r[Len(r)] = Space
      <4>1. (n + 5) + 1 = n + 6
        BY <1>2
      <4>2. Len(r) = (n + 5) + l + 2
        BY <1>2, <1>4, <1>6, <1>8, <2>2
      <4> QED
        BY <1>1, <1>8, <2>2, <4>1, <4>2 DEF l
    <3>3. \A k \in 1..Len(tag) : r[(n + 5) + 1 + k] = tag[k]
      <4>1. \A k \in 1..l : (n + 5) + 1 + k = n + 6 + k
        BY <1>2, <1>4, <2>2
      <4> QED
        BY <1>6, <2>2, <4>1 DEF l
    <3>4. Fields(SubSeq(r, n + 5, Len(r))) = <<tag>>
      BY <1>8, <3>1, <3>2, <3>3, LabelFound
    <3> QED
      BY <2>2, <3>4
  <2> QED
    BY <2>1, <2>2
<1> HIDE DEF rest
<1>11. normalize(a) = Fields(S) \o (<<<<year>>>> \o rest)
  BY <1>8, <1>9, <1>10
<1> QED
  BY <1>11 DEF a, S, rest, tag

\* No word is a year and a token of quality.
YearsApart == Words(YearWord) \cap QualityToken = {}

(* The title and the year of a film are read back from its library name.    *)
LEMMA NameReadBack ==
  ASSUME PlainYears, YearsApart, NEW title, PlainFilm(title), NEW year \in YearWord,
         NEW source, NEW res \in Resolution, NEW ext \in StrippedExts
  PROVE  LET name == FileName(title, year, QualityName(source, res), ext)
         IN  Parse(name).title = Fields(Sanitize(title)) /\ Parse(name).year = year
<1> DEFINE tag == QualityName(source, res)
           name == FileName(title, year, tag, ext)
           S == Sanitize(title)
           T == Fields(S)
           X == Seq(Lexeme)
           y == <<year>>
           more == IF tag = Unknown THEN <<>> ELSE <<tag>>
           named == titleAndYear(normalize(Rest(name)))
<1>1. Rest(name) = Bare(title, year, tag)
  <2>1. PlainTitle(title) /\ year \in YearWord \cup {Blank} /\ year # Blank
    BY Zenon DEF PlainFilm, PlainYears
  <2> QED
    BY <2>1, LibraryRest
<1>2. normalize(Bare(title, year, tag)) = T \o (<<y>> \o more)
  BY LibraryTokens
<1>3. Parse(name).title = named.title /\ Parse(name).year = named.year
  BY Zenon DEF Parse, Rest
<1>4. T \in Seq(X) /\ T # <<>>
  <2>1. title \in Seq(Lexeme) /\ Range(title) \ Marks # {}
    BY DEF PlainFilm, PlainTitle
  <2>2. S \in Seq(Lexeme) /\ Range(title) \ Marks \subseteq Range(S)
    BY <2>1, SanitizeWords
  <2> HIDE DEF S
  <2>3. T \in Seq(Seq(Lexeme)) /\ Parts(T) = Range(S) \ {Space}
    BY <2>2, FieldsWords
  <2>4. Space \in Marks
    BY Zenon DEF Marks
  <2>5. Parts(T) # {}
    BY <2>1, <2>2, <2>3, <2>4
  <2> HIDE DEF T
  <2>6. T = <<>> => Parts(T) = {}
    BY DEF Parts
  <2> QED
    BY <2>3, <2>5, <2>6
<1>5. /\ \A i \in 1..Len(T) : T[i] \notin QualityToken
      /\ T[Len(T)] \notin TitleStripTok
  <2>1. /\ \A i \in DOMAIN T : T[i] \notin QualityToken
        /\ Last(T) \notin TitleStripTok
    BY Zenon DEF PlainFilm
  <2> HIDE DEF T
  <2> QED
    BY <1>4, <2>1 DEF Last
<1>6. y \in X /\ y \in Words(YearWord) /\ y[1] = year /\ y \notin QualityToken
  <2>1. year \in Lexeme
    BY Zenon DEF PlainYears
  <2>2. y \in Words(YearWord)
    BY DEF Words
  <2> QED
    BY <2>1, <2>2 DEF YearsApart
<1>7. more \in Seq(X) /\ \A i \in 1..Len(more) : more[i] \notin Words(YearWord)
  <2> DEFINE words == {sourcePrefix(source), res} \ {Blank}
  <2>1. /\ tag # Unknown => /\ tag \in Seq(Lexeme) /\ Range(tag) \subseteq words \cup {"-"}
        /\ words \subseteq Telling
    BY LabelWords
  <2>2. (Telling \cup {"-"}) \cap YearWord = {}
    <3>1. "-" \in Marks
      BY Zenon DEF Marks
    <3> QED
      BY <3>1, Zenon DEF PlainYears
  <2> HIDE DEF tag, words
  <2>3. \A w : tag = <<w>> => w \in Range(tag)
    BY TupleRange
  <2>4. tag # Unknown => tag \in X /\ tag \notin Words(YearWord)
    BY <2>1, <2>2, <2>3 DEF Words
  <2> HIDE DEF X
  <2> QED
    BY <2>4
<1> HIDE DEF S, T, X, y, more, named, name, tag
<1>8. LET read == titleAndYear(T \o (<<y>> \o more))
      IN  read.title = T /\ read.year = y[1]
  BY <1>4, <1>5, <1>6, <1>7, TitleRead
<1> QED
  BY <1>1, <1>2, <1>3, <1>6, <1>8 DEF named, name, tag, T, S

-----------------------------------------------------------------------------
\* A name without spaces around it or the extension of a video file.
PlainName(name) ==
  /\ name \in Seq(Lexeme) /\ name # <<>> /\ name[1] # Space
  /\ StripExt(Trim(name)) = name

(* A download is read as the release that it was taken for.                 *)
LEMMA DownloadRead ==
  ASSUME NEW name, PlainName(name), NEW ext \in StrippedExts
  PROVE  LET download == name \o <<".", ext>>
         IN  /\ Parse(download).source = Parse(name).source
             /\ Parse(download).resolution = Parse(name).resolution
<1> DEFINE download == name \o <<".", ext>>
<1>1. name \in Seq(Lexeme) /\ Len(name) \in Nat /\ Len(name) >= 1
  BY LenProperties, EmptySeq DEF PlainName
<1>2. "." \in Lexeme /\ ext \in Lexeme
  BY Zenon DEF Lexeme, Marks
<1>3. PICK lo \in 1..(Len(name) + 1) :
        /\ StripExt(Trim(download)) = SubSeq(name, lo, Len(name))
        /\ \A k \in 1..(lo - 1) : name[k] = Space
  BY <1>1, <1>2, StripName
<1>4. lo = 1
  <2>1. lo # 1 => 1 \in 1..(lo - 1)
    BY <1>1
  <2> QED
    BY <1>3, <2>1 DEF PlainName
<1>5. StripExt(Trim(download)) = StripExt(Trim(name))
  BY <1>1, <1>3, <1>4, SubSeqFull DEF PlainName
<1> HIDE DEF download
<1>6. Seen(download) = Seen(name)
  BY <1>5 DEF Seen, Rest
<1> QED
  BY <1>6, ParseReads DEF download

\* Films whose names tell no quality, and extensions that the parser strips.
\* A video file may have any name.
PlainFeeds ==
  /\ PlainYears
  /\ Ext \subseteq StrippedExts
  /\ Video \subseteq Seq(Lexeme)
  /\ \A f \in Feed : \A i \in DOMAIN f :
       /\ PlainTitle(f[i].movie)
       /\ f[i].means.year \in YearWord \cup {Blank}
       /\ f[i].title \in Seq(Lexeme)

\* Releases listed by their bare names.
PlainReleases == \A f \in Feed : \A i \in DOMAIN f : PlainName(f[i].title)

\* The file in the library has the name and the label of the file imported.
OneLabel ==
  taken # 0 =>
    /\ offers # None /\ taken \in DOMAIN offers
    /\ label = QualityRead(video)
    /\ \E name \in Video \cup {feed[taken].title}, ext \in Ext :
         /\ video = name \o <<".", ext>>
         /\ file = FileName(feed[taken].movie, feed[taken].means.year, label, ext)

(* An offer has the quality of the name it was listed by.                   *)
LEMMA OfferQuality ==
  ASSUME OffersRead, offers # None, NEW i \in DOMAIN offers
  PROVE  LET rel == Parse(feed[i].title)
         IN  offers[i].quality = QualityName(rel.source, rel.resolution)
<1> DEFINE x == feed[i]
           it == AttrsRead(x)[Len(x.attrs)]
<1>1. feed \in Feed /\ i \in DOMAIN feed /\ Sound(x) /\ offers[i] = releaseJSON(Item(x))
  BY DEF OffersRead
<1>2. it \in Partly(x)
  BY <1>1, SoundItem, AttrsTyped
<1> HIDE DEF it, x
<1>3. Links(it, x).title = x.title
  BY <1>2 DEF Links, Partly
<1>4. Item(x).title = x.title
  BY <1>3 DEF Item, it
<1> QED
  BY <1>1, <1>4 DEF releaseJSON, x

(* The label in the name of a library file is one that the parser finds     *)
(* there, whatever the file was called in the download.                     *)
LEMMA LabelMade ==
  ASSUME PlainFeeds, OffersRead, OneLabel, taken # 0
  PROVE  \E res \in Resolution, ext \in StrippedExts :
           LET source == Parse(video).source
           IN  /\ label = QualityName(source, res)
               /\ file = FileName(feed[taken].movie, feed[taken].means.year,
                                  QualityName(source, res), ext)
<1>1. feed \in Feed /\ taken \in DOMAIN feed /\ label = QualityRead(video)
  BY DEF OneLabel, OffersRead
<1>2. PICK name \in Video \cup {feed[taken].title}, ext \in Ext :
        /\ video = name \o <<".", ext>>
        /\ file = FileName(feed[taken].movie, feed[taken].means.year, label, ext)
  BY DEF OneLabel
<1>3. name \in Seq(Lexeme) /\ ext \in StrippedExts
  BY <1>1 DEF PlainFeeds
<1>4. "." \in Lexeme /\ ext \in Lexeme
  BY <1>3, Zenon DEF Lexeme, Marks
<1>5. video \in Seq(Lexeme)
  BY <1>2, <1>3, <1>4
<1>6. Parse(video).resolution \in Resolution
  BY <1>5, QualityKnown
<1>7. label = QualityName(Parse(video).source, Parse(video).resolution)
  BY <1>1 DEF QualityRead
<1> QED
  BY <1>2, <1>3, <1>6, <1>7

(* An import of the library file finds its label in its name and makes the  *)
(* name it has.                                                             *)
LEMMA ReimportSame ==
  ASSUME PlainFeeds, OffersRead, OneLabel, taken # 0
  PROVE  QualityRead(file) = label /\ DestName(taken, file) = file
<1>1. feed \in Feed /\ taken \in DOMAIN feed
  BY DEF OneLabel, OffersRead
<1>2. PICK res \in Resolution, ext \in StrippedExts :
        LET source == Parse(video).source
        IN  /\ label = QualityName(source, res)
            /\ file = FileName(feed[taken].movie, feed[taken].means.year,
                               QualityName(source, res), ext)
  BY LabelMade
<1> DEFINE source == Parse(video).source
           title == feed[taken].movie
           year == feed[taken].means.year
<1>3. /\ PlainYears /\ PlainTitle(title) /\ year \in YearWord \cup {Blank}
      /\ label = QualityName(source, res)
      /\ file = FileName(title, year, QualityName(source, res), ext)
  BY <1>1, <1>2 DEF PlainFeeds
<1>4. DestName(taken, file) = FileName(title, year, QualityRead(file), Last(file))
  BY DEF DestName
<1> HIDE DEF source, title, year
<1>5. /\ Last(file) = ext
      /\ QualityName(Parse(file).source, Parse(file).resolution) = label
  BY <1>3, LabelReadBack
<1>6. QualityRead(file) = label
  BY <1>5 DEF QualityRead
<1> QED
  BY <1>3, <1>4, <1>5, <1>6

\* What an import of the library file may do: it removes the file that lies
\* at its own destination, and places any other under the name it has.
MovesOnly ==
  /\ UNCHANGED <<feed, offers, taken, video, file, label>>
  /\ place' = IF place = "here" THEN "gone" ELSE "here"

LEMMA ReimportMoves ==
  ASSUME PlainFeeds, OffersRead, OneLabel, taken # 0, Reimport
  PROVE  MovesOnly
<1>1. QualityRead(file) = label /\ DestName(taken, file) = file
  BY ReimportSame
<1> QED
  BY <1>1 DEF Reimport, Place, MovesOnly

\* There is a file only after an import.
FileTaken == place \in {"here", "away", "gone"} /\ (place # "gone" => taken # 0)

(* The file keeps the name that the first import gave it.                   *)
LEMMA LabelStays ==
  ASSUME PlainFeeds
  PROVE  Spec => [](OneLabel /\ FileTaken)
<1>1. Init => OneLabel /\ FileTaken
  BY DEF Init, OneLabel, FileTaken
<1>2. OffersRead /\ OneLabel /\ FileTaken /\ [Next]_vars => OneLabel' /\ FileTaken'
  <2> SUFFICES ASSUME OffersRead, OneLabel, FileTaken, [Next]_vars
               PROVE  OneLabel' /\ FileTaken'
    OBVIOUS
  <2>1. CASE SearchReleases
    BY <2>1 DEF SearchReleases, OneLabel, FileTaken
  <2>2. ASSUME offers # None, NEW i \in DOMAIN offers,
               NEW name \in Video \cup {feed[i].title}, NEW ext \in Ext, Import(i, name, ext)
        PROVE  OneLabel' /\ FileTaken'
    <3> DEFINE download == name \o <<".", ext>>
    <3>1. feed \in Feed /\ i \in DOMAIN feed /\ i # 0
      BY <2>2, FeedAssumption DEF OffersRead
    <3>2. name \in Seq(Lexeme) /\ ext \in Lexeme
      <4>1. StrippedExts \subseteq Lexeme
        BY Zenon DEF Lexeme
      <4> QED
        BY <3>1, <4>1 DEF PlainFeeds
    <3>3. Last(download) = ext
      BY <3>2, LastOfFile
    <3> HIDE DEF download
    <3>4. /\ taken' = i /\ feed' = feed /\ offers' = offers /\ video' = download
          /\ label' = QualityRead(download) /\ place' = "here"
          /\ file' = FileName(feed[i].movie, feed[i].means.year, label', ext)
      BY <2>2, <3>3 DEF Import, Place, DestName, download
    <3>5. OneLabel'
      BY <2>2, <3>4 DEF OneLabel, download
    <3>6. FileTaken'
      BY <3>1, <3>4 DEF FileTaken
    <3> QED
      BY <3>5, <3>6
  <2>3. CASE Relocate
    BY <2>3 DEF Relocate, OneLabel, FileTaken
  <2>4. CASE Reimport
    <3>1. taken # 0
      BY <2>4 DEF Reimport, FileTaken
    <3>2. MovesOnly
      BY <2>4, <3>1, ReimportMoves
    <3> QED
      BY <3>1, <3>2 DEF MovesOnly, OneLabel, FileTaken
  <2>5. CASE UNCHANGED vars
    BY <2>5 DEF vars, OneLabel, FileTaken
  <2> QED
    BY <2>1, <2>2, <2>3, <2>4, <2>5 DEF Next
<1> QED
  BY <1>1, <1>2, OffersAreRead, PTL DEF Spec

(* For all feeds and whatever the video file of a download is called: the   *)
(* quality read from that name is the one recorded by the import and by each*)
(* import of the library file; and it is the one that the search shows if   *)
(* the file has the name of the release, listed by its bare name.           *)
THEOREM OneQualityKept ==
  ASSUME PlainFeeds, PlainReleases
  PROVE  Spec => []OneQuality
<1>1. OffersRead /\ OneLabel => OneQuality
  <2> SUFFICES ASSUME OffersRead, OneLabel, taken # 0
               PROVE  OneQuality
    BY DEF OneQuality
  <2>1. /\ label = QualityRead(video) /\ offers # None /\ taken \in DOMAIN offers
        /\ feed \in Feed /\ taken \in DOMAIN feed
    BY DEF OneLabel, OffersRead
  <2>2. ASSUME NEW ext \in Ext, video = feed[taken].title \o <<".", ext>>
        PROVE  QualityRead(video) = offers[taken].quality
    <3> DEFINE name == feed[taken].title
    <3>1. PlainName(name) /\ ext \in StrippedExts
      BY <2>1 DEF PlainFeeds, PlainReleases
    <3>2. offers[taken].quality = QualityName(Parse(name).source, Parse(name).resolution)
      BY <2>1, OfferQuality
    <3> HIDE DEF name
    <3>3. /\ Parse(name \o <<".", ext>>).source = Parse(name).source
          /\ Parse(name \o <<".", ext>>).resolution = Parse(name).resolution
      BY <3>1, DownloadRead
    <3>4. video = name \o <<".", ext>>
      BY <2>2 DEF name
    <3> QED
      BY <3>2, <3>3, <3>4 DEF QualityRead
  <2> QED
    BY <2>1, <2>2 DEF OneQuality
<1>2. Spec => []OneLabel
  BY LabelStays, PTL
<1> QED
  BY <1>1, <1>2, OffersAreRead, PTL

(* For all feeds: an import of the library file changes neither the recorded*)
(* quality nor the name of the file, however often it is made.  Where the   *)
(* file already lies at its destination, it is removed.                     *)
THEOREM ReimportKeepsName ==
  ASSUME PlainFeeds
  PROVE  Spec => [][Reimport => MovesOnly]_vars
<1>1. OffersRead /\ OneLabel /\ FileTaken /\ [Next]_vars => [Reimport => MovesOnly]_vars
  BY ReimportMoves DEF FileTaken, Reimport
<1> QED
  BY <1>1, LabelStays, OffersAreRead, PTL DEF Spec

\* Every film has a year, and a title that can be told from what follows it.
PlainFilms ==
  /\ YearsApart
  /\ \A f \in Feed : \A i \in DOMAIN f :
       /\ PlainFilm(f[i].movie)
       /\ f[i].means.year \in YearWord

(* For all feeds of plain names and films: whatever release was taken, the  *)
(* name of the library file is read as the title and the year of its movie, *)
(* after the first import and after each one of the file itself.            *)
THEOREM LibraryNameKept ==
  ASSUME PlainFeeds, PlainFilms
  PROVE  Spec => []LibraryNameRead
<1>1. OffersRead /\ OneLabel => LibraryNameRead
  <2> SUFFICES ASSUME OffersRead, OneLabel, taken # 0
               PROVE  /\ Parse(file).title = Fields(Sanitize(feed[taken].movie))
                      /\ Parse(file).year = feed[taken].means.year
    BY DEF LibraryNameRead
  <2>1. feed \in Feed /\ taken \in DOMAIN feed
    BY DEF OneLabel, OffersRead
  <2>2. PICK res \in Resolution, ext \in StrippedExts :
          LET source == Parse(video).source
          IN  /\ label = QualityName(source, res)
              /\ file = FileName(feed[taken].movie, feed[taken].means.year,
                                 QualityName(source, res), ext)
    BY LabelMade
  <2> DEFINE source == Parse(video).source
             title == feed[taken].movie
             year == feed[taken].means.year
  <2>3. /\ PlainYears /\ YearsApart /\ PlainFilm(title) /\ year \in YearWord
        /\ file = FileName(title, year, QualityName(source, res), ext)
    BY <2>1, <2>2 DEF PlainFeeds, PlainFilms
  <2> HIDE DEF source, title, year
  <2>4. Parse(file).title = Fields(Sanitize(title)) /\ Parse(file).year = year
    BY <2>3, NameReadBack
  <2> QED
    BY <2>4 DEF title, year
<1>2. Spec => []OneLabel
  BY LabelStays, PTL
<1> QED
  BY <1>1, <1>2, OffersAreRead, PTL
=============================================================================
