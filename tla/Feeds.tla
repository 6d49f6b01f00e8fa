-------------------------------- MODULE Feeds --------------------------------
(***************************************************************************)
(* internal/torznab: an RSS feed decoded into items.  A raw item has the   *)
(* elements of <item>: title, size, link, enclosure (url and length) and   *)
(* the torznab attributes, in the order of the document.                   *)
(***************************************************************************)
EXTENDS Integers, SequencesExt

CONSTANTS
  MaxInt,    \* the greatest int
  Garbage,   \* a text that is not a number
  Magnet,    \* the links that begin with "magnet:"
  None       \* no link

ASSUME FeedsAssumption == MaxInt \in Nat /\ None \notin Magnet

\* A bad number is 0, a number that is too large the greatest one.
atoiSafe(v) ==
  CASE v = Garbage -> 0
    [] v # Garbage -> IF v > MaxInt THEN MaxInt ELSE v

\* Mutant: peers replaces the leechers.
AttrPeers(it, a) ==
  CASE a.name = "seeders" -> [it EXCEPT !.seeders = atoiSafe(a.value)]
    [] a.name \in {"leechers", "peers"} -> [it EXCEPT !.leechers = atoiSafe(a.value)]
    [] a.name = "size" /\ it.size = 0 -> [it EXCEPT !.size = atoiSafe(a.value)]
    [] OTHER -> it

Attr(it, a) ==
  CASE a.name = "seeders" -> [it EXCEPT !.seeders = atoiSafe(a.value)]
    [] a.name = "leechers" -> [it EXCEPT !.leechers = atoiSafe(a.value)]
    [] a.name = "peers" /\ it.leechers = 0 -> [it EXCEPT !.leechers = atoiSafe(a.value)]
    [] a.name = "size" /\ it.size = 0 -> [it EXCEPT !.size = atoiSafe(a.value)]
    [] OTHER -> it

\* Mutant: a magnet link does not keep the enclosure from being taken.
LinksBoth(it, x) ==
  [it EXCEPT !.magnetUrl = IF x.link \in Magnet THEN x.link ELSE None,
             !.downloadUrl = IF x.enclosure.url # None THEN x.enclosure.url ELSE x.link]

Links(it, x) ==
  CASE x.link \in Magnet -> [it EXCEPT !.magnetUrl = x.link]
    [] x.link \notin Magnet /\ x.enclosure.url # None ->
         [it EXCEPT !.downloadUrl = x.enclosure.url,
                    !.size = IF @ = 0 THEN x.enclosure.length ELSE @]
    [] OTHER -> [it EXCEPT !.downloadUrl = x.link]

\* The item after each of its attributes.
AttrsRead(x) ==
  LET item[k \in 0..Len(x.attrs)] ==
        IF k = 0 THEN [title |-> x.title, size |-> x.size, seeders |-> 0, leechers |-> 0,
                       magnetUrl |-> None, downloadUrl |-> None]
        ELSE Attr(item[k - 1], x.attrs[k])
  IN  item
Item(x) == Links(AttrsRead(x)[Len(x.attrs)], x)

\* The numbers that encoding/xml reads; it rejects the document with a bad one.
Sound(x) == \A v \in {x.size, x.enclosure.length} : v # Garbage /\ v <= MaxInt

\* A document that is not decoded is an indexer without items.
Decode(feed) ==
  IF \A i \in DOMAIN feed : Sound(feed[i]) THEN [i \in DOMAIN feed |-> Item(feed[i])]
  ELSE <<>>
=============================================================================
