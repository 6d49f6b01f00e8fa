------------------------------ MODULE MCSearch ------------------------------
(* Search over three indexers: one with two releases of different quality, *)
(* one with a better-seeded release of the lower quality, and one that ties*)
(* with the first.                                                         *)
EXTENDS Search

CONSTANTS one, two, three

Offer(ix, item, source, resolution, seeders) ==
  [indexer |-> ix, item |-> item, source |-> source, resolution |-> resolution,
   seeders |-> seeders]

MCOffers == [ix \in Indexer |->
  CASE ix = one -> <<Offer(one, 1, "CAM", "1080p", 1), Offer(one, 2, "BluRay", "720p", 2)>>
    [] ix = two -> <<Offer(two, 1, "Remux", "720p", 9)>>
    [] OTHER -> <<Offer(three, 1, "TS", "1080p", 1), Offer(three, 2, "", "", 7)>>]
=============================================================================
