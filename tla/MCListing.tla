----------------------------- MODULE MCListing -----------------------------
(* The model-checking instances of Listing: a node that is Wired may be     *)
(* sent a leader's snapshot in which key 2 has a version and key 1 only a   *)
(* delete marker.                                                           *)
EXTENDS Listing

CONSTANTS b1, x

Has(v) == [versions |-> v, current |-> Len(v), nextID |-> Len(v) + 1]

LeaderSnapshots ==
  {[made    |-> {b1},
    objects |-> [b \in Buckets |-> [k \in Keys |->
       IF k = 2 THEN Has(<<[id |-> 1, sha |-> x]>>)
       ELSE IF k = 1 THEN Has(<<[id |-> 1, sha |-> x], [id |-> 2, sha |-> NoSha]>>)
       ELSE [versions |-> <<>>, current |-> 1, nextID |-> 1]]]]}

AllKeys == {Keys}
=============================================================================
