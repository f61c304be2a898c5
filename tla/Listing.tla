------------------------------ MODULE Listing ------------------------------
(***************************************************************************)
(* Listing a bucket while others change it: ListObjectsPaged and           *)
(* ListObjectVersions of internal/store/meta.go, the handlers              *)
(* listObjectsV2 and listObjectVersions of internal/api/api.go, and a      *)
(* client that follows continuation tokens until there is none.            *)
(*                                                                         *)
(* Keys are numbers in the order of the key strings; 0 is the empty key    *)
(* (the path /bucket/) and the absent token, as "" is in the code.  A      *)
(* prefix is the set of the keys that begin with it.  Keys are valid UTF-8 *)
(* so that JSON leaves the name inside the metadata as it is.              *)
(***************************************************************************)
EXTENDS MetaStore, Integers, FiniteSets

CONSTANTS
  KeyPrefixes,    \* the prefixes clients ask for
  MaxKeys,     \* the values of max-keys clients send
  PageLimit    \* 1000: the largest and the default number of keys of a page

\* Keys are the paths of requests, whose length the HTTP server limits.
ASSUME KeysAssumption == Keys \subseteq Nat /\ IsFiniteSet(Keys)

ASSUME PrefixesAssumption == KeyPrefixes \subseteq SUBSET Keys

ASSUME PageLimitAssumption == PageLimit \in Nat \ {0} /\ MaxKeys \subseteq Int

VARIABLES
  phase,    \* the client's request: none, its bucket check, its page, all done
  query,    \* bucket, prefix, start-after and max-keys of the listing
  token,    \* what the next page starts after
  pages,    \* the keys received so far
  stayed,   \* history: keys to list that were visible all the time
  shown     \* history: keys to list that were visible at some time

client    == <<phase, query, token, pages>>
listVars  == <<metaVars, client, stayed, shown>>

-----------------------------------------------------------------------------
(* The pure part. *)

\* The keys whose current version is not a delete marker.
Visible(objs, b) ==
  {k \in Keys : \E i \in 1..Len(objs[b][k].versions) : IsCurrentAt(objs[b][k], i)}

\* max-keys is used when it is a number from 1 to 1000.
EffectiveMax(mk) == IF mk \in 1..PageLimit THEN mk ELSE PageLimit

\* sort.Slice: all of S, and no element before one that is less.
SortedSeq(S, less(_, _)) ==
  CHOOSE s \in Bijection(1..Cardinality(S), S) :
     \A i, j \in 1..Cardinality(S) : i < j => ~ less(s[j], s[i])

ListObjectsPagedInclusive(b, prefix, startAfter, max) ==  \* mutant: k < startAfter is skipped
  LET hits == SortedSeq({k \in Visible(objects, b) \cap prefix : k >= startAfter}, <)
  IN  IF Len(hits) > max
      THEN [keys |-> SubSeq(hits, 1, max), next |-> hits[max]]
      ELSE [keys |-> hits, next |-> 0]

ListObjectsPagedSkips(b, prefix, startAfter, max) ==  \* mutant: the first key not sent is the token
  LET hits == SortedSeq({k \in Visible(objects, b) \cap prefix : k > startAfter}, <)
  IN  IF Len(hits) > max
      THEN [keys |-> SubSeq(hits, 1, max), next |-> hits[max + 1]]
      ELSE [keys |-> hits, next |-> 0]

ListObjectsPaged(b, prefix, startAfter, max) ==
  LET hits == SortedSeq({k \in Visible(objects, b) \cap prefix : k > startAfter}, <)
  IN  IF Len(hits) > max
      THEN [keys |-> SubSeq(hits, 1, max), next |-> hits[max]]
      ELSE [keys |-> hits, next |-> 0]

\* strconv.FormatInt, and < of Go on strings.
decimal[n \in Nat] == IF n < 10 THEN <<n>> ELSE Append(decimal[n \div 10], n % 10)

StringLess(s, t) ==
  \/ IsStrictPrefix(s, t)
  \/ \E i \in 1..Len(s) \cap 1..Len(t) :
        s[i] < t[i] /\ \A j \in 1..i - 1 : s[j] = t[j]

\* One entry per version that is a delete marker, or is not, sorted by key and
\* then by version ID, as a string, from high to low.
Entries(b, prefix, marker) ==
  LET all == UNION {{[key |-> k, id |-> objects[b][k].versions[i].id,
                      isLatest |-> i = objects[b][k].current] :
                       i \in {j \in 1..Len(objects[b][k].versions) :
                                IsDeleteMarker(objects[b][k].versions[j]) = marker}} :
                    k \in prefix}
      less(e, f) == \/ e.key < f.key
                    \/ e.key = f.key /\ StringLess(decimal[f.id], decimal[e.id])
  IN  SortedSeq(all, less)

ListObjectVersionsOfLive(b, prefix) ==   \* mutant: delete markers are dropped
  [versions |-> Entries(b, prefix, FALSE), deleteMarkers |-> <<>>]

ListObjectVersions(b, prefix) ==
  [versions |-> Entries(b, prefix, FALSE), deleteMarkers |-> Entries(b, prefix, TRUE)]

-----------------------------------------------------------------------------
(* The client, request after request. *)

Wanted(objs) == {k \in Visible(objs, query.b) \cap query.prefix : k > query.after}

noQuery == [b |-> CHOOSE b \in Buckets : TRUE, prefix |-> {}, after |-> 0, max |-> PageLimit]

ListInit ==
  /\ Init
  /\ phase = "none" /\ query = noQuery /\ token = 0 /\ pages = <<>>
  /\ stayed = {} /\ shown = {}

ListBegin(b, prefix, after, mk) ==
  /\ alive /\ phase = "none"
  /\ phase' = "check"
  /\ query' = [b |-> b, prefix |-> prefix, after |-> after, max |-> EffectiveMax(mk)]
  /\ token' = after
  /\ stayed' = {k \in Visible(objects, b) \cap prefix : k > after}
  /\ shown' = stayed'
  /\ UNCHANGED <<metaVars, pages>>

\* listObjectsV2 asks BoltDB for the bucket first ...
ListCheck ==
  /\ alive /\ phase = "check"
  /\ phase' = IF query.b \in bolt THEN "page" ELSE "gone"
  /\ UNCHANGED <<metaVars, query, token, pages, stayed, shown>>

\* ... and then takes a page under the read lock.
ListPage ==
  LET r == ListObjectsPaged(query.b, query.prefix, token, query.max)
  IN  /\ alive /\ phase = "page"
      /\ pages' = pages \o r.keys
      /\ token' = r.next
      /\ phase' = IF r.next = 0 THEN "done" ELSE "check"
      /\ UNCHANGED <<metaVars, query, stayed, shown>>

ListEnd ==
  /\ phase \in {"done", "gone"}
  /\ phase' = "none" /\ query' = noQuery /\ token' = 0 /\ pages' = <<>>
  /\ stayed' = {} /\ shown' = {}
  /\ UNCHANGED metaVars

Observe ==
  /\ stayed' = stayed \cap Visible(objects', query.b)
  /\ shown' = IF phase = "none" THEN {} ELSE shown \cup Wanted(objects')

\* The metadata changes between the client's steps.
ListRunning == Running /\ Observe /\ UNCHANGED client

\* A request that the end of the process cuts short is sent again.
ListRestart ==
  /\ Restart /\ Observe
  /\ phase' = IF phase = "page" THEN "check" ELSE phase
  /\ UNCHANGED <<query, token, pages>>

ListNext ==
  \/ \E b \in Buckets, p \in KeyPrefixes, after \in Keys \cup {0}, mk \in MaxKeys :
        ListBegin(b, p, after, mk)
  \/ ListCheck \/ ListPage \/ ListEnd
  \/ ListRunning \/ ListRestart

ListSpec == ListInit /\ [][ListNext]_listVars

-----------------------------------------------------------------------------
(* Properties. *)

\* "ListObjectsPaged returns a page of objects matching prefix, sorted by key"
\* (meta.go:312): the pages a client puts together, each taken from the bucket as
\* it was at that time, have the keys in order and none twice.
PagesSorted == \A i, j \in 1..Len(pages) : i < j => pages[i] < pages[j]

\* A client that follows the tokens to the end misses no key that was there all
\* the time, whatever was put, deleted, restored or lost between the pages
\* (meta.go: ListObjectsPaged; api.go: listObjectsV2).
PagesComplete == phase = "done" => stayed \subseteq ToSet(pages)

\* Every key a client receives was visible at some time since it began, matched
\* its prefix and lay above its start (meta.go: ListObjectsPaged).
PagesTrue == ToSet(pages) \subseteq shown

\* Of "ListObjectVersions returns all versions for a bucket, sorted by key then
\* version (newest first)" (meta.go:254): every version of every matching key is in
\* one of the two lists, once; at most one entry of a key is the latest and no
\* other has a higher ID; and both lists are sorted by key.  "Newest first" is not
\* claimed: the code compares IDs as strings, and from ID 10 on it is false.
VersionsListed ==
  \A b \in Buckets, p \in KeyPrefixes :
    LET r   == ListObjectVersions(b, p)
        all == ToSet(r.versions) \cup ToSet(r.deleteMarkers)
    IN  /\ \A k \in p : \A i \in 1..Len(objects[b][k].versions) :
             \E e \in all : e.key = k /\ e.id = objects[b][k].versions[i].id
        /\ Cardinality(all) = Len(r.versions) + Len(r.deleteMarkers)
        /\ \A e, f \in all : e.key = f.key /\ e.isLatest => f.id <= e.id
        /\ \A s \in {r.versions, r.deleteMarkers} : \A i, j \in 1..Len(s) :
             i < j => s[i].key <= s[j].key
=============================================================================
