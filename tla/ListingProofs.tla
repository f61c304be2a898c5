---------------------------- MODULE ListingProofs ----------------------------
(***************************************************************************)
(* Proofs about Listing, for any keys, prefixes, page sizes, version IDs   *)
(* and changes of the bucket between two pages: the sorted sequence of a   *)
(* finite set, one page, the pages a client puts together, version IDs as  *)
(* strings, and the lists of versions.                                     *)
(***************************************************************************)
EXTENDS Listing, MetaStoreProofs, FiniteSetTheorems, WellFoundedInduction

-----------------------------------------------------------------------------
(* Sorting. *)

\* A set of numbers that is not empty has a least one.
LEMMA LeastNumber ==
  ASSUME NEW S, S \subseteq Nat, S # {}
  PROVE  \E m \in S : \A k \in S : m <= k
<1> DEFINE R == OpToRel(<, Nat)
<1>1. PICK m \in S : \A k \in S : ~ (<<k, m>> \in R)
  BY NatLessThanWellFounded, WFMin
<1>2. ASSUME NEW k \in S PROVE m <= k
  <2>1. k \in Nat /\ m \in Nat
    BY <1>1
  <2>2. ~ (<<k, m>> \in R)
    BY <1>1
  <2>3. ~ (k < m)
    BY <2>1, <2>2 DEF OpToRel
  <2> QED
    BY <2>1, <2>3
<1> QED
  BY <1>2

\* A strict order on the elements of S.
StrictOrder(R, S) ==
  /\ \A e \in S : <<e, e>> \notin R
  /\ \A e, f, g \in S : <<e, f>> \in R /\ <<f, g>> \in R => <<e, g>> \in R

\* The sequences sort.Slice may leave: all of S, no element before one below it.
Arranged(s, S, R) ==
  /\ s \in Bijection(1..Cardinality(S), S)
  /\ \A i, j \in 1..Cardinality(S) : i < j => <<s[j], s[i]>> \notin R

\* A finite set that is not empty has an element with none below it.
LEMMA MinimalExists ==
  ASSUME NEW R, NEW S, IsFiniteSet(S), S # {}, StrictOrder(R, S)
  PROVE  \E m \in S : \A k \in S : <<k, m>> \notin R
<1> DEFINE Without(T) == T # {} /\ ~ \E m \in T : \A k \in T : <<k, m>> \notin R
           Bad == {n \in Nat : \E T \in SUBSET S : Cardinality(T) = n /\ Without(T)}
<1>1. ASSUME Bad # {} PROVE FALSE
  <2>1. PICK n \in Bad : \A k \in Bad : n <= k
    BY <1>1, LeastNumber
  <2>2. n \in Nat /\ \E T \in SUBSET S : Cardinality(T) = n /\ Without(T)
    BY <2>1
  <2>3. PICK T \in SUBSET S : Cardinality(T) = n /\ Without(T)
    BY <2>2
  <2>4. PICK x : x \in T
    BY <2>3
  <2>5. IsFiniteSet(T)
    BY FS_Subset
  <2>6. IsFiniteSet(T \ {x}) /\ Cardinality(T \ {x}) = n - 1 /\ n - 1 \in Nat
    <3>1. IsFiniteSet(T \ {x}) /\ Cardinality(T \ {x}) = n - 1
      BY <2>3, <2>4, <2>5, FS_RemoveElement
    <3>2. Cardinality(T \ {x}) \in Nat
      BY <3>1, FS_CardinalityType
    <3> QED
      BY <3>1, <3>2
  <2>7. n - 1 \notin Bad
    BY <2>1, <2>2, <2>6
  <2>8. ~ Without(T \ {x})
    BY <2>6, <2>7
  <2>9. CASE T \ {x} = {}
    <3>1. \A k \in T : <<k, x>> \notin R
      BY <2>4, <2>9 DEF StrictOrder
    <3> QED
      BY <2>3, <2>4, <3>1
  <2>10. CASE T \ {x} # {}
    <3>1. PICK m \in T \ {x} : \A k \in T \ {x} : <<k, m>> \notin R
      BY <2>8, <2>10
    <3>2. CASE <<x, m>> \in R
      <4>1. ASSUME NEW k \in T, <<k, x>> \in R PROVE FALSE
        <5>1. k # x
          BY <4>1 DEF StrictOrder
        <5>2. <<k, m>> \in R
          BY <2>4, <3>1, <3>2, <4>1 DEF StrictOrder
        <5> QED
          BY <3>1, <5>1, <5>2
      <4> QED
        BY <2>3, <2>4, <4>1
    <3>3. CASE <<x, m>> \notin R
      BY <2>3, <3>1, <3>3
    <3> QED
      BY <3>2, <3>3
  <2> QED
    BY <2>9, <2>10
<1>2. Cardinality(S) \in Nat
  BY FS_CardinalityType
<1>3. Cardinality(S) \notin Bad
  BY <1>1
<1> QED
  BY <1>2, <1>3

\* An arrangement of the rest, and an element with none below it in front of it.
LEMMA ArrangedAfterMinimal ==
  ASSUME NEW R, NEW S, IsFiniteSet(S), NEW m \in S, \A k \in S : <<k, m>> \notin R,
         NEW r, Arranged(r, S \ {m}, R)
  PROVE  \E s : Arranged(s, S, R)
<1> DEFINE n == Cardinality(S)
           s == [i \in 1..n |-> IF i = 1 THEN m ELSE r[i - 1]]
<1>1. n \in Nat /\ n # 0 /\ Cardinality(S \ {m}) = n - 1
  <2>1. n \in Nat
    BY FS_CardinalityType
  <2>2. n # 0
    BY FS_EmptySet
  <2> QED
    BY <2>1, <2>2, FS_RemoveElement
<1>2. /\ r \in [1..n - 1 -> S \ {m}]
      /\ \A i, j \in 1..n - 1 : r[i] = r[j] => i = j
      /\ \A k \in S \ {m} : \E i \in 1..n - 1 : r[i] = k
      /\ \A i, j \in 1..n - 1 : i < j => <<r[j], r[i]>> \notin R
  BY <1>1 DEF Arranged, Bijection, Injection, Surjection, IsInjective
<1> HIDE DEF n
<1>3. \A i \in 1..n : i # 1 => i - 1 \in 1..n - 1
  BY <1>1
<1>4. s \in [1..n -> S]
  BY <1>2, <1>3
<1>5. \A i \in 1..n : s[i] = IF i = 1 THEN m ELSE r[i - 1]
  OBVIOUS
<1>6. DOMAIN s = 1..n
  OBVIOUS
<1> HIDE DEF s
<1>7. ASSUME NEW i \in 1..n, NEW j \in 1..n, s[i] = s[j] PROVE i = j
  <2>1. CASE i = 1
    BY <1>2, <1>3, <1>5, <1>7, <2>1
  <2>2. CASE j = 1
    BY <1>2, <1>3, <1>5, <1>7, <2>2
  <2>3. CASE i # 1 /\ j # 1
    <3>1. r[i - 1] = r[j - 1]
      BY <1>5, <1>7, <2>3
    <3>2. i - 1 = j - 1
      BY <1>2, <1>3, <2>3, <3>1
    <3> QED
      BY <1>1, <3>2
  <2> QED
    BY <2>1, <2>2, <2>3
<1>8. ASSUME NEW k \in S PROVE \E i \in 1..n : s[i] = k
  <2>1. CASE k = m
    BY <1>1, <1>5, <2>1
  <2>2. CASE k # m
    <3>1. PICK i \in 1..n - 1 : r[i] = k
      BY <1>2, <2>2
    <3>2. i + 1 \in 1..n /\ i + 1 # 1 /\ (i + 1) - 1 = i
      BY <1>1
    <3> QED
      BY <1>5, <3>1, <3>2
  <2> QED
    BY <2>1, <2>2
<1>9. ASSUME NEW i \in 1..n, NEW j \in 1..n, i < j PROVE <<s[j], s[i]>> \notin R
  <2>1. CASE i = 1
    BY <1>4, <1>5, <2>1
  <2>2. CASE i # 1
    <3>1. j # 1 /\ i - 1 < j - 1
      BY <1>1, <1>9, <2>2
    <3> QED
      BY <1>2, <1>3, <1>5, <2>2, <3>1
  <2> QED
    BY <2>1, <2>2
<1>10. s \in Bijection(1..n, S)
  BY <1>4, <1>6, <1>7, <1>8 DEF Bijection, Injection, Surjection, IsInjective
<1>11. Arranged(s, S, R)
  BY <1>9, <1>10 DEF Arranged, n
<1> QED
  BY <1>11

\* A finite set can be sorted: a smallest one that could not would have an element
\* with none below it, and the rest could be sorted.
LEMMA ArrangedExists ==
  ASSUME NEW R, NEW S, IsFiniteSet(S), StrictOrder(R, S)
  PROVE  \E s : Arranged(s, S, R)
<1> DEFINE Bad == {n \in Nat : \E T \in SUBSET S : Cardinality(T) = n /\ ~ \E s : Arranged(s, T, R)}
<1>1. ASSUME Bad # {} PROVE FALSE
  <2>1. PICK n \in Bad : \A k \in Bad : n <= k
    BY <1>1, LeastNumber
  <2>2. n \in Nat /\ \E T \in SUBSET S : Cardinality(T) = n /\ ~ \E s : Arranged(s, T, R)
    BY <2>1
  <2>3. PICK T \in SUBSET S : Cardinality(T) = n /\ ~ \E s : Arranged(s, T, R)
    BY <2>2
  <2>4. IsFiniteSet(T) /\ StrictOrder(R, T)
    BY FS_Subset DEF StrictOrder
  <2>5. CASE T = {}
    <3> DEFINE e == [i \in 1..0 |-> 0]
    <3>1. Cardinality(T) = 0
      BY <2>5, FS_EmptySet
    <3>2. 1..0 = {}
      OBVIOUS
    <3>3. e \in Bijection(1..0, T)
      BY <2>5, <3>2 DEF Bijection, Injection, Surjection, IsInjective
    <3>4. Arranged(e, T, R)
      BY <3>1, <3>2, <3>3 DEF Arranged
    <3> QED
      BY <2>3, <3>4
  <2>6. CASE T # {}
    <3>1. PICK m \in T : \A k \in T : <<k, m>> \notin R
      BY <2>4, <2>6, MinimalExists
    <3>2. IsFiniteSet(T \ {m}) /\ Cardinality(T \ {m}) = n - 1 /\ n - 1 \in Nat
      <4>1. IsFiniteSet(T \ {m}) /\ Cardinality(T \ {m}) = n - 1
        BY <2>3, <2>4, FS_RemoveElement
      <4>2. Cardinality(T \ {m}) \in Nat
        BY <4>1, FS_CardinalityType
      <4> QED
        BY <4>1, <4>2
    <3>3. n - 1 \notin Bad
      BY <2>1, <2>2, <3>2
    <3>4. PICK r : Arranged(r, T \ {m}, R)
      BY <2>3, <3>2, <3>3
    <3> QED
      BY <2>3, <2>4, <3>1, <3>4, ArrangedAfterMinimal
  <2> QED
    BY <2>5, <2>6
<1>2. Cardinality(S) \in Nat
  BY FS_CardinalityType
<1>3. Cardinality(S) \notin Bad
  BY <1>1
<1> QED
  BY <1>2, <1>3

\* What an arrangement is: every element once.
LEMMA ArrangedFacts ==
  ASSUME NEW R, NEW S, IsFiniteSet(S), NEW s, Arranged(s, S, R)
  PROVE  /\ s \in Seq(S) /\ Len(s) = Cardinality(S) /\ Len(s) \in Nat
         /\ \A k \in S : \E i \in 1..Len(s) : s[i] = k
         /\ \A i \in 1..Len(s) : s[i] \in S
         /\ \A i, j \in 1..Len(s) : i < j => s[i] # s[j] /\ <<s[j], s[i]>> \notin R
<1> DEFINE n == Cardinality(S)
<1>1. n \in Nat
  BY FS_CardinalityType
<1>2. /\ s \in [1..n -> S]
      /\ \A i, j \in 1..n : s[i] = s[j] => i = j
      /\ \A k \in S : \E i \in 1..n : s[i] = k
      /\ \A i, j \in 1..n : i < j => <<s[j], s[i]>> \notin R
  BY DEF Arranged, Bijection, Injection, Surjection, IsInjective
<1>3. s \in Seq(S) /\ Len(s) = n
  <2> HIDE DEF n
  <2> QED
    BY <1>1, <1>2
<1>4. ASSUME NEW i \in 1..n, NEW j \in 1..n, i < j PROVE s[i] # s[j]
  <2>1. i # j
    BY <1>1, <1>4
  <2> QED
    BY <1>2, <2>1
<1> HIDE DEF n
<1>5. n = Cardinality(S)
  BY DEF n
<1> QED
  BY <1>1, <1>2, <1>3, <1>4, <1>5

\* What sort.Slice gives for keys: every key once, in increasing order.
LEMMA SortedSeqFacts ==
  ASSUME NEW S, S \subseteq Nat, IsFiniteSet(S)
  PROVE  LET s == SortedSeq(S, <)
         IN  /\ s \in Seq(S) /\ Len(s) \in Nat
             /\ \A k \in S : \E i \in 1..Len(s) : s[i] = k
             /\ \A i, j \in 1..Len(s) : i < j => s[i] < s[j]
<1> DEFINE R == OpToRel(<, Nat)
           s == SortedSeq(S, <)
<1>1. \A k, l \in S : <<k, l>> \in R <=> k < l
  BY DEF OpToRel
<1>2. StrictOrder(R, S)
  <2>1. \A k \in S : k \in Nat
    OBVIOUS
  <2> HIDE DEF R
  <2> QED
    BY <1>1, <2>1 DEF StrictOrder
<1> HIDE DEF R
<1>3. PICK a : Arranged(a, S, R)
  BY <1>2, ArrangedExists
<1>4. ASSUME NEW t \in Bijection(1..Cardinality(S), S)
      PROVE  (\A i, j \in 1..Cardinality(S) : i < j => ~ (t[j] < t[i])) <=> Arranged(t, S, R)
  <2>1. \A i \in 1..Cardinality(S) : t[i] \in S
    BY DEF Bijection, Injection
  <2> QED
    BY <1>1, <2>1 DEF Arranged
<1>5. a \in Bijection(1..Cardinality(S), S)
  BY <1>3 DEF Arranged
<1>6. Arranged(s, S, R)
  BY <1>3, <1>4, <1>5 DEF SortedSeq
<1> HIDE DEF s
<1>7. /\ s \in Seq(S) /\ Len(s) = Cardinality(S) /\ Len(s) \in Nat
      /\ \A k \in S : \E i \in 1..Len(s) : s[i] = k
      /\ \A i \in 1..Len(s) : s[i] \in S
      /\ \A i, j \in 1..Len(s) : i < j => s[i] # s[j] /\ <<s[j], s[i]>> \notin R
  BY <1>6, ArrangedFacts, Zenon
<1>8. ASSUME NEW i \in 1..Len(s), NEW j \in 1..Len(s), i < j PROVE s[i] < s[j]
  <2>1. s[i] \in Nat /\ s[j] \in Nat
    BY <1>7
  <2>2. s[i] # s[j] /\ ~ (s[j] < s[i])
    BY <1>1, <1>7, <1>8
  <2> QED
    BY <2>1, <2>2
<1> QED
  BY <1>7, <1>8 DEF s

-----------------------------------------------------------------------------
(* One page. *)

\* The keys a listing may show, of the bucket as it is.
LEMMA WantedFacts ==
  ASSUME NEW objs, NEW b, NEW p, NEW a
  PROVE  /\ {k \in Visible(objs, b) \cap p : k > a} \subseteq Keys
         /\ {k \in Visible(objs, b) \cap p : k > a} \subseteq Nat
         /\ IsFiniteSet({k \in Visible(objs, b) \cap p : k > a})
<1>1. {k \in Visible(objs, b) \cap p : k > a} \subseteq Keys
  BY DEF Visible
<1> QED
  BY <1>1, KeysAssumption, FS_Subset

\* A sequence of some elements of a set, and its first ones.
LEMMA SeqOfMore ==
  ASSUME NEW S, NEW T, S \subseteq T, NEW s \in Seq(S)
  PROVE  s \in Seq(T)
<1>1. Len(s) \in Nat /\ s \in [1..Len(s) -> S]
  BY LenProperties
<1> QED
  BY <1>1

LEMMA FrontFacts ==
  ASSUME NEW S, NEW s \in Seq(S), NEW n \in Nat, n <= Len(s)
  PROVE  /\ SubSeq(s, 1, n) \in Seq(S) /\ Len(SubSeq(s, 1, n)) = n
         /\ \A i \in 1..n : i \in 1..Len(s) /\ SubSeq(s, 1, n)[i] = s[i]
<1>1. Len(s) \in Nat
  BY LenProperties
<1> QED
  BY <1>1

\* A page of the keys W above a holds, in order, keys of W: all of them up to
\* the token or, without a token, all there are.
IsPage(r, W, a) ==
  /\ r.keys \in Seq(Keys) /\ r.next \in Nat
  /\ \A i \in 1..Len(r.keys) : r.keys[i] \in W
  /\ \A i, j \in 1..Len(r.keys) : i < j => r.keys[i] < r.keys[j]
  /\ r.next = 0 => \A k \in W : \E i \in 1..Len(r.keys) : r.keys[i] = k
  /\ r.next # 0 =>
       /\ a <= r.next
       /\ \A i \in 1..Len(r.keys) : r.keys[i] <= r.next
       /\ \A k \in W : k <= r.next => \E i \in 1..Len(r.keys) : r.keys[i] = k

\* What ListObjectsPaged returns is a page of the bucket as it is.
LEMMA PageFacts ==
  ASSUME NEW b, NEW p, NEW a \in Nat, NEW max \in Nat \ {0}
  PROVE  IsPage(ListObjectsPaged(b, p, a, max),
                {k \in Visible(objects, b) \cap p : k > a}, a)
<1> DEFINE r    == ListObjectsPaged(b, p, a, max)
           W    == {k \in Visible(objects, b) \cap p : k > a}
           hits == SortedSeq(W, <)
<1>1. W \subseteq Keys /\ W \subseteq Nat /\ IsFiniteSet(W) /\ \A k \in W : k > a
  BY WantedFacts
<1>2. r = IF Len(hits) > max THEN [keys |-> SubSeq(hits, 1, max), next |-> hits[max]]
          ELSE [keys |-> hits, next |-> 0]
  BY DEF ListObjectsPaged
<1> HIDE DEF W
<1>3. /\ hits \in Seq(W) /\ Len(hits) \in Nat
      /\ \A k \in W : \E i \in 1..Len(hits) : hits[i] = k
      /\ \A i, j \in 1..Len(hits) : i < j => hits[i] < hits[j]
  BY <1>1, SortedSeqFacts
<1> HIDE DEF hits
<1>4. \A i \in 1..Len(hits) : hits[i] \in W
  BY <1>3, ElementOfSeq
<1>5. hits \in Seq(Keys)
  <2>1. W \subseteq Keys /\ hits \in Seq(W)
    BY <1>1, <1>3
  <2> QED
    BY <2>1, SeqOfMore
<1> HIDE DEF r
<1>6. CASE ~ (Len(hits) > max)
  <2>1. r.keys = hits /\ r.next = 0
    BY <1>2, <1>6
  <2> QED
    BY <1>3, <1>4, <1>5, <2>1 DEF r, W, IsPage
<1>7. CASE Len(hits) > max
  <2>1. r.keys = SubSeq(hits, 1, max) /\ r.next = hits[max]
    BY <1>2, <1>7
  <2>2. max \in Nat /\ max <= Len(hits)
    BY <1>3, <1>7
  <2>3. /\ r.keys \in Seq(Keys) /\ Len(r.keys) = max
        /\ \A i \in 1..max : i \in 1..Len(hits) /\ r.keys[i] = hits[i]
    BY <1>5, <2>1, <2>2, FrontFacts
  <2>4. max \in 1..Len(hits) /\ hits[max] \in W
    BY <1>3, <1>4, <1>7
  <2>5. r.next \in Nat /\ a < r.next
    BY <1>1, <2>1, <2>4
  <2>6. \A i \in 1..max : i \in 1..Len(hits) /\ hits[i] \in W /\ hits[i] \in Nat
    BY <1>1, <1>4, <2>3
  <2>7. \A i, j \in 1..max : i < j => r.keys[i] < r.keys[j]
    BY <1>3, <2>3, <2>6
  <2>8. ASSUME NEW i \in 1..max PROVE r.keys[i] <= r.next
    <3>1. CASE i = max
      BY <2>1, <2>3, <2>5, <3>1
    <3>2. CASE i < max
      <4>1. hits[i] < hits[max] /\ hits[i] \in Nat
        BY <1>3, <2>4, <2>6, <3>2
      <4> QED
        BY <2>1, <2>3, <2>5, <4>1
    <3> QED
      BY <3>1, <3>2
  <2>9. ASSUME NEW k \in W, k <= r.next PROVE \E i \in 1..max : r.keys[i] = k
    <3>1. PICK i \in 1..Len(hits) : hits[i] = k
      BY <1>3
    <3>2. ~ (max < i)
      <4>1. SUFFICES ASSUME max < i PROVE FALSE
        OBVIOUS
      <4>2. hits[max] < hits[i] /\ hits[i] \in Nat /\ hits[max] \in Nat
        BY <1>1, <1>3, <1>4, <2>4, <4>1
      <4> QED
        BY <2>1, <2>9, <3>1, <4>2
    <3>3. i \in 1..max
      BY <1>3, <3>2
    <3> QED
      BY <2>3, <3>1, <3>3
  <2>10. \A i \in 1..max : r.keys[i] \in W
    BY <2>3, <2>6
  <2>11. r.next # 0 /\ a <= r.next
    BY <2>5
  <2> QED
    BY <2>3, <2>5, <2>7, <2>8, <2>9, <2>10, <2>11 DEF r, W, IsPage
<1> QED
  BY <1>6, <1>7

-----------------------------------------------------------------------------
(* The pages of a client. *)

\* The inductive invariant of a client: while a listing is under way, the token
\* is what separates the keys already sent, to which every lasting key up to it
\* belongs, from those still to come.
ListInv ==
  /\ phase \in {"none", "check", "page", "done", "gone"}
  /\ query.after \in Nat /\ query.max \in Nat \ {0}
  /\ token \in Nat /\ pages \in Seq(Keys)
  /\ PagesSorted /\ PagesComplete /\ PagesTrue
  /\ stayed \subseteq Wanted(objects)
  /\ phase = "none" => pages = <<>> /\ shown = {}
  /\ phase # "none" => Wanted(objects) \subseteq shown
  /\ phase \in {"check", "page"} =>
        /\ query.after <= token
        /\ \A i \in 1..Len(pages) : pages[i] <= token
        /\ \A k \in stayed : k <= token => k \in ToSet(pages)

\* Before the first request.
LEMMA ListInitInv == ListInit => ListInv
<1> SUFFICES ASSUME ListInit PROVE ListInv
  OBVIOUS
<1>1. /\ phase = "none" /\ query = noQuery /\ token = 0 /\ pages = <<>>
      /\ stayed = {} /\ shown = {}
  BY DEF ListInit
<1>2. query.after = 0 /\ query.max = PageLimit
  BY <1>1 DEF noQuery
<1> QED
  BY <1>1, <1>2, PageLimitAssumption
     DEF ListInv, PagesSorted, PagesComplete, PagesTrue, ToSet

\* What a listing is asked for.
LEMMA ListBeginInv ==
  ASSUME ListInv, NEW b \in Buckets, NEW p \in KeyPrefixes, NEW after \in Keys \cup {0},
         NEW mk \in MaxKeys, ListBegin(b, p, after, mk)
  PROVE  ListInv'
<1> DEFINE W == {k \in Visible(objects, b) \cap p : k > after}
<1>1. /\ phase' = "check" /\ token' = after /\ stayed' = W /\ shown' = W
      /\ objects' = objects
      /\ query' = [b |-> b, prefix |-> p, after |-> after, max |-> EffectiveMax(mk)]
  BY DEF ListBegin, metaVars
<1>2. pages = <<>> /\ pages' = pages
  BY DEF ListInv, ListBegin
<1>3. after \in Nat
  BY KeysAssumption
<1>4. EffectiveMax(mk) \in Nat \ {0}
  BY PageLimitAssumption DEF EffectiveMax
<1>5. /\ query'.after = after /\ query'.max = EffectiveMax(mk)
      /\ query'.b = b /\ query'.prefix = p
  BY <1>1
<1>6. Wanted(objects)' = W
  BY <1>1, <1>5 DEF Wanted, Visible
<1>7. W \subseteq Nat /\ \A k \in W : k > after
  BY WantedFacts
<1> HIDE DEF W
<1>8. \A k \in W : ~ (k <= after)
  BY <1>3, <1>7
<1> QED
  BY <1>1, <1>2, <1>3, <1>4, <1>5, <1>6, <1>8
     DEF ListInv, PagesSorted, PagesComplete, PagesTrue, ToSet

\* A page that is added to the ones before it.
LEMMA ListPageInv ==
  ASSUME ListInv, ListPage
  PROVE  ListInv'
<1> DEFINE r == ListObjectsPaged(query.b, query.prefix, token, query.max)
           W == {k \in Visible(objects, query.b) \cap query.prefix : k > token}
           new == pages \o r.keys
<1>1. /\ phase = "page" /\ pages' = new /\ token' = r.next
      /\ phase' = IF r.next = 0 THEN "done" ELSE "check"
      /\ objects' = objects /\ query' = query /\ stayed' = stayed /\ shown' = shown
  BY DEF ListPage, metaVars
<1>2. /\ token \in Nat /\ query.max \in Nat \ {0} /\ query.after \in Nat
      /\ pages \in Seq(Keys) /\ query.after <= token
      /\ \A i \in 1..Len(pages) : pages[i] <= token
      /\ \A k \in stayed : k <= token => k \in ToSet(pages)
      /\ stayed \subseteq Wanted(objects) /\ Wanted(objects) \subseteq shown
      /\ PagesSorted /\ PagesTrue
  BY <1>1 DEF ListInv
<1>3. /\ r.keys \in Seq(Keys) /\ r.next \in Nat
      /\ \A i \in 1..Len(r.keys) : r.keys[i] \in W
      /\ \A i, j \in 1..Len(r.keys) : i < j => r.keys[i] < r.keys[j]
      /\ r.next = 0 => \A k \in W : \E i \in 1..Len(r.keys) : r.keys[i] = k
      /\ r.next # 0 =>
           /\ token <= r.next
           /\ \A i \in 1..Len(r.keys) : r.keys[i] <= r.next
           /\ \A k \in W : k <= r.next => \E i \in 1..Len(r.keys) : r.keys[i] = k
  <2>1. IsPage(r, W, token)
    BY <1>2, PageFacts
  <2> HIDE DEF r, W
  <2> QED
    BY <2>1 DEF IsPage
<1>4. W \subseteq Nat /\ Wanted(objects) \subseteq Nat /\ \A k \in W : k > token
  BY WantedFacts DEF Wanted
<1>5. W \subseteq Wanted(objects) /\ \A k \in Wanted(objects) : k \in W \/ k <= token
  <2>1. \A k \in W : k \in Nat /\ k > query.after
    BY <1>2, <1>4
  <2>2. \A k \in Wanted(objects) : k \in Nat
    BY <1>4
  <2> QED
    BY <1>2, <2>1, <2>2 DEF Wanted
<1>6. Wanted(objects)' = Wanted(objects)
  BY <1>1 DEF Wanted, Visible
<1> HIDE DEF r, W
<1>7. Len(pages) \in Nat /\ Len(r.keys) \in Nat
  BY <1>2, <1>3, LenProperties
<1>8. /\ new \in Seq(Keys) /\ Len(new) = Len(pages) + Len(r.keys)
      /\ \A i \in 1..Len(new) :
            new[i] = IF i <= Len(pages) THEN pages[i] ELSE r.keys[i - Len(pages)]
  BY <1>2, <1>3, ConcatProperties
<1> HIDE DEF new
<1>9. ASSUME NEW i \in 1..Len(new)
      PROVE  \/ i \in 1..Len(pages) /\ new[i] = pages[i]
             \/ i - Len(pages) \in 1..Len(r.keys) /\ new[i] = r.keys[i - Len(pages)]
                  /\ ~ (i <= Len(pages))
  BY <1>7, <1>8
<1>10. /\ \A i \in 1..Len(pages) : i \in 1..Len(new) /\ new[i] = pages[i]
       /\ \A i \in 1..Len(r.keys) :
             i + Len(pages) \in 1..Len(new) /\ new[i + Len(pages)] = r.keys[i]
  <2>1. ASSUME NEW i \in 1..Len(pages) PROVE i \in 1..Len(new) /\ new[i] = pages[i]
    BY <1>7, <1>8
  <2>2. ASSUME NEW i \in 1..Len(r.keys)
        PROVE  i + Len(pages) \in 1..Len(new) /\ new[i + Len(pages)] = r.keys[i]
    <3>1. i + Len(pages) \in 1..Len(new) /\ ~ (i + Len(pages) <= Len(pages))
      BY <1>7, <1>8
    <3>2. (i + Len(pages)) - Len(pages) = i
      BY <1>7
    <3> QED
      BY <1>8, <3>1, <3>2
  <2> QED
    BY <2>1, <2>2
<1>11. \A k \in ToSet(pages) : k \in ToSet(new)
  BY <1>2, <1>8, <1>10, SMTT(30) DEF ToSet
<1>12. \A i \in 1..Len(r.keys) : r.keys[i] \in ToSet(new)
  BY <1>8, <1>10, SMTT(30) DEF ToSet
<1>13. \A i \in 1..Len(pages) : pages[i] \in Nat
  <2>1. \A i \in 1..Len(pages) : pages[i] \in Keys
    BY <1>2, ElementOfSeq
  <2> QED
    BY <2>1, KeysAssumption
<1>14. \A i \in 1..Len(r.keys) : r.keys[i] \in W /\ r.keys[i] \in Nat /\ r.keys[i] > token
  BY <1>3, <1>4
<1>15. ASSUME NEW i \in 1..Len(new), NEW j \in 1..Len(new), i < j
       PROVE  new[i] < new[j]
  <2>1. CASE i \in 1..Len(pages) /\ j \in 1..Len(pages)
    BY <1>2, <1>10, <1>15, <2>1 DEF PagesSorted
  <2>2. CASE i \in 1..Len(pages) /\ j - Len(pages) \in 1..Len(r.keys) /\ ~ (j <= Len(pages))
    <3>1. new[i] = pages[i] /\ pages[i] <= token /\ pages[i] \in Nat
      BY <1>2, <1>10, <1>13, <2>2
    <3>2. new[j] = r.keys[j - Len(pages)]
      BY <1>8, <2>2
    <3>3. new[j] \in Nat /\ new[j] > token
      BY <1>14, <2>2, <3>2
    <3> QED
      BY <1>2, <3>1, <3>3
  <2>3. CASE ~ (i <= Len(pages))
    <3>1. /\ i - Len(pages) \in 1..Len(r.keys) /\ j - Len(pages) \in 1..Len(r.keys)
          /\ i - Len(pages) < j - Len(pages) /\ ~ (j <= Len(pages))
      BY <1>7, <1>8, <1>15, <2>3
    <3>2. new[i] = r.keys[i - Len(pages)] /\ new[j] = r.keys[j - Len(pages)]
      BY <1>8, <2>3, <3>1
    <3> QED
      BY <1>3, <3>1, <3>2
  <2> QED
    BY <1>7, <1>9, <2>1, <2>2, <2>3
<1>16. ToSet(new) \subseteq shown
  <2>1. \A i \in 1..Len(pages) : pages[i] \in shown
    BY <1>2 DEF PagesTrue, ToSet
  <2>2. \A i \in 1..Len(r.keys) : r.keys[i] \in shown
    BY <1>2, <1>5, <1>14
  <2>3. \A i \in 1..Len(new) : new[i] \in shown
    BY <1>9, <2>1, <2>2
  <2> QED
    BY <1>8, <2>3 DEF ToSet
<1>17. CASE r.next = 0
  <2>1. \A k \in W : k \in ToSet(new)
    BY <1>3, <1>12, <1>17
  <2>2. stayed \subseteq ToSet(new)
    BY <1>2, <1>5, <1>11, <2>1
  <2> QED
    BY <1>1, <1>2, <1>3, <1>6, <1>8, <1>15, <1>16, <1>17, <2>2
       DEF ListInv, PagesSorted, PagesComplete, PagesTrue
<1>18. CASE r.next # 0
  <2>1. query.after <= r.next
    BY <1>2, <1>3, <1>18
  <2>2. \A i \in 1..Len(new) : new[i] <= r.next
    <3>1. \A i \in 1..Len(pages) : pages[i] <= r.next
      BY <1>2, <1>3, <1>13, <1>18
    <3> QED
      BY <1>3, <1>9, <1>18, <3>1
  <2>3. \A k \in stayed : k <= r.next => k \in ToSet(new)
    <3>1. \A k \in W : k <= r.next => k \in ToSet(new)
      BY <1>3, <1>12, <1>18
    <3> QED
      BY <1>2, <1>5, <1>11, <3>1
  <2> QED
    BY <1>1, <1>2, <1>3, <1>6, <1>8, <1>15, <1>16, <1>18, <2>1, <2>2, <2>3
       DEF ListInv, PagesSorted, PagesComplete, PagesTrue
<1> QED
  BY <1>17, <1>18

\* The check of the bucket, and the end of a listing.
LEMMA ListOtherInv ==
  ASSUME ListInv, ListCheck \/ ListEnd
  PROVE  ListInv'
<1>1. CASE ListCheck
  <2>1. /\ phase = "check" /\ phase' \in {"page", "gone"}
        /\ objects' = objects /\ query' = query /\ token' = token /\ pages' = pages
        /\ stayed' = stayed /\ shown' = shown
    BY <1>1 DEF ListCheck, metaVars
  <2>2. Wanted(objects)' = Wanted(objects)
    BY <2>1 DEF Wanted, Visible
  <2> QED
    BY <2>1, <2>2 DEF ListInv, PagesSorted, PagesComplete, PagesTrue
<1>2. CASE ListEnd
  <2>1. /\ phase' = "none" /\ query' = noQuery /\ token' = 0 /\ pages' = <<>>
        /\ stayed' = {} /\ shown' = {}
    BY <1>2 DEF ListEnd
  <2>2. query'.after = 0 /\ query'.max = PageLimit
    BY <2>1 DEF noQuery
  <2> QED
    BY <2>1, <2>2, PageLimitAssumption
       DEF ListInv, PagesSorted, PagesComplete, PagesTrue, ToSet
<1> QED
  BY <1>1, <1>2

\* Others change the bucket, or the process restarts, between two pages.
LEMMA ListChangeInv ==
  ASSUME ListInv, ListRunning \/ ListRestart
  PROVE  ListInv'
<1>1. /\ stayed' = stayed \cap Visible(objects', query.b)
      /\ shown' = IF phase = "none" THEN {} ELSE shown \cup Wanted(objects')
      /\ query' = query /\ token' = token /\ pages' = pages
      /\ phase' = phase \/ (phase = "page" /\ phase' = "check")
  BY DEF ListRunning, ListRestart, Observe, client
<1>2. Wanted(objects)' = {k \in Visible(objects', query.b) \cap query.prefix : k > query.after}
  BY <1>1 DEF Wanted, Visible
<1>3. Wanted(objects') = {k \in Visible(objects', query.b) \cap query.prefix : k > query.after}
  BY DEF Wanted
<1>4. stayed' \subseteq Wanted(objects)' /\ stayed' \subseteq stayed
  <2>1. stayed \subseteq Wanted(objects)
    BY DEF ListInv
  <2> QED
    BY <1>1, <1>2, <2>1 DEF Wanted
<1>5. phase = "none" <=> phase' = "none"
  BY <1>1
<1>6. phase # "none" => Wanted(objects)' \subseteq shown' /\ shown \subseteq shown'
  BY <1>1, <1>2, <1>3
<1>7. phase = "none" => pages' = <<>> /\ shown' = {}
  BY <1>1 DEF ListInv
<1>8. PagesTrue'
  <2>1. CASE phase = "none"
    BY <1>7, <2>1 DEF PagesTrue, ToSet
  <2>2. CASE phase # "none"
    BY <1>1, <1>6, <2>2 DEF ListInv, PagesTrue
  <2> QED
    BY <2>1, <2>2
<1>9. PagesSorted' /\ PagesComplete'
  BY <1>1, <1>4 DEF ListInv, PagesSorted, PagesComplete
<1> QED
  BY <1>1, <1>4, <1>5, <1>6, <1>7, <1>8, <1>9 DEF ListInv

\* No step leaves the invariant.
LEMMA ListNextInv == ListInv /\ [ListNext]_listVars => ListInv'
<1> SUFFICES ASSUME ListInv, [ListNext]_listVars PROVE ListInv'
  OBVIOUS
<1>1. ASSUME NEW b \in Buckets, NEW p \in KeyPrefixes, NEW after \in Keys \cup {0},
             NEW mk \in MaxKeys, ListBegin(b, p, after, mk)
      PROVE  ListInv'
  BY <1>1, ListBeginInv
<1>2. CASE UNCHANGED listVars
  <2>1. /\ objects' = objects /\ query' = query /\ token' = token /\ pages' = pages
        /\ stayed' = stayed /\ shown' = shown /\ phase' = phase
    BY <1>2 DEF listVars, client, metaVars
  <2>2. Wanted(objects)' = Wanted(objects)
    BY <2>1 DEF Wanted, Visible
  <2> QED
    BY <2>1, <2>2 DEF ListInv, PagesSorted, PagesComplete, PagesTrue
<1> QED
  BY <1>1, <1>2, ListPageInv, ListOtherInv, ListChangeInv DEF ListNext

\* The token separates what was sent from what is to come in every reachable
\* state of a client that lists a changing bucket (meta.go: ListObjectsPaged;
\* api.go: listObjectsV2).
THEOREM ListInductive == ListSpec => []ListInv
BY ListInitInv, ListNextInv, PTL DEF ListSpec

\* The keys of the pages are in order and none comes twice.
THEOREM PagesInOrder == ListSpec => []PagesSorted
<1>1. ListInv => PagesSorted
  BY DEF ListInv
<1> QED
  BY <1>1, ListInductive, PTL

\* A listing that ends has every key that was visible all the time.
THEOREM NoLastingKeyMissed == ListSpec => []PagesComplete
<1>1. ListInv => PagesComplete
  BY DEF ListInv
<1> QED
  BY <1>1, ListInductive, PTL

\* A listing has only keys that matched and were visible at some time.
THEOREM OnlyVisibleKeys == ListSpec => []PagesTrue
<1>1. ListInv => PagesTrue
  BY DEF ListInv
<1> QED
  BY <1>1, ListInductive, PTL

-----------------------------------------------------------------------------
(* Version IDs as strings. *)

\* Division by ten makes a number smaller and leaves a digit.
LEMMA DivFacts ==
  ASSUME NEW n \in Nat
  PROVE  /\ n \div 10 \in Nat /\ n % 10 \in 0..9
         /\ n = 10 * (n \div 10) + (n % 10)
         /\ n >= 10 => n \div 10 < n
OBVIOUS

\* decimal as far as n.
UpTo(n) ==
  {g \in [0..n -> Seq(Nat)] : \A k \in 0..n :
     g[k] = IF k < 10 THEN <<k>> ELSE Append(g[k \div 10], k % 10)}

\* Two of them agree where both are defined.
LEMMA UpToAgree ==
  ASSUME NEW m \in Nat, NEW n \in Nat, NEW g \in UpTo(m), NEW h \in UpTo(n),
         NEW k \in Nat, k <= m, k <= n
  PROVE  g[k] = h[k]
<1> DEFINE Bad == {i \in Nat : i <= m /\ i <= n /\ g[i] # h[i]}
<1>1. SUFFICES ASSUME Bad # {} PROVE FALSE
  OBVIOUS
<1>2. PICK i \in Bad : \A j \in Bad : i <= j
  BY <1>1, LeastNumber
<1>3. i \in Nat /\ i <= m /\ i <= n /\ g[i] # h[i] /\ i \in 0..m /\ i \in 0..n
  BY <1>2
<1>4. /\ g[i] = IF i < 10 THEN <<i>> ELSE Append(g[i \div 10], i % 10)
      /\ h[i] = IF i < 10 THEN <<i>> ELSE Append(h[i \div 10], i % 10)
  BY <1>3 DEF UpTo
<1>5. i >= 10
  BY <1>3, <1>4
<1>6. i \div 10 \in Nat /\ i \div 10 < i
  BY <1>3, <1>5, DivFacts
<1>7. i \div 10 \notin Bad
  BY <1>2, <1>3, <1>6
<1>8. g[i \div 10] = h[i \div 10]
  BY <1>3, <1>6, <1>7
<1> QED
  BY <1>3, <1>4, <1>5, <1>8

\* There is one for every n: a smallest n without one would extend the one before.
LEMMA UpToExists ==
  ASSUME NEW n \in Nat
  PROVE  UpTo(n) # {}
<1> DEFINE Bad == {i \in Nat : UpTo(i) = {}}
<1>1. SUFFICES ASSUME Bad # {} PROVE FALSE
  OBVIOUS
<1>2. PICK i \in Bad : \A j \in Bad : i <= j
  BY <1>1, LeastNumber
<1>3. i \in Nat /\ UpTo(i) = {}
  BY <1>2
<1>4. CASE i = 0
  <2> DEFINE z == [k \in 0..0 |-> <<k>>]
  <2>1. z \in [0..0 -> Seq(Nat)]
    OBVIOUS
  <2>2. \A k \in 0..0 : z[k] = IF k < 10 THEN <<k>> ELSE Append(z[k \div 10], k % 10)
    OBVIOUS
  <2>3. z \in UpTo(0)
    BY <2>1, <2>2 DEF UpTo
  <2> QED
    BY <1>3, <1>4, <2>3
<1>5. CASE i # 0
  <2>1. i - 1 \in Nat /\ i - 1 < i
    BY <1>3, <1>5
  <2>2. i - 1 \notin Bad
    BY <1>2, <1>3, <2>1
  <2>3. PICK g : g \in UpTo(i - 1)
    BY <2>1, <2>2
  <2>4. /\ g \in [0..i - 1 -> Seq(Nat)]
        /\ \A k \in 0..i - 1 : g[k] = IF k < 10 THEN <<k>> ELSE Append(g[k \div 10], k % 10)
    BY <2>3 DEF UpTo
  <2> DEFINE v == IF i < 10 THEN <<i>> ELSE Append(g[i \div 10], i % 10)
             h == [k \in 0..i |-> IF k = i THEN v ELSE g[k]]
  <2>5. v \in Seq(Nat)
    <3>1. CASE i < 10
      BY <1>3, <3>1
    <3>2. CASE ~ (i < 10)
      <4>1. i \div 10 \in 0..i - 1 /\ i % 10 \in Nat
        BY <1>3, <3>2, DivFacts
      <4>2. g[i \div 10] \in Seq(Nat)
        BY <2>4, <4>1
      <4> QED
        BY <3>2, <4>1, <4>2
    <3> QED
      BY <3>1, <3>2
  <2>6. \A k \in 0..i : k # i => k \in 0..i - 1
    BY <1>3
  <2> HIDE DEF v
  <2>7. h \in [0..i -> Seq(Nat)]
    BY <2>4, <2>5, <2>6
  <2>8. ASSUME NEW k \in 0..i
        PROVE  h[k] = IF k < 10 THEN <<k>> ELSE Append(h[k \div 10], k % 10)
    <3>1. ~ (k < 10) => k \div 10 \in 0..i - 1 /\ k \div 10 \in 0..i /\ k \div 10 # i
      BY <1>3, DivFacts
    <3>2. ~ (k < 10) => h[k \div 10] = g[k \div 10]
      BY <3>1
    <3>3. CASE k = i
      <4>1. h[k] = v
        BY <3>3
      <4> QED
        BY <3>2, <3>3, <4>1 DEF v
    <3>4. CASE k # i
      <4>1. h[k] = g[k] /\ k \in 0..i - 1
        BY <2>6, <3>4
      <4> QED
        BY <2>4, <3>2, <4>1
    <3> QED
      BY <3>3, <3>4
  <2>9. h \in UpTo(i)
    BY <2>7, <2>8 DEF UpTo
  <2> QED
    BY <1>3, <2>9
<1> QED
  BY <1>4, <1>5

\* The recursive definition defines what it says.
LEMMA DecimalFacts ==
  /\ decimal \in [Nat -> Seq(Nat)]
  /\ \A n \in Nat : decimal[n] = IF n < 10 THEN <<n>> ELSE Append(decimal[n \div 10], n % 10)
<1> DEFINE G(n) == CHOOSE g \in UpTo(n) : TRUE
           F == [n \in Nat |-> G(n)[n]]
<1>1. ASSUME NEW n \in Nat PROVE G(n) \in UpTo(n)
  BY UpToExists
<1> HIDE DEF G
<1>2. \A n \in Nat : F[n] = G(n)[n]
  OBVIOUS
<1>3. F \in [Nat -> Seq(Nat)]
  <2>1. ASSUME NEW n \in Nat PROVE G(n)[n] \in Seq(Nat)
    BY <1>1 DEF UpTo
  <2> QED
    BY <2>1
<1> HIDE DEF F
<1>4. ASSUME NEW n \in Nat
      PROVE  F[n] = IF n < 10 THEN <<n>> ELSE Append(F[n \div 10], n % 10)
  <2>1. G(n)[n] = IF n < 10 THEN <<n>> ELSE Append(G(n)[n \div 10], n % 10)
    <3>1. n \in 0..n
      OBVIOUS
    <3> QED
      BY <1>1, <3>1 DEF UpTo
  <2>2. CASE n < 10
    BY <1>2, <2>1, <2>2
  <2>3. CASE ~ (n < 10)
    <3>1. n \div 10 \in Nat /\ n \div 10 <= n
      BY <2>3, DivFacts
    <3>2. G(n)[n \div 10] = G(n \div 10)[n \div 10]
      BY <1>1, <3>1, UpToAgree
    <3> QED
      BY <1>2, <2>1, <2>3, <3>1, <3>2
  <2> QED
    BY <2>2, <2>3
<1>5. F = [n \in Nat |-> IF n < 10 THEN <<n>> ELSE Append(F[n \div 10], n % 10)]
  BY <1>3, <1>4
<1>6. decimal = [n \in Nat |-> IF n < 10 THEN <<n>> ELSE Append(decimal[n \div 10], n % 10)]
  BY <1>5, Zenon DEF decimal
<1>7. \A n \in Nat : decimal[n] = IF n < 10 THEN <<n>> ELSE Append(decimal[n \div 10], n % 10)
  BY <1>6
<1>8. ASSUME NEW n \in Nat PROVE decimal[n] \in Seq(Nat)
  <2> DEFINE Bad == {i \in Nat : decimal[i] \notin Seq(Nat)}
  <2>1. SUFFICES ASSUME Bad # {} PROVE FALSE
    OBVIOUS
  <2>2. PICK i \in Bad : \A j \in Bad : i <= j
    BY <2>1, LeastNumber
  <2>3. i \in Nat /\ decimal[i] \notin Seq(Nat)
    BY <2>2
  <2>31. decimal[i] = IF i < 10 THEN <<i>> ELSE Append(decimal[i \div 10], i % 10)
    BY <1>7, <2>3
  <2> HIDE DEF Bad
  <2>4. i >= 10
    <3>1. SUFFICES ASSUME i < 10 PROVE FALSE
      BY <2>3
    <3>2. decimal[i] = <<i>>
      BY <2>31, <3>1
    <3>3. <<i>> \in Seq(Nat)
      BY <2>3
    <3> QED
      BY <2>3, <3>2, <3>3
  <2>5. i \div 10 \in Nat /\ i \div 10 < i /\ i % 10 \in Nat
    BY <2>3, <2>4, DivFacts
  <2>6. i \div 10 \notin Bad
    BY <2>2, <2>3, <2>5
  <2>7. decimal[i \div 10] \in Seq(Nat)
    BY <2>5, <2>6 DEF Bad
  <2>8. decimal[i] = Append(decimal[i \div 10], i % 10)
    BY <2>31, <2>3, <2>4
  <2>9. Append(decimal[i \div 10], i % 10) \in Seq(Nat)
    BY <2>5, <2>7
  <2> QED
    BY <2>3, <2>8, <2>9
<1>9. DOMAIN decimal = Nat
  BY <1>6
<1>10. decimal \in [Nat -> Seq(Nat)]
  BY <1>6, <1>8, <1>9
<1> QED
  BY <1>7, <1>10

\* What < on strings compares: the first place where one string ends or differs.
LessAt(s, t, i) ==
  /\ i \in 1..Len(t)
  /\ \A j \in 1..i - 1 : j <= Len(s) /\ s[j] = t[j]
  /\ i = Len(s) + 1 \/ (i <= Len(s) /\ s[i] < t[i])

\* That is what StringLess says.
LEMMA StringLessAt ==
  ASSUME NEW s \in Seq(Nat), NEW t \in Seq(Nat)
  PROVE  StringLess(s, t) <=> \E i \in Nat : LessAt(s, t, i)
<1>1. Len(s) \in Nat /\ Len(t) \in Nat
  OBVIOUS
<1>2. ASSUME IsStrictPrefix(s, t) PROVE LessAt(s, t, Len(s) + 1)
  <2>1. Len(s) <= Len(t) /\ SubSeq(s, 1, Len(s)) = SubSeq(t, 1, Len(s)) /\ s # t
    BY <1>2 DEF IsStrictPrefix, IsPrefix
  <2>2. /\ \A j \in 1..Len(s) : SubSeq(s, 1, Len(s))[j] = s[j]
        /\ \A j \in 1..Len(s) : SubSeq(t, 1, Len(s))[j] = t[j]
    BY <1>1, <2>1, FrontFacts
  <2>3. \A j \in 1..Len(s) : s[j] = t[j]
    BY <2>1, <2>2
  <2>4. Len(s) # Len(t)
    BY <1>1, <2>1, <2>3
  <2> QED
    BY <1>1, <2>1, <2>3, <2>4 DEF LessAt
<1>3. ASSUME NEW i \in 1..Len(s) \cap 1..Len(t), s[i] < t[i], \A j \in 1..i - 1 : s[j] = t[j]
      PROVE  LessAt(s, t, i)
  BY <1>1, <1>3 DEF LessAt
<1>4. ASSUME NEW i \in Nat, LessAt(s, t, i) PROVE StringLess(s, t)
  <2>1. CASE i = Len(s) + 1
    <3>1. Len(s) < Len(t) /\ \A j \in 1..Len(s) : s[j] = t[j]
      BY <1>1, <1>4, <2>1 DEF LessAt
    <3>2. /\ SubSeq(s, 1, Len(s)) \in Seq(Nat) /\ Len(SubSeq(s, 1, Len(s))) = Len(s)
          /\ SubSeq(t, 1, Len(s)) \in Seq(Nat) /\ Len(SubSeq(t, 1, Len(s))) = Len(s)
          /\ \A j \in 1..Len(s) : SubSeq(s, 1, Len(s))[j] = s[j]
          /\ \A j \in 1..Len(s) : SubSeq(t, 1, Len(s))[j] = t[j]
      BY <1>1, <3>1, FrontFacts
    <3>3. SubSeq(s, 1, Len(s)) = SubSeq(t, 1, Len(s))
      BY <1>1, <3>1, <3>2, SeqEqual
    <3>4. s # t /\ Len(s) <= Len(t)
      BY <1>1, <3>1
    <3> QED
      BY <3>3, <3>4 DEF StringLess, IsStrictPrefix, IsPrefix
  <2>2. CASE i <= Len(s) /\ s[i] < t[i]
    <3>1. i \in 1..Len(s) \cap 1..Len(t) /\ \A j \in 1..i - 1 : s[j] = t[j]
      BY <1>1, <1>4, <2>2 DEF LessAt
    <3> QED
      BY <2>2, <3>1 DEF StringLess
  <2> QED
    BY <1>4, <2>1, <2>2 DEF LessAt
<1>5. Len(s) + 1 \in Nat /\ 1..Len(s) \cap 1..Len(t) \subseteq Nat
  BY <1>1
<1> QED
  BY <1>2, <1>3, <1>4, <1>5 DEF StringLess

\* The order of strings is strict.
LEMMA StringLessOrder ==
  ASSUME NEW s \in Seq(Nat), NEW t \in Seq(Nat), NEW u \in Seq(Nat)
  PROVE  /\ ~ StringLess(s, s)
         /\ StringLess(s, t) /\ StringLess(t, u) => StringLess(s, u)
<1>1. /\ Len(s) \in Nat /\ Len(t) \in Nat /\ Len(u) \in Nat
      /\ \A i \in 1..Len(s) : s[i] \in Nat
      /\ \A i \in 1..Len(t) : t[i] \in Nat
      /\ \A i \in 1..Len(u) : u[i] \in Nat
  BY ElementOfSeq
<1>2. ASSUME NEW i \in Nat, LessAt(s, s, i) PROVE FALSE
  BY <1>1, <1>2 DEF LessAt
<1>3. ASSUME NEW i \in Nat, NEW j \in Nat, LessAt(s, t, i), LessAt(t, u, j)
      PROVE  \E k \in Nat : LessAt(s, u, k)
  <2>1. CASE i < j
    <3>1. /\ i \in 1..Len(t) /\ \A l \in 1..i - 1 : l <= Len(s) /\ s[l] = t[l]
          /\ i = Len(s) + 1 \/ (i <= Len(s) /\ s[i] < t[i])
          /\ j \in 1..Len(u) /\ \A l \in 1..j - 1 : t[l] = u[l]
      BY <1>3 DEF LessAt
    <3>2. i \in 1..Len(u) /\ i \in 1..j - 1 /\ \A l \in 1..i - 1 : l \in 1..j - 1
      BY <1>1, <2>1, <3>1
    <3>3. i = Len(s) + 1 \/ (i <= Len(s) /\ s[i] < u[i])
      BY <3>1, <3>2
    <3>4. \A l \in 1..i - 1 : l <= Len(s) /\ s[l] = u[l]
      BY <3>1, <3>2
    <3>5. LessAt(s, u, i)
      BY <3>2, <3>3, <3>4 DEF LessAt
    <3> QED
      BY <3>5
  <2>2. CASE j < i
    <3>1. /\ i \in 1..Len(t) /\ \A l \in 1..i - 1 : l <= Len(s) /\ s[l] = t[l]
          /\ j \in 1..Len(u) /\ \A l \in 1..j - 1 : t[l] = u[l]
          /\ j = Len(t) + 1 \/ (j <= Len(t) /\ t[j] < u[j])
      BY <1>3 DEF LessAt
    <3>2. j <= Len(t) /\ t[j] < u[j] /\ j \in 1..i - 1
      BY <1>1, <2>2, <3>1
    <3>3. j <= Len(s) /\ s[j] < u[j]
      BY <3>1, <3>2
    <3>4. \A l \in 1..j - 1 : l <= Len(s) /\ s[l] = u[l]
      <4>1. \A l \in 1..j - 1 : l \in 1..i - 1
        BY <2>2
      <4> QED
        BY <3>1, <4>1
    <3>5. LessAt(s, u, j)
      BY <3>1, <3>3, <3>4 DEF LessAt
    <3> QED
      BY <3>5
  <2>3. CASE i = j
    <3>1. /\ i \in 1..Len(t) /\ \A l \in 1..i - 1 : l <= Len(s) /\ s[l] = t[l]
          /\ i = Len(s) + 1 \/ (i <= Len(s) /\ s[i] < t[i])
          /\ i \in 1..Len(u) /\ \A l \in 1..i - 1 : t[l] = u[l]
          /\ i = Len(t) + 1 \/ (i <= Len(t) /\ t[i] < u[i])
      BY <1>3, <2>3 DEF LessAt
    <3>2. t[i] < u[i] /\ t[i] \in Nat /\ u[i] \in Nat
      BY <1>1, <3>1
    <3>3. i = Len(s) + 1 \/ (i <= Len(s) /\ s[i] < u[i])
      <4>1. CASE i <= Len(s) /\ s[i] < t[i]
        <5>1. s[i] \in Nat
          BY <1>1, <3>1, <4>1
        <5> QED
          BY <3>2, <4>1, <5>1
      <4> QED
        BY <3>1, <4>1
    <3>4. LessAt(s, u, i)
      BY <3>1, <3>3 DEF LessAt
    <3> QED
      BY <3>4
  <2> QED
    BY <2>1, <2>2, <2>3
<1> QED
  BY <1>2, <1>3, StringLessAt

\* Every number has a digit.
LEMMA LenDecimal ==
  ASSUME NEW n \in Nat
  PROVE  Len(decimal[n]) >= 1
<1>1. decimal[n] = IF n < 10 THEN <<n>> ELSE Append(decimal[n \div 10], n % 10)
  BY DecimalFacts
<1>2. n \div 10 \in Nat /\ n % 10 \in Nat
  BY DivFacts
<1>3. decimal[n \div 10] \in Seq(Nat)
  BY <1>2, DecimalFacts
<1>4. Len(decimal[n \div 10]) \in Nat /\ Len(Append(decimal[n \div 10], n % 10)) = Len(decimal[n \div 10]) + 1
  BY <1>2, <1>3
<1>5. Len(<<n>>) = 1
  OBVIOUS
<1> QED
  BY <1>1, <1>4, <1>5

\* Numbers with the same number of digits are in the order of their strings: a
\* smallest pair that is not would differ in the digits before the last, and those
\* are a smaller pair, or in the last one.
LEMMA DecimalOrder ==
  ASSUME NEW m \in Nat, NEW n \in Nat, m < n, Len(decimal[m]) = Len(decimal[n])
  PROVE  StringLess(decimal[m], decimal[n])
<1> DEFINE Wrong(i, j) == i < j /\ Len(decimal[i]) = Len(decimal[j])
                            /\ ~ \E k \in Nat : LessAt(decimal[i], decimal[j], k)
           Bad == {j \in Nat : \E i \in Nat : Wrong(i, j)}
<1>1. ASSUME Bad # {} PROVE FALSE
  <2>1. PICK j \in Bad : \A k \in Bad : j <= k
    BY <1>1, LeastNumber
  <2>2. j \in Nat /\ \E i \in Nat : Wrong(i, j)
    BY <2>1
  <2>3. PICK i \in Nat : Wrong(i, j)
    BY <2>2
  <2> DEFINE p == i \div 10
             q == j \div 10
             x == i % 10
             y == j % 10
  <2>4. /\ decimal[i] = IF i < 10 THEN <<i>> ELSE Append(decimal[p], x)
        /\ decimal[j] = IF j < 10 THEN <<j>> ELSE Append(decimal[q], y)
    BY <2>2, DecimalFacts
  <2>5. /\ p \in Nat /\ x \in 0..9 /\ i = 10 * p + x
        /\ q \in Nat /\ y \in 0..9 /\ j = 10 * q + y
        /\ j >= 10 => q < j
    BY <2>2, DivFacts
  <2> HIDE DEF p, q, x, y
  <2>6. /\ decimal[p] \in Seq(Nat) /\ decimal[q] \in Seq(Nat)
        /\ decimal[i] \in Seq(Nat) /\ decimal[j] \in Seq(Nat)
    BY <2>2, <2>5, DecimalFacts
  <2>7. /\ Len(decimal[p]) \in Nat /\ Len(decimal[q]) \in Nat
    BY <2>6
  <2>8. Len(decimal[p]) >= 1 /\ Len(decimal[q]) >= 1
    BY <2>5, LenDecimal
  <2>9. i < j /\ Len(decimal[i]) = Len(decimal[j])
    BY <2>3
  <2>10. CASE j < 10
    <3>1. decimal[i] = <<i>> /\ decimal[j] = <<j>> /\ i < j
      BY <2>2, <2>4, <2>9, <2>10
    <3>2. LessAt(decimal[i], decimal[j], 1)
      BY <2>2, <3>1 DEF LessAt
    <3> QED
      BY <2>3, <3>2
  <2>11. CASE ~ (j < 10)
    <3>1. ~ (i < 10)
      <4>1. Len(decimal[j]) >= 2
        BY <2>4, <2>6, <2>7, <2>8, <2>11
      <4> QED
        BY <2>4, <2>9, <4>1
    <3>2. decimal[i] = Append(decimal[p], x) /\ decimal[j] = Append(decimal[q], y)
      BY <2>4, <2>11, <3>1
    <3> DEFINE a == decimal[p]
               b == decimal[q]
    <3>3. a \in Seq(Nat) /\ b \in Seq(Nat) /\ Len(a) \in Nat /\ Len(b) \in Nat
      BY <2>6, <2>7
    <3>4. /\ Len(decimal[i]) = Len(a) + 1 /\ Len(decimal[j]) = Len(b) + 1
          /\ \A k \in 1..Len(a) : decimal[i][k] = a[k]
          /\ \A k \in 1..Len(b) : decimal[j][k] = b[k]
          /\ decimal[i][Len(a) + 1] = x /\ decimal[j][Len(b) + 1] = y
      <4>1. x \in Nat /\ y \in Nat
        BY <2>5
      <4> HIDE DEF a, b
      <4>2. decimal[i] = Append(a, x) /\ decimal[j] = Append(b, y)
        BY <3>2 DEF a, b
      <4> QED
        BY <3>3, <4>1, <4>2, AppendProperties
    <3>5. Len(a) = Len(b)
      <4> HIDE DEF a, b
      <4>1. Len(a) + 1 = Len(b) + 1
        BY <2>9, <3>4
      <4> QED
        BY <3>3, <4>1
    <3>6. p < q \/ (p = q /\ x < y)
      BY <2>2, <2>5, <2>9
    <3>7. CASE p < q
      <4>1. q \notin Bad
        BY <2>1, <2>2, <2>5, <2>11
      <4>2. PICK k \in Nat : LessAt(a, b, k)
        BY <2>5, <3>5, <3>7, <4>1
      <4>3. k \in 1..Len(b) /\ k <= Len(a) /\ a[k] < b[k] /\ \A l \in 1..k - 1 : a[l] = b[l]
        BY <3>3, <3>5, <4>2 DEF LessAt
      <4> HIDE DEF a, b
      <4>4. /\ k \in 1..Len(decimal[j]) /\ k <= Len(decimal[i])
            /\ decimal[i][k] = a[k] /\ decimal[j][k] = b[k]
        BY <3>3, <3>4, <3>5, <4>3
      <4>5. ASSUME NEW l \in 1..k - 1
            PROVE  l \in 1..Len(a) /\ l \in 1..Len(b) /\ l <= Len(decimal[i])
        <5>1. Len(decimal[i]) = Len(a) + 1
          BY <3>4
        <5>2. Len(a) = Len(b) /\ Len(a) \in Nat /\ k \in 1..Len(b)
          BY <3>3, <3>5, <4>3
        <5> QED
          BY <5>1, <5>2
      <4>6. ASSUME NEW l \in 1..k - 1
            PROVE  l <= Len(decimal[i]) /\ decimal[i][l] = decimal[j][l]
        <5>1. l \in 1..Len(a) /\ l \in 1..Len(b) /\ l <= Len(decimal[i]) /\ a[l] = b[l]
          BY <4>3, <4>5
        <5>2. decimal[i][l] = a[l] /\ decimal[j][l] = b[l]
          BY <3>4, <5>1
        <5> QED
          BY <5>1, <5>2
      <4>7. LessAt(decimal[i], decimal[j], k)
        BY <4>3, <4>4, <4>6 DEF LessAt
      <4> QED
        BY <2>3, <4>7
    <3>8. CASE p = q /\ x < y
      <4>1. a = b
        BY <3>8
      <4> HIDE DEF a, b
      <4>2. LessAt(decimal[i], decimal[j], Len(a) + 1)
        BY <3>3, <3>4, <3>8, <4>1 DEF LessAt
      <4>3. Len(a) + 1 \in Nat
        BY <3>3
      <4> QED
        BY <2>3, <4>2, <4>3
    <3> QED
      BY <3>6, <3>7, <3>8
  <2> QED
    BY <2>10, <2>11
<1>2. n \notin Bad
  BY <1>1
<1>3. \E k \in Nat : LessAt(decimal[m], decimal[n], k)
  BY <1>2
<1>4. decimal[m] \in Seq(Nat) /\ decimal[n] \in Seq(Nat)
  BY DecimalFacts
<1> QED
  BY <1>3, <1>4, StringLessAt

-----------------------------------------------------------------------------
(* The versions of a bucket. *)

\* The entries of one of the two lists, and their order.
EntryOf(b, k, i) ==
  [key |-> k, id |-> objects[b][k].versions[i].id, isLatest |-> i = objects[b][k].current]

EntrySet(b, prefix, marker) ==
  UNION {{EntryOf(b, k, i) :
            i \in {j \in 1..Len(objects[b][k].versions) :
                     IsDeleteMarker(objects[b][k].versions[j]) = marker}} : k \in prefix}

EntryLess(e, f) ==
  \/ e.key < f.key
  \/ e.key = f.key /\ StringLess(decimal[f.id], decimal[e.id])

EntryOrder(S) == {r \in S \X S : EntryLess(r[1], r[2])}

\* What ListObjectVersions sorts, and by what.
LEMMA EntriesDef ==
  ASSUME NEW b, NEW p, NEW marker
  PROVE  Entries(b, p, marker) =
           CHOOSE s \in Bijection(1..Cardinality(EntrySet(b, p, marker)), EntrySet(b, p, marker)) :
             \A i, j \in 1..Cardinality(EntrySet(b, p, marker)) : i < j => ~ EntryLess(s[j], s[i])
BY DEF Entries, SortedSeq, EntrySet, EntryOf, EntryLess

\* The version that an entry stands for.
LEMMA EntryVersion ==
  ASSUME NEW b, NEW p, NEW marker, NEW e
  PROVE  e \in EntrySet(b, p, marker) <=>
           \E k \in p : \E i \in 1..Len(objects[b][k].versions) :
              /\ IsDeleteMarker(objects[b][k].versions[i]) = marker
              /\ e = EntryOf(b, k, i)
<1> DEFINE In(k, i) == IsDeleteMarker(objects[b][k].versions[i]) = marker
           Of(k) == {EntryOf(b, k, i) : i \in {j \in 1..Len(objects[b][k].versions) : In(k, j)}}
<1>1. EntrySet(b, p, marker) = UNION {Of(k) : k \in p}
  BY DEF EntrySet
<1>2. \A k : e \in Of(k) <=> \E i \in 1..Len(objects[b][k].versions) : In(k, i) /\ e = EntryOf(b, k, i)
  <2> HIDE DEF In
  <2> QED
    OBVIOUS
<1> HIDE DEF In, Of
<1>3. e \in UNION {Of(k) : k \in p} <=> \E k \in p : e \in Of(k)
  OBVIOUS
<1> QED
  BY <1>1, <1>2, <1>3 DEF In

LEMMA EntryHasVersion ==
  ASSUME NEW b, NEW p, NEW marker, NEW e \in EntrySet(b, p, marker)
  PROVE  \E k \in p : \E i \in 1..Len(objects[b][k].versions) : e = EntryOf(b, k, i)
BY EntryVersion

\* What well-formed metadata gives: an ID of a key belongs to one version, and the
\* current one is the last, with the highest ID.
LEMMA VersionFacts ==
  ASSUME IInv, NEW b \in Buckets, NEW k \in Keys
  PROVE  LET vs == objects[b][k]
         IN  /\ Len(vs.versions) \in Nat
             /\ \A i \in 1..Len(vs.versions) : vs.versions[i].id \in 1..MaxID
             /\ \A i, j \in 1..Len(vs.versions) : vs.versions[i].id = vs.versions[j].id => i = j
             /\ \A i, j \in 1..Len(vs.versions) :
                  i = vs.current => vs.versions[j].id <= vs.versions[i].id
<1> DEFINE vs == objects[b][k]
           n  == Len(vs.versions)
<1>1. vs \in VersionStates /\ Ordered(vs)
  BY DEF IInv, TypeOK, WellFormed, AllOrdered, LiveState, Snapshots
<1> HIDE DEF vs
<1>2. n \in Nat /\ \A i \in 1..n : vs.versions[i] \in ObjectMeta
  BY <1>1, EntryFacts
<1>3. \A i \in 1..n : vs.versions[i].id \in 1..MaxID /\ vs.versions[i].id \in Nat
  BY <1>2, MaxIDAssumption DEF ObjectMeta
<1>4. \A i, j \in 1..n : i < j => vs.versions[i].id < vs.versions[j].id
  BY <1>1 DEF Ordered
<1>5. n # 0 => vs.current = n
  <2>1. n # 0 => vs.versions # <<>>
    BY <1>2
  <2> QED
    BY <1>1, <2>1 DEF Ordered, HasKey
<1> HIDE DEF n
<1>6. ASSUME NEW i \in 1..n, NEW j \in 1..n, vs.versions[i].id = vs.versions[j].id PROVE i = j
  <2>1. ~ (i < j) /\ ~ (j < i)
    BY <1>3, <1>4, <1>6
  <2> QED
    BY <1>2, <2>1
<1>7. ASSUME NEW i \in 1..n, NEW j \in 1..n, i = vs.current
      PROVE  vs.versions[j].id <= vs.versions[i].id
  <2>1. i = n
    BY <1>2, <1>5, <1>7
  <2>2. j = n \/ j < n
    BY <1>2
  <2> QED
    BY <1>3, <1>4, <2>1, <2>2
<1> QED
  BY <1>2, <1>3, <1>6, <1>7 DEF n, vs

\* The parts of an entry.
LEMMA EntryParts ==
  ASSUME NEW b, NEW k, NEW i
  PROVE  /\ EntryOf(b, k, i).key = k
         /\ EntryOf(b, k, i).id = objects[b][k].versions[i].id
         /\ EntryOf(b, k, i).isLatest <=> i = objects[b][k].current
BY DEF EntryOf

\* Two entries, of the same list or not, with the same key and ID are the same one.
LEMMA EntryUnique ==
  ASSUME IInv, NEW b \in Buckets, NEW p \in SUBSET Keys, NEW m, NEW n,
         NEW e \in EntrySet(b, p, m), NEW f \in EntrySet(b, p, n),
         e.key = f.key, e.id = f.id
  PROVE  e = f /\ m = n
<1>1. PICK k \in p : \E i \in 1..Len(objects[b][k].versions) :
         IsDeleteMarker(objects[b][k].versions[i]) = m /\ e = EntryOf(b, k, i)
  BY EntryVersion
<1>2. PICK i \in 1..Len(objects[b][k].versions) :
         IsDeleteMarker(objects[b][k].versions[i]) = m /\ e = EntryOf(b, k, i)
  BY <1>1
<1>3. PICK l \in p : \E j \in 1..Len(objects[b][l].versions) :
         IsDeleteMarker(objects[b][l].versions[j]) = n /\ f = EntryOf(b, l, j)
  BY EntryVersion
<1>4. PICK j \in 1..Len(objects[b][l].versions) :
         IsDeleteMarker(objects[b][l].versions[j]) = n /\ f = EntryOf(b, l, j)
  BY <1>3
<1>5. k = l
  BY <1>2, <1>4, EntryParts
<1>6. objects[b][k].versions[i].id = objects[b][k].versions[j].id
  BY <1>2, <1>4, <1>5, EntryParts
<1>7. k \in Keys
  OBVIOUS
<1>8. i = j
  BY <1>5, <1>6, <1>7, VersionFacts
<1> QED
  BY <1>2, <1>4, <1>5, <1>8, Zenon

\* The types of the parts, and that there are finitely many.
LEMMA EntryTypes ==
  ASSUME IInv, NEW b \in Buckets, NEW p \in SUBSET Keys, NEW m,
         NEW e \in EntrySet(b, p, m)
  PROVE  e.key \in p /\ e.key \in Nat /\ e.id \in 1..MaxID /\ e.id \in Nat
<1>1. PICK k \in p : \E i \in 1..Len(objects[b][k].versions) :
         IsDeleteMarker(objects[b][k].versions[i]) = m /\ e = EntryOf(b, k, i)
  BY EntryVersion
<1>2. PICK i \in 1..Len(objects[b][k].versions) : e = EntryOf(b, k, i)
  BY <1>1
<1>3. k \in Keys /\ e.key = k /\ e.id = objects[b][k].versions[i].id
  BY <1>2, EntryParts
<1>4. e.id \in 1..MaxID
  BY <1>3, VersionFacts
<1>5. k \in Nat
  BY <1>3, KeysAssumption
<1> QED
  BY <1>3, <1>4, <1>5, MaxIDAssumption

LEMMA EntriesFinite ==
  ASSUME IInv, NEW b \in Buckets, NEW p \in SUBSET Keys, NEW m
  PROVE  IsFiniteSet(EntrySet(b, p, m))
<1> DEFINE E == EntrySet(b, p, m)
           P == Keys \X (1..MaxID)
           f == [e \in E |-> <<e.key, e.id>>]
<1>1. IsFiniteSet(P)
  <2>1. IsFiniteSet(1..MaxID)
    BY MaxIDAssumption, FS_Interval
  <2> QED
    BY <2>1, KeysAssumption, FS_Product
<1>2. \A e \in E : e.key \in Keys /\ e.id \in 1..MaxID
  BY EntryTypes
<1>3. \A e, g \in E : e.key = g.key /\ e.id = g.id => e = g
  BY EntryUnique
<1> HIDE DEF E
<1>4. f \in [E -> P]
  BY <1>2
<1>5. ASSUME NEW e \in E, NEW g \in E, f[e] = f[g] PROVE e = g
  <2>1. e.key = g.key /\ e.id = g.id
    BY <1>5
  <2> QED
    BY <1>3, <2>1
<1> HIDE DEF P
<1>6. f \in Injection(E, P)
  <2>1. DOMAIN f = E
    OBVIOUS
  <2> HIDE DEF f
  <2> QED
    BY <1>4, <1>5, <2>1 DEF Injection, IsInjective
<1> HIDE DEF f
<1>7. IsFiniteSet(E)
  BY <1>1, <1>6, FS_Injection
<1> QED
  BY <1>7 DEF E

\* The order by key, and by ID as a string from high to low, is strict.
LEMMA EntryOrderStrict ==
  ASSUME IInv, NEW b \in Buckets, NEW p \in SUBSET Keys, NEW m
  PROVE  StrictOrder(EntryOrder(EntrySet(b, p, m)), EntrySet(b, p, m))
<1> DEFINE E == EntrySet(b, p, m)
           R == EntryOrder(E)
<1>1. \A e \in E : e.key \in Nat /\ e.id \in Nat
  BY EntryTypes
<1>2. \A e \in E : decimal[e.id] \in Seq(Nat)
  BY <1>1, DecimalFacts
<1>3. \A e, f \in E : <<e, f>> \in R <=> EntryLess(e, f)
  BY DEF EntryOrder
<1> HIDE DEF E, R
<1>4. ASSUME NEW e \in E PROVE ~ EntryLess(e, e)
  <2>1. ~ StringLess(decimal[e.id], decimal[e.id]) /\ ~ (e.key < e.key)
    BY <1>1, <1>2, StringLessOrder
  <2> QED
    BY <2>1 DEF EntryLess
<1>5. ASSUME NEW e \in E, NEW f \in E, NEW g \in E, EntryLess(e, f), EntryLess(f, g)
      PROVE  EntryLess(e, g)
  <2>1. e.key \in Nat /\ f.key \in Nat /\ g.key \in Nat
    BY <1>1
  <2>2. CASE e.key < f.key \/ f.key < g.key
    <3>1. e.key < g.key
      BY <1>5, <2>1, <2>2 DEF EntryLess
    <3> QED
      BY <3>1 DEF EntryLess
  <2>3. CASE ~ (e.key < f.key \/ f.key < g.key)
    <3>1. /\ e.key = g.key
          /\ StringLess(decimal[f.id], decimal[e.id]) /\ StringLess(decimal[g.id], decimal[f.id])
      BY <1>5, <2>3 DEF EntryLess
    <3>2. StringLess(decimal[g.id], decimal[e.id])
      BY <1>2, <3>1, StringLessOrder
    <3> QED
      BY <3>1, <3>2 DEF EntryLess
  <2> QED
    BY <2>2, <2>3
<1>6. StrictOrder(R, E)
  BY <1>3, <1>4, <1>5 DEF StrictOrder
<1> QED
  BY <1>6 DEF E, R

\* The order of a list: by key, and among IDs of the same number of digits from
\* the newest version to the oldest.
DigitsOrdered(s) ==
  \A i, j \in 1..Len(s) :
     i < j => \/ s[i].key < s[j].key
              \/ /\ s[i].key = s[j].key
                 /\ Len(decimal[s[i].id]) = Len(decimal[s[j].id]) => s[i].id > s[j].id

KeysOrdered(s) == \A i, j \in 1..Len(s) : i < j => s[i].key <= s[j].key

\* One of the two lists: its entries, each once and in order.
LEMMA EntriesFacts ==
  ASSUME IInv, NEW b \in Buckets, NEW p \in SUBSET Keys, NEW m
  PROVE  LET s == Entries(b, p, m)
             E == EntrySet(b, p, m)
         IN  /\ s \in Seq(E) /\ Len(s) = Cardinality(E)
             /\ ToSet(s) = E
             /\ DigitsOrdered(s) /\ KeysOrdered(s)
<1> DEFINE s == Entries(b, p, m)
           E == EntrySet(b, p, m)
           R == EntryOrder(E)
<1>1. IsFiniteSet(E) /\ StrictOrder(R, E)
  BY EntriesFinite, EntryOrderStrict
<1>2. \A e, f \in E : <<e, f>> \in R <=> EntryLess(e, f)
  BY DEF EntryOrder
<1>3. s = CHOOSE t \in Bijection(1..Cardinality(E), E) :
            \A i, j \in 1..Cardinality(E) : i < j => ~ EntryLess(t[j], t[i])
  BY EntriesDef
<1>4. /\ \A e \in E : e.key \in Nat /\ e.id \in Nat
      /\ \A e, f \in E : e.key = f.key /\ e.id = f.id => e = f
  BY EntryTypes, EntryUnique
<1> HIDE DEF E, R, s
<1>5. PICK a : Arranged(a, E, R)
  BY <1>1, ArrangedExists
<1>6. ASSUME NEW t \in Bijection(1..Cardinality(E), E)
      PROVE  (\A i, j \in 1..Cardinality(E) : i < j => ~ EntryLess(t[j], t[i])) <=> Arranged(t, E, R)
  <2>1. \A i \in 1..Cardinality(E) : t[i] \in E
    BY DEF Bijection, Injection
  <2> QED
    BY <1>2, <2>1 DEF Arranged
<1>7. a \in Bijection(1..Cardinality(E), E)
  BY <1>5 DEF Arranged
<1>8. Arranged(s, E, R)
  BY <1>3, <1>5, <1>6, <1>7
<1>9. /\ s \in Seq(E) /\ Len(s) = Cardinality(E) /\ Len(s) \in Nat
      /\ \A k \in E : \E i \in 1..Len(s) : s[i] = k
      /\ \A i \in 1..Len(s) : s[i] \in E
      /\ \A i, j \in 1..Len(s) : i < j => s[i] # s[j] /\ <<s[j], s[i]>> \notin R
  BY <1>1, <1>8, ArrangedFacts, Zenon
<1>10. ToSet(s) = E
  BY <1>9 DEF ToSet
<1>11. ASSUME NEW i \in 1..Len(s), NEW j \in 1..Len(s), i < j
       PROVE  \/ s[i].key < s[j].key
              \/ /\ s[i].key = s[j].key
                 /\ Len(decimal[s[i].id]) = Len(decimal[s[j].id]) => s[i].id > s[j].id
  <2> DEFINE e == s[i]
             f == s[j]
  <2>1. e \in E /\ f \in E /\ e # f /\ ~ EntryLess(f, e)
    BY <1>2, <1>9, <1>11
  <2> HIDE DEF e, f
  <2>2. e.key \in Nat /\ f.key \in Nat /\ e.id \in Nat /\ f.id \in Nat
    BY <1>4, <2>1
  <2>3. ~ (f.key < e.key) /\ (f.key = e.key => ~ StringLess(decimal[e.id], decimal[f.id]))
    BY <2>1 DEF EntryLess
  <2>4. ASSUME e.key = f.key, Len(decimal[e.id]) = Len(decimal[f.id]) PROVE e.id > f.id
    <3>1. e.id # f.id
      BY <1>4, <2>1, <2>4
    <3>2. ~ (e.id < f.id)
      BY <2>2, <2>3, <2>4, DecimalOrder
    <3> QED
      BY <2>2, <3>1, <3>2
  <2>5. e.key < f.key \/ e.key = f.key
    BY <2>2, <2>3
  <2> QED
    BY <2>4, <2>5 DEF e, f
<1>12. KeysOrdered(s)
  <2>1. \A i \in 1..Len(s) : s[i].key \in Nat
    BY <1>4, <1>9
  <2> QED
    BY <1>11, <2>1 DEF KeysOrdered
<1> QED
  BY <1>9, <1>10, <1>11, <1>12 DEF s, E, DigitsOrdered

\* Well-formed metadata is listed completely.
LEMMA ListedOnce ==
  ASSUME IInv
  PROVE  VersionsListed
<1> SUFFICES ASSUME NEW b \in Buckets, NEW p \in KeyPrefixes
    PROVE  LET r   == ListObjectVersions(b, p)
               all == ToSet(r.versions) \cup ToSet(r.deleteMarkers)
           IN  /\ \A k \in p : \A i \in 1..Len(objects[b][k].versions) :
                    \E e \in all : e.key = k /\ e.id = objects[b][k].versions[i].id
               /\ Cardinality(all) = Len(r.versions) + Len(r.deleteMarkers)
               /\ \A e, f \in all : e.key = f.key /\ e.isLatest => f.id <= e.id
               /\ \A s \in {r.versions, r.deleteMarkers} : \A i, j \in 1..Len(s) :
                    i < j => s[i].key <= s[j].key
  BY DEF VersionsListed
<1> DEFINE r == ListObjectVersions(b, p)
           V == EntrySet(b, p, FALSE)
           D == EntrySet(b, p, TRUE)
           all == ToSet(r.versions) \cup ToSet(r.deleteMarkers)
<1>1. p \in SUBSET Keys
  BY PrefixesAssumption
<1>2. r.versions = Entries(b, p, FALSE) /\ r.deleteMarkers = Entries(b, p, TRUE)
  BY DEF ListObjectVersions
<1>3. ToSet(r.versions) = V /\ Len(r.versions) = Cardinality(V) /\ KeysOrdered(r.versions)
  <2>1. /\ ToSet(Entries(b, p, FALSE)) = V /\ Len(Entries(b, p, FALSE)) = Cardinality(V)
        /\ KeysOrdered(Entries(b, p, FALSE))
    BY <1>1, EntriesFacts
  <2> QED
    BY <1>2, <2>1
<1>4. /\ ToSet(r.deleteMarkers) = D /\ Len(r.deleteMarkers) = Cardinality(D)
      /\ KeysOrdered(r.deleteMarkers)
  <2>1. /\ ToSet(Entries(b, p, TRUE)) = D /\ Len(Entries(b, p, TRUE)) = Cardinality(D)
        /\ KeysOrdered(Entries(b, p, TRUE))
    BY <1>1, EntriesFacts
  <2> QED
    BY <1>2, <2>1
<1>5. all = V \cup D
  BY <1>3, <1>4
<1>6. ASSUME NEW k \in p, NEW i \in 1..Len(objects[b][k].versions)
      PROVE  \E e \in all : e.key = k /\ e.id = objects[b][k].versions[i].id
  <2> DEFINE e == EntryOf(b, k, i)
  <2>1. IsDeleteMarker(objects[b][k].versions[i]) \in BOOLEAN
    BY DEF IsDeleteMarker
  <2>2. e \in V \/ e \in D
    BY <2>1, EntryVersion
  <2>3. e.key = k /\ e.id = objects[b][k].versions[i].id
    BY EntryParts
  <2> QED
    BY <1>5, <2>2, <2>3, Zenon
<1>7. Cardinality(all) = Len(r.versions) + Len(r.deleteMarkers)
  <2>1. IsFiniteSet(V) /\ IsFiniteSet(D)
    BY <1>1, EntriesFinite
  <2>2. V \cap D = {}
    <3>1. ASSUME NEW e, e \in V, e \in D PROVE FALSE
      <4>1. FALSE = TRUE
        BY <1>1, <3>1, EntryUnique, Zenon
      <4> QED
        BY <4>1
    <3> QED
      BY <3>1
  <2> HIDE DEF V, D
  <2>3. Cardinality(V \cap D) = 0
    BY <2>2, FS_EmptySet
  <2>4. Cardinality(V \cup D) = Cardinality(V) + Cardinality(D) - Cardinality(V \cap D)
    BY <2>1, FS_Union
  <2>5. Cardinality(V) \in Nat /\ Cardinality(D) \in Nat
    BY <2>1, FS_CardinalityType
  <2> QED
    BY <1>3, <1>4, <1>5, <2>3, <2>4, <2>5
<1>8. ASSUME NEW e \in all, NEW f \in all, e.key = f.key, e.isLatest PROVE f.id <= e.id
  <2>1. ASSUME NEW g \in all
        PROVE  \E k \in p : \E i \in 1..Len(objects[b][k].versions) : g = EntryOf(b, k, i)
    <3>1. CASE g \in V
      <4> DEFINE marker == FALSE
      <4>1. g \in EntrySet(b, p, marker)
        BY <3>1
      <4> HIDE DEF marker
      <4> QED
        BY <4>1, EntryHasVersion
    <3>2. CASE g \in D
      <4> DEFINE marker == TRUE
      <4>1. g \in EntrySet(b, p, marker)
        BY <3>2
      <4> HIDE DEF marker
      <4> QED
        BY <4>1, EntryHasVersion
    <3>3. g \in V \cup D
      BY <1>5, <2>1
    <3> QED
      BY <3>1, <3>2, <3>3
  <2>2. PICK k \in p : \E i \in 1..Len(objects[b][k].versions) : e = EntryOf(b, k, i)
    BY <2>1
  <2>3. PICK i \in 1..Len(objects[b][k].versions) : e = EntryOf(b, k, i)
    BY <2>2
  <2>4. PICK l \in p : \E j \in 1..Len(objects[b][l].versions) : f = EntryOf(b, l, j)
    BY <2>1
  <2>5. PICK j \in 1..Len(objects[b][l].versions) : f = EntryOf(b, l, j)
    BY <2>4
  <2>6. k = l /\ i = objects[b][k].current
    BY <1>8, <2>3, <2>5, EntryParts
  <2>7. e.id = objects[b][k].versions[i].id /\ f.id = objects[b][k].versions[j].id
    BY <2>3, <2>5, <2>6, EntryParts
  <2>8. k \in Keys
    BY <1>1
  <2> QED
    BY <2>6, <2>7, <2>8, VersionFacts
<1>9. \A s \in {r.versions, r.deleteMarkers} : \A i, j \in 1..Len(s) :
         i < j => s[i].key <= s[j].key
  BY <1>3, <1>4 DEF KeysOrdered
<1> QED
  BY <1>6, <1>7, <1>8, <1>9

\* A client that lists leaves the metadata to MetaStore: its steps are steps of
\* MetaStore or change nothing there (meta.go: the read lock).
THEOREM ListingImplements == ListSpec => Spec
<1>1. ListInit => Init
  BY DEF ListInit
<1>2. [ListNext]_listVars => [Next]_metaVars
  BY DEF ListNext, listVars, ListBegin, ListCheck, ListPage, ListEnd, ListRunning,
         ListRestart, Next
<1> QED
  BY <1>1, <1>2, PTL DEF ListSpec, Spec

\* ListObjectVersions lists every version of every matching key once, in the
\* order of the keys, and marks the newest one at most (meta.go:
\* ListObjectVersions).
THEOREM AllVersionsListed == ListSpec => []VersionsListed
BY ListedOnce, ListingImplements, Inductive, PTL

\* "sorted by key then version (newest first)" (meta.go:254), the whole of it.
NewestFirst ==
  \A b \in Buckets, p \in KeyPrefixes :
    LET r == ListObjectVersions(b, p)
    IN  \A s \in {r.versions, r.deleteMarkers} : \A i, j \in 1..Len(s) :
          i < j => \/ s[i].key < s[j].key
                   \/ (s[i].key = s[j].key /\ s[i].id > s[j].id)

LEMMA OneDigitOrdered ==
  ASSUME IInv, MaxID <= 9, NEW b \in Buckets, NEW p \in KeyPrefixes, NEW m,
         NEW i \in 1..Len(Entries(b, p, m)), NEW j \in 1..Len(Entries(b, p, m)), i < j
  PROVE  LET s == Entries(b, p, m)
         IN  \/ s[i].key < s[j].key
             \/ (s[i].key = s[j].key /\ s[i].id > s[j].id)
<1> DEFINE s == Entries(b, p, m)
<1>1. p \in SUBSET Keys
  BY PrefixesAssumption
<1>2. DigitsOrdered(s) /\ s \in Seq(EntrySet(b, p, m))
  BY <1>1, EntriesFacts
<1>3. s[i] \in EntrySet(b, p, m) /\ s[j] \in EntrySet(b, p, m)
  <2> HIDE DEF s
  <2> QED
    BY <1>2 DEF s
<1>4. s[i].id \in 1..MaxID /\ s[j].id \in 1..MaxID
  BY <1>1, <1>3, EntryTypes
<1> HIDE DEF s
<1>5. \A n \in 1..MaxID : decimal[n] = <<n>>
  <2>1. \A n \in 1..MaxID : n \in Nat /\ n < 10
    BY MaxIDAssumption
  <2> QED
    BY <2>1, DecimalFacts
<1>6. Len(decimal[s[i].id]) = Len(decimal[s[j].id])
  BY <1>4, <1>5
<1> QED
  BY <1>2, <1>6 DEF DigitsOrdered, s

\* What the comment of ListObjectVersions promises holds as long as no key has
\* had more than nine versions.  From the tenth on it does not: "10" sorts below
\* "9" (meta.go:289, the comparison of VersionID as strings).
THEOREM NewestFirstBelowTen ==
  ASSUME MaxID <= 9
  PROVE  ListSpec => []NewestFirst
<1>1. ASSUME IInv PROVE NewestFirst
  <2> SUFFICES ASSUME NEW b \in Buckets, NEW p \in KeyPrefixes,
                      NEW s \in {Entries(b, p, FALSE), Entries(b, p, TRUE)},
                      NEW i \in 1..Len(s), NEW j \in 1..Len(s), i < j
               PROVE  s[i].key < s[j].key \/ (s[i].key = s[j].key /\ s[i].id > s[j].id)
    BY DEF NewestFirst, ListObjectVersions
  <2>1. PICK m \in BOOLEAN : s = Entries(b, p, m)
    OBVIOUS
  <2> QED
    BY <1>1, <2>1, OneDigitOrdered
<1> QED
  BY <1>1, ListingImplements, Inductive, PTL
=============================================================================
