------------------------- MODULE StoreRequestProofs -------------------------
(***************************************************************************)
(* Proofs about Store, continued: what a PUT has created stays, for any    *)
(* number of object requests at once, whatever they write and delete and   *)
(* whatever fails, as long as no two bucket calls overlap or no bucket is  *)
(* deleted.                                                                *)
(***************************************************************************)
EXTENDS StoreProofs

-----------------------------------------------------------------------------
(* The inductive invariants. *)

\* Bucket calls: a bucket whose maps are yet to be set is in BoltDB and has no
\* map, and what the cache has too much is about to be deleted.
BucketsInv ==
  /\ made \subseteq cache
  /\ \A b \in cache \ bolt : \E c \in Callers : b \in deleting[c]
  /\ \A c \in Callers :
        /\ creating[c] \subseteq bolt \ cache
        /\ \A b, d \in creating[c] \cup deleting[c] : b = d
        /\ creating[c] = {} \/ deleting[c] = {}
        /\ deleting[c] # {} => "rmbucket" \in Ops
  /\ \A c, d \in Callers : creating[c] \cap creating[d] # {} => c = d

\* A PUT that has created a version, answered or not.
Creator(t) == t \notin taken /\ job[t].op = "put" /\ job[t].vid # 0

VersionOf(t) == [id |-> job[t].vid, sha |-> job[t].sha]

\* Its version is there; only a GET opens a file.
KeptInv ==
  \A t \in Threads :
     /\ pc[t] = "open" => job[t].op = "get"
     /\ Creator(t) => IsVersionOf(job[t].b, job[t].k, VersionOf(t))

\* IsVersionOf after the step.
IsVersionNext(b, k, m) ==
  \E i \in 1..Len(objects'[b][k].versions) : objects'[b][k].versions[i] = m

\* When the promise holds: bucket calls come one after the other, or buckets are
\* only created.
BucketCallsApart == (\A c, d \in Callers : c = d) \/ "rmbucket" \notin Ops

-----------------------------------------------------------------------------
(* What a step of a request leaves alone. *)

\* A step of the request that goroutine t serves.
RequestStep(t) ==
  \/ \E b \in Buckets, k \in Keys :
        \/ \E s \in Shas : PutOpen(t, b, k, s)
        \/ \E op \in {"get", "head", "del"}, v \in 0..MaxID : Lookup(t, op, b, k, v)
        \/ DeleteMark(t, b, k)
  \/ PutWrite(t) \/ PutRegister(t) \/ PutReadBack(t) \/ PutName(t)
  \/ GetOpen(t) \/ ReadFlag(t) \/ ReadMarker(t)
  \/ ReadETag(t) \/ ReadVersionID(t) \/ GetCopy(t)
  \/ DeleteUnregister(t) \/ DeleteCheck(t) \/ DeleteRemove(t)
  \/ Finish(t)

\* The steps that leave job, taken and the metadata alone.
ReadingStep(t) ==
  \/ PutWrite(t) \/ PutReadBack(t) \/ PutName(t) \/ ReadFlag(t) \/ ReadMarker(t)
  \/ ReadETag(t) \/ ReadVersionID(t) \/ GetCopy(t) \/ DeleteCheck(t) \/ DeleteRemove(t)

LEMMA StoreSteps ==
  ASSUME StoreNext
  PROVE  \/ \E t \in Threads : RequestStep(t)
         \/ \E c \in Callers, b \in Buckets : BucketCall(c, b) \/ BucketCallLocked(c, b)
BY DEF StoreNext, RequestStep

LEMMA ReadingSteps ==
  ASSUME StoreTypeOK, NEW t \in Threads, ReadingStep(t)
  PROVE  /\ UNCHANGED <<metaVars, job, taken>>
         /\ pc'[t] # "open" /\ \A u \in Threads \ {t} : pc'[u] = pc[u]
<1>1. pc \in [Threads -> Labels]
  BY DEF StoreTypeOK, Labels
<1>2. \A label : Goto(t, label) => pc'[t] = label /\ \A u \in Threads \ {t} : pc'[u] = pc[u]
  BY <1>1 DEF Goto
<1>3. \A r : Reply(t, r) => pc'[t] = "done" /\ \A u \in Threads \ {t} : pc'[u] = pc[u]
  BY <1>1 DEF Reply
<1>4. \A r : Return(t, r) => Reply(t, r)
  BY DEF Return
<1>5. CASE PutWrite(t) \/ DeleteCheck(t)
  BY <1>2, <1>3, <1>4, <1>5 DEF PutWrite, DeleteCheck
<1>9. CASE PutReadBack(t)
  <2>1. (\E label \in {"name"} : Goto(t, label)) \/ \E r : Reply(t, r)
    BY <1>9 DEF PutReadBack
  <2>2. UNCHANGED <<metaVars, job, taken>>
    BY <1>9 DEF PutReadBack
  <2> QED
    BY <1>2, <1>3, <2>1, <2>2
<1>10. CASE DeleteRemove(t)
  <2>1. (\E r : Reply(t, r)) /\ UNCHANGED <<metaVars, job, taken>>
    BY <1>10 DEF DeleteRemove
  <2> QED
    BY <1>3, <2>1
<1>8. CASE PutName(t) \/ ReadMarker(t) \/ GetCopy(t)
  BY <1>3, <1>4, <1>8 DEF PutName, ReadMarker, GetCopy
<1>6. CASE ReadFlag(t)
  <2>1. PICK label \in {"marker", "etag"} : Goto(t, label)
    BY <1>6 DEF ReadFlag
  <2> QED
    BY <1>2, <1>6, <2>1 DEF ReadFlag
<1>7. CASE ReadETag(t) \/ ReadVersionID(t)
  BY <1>1, <1>3, <1>4, <1>7 DEF ReadETag, ReadVersionID
<1> QED
  BY <1>5, <1>6, <1>7, <1>8, <1>9, <1>10 DEF ReadingStep

\* Requests leave the buckets alone.
LEMMA RequestsKeepBuckets ==
  ASSUME StoreTypeOK, NEW t \in Threads, RequestStep(t)
  PROVE  UNCHANGED <<bolt, cache, made, creating, deleting>>
<1>1. UNCHANGED metaVars => UNCHANGED <<bolt, cache, made, creating, deleting>>
  BY DEF metaVars
<1>2. ApplyPut(t) => UNCHANGED <<bolt, cache, made, creating, deleting>>
  BY DEF ApplyPut, PutObject, SetVersions, calls
<1>3. ApplyDelete(t) => UNCHANGED <<bolt, cache, made, creating, deleting>>
  BY DEF ApplyDelete, DeleteVersion, SetVersions, calls
<1>4. \A b \in Buckets, k \in Keys :
         PutDeleteMarker(b, k) => UNCHANGED <<bolt, cache, made, creating, deleting>>
  BY DEF PutDeleteMarker, SetVersions, calls
<1>5. ASSUME NEW b \in Buckets, NEW k \in Keys,
             \/ \E s \in Shas : PutOpen(t, b, k, s)
             \/ \E op \in {"get", "head", "del"}, v \in 0..MaxID : Lookup(t, op, b, k, v)
             \/ DeleteMark(t, b, k)
      PROVE  UNCHANGED <<bolt, cache, made, creating, deleting>>
  BY <1>1, <1>4, <1>5 DEF PutOpen, Lookup, DeleteMark
<1>6. CASE PutRegister(t)
  BY <1>1, <1>2, <1>6 DEF PutRegister, PutFails
<1>7. CASE DeleteUnregister(t)
  BY <1>1, <1>3, <1>7 DEF DeleteUnregister, DeleteFails
<1>8. CASE GetOpen(t) \/ Finish(t)
  BY <1>1, <1>8 DEF GetOpen, Finish
<1>9. CASE ReadingStep(t)
  BY <1>1, <1>9, ReadingSteps
<1> QED
  BY <1>5, <1>6, <1>7, <1>8, <1>9 DEF RequestStep, ReadingStep

-----------------------------------------------------------------------------
(* Bucket calls. *)

LEMMA BucketsInit == StoreInit => BucketsInv
BY DEF StoreInit, Init, BucketsInv

\* A bucket is created once, and the maps it gets replace none.
LEMMA BucketsNext ==
  ASSUME BucketCallsApart, IInv, StoreInv, BucketsInv, [StoreNext]_vars
  PROVE  BucketsInv'
<1>1. UNCHANGED <<bolt, cache, made, creating, deleting>> => BucketsInv'
  BY DEF BucketsInv
<1>2. CASE UNCHANGED vars
  BY <1>1, <1>2 DEF vars, metaVars
<1>3. ASSUME NEW t \in Threads, RequestStep(t) PROVE BucketsInv'
  BY <1>1, <1>3, RequestsKeepBuckets DEF StoreInv
<1>4. creating \in [Callers -> SUBSET Buckets] /\ deleting \in [Callers -> SUBSET Buckets]
  BY DEF IInv, TypeOK
<1>5. ASSUME NEW c \in Callers, NEW b \in Buckets, BucketCall(c, b) PROVE BucketsInv'
  <2>1. Idle(c)
    BY <1>5 DEF BucketCall, CreateBucket, DeleteBucket
  <2>2. CASE CreateBucket(c, b)
    <3>1. /\ bolt' = bolt \cup {b} /\ cache' = cache /\ made' = made /\ b \notin bolt
          /\ creating' = [creating EXCEPT ![c] = {b}] /\ deleting' = deleting
      BY <2>2 DEF CreateBucket, memory
    <3>2. b \notin cache
      BY <2>1, <3>1 DEF BucketsInv, Idle, BucketCallsApart
    <3> QED
      BY <1>4, <2>1, <3>1, <3>2 DEF BucketsInv, Idle
  <2>3. CASE "rmbucket" \in Ops /\ DeleteBucket(c, b)
    <3>1. /\ bolt' = bolt \ {b} /\ cache' = cache /\ made' = made
          /\ deleting' = [deleting EXCEPT ![c] = {b}] /\ creating' = creating
      BY <2>3 DEF DeleteBucket, memory
    <3>2. \A d \in Callers : d = c
      BY <2>3 DEF BucketCallsApart
    <3>3. deleting'[c] = {b} /\ creating'[c] = {}
      BY <1>4, <2>1, <3>1 DEF Idle
    <3>4. cache \subseteq bolt
      BY <2>1, <3>2 DEF BucketsInv, Idle
    <3>5. /\ made' \subseteq cache' /\ \A d \in cache' \ bolt' : d \in deleting'[c]
          /\ \A d \in deleting'[c] : d = b
      BY <3>1, <3>3, <3>4 DEF BucketsInv
    <3>6. \A d \in Callers : d = c /\ creating'[d] = {} /\ deleting'[d] = {b}
      BY <3>2, <3>3
    <3> HIDE DEF BucketCallsApart
    <3> QED
      BY <2>3, <3>5, <3>6 DEF BucketsInv
  <2> QED
    BY <1>5, <2>2, <2>3 DEF BucketCall
<1>6. ASSUME NEW c \in Callers, NEW b \in Buckets, BucketCallLocked(c, b) PROVE BucketsInv'
  <2>1. CASE b \in creating[c] /\ CreateBucketLocked(c)
    <3>1. creating[c] = {b} /\ deleting[c] = {} /\ b \in bolt
      BY <1>4, <2>1 DEF BucketsInv
    <3>2. /\ cache' = cache \cup {b} /\ made' = made \cup {b} /\ bolt' = bolt
          /\ creating' = [creating EXCEPT ![c] = {}] /\ deleting' = deleting
      BY <2>1, <3>1 DEF CreateBucketLocked
    <3>3. creating'[c] = {} /\ \A d \in Callers \ {c} : creating'[d] = creating[d]
      BY <1>4, <3>2
    <3>4. \A d \in Callers \ {c} : b \notin creating[d]
      BY <3>1 DEF BucketsInv
    <3> QED
      BY <3>1, <3>2, <3>3, <3>4 DEF BucketsInv
  <2>2. CASE b \in deleting[c] /\ DeleteBucketLocked(c)
    <3>1. deleting[c] = {b} /\ creating[c] = {}
      BY <1>4, <2>2 DEF BucketsInv
    <3>2. /\ cache' = cache \ {b} /\ made' = made \ {b} /\ bolt' = bolt
          /\ deleting' = [deleting EXCEPT ![c] = {}] /\ creating' = creating
      BY <2>2, <3>1 DEF DeleteBucketLocked
    <3>3. deleting'[c] = {} /\ \A d \in Callers \ {c} : deleting'[d] = deleting[d]
      BY <1>4, <3>2
    <3> QED
      BY <3>1, <3>2, <3>3 DEF BucketsInv
  <2> QED
    BY <1>6, <2>1, <2>2 DEF BucketCallLocked
<1> QED
  BY <1>2, <1>3, <1>5, <1>6, StoreSteps

-----------------------------------------------------------------------------
(* What happens to a version. *)

\* What one append does to the slices.
LEMMA AppendKeeps ==
  ASSUME IInv, NEW b \in Buckets, NEW k \in Keys, NEW s \in Shas \cup {NoSha},
         SetVersions(b, k, AppendVersion(objects[b][k], s)),
         NEW d \in Buckets, NEW e \in Keys
  PROVE  /\ Len(objects[d][e].versions) <= Len(objects'[d][e].versions)
         /\ \A i \in 1..Len(objects[d][e].versions) :
               objects'[d][e].versions[i] = objects[d][e].versions[i]
<1>1. objects \in [Buckets -> [Keys -> VersionStates]]
  BY DEF IInv, TypeOK, LiveState, Snapshots
<1>2. objects[b][k].versions \in Seq(ObjectMeta) /\ Len(objects[d][e].versions) \in Nat
  BY <1>1, EntryTypes DEF VersionStates
<1>3. CASE d = b /\ e = k
  <2> DEFINE m == [id |-> objects[b][k].nextID, sha |-> s]
             old == objects[b][k].versions
  <2>1. objects'[d][e].versions = Append(old, m)
    BY <1>1, <1>3 DEF SetVersions, AppendVersion
  <2>2. /\ Len(Append(old, m)) = Len(old) + 1
        /\ \A i \in 1..Len(old) : Append(old, m)[i] = old[i]
    BY <1>2
  <2> HIDE DEF m
  <2> QED
    BY <1>2, <1>3, <2>1, <2>2
<1>4. CASE ~ (d = b /\ e = k)
  <2>1. objects'[d][e] = objects[d][e]
    BY <1>1, <1>4 DEF SetVersions
  <2> QED
    BY <1>2, <2>1
<1> QED
  BY <1>3, <1>4

\* A version outlives an append to any key ...
LEMMA KeptOnAppend ==
  ASSUME IInv, IInv', NEW d \in Buckets, NEW e \in Keys, NEW s \in Shas \cup {NoSha},
         SetVersions(d, e, AppendVersion(objects[d][e], s)),
         NEW b \in Buckets, NEW k \in Keys, NEW m, IsVersionOf(b, k, m)
  PROVE  IsVersionNext(b, k, m)
<1>1. PICK i \in 1..Len(objects[b][k].versions) : objects[b][k].versions[i] = m
  BY DEF IsVersionOf
<1>2. /\ Len(objects[b][k].versions) <= Len(objects'[b][k].versions)
      /\ objects'[b][k].versions[i] = objects[b][k].versions[i]
  BY AppendKeeps
<1>3. Len(objects[b][k].versions) \in Nat /\ Len(objects'[b][k].versions) \in Nat
  <2>1. objects'[b][k] \in VersionStates
    BY DEF IInv, TypeOK, LiveState, Snapshots
  <2> QED
    BY <2>1, EntryTypes, EntryFacts
<1>4. i \in 1..Len(objects'[b][k].versions)
  BY <1>2, <1>3
<1> QED
  BY <1>1, <1>2, <1>4 DEF IsVersionNext

\* ... and the removal of one with another ID, which shifts the entries behind it.
LEMMA KeptOnRemove ==
  ASSUME IInv, NEW d \in Buckets, NEW e \in Keys, NEW v, DeleteVersion(d, e, v),
         NEW b \in Buckets, NEW k \in Keys, NEW m, IsVersionOf(b, k, m),
         ~ (b = d /\ k = e /\ m.id = v)
  PROVE  IsVersionNext(b, k, m)
<1>1. objects \in [Buckets -> [Keys -> VersionStates]]
  BY DEF IInv, TypeOK, LiveState, Snapshots
<1>2. PICK j \in 1..Len(objects[b][k].versions) : objects[b][k].versions[j] = m
  BY DEF IsVersionOf
<1>3. PICK i \in 1..Len(objects[d][e].versions) :
         /\ objects[d][e].versions[i].id = v
         /\ objects' = [objects EXCEPT ![d][e] = RemoveVersion(objects[d][e], i)]
  BY DEF DeleteVersion, IsVersionAt, SetVersions
<1>4. CASE ~ (b = d /\ k = e)
  <2>1. objects'[b][k] = objects[b][k]
    BY <1>1, <1>3, <1>4
  <2> QED
    BY <1>2, <2>1 DEF IsVersionNext
<1>5. CASE b = d /\ k = e
  <2> DEFINE old  == objects[b][k].versions
             rest == RemoveAt(old, i)
  <2>1. old \in Seq(ObjectMeta) /\ Len(old) \in Nat /\ j # i /\ i \in 1..Len(old)
    BY <1>1, <1>2, <1>3, <1>5, EntryFacts
  <2>2. /\ Len(rest) = Len(old) - 1
        /\ \A n \in 1..Len(old) - 1 : rest[n] = IF n < i THEN old[n] ELSE old[n + 1]
    BY <2>1, RemoveAtFacts
  <2>3. rest # <<>>
    <3>1. Len(rest) > 0
      BY <1>2, <2>1, <2>2
    <3> QED
      BY <3>1
  <2>4. objects'[b][k].versions = rest
    <3>1. objects'[b][k] = RemoveVersion(objects[b][k], i)
      BY <1>1, <1>3, <1>5
    <3>2. RemoveVersion(objects[b][k], i) =
            [objects[b][k] EXCEPT !.versions = rest, !.current = Len(rest)]
      BY <2>3 DEF RemoveVersion
    <3>3. objects[b][k] \in VersionStates
      BY <1>1
    <3> HIDE DEF rest
    <3> QED
      BY <3>1, <3>2, <3>3 DEF VersionStates
  <2>5. \E n \in 1..Len(rest) : rest[n] = old[j]
    <3> HIDE DEF rest, old
    <3>1. CASE j < i
      BY <1>2, <2>1, <2>2, <3>1 DEF old
    <3>2. CASE j > i
      <4>1. j - 1 \in 1..Len(old) - 1 /\ ~ (j - 1 < i) /\ (j - 1) + 1 = j
        BY <1>2, <2>1, <3>2 DEF old
      <4> QED
        BY <2>2, <4>1
    <3> QED
      BY <1>2, <2>1, <3>1, <3>2 DEF old
  <2> QED
    BY <1>2, <2>4, <2>5 DEF IsVersionNext
<1> QED
  BY <1>4, <1>5

\* The maps a new bucket gets replace none, so that its keys stay as they are.
LEMMA KeptOnCreate ==
  ASSUME IInv, BucketsInv, NEW c \in Callers, CreateBucketLocked(c),
         NEW b \in Buckets, NEW k \in Keys, NEW m, IsVersionOf(b, k, m)
  PROVE  IsVersionNext(b, k, m)
<1>1. PICK e \in creating[c] : objects' = [objects EXCEPT ![e] = noKeys]
  BY DEF CreateBucketLocked
<1>2. e \notin made
  BY DEF BucketsInv
<1>3. HasKey(objects[b][k]) => b \in made
  BY DEF IInv, WellFormed, MapsHold, LiveState
<1>4. HasKey(objects[b][k])
  <2>1. objects[b][k].versions = <<>> => Len(objects[b][k].versions) = 0
    OBVIOUS
  <2> QED
    BY <2>1 DEF IsVersionOf, HasKey
<1>5. objects \in [Buckets -> [Keys -> VersionStates]]
  BY DEF IInv, TypeOK, LiveState, Snapshots
<1>6. objects'[b] = objects[b]
  BY <1>1, <1>2, <1>3, <1>4, <1>5
<1> QED
  BY <1>6 DEF IsVersionOf, IsVersionNext

\* The version that applying a PUT creates.
LEMMA CreatedByApply ==
  ASSUME IInv, StoreInv, NEW t \in Threads, ApplyPut(t)
  PROVE  /\ \A u \in Threads \ {t} : job'[u] = job[u]
         /\ IsVersionNext(job'[t].b, job'[t].k, [id |-> job'[t].vid, sha |-> job'[t].sha])
<1> DEFINE b == job[t].b
           k == job[t].k
           vs == objects[b][k]
           m == [id |-> vs.nextID, sha |-> job[t].sha]
<1>1. job \in [Threads -> Jobs] /\ job[t] \in Jobs /\ b \in Buckets /\ k \in Keys
  BY RequestFacts
<1>2. job' = [job EXCEPT ![t].vid = vs.nextID]
  BY DEF ApplyPut
<1>3. /\ job'[t].b = b /\ job'[t].k = k /\ job'[t].sha = job[t].sha
      /\ job'[t].vid = vs.nextID /\ \A u \in Threads \ {t} : job'[u] = job[u]
  BY <1>1, <1>2 DEF Jobs
<1>4. objects \in [Buckets -> [Keys -> VersionStates]] /\ vs.versions \in Seq(ObjectMeta)
  BY <1>1, EntryTypes, EntryFacts DEF IInv, TypeOK, LiveState, Snapshots
<1>5. objects'[b][k].versions = Append(vs.versions, m)
  BY <1>1, <1>4 DEF ApplyPut, PutObject, SetVersions, AppendVersion
<1>6. m = [id |-> job'[t].vid, sha |-> job'[t].sha]
  BY <1>3
<1> HIDE DEF m, vs
<1>7. /\ Len(Append(vs.versions, m)) = Len(vs.versions) + 1 /\ Len(vs.versions) \in Nat
      /\ Append(vs.versions, m)[Len(vs.versions) + 1] = m
  BY <1>4
<1>8. /\ Len(vs.versions) + 1 \in 1..Len(objects'[b][k].versions)
      /\ objects'[b][k].versions[Len(vs.versions) + 1] = m
  <2>1. Len(vs.versions) + 1 \in 1..Len(vs.versions) + 1
    BY <1>7
  <2> QED
    BY <1>5, <1>7, <2>1
<1>9. IsVersionNext(b, k, m)
  BY <1>8 DEF IsVersionNext
<1> QED
  BY <1>3, <1>6, <1>9

-----------------------------------------------------------------------------
(* The versions of the PUTs. *)

LEMMA KeptInit == StoreInit => KeptInv
BY DEF StoreInit, KeptInv, noJob, Creator

\* What a step has to do to one request's part of the invariant.
KeptNext(u) ==
  /\ pc'[u] = "open" => job'[u].op = "get"
  /\ u \notin taken' /\ job'[u].op = "put" /\ job'[u].vid # 0 =>
       IsVersionNext(job'[u].b, job'[u].k, [id |-> job'[u].vid, sha |-> job'[u].sha])

LEMMA KeptParts ==
  ASSUME \A u \in Threads : KeptNext(u)
  PROVE  KeptInv'
BY DEF KeptNext, KeptInv, Creator, VersionOf, IsVersionOf, IsVersionNext

\* A request that keeps its job and is not taken less than before needs its
\* version kept, and no more.
LEMMA KeptByVersion ==
  ASSUME KeptInv, NEW u \in Threads, job'[u] = job[u],
         pc'[u] = "open" => pc[u] = "open",
         u \notin taken' => u \notin taken,
         u \notin taken' /\ Creator(u) /\ IsVersionOf(job[u].b, job[u].k, VersionOf(u)) =>
           IsVersionNext(job[u].b, job[u].k, VersionOf(u))
  PROVE  KeptNext(u)
BY DEF KeptNext, KeptInv, Creator, VersionOf

\* A version stays where it is while the objects do.
LEMMA KeptUnchanged ==
  ASSUME KeptInv, UNCHANGED objects, NEW u \in Threads, job'[u] = job[u],
         pc'[u] = "open" => pc[u] = "open",
         u \notin taken' => u \notin taken
  PROVE  KeptNext(u)
<1>1. \A b, k, m : IsVersionOf(b, k, m) => IsVersionNext(b, k, m)
  BY DEF IsVersionOf, IsVersionNext
<1> QED
  BY <1>1, KeptByVersion

\* Where the requests other than t are.
LEMMA OthersStay ==
  ASSUME StoreTypeOK, NEW t \in Threads
  PROVE  /\ \A label : Goto(t, label) =>
              pc'[t] = label /\ \A u \in Threads \ {t} : pc'[u] = pc[u]
         /\ \A r : Reply(t, r) =>
              pc'[t] = "done" /\ \A u \in Threads \ {t} : pc'[u] = pc[u]
BY DEF StoreTypeOK, Goto, Reply

\* Steps that begin or end a request without a change to the versions.
LEMMA KeptBeginEnd ==
  ASSUME StoreInv, KeptInv, NEW t \in Threads,
         \/ \E b \in Buckets, k \in Keys, s \in Shas : PutOpen(t, b, k, s)
         \/ \E b \in Buckets, k \in Keys, op \in {"get", "head", "del"}, v \in 0..MaxID :
               Lookup(t, op, b, k, v)
         \/ GetOpen(t) \/ Finish(t)
  PROVE  KeptInv'
<1>0. StoreTypeOK
  BY DEF StoreInv
<1>1. ASSUME UNCHANGED objects, job'[t].op # "put" \/ job'[t].vid = 0,
             pc'[t] = "open" => job'[t].op = "get",
             \A u \in Threads \ {t} : pc'[u] = pc[u] /\ job'[u] = job[u],
             \A u \in Threads \ {t} : u \notin taken' => u \notin taken
      PROVE  KeptInv'
  <2>1. KeptNext(t)
    BY <1>1 DEF KeptNext
  <2>2. \A u \in Threads \ {t} : KeptNext(u)
    BY <1>1, KeptUnchanged
  <2> QED
    BY <2>1, <2>2, KeptParts
<1>2. ASSUME NEW b \in Buckets, NEW k \in Keys, NEW s \in Shas, PutOpen(t, b, k, s)
      PROVE  KeptInv'
  <2>1. UNCHANGED objects /\ UNCHANGED taken
    BY <1>2 DEF PutOpen, metaVars
  <2>2. job'[t].vid = 0 /\ \A u \in Threads \ {t} : job'[u] = job[u]
    <3>1. job' = [job EXCEPT ![t] = [op |-> "put", b |-> b, k |-> k, sha |-> s, vid |-> 0]]
      BY <1>2 DEF PutOpen
    <3> QED
      BY <1>0, <3>1 DEF StoreTypeOK
  <2>3. pc'[t] # "open" /\ \A u \in Threads \ {t} : pc'[u] = pc[u]
    <3>1. (\E label \in {"write"} : Goto(t, label)) \/ \E r : Reply(t, r)
      BY <1>2 DEF PutOpen
    <3> QED
      BY <1>0, <3>1, OthersStay
  <2> QED
    BY <1>1, <2>1, <2>2, <2>3
<1>3. ASSUME NEW b \in Buckets, NEW k \in Keys, NEW op \in {"get", "head", "del"},
             NEW v \in 0..MaxID, Lookup(t, op, b, k, v)
      PROVE  KeptInv'
  <2>1. UNCHANGED objects /\ UNCHANGED taken
    BY <1>3 DEF Lookup, metaVars
  <2>2. PICK s : job' = [job EXCEPT ![t] =
                           [op |-> op, b |-> b, k |-> k, sha |-> s, vid |-> v]]
    BY <1>3 DEF Lookup
  <2>3. job'[t].op = op /\ \A u \in Threads \ {t} : job'[u] = job[u]
    BY <1>0, <2>2 DEF StoreTypeOK
  <2>4. /\ pc'[t] \in {firstStep[op], "done"} /\ \A u \in Threads \ {t} : pc'[u] = pc[u]
    BY <1>0, <1>3, OthersStay DEF Lookup
  <2>5. pc'[t] = "open" => job'[t].op = "get"
    BY <2>3, <2>4 DEF firstStep
  <2> QED
    BY <1>1, <2>1, <2>3, <2>4, <2>5
<1>4. CASE GetOpen(t)
  <2>1. UNCHANGED objects /\ UNCHANGED taken /\ job[t].op = "get"
    BY <1>4 DEF GetOpen, metaVars, KeptInv
  <2>2. job \in [Threads -> Jobs] /\ job[t] \in Jobs
    BY RequestFacts
  <2>3. job'[t].op = "get" /\ \A u \in Threads \ {t} : job'[u] = job[u]
    <3>1. UNCHANGED job \/ job' = [job EXCEPT ![t].sha = ptr[t].val.sha]
      BY <1>4 DEF GetOpen
    <3> QED
      BY <2>1, <2>2, <3>1 DEF Jobs
  <2>4. \A u \in Threads \ {t} : pc'[u] = pc[u]
    BY <1>0, <1>4, OthersStay DEF GetOpen
  <2> QED
    BY <1>1, <2>1, <2>3, <2>4
<1>5. CASE Finish(t)
  <2>1. /\ UNCHANGED objects /\ \A u \in Threads \ {t} : u \notin taken' => u \notin taken
        /\ job'[t] = noJob /\ pc'[t] = "idle"
        /\ \A u \in Threads \ {t} : pc'[u] = pc[u] /\ job'[u] = job[u]
    BY <1>0, <1>5 DEF Finish, metaVars, StoreTypeOK
  <2>2. noJob.vid = 0
    BY DEF noJob
  <2> QED
    BY <1>1, <2>1, <2>2
<1> QED
  BY <1>2, <1>3, <1>4, <1>5

\* Steps that change the versions of a key.
LEMMA KeptByChanges ==
  ASSUME IInv, IInv', StoreInv, KeptInv, NEW t \in Threads,
         \/ \E b \in Buckets, k \in Keys : DeleteMark(t, b, k)
         \/ PutRegister(t) \/ DeleteUnregister(t)
  PROVE  KeptInv'
<1>0. StoreTypeOK /\ job[t].b \in Buckets /\ job[t].k \in Keys
      /\ job[t].sha \in Shas \cup {NoSha}
      /\ \A u \in Threads : job[u].b \in Buckets /\ job[u].k \in Keys
  BY RequestFacts
<1>1. ASSUME NEW b \in Buckets, NEW k \in Keys, DeleteMark(t, b, k)
      PROVE  KeptInv'
  <2>1. /\ UNCHANGED objects \/ SetVersions(b, k, AppendVersion(objects[b][k], NoSha))
        /\ UNCHANGED taken
    BY <1>1 DEF DeleteMark, PutDeleteMarker, metaVars
  <2>2. job'[t].vid = 0 /\ \A u \in Threads \ {t} : job'[u] = job[u]
    <3>1. job' = [job EXCEPT ![t] =
                    [op |-> "mark", b |-> b, k |-> k, sha |-> NoSha, vid |-> 0]]
      BY <1>1 DEF DeleteMark
    <3> QED
      BY <1>0, <3>1 DEF StoreTypeOK
  <2>3. pc'[t] # "open" /\ \A u \in Threads \ {t} : pc'[u] = pc[u]
    <3>1. \E r : Reply(t, r)
      BY <1>1 DEF DeleteMark
    <3> QED
      BY <1>0, <3>1, OthersStay
  <2>4. \A u \in Threads \ {t} : KeptNext(u)
    <3>1. CASE UNCHANGED objects
      BY <2>1, <2>2, <2>3, <3>1, KeptUnchanged
    <3>2. CASE SetVersions(b, k, AppendVersion(objects[b][k], NoSha))
      <4>1. \A u \in Threads : IsVersionOf(job[u].b, job[u].k, VersionOf(u)) =>
                                 IsVersionNext(job[u].b, job[u].k, VersionOf(u))
        BY <1>0, <3>2, KeptOnAppend
      <4> QED
        BY <2>1, <2>2, <2>3, <4>1, KeptByVersion
    <3> QED
      BY <2>1, <3>1, <3>2
  <2>5. KeptNext(t)
    BY <2>2, <2>3 DEF KeptNext
  <2> QED
    BY <2>4, <2>5, KeptParts
<1>2. CASE PutRegister(t)
  <2>1. pc'[t] # "open" /\ (\A u \in Threads \ {t} : pc'[u] = pc[u]) /\ UNCHANGED taken
    <3>1. (\E label \in {"readback"} : Goto(t, label)) \/ \E r : Reply(t, r)
      BY <1>2 DEF PutRegister
    <3>2. UNCHANGED taken
      BY <1>2 DEF PutRegister
    <3> QED
      BY <1>0, <3>1, <3>2, OthersStay
  <2>2. CASE ApplyPut(t)
    <3>1. SetVersions(job[t].b, job[t].k,
                      AppendVersion(objects[job[t].b][job[t].k], job[t].sha))
      BY <2>2 DEF ApplyPut, PutObject
    <3>2. \A u \in Threads : IsVersionOf(job[u].b, job[u].k, VersionOf(u)) =>
                               IsVersionNext(job[u].b, job[u].k, VersionOf(u))
      BY <1>0, <3>1, KeptOnAppend
    <3>3. \A u \in Threads \ {t} : KeptNext(u)
      <4>1. \A u \in Threads \ {t} : job'[u] = job[u]
        BY <2>2, CreatedByApply
      <4> QED
        BY <2>1, <3>2, <4>1, KeptByVersion
    <3>4. KeptNext(t)
      BY <2>1, <2>2, CreatedByApply DEF KeptNext
    <3> QED
      BY <3>3, <3>4, KeptParts
  <2>3. CASE UNCHANGED <<metaVars, ptr, cap, job>>
    <3>1. UNCHANGED objects /\ UNCHANGED job
      BY <2>3 DEF metaVars
    <3>2. \A u \in Threads : KeptNext(u)
      BY <2>1, <3>1, KeptUnchanged
    <3> QED
      BY <3>2, KeptParts
  <2> QED
    BY <1>2, <2>2, <2>3 DEF PutRegister, PutFails
<1>3. CASE DeleteUnregister(t)
  <2>1. pc'[t] # "open" /\ (\A u \in Threads \ {t} : pc'[u] = pc[u]) /\ UNCHANGED job
    <3>1. (\E label \in {"check"} : Goto(t, label)) \/ \E r : Reply(t, r)
      BY <1>3 DEF DeleteUnregister
    <3>2. UNCHANGED job
      BY <1>3 DEF DeleteUnregister
    <3> QED
      BY <1>0, <3>1, <3>2, OthersStay
  <2>2. CASE ApplyDelete(t)
    <3>1. DeleteVersion(job[t].b, job[t].k, job[t].vid) /\ taken' = taken \cup PutsOf(t)
      BY <2>2 DEF ApplyDelete
    <3>2. ASSUME NEW u \in Threads, u \notin taken', Creator(u),
                 IsVersionOf(job[u].b, job[u].k, VersionOf(u))
          PROVE  IsVersionNext(job[u].b, job[u].k, VersionOf(u))
      <4>1. ~ (job[u].b = job[t].b /\ job[u].k = job[t].k /\ VersionOf(u).id = job[t].vid)
        BY <3>1, <3>2 DEF PutsOf, Creator, VersionOf
      <4> QED
        BY <1>0, <3>1, <3>2, <4>1, KeptOnRemove
    <3>3. \A u \in Threads : KeptNext(u)
      BY <2>1, <3>1, <3>2, KeptByVersion
    <3> QED
      BY <3>3, KeptParts
  <2>3. CASE UNCHANGED <<metaVars, taken, ptr, cap>>
    <3>1. UNCHANGED objects /\ UNCHANGED taken
      BY <2>3 DEF metaVars
    <3>2. \A u \in Threads : KeptNext(u)
      BY <2>1, <3>1, KeptUnchanged
    <3> QED
      BY <3>2, KeptParts
  <2> QED
    BY <1>3, <2>2, <2>3 DEF DeleteUnregister, DeleteFails
<1> QED
  BY <1>1, <1>2, <1>3

\* Bucket calls: a new bucket replaces no map, and a deleted one takes its
\* versions away.
LEMMA KeptByBuckets ==
  ASSUME IInv, StoreInv, BucketsInv, KeptInv, NEW c \in Callers, NEW b \in Buckets,
         BucketCall(c, b) \/ BucketCallLocked(c, b)
  PROVE  KeptInv'
<1>1. UNCHANGED <<pc, job>>
  BY DEF BucketCall, BucketCallLocked, storeVars, reqVars
<1>2. \A u \in Threads : job[u].b \in Buckets /\ job[u].k \in Keys
  BY RequestFacts
<1>3. CASE BucketCall(c, b)
  <2>1. UNCHANGED objects /\ UNCHANGED taken
    BY <1>3 DEF BucketCall, CreateBucket, DeleteBucket, memory, storeVars
  <2>2. \A u \in Threads : KeptNext(u)
    BY <1>1, <2>1, KeptUnchanged
  <2> QED
    BY <2>2, KeptParts
<1>4. CASE CreateBucketLocked(c) /\ UNCHANGED taken
  <2>1. \A u \in Threads : IsVersionOf(job[u].b, job[u].k, VersionOf(u)) =>
                             IsVersionNext(job[u].b, job[u].k, VersionOf(u))
    BY <1>2, <1>4, KeptOnCreate
  <2>2. \A u \in Threads : KeptNext(u)
    BY <1>1, <1>4, <2>1, KeptByVersion
  <2> QED
    BY <2>2, KeptParts
<1>5. CASE /\ b \in deleting[c] /\ DeleteBucketLocked(c)
           /\ taken' = taken \cup {t \in Threads : job[t].op = "put" /\ job[t].b = b /\ job[t].vid # 0}
  <2>1. \A d \in deleting[c] : d = b
    BY <1>5 DEF BucketsInv
  <2>2. objects' = [objects EXCEPT ![b] = noKeys]
    BY <1>5, <2>1 DEF DeleteBucketLocked
  <2>3. objects \in [Buckets -> [Keys -> VersionStates]]
    BY DEF IInv, TypeOK, LiveState, Snapshots
  <2>4. ASSUME NEW u \in Threads, u \notin taken', Creator(u),
               IsVersionOf(job[u].b, job[u].k, VersionOf(u))
        PROVE  IsVersionNext(job[u].b, job[u].k, VersionOf(u))
    <3>1. job[u].b # b
      BY <1>5, <2>4 DEF Creator
    <3>2. objects'[job[u].b] = objects[job[u].b]
      BY <1>2, <2>2, <2>3, <3>1
    <3> QED
      BY <2>4, <3>2 DEF IsVersionOf, IsVersionNext
  <2>5. \A u \in Threads : KeptNext(u)
    BY <1>1, <1>5, <2>4, KeptByVersion
  <2> QED
    BY <2>5, KeptParts
<1> QED
  BY <1>3, <1>4, <1>5 DEF BucketCallLocked

LEMMA KeptStep ==
  ASSUME IInv, IInv', StoreInv, BucketsInv, KeptInv, [StoreNext]_vars
  PROVE  KeptInv'
<1>0. StoreTypeOK
  BY DEF StoreInv
<1>1. CASE UNCHANGED vars
  <2>1. UNCHANGED <<objects, pc, job, taken>>
    BY <1>1 DEF vars, metaVars, storeVars
  <2>2. \A u \in Threads : KeptNext(u)
    BY <2>1, KeptUnchanged
  <2> QED
    BY <2>2, KeptParts
<1>2. ASSUME NEW t \in Threads, ReadingStep(t) PROVE KeptInv'
  <2>1. /\ UNCHANGED <<objects, job, taken>> /\ pc'[t] # "open"
        /\ \A u \in Threads \ {t} : pc'[u] = pc[u]
    BY <1>0, <1>2, ReadingSteps DEF metaVars
  <2>2. \A u \in Threads : KeptNext(u)
    BY <2>1, KeptUnchanged
  <2> QED
    BY <2>2, KeptParts
<1>3. ASSUME NEW t \in Threads, RequestStep(t) PROVE KeptInv'
  BY <1>2, <1>3, KeptBeginEnd, KeptByChanges DEF RequestStep, ReadingStep
<1> QED
  BY <1>1, <1>3, KeptByBuckets, StoreSteps

\* The version that an answered PUT has created stays, with its content and its
\* ID, until a DELETE of that version or of the bucket takes it away, whatever
\* other requests append, cut out and shift meanwhile and whatever fails; bucket
\* calls must not overlap unless they only create (meta.go: PutObject,
\* DeleteObject, CreateBucket).
THEOREM AckedVersionsKept ==
  ASSUME BucketCallsApart
  PROVE  StoreSpec => []AckedVersionKept
<1>1. IInv /\ StoreInv /\ BucketsInv /\ [StoreNext]_vars => BucketsInv'
  BY BucketsNext
<1>2. IInv /\ IInv' /\ StoreInv /\ BucketsInv /\ KeptInv /\ [StoreNext]_vars => KeptInv'
  BY KeptStep
<1>3. KeptInv => AckedVersionKept
  BY DEF KeptInv, AckedVersionKept, Answered, Creator, VersionOf
<1>4. StoreSpec => [](IInv /\ StoreInv)
  BY StoreInductive
<1> QED
  BY <1>1, <1>2, <1>3, <1>4, BucketsInit, KeptInit, PTL DEF StoreSpec
=============================================================================
