-------------------------- MODULE MetaStoreProofs --------------------------
(***************************************************************************)
(* Proofs about MetaStore for any number of buckets, keys, contents,       *)
(* callers and version IDs.                                                *)
(***************************************************************************)
EXTENDS MetaStore, VersionStateProofs

\* The inductive invariant: the memory and the newest snapshot, to which a
\* restart returns, are both well-formed.
IInv == TypeOK /\ WellFormed(LiveState) /\ WellFormed(snap)

-----------------------------------------------------------------------------
(* The inductive invariant. *)

\* The state an object call leaves: one key gets a new version state.
LEMMA SetVersionsFacts ==
  ASSUME IInv, NEW b \in Buckets, NEW k \in Keys, NEW vs \in VersionStates,
         Ordered(vs), b \in made, SetVersions(b, k, vs)
  PROVE  IInv'
<1>1. objects \in [Buckets -> [Keys -> VersionStates]] /\ made \in SUBSET Buckets
  BY DEF IInv, TypeOK, LiveState, Snapshots
<1>2. /\ objects' \in [Buckets -> [Keys -> VersionStates]] /\ made' = made
      /\ \A c \in Buckets, l \in Keys :
           objects'[c][l] = IF c = b /\ l = k THEN vs ELSE objects[c][l]
  BY <1>1 DEF SetVersions
<1>3. TypeOK'
  BY <1>1, <1>2 DEF SetVersions, calls, IInv, TypeOK, LiveState, Snapshots
<1>4. WellFormed(snap)'
  BY DEF SetVersions, IInv, WellFormed, MapsHold, AllOrdered
<1>5. MapsHold(LiveState)'
  BY <1>2 DEF IInv, WellFormed, MapsHold, LiveState
<1>6. AllOrdered(LiveState)'
  BY <1>2 DEF IInv, WellFormed, AllOrdered, LiveState
<1> QED
  BY <1>3, <1>4, <1>5, <1>6 DEF IInv, WellFormed, TypeOK

\* The state a bucket call leaves: one bucket's map is fresh or gone.
LEMMA ClearBucketFacts ==
  ASSUME IInv, NEW b \in Buckets, objects' = [objects EXCEPT ![b] = noKeys],
         made \ {b} \subseteq made', made' \in SUBSET Buckets
  PROVE  WellFormed(LiveState)'
<1>1. objects \in [Buckets -> [Keys -> VersionStates]] /\ made \in SUBSET Buckets
  BY DEF IInv, TypeOK, LiveState, Snapshots
<1>2. noKeys \in [Keys -> VersionStates]
  BY NewVersionStateFacts DEF noKeys
<1>3. /\ objects' \in [Buckets -> [Keys -> VersionStates]]
      /\ \A c \in Buckets, l \in Keys :
           objects'[c][l] = IF c = b THEN newVersionState ELSE objects[c][l]
  BY <1>1, <1>2 DEF noKeys
<1>4. (LiveState \in Snapshots)'
  BY <1>3 DEF LiveState, Snapshots
<1>5. MapsHold(LiveState)'
  BY <1>1, <1>3, NewVersionStateFacts DEF IInv, WellFormed, MapsHold, LiveState
<1>6. AllOrdered(LiveState)'
  BY <1>3, NewVersionStateFacts DEF IInv, WellFormed, AllOrdered, LiveState
<1> QED
  BY <1>4, <1>5, <1>6 DEF WellFormed

\* NewMetaStore starts with empty maps and no snapshot, which are well formed.
LEMMA InitIInv == Init => IInv
<1> SUFFICES ASSUME Init PROVE IInv
  OBVIOUS
<1>1. noKeys \in [Keys -> VersionStates]
  BY NewVersionStateFacts DEF noKeys
<1>2. noSnapshot \in Snapshots
  BY <1>1 DEF noSnapshot, noObjects, Snapshots
<1>3. \A b \in Buckets, k \in Keys : noSnapshot.objects[b][k] = newVersionState
  BY DEF noSnapshot, noObjects, noKeys
<1>4. WellFormed(noSnapshot)
  BY <1>2, <1>3, NewVersionStateFacts DEF WellFormed, MapsHold, AllOrdered
<1>5. LiveState = noSnapshot /\ snap = noSnapshot
  BY DEF Init, LiveState, noSnapshot
<1> QED
  BY <1>2, <1>4, <1>5 DEF Init, IInv, TypeOK

\* Every call of meta.go keeps the maps, and the snapshot taken from them, well
\* formed.
LEMMA NextIInv ==
  ASSUME IInv, Next
  PROVE  IInv'
<1> USE DEF memory, calls
<1>0. /\ TypeOK /\ WellFormed(LiveState) /\ WellFormed(snap)
      /\ objects \in [Buckets -> [Keys -> VersionStates]] /\ made \in SUBSET Buckets
      /\ snap \in Snapshots
  BY DEF IInv, TypeOK, LiveState, Snapshots
<1>1. ASSUME NEW c \in Callers, NEW b \in Buckets, CreateBucket(c, b)
      PROVE  IInv'
  <2>1. LiveState' = LiveState /\ snap' = snap
    BY <1>1 DEF CreateBucket, LiveState
  <2>2. TypeOK'
    BY <1>0, <1>1, <2>1 DEF CreateBucket, TypeOK
  <2> QED
    BY <1>0, <2>1, <2>2 DEF IInv, WellFormed, MapsHold, AllOrdered
<1>2. ASSUME NEW c \in Callers, NEW b \in Buckets, DeleteBucket(c, b)
      PROVE  IInv'
  <2>1. LiveState' = LiveState /\ snap' = snap
    BY <1>2 DEF DeleteBucket, LiveState
  <2>2. TypeOK'
    BY <1>0, <1>2, <2>1 DEF DeleteBucket, TypeOK
  <2> QED
    BY <1>0, <2>1, <2>2 DEF IInv, WellFormed, MapsHold, AllOrdered
<1>3. ASSUME NEW c \in Callers, CreateBucketLocked(c)
      PROVE  IInv'
  <2>1. PICK b \in creating[c] :
          /\ cache' = cache \cup {b} /\ made' = made \cup {b}
          /\ objects' = [objects EXCEPT ![b] = noKeys]
    BY <1>3 DEF CreateBucketLocked
  <2>2. b \in Buckets
    BY <1>0 DEF TypeOK
  <2>3. WellFormed(LiveState)'
    BY <1>0, <2>1, <2>2, ClearBucketFacts
  <2>4. TypeOK'
    BY <1>0, <1>3, <2>1, <2>2, <2>3 DEF CreateBucketLocked, TypeOK, WellFormed
  <2>5. WellFormed(snap)'
    BY <1>0, <1>3 DEF CreateBucketLocked, WellFormed, MapsHold, AllOrdered
  <2> QED
    BY <2>3, <2>4, <2>5 DEF IInv
<1>4. ASSUME NEW c \in Callers, DeleteBucketLocked(c)
      PROVE  IInv'
  <2>1. PICK b \in deleting[c] :
          /\ cache' = cache \ {b} /\ made' = made \ {b}
          /\ objects' = [objects EXCEPT ![b] = noKeys]
    BY <1>4 DEF DeleteBucketLocked
  <2>2. b \in Buckets
    BY <1>0 DEF TypeOK
  <2>3. WellFormed(LiveState)'
    BY <1>0, <2>1, <2>2, ClearBucketFacts
  <2>4. TypeOK'
    BY <1>0, <1>4, <2>1, <2>2, <2>3 DEF DeleteBucketLocked, TypeOK, WellFormed
  <2>5. WellFormed(snap)'
    BY <1>0, <1>4 DEF DeleteBucketLocked, WellFormed, MapsHold, AllOrdered
  <2> QED
    BY <2>3, <2>4, <2>5 DEF IInv
<1>5. ASSUME NEW b \in Buckets, NEW k \in Keys, NEW s \in Shas, PutObject(b, k, s)
      PROVE  IInv'
  <2>1. objects[b][k] \in VersionStates /\ Ordered(objects[b][k])
    BY <1>0 DEF WellFormed, AllOrdered, LiveState
  <2>2. /\ AppendVersion(objects[b][k], s) \in VersionStates
        /\ Ordered(AppendVersion(objects[b][k], s))
    BY <1>5, <2>1, AppendVersionFacts DEF PutObject
  <2> QED
    BY <1>5, <2>2, SetVersionsFacts DEF PutObject
<1>6. ASSUME NEW b \in Buckets, PutObjectPanics(b)
      PROVE  IInv'
  BY <1>0, <1>6 DEF PutObjectPanics, IInv, TypeOK, LiveState, WellFormed, MapsHold, AllOrdered
<1>7. ASSUME NEW b \in Buckets, NEW k \in Keys, PutDeleteMarker(b, k)
      PROVE  IInv'
  <2>1. objects[b][k] \in VersionStates /\ Ordered(objects[b][k])
    BY <1>0 DEF WellFormed, AllOrdered, LiveState
  <2>2. /\ AppendVersion(objects[b][k], NoSha) \in VersionStates
        /\ Ordered(AppendVersion(objects[b][k], NoSha))
    BY <1>7, <2>1, AppendVersionFacts DEF PutDeleteMarker
  <2> QED
    BY <1>7, <2>2, SetVersionsFacts DEF PutDeleteMarker
<1>8. ASSUME NEW b \in Buckets, NEW k \in Keys, NEW v \in 1..MaxID,
             DeleteVersion(b, k, v)
      PROVE  IInv'
  <2>1. objects[b][k] \in VersionStates /\ Ordered(objects[b][k])
    BY <1>0 DEF WellFormed, AllOrdered, LiveState
  <2>2. PICK i \in 1..Len(objects[b][k].versions) :
          SetVersions(b, k, RemoveVersion(objects[b][k], i))
    BY <1>8 DEF DeleteVersion
  <2>3. /\ RemoveVersion(objects[b][k], i) \in VersionStates
        /\ Ordered(RemoveVersion(objects[b][k], i))
    BY <2>1, RemoveVersionFacts
  <2> QED
    BY <1>8, <2>2, <2>3, SetVersionsFacts DEF DeleteVersion
<1>9. CASE Persist
  <2>1. LiveState' = LiveState /\ snap' = LiveState
    BY <1>9 DEF Persist, LiveState
  <2>2. TypeOK'
    BY <1>0, <1>9, <2>1 DEF Persist, TypeOK
  <2> QED
    BY <1>0, <2>1, <2>2 DEF IInv, WellFormed, MapsHold, AllOrdered
<1>10. ASSUME NEW s \in RemoteSnapshots, InstallSnapshot(s)
       PROVE  IInv'
  <2>1. LiveState' = LiveState /\ snap' = s /\ WellFormed(s)
    BY <1>10, RemoteSnapshotsAssumption DEF InstallSnapshot, LiveState
  <2>2. TypeOK'
    BY <1>0, <1>10, <2>1 DEF InstallSnapshot, TypeOK, WellFormed
  <2> QED
    BY <1>0, <2>1, <2>2 DEF IInv, WellFormed, MapsHold, AllOrdered
<1>11. CASE RestoreLocked
  <2>1. /\ snap.made \in SUBSET Buckets
        /\ snap.objects \in [Buckets -> [Keys -> VersionStates]]
    BY <1>0 DEF Snapshots
  <2>2. /\ objects' \in [Buckets -> [Keys -> VersionStates]]
        /\ \A b \in Buckets, k \in Keys :
             objects'[b][k] = IF HasKey(snap.objects[b][k]) THEN snap.objects[b][k]
                              ELSE objects[b][k]
    BY <1>0, <1>11, <2>1 DEF RestoreLocked
  <2>3. (LiveState \in Snapshots)'
    BY <1>0, <1>11, <2>1, <2>2 DEF RestoreLocked, LiveState, Snapshots
  <2>4. MapsHold(LiveState)'
    BY <1>0, <1>11, <2>2 DEF RestoreLocked, WellFormed, MapsHold, LiveState
  <2>5. AllOrdered(LiveState)'
    BY <1>0, <2>2 DEF WellFormed, AllOrdered, LiveState
  <2>6. TypeOK'
    BY <1>0, <1>11, <2>3 DEF RestoreLocked, TypeOK
  <2>7. WellFormed(snap)'
    BY <1>0, <1>11 DEF RestoreLocked, WellFormed, MapsHold, AllOrdered
  <2> QED
    BY <2>3, <2>4, <2>5, <2>6, <2>7 DEF IInv, WellFormed
<1>12. CASE Restart
  <2>1. LiveState' = snap /\ snap' = snap
    BY <1>0, <1>12 DEF Restart, LiveState, Snapshots
  <2>2. TypeOK'
    BY <1>0, <1>12, <2>1 DEF Restart, TypeOK
  <2> QED
    BY <1>0, <2>1, <2>2 DEF IInv, WellFormed, MapsHold, AllOrdered
<1> QED
  BY <1>1, <1>2, <1>3, <1>4, <1>5, <1>6, <1>7, <1>8, <1>9, <1>10, <1>11, <1>12
  DEF Next, Running

\* The memory and the newest snapshot are well-formed in every reachable state.
THEOREM Inductive == Spec => []IInv
<1>1. IInv /\ UNCHANGED metaVars => IInv'
  BY DEF metaVars, IInv, TypeOK, LiveState, WellFormed, MapsHold, AllOrdered
<1> QED
  BY <1>1, InitIInv, NextIInv, PTL DEF Spec

\* Every variable keeps its type.
THEOREM TypeCorrect == Spec => []TypeOK
<1>1. IInv => TypeOK
  BY DEF IInv
<1> QED
  BY <1>1, Inductive, PTL

\* Whatever puts, delete markers, permanent deletes, bucket calls, snapshots,
\* merges and restarts do, in any order, the IDs of every key increase along
\* its slice, stay below the counter, and Current is the newest version
\* (meta.go: PutObject, DeleteObject, Restore).
THEOREM OrderedVersions == Spec => []VersionsOrdered
<1>1. IInv => VersionsOrdered
  BY DEF IInv, WellFormed, VersionsOrdered
<1> QED
  BY <1>1, Inductive, PTL

-----------------------------------------------------------------------------
(* What one step may do to the history of a key. *)

\* A step may forget a key altogether (its last version or its bucket goes,
\* or the process restarts) or take it back to the newest Raft snapshot; any
\* other step leaves the ID counter where it was or higher, and a version ID
\* handed out before the step still names the entry it named, or nothing
\* (meta.go: PutObject, DeleteObject, Restore, NewMetaStore).
KeyHistory(b, k) ==
  LET old == objects[b][k]
      new == objects'[b][k]
  IN  \/ ~ HasKey(new)
      \/ b \in snap'.made /\ new = snap'.objects[b][k]
      \/ /\ new.nextID >= old.nextID
         /\ \A i \in 1..Len(new.versions) :
               new.versions[i].id < old.nextID =>
                 \E j \in 1..Len(old.versions) : old.versions[j] = new.versions[i]

\* No step of meta.go renumbers a key's versions or rewrites an entry, except by
\* forgetting the key or going back to a snapshot.  This is not the "monotonic
\* integer IDs" of README.md:105: a key that has lost its last version is
\* forgotten, and its next version has ID 1 again (meta.go:223).
HistoryPreserved == [][\A b \in Buckets, k \in Keys : KeyHistory(b, k)]_metaVars

\* One call of meta.go changes at most one version of a key: it appends, it
\* removes, or the whole key is replaced by DeleteBucket, Restore or a restart.
LEMMA StepHistory ==
  ASSUME IInv, Next, NEW b \in Buckets, NEW k \in Keys
  PROVE  KeyHistory(b, k)
<1> DEFINE old == objects[b][k]
           new == objects'[b][k]
<1>0. /\ objects \in [Buckets -> [Keys -> VersionStates]] /\ snap \in Snapshots
      /\ snap.objects \in [Buckets -> [Keys -> VersionStates]]
      /\ HasKey(snap.objects[b][k]) => b \in snap.made
  BY DEF IInv, TypeOK, LiveState, WellFormed, MapsHold, Snapshots
<1>1. /\ old \in VersionStates /\ old.nextID \in Nat /\ Ordered(old)
  <2>1. old \in VersionStates /\ Ordered(old)
    BY <1>0 DEF IInv, WellFormed, AllOrdered, LiveState
  <2> QED
    BY <2>1, EntryFacts, MaxIDAssumption
<1>2. CASE new = old
  BY <1>1, <1>2 DEF KeyHistory
<1>3. CASE new = newVersionState
  BY <1>3, NewVersionStateFacts DEF KeyHistory
<1>4. ASSUME NEW s \in Shas \cup {NoSha}, new = AppendVersion(old, s),
             old.nextID <= MaxID
      PROVE  KeyHistory(b, k)
  <2> HIDE DEF old, new
  <2>1. /\ new.nextID = old.nextID + 1
        /\ \A i \in 1..Len(new.versions) :
             new.versions[i].id < old.nextID =>
               \E n \in 1..Len(old.versions) : old.versions[n] = new.versions[i]
    BY <1>1, <1>4, AppendVersionFacts
  <2>2. new.nextID >= old.nextID
    BY <1>1, <2>1
  <2> QED
    BY <2>1, <2>2 DEF KeyHistory, old, new
<1>5. ASSUME NEW i \in 1..Len(old.versions), new = RemoveVersion(old, i)
      PROVE  KeyHistory(b, k)
  <2> HIDE DEF old, new
  <2>1. HasKey(new) =>
          /\ new.nextID = old.nextID
          /\ \A j \in 1..Len(new.versions) :
               \E n \in 1..Len(old.versions) : old.versions[n] = new.versions[j]
    BY <1>1, <1>5, RemoveVersionFacts
  <2>2. HasKey(new) => new.nextID >= old.nextID
    BY <1>1, <2>1
  <2> QED
    BY <2>1, <2>2 DEF KeyHistory, old, new
<1>6. ASSUME NEW c \in Buckets, NEW l \in Keys, NEW vs, SetVersions(c, l, vs)
      PROVE  (b = c /\ k = l /\ new = vs) \/ new = old
  BY <1>0, <1>6 DEF SetVersions
<1>7. ASSUME NEW c \in Callers, CreateBucketLocked(c) \/ DeleteBucketLocked(c)
      PROVE  new = old \/ new = newVersionState
  BY <1>0, <1>7 DEF CreateBucketLocked, DeleteBucketLocked, noKeys
<1>8. ASSUME NEW c \in Buckets, NEW l \in Keys, NEW s \in Shas, PutObject(c, l, s)
      PROVE  KeyHistory(b, k)
  BY <1>2, <1>4, <1>6, <1>8 DEF PutObject
<1>9. ASSUME NEW c \in Buckets, NEW l \in Keys, PutDeleteMarker(c, l)
      PROVE  KeyHistory(b, k)
  BY <1>2, <1>4, <1>6, <1>9 DEF PutDeleteMarker
<1>10. ASSUME NEW c \in Buckets, NEW l \in Keys, NEW v \in 1..MaxID,
              DeleteVersion(c, l, v)
       PROVE  KeyHistory(b, k)
  BY <1>2, <1>5, <1>6, <1>10 DEF DeleteVersion
<1>11. CASE RestoreLocked
  <2>1. /\ snap' = snap
        /\ new = IF HasKey(snap.objects[b][k]) THEN snap.objects[b][k] ELSE old
    BY <1>11 DEF RestoreLocked
  <2> QED
    BY <1>0, <1>2, <2>1 DEF KeyHistory
<1>12. CASE Restart
  BY <1>0, <1>12 DEF Restart, KeyHistory
<1>13. ASSUME UNCHANGED memory
       PROVE  new = old
  BY <1>13 DEF memory
<1> HIDE DEF old, new
<1> QED
  BY <1>2, <1>3, <1>7, <1>8, <1>9, <1>10, <1>11, <1>12, <1>13
  DEF Next, Running, CreateBucket, DeleteBucket, PutObjectPanics, Persist, InstallSnapshot

\* No step rewrites or resurrects a version or takes an ID counter back,
\* unless it forgets the key or returns to the snapshot (meta.go: PutObject,
\* DeleteObject, Restore, NewMetaStore).
THEOREM PreservedHistory == Spec => HistoryPreserved
<1>1. IInv /\ [Next]_metaVars =>
        [\A b \in Buckets, k \in Keys : KeyHistory(b, k)]_metaVars
  BY StepHistory
<1> QED
  BY <1>1, Inductive, PTL DEF Spec, HistoryPreserved
=============================================================================
