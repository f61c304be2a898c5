---------------------------- MODULE StoreProofs ----------------------------
(***************************************************************************)
(* Proofs about Store for any number of requests in progress, of buckets,  *)
(* keys, contents and version IDs: the requests drive the metadata as      *)
(* MetaStore allows, and metadata never gets ahead of the blobs.           *)
(***************************************************************************)
EXTENDS Store, MetaStoreProofs

\* The inductive invariant: a content is safe once a PUT has opened its
\* file and stays so, and open files that are linked exist.
Safe(s) == blobs[s] # "absent" \/ s \in removed

StoreInv ==
  /\ StoreTypeOK
  /\ snap = noSnapshot
  /\ MissingOnlyAfterDelete
  /\ \A t \in Threads :
        /\ pc[t] \in {"write", "register"} => job[t].sha \in Shas /\ Safe(job[t].sha)
        /\ pc[t] = "unregister" => job[t].vid # 0
        /\ fd[t] = "linked" => job[t].sha \in Shas /\ blobs[job[t].sha] # "absent"
        /\ pc[t] = "idle" => fd[t] = "none"

\* The contents of a key after an append: the new one and those before.
LEMMA AppendContents ==
  ASSUME NEW vs \in VersionStates, NEW sha,
         NEW i \in 1..Len(AppendVersion(vs, sha).versions)
  PROVE  \/ AppendVersion(vs, sha).versions[i].sha = sha
         \/ \E n \in 1..Len(vs.versions) :
               vs.versions[n].sha = AppendVersion(vs, sha).versions[i].sha
<1> DEFINE m == [id |-> vs.nextID, sha |-> sha]
           new == Append(vs.versions, m)
<1>1. vs.versions \in Seq(ObjectMeta) /\ Len(vs.versions) \in Nat
  BY EntryFacts
<1>2. AppendVersion(vs, sha).versions = new
  BY DEF AppendVersion
<1>3. /\ Len(new) = Len(vs.versions) + 1
      /\ \A j \in 1..Len(vs.versions) : new[j] = vs.versions[j]
      /\ new[Len(vs.versions) + 1] = m
  BY <1>1
<1>4. m.sha = sha
  OBVIOUS
<1> HIDE DEF m, new
<1>5. CASE i = Len(vs.versions) + 1
  BY <1>2, <1>3, <1>4, <1>5
<1>6. CASE i \in 1..Len(vs.versions)
  BY <1>2, <1>3, <1>6
<1> QED
  BY <1>1, <1>2, <1>3, <1>5, <1>6

\* What each kind of metadata step may add to the registered contents.
LEMMA RegisteredFacts ==
  ASSUME IInv
  PROVE  /\ objects' = objects => Registered' = Registered
         /\ \A b \in Buckets, k \in Keys, s \in Shas \cup {NoSha} :
              SetVersions(b, k, AppendVersion(objects[b][k], s)) =>
                 \A r \in Registered' : r \in Registered \/ r = s
         /\ \A b \in Buckets, k \in Keys :
              \A i \in 1..Len(objects[b][k].versions) :
                 SetVersions(b, k, RemoveVersion(objects[b][k], i)) =>
                    Registered' \subseteq Registered
         /\ \A b \in Buckets :
              objects' = [objects EXCEPT ![b] = noKeys] =>
                 Registered' \subseteq Registered
<1>0. /\ objects \in [Buckets -> [Keys -> VersionStates]]
      /\ \A b \in Buckets, k \in Keys :
            objects[b][k] \in VersionStates /\ Ordered(objects[b][k])
  BY DEF IInv, TypeOK, LiveState, Snapshots, WellFormed, AllOrdered
<1>1. objects' = objects => Registered' = Registered
  BY DEF Registered
<1>2. ASSUME NEW b \in Buckets, NEW k \in Keys, NEW s \in Shas \cup {NoSha},
             SetVersions(b, k, AppendVersion(objects[b][k], s)),
             NEW r \in Registered'
      PROVE  r \in Registered \/ r = s
  <2>0. PICK c \in Buckets, l \in Keys :
           \E i \in 1..Len(objects'[c][l].versions) :
              r \in Shas /\ objects'[c][l].versions[i].sha = r
    BY <1>2 DEF Registered
  <2>1. PICK i \in 1..Len(objects'[c][l].versions) :
           r \in Shas /\ objects'[c][l].versions[i].sha = r
    BY <2>0
  <2>2. CASE c = b /\ l = k
    <3>1. objects'[c][l] = AppendVersion(objects[b][k], s)
      BY <1>0, <1>2, <2>2 DEF SetVersions
    <3>2. \/ r = s
          \/ \E n \in 1..Len(objects[b][k].versions) : objects[b][k].versions[n].sha = r
      BY <1>0, <2>1, <3>1, AppendContents
    <3> QED
      BY <2>1, <3>2 DEF Registered
  <2>3. CASE ~ (c = b /\ l = k)
    <3>1. objects'[c][l] = objects[c][l]
      BY <1>0, <1>2, <2>3 DEF SetVersions
    <3> QED
      BY <2>1, <3>1 DEF Registered
  <2> QED
    BY <2>2, <2>3
<1>3. ASSUME NEW b \in Buckets, NEW k \in Keys,
             NEW n \in 1..Len(objects[b][k].versions),
             SetVersions(b, k, RemoveVersion(objects[b][k], n)),
             NEW r \in Registered'
      PROVE  r \in Registered
  <2>0. PICK c \in Buckets, l \in Keys :
           \E i \in 1..Len(objects'[c][l].versions) :
              r \in Shas /\ objects'[c][l].versions[i].sha = r
    BY <1>3 DEF Registered
  <2>1. PICK i \in 1..Len(objects'[c][l].versions) :
           r \in Shas /\ objects'[c][l].versions[i].sha = r
    BY <2>0
  <2>2. CASE c = b /\ l = k
    <3> DEFINE old == objects[b][k]
               new == RemoveVersion(old, n)
    <3>1. objects'[c][l] = new /\ old \in VersionStates /\ Ordered(old)
      BY <1>0, <1>3, <2>2 DEF SetVersions
    <3>2. n \in 1..Len(old.versions)
      BY <1>3
    <3>3. i \in 1..Len(new.versions) /\ new.versions[i].sha = r
      BY <2>1, <3>1
    <3>4. HasKey(new)
      <4>1. Len(<<>>) = 0
        OBVIOUS
      <4> HIDE DEF new
      <4> QED
        BY <3>3, <4>1 DEF HasKey
    <3> HIDE DEF old
    <3>5. \E j \in 1..Len(old.versions) : old.versions[j] = new.versions[i]
      BY <3>1, <3>2, <3>3, <3>4, RemoveVersionFacts
    <3>6. \E j \in 1..Len(old.versions) : old.versions[j].sha = r
      BY <3>3, <3>5
    <3> QED
      BY <2>1, <3>6 DEF Registered, old
  <2>3. CASE ~ (c = b /\ l = k)
    <3>1. objects'[c][l] = objects[c][l]
      BY <1>0, <1>3, <2>3 DEF SetVersions
    <3> QED
      BY <2>1, <3>1 DEF Registered
  <2> QED
    BY <2>2, <2>3
<1>4. ASSUME NEW b \in Buckets, objects' = [objects EXCEPT ![b] = noKeys],
             NEW r \in Registered'
      PROVE  r \in Registered
  <2>0. PICK c \in Buckets, l \in Keys :
           \E i \in 1..Len(objects'[c][l].versions) :
              r \in Shas /\ objects'[c][l].versions[i].sha = r
    BY <1>4 DEF Registered
  <2>1. PICK i \in 1..Len(objects'[c][l].versions) :
           r \in Shas /\ objects'[c][l].versions[i].sha = r
    BY <2>0
  <2>2. c # b
    <3>1. c = b => objects'[c][l] = newVersionState
      BY <1>0, <1>4 DEF noKeys
    <3>2. Len(newVersionState.versions) = 0
      BY DEF newVersionState
    <3> QED
      BY <2>1, <3>1, <3>2
  <2>3. objects'[c][l] = objects[c][l]
    BY <1>0, <1>4, <2>2
  <2> QED
    BY <2>1, <2>3 DEF Registered
<1> QED
  BY <1>1, <1>2, <1>3, <1>4

-----------------------------------------------------------------------------
(* Every step of a request is a step of MetaStore or leaves it alone. *)

\* Every step of store.go is a step of meta.go or leaves its state alone.
LEMMA MetaStep ==
  ASSUME StoreInv, StoreNext
  PROVE  [Next]_metaVars
<1>0. /\ job \in [Threads -> Jobs]
      /\ \A t \in Threads : job[t].b \in Buckets /\ job[t].k \in Keys /\ job[t].vid \in 0..MaxID
  BY DEF StoreInv, StoreTypeOK, Jobs
<1>1. ASSUME NEW t \in Threads, PutRegister(t)
      PROVE  [Next]_metaVars
  <2>1. job[t].sha \in Shas
    BY <1>1 DEF StoreInv, PutRegister
  <2>2. ApplyPut(t) => Next
    BY <1>0, <2>1 DEF ApplyPut, Next, Running
  <2> QED
    BY <1>1, <2>2 DEF PutRegister, PutFails
<1>2. ASSUME NEW t \in Threads, DeleteUnregister(t)
      PROVE  [Next]_metaVars
  <2>1. job[t].vid \in 1..MaxID
    BY <1>0, <1>2, MaxIDAssumption DEF StoreInv, DeleteUnregister
  <2>2. ApplyDelete(t) => Next
    BY <1>0, <2>1 DEF ApplyDelete, Next, Running
  <2> QED
    BY <1>2, <2>2 DEF DeleteUnregister, DeleteFails
<1>3. ASSUME NEW t \in Threads, NEW b \in Buckets, NEW k \in Keys,
             \/ \E s \in Shas : PutOpen(t, b, k, s)
             \/ \E op \in {"get", "head", "del"}, v \in 0..MaxID : Lookup(t, op, b, k, v)
             \/ DeleteMark(t, b, k)
      PROVE  [Next]_metaVars
  BY <1>3 DEF PutOpen, Lookup, DeleteMark, Next, Running
<1>4. ASSUME NEW t \in Threads,
             \/ PutWrite(t) \/ PutReadBack(t) \/ PutName(t) \/ GetOpen(t) \/ ReadFlag(t)
             \/ ReadMarker(t) \/ ReadETag(t) \/ ReadVersionID(t) \/ GetCopy(t)
             \/ DeleteCheck(t) \/ DeleteRemove(t) \/ Finish(t)
      PROVE  UNCHANGED metaVars
  BY <1>4 DEF PutWrite, PutReadBack, PutName, GetOpen, ReadFlag, ReadMarker, ReadETag,
         ReadVersionID, GetCopy, DeleteCheck, DeleteRemove, Finish
<1>5. ASSUME NEW c \in Callers, NEW b \in Buckets,
             BucketCall(c, b) \/ BucketCallLocked(c, b)
      PROVE  Next
  BY <1>5 DEF BucketCall, BucketCallLocked, Next, Running
<1> QED
  BY <1>1, <1>2, <1>3, <1>4, <1>5 DEF StoreNext

\* The invariant of MetaStore is kept by the steps of Store as well.
LEMMA MetaIInv ==
  ASSUME IInv, [Next]_metaVars
  PROVE  IInv'
<1>1. CASE Next
  BY <1>1, NextIInv
<1>2. CASE UNCHANGED metaVars
  BY <1>2 DEF metaVars, IInv, TypeOK, LiveState, WellFormed, MapsHold, AllOrdered
<1> QED
  BY <1>1, <1>2

-----------------------------------------------------------------------------
(* The invariant of Store. *)

Entries == [id : 0..MaxID, sha : Shas \cup {NoSha}]

\* Entries of version states and their indices, as the requests read them.
LEMMA EntryTypes ==
  ASSUME IInv, NEW b \in Buckets, NEW k \in Keys
  PROVE  /\ objects[b][k] \in VersionStates
         /\ Len(objects[b][k].versions) \in Nat
         /\ objects[b][k].nextID \in 1..MaxID + 1
         /\ \A i \in 1..Len(objects[b][k].versions) :
               /\ objects[b][k].versions[i] \in Entries
               /\ objects[b][k].versions[i].id \in 0..MaxID
               /\ objects[b][k].versions[i].sha \in Shas \cup {NoSha}
<1>1. objects[b][k] \in VersionStates
  BY DEF IInv, TypeOK, LiveState, Snapshots
<1>2. /\ objects[b][k].versions \in Seq(ObjectMeta)
      /\ Len(objects[b][k].versions) \in Nat
      /\ objects[b][k].nextID \in 1..MaxID + 1
  BY <1>1, EntryFacts
<1>3. \A i \in 1..Len(objects[b][k].versions) : objects[b][k].versions[i] \in ObjectMeta
  BY <1>2, ElementOfSeq
<1>4. \A m \in ObjectMeta : m \in Entries /\ m.id \in 0..MaxID /\ m.sha \in Shas \cup {NoSha}
  BY MaxIDAssumption DEF ObjectMeta, Entries
<1> QED
  BY <1>1, <1>2, <1>3, <1>4

\* Moving pointers keeps their types.
LEMMA MoveTypes ==
  ASSUME IInv, StoreTypeOK, NEW b \in Buckets, NEW k \in Keys
  PROVE  /\ \A m \in Entries : MoveOnAppend(b, k, m) =>
              /\ ptr' \in [Threads -> [at : Nat, val : Entries]]
              /\ cap' \in [Buckets -> [Keys -> Nat]]
         /\ \A i \in 1..Len(objects[b][k].versions) : MoveOnRemove(b, k, i) =>
              /\ ptr' \in [Threads -> [at : Nat, val : Entries]]
              /\ cap' \in [Buckets -> [Keys -> Nat]]
         /\ MoveOnClear(b) =>
              /\ ptr' \in [Threads -> [at : Nat, val : Entries]]
              /\ cap' \in [Buckets -> [Keys -> Nat]]
<1> DEFINE v == objects[b][k].versions
           P == [at : Nat, val : Entries]
<1>0. /\ ptr \in [Threads -> P] /\ cap \in [Buckets -> [Keys -> Nat]]
      /\ Len(v) \in Nat /\ \A i \in 1..Len(v) : v[i] \in Entries
  BY EntryTypes DEF StoreTypeOK, Entries
<1>1. ASSUME NEW p \in P, NEW m \in Entries
      PROVE  [p EXCEPT !.val = m] \in P /\ [p EXCEPT !.at = 0] \in P /\ p.at \in Nat
  OBVIOUS
<1> HIDE DEF v, P
<1>2. ASSUME NEW m \in Entries, MoveOnAppend(b, k, m)
      PROVE  ptr' \in [Threads -> P] /\ cap' \in [Buckets -> [Keys -> Nat]]
  <2>1. \A t \in Threads :
           [ptr[t] EXCEPT !.val = m] \in P /\ [ptr[t] EXCEPT !.at = 0] \in P
    BY <1>0, <1>1
  <2>2. ptr' \in [Threads -> P]
    BY <1>0, <1>2, <2>1 DEF MoveOnAppend
  <2>3. cap' \in [Buckets -> [Keys -> Nat]]
    <3> DEFINE n == IF Len(v) = 0 THEN 1 ELSE 2 * Len(v)
    <3>1. n \in Nat
      BY <1>0
    <3>2. cap' = cap \/ cap' = [cap EXCEPT ![b][k] = n]
      BY <1>2 DEF MoveOnAppend, v
    <3> HIDE DEF n
    <3>3. [cap[b] EXCEPT ![k] = n] \in [Keys -> Nat]
      BY <1>0, <3>1
    <3>4. [cap EXCEPT ![b] = [cap[b] EXCEPT ![k] = n]] \in [Buckets -> [Keys -> Nat]]
      BY <1>0, <3>3
    <3> QED
      BY <1>0, <3>2, <3>4
  <2> QED
    BY <2>2, <2>3
<1>3. ASSUME NEW i \in 1..Len(v), MoveOnRemove(b, k, i)
      PROVE  ptr' \in [Threads -> P] /\ cap' \in [Buckets -> [Keys -> Nat]]
  <2>1. \A t \in Threads : ptr[t] \in P /\ ptr[t].at \in Nat
    BY <1>0, <1>1
  <2>2. ASSUME NEW t \in Threads, ptr[t].at \in i..Len(v) - 1
        PROVE  [ptr[t] EXCEPT !.val = v[ptr[t].at + 1]] \in P
    <3>1. v[ptr[t].at + 1] \in Entries
      BY <1>0, <2>1, <2>2
    <3> QED
      BY <1>1, <2>1, <3>1
  <2>3. \A t \in Threads : [ptr[t] EXCEPT !.at = 0] \in P
    BY <1>0, <1>1, <1>3
  <2>4. ptr' \in [Threads -> P]
    BY <1>0, <1>3, <2>1, <2>2, <2>3 DEF MoveOnRemove, v
  <2>5. cap' \in [Buckets -> [Keys -> Nat]]
    BY <1>0, <1>3 DEF MoveOnRemove
  <2> QED
    BY <2>4, <2>5
<1>4. ASSUME MoveOnClear(b)
      PROVE  ptr' \in [Threads -> P] /\ cap' \in [Buckets -> [Keys -> Nat]]
  <2>1. [id |-> 0, sha |-> NoSha] \in Entries
    BY MaxIDAssumption DEF Entries
  <2>2. \A t \in Threads : ptr[t] \in P /\ [ptr[t] EXCEPT !.at = 0] \in P
    BY <1>0, <1>1, <2>1
  <2>3. ptr' \in [Threads -> P]
    BY <1>0, <1>4, <2>2 DEF MoveOnClear
  <2>4. cap' \in [Buckets -> [Keys -> Nat]]
    BY <1>0, <1>4 DEF MoveOnClear
  <2> QED
    BY <2>3, <2>4
<1> QED
  BY <1>2, <1>3, <1>4 DEF v, P

Labels == {"idle", "write", "register", "readback", "name", "open", "flag", "marker",
           "etag", "vid", "copy", "unregister", "check", "remove", "done"}

Pointers == [at : Nat, val : Entries]

\* The content s is safe in the next state.
SafeNext(s) == blobs'[s] # "absent" \/ s \in removed'

\* What carries over when contents stay safe and jobs, files and programme
\* counters of the other requests stay as they are.
LEMMA InvKept ==
  ASSUME StoreInv, StoreTypeOK', snap' = snap,
         \A s \in Shas : Safe(s) => SafeNext(s),
         \A r \in Registered' : r \in Registered \/ Safe(r),
         NEW t \in Threads,
         \A u \in Threads \ {t} :
            /\ pc'[u] = pc[u] /\ job'[u] = job[u]
            /\ fd'[u] = "linked" =>
                 /\ fd[u] = "linked"
                 /\ job[u].sha \in Shas /\ blobs'[job[u].sha] = "absent" =>
                      blobs[job[u].sha] = "absent"
            /\ fd[u] = "none" => fd'[u] = "none",
         /\ pc'[t] \in {"write", "register"} => job'[t].sha \in Shas /\ SafeNext(job'[t].sha)
         /\ pc'[t] = "unregister" => job'[t].vid # 0
         /\ fd'[t] = "linked" => job'[t].sha \in Shas /\ blobs'[job'[t].sha] # "absent"
         /\ pc'[t] = "idle" => fd'[t] = "none"
  PROVE  StoreInv'
<1>1. Registered' \subseteq Shas
  BY DEF Registered
<1>2. MissingOnlyAfterDelete'
  BY <1>1 DEF StoreInv, MissingOnlyAfterDelete, Safe, SafeNext
<1>3. ASSUME NEW u \in Threads
      PROVE  /\ pc'[u] \in {"write", "register"} => job'[u].sha \in Shas /\ SafeNext(job'[u].sha)
             /\ pc'[u] = "unregister" => job'[u].vid # 0
             /\ fd'[u] = "linked" => job'[u].sha \in Shas /\ blobs'[job'[u].sha] # "absent"
             /\ pc'[u] = "idle" => fd'[u] = "none"
  <2>1. CASE u = t
    BY <2>1
  <2>2. CASE u # t
    <3>1. /\ pc'[u] = pc[u] /\ job'[u] = job[u]
          /\ fd'[u] = "linked" =>
               /\ fd[u] = "linked"
                 /\ job[u].sha \in Shas /\ blobs'[job[u].sha] = "absent" =>
                      blobs[job[u].sha] = "absent"
          /\ fd[u] = "none" => fd'[u] = "none"
      BY <2>2
    <3>2. /\ pc[u] \in {"write", "register"} => job[u].sha \in Shas /\ Safe(job[u].sha)
          /\ pc[u] = "unregister" => job[u].vid # 0
          /\ fd[u] = "linked" => job[u].sha \in Shas /\ blobs[job[u].sha] # "absent"
          /\ pc[u] = "idle" => fd[u] = "none"
      BY DEF StoreInv
    <3> QED
      BY <3>1, <3>2
  <2> QED
    BY <2>1, <2>2
<1>4. snap' = noSnapshot
  BY DEF StoreInv
<1> QED
  BY <1>2, <1>3, <1>4 DEF StoreInv, Safe, SafeNext

\* Responses are of their type.
LEMMA StatusTypes ==
  ASSUME NEW s \in {"ok", "notfound", "marker", "error", "panic"}
  PROVE  /\ Status(s) \in Responses
         /\ \A v \in 0..MaxID : [Status(s) EXCEPT !.vid = v] \in Responses
         /\ \A v \in 0..MaxID, e \in Shas \cup {NoSha} :
              /\ [Status(s) EXCEPT !.etag = e] \in Responses
              /\ [Status(s) EXCEPT !.vid = v, !.etag = e] \in Responses
              /\ [[Status(s) EXCEPT !.etag = e] EXCEPT !.vid = v] \in Responses
<1>1. noResp \in Responses
  BY MaxIDAssumption DEF noResp, Responses
<1>2. ASSUME NEW r \in Responses
      PROVE  /\ [r EXCEPT !.status = s] \in Responses
             /\ \A v \in 0..MaxID : [r EXCEPT !.vid = v] \in Responses
             /\ \A e \in Shas \cup {NoSha} : [r EXCEPT !.etag = e] \in Responses
             /\ \A v \in 0..MaxID, e \in Shas \cup {NoSha} :
                   [r EXCEPT !.vid = v, !.etag = e] \in Responses
  BY DEF Responses
<1>3. Status(s) \in Responses
  BY <1>1, <1>2 DEF Status
<1> QED
  BY <1>2, <1>3

\* What the invariant says of one request.
LEMMA RequestFacts ==
  ASSUME StoreInv, NEW t \in Threads
  PROVE  /\ StoreTypeOK /\ snap = noSnapshot
         /\ job \in [Threads -> Jobs] /\ job[t] \in Jobs
         /\ job[t].b \in Buckets /\ job[t].k \in Keys
         /\ job[t].sha \in Shas \cup {NoSha} /\ job[t].vid \in 0..MaxID
         /\ ptr[t].val \in Entries /\ ptr[t].val.id \in 0..MaxID
         /\ ptr[t].val.sha \in Shas \cup {NoSha}
         /\ pc[t] \in {"write", "register"} => job[t].sha \in Shas /\ Safe(job[t].sha)
         /\ pc[t] = "unregister" => job[t].vid # 0
         /\ fd[t] = "linked" => job[t].sha \in Shas /\ blobs[job[t].sha] # "absent"
         /\ pc[t] = "idle" => fd[t] = "none"
BY DEF StoreInv, StoreTypeOK, Jobs, Entries

\* os.WriteFile opens the blob: it exists from here on.
LEMMA PutOpenStep ==
  ASSUME IInv, StoreInv, NEW t \in Threads,
         NEW b \in Buckets, NEW k \in Keys, NEW s \in Shas, PutOpen(t, b, k, s)
  PROVE  StoreInv'
<1> DEFINE j == [op |-> "put", b |-> b, k |-> k, sha |-> s, vid |-> 0]
<1>1. j \in Jobs /\ j.sha = s /\ Status("error") \in Responses
  <2>1. 0 \in 0..MaxID
    BY MaxIDAssumption
  <2>2. j \in Jobs /\ j.sha = s
    BY <2>1 DEF Jobs
  <2> QED
    BY <2>2, StatusTypes
<1>2. /\ job' = [job EXCEPT ![t] = j] /\ pc[t] = "idle"
      /\ UNCHANGED <<snap, objects, removed, taken, ptr, cap>>
  BY DEF PutOpen, metaVars
<1> HIDE DEF j
<1>3. \/ /\ pc' = [pc EXCEPT ![t] = "done"]
         /\ resp' = [resp EXCEPT ![t] = Status("error")]
         /\ UNCHANGED <<blobs, fd>>
      \/ /\ pc' = [pc EXCEPT ![t] = "write"] /\ resp' = resp
         /\ blobs' = [blobs EXCEPT ![s] = "partial"]
         /\ fd' = [fd EXCEPT ![t] = "linked"]
  BY DEF PutOpen, Goto, Reply
<1>4. StoreTypeOK /\ fd[t] = "none"
  BY <1>2, RequestFacts
<1>5. StoreTypeOK'
  <2>1. job' \in [Threads -> Jobs]
    BY <1>1, <1>2, <1>4 DEF StoreTypeOK
  <2>2. pc' \in [Threads -> Labels] /\ resp' \in [Threads -> Responses]
    <3>1. CASE pc' = [pc EXCEPT ![t] = "done"] /\ resp' = [resp EXCEPT ![t] = Status("error")]
      BY <1>1, <1>4, <3>1 DEF StoreTypeOK, Labels
    <3>2. CASE pc' = [pc EXCEPT ![t] = "write"] /\ resp' = resp
      BY <1>4, <3>2 DEF StoreTypeOK, Labels
    <3> QED
      BY <1>3, <3>1, <3>2
  <2>3. /\ blobs' \in [Shas -> {"absent", "partial", "full"}]
        /\ fd' \in [Threads -> {"none", "linked", "unlinked"}]
    BY <1>3, <1>4 DEF StoreTypeOK
  <2> QED
    BY <1>2, <1>4, <2>1, <2>2, <2>3 DEF StoreTypeOK, Labels
<1>6. Registered' = Registered
  BY <1>2, RegisteredFacts
<1>7. job'[t].sha = s /\ \A u \in Threads \ {t} : job'[u] = job[u]
  BY <1>1, <1>2, <1>4 DEF StoreTypeOK
<1>8. \A r \in Shas : blobs'[r] = "absent" => blobs[r] = "absent"
  BY <1>3, <1>4 DEF StoreTypeOK
<1>9. \A r \in Shas : Safe(r) => SafeNext(r)
  BY <1>2, <1>8 DEF Safe, SafeNext
<1>10. /\ pc'[t] \in {"done", "write"} /\ \A u \in Threads \ {t} : pc'[u] = pc[u] /\ fd'[u] = fd[u]
       /\ fd'[t] = "linked" \/ pc'[t] = "done" => blobs'[s] = "partial" \/ fd'[t] = "none"
       /\ pc'[t] = "write" => blobs'[s] = "partial"
  BY <1>3, <1>4 DEF StoreTypeOK
<1> QED
  BY <1>2, <1>5, <1>6, <1>7, <1>8, <1>9, <1>10, InvKept DEF SafeNext

\* A step of one request that leaves the blob files alone and opens none.
LEMMA QuietStep ==
  ASSUME StoreInv, NEW t \in Threads, snap' = snap,
         UNCHANGED <<blobs, removed>>, taken' \subseteq Threads,
         fd' = fd \/ fd' = [fd EXCEPT ![t] = "none"],
         NEW label \in Labels \ {"idle", "write", "register"},
         pc' = [pc EXCEPT ![t] = label],
         job' \in [Threads -> Jobs], \A u \in Threads \ {t} : job'[u] = job[u],
         job'[t].sha = job[t].sha \/ fd[t] = "none",
         label = "unregister" => job'[t].vid # 0,
         ptr' \in [Threads -> Pointers], cap' \in [Buckets -> [Keys -> Nat]],
         resp' \in [Threads -> Responses],
         \A r \in Registered' : r \in Registered \/ Safe(r)
  PROVE  StoreInv'
<1>1. StoreTypeOK
  BY DEF StoreInv
<1>2. StoreTypeOK'
  BY <1>1 DEF StoreTypeOK, Labels, Pointers, Entries
<1>3. /\ pc'[t] = label /\ \A u \in Threads \ {t} : pc'[u] = pc[u] /\ fd'[u] = fd[u]
      /\ fd'[t] = "none" \/ fd'[t] = fd[t]
  BY <1>1 DEF StoreTypeOK
<1>4. \A s \in Shas : Safe(s) => SafeNext(s)
  BY DEF Safe, SafeNext
<1>5. /\ fd'[t] = "linked" => job'[t].sha \in Shas /\ blobs'[job'[t].sha] # "absent"
      /\ pc'[t] \notin {"idle", "write", "register"}
      /\ pc'[t] = "unregister" => job'[t].vid # 0
  BY <1>3, RequestFacts DEF Labels
<1> QED
  BY <1>2, <1>3, <1>4, <1>5, InvKept

\* The blob's bytes are written, or the write fails and the put ends.
LEMMA PutWriteStep ==
  ASSUME StoreInv, NEW t \in Threads, PutWrite(t)
  PROVE  StoreInv'
<1>1. /\ pc[t] = "write" /\ UNCHANGED <<snap, objects, removed, taken, job, ptr, cap>>
      /\ job[t].sha \in Shas /\ Safe(job[t].sha) /\ StoreTypeOK
  BY RequestFacts DEF PutWrite, metaVars
<1>2. /\ fd' = [fd EXCEPT ![t] = "none"]
      /\ \/ /\ pc' = [pc EXCEPT ![t] = "done"]
            /\ resp' = [resp EXCEPT ![t] = Status("error")]
            /\ blobs' = blobs
         \/ /\ pc' = [pc EXCEPT ![t] = "register"] /\ resp' = resp
            /\ blobs' = [blobs EXCEPT ![job[t].sha] = "full"] \/ blobs' = blobs
  BY DEF PutWrite, Goto, Reply
<1>3. /\ pc' \in [Threads -> Labels] /\ pc'[t] \in {"done", "register"}
      /\ \A u \in Threads \ {t} : pc'[u] = pc[u]
  BY <1>1, <1>2 DEF StoreTypeOK, Labels
<1>4. /\ fd' \in [Threads -> {"none", "linked", "unlinked"}] /\ fd'[t] = "none"
      /\ \A u \in Threads : fd'[u] = "linked" => fd[u] = "linked"
      /\ \A u \in Threads : fd[u] = "none" => fd'[u] = "none"
  BY <1>1, <1>2 DEF StoreTypeOK
<1>5. /\ blobs' \in [Shas -> {"absent", "partial", "full"}]
      /\ \A r \in Shas : blobs'[r] = "absent" => blobs[r] = "absent"
  BY <1>1, <1>2 DEF StoreTypeOK
<1>6. resp' \in [Threads -> Responses]
  BY <1>1, <1>2, StatusTypes DEF StoreTypeOK
<1>7. StoreTypeOK'
  BY <1>1, <1>3, <1>4, <1>5, <1>6 DEF StoreTypeOK, Labels
<1>8. Registered' = Registered
  BY <1>1 DEF Registered
<1>9. \A r \in Shas : Safe(r) => SafeNext(r)
  BY <1>1, <1>5 DEF Safe, SafeNext
<1> QED
  BY <1>1, <1>3, <1>4, <1>5, <1>7, <1>8, <1>9, InvKept

\* put_object refers to a blob that its own request has written, unless a
\* delete removed it meanwhile.
LEMMA PutRegisterStep ==
  ASSUME IInv, StoreInv, NEW t \in Threads, PutRegister(t)
  PROVE  StoreInv'
<1> DEFINE b == job[t].b
           k == job[t].k
<1>1. /\ pc[t] = "register" /\ UNCHANGED <<blobs, removed, taken, fd>>
      /\ taken' \subseteq Threads
      /\ job[t].sha \in Shas /\ Safe(job[t].sha) /\ StoreTypeOK
      /\ b \in Buckets /\ k \in Keys
  BY RequestFacts DEF PutRegister, StoreTypeOK
<1>2. \E label \in {"readback", "done"} :
         pc' = [pc EXCEPT ![t] = label]
  BY DEF PutRegister, Goto, Reply
<1>3. resp' \in [Threads -> Responses]
  <2>1. resp' = resp \/ resp' = [resp EXCEPT ![t] = Status("error")]
    BY DEF PutRegister, Goto, Reply
  <2> QED
    BY <1>1, <2>1, StatusTypes DEF StoreTypeOK
<1>4. CASE UNCHANGED <<metaVars, ptr, cap, job>>
  <2>1. /\ job' = job /\ ptr' = ptr /\ cap' = cap /\ snap' = snap /\ objects' = objects
    BY <1>4 DEF metaVars
  <2>2. Registered' = Registered
    BY <2>1 DEF Registered
  <2>3. /\ job' \in [Threads -> Jobs] /\ ptr' \in [Threads -> Pointers]
        /\ cap' \in [Buckets -> [Keys -> Nat]]
    BY <1>1, <2>1 DEF StoreTypeOK, Pointers, Entries
  <2> QED
    BY <1>1, <1>2, <1>3, <2>1, <2>2, <2>3, QuietStep DEF Labels
<1>5. CASE ApplyPut(t)
  <2> DEFINE id == objects[b][k].nextID
             m  == [id |-> id, sha |-> job[t].sha]
  <2>1. /\ id <= MaxID /\ SetVersions(b, k, AppendVersion(objects[b][k], job[t].sha))
        /\ MoveOnAppend(b, k, m)
        /\ job' = [job EXCEPT ![t].vid = id] /\ snap' = snap
    BY <1>5 DEF ApplyPut, PutObject, SetVersions
  <2>2. id \in 0..MaxID
    <3>1. id \in 1..MaxID + 1
      BY <1>1, EntryTypes
    <3>2. id <= MaxID
      BY <2>1
    <3> HIDE DEF id
    <3> QED
      BY <3>1, <3>2, MaxIDAssumption
  <2>3. m \in Entries
    BY <1>1, <2>2 DEF Entries
  <2>4. ptr' \in [Threads -> Pointers] /\ cap' \in [Buckets -> [Keys -> Nat]]
    BY <1>1, <2>1, <2>3, MoveTypes DEF Pointers
  <2>5. [job[t] EXCEPT !.vid = id] \in Jobs
    BY <2>2, RequestFacts DEF Jobs
  <2>6. /\ job' \in [Threads -> Jobs] /\ \A u \in Threads \ {t} : job'[u] = job[u]
        /\ job'[t].sha = job[t].sha
    BY <1>1, <2>1, <2>5 DEF StoreTypeOK, Jobs
  <2>7. \A r \in Registered' : r \in Registered \/ r = job[t].sha
    <3>1. /\ b \in Buckets /\ k \in Keys /\ job[t].sha \in Shas \cup {NoSha}
          /\ SetVersions(b, k, AppendVersion(objects[b][k], job[t].sha))
      BY <1>1, <2>1
    <3>2. \A c \in Buckets, j \in Keys, s \in Shas \cup {NoSha} :
             SetVersions(c, j, AppendVersion(objects[c][j], s)) =>
                \A r \in Registered' : r \in Registered \/ r = s
      BY RegisteredFacts
    <3> HIDE DEF b, k, id, m
    <3> QED
      BY <3>1, <3>2, Zenon
  <2>8. snap' = snap
    BY <2>1
  <2> HIDE DEF id, m, b, k
  <2> QED
    BY <1>1, <1>2, <1>3, <2>8, <2>4, <2>6, <2>7, QuietStep DEF Labels
<1> QED
  BY <1>4, <1>5 DEF PutRegister, PutFails

\* Steps that read through the pointer, and answer or go on.
LEMMA AnswerStep ==
  ASSUME IInv, StoreInv, NEW t \in Threads,
         \/ PutName(t) \/ ReadFlag(t) \/ ReadMarker(t) \/ ReadETag(t)
         \/ ReadVersionID(t) \/ GetCopy(t) \/ DeleteCheck(t)
  PROVE  StoreInv'
<1> DEFINE m == ptr[t].val
<1>0. /\ StoreTypeOK /\ m.id \in 0..MaxID /\ m.sha \in Shas \cup {NoSha}
      /\ job[t].sha \in Shas \cup {NoSha} /\ ptr \in [Threads -> Pointers]
      /\ noPtr \in Pointers /\ resp[t] \in Responses
  <2>1. 0 \in 0..MaxID
    BY MaxIDAssumption
  <2> QED
    BY <2>1, RequestFacts DEF StoreTypeOK, Pointers, Entries, noPtr
<1>1. UNCHANGED <<snap, objects, blobs, removed, taken, job, cap>>
  BY DEF PutName, ReadFlag, ReadMarker, ReadETag, ReadVersionID, GetCopy, DeleteCheck, metaVars
<1>2. ASSUME NEW r \in Responses, Return(t, r)
      PROVE  /\ pc' = [pc EXCEPT ![t] = "done"] /\ resp' \in [Threads -> Responses]
             /\ ptr' \in [Threads -> Pointers]
             /\ fd' = [fd EXCEPT ![t] = "none"]
  BY <1>0, <1>2 DEF Return, Reply, StoreTypeOK
<1>3. ASSUME NEW label \in Labels, Goto(t, label), UNCHANGED <<ptr, fd>>
      PROVE  /\ pc' = [pc EXCEPT ![t] = label] /\ resp' \in [Threads -> Responses]
             /\ ptr' \in [Threads -> Pointers] /\ fd' = fd
  BY <1>0, <1>3 DEF Goto, StoreTypeOK
<1>4. ASSUME NEW r \in Responses, NEW v \in 0..MaxID, NEW e \in Shas \cup {NoSha}
      PROVE  /\ [r EXCEPT !.vid = v] \in Responses /\ [r EXCEPT !.etag = e] \in Responses
             /\ [r EXCEPT !.status = "ok"] \in Responses
             /\ [[r EXCEPT !.vid = v] EXCEPT !.status = "ok"] \in Responses
  BY DEF Responses
<1>5. /\ \E label \in {"done", "marker", "etag", "vid", "copy", "remove"} :
            pc' = [pc EXCEPT ![t] = label]
      /\ resp' \in [Threads -> Responses] /\ ptr' \in [Threads -> Pointers]
      /\ fd' = fd \/ fd' = [fd EXCEPT ![t] = "none"]
  <2>1. CASE PutName(t)
    <3>1. [Status("ok") EXCEPT !.vid = m.id, !.etag = job[t].sha] \in Responses
      BY <1>0, StatusTypes
    <3> QED
      BY <1>2, <2>1, <3>1 DEF PutName
  <2>2. CASE ReadFlag(t)
    <3>1. \E label \in {"marker", "etag"} : Goto(t, label) /\ UNCHANGED <<ptr, fd>>
      BY <2>2 DEF ReadFlag
    <3> QED
      BY <1>3, <3>1 DEF Labels
  <2>3. CASE ReadMarker(t)
    <3>1. [Status("marker") EXCEPT !.vid = m.id] \in Responses
      BY <1>0, StatusTypes
    <3> QED
      BY <1>2, <2>3, <3>1 DEF ReadMarker
  <2>4. CASE ReadETag(t)
    <3>1. [resp[t] EXCEPT !.etag = m.sha] \in Responses
      BY <1>0, <1>4
    <3>2. /\ resp' = [resp EXCEPT ![t] = [resp[t] EXCEPT !.etag = m.sha]]
          /\ pc' = [pc EXCEPT ![t] = "vid"] /\ UNCHANGED <<ptr, fd>>
      BY <2>4 DEF ReadETag
    <3> HIDE DEF m
    <3> QED
      BY <1>0, <3>1, <3>2 DEF StoreTypeOK
  <2>5. CASE ReadVersionID(t)
    <3> DEFINE r == [resp[t] EXCEPT !.vid = m.id]
    <3>1. r \in Responses /\ [r EXCEPT !.status = "ok"] \in Responses
      BY <1>0, <1>4
    <3>2. \/ Return(t, [r EXCEPT !.status = "ok"])
          \/ /\ pc' = [pc EXCEPT ![t] = "copy"] /\ resp' = [resp EXCEPT ![t] = r]
             /\ UNCHANGED <<ptr, fd>>
      BY <2>5 DEF ReadVersionID
    <3> HIDE DEF r, m
    <3>3. CASE Return(t, [r EXCEPT !.status = "ok"])
      BY <1>2, <3>1, <3>3
    <3>4. CASE /\ pc' = [pc EXCEPT ![t] = "copy"] /\ resp' = [resp EXCEPT ![t] = r]
               /\ UNCHANGED <<ptr, fd>>
      BY <1>0, <3>1, <3>4 DEF StoreTypeOK
    <3> QED
      BY <3>2, <3>3, <3>4
  <2>6. CASE GetCopy(t)
    <3>1. [resp[t] EXCEPT !.status = "ok"] \in Responses
      BY <1>0, <1>4
    <3> QED
      BY <1>2, <2>6, <3>1 DEF GetCopy
  <2>7. CASE DeleteCheck(t)
    <3>1. Status("ok") \in Responses /\ "remove" \in Labels
      BY StatusTypes DEF Labels
    <3> QED
      BY <1>2, <1>3, <2>7, <3>1 DEF DeleteCheck
  <2> QED
    BY <2>1, <2>2, <2>3, <2>4, <2>5, <2>6, <2>7
<1>6. Registered' = Registered
  BY <1>1 DEF Registered
<1>7. /\ job' \in [Threads -> Jobs] /\ cap' \in [Buckets -> [Keys -> Nat]]
      /\ taken' \subseteq Threads
  BY <1>0, <1>1 DEF StoreTypeOK
<1> QED
  BY <1>1, <1>5, <1>6, <1>7, QuietStep DEF Labels

\* A PUT looks the current version up and keeps a pointer to it, or answers.
LEMMA PutReadBackStep ==
  ASSUME IInv, StoreInv, NEW t \in Threads, PutReadBack(t)
  PROVE  StoreInv'
<1> DEFINE vs == objects[job[t].b][job[t].k]
<1>1. /\ StoreTypeOK /\ UNCHANGED <<snap, objects, blobs, removed, taken, job, fd, cap>>
      /\ job[t].sha \in Shas \cup {NoSha}
  BY RequestFacts DEF PutReadBack, metaVars
<1>2. Registered' = Registered
  BY <1>1 DEF Registered
<1>3. /\ job' \in [Threads -> Jobs] /\ cap' \in [Buckets -> [Keys -> Nat]]
      /\ taken' \subseteq Threads /\ ptr \in [Threads -> Pointers]
  BY <1>1 DEF StoreTypeOK, Pointers, Entries
<1>4. ASSUME NEW i \in 1..Len(vs.versions), Goto(t, "name"),
             ptr' = [ptr EXCEPT ![t] = [at |-> i, val |-> vs.versions[i]]]
      PROVE  StoreInv'
  <2>1. vs.versions[i] \in Entries /\ Len(vs.versions) \in Nat
    BY RequestFacts, EntryTypes
  <2>2. ptr' \in [Threads -> Pointers]
    BY <1>3, <1>4, <2>1 DEF Pointers
  <2>3. pc' = [pc EXCEPT ![t] = "name"] /\ resp' \in [Threads -> Responses]
    BY <1>1, <1>4 DEF Goto, StoreTypeOK
  <2> QED
    BY <1>1, <1>2, <1>3, <2>2, <2>3, QuietStep DEF Labels
<1>5. ASSUME Reply(t, [Status("ok") EXCEPT !.etag = job[t].sha]), ptr' = ptr
      PROVE  StoreInv'
  <2>0. 0 \in 0..MaxID /\ job[t].sha \in Shas \cup {NoSha}
    BY <1>1, RequestFacts, MaxIDAssumption
  <2>1. [Status("ok") EXCEPT !.etag = job[t].sha] \in Responses
    <3>1. \A v \in 0..MaxID, e \in Shas \cup {NoSha} :
             [Status("ok") EXCEPT !.etag = e] \in Responses
      BY StatusTypes
    <3> QED
      BY <2>0, <3>1, Zenon
  <2>2. pc' = [pc EXCEPT ![t] = "done"] /\ resp' \in [Threads -> Responses]
    BY <1>1, <1>5, <2>1 DEF Reply, StoreTypeOK
  <2> QED
    BY <1>1, <1>2, <1>3, <1>5, <2>2, QuietStep DEF Labels
<1> QED
  BY <1>4, <1>5 DEF PutReadBack

\* A request looks its object up and keeps a pointer to the entry.
LEMMA LookupStep ==
  ASSUME IInv, StoreInv, NEW t \in Threads, NEW b \in Buckets, NEW k \in Keys,
         NEW op \in {"get", "head", "del"}, NEW v \in 0..MaxID, Lookup(t, op, b, k, v)
  PROVE  StoreInv'
<1> DEFINE vs == objects[b][k].versions
           new(s) == [op |-> op, b |-> b, k |-> k, sha |-> s, vid |-> v]
<1>1. /\ pc[t] = "idle" /\ fd[t] = "none" /\ StoreTypeOK
      /\ UNCHANGED <<snap, objects, blobs, removed, taken, fd, cap>>
      /\ (op = "del" => v # 0) /\ taken' \subseteq Threads
  BY RequestFacts DEF Lookup, metaVars, StoreTypeOK
<1>2. \A s \in Shas \cup {NoSha} : new(s) \in Jobs /\ new(s).vid = v
  BY DEF Jobs
<1>3. Registered' = Registered
  BY <1>1 DEF Registered
<1>4. cap' \in [Buckets -> [Keys -> Nat]]
  BY <1>1 DEF StoreTypeOK
<1>5. ASSUME NEW i \in 1..Len(vs),
             ptr' = [ptr EXCEPT ![t] = [at |-> i, val |-> vs[i]]],
             job' = [job EXCEPT ![t] = new(IF op = "del" THEN vs[i].sha ELSE NoSha)],
             Goto(t, firstStep[op])
      PROVE  StoreInv'
  <2>1. vs[i] \in Entries /\ vs[i].sha \in Shas \cup {NoSha} /\ Len(vs) \in Nat
    BY EntryTypes
  <2>2. [at |-> i, val |-> vs[i]] \in Pointers
    BY <2>1 DEF Pointers
  <2>3. ptr' \in [Threads -> Pointers]
    BY <1>1, <1>5, <2>2 DEF StoreTypeOK, Pointers, Entries
  <2>4. PICK s \in Shas \cup {NoSha} : job' = [job EXCEPT ![t] = new(s)]
    BY <1>5, <2>1
  <2>5. /\ job' \in [Threads -> Jobs] /\ \A u \in Threads \ {t} : job'[u] = job[u]
        /\ job'[t].vid = v
    BY <1>1, <1>2, <2>4 DEF StoreTypeOK
  <2>6. /\ firstStep[op] \in {"open", "flag", "unregister"}
        /\ firstStep[op] = "unregister" => v # 0
    BY <1>1 DEF firstStep
  <2>7. pc' = [pc EXCEPT ![t] = firstStep[op]] /\ resp' \in [Threads -> Responses]
    BY <1>1, <1>5 DEF Goto, StoreTypeOK
  <2> QED
    BY <1>1, <1>3, <1>4, <2>3, <2>5, <2>6, <2>7, QuietStep DEF Labels
<1>6. ASSUME job' = [job EXCEPT ![t] = new(NoSha)], Reply(t, Status("notfound")),
             ptr' = ptr
      PROVE  StoreInv'
  <2>1. job' \in [Threads -> Jobs] /\ \A u \in Threads \ {t} : job'[u] = job[u]
    BY <1>1, <1>2, <1>6 DEF StoreTypeOK
  <2>2. pc' = [pc EXCEPT ![t] = "done"] /\ resp' \in [Threads -> Responses]
    BY <1>1, <1>6, StatusTypes DEF Reply, StoreTypeOK
  <2>3. ptr' \in [Threads -> Pointers]
    BY <1>1, <1>6 DEF StoreTypeOK, Pointers, Entries
  <2> QED
    BY <1>1, <1>3, <1>4, <2>1, <2>2, <2>3, QuietStep DEF Labels
<1> QED
  BY <1>5, <1>6 DEF Lookup

\* GetOpen opens the file of the entry its pointer shows, if it is there.
LEMMA GetOpenStep ==
  ASSUME StoreInv, NEW t \in Threads, GetOpen(t)
  PROVE  StoreInv'
<1> DEFINE s == ptr[t].val.sha
<1>1. /\ StoreTypeOK /\ s \in Shas \cup {NoSha}
      /\ UNCHANGED <<snap, objects, blobs, removed, taken, ptr, cap>>
      /\ taken' \subseteq Threads
  BY RequestFacts DEF GetOpen, metaVars, StoreTypeOK
<1>2. Registered' = Registered
  BY <1>1 DEF Registered
<1>3. ptr' \in [Threads -> Pointers] /\ cap' \in [Buckets -> [Keys -> Nat]]
  BY <1>1 DEF StoreTypeOK, Pointers, Entries
<1>4. ASSUME NEW st \in {"panic", "error"}, Reply(t, Status(st)), UNCHANGED <<job, fd>>
      PROVE  StoreInv'
  <2>1. pc' = [pc EXCEPT ![t] = "done"] /\ resp' \in [Threads -> Responses]
    BY <1>1, <1>4, StatusTypes DEF Reply, StoreTypeOK
  <2>2. job' \in [Threads -> Jobs]
    BY <1>1, <1>4 DEF StoreTypeOK
  <2> QED
    BY <1>1, <1>2, <1>3, <1>4, <2>1, <2>2, QuietStep DEF Labels
<1>5. ASSUME s # NoSha, blobs[s] # "absent",
             job' = [job EXCEPT ![t].sha = s],
             fd' = [fd EXCEPT ![t] = "linked"], Goto(t, "flag")
      PROVE  StoreInv'
  <2>1. [job[t] EXCEPT !.sha = s] \in Jobs
    BY <1>1, RequestFacts DEF Jobs
  <2>2. /\ job' \in [Threads -> Jobs] /\ \A u \in Threads \ {t} : job'[u] = job[u]
        /\ job'[t].sha = s
    BY <1>1, <1>5, <2>1 DEF StoreTypeOK, Jobs
  <2>3. /\ fd' \in [Threads -> {"none", "linked", "unlinked"}]
        /\ \A u \in Threads \ {t} : fd'[u] = fd[u]
        /\ pc' \in [Threads -> Labels] /\ pc'[t] = "flag"
        /\ \A u \in Threads \ {t} : pc'[u] = pc[u]
        /\ resp' = resp
    BY <1>1, <1>5 DEF Goto, StoreTypeOK, Labels
  <2>4. StoreTypeOK'
    BY <1>1, <2>2, <2>3 DEF StoreTypeOK, Labels
  <2>5. \A r \in Shas : Safe(r) => SafeNext(r)
    BY <1>1 DEF Safe, SafeNext
  <2>6. s \in Shas /\ blobs'[s] # "absent"
    BY <1>1, <1>5
  <2> QED
    BY <1>1, <1>2, <2>2, <2>3, <2>4, <2>5, <2>6, InvKept
<1> QED
  BY <1>4, <1>5 DEF GetOpen

\* DeleteMark registers no content.
LEMMA DeleteMarkStep ==
  ASSUME IInv, StoreInv, NEW t \in Threads, NEW b \in Buckets, NEW k \in Keys,
         DeleteMark(t, b, k)
  PROVE  StoreInv'
<1> DEFINE j == [op |-> "mark", b |-> b, k |-> k, sha |-> NoSha, vid |-> 0]
           id == objects[b][k].nextID
           m == [id |-> id, sha |-> NoSha]
<1>1. /\ pc[t] = "idle" /\ fd[t] = "none" /\ StoreTypeOK
      /\ UNCHANGED <<blobs, removed, taken, fd>> /\ taken' \subseteq Threads
      /\ job' = [job EXCEPT ![t] = j]
  BY RequestFacts DEF DeleteMark, StoreTypeOK
<1>2. j \in Jobs
  BY MaxIDAssumption DEF Jobs
<1> HIDE DEF j
<1>3. job' \in [Threads -> Jobs] /\ \A u \in Threads \ {t} : job'[u] = job[u]
  BY <1>1, <1>2 DEF StoreTypeOK
<1>4. \A st \in {"ok", "notfound"} :
         Reply(t, Status(st)) => /\ pc' = [pc EXCEPT ![t] = "done"]
                                 /\ resp' \in [Threads -> Responses]
  <2>1. Status("ok") \in Responses /\ Status("notfound") \in Responses
    BY StatusTypes
  <2> QED
    BY <1>1, <2>1 DEF Reply, StoreTypeOK
<1>5. CASE /\ PutDeleteMarker(b, k) /\ Reply(t, Status("ok")) /\ MoveOnAppend(b, k, m)
  <2>1. /\ id <= MaxID /\ snap' = snap
        /\ SetVersions(b, k, AppendVersion(objects[b][k], NoSha))
    BY <1>5 DEF PutDeleteMarker, SetVersions
  <2>2. id \in 0..MaxID
    BY <2>1, EntryTypes, MaxIDAssumption
  <2>3. m \in Entries
    BY <2>2 DEF Entries
  <2>4. ptr' \in [Threads -> Pointers] /\ cap' \in [Buckets -> [Keys -> Nat]]
    BY <1>1, <1>5, <2>3, MoveTypes DEF Pointers
  <2>5. \A r \in Registered' : r \in Registered \/ r = NoSha
    BY <2>1, RegisteredFacts
  <2>6. Registered' \subseteq Shas
    BY DEF Registered
  <2>7. \A r \in Registered' : r \in Registered
    BY <2>5, <2>6, NoShaAssumption
  <2> QED
    BY <1>1, <1>3, <1>4, <1>5, <2>1, <2>4, <2>7, QuietStep DEF Labels
<1>6. CASE Reply(t, Status("notfound")) /\ UNCHANGED <<metaVars, ptr, cap>>
  <2>1. UNCHANGED <<snap, objects, ptr, cap>>
    BY <1>6 DEF metaVars
  <2>2. Registered' = Registered
    BY <2>1 DEF Registered
  <2>3. ptr' \in [Threads -> Pointers] /\ cap' \in [Buckets -> [Keys -> Nat]]
    BY <1>1, <2>1 DEF StoreTypeOK, Pointers, Entries
  <2> QED
    BY <1>1, <1>3, <1>4, <1>6, <2>1, <2>2, <2>3, QuietStep DEF Labels
<1> QED
  BY <1>5, <1>6 DEF DeleteMark

\* DeleteUnregister takes contents away and moves pointers.
LEMMA DeleteUnregisterStep ==
  ASSUME IInv, StoreInv, NEW t \in Threads, DeleteUnregister(t)
  PROVE  StoreInv'
<1> DEFINE b == job[t].b
           k == job[t].k
<1>1. /\ UNCHANGED <<blobs, removed, job, fd>> /\ StoreTypeOK
      /\ b \in Buckets /\ k \in Keys /\ taken' \subseteq Threads
  BY RequestFacts DEF DeleteUnregister, ApplyDelete, DeleteFails, PutsOf, StoreTypeOK
<1>2. \E label \in {"check", "done"} : pc' = [pc EXCEPT ![t] = label]
  BY DEF DeleteUnregister, Goto, Reply
<1>3. resp' \in [Threads -> Responses]
  <2>1. resp' = resp \/ resp' = [resp EXCEPT ![t] = Status("error")]
    BY DEF DeleteUnregister, Goto, Reply
  <2> QED
    BY <1>1, <2>1, StatusTypes DEF StoreTypeOK
<1>4. job' \in [Threads -> Jobs] /\ \A u \in Threads : job'[u] = job[u]
  BY <1>1 DEF StoreTypeOK
<1>5. CASE UNCHANGED <<metaVars, ptr, cap>>
  <2>1. UNCHANGED <<snap, objects, ptr, cap>>
    BY <1>5 DEF metaVars
  <2>2. Registered' = Registered
    BY <2>1 DEF Registered
  <2>3. ptr' \in [Threads -> Pointers] /\ cap' \in [Buckets -> [Keys -> Nat]]
    BY <1>1, <2>1 DEF StoreTypeOK, Pointers, Entries
  <2> QED
    BY <1>1, <1>2, <1>3, <1>4, <2>1, <2>2, <2>3, QuietStep DEF Labels
<1>6. CASE ApplyDelete(t)
  <2>1. PICK i \in 1..Len(objects[b][k].versions) : MoveOnRemove(b, k, i)
    BY <1>6 DEF ApplyDelete
  <2>2. PICK n \in 1..Len(objects[b][k].versions) :
           SetVersions(b, k, RemoveVersion(objects[b][k], n))
    BY <1>6 DEF ApplyDelete, DeleteVersion
  <2>3. snap' = snap
    BY <2>2 DEF SetVersions
  <2>4. ptr' \in [Threads -> Pointers] /\ cap' \in [Buckets -> [Keys -> Nat]]
    BY <1>1, <2>1, MoveTypes DEF Pointers
  <2>5. Registered' \subseteq Registered
    BY <1>1, <2>2, RegisteredFacts
  <2> HIDE DEF b, k
  <2> QED
    BY <1>1, <1>2, <1>3, <1>4, <2>3, <2>4, <2>5, QuietStep DEF Labels
<1> QED
  BY <1>5, <1>6 DEF DeleteUnregister, DeleteFails

\* The initial job, pointer and response are of their types.
LEMMA NothingTypes ==
  noJob \in Jobs /\ noPtr \in Pointers /\ noResp \in Responses
<1>1. 0 \in 0..MaxID
  BY MaxIDAssumption
<1>2. (CHOOSE b \in Buckets : TRUE) \in Buckets /\ (CHOOSE k \in Keys : TRUE) \in Keys
  BY NamesAssumption
<1>3. noJob \in Jobs
  BY <1>1, <1>2 DEF noJob, Jobs
<1>4. noPtr \in Pointers
  BY <1>1 DEF noPtr, Pointers, Entries
<1>5. noResp \in Responses
  BY <1>1 DEF noResp, Responses
<1> QED
  BY <1>3, <1>4, <1>5

\* DeleteRemove records the content whose file it unlinks.
LEMMA DeleteRemoveStep ==
  ASSUME StoreInv, NEW t \in Threads, DeleteRemove(t)
  PROVE  StoreInv'
<1> DEFINE s == ptr[t].val.sha
<1>1. /\ StoreTypeOK /\ s \in Shas \cup {NoSha}
      /\ UNCHANGED <<snap, objects, job, taken, cap>>
      /\ \E st \in {"ok", "panic"} : Reply(t, Status(st))
      /\ ptr' = [ptr EXCEPT ![t] = noPtr]
  BY RequestFacts DEF DeleteRemove, metaVars
<1>2. Registered' = Registered
  BY <1>1 DEF Registered
<1>3. /\ pc' = [pc EXCEPT ![t] = "done"] /\ pc' \in [Threads -> Labels]
      /\ pc'[t] = "done" /\ \A u \in Threads \ {t} : pc'[u] = pc[u]
  BY <1>1 DEF Reply, StoreTypeOK, Labels
<1>4. resp' \in [Threads -> Responses]
  <2>1. PICK st \in {"ok", "panic"} : Reply(t, Status(st))
    BY <1>1
  <2>2. Status(st) \in Responses
    BY <2>1, StatusTypes
  <2> QED
    BY <1>1, <2>1, <2>2 DEF Reply, StoreTypeOK
<1>0. ptr' \in [Threads -> Pointers] /\ taken' \subseteq Threads
  BY <1>1, NothingTypes DEF StoreTypeOK, Pointers, Entries
<1>5. CASE UNCHANGED <<blobs, removed, fd>>
  <2>1. /\ job' \in [Threads -> Jobs] /\ \A u \in Threads : job'[u] = job[u]
        /\ cap' \in [Buckets -> [Keys -> Nat]]
    BY <1>1 DEF StoreTypeOK
  <2> QED
    BY <1>0, <1>1, <1>2, <1>3, <1>4, <1>5, <2>1, QuietStep DEF Labels
<1>6. CASE ~ (s = NoSha \/ blobs[s] = "absent")
  <2>1. /\ s \in Shas /\ blobs[s] # "absent" /\ removed' = removed \cup {s}
        /\ blobs' = [blobs EXCEPT ![s] = "absent"]
        /\ fd' = [u \in Threads |->
                    IF fd[u] = "linked" /\ job[u].sha = s THEN "unlinked" ELSE fd[u]]
    BY <1>1, <1>6 DEF DeleteRemove
  <2>2. /\ blobs' \in [Shas -> {"absent", "partial", "full"}] /\ removed' \subseteq Shas
        /\ \A r \in Shas : r # s => blobs'[r] = blobs[r]
    BY <1>1, <2>1 DEF StoreTypeOK
  <2>3. /\ fd' \in [Threads -> {"none", "linked", "unlinked"}]
        /\ \A u \in Threads : /\ fd'[u] = "linked" => fd[u] = "linked" /\ job[u].sha # s
                              /\ fd[u] = "none" => fd'[u] = "none"
    BY <1>1, <2>1, <2>2 DEF StoreTypeOK
  <2>4. StoreTypeOK'
    BY <1>0, <1>1, <1>3, <1>4, <2>2, <2>3 DEF StoreTypeOK, Labels, Pointers, Entries
  <2>5. \A r \in Shas : Safe(r) => SafeNext(r)
    BY <2>1, <2>2 DEF Safe, SafeNext
  <2>6. fd'[t] = "linked" => job'[t].sha \in Shas /\ blobs'[job'[t].sha] # "absent"
    BY <1>1, <2>2, <2>3, RequestFacts
  <2>7. \A u \in Threads \ {t} :
            /\ pc'[u] = pc[u] /\ job'[u] = job[u]
            /\ fd'[u] = "linked" =>
                 /\ fd[u] = "linked"
                 /\ job[u].sha \in Shas /\ blobs'[job[u].sha] = "absent" =>
                      blobs[job[u].sha] = "absent"
            /\ fd[u] = "none" => fd'[u] = "none"
    BY <1>1, <1>3, <2>2, <2>3
  <2> HIDE DEF s
  <2> QED
    BY <1>1, <1>2, <1>3, <2>4, <2>5, <2>6, <2>7, InvKept
<1> QED
  BY <1>5, <1>6 DEF DeleteRemove

\* A request that ends lets go of its file.
LEMMA FinishStep ==
  ASSUME StoreInv, NEW t \in Threads, Finish(t)
  PROVE  StoreInv'
<1>1. StoreTypeOK /\ UNCHANGED <<snap, objects, blobs, removed, cap>>
  BY RequestFacts DEF Finish, metaVars
<1>2. Registered' = Registered
  BY <1>1 DEF Registered
<1>3. StoreTypeOK'
  BY <1>1, NothingTypes DEF Finish, StoreTypeOK, Pointers, Entries
<1>4. /\ pc'[t] = "idle" /\ fd'[t] = "none"
      /\ \A u \in Threads \ {t} : pc'[u] = pc[u] /\ job'[u] = job[u] /\ fd'[u] = fd[u]
  BY <1>1 DEF Finish, StoreTypeOK
<1>5. \A s \in Shas : Safe(s) => SafeNext(s)
  BY <1>1 DEF Safe, SafeNext
<1> QED
  BY <1>1, <1>2, <1>3, <1>4, <1>5, InvKept

\* Bucket calls move no request on and register nothing.
LEMMA BucketStep ==
  ASSUME IInv, StoreInv, NEW c \in Callers, NEW b \in Buckets,
         BucketCall(c, b) \/ BucketCallLocked(c, b)
  PROVE  StoreInv'
<1>1. /\ UNCHANGED <<snap, blobs, removed, pc, job, fd, resp>> /\ StoreTypeOK
  BY DEF BucketCall, BucketCallLocked, CreateBucket, DeleteBucket, CreateBucketLocked,
         DeleteBucketLocked, storeVars, reqVars, StoreInv
<1>2. Registered' \subseteq Registered
  <2>1. CASE BucketCall(c, b)
    BY <2>1 DEF BucketCall, CreateBucket, DeleteBucket, memory, Registered
  <2>2. CASE BucketCallLocked(c, b)
    <3>1. creating[c] \subseteq Buckets /\ deleting[c] \subseteq Buckets
      BY DEF IInv, TypeOK
    <3>2. PICK d \in Buckets : objects' = [objects EXCEPT ![d] = noKeys]
      BY <2>2, <3>1 DEF BucketCallLocked, CreateBucketLocked, DeleteBucketLocked
    <3> QED
      BY <3>2, RegisteredFacts
  <2> QED
    BY <2>1, <2>2
<1>3. ptr' \in [Threads -> Pointers] /\ cap' \in [Buckets -> [Keys -> Nat]]
  <2>1. CASE BucketCall(c, b)
    BY <1>1, <2>1 DEF BucketCall, storeVars, StoreTypeOK, Pointers, Entries
  <2>2. CASE BucketCallLocked(c, b)
    <3>1. MoveOnClear(b)
      BY <2>2 DEF BucketCallLocked
    <3>2. PICK k \in Keys : TRUE
      BY NamesAssumption
    <3> QED
      BY <1>1, <3>1, MoveTypes DEF Pointers
  <2> QED
    BY <2>1, <2>2
<1>4. taken' \subseteq Threads
  BY <1>1 DEF BucketCall, BucketCallLocked, storeVars, StoreTypeOK
<1>5. StoreTypeOK'
  BY <1>1, <1>3, <1>4 DEF StoreTypeOK, Pointers, Entries
<1>6. MissingOnlyAfterDelete'
  BY <1>1, <1>2 DEF StoreInv, MissingOnlyAfterDelete
<1> QED
  BY <1>1, <1>5, <1>6 DEF StoreInv, Safe

\* Without versions nothing is registered.
LEMMA NothingRegistered ==
  objects = noObjects => Registered = {}
<1>1. Len(newVersionState.versions) = 0
  BY DEF newVersionState
<1> QED
  BY <1>1 DEF Registered, noObjects, noKeys

-----------------------------------------------------------------------------
\* The invariant holds in the initial state.
LEMMA InitStoreInv ==
  StoreInit => IInv /\ StoreInv
<1> SUFFICES ASSUME StoreInit PROVE IInv /\ StoreInv
  OBVIOUS
<1>1. IInv
  BY InitIInv DEF StoreInit
<1>2. StoreTypeOK
  BY NothingTypes DEF StoreInit, StoreTypeOK, Pointers, Entries
<1>3. snap = noSnapshot /\ Registered = {}
  BY NothingRegistered DEF StoreInit, Init
<1> QED
  BY <1>1, <1>2, <1>3 DEF StoreInv, StoreInit, MissingOnlyAfterDelete

\* Every step of every request and bucket call preserves it.
LEMMA NextStoreInv ==
  ASSUME IInv, StoreInv, [StoreNext]_vars
  PROVE  IInv' /\ StoreInv' /\ [Next]_metaVars
<1>1. CASE UNCHANGED vars
  <2>1. UNCHANGED metaVars /\ UNCHANGED <<blobs, removed, taken, pc, job, ptr, fd, cap, resp>>
    BY <1>1 DEF vars, storeVars
  <2>2. UNCHANGED <<snap, objects>>
    BY <2>1 DEF metaVars
  <2>3. Registered' = Registered /\ StoreTypeOK'
    BY <2>1, <2>2 DEF Registered, StoreInv, StoreTypeOK
  <2>4. StoreInv'
    BY <2>1, <2>2, <2>3 DEF StoreInv, MissingOnlyAfterDelete, Safe
  <2> QED
    BY <2>1, <2>4, MetaIInv
<1>2. CASE StoreNext
  <2>1. [Next]_metaVars
    BY <1>2, MetaStep
  <2>2. IInv'
    BY <2>1, MetaIInv
  <2>3. StoreInv'
    <3>1. ASSUME NEW t \in Threads, NEW b \in Buckets, NEW k \in Keys,
                 \/ \E s \in Shas : PutOpen(t, b, k, s)
                 \/ \E op \in {"get", "head", "del"}, v \in 0..MaxID :
                       Lookup(t, op, b, k, v)
                 \/ DeleteMark(t, b, k)
          PROVE  StoreInv'
      BY <3>1, PutOpenStep, LookupStep, DeleteMarkStep
    <3>2. ASSUME NEW t \in Threads,
                 \/ PutWrite(t) \/ PutRegister(t) \/ PutReadBack(t) \/ PutName(t)
                 \/ GetOpen(t) \/ ReadFlag(t) \/ ReadMarker(t)
                 \/ ReadETag(t) \/ ReadVersionID(t) \/ GetCopy(t)
                 \/ DeleteUnregister(t) \/ DeleteCheck(t) \/ DeleteRemove(t) \/ Finish(t)
          PROVE  StoreInv'
      BY <3>2, PutWriteStep, PutRegisterStep, PutReadBackStep, AnswerStep, GetOpenStep,
         DeleteUnregisterStep, DeleteRemoveStep, FinishStep
    <3>3. ASSUME NEW c \in Callers, NEW b \in Buckets,
                 BucketCall(c, b) \/ BucketCallLocked(c, b)
          PROVE  StoreInv'
      BY <3>3, BucketStep
    <3> QED
      BY <1>2, <3>1, <3>2, <3>3 DEF StoreNext
  <2> QED
    BY <2>1, <2>2, <2>3
<1> QED
  BY <1>1, <1>2

\* The invariants of both levels hold in every reachable state of a node that
\* serves any number of PUT, GET, HEAD and DELETE requests at once.
THEOREM StoreInductive ==
  StoreSpec => [](IInv /\ StoreInv)
<1>1. StoreInit => IInv /\ StoreInv
  BY InitStoreInv
<1>2. IInv /\ StoreInv /\ [StoreNext]_vars => (IInv /\ StoreInv)'
  BY NextStoreInv
<1> QED
  BY <1>1, <1>2, PTL DEF StoreSpec

\* Type correctness of the request level of store.go and api.go.
THEOREM StoreTypeCorrect ==
  StoreSpec => []StoreTypeOK
<1>1. IInv /\ StoreInv => StoreTypeOK
  BY DEF StoreInv
<1> QED
  BY <1>1, StoreInductive, PTL

\* PutObject writes the blob before it registers the version (store.go), so a
\* registered content lacks its file only after a DELETE removed a file of that
\* content: whatever fails, and however requests interleave.
THEOREM BlobBeforeMetadata ==
  StoreSpec => []MissingOnlyAfterDelete
<1>1. IInv /\ StoreInv => MissingOnlyAfterDelete
  BY DEF StoreInv
<1> QED
  BY <1>1, StoreInductive, PTL
=============================================================================
