-------------------------- MODULE ReplicationProofs --------------------------
(***************************************************************************)
(* Proofs about Replication for any number of nodes, buckets, keys,        *)
(* contents, version IDs and log entries, and that it implements           *)
(* MetadataLog.                                                            *)
(***************************************************************************)
EXTENDS Replication, VersionStateProofs

\* The inductive invariant: the history `canon' is what the entries give one by
\* one, nobody is beyond the end of the log, and the memory of every node is
\* sound, clean or not.
ReplicationInv ==
  /\ ReplicationTypeOK
  /\ Len(canon) = Len(log) + 1
  /\ \A i \in 1..Len(log) : canon[i + 1] = ApplyOp(canon[i], log[i])
  /\ \A i \in 1..Len(canon) : Sound(canon[i], Buckets)
  /\ \A n \in Nodes :
        /\ {index[n], snap[n].index} \cup taken[n] \subseteq 0..Len(log)
        /\ Sound(objects[n], made[n])
  /\ SnapshotsSound
  /\ CleanFollowsLog

-----------------------------------------------------------------------------
(* Operations on the metadata. *)

\* The parts of an operation.
LEMMA OpFacts ==
  ASSUME NEW op \in RaftOps
  PROVE  /\ op.b \in Buckets /\ op.k \in Keys
         /\ op.kind \in {"put_object", "delete_version"}
         /\ op.kind = "put_object" => op.sha \in Shas
BY DEF RaftOps

\* A key that is there is not the new one.
LEMMA KeyOfAppend ==
  ASSUME NEW vs \in VersionStates, NEW sha \in Shas \cup {NoSha}, vs.nextID <= MaxID
  PROVE  HasKey(AppendVersion(vs, sha))
<1> DEFINE m == [id |-> vs.nextID, sha |-> sha]
<1>1. vs.versions \in Seq(ObjectMeta) /\ vs.nextID \in 1..MaxID
  BY EntryFacts, MaxIDAssumption
<1>2. m \in ObjectMeta
  BY <1>1 DEF ObjectMeta
<1>3. AppendVersion(vs, sha).versions = Append(vs.versions, m)
  BY DEF AppendVersion
<1> HIDE DEF m
<1>4. Append(vs.versions, m) # <<>>
  BY <1>1, <1>2, AppendProperties
<1> QED
  BY <1>3, <1>4 DEF HasKey

\* A permanent delete leaves versions, or the state of a key that is not there.
LEMMA KeyOfRemove ==
  ASSUME NEW vs, NEW i
  PROVE  HasKey(RemoveVersion(vs, i)) \/ RemoveVersion(vs, i) = newVersionState
<1> DEFINE rest == RemoveAt(vs.versions, i)
<1>1. CASE rest = <<>>
  BY <1>1 DEF RemoveVersion
<1>2. CASE rest # <<>>
  <2>1. RemoveVersion(vs, i) = [vs EXCEPT !.versions = rest, !.current = Len(rest)]
    BY <1>2 DEF RemoveVersion
  <2> QED
    BY <1>2, <2>1 DEF HasKey
<1> QED
  BY <1>1, <1>2

\* Putting a sound version state in place of a key leaves the metadata sound.
LEMMA SoundUpdate ==
  ASSUME NEW objs, NEW m, Sound(objs, m), NEW b \in Buckets, NEW k \in Keys,
         NEW vs \in VersionStates, Ordered(vs),
         IF HasKey(vs) THEN b \in m ELSE vs = newVersionState
  PROVE  Sound([objs EXCEPT ![b][k] = vs], m)
<1> DEFINE new == [objs EXCEPT ![b][k] = vs]
<1>1. objs \in Objects
  BY DEF Sound
<1>2. new \in Objects
  BY <1>1 DEF Objects
<1>3. ASSUME NEW c \in Buckets, NEW l \in Keys
      PROVE  new[c][l] = IF c = b /\ l = k THEN vs ELSE objs[c][l]
  BY <1>1 DEF Objects
<1> HIDE DEF new
<1>4. ASSUME NEW c \in Buckets, NEW l \in Keys
      PROVE  /\ Ordered(new[c][l])
             /\ IF HasKey(new[c][l]) THEN c \in m ELSE new[c][l] = newVersionState
  <2>1. CASE c = b /\ l = k
    BY <1>3, <2>1
  <2>2. CASE ~ (c = b /\ l = k)
    BY <1>3, <2>2 DEF Sound
  <2> QED
    BY <2>1, <2>2
<1>5. Sound(new, m)
  BY <1>2, <1>4 DEF Sound
<1> QED
  BY <1>5 DEF new

\* An entry of the log turns sound metadata into sound metadata (ApplyOp of
\* store.go), also on a node that has the bucket but not its map.
LEMMA ApplyOpSound ==
  ASSUME NEW objs, NEW m, Sound(objs, m), NEW op \in RaftOps,
         op.kind = "put_object" => op.b \in m /\ objs[op.b][op.k].nextID <= MaxID
  PROVE  Sound(ApplyOp(objs, op), m)
<1> DEFINE vs == objs[op.b][op.k]
<1>1. op.b \in Buckets /\ op.k \in Keys
  BY OpFacts
<1>2. vs \in VersionStates
  BY <1>1 DEF Sound, Objects
<1>3. Ordered(vs) /\ IF HasKey(vs) THEN op.b \in m ELSE vs = newVersionState
  BY <1>1 DEF Sound
<1>4. ApplyOp(objs, op) = [objs EXCEPT ![op.b][op.k] = Applied(vs, op)]
  BY DEF ApplyOp
<1> HIDE DEF vs
<1>5. /\ Applied(vs, op) \in VersionStates /\ Ordered(Applied(vs, op))
      /\ IF HasKey(Applied(vs, op)) THEN op.b \in m ELSE Applied(vs, op) = newVersionState
  <2>1. CASE op.kind = "put_object"
    <3>1. op.sha \in Shas \cup {NoSha} /\ vs.nextID <= MaxID /\ op.b \in m
      BY <2>1, OpFacts DEF vs
    <3>2. Applied(vs, op) = AppendVersion(vs, op.sha)
      BY <2>1 DEF Applied
    <3>3. HasKey(AppendVersion(vs, op.sha))
      BY <1>2, <3>1, KeyOfAppend
    <3> QED
      BY <1>2, <1>3, <3>1, <3>2, <3>3, AppendVersionFacts
  <2>2. CASE op.kind # "put_object" /\ HasVersion(vs, op.vid)
    <3> DEFINE i == CHOOSE j \in 1..Len(vs.versions) : IsVersionAt(vs, op.vid, j)
    <3>1. i \in 1..Len(vs.versions)
      BY <2>2 DEF HasVersion
    <3>2. Applied(vs, op) = RemoveVersion(vs, i)
      BY <2>2 DEF Applied
    <3> HIDE DEF i
    <3>3. HasKey(vs)
      BY <1>2, <3>1, EntryFacts DEF HasKey
    <3>4. HasKey(RemoveVersion(vs, i)) \/ RemoveVersion(vs, i) = newVersionState
      BY KeyOfRemove
    <3> QED
      BY <1>2, <1>3, <3>1, <3>2, <3>3, <3>4, RemoveVersionFacts
  <2>3. CASE op.kind # "put_object" /\ ~ HasVersion(vs, op.vid)
    BY <1>2, <1>3, <2>3 DEF Applied
  <2> QED
    BY <2>1, <2>2, <2>3
<1>6. Sound([objs EXCEPT ![op.b][op.k] = Applied(vs, op)], m)
  BY <1>1, <1>5, SoundUpdate
<1> QED
  BY <1>4, <1>6

\* No metadata at all is sound, whatever maps there are.
LEMMA NoObjectsSound == ASSUME NEW m PROVE Sound(noObjects, m)
BY NewVersionStateFacts DEF Sound, Objects, noObjects

\* Sound metadata stays sound when there are more maps.
LEMMA SoundGrows ==
  ASSUME NEW objs, NEW m, NEW more, m \subseteq more, Sound(objs, m)
  PROVE  Sound(objs, more)
BY DEF Sound

\* Emptying a bucket leaves sound metadata, with its map or without it.
LEMMA SoundWithout ==
  ASSUME NEW objs, NEW m, NEW rest, NEW b \in Buckets, Sound(objs, m), m \ {b} \subseteq rest
  PROVE  /\ Sound([objs EXCEPT ![b] = noObjects[b]], rest)
         /\ (\A k \in Keys : ~ HasKey(objs[b][k])) => [objs EXCEPT ![b] = noObjects[b]] = objs
<1> DEFINE new == [objs EXCEPT ![b] = noObjects[b]]
<1>1. objs \in Objects
  BY DEF Sound
<1>2. noObjects[b] \in [Keys -> VersionStates] /\ \A k \in Keys : noObjects[b][k] = newVersionState
  BY NewVersionStateFacts DEF noObjects
<1>3. new \in Objects
  BY <1>1, <1>2 DEF Objects
<1>4. \A c \in Buckets : new[c] = IF c = b THEN noObjects[b] ELSE objs[c]
  BY <1>1 DEF Objects
<1> HIDE DEF new
<1>5. ASSUME NEW c \in Buckets, NEW k \in Keys
      PROVE  /\ Ordered(new[c][k])
             /\ IF HasKey(new[c][k]) THEN c \in rest ELSE new[c][k] = newVersionState
  <2>1. CASE c = b
    BY <1>2, <1>4, <2>1, NewVersionStateFacts
  <2>2. CASE c # b
    BY <1>4, <2>2 DEF Sound
  <2> QED
    BY <2>1, <2>2
<1>6. ASSUME \A k \in Keys : ~ HasKey(objs[b][k])
      PROVE  new = objs
  <2>1. \A k \in Keys : objs[b][k] = noObjects[b][k]
    BY <1>2, <1>6 DEF Sound
  <2>2. objs[b] = noObjects[b]
    BY <1>1, <1>2, <2>1 DEF Objects
  <2> QED
    BY <1>1, <1>3, <1>4, <2>2 DEF Objects
<1> QED
  BY <1>3, <1>5, <1>6 DEF Sound, new

\* Restore merges two sound metadata into a sound one, and gives the snapshot's
\* when that has every key.
LEMMA MergeSound ==
  ASSUME NEW objs, NEW m, Sound(objs, m), NEW s, Sound(s.objects, s.made)
  PROVE  /\ Sound(Merge(objs, s), m \cup s.made)
         /\ (\A b \in Buckets, k \in Keys : HasKey(objs[b][k]) => HasKey(s.objects[b][k]))
              => Merge(objs, s) = s.objects
<1> DEFINE new == Merge(objs, s)
<1>1. objs \in Objects /\ s.objects \in Objects
  BY DEF Sound
<1>2. \A b \in Buckets, k \in Keys :
         new[b][k] = IF HasKey(s.objects[b][k]) THEN s.objects[b][k] ELSE objs[b][k]
  BY DEF Merge
<1>3. new \in Objects
  BY <1>1 DEF Merge, Objects
<1>4. new = [b \in Buckets |-> [k \in Keys |-> new[b][k]]]
  BY DEF Merge
<1> HIDE DEF new
<1>5. Sound(new, m \cup s.made)
  BY <1>2, <1>3 DEF Sound
<1>6. ASSUME \A b \in Buckets, k \in Keys : HasKey(objs[b][k]) => HasKey(s.objects[b][k])
      PROVE  new = s.objects
  <2>1. \A b \in Buckets, k \in Keys : new[b][k] = s.objects[b][k]
    BY <1>2, <1>6 DEF Sound
  <2>2. \A b \in Buckets : new[b] = s.objects[b]
    BY <1>1, <1>3, <2>1 DEF Objects
  <2> QED
    BY <1>1, <1>3, <2>2 DEF Objects
<1> QED
  BY <1>5, <1>6 DEF new

-----------------------------------------------------------------------------
(* The invariant, as what it says of the log and what it says of one node. *)

LogInv ==
  /\ log \in Seq(RaftOps) /\ canon \in Seq(Objects)
  /\ Len(canon) = Len(log) + 1
  /\ \A i \in 1..Len(log) : canon[i + 1] = ApplyOp(canon[i], log[i])
  /\ \A i \in 1..Len(canon) : Sound(canon[i], Buckets)

NodeInv(n) ==
  /\ index[n] \in 0..Len(log) /\ snap[n].index \in 0..Len(log) /\ taken[n] \subseteq 0..Len(log)
  /\ Sound(objects[n], made[n])
  /\ Sound(snap[n].objects, snap[n].made)
  /\ clean[n] => objects[n] = canon[index[n] + 1]
  /\ snap[n].clean => snap[n].objects = canon[snap[n].index + 1]

NodeTypes ==
  /\ index \in [Nodes -> Nat]
  /\ cache \in [Nodes -> SUBSET Buckets] /\ made \in [Nodes -> SUBSET Buckets]
  /\ objects \in [Nodes -> Objects]
  /\ taken \in [Nodes -> SUBSET Nat]
  /\ snap \in [Nodes -> Snapshots]
  /\ up \in [Nodes -> BOOLEAN] /\ clean \in [Nodes -> BOOLEAN]

LEMMA InvParts == ReplicationInv <=> LogInv /\ NodeTypes /\ \A n \in Nodes : NodeInv(n)
BY DEF ReplicationInv, LogInv, NodeTypes, NodeInv, ReplicationTypeOK, SnapshotsSound,
       CleanFollowsLog

LEMMA InvPartsNext ==
  ASSUME LogInv', NodeTypes', \A n \in Nodes : NodeInv(n)'
  PROVE  ReplicationInv'
BY DEF ReplicationInv, LogInv, NodeTypes, NodeInv, ReplicationTypeOK, SnapshotsSound,
       CleanFollowsLog

\* A step of one node, which leaves the log and what the others have alone.
LEMMA NodeStep ==
  ASSUME ReplicationInv, NEW n \in Nodes, UNCHANGED <<log, canon>>, NodeTypes', NodeInv(n)',
         \A m \in Nodes \ {n} :
            UNCHANGED <<index[m], made[m], objects[m], taken[m], snap[m], clean[m]>>
  PROVE  ReplicationInv'
<1>1. LogInv /\ \A m \in Nodes : NodeInv(m)
  BY InvParts
<1>2. LogInv'
  BY <1>1 DEF LogInv
<1>3. ASSUME NEW m \in Nodes PROVE NodeInv(m)'
  <2>1. CASE m = n
    BY <2>1
  <2>2. CASE m # n
    <3>1. NodeInv(m)
      BY <1>1
    <3>2. UNCHANGED <<index[m], made[m], objects[m], taken[m], snap[m], clean[m]>>
      BY <2>2
    <3> QED
      BY <3>1, <3>2 DEF NodeInv
  <2> QED
    BY <2>1, <2>2
<1> QED
  BY <1>2, <1>3, InvPartsNext

\* Before the first entry.
LEMMA InitInv == Init => ReplicationInv
<1> SUFFICES ASSUME Init PROVE ReplicationInv
  OBVIOUS
<1>1. noObjects \in Objects /\ \A m : Sound(noObjects, m)
  BY NoObjectsSound DEF Sound
<1>2. noSnapshot \in Snapshots
  BY <1>1 DEF noSnapshot, Snapshots
<1>3. LogInv
  <2>1. log = <<>> /\ canon = <<noObjects>>
    BY DEF Init
  <2> QED
    BY <1>1, <2>1 DEF LogInv
<1>4. NodeTypes
  BY <1>1, <1>2 DEF NodeTypes, Init
<1>5. ASSUME NEW n \in Nodes PROVE NodeInv(n)
  <2>1. /\ log = <<>> /\ canon = <<noObjects>> /\ index[n] = 0 /\ objects[n] = noObjects
        /\ taken[n] = {} /\ snap[n] = noSnapshot
    BY DEF Init
  <2>2. snap[n].index = 0 /\ snap[n].objects = noObjects
    BY <2>1 DEF noSnapshot
  <2> QED
    BY <1>1, <2>1, <2>2 DEF NodeInv
<1> QED
  BY <1>3, <1>4, <1>5, InvParts

\* An entry is committed (RaftNode.Apply).
LEMMA SubmitInv ==
  ASSUME ReplicationInv, NEW n \in Nodes, NEW op \in RaftOps, Submit(n, op)
  PROVE  ReplicationInv'
<1> DEFINE last == canon[Len(canon)]
           new  == ApplyOp(last, op)
<1>1. LogInv /\ NodeTypes /\ \A m \in Nodes : NodeInv(m)
  BY InvParts
<1>2. Len(log) \in Nat /\ Len(canon) = Len(log) + 1 /\ log \in Seq(RaftOps) /\ canon \in Seq(Objects)
  BY <1>1 DEF LogInv
<1>3. Sound(last, Buckets)
  BY <1>1, <1>2 DEF LogInv
<1>4. Sound(new, Buckets)
  <2>1. op.kind = "put_object" => op.b \in Buckets /\ last[op.b][op.k].nextID <= MaxID
    BY OpFacts DEF Submit
  <2> HIDE DEF last
  <2> QED
    BY <1>3, <2>1, ApplyOpSound
<1>5. log' = Append(log, op) /\ canon' = Append(canon, new)
  BY DEF Submit
<1>6. UNCHANGED <<index, store, taken, snap, up, clean>>
  BY DEF Submit
<1> HIDE DEF new, last
<1>7. /\ log' \in Seq(RaftOps) /\ Len(log') = Len(log) + 1
      /\ \A i \in 1..Len(log) : log'[i] = log[i]
      /\ log'[Len(log) + 1] = op
  BY <1>2, <1>5, AppendProperties
<1>8. new \in Objects
  BY <1>4 DEF Sound
<1>9. /\ canon' \in Seq(Objects) /\ Len(canon') = Len(canon) + 1
      /\ \A i \in 1..Len(canon) : canon'[i] = canon[i]
      /\ canon'[Len(canon) + 1] = new
  BY <1>2, <1>5, <1>8, AppendProperties
<1>10. LogInv'
  <2>1. ASSUME NEW i \in 1..Len(log') PROVE canon'[i + 1] = ApplyOp(canon'[i], log'[i])
    <3>1. CASE i \in 1..Len(log)
      <4>1. canon[i + 1] = ApplyOp(canon[i], log[i])
        BY <1>1, <3>1 DEF LogInv
      <4>2. canon'[i] = canon[i] /\ canon'[i + 1] = canon[i + 1] /\ log'[i] = log[i]
        BY <1>2, <1>7, <1>9, <3>1
      <4> QED
        BY <4>1, <4>2
    <3>2. CASE i = Len(log) + 1
      <4>1. canon'[i] = last /\ canon'[i + 1] = new /\ log'[i] = op
        BY <1>2, <1>7, <1>9, <3>2 DEF last
      <4> QED
        BY <4>1 DEF new
    <3> QED
      BY <1>2, <1>7, <3>1, <3>2
  <2>2. \A i \in 1..Len(canon') : Sound(canon'[i], Buckets)
    <3>1. \A i \in 1..Len(canon) : Sound(canon[i], Buckets)
      BY <1>1 DEF LogInv
    <3> QED
      BY <1>2, <1>4, <1>9, <3>1
  <2> QED
    BY <1>2, <1>7, <1>9, <2>1, <2>2 DEF LogInv
<1>11. NodeTypes'
  BY <1>1, <1>6 DEF NodeTypes, store
<1>12. ASSUME NEW m \in Nodes PROVE NodeInv(m)'
  <2>1. NodeInv(m)
    BY <1>1
  <2>2. /\ index'[m] = index[m] /\ snap'[m] = snap[m] /\ taken'[m] = taken[m]
        /\ objects'[m] = objects[m] /\ made'[m] = made[m] /\ clean'[m] = clean[m]
    BY <1>6 DEF store
  <2>3. index[m] \in 0..Len(log) /\ snap[m].index \in 0..Len(log)
    BY <2>1 DEF NodeInv
  <2>4. /\ canon'[index[m] + 1] = canon[index[m] + 1]
        /\ canon'[snap[m].index + 1] = canon[snap[m].index + 1]
    BY <1>2, <1>9, <2>3, SMTT(30)
  <2>5. 0..Len(log) \subseteq 0..Len(log')
    BY <1>2, <1>7
  <2> QED
    BY <2>1, <2>2, <2>4, <2>5 DEF NodeInv
<1> QED
  BY <1>10, <1>11, <1>12, InvPartsNext

-----------------------------------------------------------------------------
(* The steps of the nodes. *)

\* What the invariant says of the entry a node is about to apply.
LEMMA NextOpFacts ==
  ASSUME ReplicationInv, NEW n \in Nodes, HasNext(n)
  PROVE  /\ NextOp(n) \in RaftOps
         /\ index[n] \in Nat /\ index[n] + 1 \in 0..Len(log)
         /\ canon[index[n] + 2] = ApplyOp(canon[index[n] + 1], NextOp(n))
<1>1. LogInv /\ NodeInv(n)
  BY InvParts
<1>2. Len(log) \in Nat /\ log \in Seq(RaftOps)
  BY <1>1 DEF LogInv
<1>3. index[n] \in 0..Len(log) /\ index[n] < Len(log)
  BY <1>1 DEF NodeInv, HasNext
<1>4. index[n] \in Nat /\ index[n] + 1 \in 1..Len(log) /\ (index[n] + 1) + 1 = index[n] + 2
  BY <1>2, <1>3
<1>5. canon[(index[n] + 1) + 1] = ApplyOp(canon[index[n] + 1], log[index[n] + 1])
  BY <1>1, <1>4 DEF LogInv
<1>6. log[index[n] + 1] \in RaftOps
  BY <1>2, <1>4, ElementOfSeq
<1> QED
  BY <1>2, <1>4, <1>5, <1>6 DEF NextOp

\* The FSM applies an entry.
LEMMA FsmApplyInv ==
  ASSUME ReplicationInv, NEW n \in Nodes, FsmApply(n)
  PROVE  ReplicationInv'
<1> DEFINE op  == NextOp(n)
           new == ApplyOp(objects[n], op)
<1>1. LogInv /\ NodeTypes /\ NodeInv(n)
  BY InvParts
<1>2. HasNext(n)
  BY DEF FsmApply
<1>3. /\ op \in RaftOps
      /\ index[n] \in Nat /\ index[n] + 1 \in 0..Len(log)
      /\ canon[index[n] + 2] = ApplyOp(canon[index[n] + 1], op)
  BY <1>2, NextOpFacts
<1>4. op.kind = "put_object" => op.b \in made[n] /\ objects[n][op.b][op.k].nextID <= MaxID
  BY DEF FsmApply
<1>5. /\ objects' = [objects EXCEPT ![n] = new]
      /\ index' = [index EXCEPT ![n] = @ + 1]
      /\ UNCHANGED <<log, canon, cache, made, taken, snap, up, clean>>
  BY DEF FsmApply
<1> HIDE DEF op
<1>6. Sound(objects[n], made[n])
  BY <1>1 DEF NodeInv
<1>7. Sound(new, made[n])
  BY <1>3, <1>4, <1>6, ApplyOpSound
<1>8. new \in Objects
  BY <1>7 DEF Sound
<1>9. clean[n] => new = canon[index[n] + 2]
  BY <1>1, <1>3 DEF NodeInv
<1> HIDE DEF new
<1>10. NodeTypes'
  BY <1>1, <1>3, <1>5, <1>8 DEF NodeTypes
<1>11. /\ objects'[n] = new /\ index'[n] = index[n] + 1 /\ index[n] + 1 + 1 = index[n] + 2
       /\ snap'[n] = snap[n] /\ taken'[n] = taken[n] /\ made'[n] = made[n] /\ clean'[n] = clean[n]
  BY <1>1, <1>3, <1>5 DEF NodeTypes
<1>12. NodeInv(n)'
  BY <1>1, <1>3, <1>5, <1>7, <1>9, <1>11 DEF NodeInv
<1>13. \A m \in Nodes \ {n} :
          UNCHANGED <<index[m], made[m], objects[m], taken[m], snap[m], clean[m]>>
  BY <1>1, <1>5 DEF NodeTypes
<1> QED
  BY <1>5, <1>10, <1>12, <1>13, NodeStep

\* The FSM refuses an entry, or ends the process.
LEMMA FsmFailsInv ==
  ASSUME ReplicationInv, NEW n \in Nodes, FsmRefuse(n) \/ FsmPanic(n)
  PROVE  ReplicationInv'
<1>1. LogInv /\ NodeTypes /\ NodeInv(n)
  BY InvParts
<1>2. CASE FsmRefuse(n)
  <2>1. HasNext(n)
    BY <1>2 DEF FsmRefuse
  <2>2. index[n] \in Nat /\ index[n] + 1 \in 0..Len(log)
    BY <2>1, NextOpFacts
  <2>3. /\ index' = [index EXCEPT ![n] = @ + 1] /\ clean' = [clean EXCEPT ![n] = FALSE]
        /\ UNCHANGED <<log, canon, cache, made, objects, taken, snap, up>>
    BY <1>2 DEF FsmRefuse, store
  <2>4. NodeTypes'
    BY <1>1, <2>2, <2>3 DEF NodeTypes
  <2>5. index'[n] = index[n] + 1 /\ clean'[n] = FALSE
    BY <1>1, <2>3 DEF NodeTypes
  <2>6. NodeInv(n)'
    BY <1>1, <2>2, <2>3, <2>5 DEF NodeInv
  <2>7. \A m \in Nodes \ {n} :
           UNCHANGED <<index[m], made[m], objects[m], taken[m], snap[m], clean[m]>>
    BY <1>1, <2>3 DEF NodeTypes
  <2> QED
    BY <2>3, <2>4, <2>6, <2>7, NodeStep
<1>3. CASE FsmPanic(n)
  <2>1. /\ up' = [up EXCEPT ![n] = FALSE]
        /\ UNCHANGED <<log, canon, index, cache, made, objects, taken, snap, clean>>
    BY <1>3 DEF FsmPanic, store
  <2>2. NodeTypes'
    BY <1>1, <2>1 DEF NodeTypes
  <2>3. NodeInv(n)'
    BY <1>1, <2>1 DEF NodeInv
  <2> QED
    BY <2>1, <2>2, <2>3, NodeStep
<1> QED
  BY <1>2, <1>3

\* A delete marker, made on one node only.
LEMMA DeleteMarkInv ==
  ASSUME ReplicationInv, NEW n \in Nodes, NEW b \in Buckets, NEW k \in Keys, DeleteMark(n, b, k)
  PROVE  ReplicationInv'
<1> DEFINE vs  == AppendVersion(objects[n][b][k], NoSha)
           new == [objects[n] EXCEPT ![b][k] = vs]
<1>1. LogInv /\ NodeTypes /\ NodeInv(n)
  BY InvParts
<1>2. /\ HasKey(objects[n][b][k]) /\ objects[n][b][k].nextID <= MaxID
      /\ objects' = [objects EXCEPT ![n] = new]
      /\ clean' = [clean EXCEPT ![n] = FALSE]
      /\ UNCHANGED <<log, canon, index, cache, made, taken, snap, up>>
  BY DEF DeleteMark
<1>3. Sound(objects[n], made[n])
  BY <1>1 DEF NodeInv
<1>4. objects[n][b][k] \in VersionStates /\ Ordered(objects[n][b][k]) /\ b \in made[n]
  BY <1>2, <1>3 DEF Sound, Objects
<1>5. vs \in VersionStates /\ Ordered(vs) /\ HasKey(vs)
  BY <1>2, <1>4, AppendVersionFacts, KeyOfAppend
<1> HIDE DEF vs
<1>6. Sound(new, made[n])
  BY <1>3, <1>4, <1>5, SoundUpdate
<1>7. new \in Objects
  BY <1>6 DEF Sound
<1> HIDE DEF new
<1>8. NodeTypes'
  BY <1>1, <1>2, <1>7 DEF NodeTypes
<1>9. objects'[n] = new /\ clean'[n] = FALSE
  BY <1>1, <1>2 DEF NodeTypes
<1>10. NodeInv(n)'
  BY <1>1, <1>2, <1>6, <1>9 DEF NodeInv
<1>11. \A m \in Nodes \ {n} :
          UNCHANGED <<index[m], made[m], objects[m], taken[m], snap[m], clean[m]>>
  BY <1>1, <1>2 DEF NodeTypes
<1> QED
  BY <1>2, <1>8, <1>10, <1>11, NodeStep

\* A bucket is created or deleted on one node.
LEMMA BucketInv ==
  ASSUME ReplicationInv, NEW n \in Nodes, NEW b \in Buckets,
         CreateBucket(n, b) \/ DeleteBucket(n, b)
  PROVE  ReplicationInv'
<1> DEFINE new == [objects[n] EXCEPT ![b] = noObjects[b]]
<1>1. LogInv /\ NodeTypes /\ NodeInv(n)
  BY InvParts
<1>2. /\ objects' = [objects EXCEPT ![n] = new]
      /\ clean' = [clean EXCEPT ![n] = @ /\ NoKeys(n, b)]
      /\ UNCHANGED <<log, canon, index, taken, snap, up>>
  BY DEF CreateBucket, DeleteBucket
<1>3. PICK maps \in SUBSET Buckets :
         made' = [made EXCEPT ![n] = maps] /\ made[n] \ {b} \subseteq maps
  <2>1. made[n] \subseteq Buckets
    BY <1>1 DEF NodeTypes
  <2>2. CASE CreateBucket(n, b)
    BY <2>1, <2>2 DEF CreateBucket
  <2>3. CASE DeleteBucket(n, b)
    BY <2>1, <2>3 DEF DeleteBucket
  <2> QED
    BY <2>2, <2>3
<1>4. cache' \in [Nodes -> SUBSET Buckets]
  <2>1. cache \in [Nodes -> SUBSET Buckets]
    BY <1>1 DEF NodeTypes
  <2>2. CASE CreateBucket(n, b)
    BY <2>1, <2>2 DEF CreateBucket
  <2>3. CASE DeleteBucket(n, b)
    BY <2>1, <2>3 DEF DeleteBucket
  <2> QED
    BY <2>2, <2>3
<1>5. Sound(objects[n], made[n])
  BY <1>1 DEF NodeInv
<1>6. Sound(new, maps) /\ (NoKeys(n, b) => new = objects[n])
  BY <1>3, <1>5, SoundWithout DEF NoKeys
<1>7. new \in Objects
  BY <1>6 DEF Sound
<1> HIDE DEF new
<1>8. objects'[n] = new /\ made'[n] = maps /\ clean'[n] = (clean[n] /\ NoKeys(n, b))
  BY <1>1, <1>2, <1>3 DEF NodeTypes
<1>9. clean' \in [Nodes -> BOOLEAN]
  <2>1. (clean[n] /\ NoKeys(n, b)) \in BOOLEAN
    BY Zenon
  <2> QED
    BY <1>1, <1>2, <2>1 DEF NodeTypes
<1>10. NodeTypes'
  BY <1>1, <1>2, <1>3, <1>4, <1>7, <1>9 DEF NodeTypes
<1>11. NodeInv(n)'
  BY <1>1, <1>2, <1>6, <1>8 DEF NodeInv
<1>12. \A m \in Nodes \ {n} :
          UNCHANGED <<index[m], made[m], objects[m], taken[m], snap[m], clean[m]>>
  BY <1>1, <1>2, <1>3 DEF NodeTypes
<1> QED
  BY <1>2, <1>10, <1>11, <1>12, NodeStep

\* Raft takes a snapshot and, later, the FSM writes it.
LEMMA SnapshotInv ==
  ASSUME ReplicationInv, NEW n \in Nodes, Snapshot(n) \/ Persist(n)
  PROVE  ReplicationInv'
<1>1. LogInv /\ NodeTypes /\ NodeInv(n)
  BY InvParts
<1>2. CASE Snapshot(n)
  <2>1. /\ taken' = [taken EXCEPT ![n] = {index[n]}]
        /\ UNCHANGED <<log, canon, index, cache, made, objects, snap, up, clean>>
    BY <1>2 DEF Snapshot, store
  <2>2. NodeTypes'
    BY <1>1, <2>1 DEF NodeTypes
  <2>3. taken'[n] = {index[n]}
    BY <1>1, <2>1 DEF NodeTypes
  <2>4. NodeInv(n)'
    BY <1>1, <2>1, <2>3 DEF NodeInv
  <2>5. \A m \in Nodes \ {n} :
           UNCHANGED <<index[m], made[m], objects[m], taken[m], snap[m], clean[m]>>
    BY <1>1, <2>1 DEF NodeTypes
  <2> QED
    BY <2>1, <2>2, <2>4, <2>5, NodeStep
<1>3. CASE Persist(n)
  <2>1. /\ taken' = [taken EXCEPT ![n] = {}]
        /\ UNCHANGED <<log, canon, index, cache, made, objects, up, clean>>
    BY <1>3 DEF Persist, store
  <2>2. PICK i \in taken[n] :
           snap' = IF i < snap[n].index THEN snap
                   ELSE [snap EXCEPT ![n] =
                           [index |-> i, made |-> made[n], objects |-> objects[n],
                            clean |-> clean[n] /\ index[n] = i]]
    BY <1>3 DEF Persist
  <2>3. taken'[n] = {}
    BY <1>1, <2>1 DEF NodeTypes
  <2>4. CASE i < snap[n].index
    <3>1. snap' = snap
      BY <2>2, <2>4
    <3>2. NodeTypes'
      BY <1>1, <2>1, <3>1 DEF NodeTypes
    <3>3. NodeInv(n)'
      BY <1>1, <2>1, <2>3, <3>1 DEF NodeInv
    <3>4. \A m \in Nodes \ {n} :
             UNCHANGED <<index[m], made[m], objects[m], taken[m], snap[m], clean[m]>>
      BY <1>1, <2>1, <3>1 DEF NodeTypes
    <3> QED
      BY <2>1, <3>2, <3>3, <3>4, NodeStep
  <2>5. CASE ~ (i < snap[n].index)
    <3> DEFINE same == clean[n] /\ index[n] = i
               s == [index |-> i, made |-> made[n], objects |-> objects[n], clean |-> same]
    <3>1. snap' = [snap EXCEPT ![n] = s]
      BY <2>2, <2>5
    <3>2. same \in BOOLEAN
      BY Zenon
    <3>3. same => clean[n] /\ index[n] = i
      OBVIOUS
    <3> HIDE DEF same
    <3>4. i \in Nat /\ i \in 0..Len(log)
      BY <1>1 DEF NodeTypes, NodeInv
    <3>5. made[n] \in SUBSET Buckets /\ objects[n] \in Objects
      BY <1>1 DEF NodeTypes
    <3>6. s \in Snapshots
      BY <3>2, <3>4, <3>5 DEF Snapshots
    <3>7. s.index = i /\ s.made = made[n] /\ s.objects = objects[n] /\ s.clean = same
      OBVIOUS
    <3> HIDE DEF s
    <3>8. NodeTypes'
      BY <1>1, <2>1, <3>1, <3>6 DEF NodeTypes
    <3>9. snap'[n] = s
      BY <1>1, <3>1 DEF NodeTypes
    <3>10. NodeInv(n)'
      BY <1>1, <2>1, <2>3, <3>3, <3>4, <3>7, <3>9 DEF NodeInv
    <3>11. \A m \in Nodes \ {n} :
              UNCHANGED <<index[m], made[m], objects[m], taken[m], snap[m], clean[m]>>
      BY <1>1, <2>1, <3>1 DEF NodeTypes
    <3> QED
      BY <2>1, <3>8, <3>10, <3>11, NodeStep
  <2> QED
    BY <2>4, <2>5
<1> QED
  BY <1>2, <1>3

\* A node is sent another one's snapshot.
LEMMA InstallSnapshotInv ==
  ASSUME ReplicationInv, NEW m \in Nodes, NEW n \in Nodes, InstallSnapshot(m, n)
  PROVE  ReplicationInv'
<1> DEFINE s    == snap[m]
           all  == \A b \in Buckets, k \in Keys :
                      HasKey(objects[n][b][k]) => HasKey(s.objects[b][k])
           new  == Merge(objects[n], s)
           same == s.clean /\ all
<1>1. LogInv /\ NodeTypes /\ NodeInv(n) /\ NodeInv(m)
  BY InvParts
<1>2. s \in Snapshots
  BY <1>1 DEF NodeTypes
<1>3. s.index \in Nat /\ s.made \in SUBSET Buckets
  BY <1>2 DEF Snapshots
<1>4. s.index \in 0..Len(log) /\ Sound(s.objects, s.made) /\ (s.clean => s.objects = canon[s.index + 1])
  BY <1>1 DEF NodeInv
<1>5. Sound(objects[n], made[n])
  BY <1>1 DEF NodeInv
<1>6. /\ objects' = [objects EXCEPT ![n] = new]
      /\ made' = [made EXCEPT ![n] = @ \cup s.made]
      /\ index' = [index EXCEPT ![n] = s.index]
      /\ snap' = [snap EXCEPT ![n] = s]
      /\ clean' = [clean EXCEPT ![n] = same]
      /\ UNCHANGED <<log, canon, cache, taken, up>>
  BY DEF InstallSnapshot
<1>7. Sound(new, made[n] \cup s.made) /\ (all => new = s.objects)
  BY <1>4, <1>5, MergeSound
<1>8. same \in BOOLEAN /\ (same => s.clean /\ all)
  BY Zenon
<1>9. new \in Objects
  BY <1>7 DEF Sound
<1> HIDE DEF s, all, new, same
<1>10. NodeTypes'
  BY <1>1, <1>2, <1>3, <1>6, <1>8, <1>9 DEF NodeTypes
<1>11. /\ objects'[n] = new /\ made'[n] = made[n] \cup s.made /\ index'[n] = s.index
       /\ snap'[n] = s /\ clean'[n] = same /\ taken'[n] = taken[n]
  BY <1>1, <1>6 DEF NodeTypes
<1>12. NodeInv(n)'
  BY <1>1, <1>4, <1>6, <1>7, <1>8, <1>11 DEF NodeInv
<1>13. \A o \in Nodes \ {n} :
          UNCHANGED <<index[o], made[o], objects[o], taken[o], snap[o], clean[o]>>
  BY <1>1, <1>6 DEF NodeTypes
<1> QED
  BY <1>6, <1>10, <1>12, <1>13, NodeStep

\* A process ends and starts again.
LEMMA RestartInv ==
  ASSUME ReplicationInv, NEW n \in Nodes, Restart(n)
  PROVE  ReplicationInv'
<1> DEFINE s == snap[n]
<1>1. LogInv /\ NodeTypes /\ NodeInv(n)
  BY InvParts
<1>2. s \in Snapshots
  BY <1>1 DEF NodeTypes
<1>3. s.index \in Nat /\ s.made \in SUBSET Buckets /\ s.objects \in Objects /\ s.clean \in BOOLEAN
  BY <1>2 DEF Snapshots
<1>4. /\ made' = [made EXCEPT ![n] = s.made] /\ objects' = [objects EXCEPT ![n] = s.objects]
      /\ index' = [index EXCEPT ![n] = s.index] /\ clean' = [clean EXCEPT ![n] = s.clean]
      /\ taken' = [taken EXCEPT ![n] = {}] /\ up' = [up EXCEPT ![n] = TRUE]
      /\ UNCHANGED <<log, canon, cache, snap>>
  BY DEF Restart
<1>5. /\ s.index \in 0..Len(log) /\ Sound(s.objects, s.made)
      /\ s.clean => s.objects = canon[s.index + 1]
  BY <1>1 DEF NodeInv
<1>6. snap'[n] = s
  BY <1>4
<1> HIDE DEF s
<1>7. NodeTypes'
  BY <1>1, <1>3, <1>4 DEF NodeTypes
<1>8. /\ objects'[n] = s.objects /\ made'[n] = s.made /\ index'[n] = s.index
      /\ clean'[n] = s.clean /\ taken'[n] = {}
  BY <1>1, <1>4 DEF NodeTypes
<1>9. NodeInv(n)'
  BY <1>4, <1>5, <1>6, <1>8 DEF NodeInv
<1>10. \A m \in Nodes \ {n} :
          UNCHANGED <<index[m], made[m], objects[m], taken[m], snap[m], clean[m]>>
  BY <1>1, <1>4 DEF NodeTypes
<1> QED
  BY <1>4, <1>7, <1>9, <1>10, NodeStep

\* No step leaves the invariant.
LEMMA NextInv == ReplicationInv /\ [Next]_vars => ReplicationInv'
<1> SUFFICES ASSUME ReplicationInv, [Next]_vars PROVE ReplicationInv'
  OBVIOUS
<1>1. ASSUME NEW n \in Nodes, NEW op \in RaftOps, Submit(n, op) PROVE ReplicationInv'
  BY <1>1, SubmitInv
<1>2. ASSUME NEW n \in Nodes, FsmApply(n) \/ FsmRefuse(n) \/ FsmPanic(n) PROVE ReplicationInv'
  BY <1>2, FsmApplyInv, FsmFailsInv
<1>3. ASSUME NEW n \in Nodes, NEW b \in Buckets, NEW k \in Keys, DeleteMark(n, b, k)
      PROVE  ReplicationInv'
  BY <1>3, DeleteMarkInv
<1>4. ASSUME NEW n \in Nodes, NEW b \in Buckets, CreateBucket(n, b) \/ DeleteBucket(n, b)
      PROVE  ReplicationInv'
  BY <1>4, BucketInv
<1>5. ASSUME NEW n \in Nodes, Snapshot(n) \/ Persist(n) \/ Restart(n) PROVE ReplicationInv'
  BY <1>5, SnapshotInv, RestartInv
<1>6. ASSUME NEW m \in Nodes, NEW n \in Nodes, InstallSnapshot(m, n) PROVE ReplicationInv'
  BY <1>6, InstallSnapshotInv
<1>7. CASE UNCHANGED vars
  BY <1>7 DEF vars, store, ReplicationInv, ReplicationTypeOK, SnapshotsSound, CleanFollowsLog
<1> QED
  BY <1>1, <1>2, <1>3, <1>4, <1>5, <1>6, <1>7 DEF Next

-----------------------------------------------------------------------------
(* The theorems. *)

\* The history of the log, the bounds on every node's position and the soundness
\* of its metadata and of its snapshot hold in every reachable state (fsm.go:
\* Apply, Snapshot, Persist, Restore; meta.go: Restore).
THEOREM ReplicationInductive == Spec => []ReplicationInv
BY InitInv, NextInv, PTL DEF Spec

\* Every variable has its type.
THEOREM ReplicationTypeCorrect == Spec => []ReplicationTypeOK
<1>1. ReplicationInv => ReplicationTypeOK
  BY DEF ReplicationInv
<1> QED
  BY <1>1, ReplicationInductive, PTL

\* A node that did nothing outside the log, and a snapshot of one, holds exactly
\* what the entries up to its index give, after any restarts, replays and
\* installed snapshots (fsm.go: Apply, Restore; store.go: ApplyOp).
THEOREM CleanNodesFollowLog == Spec => []CleanFollowsLog
<1>1. ReplicationInv => CleanFollowsLog
  BY DEF ReplicationInv
<1> QED
  BY <1>1, ReplicationInductive, PTL

\* Every snapshot on a disk is well-formed, the ones written late and those of
\* nodes that have diverged too (fsm.go: Persist; meta.go: Restore).
THEOREM SnapshotsRestorable == Spec => []SnapshotsSound
<1>1. ReplicationInv => SnapshotsSound
  BY DEF ReplicationInv
<1> QED
  BY <1>1, ReplicationInductive, PTL

-----------------------------------------------------------------------------
(* Replication implements MetadataLog. *)

SavedAt == [n \in Nodes |-> snap[n].index]
SavedOn == [n \in Nodes |-> snap[n].clean]

\* No snapshot, written or under way, is ahead of its node.
IndexInv == \A n \in Nodes : \A i \in {snap[n].index} \cup taken[n] : i <= index[n]

LEMMA IndexInit == Init => IndexInv
BY DEF Init, IndexInv, noSnapshot

LEMMA IndexNext ==
  ASSUME ReplicationInv, IndexInv, [Next]_vars
  PROVE  IndexInv'
<1>1. /\ index \in [Nodes -> Nat] /\ taken \in [Nodes -> SUBSET Nat]
      /\ snap \in [Nodes -> Snapshots] /\ \A n \in Nodes : snap[n].index \in Nat
  BY DEF ReplicationInv, ReplicationTypeOK, Snapshots
<1>2. ASSUME NEW n \in Nodes,
             \A m \in Nodes \ {n} : UNCHANGED <<index[m], taken[m], snap[m]>>,
             \A i \in {snap'[n].index} \cup taken'[n] : i <= index'[n]
      PROVE  IndexInv'
  BY <1>2 DEF IndexInv
<1>3. UNCHANGED <<index, taken, snap>> => IndexInv'
  BY DEF IndexInv
<1>4. ASSUME NEW n \in Nodes, FsmApply(n) \/ FsmRefuse(n) PROVE IndexInv'
  <2>1. index' = [index EXCEPT ![n] = index[n] + 1] /\ UNCHANGED <<taken, snap>>
    BY <1>4 DEF FsmApply, FsmRefuse
  <2>2. index'[n] = index[n] + 1 /\ \A m \in Nodes \ {n} : index'[m] = index[m]
    BY <1>1, <2>1
  <2>3. \A i \in {snap[n].index} \cup taken[n] : i \in Nat /\ i <= index[n]
    BY <1>1 DEF IndexInv
  <2> QED
    BY <1>1, <1>2, <2>1, <2>2, <2>3
<1>5. ASSUME NEW n \in Nodes, Snapshot(n) PROVE IndexInv'
  <2>1. taken' = [taken EXCEPT ![n] = {index[n]}] /\ UNCHANGED <<index, snap>>
    BY <1>5 DEF Snapshot
  <2>2. taken'[n] = {index[n]} /\ \A m \in Nodes \ {n} : taken'[m] = taken[m]
    BY <1>1, <2>1
  <2> QED
    BY <1>1, <1>2, <2>1, <2>2 DEF IndexInv
<1>6. ASSUME NEW n \in Nodes, Persist(n) PROVE IndexInv'
  <2>1. PICK i \in taken[n] :
          snap' = IF i < snap[n].index THEN snap
                  ELSE [snap EXCEPT ![n] =
                          [index |-> i, made |-> made[n], objects |-> objects[n],
                           clean |-> clean[n] /\ index[n] = i]]
    BY <1>6 DEF Persist
  <2>2. taken' = [taken EXCEPT ![n] = {}] /\ UNCHANGED index
    BY <1>6 DEF Persist
  <2>3. taken'[n] = {} /\ \A m \in Nodes \ {n} : taken'[m] = taken[m] /\ snap'[m] = snap[m]
    BY <1>1, <2>1, <2>2
  <2>4. snap'[n].index \in {i, snap[n].index}
    BY <1>1, <2>1
  <2>5. i <= index[n] /\ snap[n].index <= index[n]
    BY DEF IndexInv
  <2> QED
    BY <1>2, <2>2, <2>3, <2>4, <2>5
<1>7. ASSUME NEW m \in Nodes, NEW n \in Nodes, InstallSnapshot(m, n) PROVE IndexInv'
  <2>1. /\ snap[m].index > index[n] /\ index' = [index EXCEPT ![n] = snap[m].index]
        /\ snap' = [snap EXCEPT ![n] = snap[m]] /\ UNCHANGED taken
    BY <1>7 DEF InstallSnapshot
  <2>2. /\ index'[n] = snap[m].index /\ snap'[n] = snap[m]
        /\ \A q \in Nodes \ {n} : index'[q] = index[q] /\ snap'[q] = snap[q]
    BY <1>1, <2>1
  <2>3. \A i \in taken[n] : i \in Nat /\ i <= index[n]
    BY <1>1 DEF IndexInv
  <2> QED
    BY <1>1, <1>2, <2>1, <2>2, <2>3
<1>8. ASSUME NEW n \in Nodes, Restart(n) PROVE IndexInv'
  <2>1. /\ index' = [index EXCEPT ![n] = snap[n].index]
        /\ taken' = [taken EXCEPT ![n] = {}] /\ UNCHANGED snap
    BY <1>8 DEF Restart
  <2>2. /\ index'[n] = snap[n].index /\ taken'[n] = {}
        /\ \A q \in Nodes \ {n} : index'[q] = index[q] /\ taken'[q] = taken[q]
    BY <1>1, <2>1
  <2> QED
    BY <1>1, <1>2, <2>1, <2>2
<1>9. ASSUME NEW n \in Nodes, FsmPanic(n) \/ \E op \in RaftOps : Submit(n, op) PROVE IndexInv'
  BY <1>3, <1>9 DEF FsmPanic, Submit
<1>10. ASSUME NEW n \in Nodes, NEW b \in Buckets,
              CreateBucket(n, b) \/ DeleteBucket(n, b) \/ \E k \in Keys : DeleteMark(n, b, k)
       PROVE  IndexInv'
  BY <1>3, <1>10 DEF CreateBucket, DeleteBucket, DeleteMark
<1>11. CASE UNCHANGED vars
  BY <1>3, <1>11 DEF vars
<1> QED
  BY <1>4, <1>5, <1>6, <1>7, <1>8, <1>9, <1>10, <1>11 DEF Next

\* The instance works on the same operations.
LEMMA LogOperators ==
  /\ Log!RaftOps = RaftOps
  /\ Log!noObjects = noObjects
  /\ \A objs, op : Log!ApplyOp(objs, op) = ApplyOp(objs, op)
<1>1. Log!RaftOps = RaftOps
  BY DEF Log!RaftOps, RaftOps
<1>2. Log!noObjects = noObjects
  BY DEF Log!noObjects, noObjects, Log!newVersionState, newVersionState
<1>3. \A vs, vid, i : Log!IsVersionAt(vs, vid, i) <=> IsVersionAt(vs, vid, i)
  BY DEF Log!IsVersionAt, IsVersionAt
<1>4. \A vs, vid : Log!HasVersion(vs, vid) <=> HasVersion(vs, vid)
  BY <1>3 DEF Log!HasVersion, HasVersion
<1>5. \A vs, sha : Log!AppendVersion(vs, sha) = AppendVersion(vs, sha)
  BY DEF Log!AppendVersion, AppendVersion
<1>6. \A vs, i : Log!RemoveVersion(vs, i) = RemoveVersion(vs, i)
  <2>1. \A s, i : Log!RemoveAt(s, i) = RemoveAt(s, i)
    BY DEF Log!RemoveAt, RemoveAt
  <2> QED
    BY <2>1 DEF Log!RemoveVersion, RemoveVersion, Log!newVersionState, newVersionState
<1>7. ASSUME NEW vs, NEW op PROVE Log!Applied(vs, op) = Applied(vs, op)
  <2> DEFINE I == CHOOSE i \in 1..Len(vs.versions) : Log!IsVersionAt(vs, op.vid, i)
             J == CHOOSE i \in 1..Len(vs.versions) : IsVersionAt(vs, op.vid, i)
  <2>1. I = J
    BY <1>3
  <2>2. Log!Applied(vs, op) =
          IF op.kind = "put_object" THEN Log!AppendVersion(vs, op.sha)
          ELSE IF Log!HasVersion(vs, op.vid) THEN Log!RemoveVersion(vs, I) ELSE vs
    BY DEF Log!Applied
  <2>3. Applied(vs, op) =
          IF op.kind = "put_object" THEN AppendVersion(vs, op.sha)
          ELSE IF HasVersion(vs, op.vid) THEN RemoveVersion(vs, J) ELSE vs
    BY DEF Applied
  <2> HIDE DEF I, J
  <2> QED
    BY <1>4, <1>5, <1>6, <2>1, <2>2, <2>3
<1>8. ASSUME NEW objs, NEW op PROVE Log!ApplyOp(objs, op) = ApplyOp(objs, op)
  BY <1>7 DEF Log!ApplyOp, ApplyOp
<1> QED
  BY <1>1, <1>2, <1>8

\* What the metadata of a node has to do, in a step that leaves the log alone.
LEMMA ShowsMaps ==
  ASSUME ReplicationInv', NEW n \in Nodes, canon' = canon,
         objects' = [objects EXCEPT ![n] = objects'[n]]
  PROVE  Log!Shows(n)
BY DEF ReplicationInv, CleanFollowsLog, Log!Shows

\* Steps that change nothing of all this.
LEMMA StutterMaps ==
  ASSUME UNCHANGED <<canon, index, objects, clean, snap>>
  PROVE  UNCHANGED Log!logVars
BY DEF Log!logVars

LEMMA NodeFacts ==
  ASSUME ReplicationInv
  PROVE  /\ index \in [Nodes -> Nat] /\ Len(log) \in Nat /\ Len(canon) = Len(log) + 1
         /\ objects \in [Nodes -> Objects] /\ clean \in [Nodes -> BOOLEAN]
         /\ snap \in [Nodes -> Snapshots]
         /\ \A n \in Nodes : snap[n].index \in Nat /\ snap[n].clean \in BOOLEAN
         /\ \A n \in Nodes : Sound(objects[n], made[n])
BY DEF ReplicationInv, ReplicationTypeOK, Snapshots

\* A commit changes the log and nothing else.
LEMMA SubmitMaps ==
  ASSUME NEW n \in Nodes, NEW op \in RaftOps, Submit(n, op)
  PROVE  Log!Commit
BY LogOperators DEF Submit, store, Log!Commit

\* One entry more.
LEMMA ApplyMaps ==
  ASSUME ReplicationInv, ReplicationInv', NEW n \in Nodes, FsmApply(n)
  PROVE  Log!Apply(n)
<1>1. /\ UNCHANGED <<canon, clean, snap>> /\ index' = [index EXCEPT ![n] = @ + 1]
      /\ HasNext(n)
  BY DEF FsmApply
<1>2. objects' = [objects EXCEPT ![n] = objects'[n]]
  <2>1. objects' = [objects EXCEPT ![n] = ApplyOp(objects[n], NextOp(n))]
    BY DEF FsmApply
  <2> QED
    BY <2>1, NodeFacts
<1>3. index[n] + 1 < Len(canon)
  BY <1>1, NodeFacts DEF HasNext
<1>4. Log!Shows(n)
  BY <1>1, <1>2, ShowsMaps
<1> QED
  BY <1>1, <1>3, <1>4 DEF Log!Apply

\* Whatever makes a node differ from the log is seen to do so.
LEMMA StrayMaps ==
  ASSUME ReplicationInv, ReplicationInv', NEW n \in Nodes, UNCHANGED <<canon, snap>>,
         \/ index' = index
         \/ index[n] + 1 < Len(canon) /\ index' = [index EXCEPT ![n] = @ + 1],
         clean' = [clean EXCEPT ![n] = FALSE],
         objects' = [objects EXCEPT ![n] = objects'[n]]
  PROVE  Log!Stray(n)
<1>1. Log!Shows(n)
  BY ShowsMaps
<1> QED
  BY <1>1 DEF Log!Stray

LEMMA RefuseMaps ==
  ASSUME ReplicationInv, ReplicationInv', NEW n \in Nodes, FsmRefuse(n)
  PROVE  Log!Stray(n)
<1>1. /\ UNCHANGED <<canon, objects, snap>> /\ index' = [index EXCEPT ![n] = @ + 1]
      /\ HasNext(n) /\ clean' = [clean EXCEPT ![n] = FALSE]
  BY DEF FsmRefuse, store
<1>2. index[n] + 1 < Len(canon) /\ objects' = [objects EXCEPT ![n] = objects'[n]]
  BY <1>1, NodeFacts DEF HasNext
<1> QED
  BY <1>1, <1>2, StrayMaps

LEMMA MarkMaps ==
  ASSUME ReplicationInv, ReplicationInv', NEW n \in Nodes, NEW b \in Buckets, NEW k \in Keys,
         DeleteMark(n, b, k)
  PROVE  Log!Stray(n)
<1>1. /\ UNCHANGED <<canon, index, snap>> /\ clean' = [clean EXCEPT ![n] = FALSE]
      /\ objects' = [objects EXCEPT ![n][b][k] = AppendVersion(@, NoSha)]
  BY DEF DeleteMark
<1>2. objects' = [objects EXCEPT ![n] = objects'[n]]
  BY <1>1, NodeFacts
<1> QED
  BY <1>1, <1>2, StrayMaps

LEMMA BucketMaps ==
  ASSUME ReplicationInv, ReplicationInv', NEW n \in Nodes, NEW b \in Buckets,
         CreateBucket(n, b) \/ DeleteBucket(n, b)
  PROVE  Log!Stray(n) \/ UNCHANGED Log!logVars
<1>1. /\ UNCHANGED <<canon, index, snap>>
      /\ clean' = [clean EXCEPT ![n] = clean[n] /\ NoKeys(n, b)]
      /\ objects' = [objects EXCEPT ![n][b] = noObjects[b]]
  BY DEF CreateBucket, DeleteBucket
<1>2. objects' = [objects EXCEPT ![n] = objects'[n]]
  BY <1>1, NodeFacts
<1>3. CASE NoKeys(n, b)
  <2>1. objects[n][b] = noObjects[b]
    <3>1. objects[n] \in Objects /\ \A k \in Keys : objects[n][b][k] = newVersionState
      BY <1>3, NodeFacts DEF NoKeys, Sound
    <3>2. objects[n][b] = [k \in Keys |-> objects[n][b][k]]
      BY <3>1 DEF Objects
    <3> QED
      BY <3>1, <3>2 DEF noObjects
  <2>2. objects' = objects
    <3>1. objects' = [objects EXCEPT ![n] = [objects[n] EXCEPT ![b] = objects[n][b]]]
      BY <1>1, <2>1
    <3>2. objects[n] \in Objects /\ objects \in [Nodes -> Objects]
      BY NodeFacts
    <3>3. [objects[n] EXCEPT ![b] = objects[n][b]] = objects[n]
      BY <3>2 DEF Objects
    <3> QED
      BY <3>1, <3>2, <3>3
  <2>3. clean' = clean
    <3>1. (clean[n] /\ NoKeys(n, b)) = clean[n]
      BY <1>3, NodeFacts
    <3> QED
      BY <1>1, <3>1, NodeFacts
  <2> QED
    BY <1>1, <2>2, <2>3, StutterMaps
<1>4. CASE ~ NoKeys(n, b)
  <2>1. clean' = [clean EXCEPT ![n] = FALSE]
    BY <1>1, <1>4
  <2> QED
    BY <1>1, <1>2, <2>1, StrayMaps
<1> QED
  BY <1>3, <1>4

\* A snapshot that is written late is noted as such, and never hides a newer one.
LEMMA PersistMaps ==
  ASSUME ReplicationInv, ReplicationInv', IndexInv, NEW n \in Nodes, Persist(n)
  PROVE  Log!Save(n) \/ UNCHANGED Log!logVars
<1>1. PICK i \in taken[n] :
        snap' = IF i < snap[n].index THEN snap
                ELSE [snap EXCEPT ![n] =
                        [index |-> i, made |-> made[n], objects |-> objects[n],
                         clean |-> clean[n] /\ index[n] = i]]
  BY DEF Persist
<1>2. UNCHANGED <<canon, index, objects, clean>>
  BY DEF Persist, store
<1>3. CASE i < snap[n].index
  BY <1>1, <1>2, <1>3, StutterMaps
<1>4. CASE ~ (i < snap[n].index)
  <2> DEFINE now == [index |-> i, made |-> made[n], objects |-> objects[n],
                     clean |-> clean[n] /\ index[n] = i]
  <2>1. snap' = [snap EXCEPT ![n] = now]
    BY <1>1, <1>4
  <2>2. now.index = i /\ now.clean = (clean[n] /\ i = index[n])
    OBVIOUS
  <2> HIDE DEF now
  <2>3. /\ SavedAt' = [SavedAt EXCEPT ![n] = i]
        /\ SavedOn' = [SavedOn EXCEPT ![n] = clean[n] /\ i = index[n]]
    BY <2>1, <2>2, NodeFacts DEF SavedAt, SavedOn
  <2>4. i \in SavedAt[n]..index[n]
    <3>1. i \in Nat /\ i <= index[n] /\ SavedAt[n] \in Nat /\ SavedAt[n] <= i
      <4>1. taken[n] \subseteq Nat /\ SavedAt[n] = snap[n].index
        BY DEF ReplicationInv, ReplicationTypeOK, SavedAt
      <4> QED
        BY <1>4, <4>1, NodeFacts DEF IndexInv
    <3>2. index[n] \in Nat
      BY NodeFacts
    <3> QED
      BY <3>1, <3>2
  <2> QED
    BY <1>2, <2>3, <2>4 DEF Log!Save, SavedAt, SavedOn
<1> QED
  BY <1>3, <1>4

\* A restart takes the node where its snapshot is.
LEMMA RestartMaps ==
  ASSUME ReplicationInv, ReplicationInv', IndexInv, NEW n \in Nodes, Restart(n)
  PROVE  Log!FallBack(n)
<1>1. /\ UNCHANGED <<canon, snap>> /\ index' = [index EXCEPT ![n] = snap[n].index]
      /\ clean' = [clean EXCEPT ![n] = snap[n].clean]
      /\ objects' = [objects EXCEPT ![n] = snap[n].objects]
  BY DEF Restart
<1>2. objects' = [objects EXCEPT ![n] = objects'[n]]
  BY <1>1, NodeFacts
<1>3. Log!Shows(n)
  BY <1>1, <1>2, ShowsMaps
<1>4. SavedAt[n] = snap[n].index /\ SavedOn[n] = snap[n].clean /\ SavedAt[n] <= index[n]
  BY DEF SavedAt, SavedOn, IndexInv
<1> QED
  BY <1>1, <1>3, <1>4 DEF Log!FallBack, SavedAt, SavedOn

\* An installed snapshot takes it further, on the log or off it.
LEMMA InstallMaps ==
  ASSUME ReplicationInv, ReplicationInv', NEW m \in Nodes, NEW n \in Nodes,
         InstallSnapshot(m, n)
  PROVE  Log!CatchUp(m, n)
<1> DEFINE Covers == \A b \in Buckets, k \in Keys :
                        HasKey(objects[n][b][k]) => HasKey(snap[m].objects[b][k])
<1>1. /\ UNCHANGED canon /\ snap[m].index > index[n]
      /\ index' = [index EXCEPT ![n] = snap[m].index]
      /\ snap' = [snap EXCEPT ![n] = snap[m]]
      /\ clean' = [clean EXCEPT ![n] = snap[m].clean /\ Covers]
      /\ objects' = [objects EXCEPT ![n] = Merge(objects[n], snap[m])]
  BY DEF InstallSnapshot
<1> HIDE DEF Covers
<1>2. objects' = [objects EXCEPT ![n] = objects'[n]]
  BY <1>1, NodeFacts
<1>3. Log!Shows(n)
  BY <1>1, <1>2, ShowsMaps
<1>4. /\ SavedAt[m] = snap[m].index /\ SavedOn[m] = snap[m].clean
      /\ SavedAt' = [SavedAt EXCEPT ![n] = SavedAt[m]]
      /\ SavedOn' = [SavedOn EXCEPT ![n] = SavedOn[m]]
  BY <1>1, NodeFacts DEF SavedAt, SavedOn
<1>5. clean' \in {[clean EXCEPT ![n] = SavedOn[m]], [clean EXCEPT ![n] = FALSE]}
  <2>1. CASE Covers
    <3>1. (snap[m].clean /\ Covers) = snap[m].clean
      BY <2>1, NodeFacts
    <3> QED
      BY <1>1, <1>4, <3>1
  <2>2. CASE ~ Covers
    BY <1>1, <2>2
  <2> QED
    BY <2>1, <2>2
<1> QED
  BY <1>1, <1>3, <1>4, <1>5 DEF Log!CatchUp, SavedAt, SavedOn

\* Every step of the nodes is a step of the log, or none.
LEMMA NextMaps ==
  ReplicationInv /\ ReplicationInv' /\ IndexInv /\ [Next]_vars
    => [Log!LogNext]_(Log!logVars)
<1> SUFFICES ASSUME ReplicationInv, ReplicationInv', IndexInv, [Next]_vars
             PROVE  Log!LogNext \/ UNCHANGED Log!logVars
  OBVIOUS
<1>1. ASSUME NEW n \in Nodes, NEW op \in RaftOps, Submit(n, op) PROVE Log!LogNext
  BY <1>1, SubmitMaps DEF Log!LogNext
<1>2. ASSUME NEW n \in Nodes, FsmApply(n) \/ FsmRefuse(n) PROVE Log!LogNext
  BY <1>2, ApplyMaps, RefuseMaps DEF Log!LogNext
<1>3. ASSUME NEW n \in Nodes, NEW b \in Buckets, NEW k \in Keys, DeleteMark(n, b, k)
      PROVE  Log!LogNext
  BY <1>3, MarkMaps DEF Log!LogNext
<1>4. ASSUME NEW n \in Nodes, NEW b \in Buckets, CreateBucket(n, b) \/ DeleteBucket(n, b)
      PROVE  Log!LogNext \/ UNCHANGED Log!logVars
  BY <1>4, BucketMaps DEF Log!LogNext
<1>5. ASSUME NEW n \in Nodes, Persist(n) PROVE Log!LogNext \/ UNCHANGED Log!logVars
  BY <1>5, PersistMaps DEF Log!LogNext
<1>6. ASSUME NEW n \in Nodes, Restart(n) PROVE Log!LogNext
  BY <1>6, RestartMaps DEF Log!LogNext
<1>7. ASSUME NEW m \in Nodes, NEW n \in Nodes, InstallSnapshot(m, n) PROVE Log!LogNext
  BY <1>7, InstallMaps DEF Log!LogNext
<1>8. ASSUME NEW n \in Nodes, FsmPanic(n) \/ Snapshot(n) PROVE UNCHANGED Log!logVars
  BY <1>8, StutterMaps DEF FsmPanic, Snapshot, store
<1>9. CASE UNCHANGED vars
  BY <1>9, StutterMaps DEF vars, store
<1> QED
  BY <1>1, <1>2, <1>3, <1>4, <1>5, <1>6, <1>7, <1>8, <1>9 DEF Next

\* The nodes implement the abstract log: a node takes it entry by entry, goes back
\* only in a restart and exactly to its snapshot, skips entries only with the
\* snapshot of another node, and shows what its prefix gives unless it has strayed,
\* which lasts until it loads a snapshot that was taken on the log (raft.go: Apply;
\* fsm.go: Apply, Snapshot, Persist, Restore).
THEOREM ReplicationImplementsLog == Spec => ImplementsLog
<1>1. Init => Log!LogInit
  <2> SUFFICES ASSUME Init PROVE Log!LogInit
    OBVIOUS
  <2>1. SavedAt = [n \in Nodes |-> 0] /\ SavedOn = [n \in Nodes |-> TRUE]
    BY DEF Init, SavedAt, SavedOn, noSnapshot
  <2> QED
    BY <2>1, LogOperators DEF Init, Log!LogInit, SavedAt, SavedOn
<1>2. ReplicationInv /\ IndexInv /\ [Next]_vars => IndexInv'
  BY IndexNext
<1>3. ReplicationInv /\ ReplicationInv' /\ IndexInv /\ [Next]_vars
        => [Log!LogNext]_(Log!logVars)
  BY NextMaps
<1> QED
  BY <1>1, <1>2, <1>3, IndexInit, ReplicationInductive, PTL DEF Spec, ImplementsLog, Log!LogSpec
=============================================================================
