------------------------------ MODULE MetaOps ------------------------------
(***************************************************************************)
(* The metadata operations that go through Raft: RaftOp and ApplyOp of     *)
(* internal/store/store.go, over the objects of one node that has every    *)
(* bucket.  The kind "delete_object" of ApplyOp is left out: no code       *)
(* sends it, delete markers are made without Raft.                         *)
(***************************************************************************)
EXTENDS VersionState

CONSTANTS Buckets, Keys

RaftOps ==
  [kind : {"put_object"}, b : Buckets, k : Keys, sha : Shas, vid : {0}]
    \cup [kind : {"delete_version"}, b : Buckets, k : Keys, sha : {NoSha}, vid : 1..MaxID]

Objects == [Buckets -> [Keys -> VersionStates]]

noObjects == [b \in Buckets |-> [k \in Keys |-> newVersionState]]

HasVersion(vs, vid) == \E i \in 1..Len(vs.versions) : IsVersionAt(vs, vid, i)

\* What PutObject, or DeleteObject with a version ID, makes of the key; deleting
\* a version that is not there fails and changes nothing.
Applied(vs, op) ==
  IF op.kind = "put_object" THEN AppendVersion(vs, op.sha)
  ELSE IF HasVersion(vs, op.vid)
  THEN RemoveVersion(vs, CHOOSE i \in 1..Len(vs.versions) : IsVersionAt(vs, op.vid, i))
  ELSE vs

ApplyOp(objs, op) == [objs EXCEPT ![op.b][op.k] = Applied(objs[op.b][op.k], op)]
=============================================================================
