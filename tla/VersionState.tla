---------------------------- MODULE VersionState ----------------------------
(***************************************************************************)
(* The versions of one object key: the types ObjectMeta, versionEntry and  *)
(* versionState of internal/store/meta.go and what PutObject, DeleteObject *)
(* and the lookups do with them while they hold the store's mutex.         *)
(*                                                                         *)
(* A version keeps its VersionID and its Sha256 (which is also its ETag).  *)
(* Delete markers are the entries without a content, sha = NoSha.  Key,    *)
(* Size, ContentType and CreatedAt decide nothing and are left out.        *)
(* Indices are TLA+ ones: `current' is Go's Current + 1.                   *)
(***************************************************************************)
EXTENDS Naturals, Sequences, SequencesExt

CONSTANTS
  Shas,     \* the sha256 digests of the contents clients upload
  NoSha,    \* the empty Sha256 of a delete marker
  MaxID     \* bound: no version ID above MaxID is handed out

ASSUME NoShaAssumption == NoSha \notin Shas

ASSUME MaxIDAssumption == MaxID \in Nat \ {0}

ObjectMeta == [id : 1..MaxID, sha : Shas \cup {NoSha}]

VersionStates ==
  [versions : Seq(ObjectMeta), current : Nat, nextID : 1..MaxID + 1]

IsDeleteMarker(meta) == meta.sha = NoSha

(***************************************************************************)
(* newVersionState() also stands for a key that is not in the map: the     *)
(* code creates the state and appends its first version under one lock,    *)
(* and drops the state with its last version, so that a key is in the map  *)
(* exactly when it has versions.                                           *)
(***************************************************************************)
newVersionStateFromZero ==                \* mutant: NextID left at Go's zero value
  [versions |-> <<>>, current |-> 1, nextID |-> 0]

newVersionState == [versions |-> <<>>, current |-> 1, nextID |-> 1]

HasKey(vs) == vs.versions # <<>>

AppendVersionSameID(vs, sha) ==           \* mutant: no vs.NextID++
  [versions |-> Append(vs.versions, [id |-> vs.nextID, sha |-> sha]),
   current  |-> Len(vs.versions) + 1,
   nextID   |-> vs.nextID]

\* Hand out NextID and append: the tail of PutObject, and of DeleteObject
\* without a version ID (sha = NoSha).
AppendVersion(vs, sha) ==
  [versions |-> Append(vs.versions, [id |-> vs.nextID, sha |-> sha]),
   current  |-> Len(vs.versions) + 1,
   nextID   |-> vs.nextID + 1]

RemoveVersionKeepsCurrent(vs, i) ==       \* mutant: no vst.Current = len(...) - 1
  LET rest == RemoveAt(vs.versions, i)
  IN  IF rest = <<>> THEN newVersionState ELSE [vs EXCEPT !.versions = rest]

\* Cut entry i out of the slice; the key goes with its last version.
RemoveVersion(vs, i) ==
  LET rest == RemoveAt(vs.versions, i)
  IN  IF rest = <<>> THEN newVersionState
      ELSE [vs EXCEPT !.versions = rest, !.current = Len(rest)]

\* The first entry with the given ID: the loops of GetObject, GetObjectVersion
\* and DeleteObject.
IsVersionAt(vs, vid, i) ==
  /\ i \in 1..Len(vs.versions)
  /\ vs.versions[i].id = vid
  /\ \A j \in 1..i - 1 : vs.versions[j].id # vid

\* GetObject without a version ID finds entry Current unless it is out of range
\* or a delete marker.
IsCurrentAt(vs, i) ==
  /\ i = vs.current
  /\ i \in 1..Len(vs.versions)
  /\ ~ IsDeleteMarker(vs.versions[i])

-----------------------------------------------------------------------------
(***************************************************************************)
(* What the append-only ID counter gives a key: IDs increase along the     *)
(* slice, stay below the next ID, and Current names the newest version.    *)
(***************************************************************************)
Ordered(vs) ==
  /\ \A i \in 1..Len(vs.versions) : vs.versions[i].id < vs.nextID
  /\ \A i, j \in 1..Len(vs.versions) :
        i < j => vs.versions[i].id < vs.versions[j].id
  /\ HasKey(vs) => vs.current = Len(vs.versions)
=============================================================================
