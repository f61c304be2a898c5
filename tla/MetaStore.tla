----------------------------- MODULE MetaStore -----------------------------
(***************************************************************************)
(* The metadata store of one jario node: internal/store/meta.go over       *)
(* internal/store/bucketdb.go.                                             *)
(*                                                                         *)
(* Buckets live in a BoltDB file; the in-memory `cache' repeats their      *)
(* names and `objects' maps bucket and key to versions.  Bucket calls run  *)
(* on the goroutines of HTTP requests (Callers) and take two steps: a      *)
(* BoltDB transaction, then the update of the maps under the mutex.        *)
(* Object calls hold the mutex from start to end and are single steps.     *)
(* When the node is Wired to Raft, the Raft library calls Snapshot and     *)
(* Restore, and runs PutObject and the permanent DeleteObject on the same  *)
(* goroutine as Restore; delete markers are made by the request itself.    *)
(*                                                                         *)
(* Calls that return an error change nothing and are stuttering steps.     *)
(***************************************************************************)
EXTENDS VersionState

CONSTANTS
  Buckets, Keys,    \* the names clients use
  Callers,          \* goroutines that create and delete buckets
  Wired,            \* TRUE when Raft drives the store, FALSE standalone
  RemoteSnapshots   \* snapshots a Raft leader may install on this node

VARIABLES
  bolt,      \* bucket names in the BoltDB file (survives a restart)
  cache,     \* the keys of MetaStore.cache
  made,      \* the keys of MetaStore.objects: buckets whose map is not nil
  objects,   \* the version state of every bucket and key
  creating,  \* per caller: the bucket whose maps CreateBucket has yet to set
  deleting,  \* per caller: the bucket whose maps DeleteBucket has yet to clear
  fsm,       \* what the Raft FSM goroutine is in the middle of
  listed,    \* the bucket list Restore has read from BoltDB
  snap,      \* the newest Raft snapshot on disk (survives a restart)
  alive      \* FALSE once a panic outside a request has killed the process

memory == <<cache, made, objects>>
calls  == <<creating, deleting, fsm, listed>>
metaVars ==
  <<bolt, cache, made, objects, creating, deleting, fsm, listed, snap, alive>>

\* The object metadata in memory, as Snapshot encodes it.
LiveState == [made |-> made, objects |-> objects]

Idle(c) == creating[c] = {} /\ deleting[c] = {}

Snapshots ==
  [made : SUBSET Buckets, objects : [Buckets -> [Keys -> VersionStates]]]

\* Keys exist only inside a map that is not nil.
MapsHold(s) ==
  \A b \in Buckets, k \in Keys : HasKey(s.objects[b][k]) => b \in s.made

\* Every key's versions are in the order its ID counter gives.
AllOrdered(s) == \A b \in Buckets, k \in Keys : Ordered(s.objects[b][k])

WellFormed(s) == s \in Snapshots /\ MapsHold(s) /\ AllOrdered(s)

ASSUME WiredAssumption == Wired \in BOOLEAN

\* External: a leader's snapshot was taken by this code on another node.
ASSUME RemoteSnapshotsAssumption ==
  \A s \in RemoteSnapshots : WellFormed(s)

noKeys == [k \in Keys |-> newVersionState]
noObjects == [b \in Buckets |-> noKeys]
noSnapshot == [made |-> {}, objects |-> noObjects]

Init ==
  /\ bolt = {} /\ cache = {} /\ made = {}
  /\ objects = noObjects
  /\ creating = [c \in Callers |-> {}] /\ deleting = [c \in Callers |-> {}]
  /\ fsm = "idle" /\ listed = {}
  /\ snap = noSnapshot
  /\ alive = TRUE

-----------------------------------------------------------------------------
(* Bucket calls: the BoltDB transaction, then the maps under the mutex. *)

CreateBucketAgain(c, b) ==               \* mutant: no ErrBucketExists
  /\ alive /\ Idle(c)
  /\ bolt' = bolt \cup {b}
  /\ creating' = [creating EXCEPT ![c] = {b}]
  /\ UNCHANGED <<memory, deleting, fsm, listed, snap, alive>>

CreateBucket(c, b) ==
  /\ alive /\ Idle(c)
  /\ b \notin bolt                       \* else ErrBucketExists
  /\ bolt' = bolt \cup {b}
  /\ creating' = [creating EXCEPT ![c] = {b}]
  /\ UNCHANGED <<memory, deleting, fsm, listed, snap, alive>>

CreateBucketLocked(c) ==
  /\ alive
  /\ \E b \in creating[c] :
        /\ cache' = cache \cup {b}
        /\ made' = made \cup {b}
        /\ objects' = [objects EXCEPT ![b] = noKeys]
  /\ creating' = [creating EXCEPT ![c] = {}]
  /\ UNCHANGED <<bolt, deleting, fsm, listed, snap, alive>>

DeleteBucket(c, b) ==
  /\ alive /\ Idle(c)
  /\ b \in bolt                          \* else ErrNoBucket
  /\ bolt' = bolt \ {b}
  /\ deleting' = [deleting EXCEPT ![c] = {b}]
  /\ UNCHANGED <<memory, creating, fsm, listed, snap, alive>>

DeleteBucketLocked(c) ==
  /\ alive
  /\ \E b \in deleting[c] :
        /\ cache' = cache \ {b}
        /\ made' = made \ {b}
        /\ objects' = [objects EXCEPT ![b] = noKeys]
  /\ deleting' = [deleting EXCEPT ![c] = {}]
  /\ UNCHANGED <<bolt, creating, fsm, listed, snap, alive>>

-----------------------------------------------------------------------------
(* Object calls, each a single critical section. *)

SetVersions(b, k, vs) ==
  /\ objects' = [objects EXCEPT ![b][k] = vs]
  /\ UNCHANGED <<bolt, cache, made, calls, snap, alive>>

PutObject(b, k, sha) ==
  /\ alive /\ fsm = "idle"
  /\ b \in cache                         \* else ErrNoBucket
  /\ b \in made
  /\ objects[b][k].nextID <= MaxID
  /\ SetVersions(b, k, AppendVersion(objects[b][k], sha))

\* The write to m.objects[bucket][key] when m.objects[bucket] is nil: a panic
\* of the goroutine that applies Raft entries ends the process.  Standalone,
\* net/http recovers it and only that request fails.
PutObjectPanics(b) ==
  /\ alive /\ fsm = "idle"
  /\ b \in cache /\ b \notin made
  /\ Wired
  /\ alive' = FALSE
  /\ UNCHANGED <<bolt, memory, calls, snap>>

\* DeleteObject without a version ID.
PutDeleteMarker(b, k) ==
  /\ alive
  /\ b \in cache /\ b \in made           \* else ErrNoBucket, ErrNoKey
  /\ HasKey(objects[b][k])
  /\ objects[b][k].nextID <= MaxID
  /\ SetVersions(b, k, AppendVersion(objects[b][k], NoSha))

\* DeleteObject with a version ID.
DeleteVersion(b, k, vid) ==
  /\ alive /\ fsm = "idle"
  /\ b \in cache /\ b \in made
  /\ \E i \in 1..Len(objects[b][k].versions) :   \* else ErrNoKey
        /\ IsVersionAt(objects[b][k], vid, i)
        /\ SetVersions(b, k, RemoveVersion(objects[b][k], i))

-----------------------------------------------------------------------------
(* Raft snapshots, and the restart of the process. *)

\* The Raft library persists what Snapshot encodes.  A snapshot that is
\* persisted while a newer one is being installed stays behind that one.
Persist ==
  /\ alive /\ Wired /\ fsm = "idle"
  /\ snap' = LiveState
  /\ UNCHANGED <<bolt, memory, calls, alive>>

\* The library stores the leader's snapshot and calls Restore, which decodes
\* it and lists the buckets before it takes the mutex ...
InstallSnapshot(s) ==
  /\ alive /\ Wired /\ fsm = "idle"
  /\ snap' = s
  /\ fsm' = "restore"
  /\ listed' = bolt
  /\ UNCHANGED <<bolt, memory, creating, deleting, alive>>

\* ... and then replaces the cache and merges the snapshot into the objects.
RestoreLocked ==
  /\ alive /\ fsm = "restore"
  /\ cache' = listed
  /\ made' = made \cup snap.made
  /\ objects' = [b \in Buckets |-> [k \in Keys |->
                   IF HasKey(snap.objects[b][k]) THEN snap.objects[b][k]
                   ELSE objects[b][k]]]
  /\ fsm' = "idle" /\ listed' = {}
  /\ UNCHANGED <<bolt, creating, deleting, snap, alive>>

\* The process ends, whatever it was doing, and starts again: NewMetaStore
\* fills the cache from BoltDB, the Raft library restores the newest snapshot
\* before it returns from NewRaft; it then replays the log with PutObject and
\* DeleteVersion calls.
Restart ==
  /\ cache' = bolt
  /\ made' = snap.made
  /\ objects' = snap.objects
  /\ creating' = [c \in Callers |-> {}]
  /\ deleting' = [c \in Callers |-> {}]
  /\ fsm' = "idle" /\ listed' = {}
  /\ alive' = TRUE
  /\ UNCHANGED <<bolt, snap>>

-----------------------------------------------------------------------------
\* What a running process does; ApplyOp dispatches the entries of the log.
Running ==
  \/ \E c \in Callers, b \in Buckets : CreateBucket(c, b) \/ DeleteBucket(c, b)
  \/ \E c \in Callers : CreateBucketLocked(c) \/ DeleteBucketLocked(c)
  \/ \E b \in Buckets, k \in Keys, s \in Shas : PutObject(b, k, s)
  \/ \E b \in Buckets : PutObjectPanics(b)
  \/ \E b \in Buckets, k \in Keys : PutDeleteMarker(b, k)
  \/ \E b \in Buckets, k \in Keys, v \in 1..MaxID : DeleteVersion(b, k, v)
  \/ Persist
  \/ \E s \in RemoteSnapshots : InstallSnapshot(s)
  \/ RestoreLocked

Next == Running \/ Restart

Spec == Init /\ [][Next]_metaVars

-----------------------------------------------------------------------------
(* Properties. *)

\* The type of every variable.
TypeOK ==
  /\ bolt \subseteq Buckets /\ cache \subseteq Buckets /\ listed \subseteq Buckets
  /\ LiveState \in Snapshots
  /\ snap \in Snapshots
  /\ creating \in [Callers -> SUBSET Buckets]
  /\ deleting \in [Callers -> SUBSET Buckets]
  /\ fsm \in {"idle", "restore"}
  /\ alive \in BOOLEAN

\* PutObject, delete markers, permanent deletes, snapshots, merges and
\* restarts, in any order, keep every key's version IDs increasing along its
\* slice and below the next one, and Current on the newest version
\* (meta.go: PutObject, DeleteObject, Restore): what GetObject and
\* ListObjectVersions call the latest version is the latest version.
VersionsOrdered == AllOrdered(LiveState)

\* "PutObject creates a new version of the given key" (meta.go:116): a put
\* into an existing bucket never takes the process down.
PutsNeverPanic == alive
=============================================================================
