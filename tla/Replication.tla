---------------------------- MODULE Replication ----------------------------
(***************************************************************************)
(* Several jario nodes that share one Raft log: internal/raft/raft.go and  *)
(* fsm.go over the metadata stores of the nodes, with the callers of       *)
(* Store.PutObject, Store.DeleteObject and the bucket calls.               *)
(*                                                                         *)
(* Of hashicorp/raft, which is external, the module has what the FSM can   *)
(* see: committed entries form one sequence, every process applies them in *)
(* order from its snapshot on, Snapshot is called between two entries but  *)
(* Persist later and on another goroutine, and a follower may get another  *)
(* node's snapshot instead of entries.  Terms, elections and the entries   *)
(* that are never committed are left out; any running node may lead.       *)
(*                                                                         *)
(* Bucket calls are single steps here; MetaStore has their two halves, and *)
(* those of Restore.                                                       *)
(***************************************************************************)
EXTENDS MetaOps, FiniteSets

CONSTANTS
  Nodes,
  Ops,      \* what happens besides puts and permanent deletes
  MaxLog    \* bound: the number of log entries

ASSUME MaxLogAssumption == MaxLog \in Nat

ASSUME OpsAssumption == Ops \subseteq {"mark", "bucket", "snapshot", "install", "restart"}

VARIABLES
  log,      \* the committed entries
  canon,    \* history: canon[i + 1] is what the first i entries alone give
  index,    \* the last entry each node has applied
  cache,    \* the buckets of each node, in BoltDB and in the cache
  made,     \* the buckets whose object map is not nil
  objects,  \* the metadata of each node
  taken,    \* the index of a Snapshot that Persist has yet to write
  snap,     \* the newest snapshot on each node's disk
  up,       \* the processes that run
  clean     \* history: nodes that nothing but the log has changed

store == <<cache, made, objects>>
vars == <<log, canon, index, store, taken, snap, up, clean>>

Snapshots == [index : Nat, made : SUBSET Buckets, objects : Objects, clean : BOOLEAN]
noSnapshot == [index |-> 0, made |-> {}, objects |-> noObjects, clean |-> TRUE]

\* Clients have created every bucket on every node before the first entry.
Init ==
  /\ log = <<>> /\ canon = <<noObjects>>
  /\ index = [n \in Nodes |-> 0]
  /\ cache = [n \in Nodes |-> Buckets] /\ made = [n \in Nodes |-> Buckets]
  /\ objects = [n \in Nodes |-> noObjects]
  /\ taken = [n \in Nodes |-> {}]
  /\ snap = [n \in Nodes |-> noSnapshot]
  /\ up = [n \in Nodes |-> TRUE]
  /\ clean = [n \in Nodes |-> TRUE]

-----------------------------------------------------------------------------
(* RaftNode.Apply on the leader, and the FSM on every node. *)

Quorum == 2 * Cardinality({n \in Nodes : up[n]}) > Cardinality(Nodes)

\* Store.PutObject sends its entry without looking at the bucket; DeleteObject
\* looks the version up on its own node first.
Submit(n, op) ==
  /\ up[n] /\ Quorum
  /\ op.kind = "delete_version" => HasVersion(objects[n][op.b][op.k], op.vid)
  /\ Len(log) < MaxLog
  /\ op.kind = "put_object" => canon[Len(canon)][op.b][op.k].nextID <= MaxID
  /\ log' = Append(log, op)
  /\ canon' = Append(canon, ApplyOp(canon[Len(canon)], op))
  /\ UNCHANGED <<index, store, taken, snap, up, clean>>

HasNext(n) == up[n] /\ index[n] < Len(log)
NextOp(n) == log[index[n] + 1]

FsmApplyTwice(n) ==                      \* mutant: the leader applies its own op as well
  /\ HasNext(n)
  /\ NextOp(n).b \in cache[n] \cap made[n]
  /\ objects[n][NextOp(n).b][NextOp(n).k].nextID < MaxID
  /\ objects' = [objects EXCEPT ![n] = ApplyOp(ApplyOp(@, NextOp(n)), NextOp(n))]
  /\ index' = [index EXCEPT ![n] = @ + 1]
  /\ UNCHANGED <<log, canon, cache, made, taken, snap, up, clean>>

FsmApply(n) ==
  /\ HasNext(n)
  /\ NextOp(n).b \in cache[n]
  /\ NextOp(n).kind = "put_object" =>
       /\ NextOp(n).b \in made[n]
       /\ objects[n][NextOp(n).b][NextOp(n).k].nextID <= MaxID
  /\ objects' = [objects EXCEPT ![n] = ApplyOp(@, NextOp(n))]
  /\ index' = [index EXCEPT ![n] = @ + 1]
  /\ UNCHANGED <<log, canon, cache, made, taken, snap, up, clean>>

\* ErrNoBucket: the entry counts as applied.
FsmRefuse(n) ==
  /\ HasNext(n)
  /\ NextOp(n).b \notin cache[n]
  /\ index' = [index EXCEPT ![n] = @ + 1]
  /\ clean' = [clean EXCEPT ![n] = FALSE]
  /\ UNCHANGED <<log, canon, store, taken, snap, up>>

\* The write to a nil map: the process ends.
FsmPanic(n) ==
  /\ HasNext(n)
  /\ NextOp(n).kind = "put_object" /\ NextOp(n).b \in cache[n] \ made[n]
  /\ up' = [up EXCEPT ![n] = FALSE]
  /\ UNCHANGED <<log, canon, index, store, taken, snap, clean>>

-----------------------------------------------------------------------------
(* What a node does to its metadata without Raft. *)

\* Store.DeleteObject without a version ID, on whatever node serves it.
DeleteMark(n, b, k) ==
  /\ "mark" \in Ops /\ up[n]
  /\ b \in cache[n] /\ HasKey(objects[n][b][k])
  /\ objects[n][b][k].nextID <= MaxID
  /\ objects' = [objects EXCEPT ![n][b][k] = AppendVersion(@, NoSha)]
  /\ clean' = [clean EXCEPT ![n] = FALSE]
  /\ UNCHANGED <<log, canon, index, cache, made, taken, snap, up>>

NoKeys(n, b) == \A k \in Keys : ~ HasKey(objects[n][b][k])

\* CreateBucket gives the bucket a new map, over one a snapshot may have left.
CreateBucket(n, b) ==
  /\ "bucket" \in Ops /\ up[n]
  /\ b \notin cache[n]
  /\ cache' = [cache EXCEPT ![n] = @ \cup {b}]
  /\ made' = [made EXCEPT ![n] = @ \cup {b}]
  /\ objects' = [objects EXCEPT ![n][b] = noObjects[b]]
  /\ clean' = [clean EXCEPT ![n] = @ /\ NoKeys(n, b)]
  /\ UNCHANGED <<log, canon, index, taken, snap, up>>

DeleteBucket(n, b) ==
  /\ "bucket" \in Ops /\ up[n]
  /\ b \in cache[n]
  /\ cache' = [cache EXCEPT ![n] = @ \ {b}]
  /\ made' = [made EXCEPT ![n] = @ \ {b}]
  /\ objects' = [objects EXCEPT ![n][b] = noObjects[b]]
  /\ clean' = [clean EXCEPT ![n] = @ /\ NoKeys(n, b)]
  /\ UNCHANGED <<log, canon, index, taken, snap, up>>

-----------------------------------------------------------------------------
(* Snapshots and restarts. *)

\* fsm.Snapshot returns the live store; Raft notes the index.
Snapshot(n) ==
  /\ "snapshot" \in Ops /\ up[n]
  /\ taken[n] = {} /\ index[n] > snap[n].index
  /\ taken' = [taken EXCEPT ![n] = {index[n]}]
  /\ UNCHANGED <<log, canon, index, store, snap, up, clean>>

PersistBackwards(n) ==                   \* mutant: a late snapshot replaces a newer one
  /\ up[n]
  /\ \E i \in taken[n] :
        snap' = [snap EXCEPT ![n] =
                   [index |-> i, made |-> made[n], objects |-> objects[n],
                    clean |-> clean[n] /\ index[n] = i]]
  /\ taken' = [taken EXCEPT ![n] = {}]
  /\ UNCHANGED <<log, canon, index, store, up, clean>>

\* fsmSnapshot.Persist encodes the store as it is by now; a restart takes the
\* snapshot with the highest index.
Persist(n) ==
  /\ up[n]
  /\ \E i \in taken[n] :
        snap' = IF i < snap[n].index THEN snap
                ELSE [snap EXCEPT ![n] =
                        [index |-> i, made |-> made[n], objects |-> objects[n],
                         clean |-> clean[n] /\ index[n] = i]]
  /\ taken' = [taken EXCEPT ![n] = {}]
  /\ UNCHANGED <<log, canon, index, store, up, clean>>

\* Entries that m no longer has reach n as m's snapshot.  MetaStore.Restore
\* merges it: keys that are not in the snapshot stay.
Merge(objs, s) ==
  [b \in Buckets |-> [k \in Keys |->
     IF HasKey(s.objects[b][k]) THEN s.objects[b][k] ELSE objs[b][k]]]

InstallSnapshot(m, n) ==
  /\ "install" \in Ops /\ up[m] /\ up[n]
  /\ snap[m].index > index[n]
  /\ objects' = [objects EXCEPT ![n] = Merge(@, snap[m])]
  /\ made' = [made EXCEPT ![n] = @ \cup snap[m].made]
  /\ index' = [index EXCEPT ![n] = snap[m].index]
  /\ snap' = [snap EXCEPT ![n] = snap[m]]
  /\ clean' = [clean EXCEPT ![n] =
       snap[m].clean /\ \A b \in Buckets, k \in Keys :
          HasKey(objects[n][b][k]) => HasKey(snap[m].objects[b][k])]
  /\ UNCHANGED <<log, canon, cache, taken, up>>

\* The process ends, whatever it was doing, and starts again: the cache comes
\* from BoltDB, the objects from the newest snapshot, the rest from the log.
Restart(n) ==
  /\ "restart" \in Ops
  /\ made' = [made EXCEPT ![n] = snap[n].made]
  /\ objects' = [objects EXCEPT ![n] = snap[n].objects]
  /\ index' = [index EXCEPT ![n] = snap[n].index]
  /\ clean' = [clean EXCEPT ![n] = snap[n].clean]
  /\ taken' = [taken EXCEPT ![n] = {}]
  /\ up' = [up EXCEPT ![n] = TRUE]
  /\ UNCHANGED <<log, canon, cache, snap>>

-----------------------------------------------------------------------------
Next ==
  \/ \E n \in Nodes, op \in RaftOps : Submit(n, op)
  \/ \E n \in Nodes : FsmApply(n) \/ FsmRefuse(n) \/ FsmPanic(n)
  \/ \E n \in Nodes, b \in Buckets :
        \/ \E k \in Keys : DeleteMark(n, b, k)
        \/ CreateBucket(n, b) \/ DeleteBucket(n, b)
  \/ \E n \in Nodes : Snapshot(n) \/ Persist(n) \/ Restart(n)
  \/ \E m, n \in Nodes : InstallSnapshot(m, n)

Spec == Init /\ [][Next]_vars

-----------------------------------------------------------------------------
(* Properties. *)

\* The type of every variable.
ReplicationTypeOK ==
  /\ log \in Seq(RaftOps) /\ canon \in Seq(Objects)
  /\ index \in [Nodes -> Nat]
  /\ cache \in [Nodes -> SUBSET Buckets] /\ made \in [Nodes -> SUBSET Buckets]
  /\ objects \in [Nodes -> Objects]
  /\ taken \in [Nodes -> SUBSET Nat]
  /\ snap \in [Nodes -> Snapshots]
  /\ up \in [Nodes -> BOOLEAN] /\ clean \in [Nodes -> BOOLEAN]

\* "All mutations must be deterministic" (fsm.go:12), and the exceptions: a node
\* holds what the entries up to its index give, and so does its snapshot, unless
\* it made a delete marker, lost a bucket with its keys or was sent an entry for a
\* bucket it lacks, wrote a snapshot after the index had moved on, or merged a
\* snapshot over keys that were deleted.  Replays, restarts, refused deletes and
\* snapshots of other nodes cause no other difference.
CleanFollowsLog ==
  \A n \in Nodes :
     /\ clean[n] => objects[n] = canon[index[n] + 1]
     /\ snap[n].clean => snap[n].objects = canon[snap[n].index + 1]

\* What a snapshot is made of: the versions of every key in the order its ID
\* counter gives, and keys only in buckets that have a map.
Sound(objs, m) ==
  /\ objs \in Objects
  /\ \A b \in Buckets, k \in Keys :
        /\ Ordered(objs[b][k])
        /\ IF HasKey(objs[b][k]) THEN b \in m ELSE objs[b][k] = newVersionState

\* Whatever a node did without Raft before it wrote a snapshot, and however late
\* (fsm.go: Snapshot, Persist; meta.go: Restore), the snapshot is one another node
\* can restore: MetaStore assumes this of the snapshots it is sent.
SnapshotsSound == \A n \in Nodes : Sound(snap[n].objects, snap[n].made)

\* "Every bucket/object metadata mutation goes through Raft" (raft.go:3): nodes
\* that have applied the same entries hold the same metadata.
Agreement ==
  \A m, n \in Nodes : index[m] = index[n] => objects[m] = objects[n]

\* The replicated store as MetadataLog sees it: the metadata of every node, clean
\* or not.
Log == INSTANCE MetadataLog WITH
  states  <- canon,
  at      <- index,
  view    <- objects,
  onLog   <- clean,
  saved   <- [n \in Nodes |-> snap[n].index],
  savedOn <- [n \in Nodes |-> snap[n].clean]

\* Every step of the nodes is a step of MetadataLog or none (raft.go: Apply;
\* fsm.go: Apply, Snapshot, Persist, Restore): no entry is skipped or applied
\* twice, a restart goes back exactly as far as the snapshot whose objects it
\* loads, a snapshot written late never passes for one of the log, and a node that
\* has strayed does not pass for clean again by itself.
ImplementsLog == Log!LogSpec
=============================================================================
