# A TLA+ verification project for jario

jario is an S3-compatible object store: HTTP requests put, get and delete
versioned objects, object metadata is replicated through Raft, contents are
content-addressed blob files, and large objects arrive in parts. This directory
holds TLA+ modules that model its core, the TLC configurations that check them
on small instances, and TLAPS proofs of the invariants that hold.

    tlc -workers 2 -config StoreFaults.cfg MCStore     # one run
    tlapm StoreProofs.tla                              # one proof module

## The system

| Part | State | Operations | Module |
|---|---|---|---|
| versions of a key (`meta.go`: `versionState`) | slice of versions, `Current`, `NextID` | append, remove, look up | `VersionState` |
| metadata store (`meta.go`) | `cache`, `objects`, under one RWMutex | bucket and object calls, `Snapshot`, `Restore` | `MetaStore` |
| bucket database (`bucketdb.go`) | bucket names in a BoltDB file | `Create`, `Delete`, `List`, `Get` | `MetaStore` (`bolt`) |
| object requests (`store.go`, `api.go`) | blob files; per request: its step, pointers into version slices, open files | PUT, GET, HEAD, DELETE | `Store` |
| multipart uploads (`multipart.go`, `api.go`) | map of uploads, recorded parts, part files, two kinds of mutex | create, upload part, complete, abort, list parts | `Multipart` |
| reaper (`main.go`, `multipart.go`) | none of its own | abort uploads older than `maxAge` | `Multipart` |
| Raft node and FSM (`internal/raft`) | log and snapshots (hashicorp/raft), each node's metadata | `Apply`, `Snapshot`, `Persist`, `Restore` | `Replication`; on one node `MetaStore`, `Store` |
| listing (`meta.go`, `api.go`) | none; the client keeps a token | paging, versions, tokens | `Listing` |
| join and start (`join.go`, `raft.go`, `main.go`) | phase of `main`, cluster membership | start, bootstrap, request, admit, retry, stop | `Join` |
| routing, XML, SigV4, configuration file | none | formatting, parsing, signatures | not modelled |

How the parts interact. Each HTTP request runs on its own goroutine. A PUT
writes the blob file, sends `put_object` through `raftApply` (Raft, or directly
when standalone), and reads the new version ID back; `ApplyOp` calls the
metadata store. A DELETE with a version ID looks the version up, sends
`delete_version`, and removes the blob; without one it makes a delete marker
directly in the local metadata store. Buckets are local: BoltDB first, then the
in-memory maps. Raft calls `Snapshot` and `Restore` of the metadata store on its
own goroutines, and every node applies the log to its own metadata store. A node
that is started with `--join` repeats `POST /internal/join` at its target until
the target, if it leads, has had it admitted as a voter; only then it serves. A
listing is one request per page, each under the read lock. Multipart requests and the reaper share the map of uploads and
the part directories; Complete ends as a PUT does.

What is hard:

- bucket calls and `Restore` do something before they take the mutex and the
  rest under it;
- lookups return pointers into slices that later calls shift in place;
- blob and part files are truncated and filled without a lock, shared by equal
  contents, and removed while others have them open;
- the two mutexes of the multipart code are taken in both orders;
- blob first, metadata second: each may fail, and the process may stop between;
- Raft reports only that an entry was committed, not what it did;
- part of the metadata is changed on one node only (buckets, delete markers), and
  snapshots are written later than they are taken and merged when restored;
- a join request is repeated although the first one may have been carried out,
  and leadership changes while it waits;
- a listing is put together from states of different times.

What makes each part correct: the versions of a key stay in order and their
history is never rewritten; cache, object maps and BoltDB agree; what a version
refers to is on disk and complete; responses tell the truth about the version
they are about; recorded parts have files, objects consist of acknowledged
parts in order, locks are released, requests end, stale uploads disappear; nodes
show what a prefix of the one log gives; pages add up to the keys that were
there; joiners become voters and serve. Not all of this is so: the section "Where
the code disagrees" says what is not. The list `hazards` of `PROJECT.json` gives
each danger with the line where it bites and the properties that would show it.

## Modules

    VersionState <- MetaStore <- Store          MCStore
                    MetaStore <- Listing        MCListing
    VersionState <- MetaOps   <- MetadataLog
                    MetaOps   <- Replication    MCReplication; INSTANCE MetadataLog
    Multipart                                   MCMultipart
    Join                                        MCJoin

    VersionStateProofs <- MetaStoreProofs <- StoreProofs <- StoreRequestProofs
    MetaStoreProofs    <- ListingProofs
    VersionStateProofs <- ReplicationProofs
    MultipartProofs, JoinProofs

The MC modules are the instances TLC checks, the Proofs modules hold the
theorems and the inductive invariants they rest on.

**VersionState** has the operators on one key's versions. `AppendVersion` is the
tail of `PutObject` and of the delete marker, `RemoveVersion` the permanent
delete, `IsVersionAt` and `IsCurrentAt` the two lookups. A version is its ID and
its digest; a marker has no digest. `newVersionState` also stands for an absent
key, because the code creates a key with its first version and drops it with its
last.

**MetaStore** is `meta.go` over `bucketdb.go`. `bolt`, `cache`, `made` and
`objects` are BoltDB's names, the cache, the buckets whose object map is not nil
and their versions. `CreateBucket` and `DeleteBucket` are the BoltDB
transactions, `CreateBucketLocked` and `DeleteBucketLocked` what follows under
the mutex, `creating` and `deleting` what a caller has yet to do there. Object
calls are one critical section and one action each. `InstallSnapshot` and
`RestoreLocked` are the two halves of `Restore`; `Persist` encodes the live
state; `Restart` is the end of the process and `NewMetaStore`, followed by the
restore of the newest snapshot. `PutObjectPanics` is the write to a nil map: on
Raft's goroutine it ends the process.

**Store** is `store.go` with the object handlers, on a node wired to Raft as
`main` always does. Each request has a program counter, its parameters, a pointer
`ptr` into a version slice, an open file `fd` and a response. The actions of a PUT
are `PutOpen`, `PutWrite` (together `os.WriteFile`), `PutRegister`, `PutReadBack`
(the lookup under the read lock) and `PutName` (the ID, read through the pointer
after it); of a GET `Lookup`, `GetOpen`, then the fields the handler reads one by
one without a lock, `ReadFlag`, `ReadMarker` or `ReadETag` and `ReadVersionID`,
and `GetCopy`; a HEAD is the same without the file; a DELETE is `DeleteMark`, or
`Lookup`, `DeleteUnregister`, `DeleteCheck`, `DeleteRemove`. Go's slices are
modelled by what pointers into them show: `MoveOnAppend`, `MoveOnRemove` and
`MoveOnClear` say which pointers see a new entry, and `cap` when `append` moves to
a new array. `PutRegister` has the outcomes a caller of Raft meets: applied and
acknowledged; refused by the FSM but acknowledged; applied although an error is
returned; not applied. The history variable `taken` has the PUTs whose version a
DELETE or a bucket delete has taken away, `removed` the contents of which a DELETE
has removed a file.

**Multipart** is `multipart.go` with the reaper. A mutex is the set of its
owners. `UploadPart` is `PartMkdir`, `PartOpen`, `PartWrite`, `PartLock`,
`PartRecord`; `CompleteMultipartUpload` is `GetUpload`, `CompleteCheck`,
`CompleteRead` per part, `CompleteRegister` and the cleanup; `cleanupUpload` is
`CleanupFiles` and `CleanupForget`, or `ReapFiles` and `ReapForget` for the
reaper. A critical section in which nothing waits is one action; where the code
waits for a second mutex inside (`PartRecord`, `ReapVisit`, `CleanupForget`),
waiting is possible between the two. The contents of a file are sequences of
bytes, long enough to tell a short content from a long one, so that a write over
a longer file shows. File operations may fail when `Faults` is set; a failing
write leaves any prefix. The history variable `sends` counts how often the file of
a part was opened for writing, up to two.

**MetaOps** has the operations of the log, `RaftOp` and `ApplyOp`, as functions on
the metadata of a node. **MetadataLog** is the abstract specification: there is
one sequence of metadata states, each from the one before by an operation; a node
takes it entry by entry, falls back only to its own snapshot and jumps only to
another node's; while it is on the log it shows exactly the state its position
names, and once it has strayed only a snapshot taken on the log brings it back.
**Replication** is the code on several nodes. `log` are
the committed entries and `canon[i + 1]` what the first `i` of them give; each
node has its `index`, buckets, objects and newest snapshot. `Submit` is
`RaftNode.Apply`, `FsmApply`, `FsmRefuse` and `FsmPanic` the outcomes of the
FSM's `Apply`, `DeleteMark`, `CreateBucket` and `DeleteBucket` what a node does
without the log, `Snapshot` and `Persist` the two halves of a snapshot (the
second encodes what the store holds by then), `InstallSnapshot` the FSM's
`Restore`, which merges, `Restart` the end of the process, the restore and the
beginning of the replay. The history variable `clean` marks the nodes that only
the log has changed; what clears it is the list of causes by which the code lets
nodes differ.

**Listing** composes `MetaStore` with a client that lists a bucket. Keys are
numbers in the order of the strings. `ListObjectsPaged` and `ListObjectVersions`
are operators, the second with the comparison of IDs as decimal strings;
`ListBegin`, `ListCheck` (the handler's bucket check), `ListPage` and `ListEnd`
are the client's steps, and `ListRunning` and `ListRestart` any step of MetaStore
between them. `stayed` and `shown` record which keys were visible all the time
and at some time.

**Join** is `main` as far as clusters go, with `RequestJoin`, `routeInternal`,
`Bootstrap` and `AddVoter`. A process is down, joining (between two requests),
has posted a request, waits in AddVoter (adding), is settling or serving. Raft is
its committed `voters`, the one change that may be `proposed`, a `holder` of that
entry, and the `leader`; a change counts from the moment it is in the log, as in
hashicorp/raft. `ElectWithout` is the election that drops the entry, `Fail` the
errors that a stop or a lost leadership gives to waiting requests.

The nodes of `Replication` are shown to implement `MetadataLog` (property
`ImplementsLog`, theorem `ReplicationImplementsLog`). The mapping takes `canon` for
the states, `index` for the positions, the metadata each node really holds, clean
or not, for what it shows, and index and cleanness of its newest snapshot for what
it has saved. A restart that replayed from elsewhere than its snapshot, an entry
applied twice, a snapshot that went back or that passed for one of the log would
all be steps MetadataLog does not have.

Common abstractions: digests of different contents differ; a content's digest is
its name; requests for which the code returns early without a change are
stuttering steps in MetaStore and replies in Store and Multipart. The body of a
PUT is read completely before anything happens and is part of its first step. One
field read through a pointer is one step; a string header that is read while
another goroutine writes it (a torn read, which Go leaves undefined) is left out.
Size, ContentType and Content-Length are left out: they decide nothing.

## Runs

Passing runs:

| Run | Instance | Shows |
|---|---|---|
| ListingPages | 1 bucket, 2 keys, IDs up to 2, 1 bucket caller, Raft, one leader snapshot, restarts and panics, 1 listing client, pages of 1 key or of all | `TypeOK`, `VersionsOrdered`, `PagesSorted`, `PagesComplete`, `PagesTrue`, `VersionsListed` |
| StoreFaults | 2 requests of every kind, IDs up to 2, failing writes, every outcome of Raft, bucket creations and deletions by one caller | `StoreTypeOK`, `MissingOnlyAfterDelete`, `AckedVersionKept` |
| MultipartSafe | 2 requests and the reaper, 1 upload, 1 part, 2 contents, failing files, restarts, bucket deletes (ListParts is left to MultipartLive and to the proofs) | `MultipartTypeOK`, `RecordedOnDisk`, `ListedPartsAcked`, `LocksReleased`, `AssembledAsSent` |
| MultipartLive | 2 requests without Complete, the reaper, failing files | `RequestsEnd`, `StaleReaped` |
| ReplicationAll | 2 nodes, 1 key, 3 log entries, IDs up to 2, markers, bucket calls, snapshots, installs, restarts | `ReplicationTypeOK`, `CleanFollowsLog`, `SnapshotsSound`, and that the nodes implement MetadataLog |
| JoinCluster | 4 nodes, of which one bootstraps; every start, stop, loss and election | `JoinTypeOK`, `JoinersServe` |

Runs that end in a violation; each states what a comment, a test or the README
of jario says, and `findings` of `PROJECT.json` quotes it:

| Run | Property | What happens |
|---|---|---|
| MetaStoreRestart | `PutsNeverPanic` | after a restart the first put writes to a nil map, which ends the process |
| StoreRetry | `RegisteredReadable` | a PUT of a content that is registered truncates its blob and fails to write it: the version registered before is broken |
| StoreLostAck | `AckedPutRegistered` | the bucket is gone when the entry is applied; the FSM's error is dropped and the PUT answered with success |
| StoreAliasedDelete | `DeletesOwnBlob` | deleting v1 removes the blob of v2 |
| MultipartDeadlock | `StaleReaped` | Complete and reaper wait for each other |
| ReplicationDiverges | `Agreement` | a delete marker is made on one node only |

## Where the code disagrees

What the passing properties leave out is left out because the code does otherwise.
Beside the runs above, the models show the following; each was reached with TLC or
is one step of the model.

Against a line of the repository:

| The repository says | The code does | In the model |
|---|---|---|
| `store.go:140`, "the new version ID"; `README.md:92`, "Returns `X-Amz-Version-Id`" | when another PUT of the key comes between registering and reading back, the PUT answers that PUT's ID; when a marker or a delete does, an older ID or none | `PutReadBack`, `PutName` |
| `api.go:220`, `tests/api_versioning_test.go:39` and `:55`: 404 with the delete-marker header for a current marker | `GetMeta` skips markers: plain 404 without the header | `Lookup` |
| `README.md:105`, "monotonic integer IDs" | deleting the last version of a key drops its counter (`meta.go:223`): the next PUT is version 1 again | `RemoveVersion` |
| `meta.go:254`, "sorted by key then version (newest first)" | IDs are compared as strings (`meta.go:289`): 10 comes after 9 | `StringLess` |
| `multipart.go:132`, "Parts are ordered by partNumber and concatenated" | a part that is sent again is truncated while Complete, which has checked the ETags, reads it; a second try that fails spoils a part that was acknowledged | `PartOpen`, `CompleteRead` |
| `tests/api_versioning_test.go:90`, after the delete of v1 "v2 should still be accessible" | the blob that equal contents share goes with one of them; `RegisteredReadable` fails this way too, with permanent deletes and without failing writes | `DeleteRemove` |
| `raft.go:3`, every mutation goes through Raft | a node that lacks a bucket refuses its entries; a snapshot written late has entries after its index, which the replay applies again; `Agreement` fails in both ways too | `FsmRefuse`, `Persist` |

Where nothing is promised, but a client would be surprised:

- two bucket calls for one name that race commit to BoltDB in one order and update
  the maps in the other: cache and BoltDB disagree until the next restart, and a
  `CreateBucketLocked` that comes late empties the map of a bucket into which PUTs
  were acknowledged (`AckedVersionKept` fails with two bucket callers);
- a bucket created between `Restore`'s `List` and its `Lock` is missing from the
  cache (`InstallSnapshot`, `RestoreLocked`);
- the snapshot still has a deleted bucket's objects, and a restart brings them
  back; GET and HEAD, which do not look at the cache, show them (`Persist`,
  `Restart`);
- the headers of a GET or HEAD are read through a pointer that a permanent delete
  shifts: ETag, version ID and body may be of different versions; the file may be
  gone between lookup and open;
- a GET may read a blob between another PUT's truncation and write of the same
  content;
- a GET of the version ID of a delete marker panics (`GetOpen`), as does a part for
  an upload that is aborted meanwhile (`PartPanics`); net/http ends the request;
- a late part makes the directory of an aborted upload again, and nobody removes it
  (`PartMkdir`); Complete may make the object although the abort was answered
  (`CompleteRegister`);
- the empty key, which `PUT /bucket/` creates, is in no listing (`ListObjectsPaged`);
- a joiner that was admitted, whose answer was lost, may be elected: it asks its
  target, now a follower, for ever and, not serving, admits nobody. `JoinersServe`
  excludes this by its premise that the target leads.

**Bounds.** `MaxID` bounds the version IDs of a key. Two are the fewest with which a
delete shifts a version under a pointer and `append` outgrows an array. One bucket
and key are enough where a property speaks of one key (calls on different keys
touch different entries). Two requests show every race between two. One content is
the harder case for the blobs of `StoreFaults`, because all versions then share a
file. The run was also made, once each, with IDs up to 3 (4.4 million states), with
two contents (4.1 million) and with three requests that put, delete and mark; it is
kept small enough for a few minutes. `MaxObjects` bounds the objects uploads
create. The multipart runs have one upload: different uploads share only
`multipart.mu`, which the reaper and the other request contend for too. With two
parts and lists in both orders (`TwoParts` of `MCMultipart`), without restarts and
reaper, the invariants of `MultipartSafe` were checked once (8.6 million states).
`MaxLog` = 3 entries let a node create two versions, delete one and be behind, at
or beyond a snapshot of another. Two keys and pages of one are the fewest with a
boundary between pages; a key may come, go or come back on either side of it.
`PageLimit` stands for 1000. Four nodes are the fewest with which a new leader can
drop the entry of a node that was never admitted. The proofs remove these bounds
for the properties they cover.

**Symmetry.** Requests, contents and the nodes of Replication are interchangeable in the runs that
say so; no run with a liveness property uses symmetry.

**Deadlock** is checked in the passing runs. In
`MultipartSafe` the restart is always possible, so that the lock-order deadlock
does not stop the model and `MultipartDeadlock` is the run that shows it.
`ReplicationDiverges` is bounded to one entry and may stop.

**Fairness** (`MultipartFairSpec`). A goroutine that can go on does: weak
fairness for steps that need no mutex. A `sync.Mutex` gives itself to its oldest
waiter once that has waited for a millisecond (starvation mode), so that a
request or the reaper that finds the mutex free again and again gets it: strong
fairness. No fairness is assumed of clients, of the clock, of bucket calls or of
restarts; the ticker makes the reaper's first step one that can always go on.

In `Join` processes that run go on: weak fairness of `main`, of the handler, of
AddVoter's outcome, of committing an entry a running majority has, and of a leader
without a majority stepping down (its lease, `raft.go`). That the target comes to
lead for good, that nothing is stopped and no connection to the leader breaks any
more is a premise of `JoinersServe`, not an assumption of the specification.

## Proofs

The Proofs modules are checked by TLAPS to the last leaf, from the named
assumptions of the modules only: the constants are any sets, flags are Booleans,
`MaxID` is positive, a marker's digest is no content's digest, a leader's
snapshots are well-formed (which `SnapshotsRestorable` proves of the snapshots
the nodes write), part numbers are natural numbers, contents are not empty, lists
that reach `CompleteMultipartUpload` are not empty (the handler rejects those),
there are finitely many keys (request paths, which the HTTP server bounds) and
nodes. Each inductive invariant was an invariant of a TLC run before it was
proved.

| Property | Theorem | Holds for every instance with |
|---|---|---|
| `TypeOK`, `VersionsOrdered` | `TypeCorrect`, `OrderedVersions` | no further condition |
| (history of a key) | `PreservedHistory` | no further condition |
| `StoreTypeOK`, `MissingOnlyAfterDelete` | `StoreTypeCorrect`, `BlobBeforeMetadata` | no further condition |
| `AckedVersionKept` | `AckedVersionsKept` | bucket calls one after the other, or no bucket deletes |
| `MultipartTypeOK`, `RecordedOnDisk`, `ListedPartsAcked`, `LocksReleased`, `AssembledAsSent` | `MultipartTypeCorrect`, `PartsOnDisk`, `ObjectsOfAckedParts`, `NoLockLeft`, `ObjectsAsSent` | no further condition |
| `ReplicationTypeOK`, `CleanFollowsLog`, `SnapshotsSound`, `ImplementsLog` | `ReplicationTypeCorrect`, `CleanNodesFollowLog`, `SnapshotsRestorable`, `ReplicationImplementsLog` | no further condition |
| `PagesSorted`, `PagesComplete`, `PagesTrue`, `VersionsListed` | `PagesInOrder`, `NoLastingKeyMissed`, `OnlyVisibleKeys`, `AllVersionsListed` | no further condition |
| (newest first) | `NewestFirstBelowTen` | IDs of one digit |
| `JoinTypeOK` | `JoinTypeCorrect` | no further condition |

The two conditions are hypotheses of the theorems, not assumptions of the modules,
and "Where the code disagrees" shows what happens without them.

**MetaStore.** `IInv` says that the memory and the newest snapshot are both
well-formed: IDs increase along each slice and stay below `NextID`, `Current` is
the last index, and a key exists only in a bucket whose map is not nil.
`VersionsOrdered` alone is not inductive: `Restart` and `RestoreLocked` copy the
snapshot into memory, so that the snapshot must be ordered too. `PreservedHistory`
is about steps: while a key keeps a version, no step rewrites one or takes its
counter back, unless it returns to the snapshot. What it exempts, the key whose
last version goes, is the reuse of IDs listed above. The lemmas of
`VersionStateProofs` say what `AppendVersion` and `RemoveVersion` do to an
ordered key; Replication's proofs use them as well.

**Store.** `StoreInv` adds to `MissingOnlyAfterDelete` that a content which a PUT
has opened is safe (its file exists or a DELETE has removed one) until it is
registered, and that an open file that is still linked exists. Registration is
then the step that takes a safe content into the metadata, and `DeleteRemove` the
only step that removes a file and records it.

`StoreRequestProofs` has `AckedVersionKept`, on top of `StoreInv`. `KeptInv` says it
of every PUT that has created a version, answered or not, since what happens before
the answer counts. A slice only grows at its end, and a permanent delete cuts out
the entry with the ID it names, of which there is one because IDs increase
(`KeptOnAppend`, `KeptOnRemove`): every other version stays, at another index. What
else could take it away is the empty map of `CreateBucketLocked`. `BucketsInv` says
that whoever has yet to do that step has its bucket in BoltDB and not in the cache,
so that no PUT has been applied to it since; a second caller that may delete breaks
this, no step of an object request does.

**Multipart.** `MultipartInv` says, per request, what it has behind it: after its
write the part file exists unless the upload is gone or being removed; what
Complete has checked is acknowledged; who holds which mutex at which step. The
argument rests on two facts the steps keep: an upload that is gone stays gone,
and files disappear only with their upload (`OthersKept`, `DiskKept`); each
action then has a lemma. `OnceInv` gives `ObjectsAsSent`. Of a part that was sent
once it says that at most one request is at work on it, and that its file, once
the part is recorded and unless it was removed, holds the recorded content; of a Complete that what it
checked is recorded, and what it has read so far are the listed contents, in the
order of the part numbers. A file that was removed and not made again fails the
read and with it the Complete. No induction over the list is needed, because what
is registered is the sequence of what was read, and equal sequences have equal
concatenations.

**Replication.** `ReplicationInv`: `canon` is what the entries of the log give one
by one, nobody is beyond the end of the log, and memory and snapshots of every
node, clean or not, are well-formed. `CleanFollowsLog` alone is not inductive: an
installed snapshot is merged over the keys the node has, and that this gives the
snapshot again follows only from the keys without versions being absent. In the
refinement `Submit` is a commit of the abstract log; `FsmApply` applies an entry;
`FsmRefuse`, `DeleteMark` and the bucket calls stray, or apply where they change
nothing; `Persist` saves, `Restart` falls back and `InstallSnapshot` catches up. It
needs beside `CleanFollowsLog` that a snapshot, written or under way, is not ahead
of its node (`IndexInv`).

**Listing.** `ListInv`: the token separates what was sent from what is to come.
All sent keys are at most the token, and a key that has been visible all the time
and is at most the token was sent. One page keeps this because it holds all
visible keys above the token up to the next one; the lemmas about `SortedSeq`
(a bijection in the order of the keys exists for every finite set) give that. The
metadata may change in any way MetaStore allows between two pages.

`AllVersionsListed` is about one state, and takes from MetaStore (`ListingImplements`
carries its invariants over) that IDs increase along a slice and that `Current` is
the newest. Three things are proved on the way. For every finite set and strict
order an arrangement exists and `SortedSeq` is one (`SortedSeqFacts`). The
recursive function `decimal` satisfies its equation (`DecimalFacts`): the
functions that satisfy it up to a bound agree where both are defined
(`UpToAgree`) and exist for every bound (`UpToExists`). Decimals of equal length
compare as strings the way the numbers do (`DecimalOrder`), which gives
`NewestFirstBelowTen`. The library's
induction theorems take an operator as their parameter, which the provers cannot
instantiate; these lemmas argue by a least counterexample instead, whose
existence (`MinimalExists` for finite sets, well-foundedness of the naturals) is
a statement about sets.

**Join.** `JoinTypeOK` is inductive as it stands; beside the types it says that a
leader runs and that at most one change of the voters is under way.

Only model-checked: the liveness properties `RequestsEnd`, `StaleReaped` and
`JoinersServe` (fairness and `ENABLED` are out of the prover's reach), and every
violation. Every invariant and action property of a passing run is a theorem.

## Not modelled

- *SigV4, XML, routing, the configuration file*: stateless or straight-line code.
  One consequence of routing stands outside the models: `/internal/` paths go to
  the join handler, so that a bucket named `internal` takes no objects.
- *HEAD of a bucket, ListBuckets, ListMultipartUploads*: they only read.
- *`delete_object` of ApplyOp*: no code sends it. `DeleteObjectLegacy`: no code
  calls it.
- *hashicorp/raft and BoltDB*: external; modelled by their effects on the code
  that calls them. A transaction is atomic; an entry that is committed is applied
  once per process life, on one goroutine, or not at all. In `Store` an entry
  whose Apply returned an error is applied at that moment or never; when it is
  applied later than the client is told, the model has the answer late. In
  `Replication` an entry is applied whenever a node gets there. Terms and uncommitted
  entries are left out of `Replication`, the log out of `Join`.
- *Restarts and the standalone mode in Store*: a restart replays the log;
  `MetaStore` and `Replication` have it. `main` always wires Raft.
- *The removal of voters*: the code has none.
- *A data race inside a single read through a pointer*, see the abstractions above.

## Plan

1. Store and Multipart composed: Complete as a writer of blobs beside PUT and
   DELETE, so that `MissingOnlyAfterDelete` covers assembled objects as well.
2. A theorem that a clean node's listing is a listing of the log's metadata, from
   `CleanFollowsLog` and `ListInv`.
