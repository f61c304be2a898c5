------------------------------- MODULE Store -------------------------------
(***************************************************************************)
(* The object requests of one jario node: internal/store/store.go over     *)
(* MetaStore and the blob directory, called by the handlers putObject,     *)
(* getObject, headObject and deleteObject of internal/api/api.go.          *)
(*                                                                         *)
(* Every request runs on a goroutine of its own (Threads) and takes        *)
(* several steps: a blob write truncates the file and then fills it,       *)
(* raftApply registers the metadata, and what a request looked up under    *)
(* the mutex it reads, field by field, after the mutex is released.        *)
(*                                                                         *)
(* The lookups of MetaStore return a pointer into the slice Versions, so   *)
(* that a request sees later writes to that slot: ptr[t] is the slot a     *)
(* request points to and the entry it reads there now.  append moves the   *)
(* slice to a new array when the old one is full (cap), which leaves old   *)
(* pointers on the old array (at = 0).                                     *)
(*                                                                         *)
(* The node is wired to Raft, as main always does.  Of Raft, which is      *)
(* external, this module has the outcomes a caller of RaftNode.Apply can   *)
(* meet on one node.  Restarts, which replay the log, are in Replication,  *)
(* and what they do to a bucket's map in MetaStore.                        *)
(***************************************************************************)
EXTENDS MetaStore, FiniteSets

CONSTANTS
  Threads,     \* goroutines serving object requests
  Ops,         \* which requests clients send
  DiskFails    \* TRUE when writing a blob may fail (a full disk)

ASSUME OpsAssumption ==
  Ops \subseteq {"put", "get", "head", "mark", "del", "rmbucket"}

ASSUME DiskFailsAssumption == DiskFails \in BOOLEAN

ASSUME RaftAssumption == Wired

ASSUME NamesAssumption == Buckets # {} /\ Keys # {}

VARIABLES
  blobs,     \* the file blobs/<sha[:2]>/<sha> of every content
  removed,   \* history: contents whose file some DELETE has removed
  taken,     \* history: PUTs whose version a DELETE or a bucket delete took away
  pc,        \* the next step of each request
  job,       \* its parameters
  ptr,       \* its pointer into a slice of versions
  fd,        \* its open blob file
  cap,       \* capacity of the array under each key's Versions
  resp       \* its response

reqVars   == <<pc, job, resp>>
storeVars == <<blobs, removed, taken, pc, job, ptr, fd, cap, resp>>
vars      == <<metaVars, storeVars>>

(***************************************************************************)
(* A job's vid is the version ID the client names, 0 for none; for a PUT   *)
(* it records the ID that applying it handed out.  Its sha is the content  *)
(* of the blob file it writes or has opened; for a DELETE it records the   *)
(* content of the version it was asked to delete.                          *)
(***************************************************************************)
Jobs == [op : {"put", "get", "head", "mark", "del"}, b : Buckets, k : Keys,
         sha : Shas \cup {NoSha}, vid : 0..MaxID]
noJob == [op |-> "get", b |-> CHOOSE b \in Buckets : TRUE,
          k |-> CHOOSE k \in Keys : TRUE, sha |-> NoSha, vid |-> 0]

noPtr == [at |-> 0, val |-> [id |-> 0, sha |-> NoSha]]

\* What the client sees: an HTTP status class and the version ID and ETag headers.
\* How much of the body arrives is the state of the file the request has open.
Responses == [status : {"none", "ok", "notfound", "marker", "error", "panic"},
              vid : 0..MaxID, etag : Shas \cup {NoSha}]
noResp == [status |-> "none", vid |-> 0, etag |-> NoSha]
Status(s) == [noResp EXCEPT !.status = s]

StoreInit ==
  /\ Init
  /\ blobs = [s \in Shas |-> "absent"]
  /\ removed = {} /\ taken = {}
  /\ pc = [t \in Threads |-> "idle"]
  /\ job = [t \in Threads |-> noJob]
  /\ ptr = [t \in Threads |-> noPtr]
  /\ fd = [t \in Threads |-> "none"]
  /\ cap = [b \in Buckets |-> [k \in Keys |-> 0]]
  /\ resp = [t \in Threads |-> noResp]

-----------------------------------------------------------------------------
Goto(t, label) ==
  /\ pc' = [pc EXCEPT ![t] = label]
  /\ UNCHANGED resp

Reply(t, r) ==
  /\ pc' = [pc EXCEPT ![t] = "done"]
  /\ resp' = [resp EXCEPT ![t] = r]

\* A handler that returns lets go of its pointer and closes its file.
Return(t, r) ==
  /\ Reply(t, r)
  /\ ptr' = [ptr EXCEPT ![t] = noPtr]
  /\ fd' = [fd EXCEPT ![t] = "none"]

\* The response has left; the goroutine serves its next request.
Finish(t) ==
  /\ pc[t] = "done"
  /\ pc' = [pc EXCEPT ![t] = "idle"]
  /\ job' = [job EXCEPT ![t] = noJob]
  /\ ptr' = [ptr EXCEPT ![t] = noPtr]
  /\ fd' = [fd EXCEPT ![t] = "none"]
  /\ resp' = [resp EXCEPT ![t] = noResp]
  /\ taken' = taken \ {t}
  /\ UNCHANGED <<metaVars, blobs, removed, cap>>

\* Bound: version IDs of a key that puts in progress have yet to take.
Pending(b, k) ==
  {t \in Threads : /\ pc[t] \in {"write", "register"}
                   /\ job[t].b = b /\ job[t].k = k}
HasRoom(b, k) == objects[b][k].nextID + Cardinality(Pending(b, k)) <= MaxID

-----------------------------------------------------------------------------
(* Pointers into the slice of a key, when the slice changes. *)

PointsTo(t, b, k) == ptr[t].at > 0 /\ job[t].b = b /\ job[t].k = k

\* append(vs.Versions, m): into the array when it has room, and then over
\* whatever a pointer to that slot still shows; else into a larger one.
MoveOnAppend(b, k, m) ==
  LET n == Len(objects[b][k].versions)
  IN  IF n < cap[b][k]
      THEN /\ ptr' = [t \in Threads |->
                        IF PointsTo(t, b, k) /\ ptr[t].at = n + 1
                        THEN [ptr[t] EXCEPT !.val = m] ELSE ptr[t]]
           /\ UNCHANGED cap
      ELSE /\ ptr' = [t \in Threads |->
                        IF PointsTo(t, b, k) THEN [ptr[t] EXCEPT !.at = 0] ELSE ptr[t]]
           /\ cap' = [cap EXCEPT ![b][k] = IF n = 0 THEN 1 ELSE 2 * n]

\* append(v[:i], v[i+1:]...) shifts the later entries down inside the array,
\* under the pointers to them; the last slot keeps what it held.
MoveOnRemove(b, k, i) ==
  LET v == objects[b][k].versions
  IN  /\ ptr' = [t \in Threads |->
                   IF ~ PointsTo(t, b, k) THEN ptr[t]
                   ELSE IF Len(v) = 1 THEN [ptr[t] EXCEPT !.at = 0]
                   ELSE IF ptr[t].at \in i..Len(v) - 1
                   THEN [ptr[t] EXCEPT !.val = v[ptr[t].at + 1]]
                   ELSE ptr[t]]
      /\ cap' = IF Len(v) = 1 THEN [cap EXCEPT ![b][k] = 0] ELSE cap

\* The map of bucket b is replaced or dropped.
MoveOnClear(b) ==
  /\ ptr' = [t \in Threads |->
               IF job[t].b = b THEN [ptr[t] EXCEPT !.at = 0] ELSE ptr[t]]
  /\ cap' = [cap EXCEPT ![b] = [k \in Keys |-> 0]]

-----------------------------------------------------------------------------
(* PUT: PutObject.  os.WriteFile opens and truncates, then writes. *)

PutOpenIgnoresError(t, b, k, s) ==       \* mutant: writeBlob's error is dropped
  /\ "put" \in Ops /\ pc[t] = "idle" /\ HasRoom(b, k)
  /\ job' = [job EXCEPT ![t] = [op |-> "put", b |-> b, k |-> k, sha |-> s, vid |-> 0]]
  /\ \/ DiskFails /\ Goto(t, "register") /\ UNCHANGED <<blobs, fd>>
     \/ /\ blobs' = [blobs EXCEPT ![s] = "partial"]
        /\ fd' = [fd EXCEPT ![t] = "linked"]
        /\ Goto(t, "write")
  /\ UNCHANGED <<metaVars, removed, taken, ptr, cap>>

PutOpen(t, b, k, s) ==
  /\ "put" \in Ops /\ pc[t] = "idle" /\ HasRoom(b, k)
  /\ job' = [job EXCEPT ![t] = [op |-> "put", b |-> b, k |-> k, sha |-> s, vid |-> 0]]
  /\ \/ /\ DiskFails
        /\ Reply(t, Status("error"))
        /\ UNCHANGED <<blobs, fd>>
     \/ /\ blobs' = [blobs EXCEPT ![s] = "partial"]
        /\ fd' = [fd EXCEPT ![t] = "linked"]
        /\ Goto(t, "write")
  /\ UNCHANGED <<metaVars, removed, taken, ptr, cap>>

\* A file that was unlinked meanwhile is filled all the same, but not under its
\* name.
PutWrite(t) ==
  /\ pc[t] = "write"
  /\ \/ /\ DiskFails
        /\ Reply(t, Status("error"))
        /\ UNCHANGED blobs
     \/ /\ blobs' = IF fd[t] = "linked" THEN [blobs EXCEPT ![job[t].sha] = "full"]
                    ELSE blobs
        /\ Goto(t, "register")
  /\ fd' = [fd EXCEPT ![t] = "none"]
  /\ UNCHANGED <<metaVars, removed, taken, job, ptr, cap>>

\* ApplyOp("put_object") creates the version, or fails and changes nothing.
ApplyPut(t) ==
  LET b == job[t].b
      k == job[t].k
  IN  /\ PutObject(b, k, job[t].sha)
      /\ MoveOnAppend(b, k, [id |-> objects[b][k].nextID, sha |-> job[t].sha])
      /\ job' = [job EXCEPT ![t].vid = objects[b][k].nextID]

PutFails(t) == job[t].b \notin cache /\ UNCHANGED <<metaVars, ptr, cap, job>>

\* raftApply through RaftNode.Apply, which returns nil once the entry is
\* committed, whatever the FSM answered, and an error when this node does not
\* lead, or stops leading while it waits: the entry may be applied all the same.
PutRegister(t) ==
  /\ pc[t] = "register"
  /\ \/ ApplyPut(t) /\ Goto(t, "readback")
     \/ PutFails(t) /\ Goto(t, "readback")
     \/ ApplyPut(t) /\ Reply(t, Status("error"))
     \/ /\ Reply(t, Status("error"))
        /\ UNCHANGED <<metaVars, ptr, cap, job>>
  /\ UNCHANGED <<blobs, removed, taken, fd>>

\* The current version of the key is looked up ...
PutReadBack(t) ==
  LET vs == objects[job[t].b][job[t].k]
  IN  /\ pc[t] = "readback"
      /\ \/ \E i \in 1..Len(vs.versions) :
              /\ IsCurrentAt(vs, i)
              /\ ptr' = [ptr EXCEPT ![t] = [at |-> i, val |-> vs.versions[i]]]
              /\ Goto(t, "name")
         \/ /\ ~ \E i \in 1..Len(vs.versions) : IsCurrentAt(vs, i)
            /\ Reply(t, [Status("ok") EXCEPT !.etag = job[t].sha])
            /\ UNCHANGED ptr
      /\ UNCHANGED <<metaVars, blobs, removed, taken, job, fd, cap>>

PutNameNextID(t) ==                      \* mutant: the ID after the new one
  /\ pc[t] = "name"
  /\ Return(t, [Status("ok") EXCEPT !.vid = objects[job[t].b][job[t].k].nextID])
  /\ UNCHANGED <<metaVars, blobs, removed, taken, job, cap>>

\* ... and its ID is answered as the new one.
PutName(t) ==
  /\ pc[t] = "name"
  /\ Return(t, [Status("ok") EXCEPT !.vid = ptr[t].val.id, !.etag = job[t].sha])
  /\ UNCHANGED <<metaVars, blobs, removed, taken, job, cap>>

-----------------------------------------------------------------------------
(* GET, HEAD and DELETE with a version ID begin with a lookup under the read *)
(* lock: GetObject without, GetObjectVersion with a version ID.              *)

Found(b, k, v, i) ==
  IF v = 0 THEN IsCurrentAt(objects[b][k], i) ELSE IsVersionAt(objects[b][k], v, i)

firstStep == [get |-> "open", head |-> "flag", del |-> "unregister"]

Lookup(t, op, b, k, v) ==
  LET slots == {i \in 1..Len(objects[b][k].versions) : Found(b, k, v, i)}
      new(s) == [op |-> op, b |-> b, k |-> k, sha |-> s, vid |-> v]
  IN  /\ op \in Ops /\ pc[t] = "idle"
      /\ op = "del" => v # 0
      /\ \/ \E i \in slots :
              LET m == objects[b][k].versions[i]
              IN  /\ ptr' = [ptr EXCEPT ![t] = [at |-> i, val |-> m]]
                  /\ job' = [job EXCEPT ![t] = new(IF op = "del" THEN m.sha ELSE NoSha)]
                  /\ Goto(t, firstStep[op])
         \/ /\ slots = {}
            /\ job' = [job EXCEPT ![t] = new(NoSha)]
            /\ Reply(t, Status("notfound"))
            /\ UNCHANGED ptr
      /\ UNCHANGED <<metaVars, blobs, removed, taken, fd, cap>>

\* os.Open(blobPath(meta.Sha256)): blobPath slices the first two characters of
\* the digest, and a delete marker has none.
GetOpen(t) ==
  LET s == ptr[t].val.sha
  IN  /\ pc[t] = "open"
      /\ \/ s = NoSha /\ Reply(t, Status("panic")) /\ UNCHANGED <<job, fd>>
         \/ /\ s # NoSha /\ blobs[s] = "absent"
            /\ Reply(t, Status("error"))
            /\ UNCHANGED <<job, fd>>
         \/ /\ s # NoSha /\ blobs[s] # "absent"
            /\ job' = [job EXCEPT ![t].sha = s]
            /\ fd' = [fd EXCEPT ![t] = "linked"]
            /\ Goto(t, "flag")
      /\ UNCHANGED <<metaVars, blobs, removed, taken, ptr, cap>>

\* The handlers read the fields of meta one by one, with no lock held: first
\* IsDeleteMarker ...
ReadFlag(t) ==
  /\ pc[t] = "flag"
  /\ Goto(t, IF IsDeleteMarker(ptr[t].val) THEN "marker" ELSE "etag")
  /\ UNCHANGED <<metaVars, blobs, removed, taken, job, ptr, fd, cap>>

\* ... of a marker only the VersionID ...
ReadMarker(t) ==
  /\ pc[t] = "marker"
  /\ Return(t, [Status("marker") EXCEPT !.vid = ptr[t].val.id])
  /\ UNCHANGED <<metaVars, blobs, removed, taken, job, cap>>

\* ... of another version the ETag, and then the VersionID.
ReadETag(t) ==
  /\ pc[t] = "etag"
  /\ pc' = [pc EXCEPT ![t] = "vid"]
  /\ resp' = [resp EXCEPT ![t].etag = ptr[t].val.sha]
  /\ UNCHANGED <<metaVars, blobs, removed, taken, job, ptr, fd, cap>>

ReadVersionID(t) ==
  LET r == [resp[t] EXCEPT !.vid = ptr[t].val.id]
  IN  /\ pc[t] = "vid"
      /\ \/ job[t].op = "head" /\ Return(t, [r EXCEPT !.status = "ok"])
         \/ /\ job[t].op = "get"
            /\ pc' = [pc EXCEPT ![t] = "copy"]
            /\ resp' = [resp EXCEPT ![t] = r]
            /\ UNCHANGED <<ptr, fd>>
      /\ UNCHANGED <<metaVars, blobs, removed, taken, job, cap>>

\* io.Copy of what the file holds.
GetCopy(t) ==
  /\ pc[t] = "copy"
  /\ Return(t, [resp[t] EXCEPT !.status = "ok"])
  /\ UNCHANGED <<metaVars, blobs, removed, taken, job, cap>>

-----------------------------------------------------------------------------
(* DELETE: DeleteObject. *)

\* Without a version ID the marker is made here, not through raftApply.
DeleteMark(t, b, k) ==
  /\ "mark" \in Ops /\ pc[t] = "idle"
  /\ job' = [job EXCEPT ![t] = [op |-> "mark", b |-> b, k |-> k, sha |-> NoSha, vid |-> 0]]
  /\ \/ /\ HasRoom(b, k)
        /\ PutDeleteMarker(b, k)
        /\ MoveOnAppend(b, k, [id |-> objects[b][k].nextID, sha |-> NoSha])
        /\ Reply(t, Status("ok"))
     \/ /\ b \notin cache \/ ~ HasKey(objects[b][k])
        /\ Reply(t, Status("notfound"))
        /\ UNCHANGED <<metaVars, ptr, cap>>
  /\ UNCHANGED <<blobs, removed, taken, fd>>

\* The PUTs that have created the version t deletes.
PutsOf(t) ==
  {u \in Threads : /\ job[u].op = "put" /\ job[u].vid = job[t].vid
                   /\ job[u].b = job[t].b /\ job[u].k = job[t].k}

ApplyDelete(t) ==
  LET b == job[t].b
      k == job[t].k
  IN  /\ DeleteVersion(b, k, job[t].vid)
      /\ \E i \in 1..Len(objects[b][k].versions) :
            IsVersionAt(objects[b][k], job[t].vid, i) /\ MoveOnRemove(b, k, i)
      /\ taken' = taken \cup PutsOf(t)

DeleteFails(t) ==
  LET vs == objects[job[t].b][job[t].k]
  IN  /\ \/ job[t].b \notin cache
         \/ \A i \in 1..Len(vs.versions) : ~ IsVersionAt(vs, job[t].vid, i)
      /\ UNCHANGED <<metaVars, taken, ptr, cap>>

DeleteUnregister(t) ==
  /\ pc[t] = "unregister"
  /\ \/ ApplyDelete(t) /\ Goto(t, "check")
     \/ DeleteFails(t) /\ Goto(t, "check")
     \/ ApplyDelete(t) /\ Reply(t, Status("error"))
     \/ /\ Reply(t, Status("error"))
        /\ UNCHANGED <<metaVars, taken, ptr, cap>>
  /\ UNCHANGED <<blobs, removed, job, fd>>

\* !meta.IsDeleteMarker, meta being the pointer of the lookup ...
DeleteCheck(t) ==
  /\ pc[t] = "check"
  /\ \/ IsDeleteMarker(ptr[t].val) /\ Return(t, Status("ok"))
     \/ ~ IsDeleteMarker(ptr[t].val) /\ Goto(t, "remove") /\ UNCHANGED <<ptr, fd>>
  /\ UNCHANGED <<metaVars, blobs, removed, taken, job, cap>>

\* ... and os.Remove(blobPath(meta.Sha256)), whose error is ignored; blobPath
\* panics if the slot has become a marker's.  Those who have the file open keep it.
DeleteRemove(t) ==
  LET s == ptr[t].val.sha
  IN  /\ pc[t] = "remove"
      /\ IF s = NoSha \/ blobs[s] = "absent"
         THEN UNCHANGED <<blobs, removed, fd>>
         ELSE /\ blobs' = [blobs EXCEPT ![s] = "absent"]
              /\ removed' = removed \cup {s}
              /\ fd' = [u \in Threads |->
                          IF fd[u] = "linked" /\ job[u].sha = s THEN "unlinked" ELSE fd[u]]
      /\ Reply(t, Status(IF s = NoSha THEN "panic" ELSE "ok"))
      /\ ptr' = [ptr EXCEPT ![t] = noPtr]
      /\ UNCHANGED <<metaVars, taken, job, cap>>

-----------------------------------------------------------------------------
(* Bucket calls. *)

BucketCall(c, b) ==
  /\ \/ CreateBucket(c, b)
     \/ "rmbucket" \in Ops /\ DeleteBucket(c, b)
  /\ UNCHANGED storeVars

\* Deleting a bucket takes the versions in it away; creating one should not.
BucketCallLocked(c, b) ==
  /\ \/ b \in creating[c] /\ CreateBucketLocked(c) /\ UNCHANGED taken
     \/ /\ b \in deleting[c] /\ DeleteBucketLocked(c)
        /\ taken' = taken \cup {t \in Threads : job[t].op = "put" /\ job[t].b = b /\ job[t].vid # 0}
  /\ MoveOnClear(b)
  /\ UNCHANGED <<blobs, removed, reqVars, fd>>

StoreNext ==
  \/ \E t \in Threads, b \in Buckets, k \in Keys :
        \/ \E s \in Shas : PutOpen(t, b, k, s)
        \/ \E op \in {"get", "head", "del"}, v \in 0..MaxID : Lookup(t, op, b, k, v)
        \/ DeleteMark(t, b, k)
  \/ \E t \in Threads :
        \/ PutWrite(t) \/ PutRegister(t) \/ PutReadBack(t) \/ PutName(t)
        \/ GetOpen(t) \/ ReadFlag(t) \/ ReadMarker(t)
        \/ ReadETag(t) \/ ReadVersionID(t) \/ GetCopy(t)
        \/ DeleteUnregister(t) \/ DeleteCheck(t) \/ DeleteRemove(t)
        \/ Finish(t)
  \/ \E c \in Callers, b \in Buckets : BucketCall(c, b) \/ BucketCallLocked(c, b)

StoreSpec == StoreInit /\ [][StoreNext]_vars

-----------------------------------------------------------------------------
(* Properties. *)

\* The type of the variables of this module.
StoreTypeOK ==
  /\ blobs \in [Shas -> {"absent", "partial", "full"}]
  /\ removed \subseteq Shas /\ taken \subseteq Threads
  /\ pc \in [Threads -> {"idle", "write", "register", "readback", "name", "open", "flag",
                         "marker", "etag", "vid", "copy", "unregister", "check", "remove",
                         "done"}]
  /\ job \in [Threads -> Jobs]
  /\ ptr \in [Threads -> [at : Nat, val : [id : 0..MaxID, sha : Shas \cup {NoSha}]]]
  /\ fd \in [Threads -> {"none", "linked", "unlinked"}]
  /\ cap \in [Buckets -> [Keys -> Nat]]
  /\ resp \in [Threads -> Responses]

Answered(t, op) == pc[t] = "done" /\ job[t].op = op /\ resp[t].status = "ok"

\* The contents of the versions that are not delete markers.
Registered ==
  {s \in Shas : \E b \in Buckets, k \in Keys :
                   \E i \in 1..Len(objects[b][k].versions) :
                      objects[b][k].versions[i].sha = s}

\* A version is registered only after its blob is on disk (store.go: writeBlob
\* before raftApply), whatever fails and whoever else is at work: the file of a
\* registered content is missing only if a DELETE removed a file of that content.
MissingOnlyAfterDelete == \A s \in Registered : blobs[s] = "absent" => s \in removed

IsVersionOf(b, k, m) ==
  \E i \in 1..Len(objects[b][k].versions) : objects[b][k].versions[i] = m

\* "Every `PUT` creates a new version" (README.md:105), and only a DELETE of that
\* version or of the bucket takes it away again: until then the version that an
\* answered PUT has created is in the slice, with its content and its own ID,
\* although other requests append to the slice, cut entries out of it and shift
\* the rest, and buckets come and go (meta.go: PutObject, DeleteObject,
\* CreateBucket).
AckedVersionKept ==
  \A t \in Threads \ taken :
     Answered(t, "put") /\ job[t].vid # 0 =>
       IsVersionOf(job[t].b, job[t].k, [id |-> job[t].vid, sha |-> job[t].sha])

\* "Blobs are content-addressed and idempotent -- safe to retry" (README.md:41):
\* the blob of a registered version is complete unless a PUT of the same content
\* is rewriting it right now.
RegisteredReadable ==
  \A s \in Registered :
     blobs[s] = "full" \/ \E t \in Threads : pc[t] = "write" /\ job[t].sha = s

\* "Returns error to the Apply caller if the command fails" (fsm.go:22): a PUT
\* that is answered with success has created a version.
AckedPutRegistered == \A t \in Threads : Answered(t, "put") => job[t].vid # 0

\* "Specific versions are deleted permanently" (README.md:105), and the others
\* stay: the blob a DELETE is about to remove is the one of the version it was
\* asked to delete.
DeletesOwnBlob ==
  \A t \in Threads : pc[t] = "remove" => ptr[t].val.sha = job[t].sha
=============================================================================
