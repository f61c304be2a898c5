----------------------------- MODULE Multipart -----------------------------
(***************************************************************************)
(* Multipart uploads of one jario node: internal/store/multipart.go, the   *)
(* multipart handlers of internal/api/api.go and the reaper goroutine of   *)
(* cmd/server/main.go.                                                     *)
(*                                                                         *)
(* Every request runs on a goroutine of its own (Threads), the reaper on   *)
(* another.  Two mutexes are involved, multipart.mu (mu) and the mu of     *)
(* each upload (umu); a set holds the goroutine that owns the mutex and is *)
(* empty when it is free.  A critical section that never waits inside is   *)
(* one step.  The part files are written and removed without any mutex.    *)
(*                                                                         *)
(* A part's content d is Size[d] bytes d, so that a short write over a     *)
(* longer file shows; its ETag, the sha256 of the bytes, is d itself.      *)
(* Requests that name another bucket or key than the upload's own are      *)
(* answered like those for an unknown upload and are left out.             *)
(***************************************************************************)
EXTENDS Naturals, Sequences, FiniteSets, SequencesExt

CONSTANTS
  Threads,     \* goroutines serving multipart requests
  Reaper,      \* the goroutine that aborts stale uploads
  Uploads,     \* upload IDs; an ID is handed out once
  Parts,       \* part numbers
  Data, Size,  \* contents of parts and their lengths
  Lists,       \* the part lists clients send with CompleteMultipartUpload
  Ops,         \* which requests are sent, and "reap" when the reaper runs
  Wired,       \* TRUE when Raft registers the object, FALSE standalone
  Faults,      \* TRUE when file operations may fail
  Crashes,     \* TRUE when the process may restart
  MaxObjects   \* bound: how many objects uploads create

Bytes(d) == [i \in 1..Size[d] |-> d]
Listed == [n : Parts, d : Data]

ASSUME ProcsAssumption == Reaper \notin Threads
ASSUME NamesAssumption == Uploads # {} /\ Parts # {} /\ Data # {}
ASSUME PartsAssumption == Parts \subseteq Nat
ASSUME SizeAssumption == Size \in [Data -> Nat \ {0}]
ASSUME ListsAssumption == \A l \in Lists : l \in Seq(Listed) /\ l # <<>>
ASSUME FlagsAssumption == Wired \in BOOLEAN /\ Faults \in BOOLEAN /\ Crashes \in BOOLEAN
ASSUME MaxObjectsAssumption == MaxObjects \in Nat

VARIABLES
  bucket,    \* TRUE while the bucket exists
  issued,    \* upload IDs handed out so far
  uploads,   \* the keys of multipartState.uploads
  aged,      \* uploads older than maxAge
  parts,     \* multipartUpload.parts: the recorded ETag, {} if none
  dirs,      \* uploads whose part directory exists
  files,     \* the bytes of each part file, {} if there is none
  mu, umu,   \* owner of multipart.mu and of each upload's mu
  pc,        \* the next step of each request
  job,       \* its parameters
  linked,    \* requests whose open part file is still the one in the directory
  got,       \* the part files Complete has read so far
  resp,      \* its response
  rpc,       \* the next step of the reaper
  todo,      \* uploads the reaper has yet to look at, or is removing
  stale,     \* uploads the reaper will remove
  objects,   \* history: the part lists of the objects that uploads have created
  acked,     \* history: the parts that were answered with success
  sends      \* history: how often a part was written to its file, twice for more

disk     == <<dirs, files, linked>>
locks    == <<mu, umu>>
reaper   == <<rpc, todo, stale>>
history  == <<objects, acked, sends>>
request  == <<pc, job, got, resp>>
registry == <<bucket, issued, uploads, aged, parts>>
mpVars   == <<registry, disk, locks, request, reaper, history>>

Jobs == [op : {"new", "part", "complete", "abort", "list"},
         u : Uploads, n : Parts, d : Data, list : Seq(Listed)]
noJob == [op |-> "new", u |-> CHOOSE u \in Uploads : TRUE,
          n |-> CHOOSE n \in Parts : TRUE, d |-> CHOOSE d \in Data : TRUE,
          list |-> <<>>]
noFiles == [u \in Uploads |-> [n \in Parts |-> {}]]

MultipartInit ==
  /\ bucket = TRUE /\ issued = {} /\ uploads = {} /\ aged = {}
  /\ parts = noFiles
  /\ dirs = {} /\ files = noFiles /\ linked = {}
  /\ mu = {} /\ umu = [u \in Uploads |-> {}]
  /\ pc = [t \in Threads |-> "idle"] /\ job = [t \in Threads |-> noJob]
  /\ got = [t \in Threads |-> <<>>] /\ resp = [t \in Threads |-> "none"]
  /\ rpc = "idle" /\ todo = {} /\ stale = {}
  /\ objects = <<>> /\ acked = {}
  /\ sends = [u \in Uploads |-> [n \in Parts |-> 0]]

-----------------------------------------------------------------------------
Goto(t, label) ==
  /\ pc' = [pc EXCEPT ![t] = label]
  /\ UNCHANGED resp

Reply(t, status) ==
  /\ pc' = [pc EXCEPT ![t] = "done"]
  /\ resp' = [resp EXCEPT ![t] = status]

\* A request arrives.  Bounds: an upload is started while there are IDs left, a
\* Complete while an object may be created.
Busy(op) == Cardinality({t \in Threads : pc[t] # "idle" /\ job[t].op = op})

Arrive(t, j) ==
  /\ pc[t] = "idle" /\ j.op \in Ops
  /\ IF j.op = "new" THEN Cardinality(issued) + Busy("new") < Cardinality(Uploads)
     ELSE j.u \in issued
  /\ j.op = "complete" => Len(objects) + Busy("complete") < MaxObjects
  /\ job' = [job EXCEPT ![t] = j]
  /\ Goto(t, IF j.op = "new" THEN "new" ELSE "validate")
  /\ UNCHANGED <<registry, disk, locks, got, reaper, history>>

\* The response has left; the goroutine serves its next request.
Finish(t) ==
  /\ pc[t] = "done"
  /\ pc' = [pc EXCEPT ![t] = "idle"]
  /\ job' = [job EXCEPT ![t] = noJob]
  /\ got' = [got EXCEPT ![t] = <<>>]
  /\ resp' = [resp EXCEPT ![t] = "none"]
  /\ UNCHANGED <<registry, disk, locks, reaper, history>>

AddUploadUnissued(u) ==                  \* mutant: the ID is not a fresh one
  uploads' = uploads \cup {u} /\ UNCHANGED issued

AddUpload(u) == uploads' = uploads \cup {u} /\ issued' = issued \cup {u}

\* The bucket is looked up, then the upload gets a fresh ID (time and random
\* bytes) and enters the map.
NewMultipartUpload(t) ==
  /\ pc[t] = "new"
  /\ \/ /\ bucket /\ mu = {}
        /\ \E u \in Uploads \ issued : AddUpload(u)
        /\ Reply(t, "ok")
     \/ /\ ~ bucket
        /\ Reply(t, "notfound")
        /\ UNCHANGED <<issued, uploads>>
  /\ UNCHANGED <<bucket, aged, parts, disk, locks, job, got, reaper, history>>

\* validateUpload, with which every other request begins.
afterValidate ==
  [part |-> "mkdir", complete |-> "get", abort |-> "rmdir", list |-> "get"]

validateUpload(t) ==
  /\ pc[t] = "validate" /\ mu = {}
  /\ IF job[t].u \in uploads THEN Goto(t, afterValidate[job[t].op])
     ELSE Reply(t, "notfound")
  /\ UNCHANGED <<registry, disk, locks, job, got, reaper, history>>

\* Complete and ListParts fetch the pointer to the upload.
afterGet == [complete |-> "check", list |-> "list"]

GetUpload(t) ==
  /\ pc[t] = "get" /\ mu = {}
  /\ IF job[t].u \in uploads THEN Goto(t, afterGet[job[t].op])
     ELSE Reply(t, "notfound")
  /\ UNCHANGED <<registry, disk, locks, job, got, reaper, history>>

\* ListParts reads the parts under the upload's mutex.
ListParts(t) ==
  /\ pc[t] = "list" /\ umu[job[t].u] = {}
  /\ Reply(t, "ok")
  /\ UNCHANGED <<registry, disk, locks, job, got, reaper, history>>

-----------------------------------------------------------------------------
(* UploadPart: the file first, the mutexes afterwards. *)

\* The body is read (or the client goes away), the directory made.
PartMkdir(t) ==
  /\ pc[t] = "mkdir"
  /\ \/ dirs' = dirs \cup {job[t].u} /\ Goto(t, "open")
     \/ UNCHANGED dirs /\ Reply(t, "error")
  /\ UNCHANGED <<registry, files, linked, locks, job, got, reaper, history>>

\* os.WriteFile opens and truncates: it fails when the directory has gone.
PartOpen(t) ==
  LET u == job[t].u
      n == job[t].n
  IN  /\ pc[t] = "open"
      /\ \/ /\ u \in dirs
            /\ files' = [files EXCEPT ![u][n] = {<<>>}]
            /\ linked' = linked \cup {t}
            /\ sends' = [sends EXCEPT ![u][n] = IF @ = 2 THEN 2 ELSE @ + 1]
            /\ Goto(t, "write")
         \/ /\ u \notin dirs \/ Faults
            /\ Reply(t, "error")
            /\ UNCHANGED <<files, linked, sends>>
      /\ UNCHANGED <<registry, dirs, locks, job, got, reaper, objects, acked>>

\* ... and writes from the start of the file, over what another request may
\* have written since.  A write that fails has written the first k bytes.
Overwrite(file, d, k) == [i \in 1..k |-> d] \o SubSeq(file, k + 1, Len(file))

PartWrite(t) ==
  LET u == job[t].u
      n == job[t].n
      d == job[t].d
  IN  /\ pc[t] = "write"
      /\ \E k \in 0..Size[d] :
            /\ files' = IF t \in linked
                        THEN [files EXCEPT ![u][n] = {Overwrite(f, d, k) : f \in files[u][n]}]
                        ELSE files
            /\ \/ k = Size[d] /\ Goto(t, "lock")
               \/ k < Size[d] /\ Faults /\ Reply(t, "error")
      /\ linked' = linked \ {t}
      /\ UNCHANGED <<registry, dirs, locks, job, got, reaper, history>>

PartLock(t) ==
  /\ pc[t] = "lock" /\ mu = {}
  /\ mu' = {t}
  /\ Goto(t, "record")
  /\ UNCHANGED <<registry, disk, umu, job, got, reaper, history>>

\* With multipart.mu held it waits for the upload's mutex ...
PartStored(t) ==
  LET u == job[t].u
  IN  /\ u \in uploads /\ umu[u] = {}
      /\ parts' = [parts EXCEPT ![u][job[t].n] = {job[t].d}]
      /\ acked' = acked \cup {<<u, job[t].n, job[t].d>>}
      /\ mu' = {}
      /\ Reply(t, "ok")

PartPanicsLocked(t) ==                   \* mutant: Unlock is not deferred
  job[t].u \notin uploads /\ Reply(t, "panic") /\ UNCHANGED <<parts, acked, mu>>

\* ... and if the upload has gone, u is nil and u.mu.Lock() panics; net/http
\* recovers the panic and the deferred Unlock releases multipart.mu.
PartPanics(t) ==
  job[t].u \notin uploads /\ Reply(t, "panic") /\ mu' = {} /\ UNCHANGED <<parts, acked>>

PartRecord(t) ==
  /\ pc[t] = "record"
  /\ PartStored(t) \/ PartPanics(t)
  /\ UNCHANGED <<bucket, issued, uploads, aged, disk, umu, job, got, reaper, objects, sends>>

-----------------------------------------------------------------------------
(* CompleteMultipartUpload: holds the upload's mutex from here to its end. *)

\* The arrangements sort.Slice may leave the list in.
SortedParts(list) ==
  {s \in {[i \in DOMAIN list |-> list[p[i]]] : p \in Bijection(DOMAIN list, DOMAIN list)} :
     \A i, j \in DOMAIN list : i < j => s[i].n <= s[j].n}

AllUploadedByNumber(u, s) ==             \* mutant: ETags are not compared
  \A i \in 1..Len(s) : parts[u][s[i].n] # {}

\* Every listed part was uploaded, with the listed ETag.
AllUploaded(u, s) == \A i \in 1..Len(s) : s[i].d \in parts[u][s[i].n]

CompleteCheck(t) ==
  LET u == job[t].u
  IN  /\ pc[t] = "check" /\ umu[u] = {}
      /\ \E s \in SortedParts(job[t].list) :
            \/ /\ AllUploaded(u, s)
               /\ job' = [job EXCEPT ![t].list = s]
               /\ umu' = [umu EXCEPT ![u] = {t}]
               /\ Goto(t, "read")
            \/ ~ AllUploaded(u, s) /\ Reply(t, "error") /\ UNCHANGED <<job, umu>>
      /\ UNCHANGED <<registry, disk, mu, got, reaper, history>>

\* The deferred u.mu.Unlock() of an early return.
CompleteFails(t) ==
  /\ Reply(t, "error")
  /\ umu' = [umu EXCEPT ![job[t].u] = {}]

CompleteReadAnyway(t) ==                 \* mutant: the error of os.ReadFile is ignored
  LET i    == Len(got[t]) + 1
      file == files[job[t].u][job[t].list[i].n]
  IN  /\ pc[t] = "read"
      /\ \E f \in file \cup {<<>>} : got' = [got EXCEPT ![t] = Append(@, f)]
      /\ Goto(t, IF i = Len(job[t].list) THEN "register" ELSE "read")
      /\ UNCHANGED <<registry, disk, locks, job, reaper, history>>

\* os.ReadFile of the next listed part.
CompleteRead(t) ==
  LET i    == Len(got[t]) + 1
      file == files[job[t].u][job[t].list[i].n]
  IN  /\ pc[t] = "read"
      /\ \/ /\ \E f \in file : got' = [got EXCEPT ![t] = Append(@, f)]
            /\ Goto(t, IF i = Len(job[t].list) THEN "register" ELSE "read")
            /\ UNCHANGED umu
         \/ (file = {} \/ Faults) /\ CompleteFails(t) /\ UNCHANGED got
      /\ UNCHANGED <<registry, disk, mu, job, reaper, history>>

\* writeBlob (which may fail), then raftApply: as PutRegister of module Store.
\* The object's data, the concatenation of the files read, is got[t].
Assembled(t) == [u |-> job[t].u, list |-> job[t].list]

CompleteRegister(t) ==
  /\ pc[t] = "register"
  /\ \/ /\ bucket
        /\ objects' = Append(objects, Assembled(t))
        /\ Goto(t, "rmdir") /\ UNCHANGED umu
     \/ /\ bucket /\ Wired
        /\ objects' = Append(objects, Assembled(t))
        /\ CompleteFails(t)
     \/ /\ ~ bucket /\ Wired
        /\ Goto(t, "rmdir") /\ UNCHANGED <<umu, objects>>
     \/ CompleteFails(t) /\ UNCHANGED objects
  /\ UNCHANGED <<registry, disk, mu, job, got, reaper, acked, sends>>

-----------------------------------------------------------------------------
(* cleanupUpload, which Complete, Abort and the reaper share. *)

\* os.RemoveAll; requests that have a part file open write to no name.  Its
\* error is ignored.
RemoveDir(u) ==
  \/ /\ dirs' = dirs \ {u}
     /\ files' = [files EXCEPT ![u] = [n \in Parts |-> {}]]
     /\ linked' = {t \in linked : job[t].u # u}
  \/ Faults /\ UNCHANGED disk

CleanupFiles(t) ==
  /\ pc[t] = "rmdir"
  /\ RemoveDir(job[t].u)
  /\ Goto(t, "forget")
  /\ UNCHANGED <<registry, locks, job, got, reaper, history>>

ForgetNothing(U) == UNCHANGED uploads    \* mutant: no delete(uploads, id)

Forget(U) == uploads' = uploads \ U

\* Complete still holds the upload's mutex here.
CleanupForget(t) ==
  /\ pc[t] = "forget" /\ mu = {}
  /\ Forget({job[t].u})
  /\ umu' = [umu EXCEPT ![job[t].u] = @ \ {t}]
  /\ Reply(t, "ok")
  /\ UNCHANGED <<bucket, issued, aged, parts, disk, mu, job, got, reaper, history>>

-----------------------------------------------------------------------------
(* AbortStaleUploads, called by the reaper at every tick. *)

ReapTick ==
  /\ "reap" \in Ops /\ rpc = "idle"
  /\ stale' = aged                       \* cutoff
  /\ rpc' = "lock"
  /\ UNCHANGED <<registry, disk, locks, request, todo, history>>

StaleAmongYoung(cut) == uploads \ cut    \* mutant: After instead of Before

StaleAmong(cut) == uploads \cap cut

ReapLock ==
  /\ rpc = "lock" /\ mu = {}
  /\ mu' = {Reaper}
  /\ todo' = uploads /\ stale' = StaleAmong(stale)
  /\ rpc' = "scan"
  /\ UNCHANGED <<registry, disk, umu, request, history>>

\* u.mu is taken for a moment to read u.initiated.
ReapVisit(u) ==
  /\ rpc = "scan" /\ u \in todo
  /\ umu[u] = {}
  /\ todo' = todo \ {u}
  /\ UNCHANGED <<registry, disk, locks, request, rpc, stale, history>>

ReapUnlock ==
  /\ rpc = "scan" /\ todo = {}
  /\ mu' = {}
  /\ rpc' = "sweep"
  /\ UNCHANGED <<registry, disk, umu, request, todo, stale, history>>

ReapFiles(u) ==
  /\ rpc = "sweep" /\ u \in stale
  /\ RemoveDir(u)
  /\ todo' = {u} /\ stale' = stale \ {u}
  /\ rpc' = "forget"
  /\ UNCHANGED <<registry, locks, request, history>>

ReapForget ==
  /\ rpc = "forget" /\ mu = {}
  /\ Forget(todo)
  /\ todo' = {}
  /\ rpc' = "sweep"
  /\ UNCHANGED <<bucket, issued, aged, parts, disk, locks, request, stale, history>>

ReapDone ==
  /\ rpc = "sweep" /\ stale = {}
  /\ rpc' = "idle"
  /\ UNCHANGED <<registry, disk, locks, request, todo, stale, history>>

-----------------------------------------------------------------------------
(* The surroundings: time, bucket calls, the end of the process. *)

Age(u) ==
  /\ u \in uploads \ aged
  /\ aged' = aged \cup {u}
  /\ UNCHANGED <<bucket, issued, uploads, parts, disk, locks, request, reaper, history>>

BucketCall ==
  /\ "rmbucket" \in Ops
  /\ bucket' = ~ bucket
  /\ UNCHANGED <<issued, uploads, aged, parts, disk, locks, request, reaper, history>>

\* newMultipartState starts empty; the part files stay.
Restart ==
  /\ Crashes
  /\ uploads' = {} /\ parts' = noFiles
  /\ linked' = {}
  /\ mu' = {} /\ umu' = [u \in Uploads |-> {}]
  /\ pc' = [t \in Threads |-> "idle"] /\ job' = [t \in Threads |-> noJob]
  /\ got' = [t \in Threads |-> <<>>] /\ resp' = [t \in Threads |-> "none"]
  /\ rpc' = "idle" /\ todo' = {} /\ stale' = {}
  /\ UNCHANGED <<bucket, issued, aged, dirs, files, history>>

-----------------------------------------------------------------------------
Call(t, u) ==
  \/ \E op \in {"abort", "list"} : Arrive(t, [noJob EXCEPT !.op = op, !.u = u])
  \/ \E n \in Parts, d \in Data :
        Arrive(t, [noJob EXCEPT !.op = "part", !.u = u, !.n = n, !.d = d])
  \/ \E l \in Lists : Arrive(t, [noJob EXCEPT !.op = "complete", !.u = u, !.list = l])

RequestStep(t) ==
  \/ Finish(t) \/ NewMultipartUpload(t)
  \/ validateUpload(t) \/ GetUpload(t) \/ ListParts(t)
  \/ PartMkdir(t) \/ PartOpen(t) \/ PartWrite(t) \/ PartLock(t) \/ PartRecord(t)
  \/ CompleteCheck(t) \/ CompleteRead(t) \/ CompleteRegister(t)
  \/ CleanupFiles(t) \/ CleanupForget(t)

ReapStep ==
  \/ ReapTick \/ ReapLock \/ ReapUnlock \/ ReapForget \/ ReapDone
  \/ \E u \in Uploads : ReapVisit(u) \/ ReapFiles(u)

MultipartNext ==
  \/ \E t \in Threads :
        RequestStep(t) \/ Arrive(t, noJob) \/ \E u \in Uploads : Call(t, u)
  \/ ReapStep
  \/ \E u \in Uploads : Age(u)
  \/ BucketCall
  \/ Restart

MultipartSpec == MultipartInit /\ [][MultipartNext]_mpVars

\* Goroutines that can go on do; a sync.Mutex is handed to its oldest waiter
\* after a millisecond, so that no waiter is passed over for ever.
MultipartFairSpec ==
  MultipartSpec /\ SF_mpVars(ReapStep) /\ \A t \in Threads : SF_mpVars(RequestStep(t))

-----------------------------------------------------------------------------
(* Properties. *)

\* The type of every variable.
MultipartTypeOK ==
  /\ bucket \in BOOLEAN
  /\ uploads \subseteq issued /\ issued \subseteq Uploads /\ aged \subseteq issued
  /\ parts \in [Uploads -> [Parts -> SUBSET Data]]
  /\ dirs \subseteq Uploads
  /\ files \in [Uploads -> [Parts -> SUBSET Seq(Data)]]
  /\ mu \subseteq Threads \cup {Reaper} /\ umu \in [Uploads -> SUBSET Threads]
  /\ pc \in [Threads -> {"idle", "new", "validate", "get", "list", "mkdir", "open",
                         "write", "lock", "record", "check", "read", "register",
                         "rmdir", "forget", "done"}]
  /\ job \in [Threads -> Jobs]
  /\ linked \subseteq Threads
  /\ got \in [Threads -> Seq(Seq(Data))]
  /\ resp \in [Threads -> {"none", "ok", "notfound", "error", "panic"}]
  /\ rpc \in {"idle", "lock", "scan", "sweep", "forget"}
  /\ todo \subseteq Uploads /\ stale \subseteq Uploads
  /\ objects \in Seq([u : Uploads, list : Seq(Listed)])
  /\ acked \subseteq Uploads \X Parts \X Data
  /\ sends \in [Uploads -> [Parts -> 0..2]]

\* Somebody is between removing the files of u and forgetting u.
BeingRemoved(u) ==
  \/ \E t \in Threads : pc[t] = "forget" /\ job[t].u = u
  \/ rpc = "forget" /\ u \in todo

\* UploadPart writes the file before it records the part, and cleanupUpload
\* forgets the upload after it removed the files (multipart.go): a part that the
\* upload in the map records has its file on disk, whichever UploadPart,
\* Complete, Abort and reaper run side by side -- a Complete that failed can be
\* retried.
RecordedOnDisk ==
  \A u \in uploads, n \in Parts :
     parts[u][n] # {} /\ ~ BeingRemoved(u) => files[u][n] # {}

\* Complete checks the client's list under the upload's mutex (multipart.go): an
\* object is made only of parts whose upload, with the ETag the list gives, was
\* answered with success.
ListedPartsAcked ==
  \A k \in 1..Len(objects) : \A i \in 1..Len(objects[k].list) :
     <<objects[k].u, objects[k].list[i].n, objects[k].list[i].d>> \in acked

\* A request that is over holds no mutex, the one that panicked included
\* (multipart.go: the deferred Unlocks).
LocksReleased ==
  \A t \in Threads :
     pc[t] \in {"idle", "done"} => t \notin mu /\ \A u \in Uploads : t \notin umu[u]

\* "Parts are ordered by partNumber and concatenated" (multipart.go:132): what
\* Complete registers is, in the order of the part numbers, the contents whose
\* ETags the client listed, whatever other requests, the reaper, failing file
\* operations and restarts do -- as long as no part of the list was sent twice.
\* The file of a part sent again is truncated and rewritten under the Complete
\* that reads it, and a second try that fails spoils the part that was acknowledged.
AssembledAsSent ==
  \A t \in Threads : pc[t] = "register" =>
     LET l == job[t].list
     IN  /\ \A i, j \in 1..Len(l) : i < j => l[i].n <= l[j].n
         /\ (\A i \in 1..Len(l) : sends[job[t].u][l[i].n] = 1) =>
               FlattenSeq(got[t]) = FlattenSeq([i \in 1..Len(l) |-> Bytes(l[i].d)])

\* Every request is answered in the end.
RequestsEnd == \A t \in Threads : pc[t] # "idle" ~> pc[t] = "idle"

\* "AbortStaleUploads removes all uploads older than maxAge" (multipart.go:278):
\* an upload that is too old does not stay.
StaleReaped ==
  \A u \in Uploads : u \in uploads /\ u \in aged ~> u \notin uploads
=============================================================================
