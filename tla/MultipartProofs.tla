-------------------------- MODULE MultipartProofs --------------------------
(***************************************************************************)
(* Proofs about Multipart for any number of requests, uploads, parts and   *)
(* contents, with the reaper, bucket calls and restarts.                   *)
(***************************************************************************)
EXTENDS Multipart, SequenceTheorems, TLAPS

-----------------------------------------------------------------------------
(* The inductive invariants. *)

\* The inductive invariant behind RecordedOnDisk, ListedPartsAcked and
\* LocksReleased: what a request has behind it at each of its steps, and who may
\* hold which mutex.
Done(t) == pc[t] \in {"idle", "new", "done"}
Gone(u) == u \notin uploads \/ BeingRemoved(u)

RequestInv(t) ==
  LET u == job[t].u
      n == job[t].n
  IN  /\ ~ Done(t) => u \in issued
      /\ pc[t] = "validate" => job[t].op # "new"
      /\ pc[t] = "get" => job[t].op \in {"complete", "list"}
      /\ pc[t] = "check" => job[t].op = "complete"
      /\ job[t].op = "complete" => job[t].list # <<>>
      /\ pc[t] \notin {"read", "register", "rmdir", "forget", "done"} => got[t] = <<>>
      /\ pc[t] = "read" => Len(got[t]) < Len(job[t].list)
      /\ pc[t] \in {"read", "register"} =>
            \A i \in 1..Len(job[t].list) : <<u, job[t].list[i].n, job[t].list[i].d>> \in acked
      /\ t \in linked => pc[t] = "write" /\ files[u][n] # {}
      /\ pc[t] = "write" => t \in linked \/ Gone(u)
      /\ pc[t] \in {"lock", "record"} => Gone(u) \/ files[u][n] # {}
      /\ t \in mu => pc[t] = "record"
      /\ \A v \in Uploads : t \in umu[v] =>
            v = u /\ pc[t] \in {"read", "register", "rmdir", "forget"}

MultipartInv ==
  /\ MultipartTypeOK /\ RecordedOnDisk /\ ListedPartsAcked
  /\ \A t \in Threads : RequestInv(t)
  /\ \A u \in Uploads, n \in Parts :
        /\ \A d \in parts[u][n] : <<u, n, d>> \in acked
        /\ u \notin issued => parts[u][n] = {}

\* The inductive invariant behind AssembledAsSent: while a part was sent only once,
\* its file, if it is there, holds what is recorded for it, and one request at most
\* has still to record it.
Sending(t, u, n) ==
  pc[t] \in {"write", "lock", "record"} /\ job[t].u = u /\ job[t].n = n

OnceSent(u, n) ==
  /\ sends[u][n] = 0 =>
        files[u][n] = {} /\ parts[u][n] = {} /\ \A t \in Threads : ~ Sending(t, u, n)
  /\ sends[u][n] = 1 =>
        /\ \A s, t \in Threads : Sending(s, u, n) /\ Sending(t, u, n) => s = t
        /\ \A t \in Threads : Sending(t, u, n) => parts[u][n] = {}
        /\ \A f \in files[u][n], d \in parts[u][n] : f = Bytes(d)

ByNumber(l) == \A i, j \in 1..Len(l) : i < j => l[i].n <= l[j].n

OnceTaken(t) ==
  LET u == job[t].u
      n == job[t].n
      l == job[t].list
  IN  /\ pc[t] = "write" /\ sends[u][n] = 1 =>
            files[u][n] \subseteq {<<>>} /\ (t \notin linked => files[u][n] = {})
      /\ pc[t] \in {"lock", "record"} /\ sends[u][n] = 1 =>
            files[u][n] \subseteq {Bytes(job[t].d)}
      /\ pc[t] \in {"read", "register"} =>
            /\ ByNumber(l)
            /\ \A i \in 1..Len(l) :
                 /\ sends[u][l[i].n] # 0
                 /\ sends[u][l[i].n] = 1 =>
                       /\ l[i].d \in parts[u][l[i].n]
                       /\ i <= Len(got[t]) => got[t][i] = Bytes(l[i].d)
      /\ pc[t] = "register" => Len(got[t]) = Len(l)

OnceInv ==
  /\ \A u \in Uploads, n \in Parts : OnceSent(u, n)
  /\ \A t \in Threads : OnceTaken(t)

-----------------------------------------------------------------------------

Labels == {"idle", "new", "validate", "get", "list", "mkdir", "open", "write", "lock",
           "record", "check", "read", "register", "rmdir", "forget", "done"}
Statuses == {"none", "ok", "notfound", "error", "panic"}

\* Gone(u) in the next state.
GoneNext(u) ==
  \/ u \notin uploads'
  \/ \E t \in Threads : pc'[t] = "forget" /\ job'[t].u = u
  \/ rpc' = "forget" /\ u \in todo'

\* What a request has behind it survives the steps of the others when IDs and
\* acknowledgements are kept, an upload that is gone stays gone, and files
\* disappear only with their upload.
LEMMA OthersKept ==
  ASSUME MultipartInv, MultipartTypeOK', NEW s \in Threads,
         issued \subseteq issued', acked \subseteq acked',
         \A u \in issued : Gone(u) => GoneNext(u),
         \A u \in issued, n \in Parts :
            files[u][n] # {} => files'[u][n] # {} \/ GoneNext(u),
         pc'[s] = pc[s], job'[s] = job[s], got'[s] = got[s],
         s \in linked' => s \in linked /\ files'[job[s].u][job[s].n] # {},
         s \in linked /\ s \notin linked' => GoneNext(job[s].u),
         s \in mu' => s \in mu,
         \A v \in Uploads : s \in umu'[v] => s \in umu[v]
  PROVE  RequestInv(s)'
<1>1. RequestInv(s) /\ job[s].n \in Parts /\ job \in [Threads -> Jobs]
  BY DEF MultipartInv, MultipartTypeOK, Jobs
<1>2. \A u \in Uploads : Gone(u)' <=> GoneNext(u)
  BY DEF Gone, GoneNext, BeingRemoved
<1>3. /\ ~ Done(s) => job[s].u \in issued'
      /\ s \in linked' => pc[s] = "write" /\ files'[job[s].u][job[s].n] # {}
      /\ pc[s] = "write" => s \in linked' \/ GoneNext(job[s].u)
      /\ pc[s] \in {"lock", "record"} => GoneNext(job[s].u) \/ files'[job[s].u][job[s].n] # {}
  BY <1>1 DEF RequestInv, Done
<1>4. pc[s] \in {"read", "register"} =>
        \A i \in 1..Len(job[s].list) :
           <<job[s].u, job[s].list[i].n, job[s].list[i].d>> \in acked'
  BY <1>1 DEF RequestInv
<1> QED
  BY <1>1, <1>3, <1>4 DEF RequestInv, Done, Gone, GoneNext, BeingRemoved

\* A part recorded before the step keeps its file.
LEMMA DiskKept ==
  ASSUME MultipartInv, uploads' \subseteq uploads, parts' = parts,
         \A u \in issued : Gone(u) => GoneNext(u),
         \A u \in issued, n \in Parts :
            files[u][n] # {} => files'[u][n] # {} \/ GoneNext(u)
  PROVE  RecordedOnDisk'
<1>1. uploads \subseteq issued
  BY DEF MultipartInv, MultipartTypeOK
<1>2. ASSUME NEW u \in uploads', NEW n \in Parts, parts[u][n] # {}, ~ GoneNext(u)
      PROVE  files'[u][n] # {}
  BY <1>1, <1>2 DEF MultipartInv, RecordedOnDisk, Gone
<1>3. \A u \in uploads' : ~ BeingRemoved(u)' => ~ GoneNext(u)
  BY DEF GoneNext, BeingRemoved
<1> QED
  BY <1>2, <1>3 DEF RecordedOnDisk

-----------------------------------------------------------------------------
(* Steps that leave the map of uploads, the recorded parts and the disk alone. *)

\* What the invariant says of one request, with types.
LEMMA RequestFacts ==
  ASSUME MultipartInv, NEW t \in Threads
  PROVE  /\ MultipartTypeOK /\ RequestInv(t) /\ pc[t] \in Labels
         /\ job \in [Threads -> Jobs] /\ job[t] \in Jobs
         /\ job[t].u \in Uploads /\ job[t].n \in Parts /\ job[t].d \in Data
         /\ job[t].list \in Seq(Listed) /\ got[t] \in Seq(Seq(Data))
BY DEF MultipartInv, MultipartTypeOK, Jobs, Labels

\* The conjuncts of the invariant in the next state.
LEMMA Conjuncts ==
  ASSUME MultipartTypeOK', RecordedOnDisk', ListedPartsAcked',
         \A s \in Threads : RequestInv(s)',
         \A u \in Uploads, n \in Parts : /\ \A d \in parts'[u][n] : <<u, n, d>> \in acked'
                                         /\ u \notin issued' => parts'[u][n] = {}
  PROVE  MultipartInv'
BY DEF MultipartInv

\* A step of one request that keeps the invariant for itself keeps it.
LEMMA QuietStep ==
  ASSUME MultipartInv, NEW t \in Threads,
         UNCHANGED <<registry, disk, reaper, acked, sends>>,
         pc[t] # "forget", NEW label \in Labels, pc' = [pc EXCEPT ![t] = label],
         job' \in [Threads -> Jobs], \A s \in Threads \ {t} : job'[s] = job[s],
         got' \in [Threads -> Seq(Seq(Data))], \A s \in Threads \ {t} : got'[s] = got[s],
         resp' \in [Threads -> Statuses],
         mu' \subseteq Threads \cup {Reaper}, umu' \in [Uploads -> SUBSET Threads],
         \A s \in Threads \ {t} :
            (s \in mu' => s \in mu) /\ \A v \in Uploads : s \in umu'[v] => s \in umu[v],
         objects' \in Seq([u : Uploads, list : Seq(Listed)]),
         ListedPartsAcked',
         RequestInv(t)'
  PROVE  MultipartInv'
<1>1. MultipartTypeOK
  BY DEF MultipartInv
<1>2. /\ UNCHANGED <<bucket, issued, uploads, aged, parts, dirs, files, linked>>
      /\ UNCHANGED <<rpc, todo, stale, acked, sends>>
  BY DEF registry, disk, reaper
<1>3. MultipartTypeOK'
  BY <1>1, <1>2 DEF MultipartTypeOK, Labels, Statuses
<1>4. pc'[t] = label /\ \A s \in Threads \ {t} : pc'[s] = pc[s]
  BY <1>1 DEF MultipartTypeOK
<1>5. \A u \in issued : Gone(u) => GoneNext(u)
  BY <1>2, <1>4 DEF Gone, GoneNext, BeingRemoved
<1>6. ASSUME NEW s \in Threads \ {t}
      PROVE  RequestInv(s)'
  <2>1. s \in linked => files[job[s].u][job[s].n] # {}
    BY DEF MultipartInv, RequestInv
  <2> QED
    BY <1>2, <1>3, <1>4, <1>5, <2>1, OthersKept
<1>7. RecordedOnDisk'
  BY <1>2, <1>5, DiskKept
<1>8. \A u \in Uploads, n \in Parts : /\ \A d \in parts'[u][n] : <<u, n, d>> \in acked'
                                      /\ u \notin issued' => parts'[u][n] = {}
  BY <1>2 DEF MultipartInv
<1>9. \A s \in Threads : RequestInv(s)'
  BY <1>6
<1> QED
  BY <1>3, <1>7, <1>8, <1>9, Conjuncts

\* The initial job is a job.
LEMMA NoJobType ==
  noJob \in Jobs /\ noJob.op = "new"
<1>1. /\ (CHOOSE u \in Uploads : TRUE) \in Uploads /\ (CHOOSE n \in Parts : TRUE) \in Parts
      /\ (CHOOSE d \in Data : TRUE) \in Data
  BY NamesAssumption
<1>2. <<>> \in Seq(Listed)
  OBVIOUS
<1> QED
  BY <1>1, <1>2 DEF noJob, Jobs

\* The history of objects is left alone.
LEMMA ObjectsKept ==
  ASSUME MultipartInv, UNCHANGED history
  PROVE  /\ ListedPartsAcked' /\ UNCHANGED <<acked, sends>>
         /\ objects' \in Seq([u : Uploads, list : Seq(Listed)])
BY DEF MultipartInv, MultipartTypeOK, ListedPartsAcked, history

\* A request arrives with parameters of the right type.
LEMMA ArriveStep ==
  ASSUME MultipartInv, NEW t \in Threads, NEW j \in Jobs,
         j.op = "complete" => j.list # <<>>, Arrive(t, j)
  PROVE  MultipartInv'
<1> DEFINE label == IF j.op = "new" THEN "new" ELSE "validate"
<1>1. /\ pc[t] = "idle" /\ pc' = [pc EXCEPT ![t] = label] /\ UNCHANGED resp
      /\ job' = [job EXCEPT ![t] = j]
      /\ j.op = "new" \/ j.u \in issued
      /\ UNCHANGED <<registry, disk, locks, got, reaper, history>>
  BY DEF Arrive, Goto
<1>2. MultipartTypeOK /\ RequestInv(t)
  BY RequestFacts
<1>3. /\ UNCHANGED <<issued, uploads, linked, files, mu, umu>>
      /\ pc'[t] = label /\ job'[t] = j /\ job' \in [Threads -> Jobs]
      /\ \A s \in Threads \ {t} : job'[s] = job[s]
  BY <1>1, <1>2 DEF MultipartTypeOK, registry, disk, locks
<1>4. RequestInv(t)'
  BY <1>1, <1>2, <1>3 DEF RequestInv, Done
<1>5. /\ resp' \in [Threads -> Statuses] /\ got' \in [Threads -> Seq(Seq(Data))]
      /\ mu' \subseteq Threads \cup {Reaper} /\ umu' \in [Uploads -> SUBSET Threads]
  BY <1>1, <1>2, <1>3 DEF MultipartTypeOK, Statuses
<1>6. label \in Labels
  BY DEF Labels
<1> HIDE DEF label
<1> QED
  BY <1>1, <1>3, <1>4, <1>5, <1>6, ObjectsKept, QuietStep

\* A request that ends leaves nothing behind.
LEMMA FinishStep ==
  ASSUME MultipartInv, NEW t \in Threads, Finish(t)
  PROVE  MultipartInv'
<1>1. /\ pc[t] = "done" /\ pc' = [pc EXCEPT ![t] = "idle"]
      /\ job' = [job EXCEPT ![t] = noJob] /\ got' = [got EXCEPT ![t] = <<>>]
      /\ resp' = [resp EXCEPT ![t] = "none"]
      /\ UNCHANGED <<registry, disk, locks, reaper, history>>
  BY DEF Finish
<1>2. MultipartTypeOK /\ RequestInv(t) /\ noJob \in Jobs /\ noJob.op = "new"
  BY RequestFacts, NoJobType
<1>3. /\ UNCHANGED <<issued, uploads, linked, files, mu, umu>>
      /\ pc'[t] = "idle" /\ job'[t] = noJob /\ got'[t] = <<>>
      /\ job' \in [Threads -> Jobs] /\ got' \in [Threads -> Seq(Seq(Data))]
      /\ \A s \in Threads \ {t} : job'[s] = job[s] /\ got'[s] = got[s]
  BY <1>1, <1>2 DEF MultipartTypeOK, registry, disk, locks
<1>4. RequestInv(t)'
  BY <1>1, <1>2, <1>3 DEF RequestInv, Done
<1>5. /\ resp' \in [Threads -> Statuses]
      /\ mu' \subseteq Threads \cup {Reaper} /\ umu' \in [Uploads -> SUBSET Threads]
  BY <1>1, <1>2, <1>3 DEF MultipartTypeOK, Statuses
<1> QED
  BY <1>1, <1>3, <1>4, <1>5, ObjectsKept, QuietStep DEF Labels

\* Steps that only look at the map or at the upload, and the first lock of
\* UploadPart.
LEMMA ForwardStep ==
  ASSUME MultipartInv, NEW t \in Threads,
         validateUpload(t) \/ GetUpload(t) \/ ListParts(t) \/ PartLock(t)
  PROVE  MultipartInv'
<1>1. MultipartTypeOK /\ RequestInv(t) /\ job[t].op \in {"new", "part", "complete", "abort", "list"}
  BY RequestFacts DEF Jobs
<1>2. /\ UNCHANGED <<registry, disk, job, got, reaper, history>> /\ umu' = umu
      /\ pc[t] \in {"validate", "get", "list", "lock"}
  BY DEF validateUpload, GetUpload, ListParts, PartLock, locks
<1>3. PICK label \in {"mkdir", "get", "rmdir", "check", "list", "record", "done"} :
         /\ pc' = [pc EXCEPT ![t] = label]
         /\ resp' = resp \/ resp' = [resp EXCEPT ![t] = "ok"]
                         \/ resp' = [resp EXCEPT ![t] = "notfound"]
         /\ label = "record" <=> pc[t] = "lock"
         /\ label = "record" => mu' = {t}
         /\ label # "record" => mu' = mu
         /\ label = "get" => job[t].op \in {"complete", "list"}
         /\ label = "check" => job[t].op = "complete"
  <2>1. CASE validateUpload(t)
    <3>1. job[t].op \in {"part", "complete", "abort", "list"}
      BY <1>1, <2>1 DEF validateUpload, RequestInv
    <3>2. CASE job[t].u \in uploads
      BY <2>1, <3>1, <3>2 DEF validateUpload, Goto, Reply, afterValidate, locks
    <3>3. CASE job[t].u \notin uploads
      BY <2>1, <3>3 DEF validateUpload, Goto, Reply, locks
    <3> QED
      BY <3>2, <3>3
  <2>2. CASE GetUpload(t)
    <3>1. job[t].op \in {"complete", "list"}
      BY <1>1, <2>2 DEF GetUpload, RequestInv
    <3>2. CASE job[t].u \in uploads
      BY <2>2, <3>1, <3>2 DEF GetUpload, Goto, Reply, afterGet, locks
    <3>3. CASE job[t].u \notin uploads
      BY <2>2, <3>3 DEF GetUpload, Goto, Reply, locks
    <3> QED
      BY <3>2, <3>3
  <2>3. CASE ListParts(t)
    BY <2>3 DEF ListParts, Reply, locks
  <2>4. CASE PartLock(t)
    BY <2>4 DEF PartLock, Goto
  <2> QED
    BY <2>1, <2>2, <2>3, <2>4
<1>4. /\ UNCHANGED <<issued, uploads, linked, files, rpc, todo>>
      /\ pc'[t] = label /\ \A s \in Threads \ {t} : pc'[s] = pc[s]
  BY <1>1, <1>2, <1>3 DEF MultipartTypeOK, registry, disk, reaper
<1>5. \A u \in issued : Gone(u) => GoneNext(u)
  BY <1>2, <1>4 DEF Gone, GoneNext, BeingRemoved
<1>6. RequestInv(t)'
  <2>1. ~ Done(t) => job[t].u \in issued
    BY <1>1 DEF RequestInv
  <2>2. label = "record" => GoneNext(job[t].u) \/ files[job[t].u][job[t].n] # {}
    BY <1>1, <1>2, <1>3, <1>5, <2>1 DEF RequestInv, Done
  <2>3. (label = "record" => Gone(job[t].u) \/ files[job[t].u][job[t].n] # {})'
    BY <1>2, <1>4, <2>2 DEF Gone, GoneNext, BeingRemoved
  <2>4. t \in mu' => label = "record"
    BY <1>1, <1>2, <1>3 DEF RequestInv
  <2> QED
    BY <1>1, <1>2, <1>3, <1>4, <2>1, <2>2, <2>4 DEF RequestInv, Done, Gone, GoneNext, BeingRemoved
<1>7. /\ resp' \in [Threads -> Statuses] /\ mu' \subseteq Threads \cup {Reaper}
      /\ umu' \in [Uploads -> SUBSET Threads]
      /\ job' \in [Threads -> Jobs] /\ got' \in [Threads -> Seq(Seq(Data))]
      /\ \A s \in Threads \ {t} : s \in mu' => s \in mu
  BY <1>1, <1>2, <1>3 DEF MultipartTypeOK, Statuses
<1> QED
  BY <1>2, <1>3, <1>6, <1>7, ObjectsKept, QuietStep DEF Labels

\* Every request a client sends is of the right type.
LEMMA CallStep ==
  ASSUME MultipartInv, NEW t \in Threads, NEW u \in Uploads,
         Arrive(t, noJob) \/ Call(t, u)
  PROVE  MultipartInv'
<1>1. CASE Arrive(t, noJob)
  BY <1>1, NoJobType, ArriveStep
<1>2. CASE \E op \in {"abort", "list"} : Arrive(t, [noJob EXCEPT !.op = op, !.u = u])
  <2>1. PICK op \in {"abort", "list"} : Arrive(t, [noJob EXCEPT !.op = op, !.u = u])
    BY <1>2
  <2> DEFINE j == [noJob EXCEPT !.op = op, !.u = u]
  <2>2. j \in Jobs /\ j.op # "complete"
    BY NoJobType DEF Jobs
  <2> HIDE DEF j
  <2> QED
    BY <2>1, <2>2, ArriveStep DEF j
<1>3. CASE \E n \in Parts, d \in Data :
              Arrive(t, [noJob EXCEPT !.op = "part", !.u = u, !.n = n, !.d = d])
  <2>1. PICK n \in Parts, d \in Data :
           Arrive(t, [noJob EXCEPT !.op = "part", !.u = u, !.n = n, !.d = d])
    BY <1>3
  <2> DEFINE j == [noJob EXCEPT !.op = "part", !.u = u, !.n = n, !.d = d]
  <2>2. j \in Jobs /\ j.op # "complete"
    BY NoJobType DEF Jobs
  <2> HIDE DEF j
  <2> QED
    BY <2>1, <2>2, ArriveStep DEF j
<1>4. CASE \E l \in Lists : Arrive(t, [noJob EXCEPT !.op = "complete", !.u = u, !.list = l])
  <2>1. PICK l \in Lists : Arrive(t, [noJob EXCEPT !.op = "complete", !.u = u, !.list = l])
    BY <1>4
  <2> DEFINE j == [noJob EXCEPT !.op = "complete", !.u = u, !.list = l]
  <2>2. j \in Jobs /\ j.list # <<>>
    BY NoJobType, ListsAssumption DEF Jobs
  <2> HIDE DEF j
  <2> QED
    BY <2>1, <2>2, ArriveStep DEF j
<1> QED
  BY <1>1, <1>2, <1>3, <1>4 DEF Call

\* CompleteCheck keeps the list's type, and what it lets through was recorded.
LEMMA CheckStep ==
  ASSUME MultipartInv, NEW t \in Threads, CompleteCheck(t)
  PROVE  MultipartInv'
<1> DEFINE u == job[t].u
           list == job[t].list
<1>1. /\ MultipartTypeOK /\ RequestInv(t) /\ pc[t] = "check" /\ umu[u] = {}
      /\ u \in Uploads /\ list \in Seq(Listed) /\ list # <<>> /\ job[t] \in Jobs
      /\ UNCHANGED <<registry, disk, mu, got, reaper, history>>
      /\ t \notin mu /\ t \notin linked /\ u \in issued /\ got[t] = <<>>
      /\ \A v \in Uploads : t \notin umu[v]
  BY RequestFacts DEF CompleteCheck, RequestInv, Done
<1>2. PICK s \in SortedParts(list) :
         \/ /\ AllUploaded(u, s)
            /\ job' = [job EXCEPT ![t].list = s]
            /\ umu' = [umu EXCEPT ![u] = {t}]
            /\ Goto(t, "read")
         \/ Reply(t, "error") /\ UNCHANGED <<job, umu>>
  BY DEF CompleteCheck
<1>3. s \in Seq(Listed) /\ Len(s) = Len(list)
  <2>1. PICK p \in Bijection(DOMAIN list, DOMAIN list) :
           s = [i \in DOMAIN list |-> list[p[i]]]
    BY <1>2 DEF SortedParts
  <2>2. p \in [DOMAIN list -> DOMAIN list] /\ DOMAIN list = 1..Len(list) /\ Len(list) \in Nat
    BY <1>1, <2>1 DEF Bijection, Injection
  <2>3. \A i \in 1..Len(list) : s[i] \in Listed
    BY <1>1, <2>1, <2>2
  <2> QED
    BY <1>1, <2>1, <2>2, <2>3
<1>4. UNCHANGED <<issued, uploads, linked, files, mu, rpc, todo, parts, acked>>
  BY <1>1 DEF registry, disk, reaper, history
<1>5. /\ resp' \in [Threads -> Statuses]
      /\ mu' \subseteq Threads \cup {Reaper} /\ got' \in [Threads -> Seq(Seq(Data))]
      /\ got'[t] = <<>>
  BY <1>1, <1>2, <1>4 DEF MultipartTypeOK, Statuses, Goto, Reply
<1>6. CASE /\ AllUploaded(u, s) /\ job' = [job EXCEPT ![t].list = s]
           /\ umu' = [umu EXCEPT ![u] = {t}] /\ Goto(t, "read")
  <2>1. /\ pc' = [pc EXCEPT ![t] = "read"] /\ pc'[t] = "read"
    BY <1>1, <1>6 DEF Goto, MultipartTypeOK
  <2>2. [job[t] EXCEPT !.list = s] \in Jobs
    BY <1>1, <1>3 DEF Jobs
  <2>3. /\ job' \in [Threads -> Jobs] /\ \A r \in Threads \ {t} : job'[r] = job[r]
        /\ job'[t].list = s /\ job'[t].u = u /\ job'[t].op = job[t].op
    BY <1>1, <1>6, <2>2 DEF MultipartTypeOK, Jobs
  <2>4. /\ umu' \in [Uploads -> SUBSET Threads] /\ umu'[u] = {t}
        /\ \A v \in Uploads : v # u => umu'[v] = umu[v]
    BY <1>1, <1>6 DEF MultipartTypeOK
  <2>5. \A i \in 1..Len(s) : <<u, s[i].n, s[i].d>> \in acked
    <3>1. \A i \in 1..Len(s) : s[i] \in Listed
      BY <1>3, ElementOfSeq
    <3>2. \A i \in 1..Len(s) : s[i].n \in Parts
      BY <3>1 DEF Listed
    <3>3. \A i \in 1..Len(s) : s[i].d \in parts[u][s[i].n]
      BY <1>6 DEF AllUploaded
    <3> QED
      BY <1>1, <3>2, <3>3 DEF MultipartInv
  <2>6. Len(s) > 0
    BY <1>1, <1>3
  <2>7. RequestInv(t)'
    <3> HIDE DEF u, list
    <3>1. Len(<<>>) = 0 /\ s # <<>>
      BY <2>6
    <3> QED
      BY <1>1, <1>4, <1>5, <2>1, <2>3, <2>4, <2>5, <2>6, <3>1 DEF RequestInv, Done
  <2> QED
    BY <1>1, <1>5, <2>1, <2>3, <2>4, <2>7, ObjectsKept, QuietStep DEF Labels
<1>7. CASE Reply(t, "error") /\ UNCHANGED <<job, umu>>
  <2>1. /\ pc' = [pc EXCEPT ![t] = "done"] /\ pc'[t] = "done"
    BY <1>1, <1>7 DEF Reply, MultipartTypeOK
  <2>2. RequestInv(t)'
    BY <1>1, <1>4, <1>5, <1>7, <2>1 DEF RequestInv, Done
  <2>3. job' \in [Threads -> Jobs] /\ umu' \in [Uploads -> SUBSET Threads]
    BY <1>1, <1>7 DEF MultipartTypeOK
  <2> QED
    BY <1>1, <1>5, <1>7, <2>1, <2>2, <2>3, ObjectsKept, QuietStep DEF Labels
<1> QED
  BY <1>2, <1>6, <1>7

\* An early return of Complete releases the upload's mutex.
LEMMA FailsStep ==
  ASSUME MultipartInv, NEW t \in Threads, pc[t] \in {"read", "register"}, CompleteFails(t),
         UNCHANGED <<registry, disk, mu, job, reaper, got, acked, sends>>,
         objects' \in Seq([u : Uploads, list : Seq(Listed)]),
         ListedPartsAcked'
  PROVE  MultipartInv'
<1>1. MultipartTypeOK /\ RequestInv(t) /\ job[t].u \in Uploads
  BY RequestFacts
<1>2. /\ pc' = [pc EXCEPT ![t] = "done"] /\ pc'[t] = "done"
      /\ resp' = [resp EXCEPT ![t] = "error"] /\ umu' = [umu EXCEPT ![job[t].u] = {}]
  BY <1>1 DEF CompleteFails, Reply, MultipartTypeOK
<1>3. UNCHANGED <<issued, uploads, linked, files, rpc, todo, parts>>
  BY DEF registry, disk, reaper
<1>4. /\ resp' \in [Threads -> Statuses] /\ umu' \in [Uploads -> SUBSET Threads]
      /\ umu'[job[t].u] = {} /\ \A v \in Uploads : umu'[v] \subseteq umu[v]
      /\ job' \in [Threads -> Jobs] /\ got' \in [Threads -> Seq(Seq(Data))]
      /\ mu' \subseteq Threads \cup {Reaper}
  BY <1>1, <1>2 DEF MultipartTypeOK, Statuses
<1>5. RequestInv(t)'
  BY <1>1, <1>2, <1>3, <1>4 DEF RequestInv, Done
<1> QED
  BY <1>2, <1>4, <1>5, QuietStep DEF Labels

\* CompleteRead appends the file of the next listed part.
LEMMA ReadStep ==
  ASSUME MultipartInv, NEW t \in Threads, CompleteRead(t)
  PROVE  MultipartInv'
<1> DEFINE i == Len(got[t]) + 1
           list == job[t].list
           file == files[job[t].u][list[i].n]
           label == IF i = Len(list) THEN "register" ELSE "read"
<1>1. /\ MultipartTypeOK /\ RequestInv(t) /\ pc[t] = "read"
      /\ job[t].u \in Uploads /\ list \in Seq(Listed) /\ got[t] \in Seq(Seq(Data))
      /\ Len(got[t]) < Len(list) /\ t \notin mu /\ t \notin linked
      /\ UNCHANGED <<registry, disk, mu, job, reaper, history>>
  BY RequestFacts DEF CompleteRead, RequestInv
<1>2. CASE \E f \in file : /\ got' = [got EXCEPT ![t] = Append(@, f)]
                           /\ Goto(t, label) /\ UNCHANGED umu
  <2>1. i \in 1..Len(list) /\ list[i].n \in Parts
    <3>1. Len(got[t]) \in Nat /\ Len(list) \in Nat
      BY <1>1
    <3>2. i \in 1..Len(list)
      BY <1>1, <3>1
    <3>3. list[i] \in Listed
      BY <1>1, <3>2, ElementOfSeq
    <3> QED
      BY <3>2, <3>3 DEF Listed
  <2>2. file \subseteq Seq(Data)
    BY <1>1, <2>1 DEF MultipartTypeOK
  <2>3. PICK f \in Seq(Data) : got' = [got EXCEPT ![t] = Append(got[t], f)]
    BY <1>2, <2>2
  <2>4. /\ Append(got[t], f) \in Seq(Seq(Data)) /\ Len(Append(got[t], f)) = i
    BY <1>1, <2>3
  <2>5. /\ got' \in [Threads -> Seq(Seq(Data))] /\ Len(got'[t]) = i
        /\ \A s \in Threads \ {t} : got'[s] = got[s]
    BY <1>1, <2>3, <2>4 DEF MultipartTypeOK
  <2>6. /\ pc' = [pc EXCEPT ![t] = label] /\ pc'[t] = label /\ resp' = resp
        /\ label \in {"read", "register"} /\ (label = "read" => i < Len(list))
    BY <1>1, <1>2, <2>1 DEF Goto, MultipartTypeOK
  <2>7. UNCHANGED <<issued, uploads, linked, files, acked, job, mu, umu>>
    BY <1>1, <1>2 DEF registry, disk, reaper, history
  <2>8. /\ resp' \in [Threads -> Statuses] /\ umu' \in [Uploads -> SUBSET Threads]
        /\ job' \in [Threads -> Jobs] /\ mu' \subseteq Threads \cup {Reaper}
    BY <1>1, <2>6, <2>7 DEF MultipartTypeOK, Statuses
  <2> HIDE DEF label, i, file
  <2>9. RequestInv(t)'
    BY <1>1, <2>5, <2>6, <2>7 DEF RequestInv, Done
  <2> QED
    BY <1>1, <2>5, <2>6, <2>7, <2>8, <2>9, ObjectsKept, QuietStep DEF Labels
<1>3. CASE CompleteFails(t) /\ UNCHANGED got
  BY <1>1, <1>3, ObjectsKept, FailsStep
<1> QED
  BY <1>2, <1>3 DEF CompleteRead

\* CompleteRegister adds an object whose listed parts are acknowledged.
LEMMA RegisterStep ==
  ASSUME MultipartInv, NEW t \in Threads, CompleteRegister(t)
  PROVE  MultipartInv'
<1> DEFINE O == [u : Uploads, list : Seq(Listed)]
           o == Assembled(t)
<1>1. /\ MultipartTypeOK /\ RequestInv(t) /\ pc[t] = "register"
      /\ UNCHANGED <<registry, disk, mu, job, got, reaper, acked, sends>>
      /\ objects' = objects \/ objects' = Append(objects, o)
  BY RequestFacts DEF CompleteRegister
<1>2. /\ o \in O /\ o.u = job[t].u /\ o.list = job[t].list /\ objects \in Seq(O)
  BY <1>1, RequestFacts DEF Assembled, MultipartTypeOK
<1>3. \A i \in 1..Len(o.list) : <<o.u, o.list[i].n, o.list[i].d>> \in acked
  BY <1>1, <1>2 DEF RequestInv
<1> HIDE DEF o
<1>4. objects' \in Seq(O) /\ ListedPartsAcked'
  <2>1. CASE objects' = objects
    BY <1>1, <1>2, <2>1 DEF ListedPartsAcked, MultipartInv
  <2>2. CASE objects' = Append(objects, o)
    <3>1. /\ objects' \in Seq(O) /\ Len(objects) \in Nat /\ Len(objects') = Len(objects) + 1
          /\ \A k \in 1..Len(objects) : objects'[k] = objects[k]
          /\ objects'[Len(objects) + 1] = o
      BY <1>2, <2>2
    <3>2. ASSUME NEW k \in 1..Len(objects')
          PROVE  \A i \in 1..Len(objects'[k].list) :
                    <<objects'[k].u, objects'[k].list[i].n, objects'[k].list[i].d>> \in acked
      <4>1. CASE k \in 1..Len(objects)
        BY <3>1, <4>1 DEF MultipartInv, ListedPartsAcked
      <4>2. CASE k = Len(objects) + 1
        BY <1>3, <3>1, <4>2
      <4> QED
        BY <3>1, <3>2, <4>1, <4>2, SMTT(30)
    <3> QED
      BY <1>1, <3>1, <3>2 DEF ListedPartsAcked
  <2> QED
    BY <1>1, <2>1, <2>2
<1>5. CASE CompleteFails(t)
  BY <1>1, <1>4, <1>5, FailsStep
<1>6. CASE Goto(t, "rmdir") /\ UNCHANGED umu
  <2>1. pc' = [pc EXCEPT ![t] = "rmdir"] /\ pc'[t] = "rmdir" /\ resp' = resp
    BY <1>1, <1>6 DEF Goto, MultipartTypeOK
  <2>2. UNCHANGED <<issued, uploads, linked, files, acked, job, mu, umu, got>>
    BY <1>1, <1>6 DEF registry, disk, reaper
  <2>3. RequestInv(t)'
    BY <1>1, <2>1, <2>2 DEF RequestInv, Done
  <2>4. /\ resp' \in [Threads -> Statuses] /\ umu' \in [Uploads -> SUBSET Threads]
        /\ job' \in [Threads -> Jobs] /\ mu' \subseteq Threads \cup {Reaper}
        /\ got' \in [Threads -> Seq(Seq(Data))]
    BY <1>1, <2>1, <2>2 DEF MultipartTypeOK, Statuses
  <2> QED
    BY <1>1, <1>4, <2>1, <2>2, <2>3, <2>4, QuietStep DEF Labels
<1> QED
  BY <1>5, <1>6 DEF CompleteRegister

-----------------------------------------------------------------------------
(* Steps of a request that change the map, the parts or the disk. *)

\* The invariant after a step of request t, from what it does to the others.
LEMMA RequestStepKeeps ==
  ASSUME MultipartInv, MultipartTypeOK', NEW t \in Threads,
         issued \subseteq issued', acked \subseteq acked', objects' = objects,
         \A u \in issued : Gone(u) => GoneNext(u),
         \A u \in issued, n \in Parts :
            files[u][n] # {} => files'[u][n] # {} \/ GoneNext(u),
         \A s \in Threads \ {t} :
            /\ pc'[s] = pc[s] /\ job'[s] = job[s] /\ got'[s] = got[s]
            /\ s \in linked' => s \in linked
            /\ s \in linked /\ s \notin linked' => GoneNext(job[s].u)
            /\ s \in linked' => files'[job[s].u][job[s].n] # {}
            /\ s \in mu' => s \in mu
            /\ \A v \in Uploads : s \in umu'[v] => s \in umu[v],
         RequestInv(t)', RecordedOnDisk',
         \A u \in Uploads, n \in Parts : /\ \A d \in parts'[u][n] : <<u, n, d>> \in acked'
                                         /\ u \notin issued' => parts'[u][n] = {}
  PROVE  MultipartInv'
<1>1. \A s \in Threads \ {t} : RequestInv(s)'
  BY OthersKept
<1>2. ListedPartsAcked'
  BY DEF MultipartInv, ListedPartsAcked
<1> QED
  BY <1>1, <1>2, Conjuncts

\* NewMultipartUpload adds an upload that has no parts yet.
LEMMA NewStep ==
  ASSUME MultipartInv, NEW t \in Threads, NewMultipartUpload(t)
  PROVE  MultipartInv'
<1>1. /\ MultipartTypeOK /\ RequestInv(t) /\ pc[t] = "new" /\ pc' = [pc EXCEPT ![t] = "done"]
      /\ UNCHANGED <<bucket, aged, parts, disk, locks, job, got, reaper, history>>
      /\ \E r \in {"ok", "notfound"} : resp' = [resp EXCEPT ![t] = r]
  BY RequestFacts DEF NewMultipartUpload, Reply
<1>2. UNCHANGED <<dirs, files, linked, mu, umu, rpc, todo, stale, objects, acked, sends>>
  BY <1>1 DEF disk, locks, reaper, history
<1>3. PICK new \in SUBSET (Uploads \ issued) :
         uploads' = uploads \cup new /\ issued' = issued \cup new
  <2>1. CASE bucket
    BY <1>1, <2>1 DEF NewMultipartUpload, AddUpload
  <2>2. CASE ~ bucket
    <3>1. uploads' = uploads \cup {} /\ issued' = issued \cup {}
      BY <2>2 DEF NewMultipartUpload
    <3> QED
      BY <3>1
  <2> QED
    BY <2>1, <2>2
<1>4. /\ MultipartTypeOK' /\ pc'[t] = "done" /\ \A s \in Threads \ {t} : pc'[s] = pc[s]
  BY <1>1, <1>2, <1>3 DEF MultipartTypeOK
<1>5. \A u \in issued : Gone(u) => GoneNext(u)
  BY <1>1, <1>2, <1>3, <1>4 DEF Gone, GoneNext, BeingRemoved
<1>6. RequestInv(t)'
  BY <1>1, <1>2, <1>3, <1>4 DEF RequestInv, Done
<1>7. RecordedOnDisk'
  <2>1. ASSUME NEW u \in uploads', NEW n \in Parts, parts[u][n] # {}, ~ BeingRemoved(u)'
        PROVE  files[u][n] # {}
    <3>1. u \in issued
      BY <1>1, <1>3, <2>1 DEF MultipartInv, MultipartTypeOK
    <3>2. u \in uploads /\ ~ BeingRemoved(u)
      BY <1>1, <1>2, <1>3, <1>4, <2>1, <3>1 DEF BeingRemoved
    <3> QED
      BY <2>1, <3>2 DEF MultipartInv, RecordedOnDisk
  <2> QED
    BY <1>1, <1>2, <2>1 DEF RecordedOnDisk
<1>8. \A u \in Uploads, n \in Parts : /\ \A d \in parts[u][n] : <<u, n, d>> \in acked
                                      /\ u \notin issued' => parts[u][n] = {}
  BY <1>3 DEF MultipartInv
<1>9. \A s \in Threads : s \in linked => files[job[s].u][job[s].n] # {}
  BY DEF MultipartInv, RequestInv
<1> QED
  BY <1>1, <1>2, <1>3, <1>4, <1>5, <1>6, <1>7, <1>8, <1>9, RequestStepKeeps

\* PartOpen counts what it opens.
LEMMA SendsStep ==
  ASSUME MultipartTypeOK, NEW t \in Threads, PartMkdir(t) \/ PartOpen(t) \/ PartWrite(t)
  PROVE  /\ sends' \in [Uploads -> [Parts -> 0..2]]
         /\ \A u \in Uploads, n \in Parts :
               \/ sends'[u][n] = sends[u][n]
               \/ /\ PartOpen(t) /\ u = job[t].u /\ n = job[t].n
                  /\ sends'[u][n] = IF sends[u][n] = 2 THEN 2 ELSE sends[u][n] + 1
<1> DEFINE v == job[t].u
           m == job[t].n
           k == IF sends[v][m] = 2 THEN 2 ELSE sends[v][m] + 1
<1>1. sends \in [Uploads -> [Parts -> 0..2]] /\ v \in Uploads /\ m \in Parts
  BY DEF MultipartTypeOK, Jobs
<1>2. k \in 0..2
  BY <1>1
<1>3. sends' = sends \/ (PartOpen(t) /\ sends' = [sends EXCEPT ![v][m] = k])
  BY DEF PartMkdir, PartOpen, PartWrite, history
<1> HIDE DEF v, m, k
<1>4. CASE PartOpen(t) /\ sends' = [sends EXCEPT ![v][m] = k]
  <2>1. sends' = [sends EXCEPT ![v] = [sends[v] EXCEPT ![m] = k]]
    BY <1>4
  <2>2. [sends[v] EXCEPT ![m] = k] \in [Parts -> 0..2]
    BY <1>1, <1>2
  <2>3. /\ sends' \in [Uploads -> [Parts -> 0..2]] /\ sends'[v][m] = k
        /\ \A u \in Uploads, n \in Parts : ~ (u = v /\ n = m) => sends'[u][n] = sends[u][n]
    BY <1>1, <2>1, <2>2
  <2> QED
    BY <1>4, <2>3 DEF v, m, k
<1> QED
  BY <1>1, <1>3, <1>4

\* UploadPart up to the end of its write: files come, none goes.
LEMMA PartFileStep ==
  ASSUME MultipartInv, NEW t \in Threads, PartMkdir(t) \/ PartOpen(t) \/ PartWrite(t)
  PROVE  MultipartInv'
<1> DEFINE u == job[t].u
           n == job[t].n
<1>1. /\ MultipartTypeOK /\ RequestInv(t) /\ pc[t] \in {"mkdir", "open", "write"}
      /\ u \in issued /\ u \in Uploads /\ n \in Parts /\ job[t].d \in Data
      /\ got[t] = <<>> /\ t \notin mu /\ \A v \in Uploads : t \notin umu[v]
      /\ UNCHANGED <<registry, locks, job, got, reaper, objects, acked>>
  BY RequestFacts DEF PartMkdir, PartOpen, PartWrite, RequestInv, Done, history
<1>2. UNCHANGED <<bucket, issued, uploads, aged, parts, mu, umu, rpc, todo, stale>>
  BY <1>1 DEF registry, locks, reaper
<1>3. PICK label \in {"open", "write", "lock", "done"} :
         /\ pc' = [pc EXCEPT ![t] = label]
         /\ resp' = resp \/ resp' = [resp EXCEPT ![t] = "error"]
         /\ label = "write" => pc[t] = "open"
         /\ label = "lock" => pc[t] = "write"
         /\ pc[t] = "write" => label \in {"lock", "done"}
  BY DEF PartMkdir, PartOpen, PartWrite, Goto, Reply
<1>4. /\ pc' \in [Threads -> Labels] /\ pc'[t] = label /\ \A s \in Threads \ {t} : pc'[s] = pc[s]
      /\ resp' \in [Threads -> Statuses]
  BY <1>1, <1>3 DEF MultipartTypeOK, Labels, Statuses
<1>5. /\ dirs' \subseteq Uploads /\ linked' \subseteq Threads
      /\ \A s \in Threads \ {t} : s \in linked' <=> s \in linked
      /\ t \in linked' <=> label = "write"
  BY <1>1, <1>3, <1>4 DEF PartMkdir, PartOpen, PartWrite, Goto, Reply, MultipartTypeOK, RequestInv
<1>6. /\ files' \in [Uploads -> [Parts -> SUBSET Seq(Data)]]
      /\ \A v \in Uploads, m \in Parts : files[v][m] # {} => files'[v][m] # {}
      /\ label = "write" => files'[u][n] # {}
  <2>0. files \in [Uploads -> [Parts -> SUBSET Seq(Data)]]
    BY <1>1 DEF MultipartTypeOK
  <2>1. CASE files' = files /\ label # "write"
    BY <2>0, <2>1
  <2>2. ASSUME NEW F \in SUBSET Seq(Data), files' = [files EXCEPT ![u][n] = F],
               F = {} => files[u][n] = {} /\ label # "write"
        PROVE  /\ files' \in [Uploads -> [Parts -> SUBSET Seq(Data)]]
               /\ \A v \in Uploads, m \in Parts : files[v][m] # {} => files'[v][m] # {}
               /\ label = "write" => files'[u][n] # {}
    <3> HIDE DEF u, n
    <3>1. [files[u] EXCEPT ![n] = F] \in [Parts -> SUBSET Seq(Data)]
      BY <1>1, <2>0
    <3>2. files' = [files EXCEPT ![u] = [files[u] EXCEPT ![n] = F]]
      BY <2>2
    <3>3. files' \in [Uploads -> [Parts -> SUBSET Seq(Data)]]
      BY <1>1, <2>0, <3>1, <3>2
    <3>4. /\ files'[u][n] = F
          /\ \A v \in Uploads, m \in Parts : ~ (v = u /\ m = n) => files'[v][m] = files[v][m]
      BY <1>1, <2>0, <3>2
    <3> QED
      BY <2>2, <3>3, <3>4
  <2>3. CASE PartOpen(t)
    <3>1. CASE files' = [files EXCEPT ![u][n] = {<<>>}]
      <4>1. {<<>>} \in SUBSET Seq(Data) /\ {<<>>} # {}
        OBVIOUS
      <4> QED
        BY <2>2, <3>1, <4>1
    <3>2. CASE files' = files /\ label # "write"
      BY <2>1, <3>2
    <3> QED
      BY <1>1, <1>3, <1>4, <2>3, <3>1, <3>2 DEF PartOpen, Reply, Goto, MultipartTypeOK
  <2>4. CASE PartWrite(t)
    <3> DEFINE d == job[t].d
               F(k) == {Overwrite(f, d, k) : f \in files[u][n]}
    <3>1. label # "write" /\ Size[d] \in Nat /\ d \in Data
      BY <1>1, <1>3, <2>4, SizeAssumption DEF PartWrite
    <3>2. PICK k \in 0..Size[d] : files' = files \/ files' = [files EXCEPT ![u][n] = F(k)]
      BY <2>4 DEF PartWrite
    <3>3. ASSUME NEW f \in files[u][n]
          PROVE  Overwrite(f, d, k) \in Seq(Data)
      <4>1. f \in Seq(Data) /\ Len(f) \in Nat /\ k \in Nat
        BY <1>1, <2>0, <3>1, <3>3
      <4> HIDE DEF d
      <4>2. [i \in 1..k |-> d] \in Seq(Data)
        BY <3>1, <4>1
      <4>3. \A j \in k + 1 .. Len(f) : f[j] \in Data
        BY <4>1
      <4>4. SubSeq(f, k + 1, Len(f)) \in Seq(Data)
        BY <4>1, <4>3
      <4> QED
        BY <4>2, <4>4 DEF Overwrite
    <3>4. F(k) \in SUBSET Seq(Data) /\ (F(k) = {} => files[u][n] = {})
      BY <3>3
    <3> HIDE DEF F, u, n
    <3> QED
      BY <2>1, <2>2, <3>1, <3>2, <3>4
  <2>5. CASE PartMkdir(t)
    BY <1>1, <1>3, <1>4, <2>1, <2>5 DEF PartMkdir, Goto, Reply
  <2> QED
    BY <2>3, <2>4, <2>5
<1>7. MultipartTypeOK'
  <2>1. sends' \in [Uploads -> [Parts -> 0..2]]
    BY <1>1, SendsStep
  <2> QED
    BY <1>1, <1>2, <1>4, <1>5, <1>6, <2>1 DEF MultipartTypeOK, Labels, Statuses
<1>8. \A v \in issued : Gone(v) => GoneNext(v)
  BY <1>1, <1>2, <1>4 DEF Gone, GoneNext, BeingRemoved
<1>9. RequestInv(t)'
  <2>1. pc[t] = "write" => Gone(u) \/ files[u][n] # {}
    BY <1>1 DEF RequestInv
  <2>2. label = "lock" => GoneNext(u) \/ files'[u][n] # {}
    BY <1>1, <1>3, <1>6, <1>8, <2>1
  <2>3. GoneNext(u) => Gone(u)'
    BY <1>1, <1>2 DEF GoneNext, Gone, BeingRemoved
  <2> QED
    BY <1>1, <1>2, <1>4, <1>5, <1>6, <2>2, <2>3 DEF RequestInv, Done
<1>10. RecordedOnDisk'
  BY <1>1, <1>2, <1>6, <1>8, DiskKept DEF MultipartTypeOK
<1>11. \A s \in Threads :
          s \in linked => /\ files[job[s].u][job[s].n] # {}
                          /\ job[s].u \in Uploads /\ job[s].n \in Parts
  BY RequestFacts DEF RequestInv
<1>12. \A s \in Threads \ {t} :
          /\ pc'[s] = pc[s] /\ job'[s] = job[s] /\ got'[s] = got[s]
          /\ s \in linked' <=> s \in linked
          /\ s \in linked' => files'[job[s].u][job[s].n] # {}
          /\ s \in mu' <=> s \in mu
          /\ \A v \in Uploads : s \in umu'[v] <=> s \in umu[v]
  BY <1>1, <1>2, <1>4, <1>5, <1>6, <1>11
<1>13. \A v \in Uploads, m \in Parts : /\ \A d \in parts'[v][m] : <<v, m, d>> \in acked'
                                       /\ v \notin issued' => parts'[v][m] = {}
  BY <1>1, <1>2 DEF MultipartInv
<1>14. \A v \in issued, m \in Parts : files[v][m] # {} => files'[v][m] # {} \/ GoneNext(v)
  BY <1>1, <1>6 DEF MultipartTypeOK
<1> QED
  BY <1>1, <1>2, <1>7, <1>8, <1>9, <1>10, <1>12, <1>13, <1>14, RequestStepKeeps

\* UploadPart records the part whose file it has written, or panics; both ways
\* multipart.mu is free afterwards.
LEMMA RecordStep ==
  ASSUME MultipartInv, NEW t \in Threads, PartRecord(t)
  PROVE  MultipartInv'
<1> DEFINE u == job[t].u
           n == job[t].n
           d == job[t].d
<1>1. /\ MultipartTypeOK /\ RequestInv(t) /\ pc[t] = "record"
      /\ u \in issued /\ u \in Uploads /\ n \in Parts /\ d \in Data
      /\ got[t] = <<>> /\ t \notin linked /\ \A v \in Uploads : t \notin umu[v]
      /\ Gone(u) \/ files[u][n] # {}
      /\ UNCHANGED <<bucket, issued, uploads, aged, disk, umu, job, got, reaper, objects, sends>>
  BY RequestFacts DEF PartRecord, RequestInv, Done
<1>2. UNCHANGED <<dirs, files, linked, rpc, todo, stale>>
  BY <1>1 DEF disk, reaper
<1>3. /\ pc' = [pc EXCEPT ![t] = "done"] /\ mu' = {}
      /\ \E r \in {"ok", "panic"} : resp' = [resp EXCEPT ![t] = r]
  BY DEF PartRecord, PartStored, PartPanics, Reply
<1>4. /\ parts' \in [Uploads -> [Parts -> SUBSET Data]]
      /\ acked' \subseteq Uploads \X Parts \X Data /\ acked \subseteq acked'
      /\ \A v \in Uploads, m \in Parts :
            parts'[v][m] = parts[v][m] \/ (v = u /\ m = n /\ parts'[v][m] = {d})
      /\ parts' = parts \/ <<u, n, d>> \in acked'
  <2> HIDE DEF u, n, d
  <2>1. CASE UNCHANGED <<parts, acked>>
    BY <1>1, <2>1 DEF MultipartTypeOK
  <2>2. CASE /\ parts' = [parts EXCEPT ![u][n] = {d}]
             /\ acked' = acked \cup {<<u, n, d>>}
    <3>1. parts \in [Uploads -> [Parts -> SUBSET Data]] /\ acked \subseteq Uploads \X Parts \X Data
      BY <1>1 DEF MultipartTypeOK
    <3>2. [parts[u] EXCEPT ![n] = {d}] \in [Parts -> SUBSET Data]
      BY <1>1, <3>1
    <3>3. parts' = [parts EXCEPT ![u] = [parts[u] EXCEPT ![n] = {d}]]
      BY <2>2
    <3>4. parts' \in [Uploads -> [Parts -> SUBSET Data]]
      BY <1>1, <3>1, <3>2, <3>3
    <3>5. \A v \in Uploads, m \in Parts :
             parts'[v][m] = IF v = u /\ m = n THEN {d} ELSE parts[v][m]
      BY <1>1, <3>1, <3>3
    <3> QED
      BY <1>1, <2>2, <3>1, <3>4, <3>5
  <2> QED
    BY <2>1, <2>2 DEF PartRecord, PartStored, PartPanics, u, n, d
<1>5. /\ MultipartTypeOK' /\ pc'[t] = "done" /\ \A s \in Threads \ {t} : pc'[s] = pc[s]
  BY <1>1, <1>2, <1>3, <1>4 DEF MultipartTypeOK
<1>6. \A v \in issued : Gone(v) => GoneNext(v)
  BY <1>1, <1>2, <1>5 DEF Gone, GoneNext, BeingRemoved
<1>7. RequestInv(t)'
  BY <1>1, <1>2, <1>3, <1>5 DEF RequestInv, Done
<1>8. RecordedOnDisk'
  <2>1. ASSUME NEW v \in uploads', NEW m \in Parts, parts'[v][m] # {}, ~ BeingRemoved(v)'
        PROVE  files[v][m] # {}
    <3>1. v \in uploads /\ v \in issued /\ v \in Uploads /\ ~ GoneNext(v)
      BY <1>1, <2>1 DEF MultipartTypeOK, GoneNext, BeingRemoved
    <3>2. ~ Gone(v)
      BY <1>6, <3>1
    <3>3. CASE parts'[v][m] = parts[v][m]
      BY <2>1, <3>2, <3>1, <3>3 DEF MultipartInv, RecordedOnDisk, Gone
    <3>4. CASE v = u /\ m = n
      BY <1>1, <3>2, <3>4
    <3> QED
      BY <1>4, <3>1, <3>3, <3>4
  <2> QED
    BY <1>2, <2>1 DEF RecordedOnDisk
<1>9. \A v \in Uploads, m \in Parts : /\ \A e \in parts'[v][m] : <<v, m, e>> \in acked'
                                      /\ v \notin issued' => parts'[v][m] = {}
  <2>1. ASSUME NEW v \in Uploads, NEW m \in Parts
        PROVE  /\ \A e \in parts'[v][m] : <<v, m, e>> \in acked'
               /\ v \notin issued' => parts'[v][m] = {}
    <3>1. CASE parts'[v][m] = parts[v][m]
      BY <1>1, <1>4, <3>1 DEF MultipartInv
    <3>2. CASE v = u /\ m = n /\ parts'[v][m] = {d} /\ parts'[v][m] # parts[v][m]
      BY <1>1, <1>4, <3>2
    <3> QED
      BY <1>4, <3>1, <3>2
  <2> QED
    BY <2>1
<1>10. \A s \in Threads : s \in linked => files[job[s].u][job[s].n] # {}
  BY DEF MultipartInv, RequestInv
<1> QED
  BY <1>1, <1>2, <1>3, <1>4, <1>5, <1>6, <1>7, <1>8, <1>9, <1>10, RequestStepKeeps

\* os.RemoveAll touches the files of one upload only, and unlinks the files
\* that requests for it have open.
LEMMA RemoveDirFacts ==
  ASSUME MultipartInv, NEW u \in Uploads, RemoveDir(u)
  PROVE  /\ dirs' \subseteq Uploads /\ linked' \subseteq linked
         /\ files' \in [Uploads -> [Parts -> SUBSET Seq(Data)]]
         /\ \A v \in Uploads, m \in Parts : v # u => files'[v][m] = files[v][m]
         /\ \A s \in linked : s \notin linked' => job[s].u = u
         /\ \A s \in Threads : s \in linked' => files'[job[s].u][job[s].n] # {}
<1>1. MultipartTypeOK
  BY DEF MultipartInv
<1>2. \A s \in Threads : s \in linked => /\ files[job[s].u][job[s].n] # {}
                                         /\ job[s].u \in Uploads /\ job[s].n \in Parts
  BY RequestFacts DEF RequestInv
<1>3. CASE UNCHANGED disk
  BY <1>1, <1>2, <1>3 DEF MultipartTypeOK, disk
<1>4. CASE /\ dirs' = dirs \ {u}
           /\ files' = [files EXCEPT ![u] = [n \in Parts |-> {}]]
           /\ linked' = {s \in linked : job[s].u # u}
  <2>1. [n \in Parts |-> {}] \in [Parts -> SUBSET Seq(Data)]
    OBVIOUS
  <2>2. /\ files' \in [Uploads -> [Parts -> SUBSET Seq(Data)]]
        /\ \A v \in Uploads : v # u => files'[v] = files[v]
    BY <1>1, <1>4, <2>1 DEF MultipartTypeOK
  <2> QED
    BY <1>1, <1>2, <1>4, <2>2 DEF MultipartTypeOK
<1> QED
  BY <1>3, <1>4 DEF RemoveDir

\* cleanupUpload removes the files and then forgets the upload.
LEMMA CleanupStep ==
  ASSUME MultipartInv, NEW t \in Threads, CleanupFiles(t) \/ CleanupForget(t)
  PROVE  MultipartInv'
<1> DEFINE u == job[t].u
<1>1. /\ MultipartTypeOK /\ RequestInv(t) /\ pc[t] \in {"rmdir", "forget"}
      /\ u \in issued /\ u \in Uploads /\ t \notin linked /\ t \notin mu
      /\ UNCHANGED <<bucket, issued, aged, parts, mu, job, got, reaper, history>>
  BY RequestFacts DEF CleanupFiles, CleanupForget, RequestInv, Done, registry, locks
<1>2. UNCHANGED <<rpc, todo, stale, objects, acked, sends>>
  BY <1>1 DEF reaper, history
<1>3. PICK label \in {"forget", "done"} :
         /\ pc' = [pc EXCEPT ![t] = label]
         /\ resp' = resp \/ resp' = [resp EXCEPT ![t] = "ok"]
         /\ uploads' = uploads \/ uploads' = uploads \ {u}
         /\ label = "done" => u \notin uploads'
         /\ umu' = umu \/ umu' = [umu EXCEPT ![u] = @ \ {t}]
         /\ label = "done" => umu' = [umu EXCEPT ![u] = @ \ {t}]
  BY DEF CleanupFiles, CleanupForget, Goto, Reply, Forget, registry, locks
<1>4. /\ dirs' \subseteq Uploads /\ linked' \subseteq linked
      /\ files' \in [Uploads -> [Parts -> SUBSET Seq(Data)]]
      /\ \A v \in Uploads, m \in Parts : v # u => files'[v][m] = files[v][m]
      /\ \A s \in linked : s \notin linked' => job[s].u = u
      /\ \A s \in Threads : s \in linked' => files'[job[s].u][job[s].n] # {}
  <2>1. CASE CleanupFiles(t)
    BY <1>1, <2>1, RemoveDirFacts DEF CleanupFiles
  <2>2. CASE CleanupForget(t)
    <3>1. UNCHANGED <<dirs, files, linked>>
      BY <2>2 DEF CleanupForget, disk
    <3>2. \A s \in Threads : s \in linked => files[job[s].u][job[s].n] # {}
      BY DEF MultipartInv, RequestInv
    <3> QED
      BY <1>1, <3>1, <3>2 DEF MultipartTypeOK
  <2> QED
    BY <2>1, <2>2
<1>5. /\ umu' \in [Uploads -> SUBSET Threads]
      /\ \A v \in Uploads : umu'[v] \subseteq umu[v]
      /\ label = "done" => t \notin umu'[u]
  <2> HIDE DEF u
  <2>1. umu \in [Uploads -> SUBSET Threads]
    BY <1>1 DEF MultipartTypeOK
  <2>2. CASE umu' = umu /\ label # "done"
    BY <2>1, <2>2
  <2>3. CASE umu' = [umu EXCEPT ![u] = umu[u] \ {t}]
    BY <1>1, <2>1, <2>3
  <2> QED
    BY <1>3, <2>2, <2>3
<1>6. /\ MultipartTypeOK' /\ pc'[t] = label /\ \A s \in Threads \ {t} : pc'[s] = pc[s]
  <2>1. /\ pc' \in [Threads -> Labels] /\ pc'[t] = label
        /\ \A s \in Threads \ {t} : pc'[s] = pc[s]
    BY <1>1, <1>3 DEF MultipartTypeOK, Labels
  <2>2. resp' \in [Threads -> Statuses] /\ uploads' \subseteq issued'
    BY <1>1, <1>3 DEF MultipartTypeOK, Statuses
  <2> QED
    BY <1>1, <1>2, <1>4, <1>5, <2>1, <2>2 DEF MultipartTypeOK, Labels, Statuses
<1>7. GoneNext(u)
  BY <1>1, <1>3, <1>6 DEF GoneNext
<1>8. \A v \in issued : Gone(v) => GoneNext(v)
  <2>1. ASSUME NEW v \in issued, Gone(v), v # u
        PROVE  GoneNext(v)
    <3>1. UNCHANGED <<rpc, todo, job>> /\ uploads' \subseteq uploads
      BY <1>1, <1>2, <1>3
    <3>2. \A s \in Threads : pc[s] = "forget" /\ job[s].u = v => pc'[s] = "forget"
      BY <1>6, <2>1
    <3> QED
      BY <2>1, <3>1, <3>2 DEF Gone, GoneNext, BeingRemoved
  <2> QED
    BY <1>7, <2>1
<1>9. RequestInv(t)'
  <2>1. /\ job'[t] = job[t] /\ got'[t] = got[t] /\ t \notin linked' /\ t \notin mu'
        /\ issued' = issued /\ pc'[t] \in {"forget", "done"}
    BY <1>1, <1>4, <1>6
  <2>2. \A v \in Uploads : t \in umu'[v] => v = u /\ pc'[t] = "forget"
    BY <1>1, <1>5, <1>6 DEF RequestInv
  <2> QED
    BY <1>1, <2>1, <2>2 DEF RequestInv, Done
<1>10. \A v \in issued, m \in Parts : files[v][m] # {} => files'[v][m] # {} \/ GoneNext(v)
  BY <1>1, <1>4, <1>7 DEF MultipartTypeOK
<1>11. RecordedOnDisk'
  <2>1. uploads' \subseteq uploads
    BY <1>3
  <2> QED
    BY <1>1, <1>8, <1>10, <2>1, DiskKept
<1>12. \A v \in Uploads, m \in Parts : /\ \A d \in parts'[v][m] : <<v, m, d>> \in acked'
                                       /\ v \notin issued' => parts'[v][m] = {}
  BY <1>1, <1>2 DEF MultipartInv
<1>13. \A s \in Threads \ {t} :
          /\ pc'[s] = pc[s] /\ job'[s] = job[s] /\ got'[s] = got[s]
          /\ s \in linked' => s \in linked
          /\ s \in linked /\ s \notin linked' => GoneNext(job[s].u)
          /\ s \in linked' => files'[job[s].u][job[s].n] # {}
          /\ s \in mu' => s \in mu
          /\ \A v \in Uploads : s \in umu'[v] => s \in umu[v]
  BY <1>1, <1>4, <1>5, <1>6, <1>7
<1> HIDE DEF u
<1> QED
  BY <1>1, <1>2, <1>6, <1>8, <1>9, <1>10, <1>11, <1>12, <1>13, RequestStepKeeps

-----------------------------------------------------------------------------
(* Steps of the reaper and of the surroundings. *)

\* The invariant after a step that no request takes.
LEMMA OtherStepKeeps ==
  ASSUME MultipartInv, MultipartTypeOK',
         UNCHANGED <<pc, job, got, umu, issued, parts, objects, acked>>,
         uploads' \subseteq uploads, mu' \subseteq mu \cup {Reaper},
         \A u \in issued : Gone(u) => GoneNext(u),
         \A u \in issued, n \in Parts :
            files[u][n] # {} => files'[u][n] # {} \/ GoneNext(u),
         linked' \subseteq linked,
         \A s \in Threads : /\ s \in linked' => files'[job[s].u][job[s].n] # {}
                            /\ s \in linked /\ s \notin linked' => GoneNext(job[s].u)
  PROVE  MultipartInv'
<1>1. \A s \in Threads : RequestInv(s)'
  <2>1. ASSUME NEW s \in Threads
        PROVE  RequestInv(s)'
    <3>1. s \in mu' => s \in mu
      BY ProcsAssumption
    <3> QED
      BY <3>1, OthersKept
  <2> QED
    BY <2>1
<1>2. RecordedOnDisk'
  BY DiskKept
<1>3. ListedPartsAcked'
  BY DEF MultipartInv, ListedPartsAcked
<1>4. \A u \in Uploads, n \in Parts : /\ \A d \in parts'[u][n] : <<u, n, d>> \in acked'
                                      /\ u \notin issued' => parts'[u][n] = {}
  BY DEF MultipartInv
<1> QED
  BY <1>1, <1>2, <1>3, <1>4, Conjuncts

\* Linked files exist; a step that leaves the disk alone keeps them.
LEMMA LinkedFiles ==
  ASSUME MultipartInv
  PROVE  \A s \in Threads : s \in linked => files[job[s].u][job[s].n] # {}
BY DEF MultipartInv, RequestInv

\* The reaper's scan, the clock and the bucket calls touch neither map nor disk.
LEMMA ScanStep ==
  ASSUME MultipartInv,
         \/ ReapTick \/ ReapLock \/ ReapUnlock \/ ReapDone \/ BucketCall
         \/ \E u \in Uploads : ReapVisit(u) \/ Age(u)
  PROVE  MultipartInv'
<1>1. MultipartTypeOK
  BY DEF MultipartInv
<1>2. /\ UNCHANGED <<disk, request, history>>
      /\ UNCHANGED <<issued, uploads, parts, umu>>
  BY DEF ReapTick, ReapLock, ReapUnlock, ReapDone, BucketCall, ReapVisit, Age, registry, locks
<1>3. UNCHANGED <<dirs, files, linked, pc, job, got, resp, objects, acked, sends>>
  BY <1>2 DEF disk, request, history
<1>4. /\ bucket' \in BOOLEAN /\ aged' \subseteq issued
      /\ mu' \subseteq mu \cup {Reaper}
      /\ rpc' \in {"idle", "lock", "scan", "sweep", "forget"}
      /\ todo' \subseteq Uploads /\ stale' \subseteq Uploads
      /\ rpc = "forget" => rpc' = rpc /\ todo' = todo
  <2>1. CASE ReapTick
    BY <1>1, <2>1 DEF ReapTick, MultipartTypeOK, registry, locks
  <2>2. CASE ReapLock
    BY <1>1, <2>2 DEF ReapLock, MultipartTypeOK, registry, StaleAmong
  <2>3. CASE ReapUnlock
    BY <1>1, <2>3 DEF ReapUnlock, MultipartTypeOK, registry
  <2>4. CASE ReapDone
    BY <1>1, <2>4 DEF ReapDone, MultipartTypeOK, registry, locks
  <2>5. CASE BucketCall
    BY <1>1, <2>5 DEF BucketCall, MultipartTypeOK, locks, reaper
  <2>6. CASE \E u \in Uploads : ReapVisit(u)
    BY <1>1, <2>6 DEF ReapVisit, MultipartTypeOK, registry, locks
  <2>7. CASE \E u \in Uploads : Age(u)
    BY <1>1, <2>7 DEF Age, MultipartTypeOK, locks, reaper
  <2> QED
    BY <2>1, <2>2, <2>3, <2>4, <2>5, <2>6, <2>7
<1>5. MultipartTypeOK'
  BY <1>1, <1>2, <1>3, <1>4 DEF MultipartTypeOK
<1>6. \A v \in issued : Gone(v) => GoneNext(v)
  BY <1>2, <1>3, <1>4 DEF Gone, GoneNext, BeingRemoved
<1> QED
  BY <1>2, <1>3, <1>4, <1>5, <1>6, LinkedFiles, OtherStepKeeps

\* The reaper removes the files of a stale upload and then forgets it.
LEMMA SweepStep ==
  ASSUME MultipartInv, ReapForget \/ \E u \in Uploads : ReapFiles(u)
  PROVE  MultipartInv'
<1>1. MultipartTypeOK
  BY DEF MultipartInv
<1>2. /\ UNCHANGED <<request, history, locks>>
      /\ UNCHANGED <<bucket, issued, aged, parts>>
  BY DEF ReapForget, ReapFiles, registry
<1>3. UNCHANGED <<pc, job, got, resp, objects, acked, sends, mu, umu>>
  BY <1>2 DEF request, history, locks
<1>4. CASE ReapForget
  <2>1. /\ rpc = "forget" /\ uploads' = uploads \ todo /\ todo' = {} /\ rpc' = "sweep"
        /\ UNCHANGED <<dirs, files, linked, stale>>
    BY <1>4 DEF ReapForget, Forget, disk
  <2>2. MultipartTypeOK'
    BY <1>1, <1>2, <1>3, <2>1 DEF MultipartTypeOK
  <2>3. \A v \in issued : Gone(v) => GoneNext(v)
    BY <1>3, <2>1 DEF Gone, GoneNext, BeingRemoved
  <2> QED
    BY <1>2, <1>3, <2>1, <2>2, <2>3, LinkedFiles, OtherStepKeeps
<1>5. ASSUME NEW u \in Uploads, ReapFiles(u)
      PROVE  MultipartInv'
  <2>1. /\ rpc = "sweep" /\ RemoveDir(u) /\ todo' = {u} /\ stale' = stale \ {u}
        /\ rpc' = "forget" /\ uploads' = uploads
    BY <1>5 DEF ReapFiles, registry
  <2>2. /\ dirs' \subseteq Uploads /\ linked' \subseteq linked
        /\ files' \in [Uploads -> [Parts -> SUBSET Seq(Data)]]
        /\ \A v \in Uploads, m \in Parts : v # u => files'[v][m] = files[v][m]
        /\ \A s \in linked : s \notin linked' => job[s].u = u
        /\ \A s \in Threads : s \in linked' => files'[job[s].u][job[s].n] # {}
    BY <2>1, RemoveDirFacts
  <2>3. MultipartTypeOK'
    BY <1>1, <1>2, <1>3, <2>1, <2>2 DEF MultipartTypeOK
  <2>4. GoneNext(u) /\ \A v \in issued : Gone(v) => GoneNext(v)
    BY <1>3, <2>1 DEF Gone, GoneNext, BeingRemoved
  <2>5. \A v \in issued, m \in Parts : files[v][m] # {} => files'[v][m] # {} \/ GoneNext(v)
    BY <1>1, <2>2, <2>4 DEF MultipartTypeOK
  <2>6. \A s \in Threads : s \in linked /\ s \notin linked' => GoneNext(job[s].u)
    BY <2>2, <2>4
  <2> QED
    BY <1>2, <1>3, <2>1, <2>2, <2>3, <2>4, <2>5, <2>6, OtherStepKeeps
<1> QED
  BY <1>4, <1>5

\* A restart loses the map and every request, and nothing is recorded then.
LEMMA RestartStep ==
  ASSUME MultipartInv, Restart
  PROVE  MultipartInv'
<1>1. MultipartTypeOK /\ noJob \in Jobs /\ noJob.op = "new"
  BY NoJobType DEF MultipartInv
<1>2. /\ uploads' = {} /\ parts' = noFiles /\ linked' = {}
      /\ mu' = {} /\ umu' = [u \in Uploads |-> {}]
      /\ pc' = [t \in Threads |-> "idle"] /\ job' = [t \in Threads |-> noJob]
      /\ got' = [t \in Threads |-> <<>>] /\ resp' = [t \in Threads |-> "none"]
      /\ rpc' = "idle" /\ todo' = {} /\ stale' = {}
      /\ UNCHANGED <<bucket, issued, aged, dirs, files, objects, acked, sends>>
  BY DEF Restart, history
<1>3. /\ parts' \in [Uploads -> [Parts -> SUBSET Data]]
      /\ \A u \in Uploads, n \in Parts : parts'[u][n] = {}
  BY <1>2 DEF noFiles
<1>4. /\ pc' \in [Threads -> Labels] /\ job' \in [Threads -> Jobs]
      /\ got' \in [Threads -> Seq(Seq(Data))] /\ resp' \in [Threads -> Statuses]
      /\ umu' \in [Uploads -> SUBSET Threads]
  BY <1>1, <1>2 DEF Labels, Statuses
<1>5. MultipartTypeOK'
  BY <1>1, <1>2, <1>3, <1>4 DEF MultipartTypeOK, Labels, Statuses
<1>6. \A s \in Threads : RequestInv(s)'
  BY <1>1, <1>2 DEF RequestInv, Done
<1>7. RecordedOnDisk' /\ ListedPartsAcked'
  BY <1>2 DEF RecordedOnDisk, ListedPartsAcked, MultipartInv
<1> QED
  BY <1>3, <1>5, <1>6, <1>7, Conjuncts

\* The invariant holds at the start.
LEMMA MultipartInitInv ==
  MultipartInit => MultipartInv
<1> SUFFICES ASSUME MultipartInit PROVE MultipartInv
  OBVIOUS
<1>1. noJob \in Jobs /\ noJob.op = "new"
  BY NoJobType
<1>2. /\ parts \in [Uploads -> [Parts -> SUBSET Data]]
      /\ files \in [Uploads -> [Parts -> SUBSET Seq(Data)]]
      /\ \A u \in Uploads, n \in Parts : parts[u][n] = {}
  BY DEF MultipartInit, noFiles
<1>3. /\ job \in [Threads -> Jobs] /\ got \in [Threads -> Seq(Seq(Data))]
      /\ umu \in [Uploads -> SUBSET Threads]
      /\ objects \in Seq([u : Uploads, list : Seq(Listed)])
  BY <1>1 DEF MultipartInit
<1>4. MultipartTypeOK
  BY <1>2, <1>3 DEF MultipartInit, MultipartTypeOK
<1>5. \A s \in Threads : RequestInv(s)
  BY <1>1 DEF MultipartInit, RequestInv, Done
<1>6. RecordedOnDisk /\ ListedPartsAcked
  BY DEF MultipartInit, RecordedOnDisk, ListedPartsAcked
<1> QED
  BY <1>2, <1>4, <1>5, <1>6 DEF MultipartInv

\* Every step keeps the invariant, one lemma per kind of step.
LEMMA MultipartNextInv ==
  MultipartInv /\ [MultipartNext]_mpVars => MultipartInv'
<1> SUFFICES ASSUME MultipartInv, [MultipartNext]_mpVars PROVE MultipartInv'
  OBVIOUS
<1>1. ASSUME NEW t \in Threads, RequestStep(t)
      PROVE  MultipartInv'
  BY <1>1, FinishStep, NewStep, ForwardStep, PartFileStep, RecordStep, CheckStep, ReadStep,
     RegisterStep, CleanupStep DEF RequestStep
<1>2. ASSUME NEW t \in Threads, Arrive(t, noJob) \/ \E u \in Uploads : Call(t, u)
      PROVE  MultipartInv'
  BY <1>2, NamesAssumption, CallStep
<1>3. CASE ReapStep
  BY <1>3, ScanStep, SweepStep DEF ReapStep
<1>4. CASE BucketCall \/ \E u \in Uploads : Age(u)
  BY <1>4, ScanStep
<1>5. CASE Restart
  BY <1>5, RestartStep
<1>6. CASE UNCHANGED mpVars
  <2>1. /\ UNCHANGED <<bucket, issued, uploads, aged, parts, dirs, files, linked, mu, umu>>
        /\ UNCHANGED <<pc, job, got, resp, rpc, todo, stale, objects, acked, sends>>
    BY <1>6 DEF mpVars, registry, disk, locks, request, reaper, history
  <2>2. MultipartTypeOK'
    BY <2>1 DEF MultipartInv, MultipartTypeOK
  <2>3. \A u \in issued : Gone(u) => GoneNext(u)
    BY <2>1 DEF Gone, GoneNext, BeingRemoved
  <2> QED
    BY <2>1, <2>2, <2>3, LinkedFiles, OtherStepKeeps
<1> QED
  BY <1>1, <1>2, <1>3, <1>4, <1>5, <1>6 DEF MultipartNext

-----------------------------------------------------------------------------
\* The invariant of multipart.go holds of every behaviour: what each request
\* has behind it at each step, who may hold which mutex, and the three
\* properties below.
THEOREM MultipartInductive == MultipartSpec => []MultipartInv
BY MultipartInitInv, MultipartNextInv, PTL DEF MultipartSpec

\* Every variable keeps its type: in particular the uploads in the map are
\* among the IDs that NewMultipartUpload handed out.
THEOREM MultipartTypeCorrect == MultipartSpec => []MultipartTypeOK
<1>1. MultipartInv => MultipartTypeOK
  BY DEF MultipartInv
<1> QED
  BY <1>1, MultipartInductive, PTL

\* A part recorded by UploadPart has its file until cleanupUpload is under way,
\* for any number of concurrent requests, failing file operations and restarts.
THEOREM PartsOnDisk == MultipartSpec => []RecordedOnDisk
<1>1. MultipartInv => RecordedOnDisk
  BY DEF MultipartInv
<1> QED
  BY <1>1, MultipartInductive, PTL

\* CompleteMultipartUpload makes an object only of parts whose UploadPart was
\* answered with success.
THEOREM ObjectsOfAckedParts == MultipartSpec => []ListedPartsAcked
<1>1. MultipartInv => ListedPartsAcked
  BY DEF MultipartInv
<1> QED
  BY <1>1, MultipartInductive, PTL

\* No request leaves multipart.go with one of its mutexes locked, not even the
\* one that panics.
THEOREM NoLockLeft == MultipartSpec => []LocksReleased
<1>1. MultipartInv => LocksReleased
  <2>1. ASSUME MultipartInv, NEW t \in Threads, pc[t] \in {"idle", "done"}
        PROVE  t \notin mu /\ \A u \in Uploads : t \notin umu[u]
    BY <2>1 DEF MultipartInv, RequestInv
  <2> QED
    BY <2>1 DEF LocksReleased
<1> QED
  BY <1>1, MultipartInductive, PTL


-----------------------------------------------------------------------------
(* Parts that were sent once. *)

\* The programme counter after a step of t.
LEMMA Moves ==
  ASSUME MultipartInv, NEW t \in Threads, NEW label,
         Goto(t, label) \/ (label = "done" /\ \E status \in Statuses : Reply(t, status))
  PROVE  pc'[t] = label /\ \A s \in Threads \ {t} : pc'[s] = pc[s]
<1>1. pc \in [Threads -> Labels]
  BY DEF MultipartInv, MultipartTypeOK, Labels
<1> QED
  BY <1>1 DEF Goto, Reply

\* Writing the whole of a content into an empty file.
LEMMA FreshWrite ==
  ASSUME NEW d \in Data
  PROVE  Overwrite(<<>>, d, Size[d]) = Bytes(d)
<1>1. Size[d] \in Nat \ {0}
  BY SizeAssumption
<1>2. SubSeq(<<>>, Size[d] + 1, Len(<<>>)) = <<>>
  BY <1>1
<1>3. [i \in 1..Size[d] |-> d] \in Seq(Data)
  BY <1>1
<1>4. \A s \in Seq(Data) : s \o <<>> = s
  BY ConcatEmptySeq
<1> QED
  BY <1>2, <1>3, <1>4 DEF Overwrite, Bytes

\* What a request has taken from files and records survives a step of another one,
\* which touches only parts that this request neither sends nor has listed, or
\* parts that are then sent twice.
LEMMA OthersTaken ==
  ASSUME MultipartInv, OnceInv, NEW s \in Threads,
         pc'[s] = pc[s], job'[s] = job[s], got'[s] = got[s],
         s \in linked => s \in linked' \/ files'[job[s].u][job[s].n] = {},
         \A v \in Uploads, m \in Parts :
            \/ /\ sends'[v][m] = sends[v][m] /\ parts'[v][m] = parts[v][m]
               /\ files'[v][m] \subseteq files[v][m]
            \/ sends'[v][m] = 2
            \/ ~ Sending(s, v, m) /\ (sends[v][m] = 0 \/ (sends[v][m] = 1 /\ parts[v][m] = {}))
  PROVE  OnceTaken(s)'
<1> DEFINE u == job[s].u
           n == job[s].n
           l == job[s].list
<1>1. OnceTaken(s) /\ u \in Uploads /\ n \in Parts /\ l \in Seq(Listed)
  BY RequestFacts DEF OnceInv
<1>2. ASSUME pc[s] \in {"write", "lock", "record"}, sends'[u][n] = 1
      PROVE  sends[u][n] = 1 /\ files'[u][n] \subseteq files[u][n]
  BY <1>1, <1>2 DEF Sending
<1>3. ASSUME pc[s] \in {"read", "register"}, NEW i \in 1..Len(l)
      PROVE  /\ sends'[u][l[i].n] # 0
             /\ sends'[u][l[i].n] = 1 =>
                   /\ l[i].d \in parts'[u][l[i].n]
                   /\ i <= Len(got[s]) => got[s][i] = Bytes(l[i].d)
  <2>1. l[i].n \in Parts
    <3>1. l[i] \in Listed
      BY <1>1, <1>3, ElementOfSeq
    <3> QED
      BY <3>1 DEF Listed
  <2>2. /\ sends[u][l[i].n] # 0
        /\ sends[u][l[i].n] = 1 =>
              /\ l[i].d \in parts[u][l[i].n]
              /\ i <= Len(got[s]) => got[s][i] = Bytes(l[i].d)
    BY <1>1, <1>3 DEF OnceTaken
  <2> QED
    BY <1>1, <2>1, <2>2
<1>4. pc[s] \in {"read", "register"} => ByNumber(l)
  BY <1>1 DEF OnceTaken
<1>5. pc[s] = "write" /\ sends'[u][n] = 1 =>
         files'[u][n] \subseteq {<<>>} /\ (s \notin linked' => files'[u][n] = {})
  BY <1>1, <1>2 DEF OnceTaken
<1>6. pc[s] \in {"lock", "record"} /\ sends'[u][n] = 1 => files'[u][n] \subseteq {Bytes(job[s].d)}
  BY <1>1, <1>2 DEF OnceTaken
<1>7. pc[s] = "register" => Len(got[s]) = Len(l)
  BY <1>1 DEF OnceTaken
<1> HIDE DEF u, n, l
<1> QED
  BY <1>3, <1>4, <1>5, <1>6, <1>7 DEF OnceTaken, ByNumber, u, n, l

\* Steps that send, record and read nothing.
LEMMA QuietOnce ==
  ASSUME MultipartInv, OnceInv, UNCHANGED <<parts, sends>>,
         \A v \in Uploads, m \in Parts : files'[v][m] \subseteq files[v][m],
         \A s \in Threads :
            /\ s \in linked => s \in linked' \/ files'[job[s].u][job[s].n] = {}
            /\ \/ pc'[s] = pc[s] /\ job'[s] = job[s] /\ got'[s] = got[s]
               \/ pc'[s] \notin {"write", "lock", "record", "read", "register"}
               \/ pc[s] = "lock" /\ pc'[s] = "record" /\ job'[s] = job[s]
  PROVE  OnceInv'
<1>1. ASSUME NEW v \in Uploads, NEW m \in Parts
      PROVE  OnceSent(v, m)'
  <2>1. \A s \in Threads : Sending(s, v, m)' => Sending(s, v, m)
    BY DEF Sending
  <2> QED
    BY <2>1 DEF OnceInv, OnceSent
<1>2. ASSUME NEW s \in Threads
      PROVE  OnceTaken(s)'
  <2>1. CASE pc'[s] = pc[s] /\ job'[s] = job[s] /\ got'[s] = got[s]
    BY <2>1, OthersTaken
  <2>2. CASE pc'[s] \notin {"write", "lock", "record", "read", "register"}
    BY <2>2 DEF OnceTaken
  <2>3. CASE pc[s] = "lock" /\ pc'[s] = "record" /\ job'[s] = job[s]
    <3>1. OnceTaken(s) /\ job[s].u \in Uploads /\ job[s].n \in Parts
      BY RequestFacts DEF OnceInv
    <3> QED
      BY <2>3, <3>1 DEF OnceTaken
  <2> QED
    BY <2>1, <2>2, <2>3
<1> QED
  BY <1>1, <1>2 DEF OnceInv

\* The parts that a step of t leaves alone.
LEMMA OtherParts ==
  ASSUME OnceInv, NEW v \in Uploads, NEW m \in Parts,
         sends'[v][m] = sends[v][m], parts'[v][m] = parts[v][m], files'[v][m] = files[v][m],
         \A s \in Threads : Sending(s, v, m)' => Sending(s, v, m)
  PROVE  OnceSent(v, m)'
BY DEF OnceInv, OnceSent

\* UploadPart opens the file: the first time nobody else is concerned.
LEMMA OpenOnce ==
  ASSUME MultipartInv, OnceInv, NEW t \in Threads, PartOpen(t)
  PROVE  OnceInv'
<1> DEFINE u == job[t].u
           n == job[t].n
           k == IF sends[u][n] = 2 THEN 2 ELSE sends[u][n] + 1
<1>1. /\ pc[t] = "open" /\ u \in Uploads /\ n \in Parts /\ job[t].d \in Data
      /\ UNCHANGED <<parts, job, got>>
      /\ sends \in [Uploads -> [Parts -> 0..2]]
      /\ files \in [Uploads -> [Parts -> SUBSET Seq(Data)]]
  BY RequestFacts DEF PartOpen, registry, MultipartTypeOK
<1>2. CASE UNCHANGED <<files, linked, sends>> /\ Reply(t, "error")
  <2>1. pc'[t] = "done" /\ \A s \in Threads \ {t} : pc'[s] = pc[s]
    BY <1>2, Moves DEF Statuses
  <2> QED
    BY <1>1, <1>2, <2>1, QuietOnce
<1>3. CASE /\ files' = [files EXCEPT ![u][n] = {<<>>}] /\ linked' = linked \cup {t}
           /\ sends' = [sends EXCEPT ![u][n] = k] /\ Goto(t, "write")
  <2>1. pc'[t] = "write" /\ \A s \in Threads \ {t} : pc'[s] = pc[s]
    BY <1>3, Moves
  <2> HIDE DEF u, n, k
  <2>2. /\ files'[u][n] = {<<>>} /\ sends'[u][n] = k
        /\ \A v \in Uploads, m \in Parts : ~ (v = u /\ m = n) =>
              files'[v][m] = files[v][m] /\ sends'[v][m] = sends[v][m]
    BY <1>1, <1>3
  <2>3. OnceSent(u, n) /\ sends[u][n] \in 0..2 /\ k = IF sends[u][n] = 2 THEN 2 ELSE sends[u][n] + 1
    BY <1>1 DEF OnceInv, k
  <2>4. k = 1 => sends[u][n] = 0 /\ parts[u][n] = {} /\ \A s \in Threads : ~ Sending(s, u, n)
    BY <2>3 DEF OnceSent
  <2>5. k \in 1..2
    BY <2>3
  <2>6. \A s \in Threads \ {t}, v \in Uploads, m \in Parts : Sending(s, v, m)' <=> Sending(s, v, m)
    BY <1>1, <2>1 DEF Sending
  <2>7. \A v \in Uploads, m \in Parts : Sending(t, v, m)' => v = u /\ m = n
    BY <1>1, <2>1 DEF Sending, u, n
  <2>8. ASSUME NEW v \in Uploads, NEW m \in Parts, v = u, m = n
        PROVE  OnceSent(v, m)'
    BY <1>1, <2>2, <2>4, <2>5, <2>6, <2>8 DEF OnceSent
  <2>9. ASSUME NEW v \in Uploads, NEW m \in Parts
        PROVE  OnceSent(v, m)'
    <3>1. CASE ~ (v = u /\ m = n)
      BY <1>1, <2>2, <2>6, <2>7, <3>1, OtherParts
    <3> QED
      BY <2>8, <3>1
  <2>10. OnceTaken(t)'
    BY <1>1, <1>3, <2>1, <2>2 DEF OnceTaken, u, n
  <2>11. ASSUME NEW s \in Threads \ {t}
         PROVE  OnceTaken(s)'
    <3>1. \A v \in Uploads, m \in Parts :
            \/ /\ sends'[v][m] = sends[v][m] /\ parts'[v][m] = parts[v][m]
               /\ files'[v][m] \subseteq files[v][m]
            \/ sends'[v][m] = 2
            \/ ~ Sending(s, v, m) /\ (sends[v][m] = 0 \/ (sends[v][m] = 1 /\ parts[v][m] = {}))
      BY <1>1, <2>2, <2>4, <2>5
    <3> QED
      BY <1>1, <1>3, <2>1, <3>1, OthersTaken
  <2> QED
    BY <2>9, <2>10, <2>11 DEF OnceInv
<1> QED
  BY <1>2, <1>3 DEF PartOpen

\* The step of a request that alone sends a part, with respect to the others.
LEMMA OthersOnce ==
  ASSUME MultipartInv, OnceInv, NEW t \in Threads,
         pc[t] \in {"write", "lock", "record"},
         \A s \in Threads \ {t} : pc'[s] = pc[s],
         UNCHANGED <<job, got, sends>>, linked' = linked \ {t},
         \A v \in Uploads, m \in Parts : ~ (v = job[t].u /\ m = job[t].n) =>
            files'[v][m] = files[v][m] /\ parts'[v][m] = parts[v][m],
         OnceSent(job[t].u, job[t].n)', OnceTaken(t)'
  PROVE  OnceInv'
<1> DEFINE u == job[t].u
           n == job[t].n
<1>1. /\ u \in Uploads /\ n \in Parts /\ Sending(t, u, n) /\ OnceSent(u, n)
      /\ sends[u][n] \in 0..2
  BY RequestFacts DEF OnceInv, Sending, MultipartTypeOK
<1>2. /\ sends[u][n] \in 1..2
      /\ sends[u][n] = 1 => parts[u][n] = {} /\ \A s \in Threads \ {t} : ~ Sending(s, u, n)
  BY <1>1 DEF OnceSent
<1>3. ASSUME NEW v \in Uploads, NEW m \in Parts
      PROVE  OnceSent(v, m)'
  <2>1. CASE ~ (v = u /\ m = n)
    <3>1. \A s \in Threads : Sending(s, v, m)' => Sending(s, v, m)
      BY <2>1 DEF Sending
    <3> QED
      BY <2>1, <3>1, OtherParts
  <2> QED
    BY <2>1
<1>4. ASSUME NEW s \in Threads \ {t}
      PROVE  OnceTaken(s)'
  <2>1. \A v \in Uploads, m \in Parts :
          \/ /\ sends'[v][m] = sends[v][m] /\ parts'[v][m] = parts[v][m]
             /\ files'[v][m] \subseteq files[v][m]
          \/ sends'[v][m] = 2
          \/ ~ Sending(s, v, m) /\ (sends[v][m] = 0 \/ (sends[v][m] = 1 /\ parts[v][m] = {}))
    BY <1>2
  <2> QED
    BY <2>1, OthersTaken
<1> QED
  BY <1>3, <1>4 DEF OnceInv

\* ... writes the file, if it has still a name,
LEMMA WriteOnce ==
  ASSUME MultipartInv, OnceInv, NEW t \in Threads, PartWrite(t)
  PROVE  OnceInv'
<1> DEFINE u == job[t].u
           n == job[t].n
           d == job[t].d
           F(k) == {Overwrite(f, d, k) : f \in files[u][n]}
<1>1. /\ pc[t] = "write" /\ u \in Uploads /\ n \in Parts /\ d \in Data
      /\ UNCHANGED <<parts, job, got, sends>> /\ linked' = linked \ {t}
      /\ sends[u][n] \in 0..2 /\ Size[d] \in Nat
      /\ files \in [Uploads -> [Parts -> SUBSET Seq(Data)]]
      /\ OnceSent(u, n) /\ OnceTaken(t)
  BY RequestFacts, SizeAssumption DEF PartWrite, registry, history, MultipartTypeOK, OnceInv
<1>2. PICK k \in 0..Size[d] :
         /\ files' = IF t \in linked THEN [files EXCEPT ![u][n] = F(k)] ELSE files
         /\ (k = Size[d] /\ Goto(t, "lock")) \/ Reply(t, "error")
  BY DEF PartWrite
<1>3. /\ \A s \in Threads \ {t} : pc'[s] = pc[s]
      /\ (pc'[t] = "lock" /\ k = Size[d]) \/ pc'[t] = "done"
  BY <1>2, Moves DEF Statuses
<1>4. \A v \in Uploads, m \in Parts : ~ (v = u /\ m = n) => files'[v][m] = files[v][m]
  <2> HIDE DEF u, n, F
  <2> QED
    BY <1>1, <1>2
<1>5. files'[u][n] = IF t \in linked THEN F(k) ELSE files[u][n]
  <2> HIDE DEF u, n, F
  <2> QED
    BY <1>1, <1>2
<1>6. sends[u][n] = 1 /\ pc'[t] = "lock" => files'[u][n] \subseteq {Bytes(d)}
  <2> SUFFICES ASSUME sends[u][n] = 1, pc'[t] = "lock", NEW g \in files'[u][n]
               PROVE  g = Bytes(d)
    OBVIOUS
  <2>1. files[u][n] \subseteq {<<>>} /\ (t \notin linked => files[u][n] = {})
    BY <1>1 DEF OnceTaken
  <2>2. t \in linked /\ k = Size[d]
    BY <1>3, <1>5, <2>1
  <2>3. PICK f \in files[u][n] : g = Overwrite(f, d, Size[d])
    BY <1>5, <2>2
  <2> QED
    BY <1>1, <2>1, <2>3, FreshWrite
<1>7. OnceTaken(t)'
  BY <1>1, <1>3, <1>6 DEF OnceTaken
<1>8. OnceSent(u, n)'
  <2>1. /\ Sending(t, u, n) /\ sends[u][n] # 0 /\ (sends[u][n] = 1 => parts[u][n] = {})
        /\ \A s \in Threads : Sending(s, u, n)' => Sending(s, u, n)
    BY <1>1, <1>3 DEF Sending, OnceSent
  <2> QED
    BY <1>1, <2>1 DEF OnceSent
<1> QED
  BY <1>1, <1>3, <1>4, <1>7, <1>8, OthersOnce

\* ... and records the part.
LEMMA RecordOnce ==
  ASSUME MultipartInv, OnceInv, NEW t \in Threads, PartRecord(t)
  PROVE  OnceInv'
<1> DEFINE u == job[t].u
           n == job[t].n
           d == job[t].d
<1>1. /\ pc[t] = "record" /\ u \in Uploads /\ n \in Parts /\ d \in Data /\ t \notin linked
      /\ UNCHANGED <<files, linked, job, got, sends>> /\ sends[u][n] \in 0..2
      /\ parts \in [Uploads -> [Parts -> SUBSET Data]]
      /\ OnceSent(u, n) /\ OnceTaken(t)
  BY RequestFacts DEF PartRecord, disk, MultipartTypeOK, OnceInv, RequestInv
<1>2. /\ pc'[t] = "done" /\ \A s \in Threads \ {t} : pc'[s] = pc[s]
      /\ parts' = parts \/ parts' = [parts EXCEPT ![u][n] = {d}]
  BY Moves DEF PartRecord, PartStored, PartPanics, Statuses
<1>3. /\ \A v \in Uploads, m \in Parts : ~ (v = u /\ m = n) => parts'[v][m] = parts[v][m]
      /\ parts'[u][n] = parts[u][n] \/ parts'[u][n] = {d}
  <2> HIDE DEF u, n, d
  <2> QED
    BY <1>1, <1>2
<1>4. OnceTaken(t)'
  BY <1>2 DEF OnceTaken
<1>5. OnceSent(u, n)'
  <2>1. /\ Sending(t, u, n) /\ sends[u][n] # 0
        /\ sends[u][n] = 1 => /\ \A s \in Threads : Sending(s, u, n) => s = t
                              /\ parts[u][n] = {} /\ files[u][n] \subseteq {Bytes(d)}
    BY <1>1 DEF Sending, OnceSent, OnceTaken
  <2>2. ~ Sending(t, u, n)' /\ \A s \in Threads \ {t} : Sending(s, u, n)' => Sending(s, u, n)
    BY <1>1, <1>2 DEF Sending
  <2> QED
    BY <1>1, <1>3, <2>1, <2>2 DEF OnceSent
<1>6. linked' = linked \ {t}
  BY <1>1
<1> QED
  BY <1>1, <1>2, <1>3, <1>4, <1>5, <1>6, OthersOnce

\* CompleteMultipartUpload: the list is sorted and every part on it recorded.
LEMMA CheckOnce ==
  ASSUME MultipartInv, OnceInv, NEW t \in Threads, CompleteCheck(t)
  PROVE  OnceInv'
<1> DEFINE u == job[t].u
           list == job[t].list
<1>1. /\ MultipartTypeOK /\ pc[t] = "check" /\ u \in Uploads /\ list \in Seq(Listed)
      /\ got[t] = <<>> /\ job[t] \in Jobs /\ job \in [Threads -> Jobs]
      /\ UNCHANGED <<files, parts, sends, got, linked>>
  BY RequestFacts DEF CompleteCheck, RequestInv, registry, disk, history
<1>2. PICK l \in SortedParts(list) :
         \/ AllUploaded(u, l) /\ job' = [job EXCEPT ![t].list = l] /\ Goto(t, "read")
         \/ Reply(t, "error") /\ UNCHANGED job
  BY DEF CompleteCheck
<1>3. CASE Reply(t, "error") /\ UNCHANGED job
  <2>1. pc'[t] = "done" /\ \A s \in Threads \ {t} : pc'[s] = pc[s]
    BY <1>3, Moves DEF Statuses
  <2> QED
    BY <1>1, <1>3, <2>1, QuietOnce
<1>4. CASE AllUploaded(u, l) /\ job' = [job EXCEPT ![t].list = l] /\ Goto(t, "read")
  <2>1. Len(l) = Len(list) /\ ByNumber(l) /\ \A i \in 1..Len(l) : l[i].n \in Parts
    <3>1. PICK p \in Bijection(DOMAIN list, DOMAIN list) :
             l = [i \in DOMAIN list |-> list[p[i]]]
      BY <1>2 DEF SortedParts
    <3>2. DOMAIN list = 1..Len(list) /\ Len(list) \in Nat /\ p \in [DOMAIN list -> DOMAIN list]
      BY <1>1, <3>1 DEF Bijection, Injection
    <3>3. Len(l) = Len(list)
      BY <3>1, <3>2
    <3>4. \A i, j \in DOMAIN list : i < j => l[i].n <= l[j].n
      BY <1>2 DEF SortedParts
    <3>5. \A i \in 1..Len(list) : l[i] \in Listed
      BY <1>1, <3>1, <3>2
    <3> QED
      BY <3>2, <3>3, <3>4, <3>5 DEF ByNumber, Listed
  <2>2. /\ pc'[t] = "read" /\ job'[t].list = l /\ job'[t].u = u
        /\ \A s \in Threads \ {t} : pc'[s] = pc[s] /\ job'[s] = job[s]
    BY <1>1, <1>4, Moves DEF Jobs
  <2>3. got'[t] = <<>> /\ Len(<<>>) = 0
    BY <1>1
  <2>4. \A i \in 1..Len(l) : l[i].d \in parts[u][l[i].n] /\ sends[u][l[i].n] # 0
    <3>1. \A i \in 1..Len(l) : l[i].d \in parts[u][l[i].n]
      BY <1>4 DEF AllUploaded
    <3>2. \A m \in Parts : sends[u][m] = 0 => parts[u][m] = {}
      BY <1>1 DEF OnceInv, OnceSent
    <3> QED
      BY <2>1, <3>1, <3>2
  <2>5. OnceTaken(t)'
    <3> HIDE DEF u, list
    <3>1. \A i \in 1..Len(l) : ~ (i <= 0)
      OBVIOUS
    <3> QED
      BY <1>1, <2>1, <2>2, <2>3, <2>4, <3>1 DEF OnceTaken, ByNumber
  <2>6. \A s \in Threads \ {t} : OnceTaken(s)'
    BY <1>1, <2>2, OthersTaken
  <2>7. ASSUME NEW v \in Uploads, NEW m \in Parts
        PROVE  OnceSent(v, m)'
    <3>1. \A s \in Threads : Sending(s, v, m)' => Sending(s, v, m)
      BY <2>2 DEF Sending
    <3> QED
      BY <1>1, <3>1, OtherParts
  <2> QED
    BY <2>5, <2>6, <2>7 DEF OnceInv
<1> QED
  BY <1>2, <1>3, <1>4

\* ... and the file it reads next holds what is recorded.
LEMMA ReadOnce ==
  ASSUME MultipartInv, OnceInv, NEW t \in Threads, CompleteRead(t)
  PROVE  OnceInv'
<1> DEFINE u == job[t].u
           list == job[t].list
           i == Len(got[t]) + 1
           label == IF i = Len(list) THEN "register" ELSE "read"
<1>1. /\ MultipartTypeOK /\ pc[t] = "read" /\ u \in Uploads /\ list \in Seq(Listed)
      /\ got \in [Threads -> Seq(Seq(Data))] /\ got[t] \in Seq(Seq(Data))
      /\ Len(got[t]) < Len(list) /\ OnceTaken(t)
      /\ UNCHANGED <<files, parts, sends, job, linked>>
  BY RequestFacts DEF CompleteRead, RequestInv, OnceInv, MultipartTypeOK, registry, disk, history
<1>2. CASE CompleteFails(t) /\ UNCHANGED got
  <2>1. pc'[t] = "done" /\ \A s \in Threads \ {t} : pc'[s] = pc[s]
    BY <1>2, Moves DEF CompleteFails, Statuses
  <2> QED
    BY <1>1, <1>2, <2>1, QuietOnce
<1>3. CASE /\ \E f \in files[u][list[i].n] : got' = [got EXCEPT ![t] = Append(@, f)]
           /\ Goto(t, label)
  <2>1. PICK f \in files[u][list[i].n] : got' = [got EXCEPT ![t] = Append(got[t], f)]
    BY <1>3
  <2>2. i \in 1..Len(list) /\ Len(got[t]) \in Nat /\ Len(list) \in Nat
    <3>1. Len(got[t]) \in Nat /\ Len(list) \in Nat
      BY <1>1
    <3> QED
      BY <1>1, <3>1
  <2>3. list[i].n \in Parts
    <3>1. list[i] \in Listed
      BY <1>1, <2>2, ElementOfSeq
    <3> QED
      BY <3>1 DEF Listed
  <2>4. sends[u][list[i].n] = 1 => f = Bytes(list[i].d)
    <3>1. sends[u][list[i].n] = 1 => list[i].d \in parts[u][list[i].n]
      BY <1>1, <2>2 DEF OnceTaken
    <3>2. OnceSent(u, list[i].n)
      BY <1>1, <2>3 DEF OnceInv
    <3> QED
      BY <2>1, <3>1, <3>2 DEF OnceSent
  <2>5. f \in Seq(Data)
    BY <1>1, <2>1, <2>3 DEF MultipartTypeOK
  <2>6. /\ Len(got'[t]) = i
        /\ \A j \in 1..Len(got[t]) : got'[t][j] = got[t][j]
        /\ got'[t][i] = f
    <3>1. got'[t] = Append(got[t], f)
      BY <1>1, <2>1
    <3> QED
      BY <1>1, <2>5, <3>1
  <2>7. ASSUME NEW j \in 1..Len(list)
        PROVE  /\ sends[u][list[j].n] # 0
               /\ sends[u][list[j].n] = 1 =>
                     /\ list[j].d \in parts[u][list[j].n]
                     /\ j <= Len(got'[t]) => got'[t][j] = Bytes(list[j].d)
    <3>1. /\ sends[u][list[j].n] # 0
          /\ sends[u][list[j].n] = 1 =>
                /\ list[j].d \in parts[u][list[j].n]
                /\ j <= Len(got[t]) => got[t][j] = Bytes(list[j].d)
      BY <1>1, <2>7 DEF OnceTaken
    <3>2. j <= Len(got'[t]) => j \in 1..Len(got[t]) \/ j = i
      BY <2>2, <2>6, <2>7
    <3> HIDE DEF u, list, i
    <3>3. CASE j \in 1..Len(got[t])
      <4>1. j <= Len(got[t]) /\ got'[t][j] = got[t][j]
        BY <2>2, <2>6, <3>3
      <4> QED
        BY <3>1, <4>1
    <3>4. CASE j = i
      BY <2>4, <2>6, <3>1, <3>4
    <3> QED
      BY <3>1, <3>2, <3>3, <3>4
  <2>8. ByNumber(list)
    BY <1>1 DEF OnceTaken
  <2>9. pc'[t] = label /\ \A s \in Threads \ {t} : pc'[s] = pc[s] /\ got'[s] = got[s]
    BY <1>1, <1>3, <2>1, Moves
  <2>10. OnceTaken(t)'
    <3>1. pc'[t] \in {"read", "register"} /\ (pc'[t] = "register" => Len(got'[t]) = Len(list))
      BY <2>6, <2>9
    <3>2. job'[t] = job[t]
      BY <1>1
    <3> HIDE DEF i, label
    <3> QED
      BY <1>1, <2>7, <2>8, <3>1, <3>2 DEF OnceTaken, ByNumber
  <2>11. \A s \in Threads \ {t} : OnceTaken(s)'
    BY <1>1, <2>9, OthersTaken
  <2>12. ASSUME NEW v \in Uploads, NEW m \in Parts
         PROVE  OnceSent(v, m)'
    <3>1. \A s \in Threads : Sending(s, v, m)' => Sending(s, v, m)
      BY <1>1, <2>9 DEF Sending
    <3> QED
      BY <1>1, <3>1, OtherParts
  <2> QED
    BY <2>10, <2>11, <2>12 DEF OnceInv
<1> QED
  BY <1>2, <1>3 DEF CompleteRead

\* A directory that goes takes its files and their names away.
LEMMA RemovedFiles ==
  ASSUME MultipartInv, NEW w \in Uploads, RemoveDir(w)
  PROVE  /\ \A v \in Uploads, m \in Parts : files'[v][m] \subseteq files[v][m]
         /\ \A s \in Threads : s \in linked => s \in linked' \/ files'[job[s].u][job[s].n] = {}
<1>1. /\ files \in [Uploads -> [Parts -> SUBSET Seq(Data)]]
      /\ \A s \in Threads : job[s].u \in Uploads /\ job[s].n \in Parts
  BY RequestFacts DEF MultipartInv, MultipartTypeOK
<1>2. CASE /\ files' = [files EXCEPT ![w] = [n \in Parts |-> {}]]
           /\ linked' = {s \in linked : job[s].u # w}
  BY <1>1, <1>2
<1>3. CASE UNCHANGED disk
  BY <1>3 DEF disk
<1> QED
  BY <1>2, <1>3 DEF RemoveDir

\* A step of one request.
LEMMA RequestOnce ==
  ASSUME MultipartInv, OnceInv, NEW t \in Threads, RequestStep(t)
  PROVE  OnceInv'
<1>1. CASE PartOpen(t) \/ PartWrite(t) \/ PartRecord(t) \/ CompleteCheck(t) \/ CompleteRead(t)
  BY <1>1, OpenOnce, WriteOnce, RecordOnce, CheckOnce, ReadOnce
<1>2. CASE Finish(t)
  <2>1. /\ UNCHANGED <<parts, sends, files, linked>> /\ pc'[t] = "idle"
        /\ \A s \in Threads \ {t} : pc'[s] = pc[s] /\ job'[s] = job[s] /\ got'[s] = got[s]
    BY <1>2, RequestFacts DEF Finish, registry, disk, history, MultipartTypeOK
  <2> QED
    BY <2>1, QuietOnce
<1>3. CASE NewMultipartUpload(t) \/ validateUpload(t) \/ GetUpload(t) \/ ListParts(t) \/ PartMkdir(t)
  <2>1. UNCHANGED <<parts, sends, files, linked, job, got>>
    BY <1>3 DEF NewMultipartUpload, validateUpload, GetUpload, ListParts, PartMkdir,
                registry, disk, history
  <2>2. PICK label \in {"done", "mkdir", "get", "rmdir", "check", "list", "open"} :
           \/ Goto(t, label)
           \/ label = "done" /\ \E status \in Statuses : Reply(t, status)
    <3>1. CASE NewMultipartUpload(t) \/ ListParts(t) \/ PartMkdir(t)
      BY <3>1 DEF NewMultipartUpload, ListParts, PartMkdir, Statuses
    <3>2. CASE validateUpload(t)
      <4>1. job[t].op \in {"part", "complete", "abort", "list"}
        BY <3>2, RequestFacts DEF validateUpload, RequestInv, Jobs
      <4>2. afterValidate[job[t].op] \in {"mkdir", "get", "rmdir"}
        BY <4>1 DEF afterValidate
      <4> QED
        BY <3>2, <4>2 DEF validateUpload, Statuses
    <3>3. CASE GetUpload(t)
      <4>1. job[t].op \in {"complete", "list"}
        BY <3>3, RequestFacts DEF GetUpload, RequestInv
      <4>2. afterGet[job[t].op] \in {"check", "list"}
        BY <4>1 DEF afterGet
      <4> QED
        BY <3>3, <4>2 DEF GetUpload, Statuses
    <3> QED
      BY <1>3, <3>1, <3>2, <3>3
  <2>3. pc'[t] = label /\ \A s \in Threads \ {t} : pc'[s] = pc[s]
    BY <2>2, Moves
  <2> QED
    BY <2>1, <2>2, <2>3, QuietOnce
<1>4. CASE PartLock(t)
  <2>1. /\ UNCHANGED <<parts, sends, files, linked, job, got>> /\ pc[t] = "lock"
        /\ pc'[t] = "record" /\ \A s \in Threads \ {t} : pc'[s] = pc[s]
    BY <1>4, Moves DEF PartLock, registry, disk, history
  <2> QED
    BY <2>1, QuietOnce
<1>5. CASE CompleteRegister(t)
  <2>1. UNCHANGED <<parts, sends, files, linked, job, got>>
    BY <1>5 DEF CompleteRegister, registry, disk
  <2>2. pc'[t] \in {"done", "rmdir"} /\ \A s \in Threads \ {t} : pc'[s] = pc[s]
    BY <1>5, Moves DEF CompleteRegister, CompleteFails, Statuses
  <2> QED
    BY <2>1, <2>2, QuietOnce
<1>6. CASE CleanupFiles(t)
  <2>1. /\ UNCHANGED <<parts, sends, job, got>> /\ RemoveDir(job[t].u) /\ job[t].u \in Uploads
        /\ pc'[t] = "forget" /\ \A s \in Threads \ {t} : pc'[s] = pc[s]
    BY <1>6, Moves, RequestFacts DEF CleanupFiles, registry, history
  <2> QED
    BY <2>1, RemovedFiles, QuietOnce
<1>7. CASE CleanupForget(t)
  <2>1. /\ UNCHANGED <<parts, sends, files, linked, job, got>>
        /\ pc'[t] = "done" /\ \A s \in Threads \ {t} : pc'[s] = pc[s]
    BY <1>7, Moves DEF CleanupForget, disk, history, Statuses
  <2> QED
    BY <2>1, QuietOnce
<1> QED
  BY <1>1, <1>2, <1>3, <1>4, <1>5, <1>6, <1>7 DEF RequestStep

\* Every step keeps the invariant of the parts that were sent once.
LEMMA NextOnce ==
  ASSUME MultipartInv, OnceInv, [MultipartNext]_mpVars
  PROVE  OnceInv'
<1>1. ASSUME NEW t \in Threads, RequestStep(t) PROVE OnceInv'
  BY <1>1, RequestOnce
<1>2. ASSUME NEW t \in Threads, NEW j, Arrive(t, j) PROVE OnceInv'
  <2>1. /\ UNCHANGED <<parts, sends, files, linked, got>> /\ pc'[t] \in {"new", "validate"}
        /\ \A s \in Threads \ {t} : pc'[s] = pc[s] /\ job'[s] = job[s]
    BY <1>2, Moves, RequestFacts DEF Arrive, registry, disk, history
  <2> QED
    BY <2>1, QuietOnce
<1>3. CASE \/ ReapTick \/ ReapLock \/ ReapUnlock \/ ReapDone \/ ReapForget \/ BucketCall
           \/ \E u \in Uploads : ReapVisit(u) \/ Age(u)
  <2>1. UNCHANGED <<parts, sends, files, linked, pc, job, got>>
    BY <1>3 DEF ReapTick, ReapLock, ReapUnlock, ReapDone, ReapForget, BucketCall, ReapVisit, Age,
                registry, disk, request, history
  <2> QED
    BY <2>1, QuietOnce
<1>4. ASSUME NEW u \in Uploads, ReapFiles(u) PROVE OnceInv'
  <2>1. UNCHANGED <<parts, sends, pc, job, got>> /\ RemoveDir(u)
    BY <1>4 DEF ReapFiles, registry, request, history
  <2> QED
    BY <2>1, RemovedFiles, QuietOnce
<1>5. CASE Restart
  <2>1. /\ UNCHANGED <<files, sends>> /\ \A t \in Threads : pc'[t] = "idle"
        /\ \A u \in Uploads, n \in Parts : parts'[u][n] = {}
    BY <1>5 DEF Restart, history, noFiles
  <2>2. \A u \in Uploads, n \in Parts : OnceSent(u, n)'
    BY <2>1 DEF OnceInv, OnceSent, Sending
  <2>3. \A t \in Threads : OnceTaken(t)'
    BY <2>1 DEF OnceTaken
  <2> QED
    BY <2>2, <2>3 DEF OnceInv
<1>6. CASE UNCHANGED mpVars
  <2>1. UNCHANGED <<parts, sends, files, linked, pc, job, got>>
    BY <1>6 DEF mpVars, registry, disk, request, history
  <2> QED
    BY <2>1, QuietOnce
<1> QED
  BY <1>1, <1>2, <1>3, <1>4, <1>5, <1>6 DEF MultipartNext, Call, ReapStep

\* Whatever requests, reaper, failing file operations and restarts run side by side,
\* Complete registers the contents whose ETags it was given, in the order of the part
\* numbers, if none of these parts was sent twice (multipart.go: UploadPart,
\* CompleteMultipartUpload).
THEOREM ObjectsAsSent == MultipartSpec => []AssembledAsSent
<1>1. MultipartInit => OnceInv
  BY DEF MultipartInit, noFiles, OnceInv, OnceSent, OnceTaken, Sending
<1>2. MultipartInv /\ OnceInv /\ [MultipartNext]_mpVars => OnceInv'
  BY NextOnce
<1>3. MultipartInv /\ OnceInv => AssembledAsSent
  <2> SUFFICES ASSUME MultipartInv, OnceInv, NEW t \in Threads, pc[t] = "register"
               PROVE  /\ ByNumber(job[t].list)
                      /\ (\A i \in 1..Len(job[t].list) : sends[job[t].u][job[t].list[i].n] = 1)
                         => got[t] = [i \in 1..Len(job[t].list) |-> Bytes(job[t].list[i].d)]
    BY DEF AssembledAsSent, ByNumber
  <2> DEFINE l == job[t].list
  <2>1. OnceTaken(t) /\ got[t] \in Seq(Seq(Data)) /\ l \in Seq(Listed)
    BY RequestFacts DEF OnceInv
  <2>2. ByNumber(l) /\ Len(got[t]) = Len(l)
    BY <2>1 DEF OnceTaken
  <2>3. ASSUME \A i \in 1..Len(l) : sends[job[t].u][l[i].n] = 1
        PROVE  got[t] = [i \in 1..Len(l) |-> Bytes(l[i].d)]
    <3>1. \A i \in 1..Len(l) : i <= Len(got[t]) => got[t][i] = Bytes(l[i].d)
      BY <2>1, <2>3 DEF OnceTaken
    <3>2. got[t] \in [1..Len(got[t]) -> Seq(Data)] /\ Len(l) \in Nat
      BY <2>1, LenProperties
    <3> HIDE DEF l
    <3>3. \A i \in 1..Len(l) : got[t][i] = Bytes(l[i].d)
      BY <2>2, <3>1, <3>2
    <3> QED
      BY <2>2, <3>2, <3>3
  <2> QED
    BY <2>2, <2>3
<1> QED
  BY <1>1, <1>2, <1>3, MultipartInductive, PTL DEF MultipartSpec
=============================================================================
