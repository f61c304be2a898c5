---------------------------- MODULE MetadataLog ----------------------------
(***************************************************************************)
(* What replicating object metadata through Raft promises.  There is one   *)
(* log of operations.  A node takes it entry by entry; only a restart      *)
(* takes it back, to where its own snapshot is, and only the snapshot of   *)
(* another node takes it further at once.  A node that is on the log shows *)
(* the metadata its prefix gives.  One that has strayed may show anything, *)
(* and is back on the log only with a snapshot that was taken on it.       *)
(***************************************************************************)
EXTENDS MetaOps

CONSTANT Nodes

VARIABLES
  states,   \* states[i + 1]: the metadata after the first i operations
  at,       \* how many operations each node has seen
  view,     \* the metadata each node shows
  onLog,    \* whether a node has done nothing that is not in the log
  saved,    \* how many operations each node's snapshot stands for
  savedOn   \* whether it was taken on the log

logVars == <<states, at, view, onLog, saved, savedOn>>

LogInit ==
  /\ states = <<noObjects>>
  /\ at = [n \in Nodes |-> 0] /\ saved = at
  /\ view = [n \in Nodes |-> noObjects]
  /\ onLog = [n \in Nodes |-> TRUE] /\ savedOn = onLog

\* Nobody but n shows anything else than before, and n what it should.
Shows(n) ==
  /\ view' = [view EXCEPT ![n] = view'[n]]
  /\ onLog'[n] => view'[n] = states[at'[n] + 1]

Commit ==
  /\ UNCHANGED <<at, view, onLog, saved, savedOn>>
  /\ \E op \in RaftOps :
        states' = Append(states, ApplyOp(states[Len(states)], op))

Apply(n) ==
  /\ at[n] + 1 < Len(states)
  /\ at' = [at EXCEPT ![n] = @ + 1]
  /\ Shows(n)
  /\ UNCHANGED <<states, onLog, saved, savedOn>>

\* Node n changes its metadata itself, or fails to apply the next operation.
Stray(n) ==
  /\ \/ UNCHANGED at
     \/ at[n] + 1 < Len(states) /\ at' = [at EXCEPT ![n] = @ + 1]
  /\ onLog' = [onLog EXCEPT ![n] = FALSE]
  /\ Shows(n)
  /\ UNCHANGED <<states, saved, savedOn>>

Save(n) ==
  /\ \E i \in saved[n]..at[n] :
        /\ saved' = [saved EXCEPT ![n] = i]
        /\ savedOn' = [savedOn EXCEPT ![n] = onLog[n] /\ i = at[n]]
  /\ UNCHANGED <<states, at, view, onLog>>

FallBack(n) ==
  /\ saved[n] <= at[n]
  /\ at' = [at EXCEPT ![n] = saved[n]]
  /\ onLog' = [onLog EXCEPT ![n] = savedOn[n]]
  /\ Shows(n)
  /\ UNCHANGED <<states, saved, savedOn>>

CatchUp(m, n) ==
  /\ saved[m] > at[n]
  /\ at' = [at EXCEPT ![n] = saved[m]]
  /\ saved' = [saved EXCEPT ![n] = saved[m]]
  /\ savedOn' = [savedOn EXCEPT ![n] = savedOn[m]]
  /\ onLog' \in {[onLog EXCEPT ![n] = savedOn[m]], [onLog EXCEPT ![n] = FALSE]}
  /\ Shows(n)
  /\ UNCHANGED states

LogNext ==
  \/ Commit
  \/ \E n \in Nodes : Apply(n) \/ Stray(n) \/ Save(n) \/ FallBack(n)
  \/ \E m, n \in Nodes : CatchUp(m, n)

LogSpec == LogInit /\ [][LogNext]_logVars
=============================================================================
