----------------------------- MODULE JoinProofs -----------------------------
(***************************************************************************)
(* Proofs about Join for any number of nodes, any targets and any loss of  *)
(* processes, connections, entries and leaders.                            *)
(*                                                                         *)
(* JoinTypeOK is inductive as it stands: Stop and Depose take the leader   *)
(* away with its process or its contact, HandleJoin appends a change only  *)
(* when none is pending, and an election that drops the pending change     *)
(* drops its holder with it.                                               *)
(***************************************************************************)
EXTENDS Join, FiniteSetTheorems, TLAPS

\* What Goto leaves in `phase'.
LEMMA GotoFacts ==
  ASSUME JoinTypeOK, NEW n \in Nodes, NEW p \in Phases, Goto(n, p)
  PROVE  /\ phase' \in [Nodes -> Phases] /\ phase'[n] = p
         /\ \A m \in Nodes \ {n} : phase'[m] = phase[m]
BY DEF JoinTypeOK, Goto

\* What requests that fail leave in `phase': some joiners are back in their loop.
LEMMA FailFacts ==
  ASSUME JoinTypeOK, NEW n \in Nodes, NEW P \in SUBSET Phases
  PROVE  /\ Fail(n, P) \in [Nodes -> Phases]
         /\ \A m \in Nodes :
              Fail(n, P)[m] = phase[m] \/ (Fail(n, P)[m] = "joining" /\ phase[m] \in P)
BY DEF JoinTypeOK, Fail, Phases

\* A step that moves main of one node on and leaves Raft's state alone keeps the
\* types.
LEMMA LocalStep ==
  ASSUME JoinTypeOK, NEW n \in Nodes, NEW p \in Phases \ {"down"},
         Goto(n, p), UNCHANGED raft
  PROVE  JoinTypeOK'
<1>1. /\ phase' \in [Nodes -> Phases] /\ phase'[n] = p
      /\ \A m \in Nodes \ {n} : phase'[m] = phase[m]
  BY GotoFacts
<1>2. UNCHANGED <<voters, proposed, holder, leader>>
  BY DEF raft
<1> QED
  BY <1>1, <1>2 DEF JoinTypeOK, Runs

\* Nothing is started: no process runs, no configuration is stored.
LEMMA InitJoinType == Init => JoinTypeOK
<1>1. Cardinality({}) = 0
  BY FS_EmptySet
<1> QED
  BY <1>1 DEF Init, JoinTypeOK, Phases

\* Every step of main, of the handlers and of Raft keeps the types.
LEMMA NextJoinType ==
  ASSUME JoinTypeOK, Next
  PROVE  JoinTypeOK'
<1>0. JoinTypeOK /\ \A n \in Nodes : Target[n] \in Nodes
  BY TargetAssumption
<1>P. {"joining", "posted", "adding", "settling", "serving"} \subseteq Phases \ {"down"}
  BY DEF Phases
<1>1. ASSUME NEW n \in Nodes, StartBootstrap(n)
      PROVE  JoinTypeOK'
  <2>1. /\ voters = {} /\ voters' = {n} /\ Goto(n, "settling")
        /\ UNCHANGED <<proposed, holder, leader>>
    BY <1>1 DEF StartBootstrap
  <2>2. /\ phase' \in [Nodes -> Phases] /\ phase'[n] = "settling"
        /\ \A m \in Nodes \ {n} : phase'[m] = phase[m]
    BY <1>0, <1>P, <2>1, GotoFacts
  <2> QED
    BY <1>0, <2>1, <2>2 DEF JoinTypeOK, Runs
<1>2. ASSUME NEW n \in Nodes, StartJoin(n)
      PROVE  JoinTypeOK'
  <2>1. /\ Goto(n, "joining") /\ UNCHANGED raft
    BY <1>2 DEF StartJoin
  <2> QED
    BY <1>P, <2>1, LocalStep
<1>3. ASSUME NEW n \in Nodes, StartPlain(n)
      PROVE  JoinTypeOK'
  BY <1>3, <1>P, LocalStep DEF StartPlain
<1>4. ASSUME NEW n \in Nodes, Serve(n)
      PROVE  JoinTypeOK'
  BY <1>4, <1>P, LocalStep DEF Serve
<1>5. ASSUME NEW n \in Nodes,
             RequestJoin(n) \/ HandleJoinNotLeader(n) \/ JoinFails(n)
      PROVE  JoinTypeOK'
  BY <1>5, <1>P, LocalStep DEF RequestJoin, HandleJoinNotLeader, JoinFails
<1>6. ASSUME NEW n \in Nodes, AnswerJoin(n)
      PROVE  JoinTypeOK'
  BY <1>6, <1>P, LocalStep DEF AnswerJoin
<1>7. ASSUME NEW n \in Nodes, Stop(n)
      PROVE  JoinTypeOK'
  <2> DEFINE P == {"posted", "adding"}
  <2>1. /\ Fail(n, P) \in [Nodes -> Phases]
        /\ \A m \in Nodes :
             Fail(n, P)[m] = phase[m] \/ (Fail(n, P)[m] = "joining" /\ phase[m] \in P)
    <3>1. P \in SUBSET Phases
      BY DEF Phases
    <3> QED
      BY <1>0, <3>1, FailFacts
  <2>2. /\ phase' = [Fail(n, P) EXCEPT ![n] = "down"]
        /\ leader' = IF leader = n THEN NoNode ELSE leader
        /\ UNCHANGED <<voters, proposed, holder>>
    BY <1>7 DEF Stop
  <2>3. /\ phase' \in [Nodes -> Phases] /\ phase'[n] = "down"
        /\ \A m \in Nodes \ {n} :
             phase'[m] = phase[m] \/ (phase'[m] = "joining" /\ phase[m] \in P)
    BY <2>1, <2>2 DEF Phases
  <2> QED
    BY <1>0, <2>2, <2>3 DEF JoinTypeOK, Runs
<1>8. ASSUME NEW n \in Nodes, HandleJoin(n)
      PROVE  JoinTypeOK'
  <2>1. /\ leader = Target[n] /\ proposed' = {n} /\ holder' = leader
        /\ Goto(n, "adding") /\ UNCHANGED <<voters, leader>>
    BY <1>8 DEF HandleJoin
  <2>2. /\ phase' \in [Nodes -> Phases] /\ phase'[n] = "adding"
        /\ \A m \in Nodes \ {n} : phase'[m] = phase[m]
    BY <1>0, <1>P, <2>1, GotoFacts
  <2>3. Cardinality({n}) = 1
    BY FS_Singleton
  <2> QED
    BY <1>0, <2>1, <2>2, <2>3, TargetAssumption DEF JoinTypeOK, Runs
<1>9. ASSUME NEW n \in Nodes, CommitVoter(n) \/ Elect(n) \/ ElectWithout(n)
      PROVE  JoinTypeOK'
  <2>1. /\ UNCHANGED phase /\ voters \subseteq voters' /\ voters' \subseteq Nodes
        /\ \/ proposed' = proposed /\ holder' = holder
           \/ proposed' = {} /\ holder' = NoNode
        /\ leader' = leader \/ (leader' = n /\ Runs(n))
    BY <1>0, <1>9 DEF CommitVoter, Elect, ElectWithout, JoinTypeOK
  <2>2. Cardinality({}) = 0
    BY FS_EmptySet
  <2> QED
    BY <1>0, <2>1, <2>2 DEF JoinTypeOK, Runs
<1>10. CASE Depose
  <2> DEFINE P == {"adding"}
  <2>1. leader \in Nodes
    BY <1>0, <1>10 DEF Depose, JoinTypeOK
  <2>2. /\ phase' = Fail(leader, P) /\ phase' \in [Nodes -> Phases]
        /\ \A m \in Nodes : phase'[m] = phase[m] \/ phase'[m] = "joining"
    <3>1. P \in SUBSET Phases
      BY DEF Phases
    <3>2. phase' = Fail(leader, P)
      BY <1>10 DEF Depose
    <3> QED
      BY <1>0, <2>1, <3>1, <3>2, FailFacts
  <2>3. leader' = NoNode /\ UNCHANGED <<voters, proposed, holder>>
    BY <1>10 DEF Depose
  <2> QED
    BY <1>0, <2>2, <2>3 DEF JoinTypeOK
<1> QED
  BY <1>1, <1>2, <1>3, <1>4, <1>5, <1>6, <1>7, <1>8, <1>9, <1>10 DEF Next

-----------------------------------------------------------------------------
\* Type correctness of main, the join requests and the membership; at most one
\* change of the voters at a time, and no process that has ended leads.
THEOREM JoinTypeCorrect == Spec => []JoinTypeOK
<1>1. JoinTypeOK /\ UNCHANGED vars => JoinTypeOK'
  BY DEF vars, raft, JoinTypeOK, Runs
<1>2. JoinTypeOK /\ [Next]_vars => JoinTypeOK'
  BY <1>1, NextJoinType
<1> QED
  BY <1>2, InitJoinType, PTL DEF Spec
=============================================================================
