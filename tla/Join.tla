-------------------------------- MODULE Join --------------------------------
(***************************************************************************)
(* Starting nodes and forming a cluster: main of cmd/server/main.go,       *)
(* RequestJoin and routeInternal of internal/api/join.go, Bootstrap and    *)
(* AddVoter of internal/raft/raft.go.                                      *)
(*                                                                         *)
(* A process starts Raft, bootstraps a cluster or asks its target over     *)
(* HTTP to be admitted, again and again until it is, and only then serves  *)
(* HTTP itself.  The target answers when its AddVoter is committed, and    *)
(* refuses when it does not lead.                                          *)
(*                                                                         *)
(* Of hashicorp/raft, which is external, the module has the committed set  *)
(* of voters, the one change of it that may be in the log, and who leads.  *)
(* A change counts from the moment it is in the log: it is committed by a  *)
(* majority of the new set of voters, and a leader that has no majority of *)
(* that set steps down.                                                    *)
(***************************************************************************)
EXTENDS Naturals, FiniteSets

CONSTANTS
  Nodes,
  First,     \* the node that is started with --bootstrap
  Target,    \* the address each node gets with --join
  NoNode     \* no leader

ASSUME TargetAssumption ==
  /\ IsFiniteSet(Nodes) /\ First \in Nodes /\ NoNode \notin Nodes
  /\ Target \in [Nodes -> Nodes] /\ \A n \in Nodes : Target[n] # n

VARIABLES
  phase,      \* where main is on each node
  voters,     \* the committed Raft configuration
  proposed,   \* the node, if any, whose AddVoter is in the log and not committed
  holder,     \* a node that has this entry in its log
  leader

raft == <<voters, proposed, holder, leader>>
vars == <<phase, raft>>

Phases == {"down", "joining", "posted", "adding", "settling", "serving"}

Runs(n) == phase[n] # "down"

Majority(S) == 2 * Cardinality({n \in S : Runs(n)}) > Cardinality(S)

Goto(n, p) == phase' = [phase EXCEPT ![n] = p]

FailPosted(n, P) ==                      \* mutant: AddVoter waits on when leadership is lost
  [m \in Nodes |-> IF Target[m] = n /\ phase[m] \in P \ {"adding"} THEN "joining" ELSE phase[m]]

\* The requests at node n that are in one of the phases P come back as errors.
Fail(n, P) ==
  [m \in Nodes |-> IF Target[m] = n /\ phase[m] \in P THEN "joining" ELSE phase[m]]

Init ==
  /\ phase = [n \in Nodes |-> "down"]
  /\ voters = {} /\ proposed = {} /\ holder = NoNode /\ leader = NoNode

-----------------------------------------------------------------------------
(* main *)

\* raft.New and Bootstrap; a second Bootstrap over stored state is fatal.
StartBootstrap(n) ==
  /\ n = First /\ ~ Runs(n)
  /\ voters = {}
  /\ voters' = {n}
  /\ Goto(n, "settling")
  /\ UNCHANGED <<proposed, holder, leader>>

StartJoin(n) ==
  /\ ~ Runs(n)
  /\ Goto(n, "joining")
  /\ UNCHANGED raft

\* Neither flag: the stored configuration is used.  A node that has none stays
\* outside the cluster and is left out of the model.
StartPlain(n) ==
  /\ ~ Runs(n) /\ n \in voters
  /\ Goto(n, "settling")
  /\ UNCHANGED raft

\* After half a second the HTTP server and the reaper start.
Serve(n) ==
  /\ phase[n] = "settling"
  /\ Goto(n, "serving")
  /\ UNCHANGED raft

StopKeepsLeader(n) ==                    \* mutant: a leader that stops goes on leading
  /\ Runs(n)
  /\ Goto(n, "down")
  /\ UNCHANGED raft

\* A signal, a fatal error or a crash ends the process.
Stop(n) ==
  /\ Runs(n)
  /\ phase' = [Fail(n, {"posted", "adding"}) EXCEPT ![n] = "down"]
  /\ leader' = IF leader = n THEN NoNode ELSE leader
  /\ UNCHANGED <<voters, proposed, holder>>

-----------------------------------------------------------------------------
(* RequestJoin on the joiner, routeInternal on its target. *)

\* Only a node that serves HTTP takes the connection.
RequestJoin(n) ==
  /\ phase[n] = "joining" /\ phase[Target[n]] = "serving"
  /\ Goto(n, "posted")
  /\ UNCHANGED raft

\* AddVoter on the leader waits for an earlier change and appends its own ...
HandleJoin(n) ==
  /\ phase[n] = "posted"
  /\ leader = Target[n] /\ proposed = {}
  /\ proposed' = {n} /\ holder' = leader
  /\ Goto(n, "adding")
  /\ UNCHANGED <<voters, leader>>

\* ... and elsewhere fails with ErrNotLeader: status 503.
HandleJoinNotLeader(n) ==
  /\ phase[n] = "posted" /\ leader # Target[n]
  /\ Goto(n, "joining")
  /\ UNCHANGED raft

\* AddVoter's future resolves once the configuration is committed: status 200.
AnswerJoin(n) ==
  /\ phase[n] = "adding"
  /\ n \in voters \ proposed
  /\ Goto(n, "settling")
  /\ UNCHANGED raft

\* The connection breaks, AddVoter times out, or an answer is lost, whatever has
\* become of the entry; the joiner sleeps and tries again.
JoinFails(n) ==
  /\ phase[n] \in {"posted", "adding"}
  /\ Goto(n, "joining")
  /\ UNCHANGED raft

-----------------------------------------------------------------------------
(* Raft. *)

CommitVoter(n) ==
  /\ n \in proposed /\ leader # NoNode
  /\ Majority(voters \cup proposed)
  /\ voters' = voters \cup proposed
  /\ proposed' = {} /\ holder' = NoNode
  /\ UNCHANGED <<phase, leader>>

\* A node is elected that has every entry, ...
Elect(n) ==
  /\ leader = NoNode
  /\ n \in voters \cup proposed /\ Runs(n) /\ Majority(voters \cup proposed)
  /\ leader' = n
  /\ UNCHANGED <<phase, voters, proposed, holder>>

\* ... or one that lacks the uncommitted one, without the vote of its holder.
ElectWithout(n) ==
  /\ leader = NoNode /\ proposed # {}
  /\ n \in voters \ {holder} /\ Runs(n)
  /\ 2 * Cardinality({m \in voters \ {holder} : Runs(m)}) > Cardinality(voters)
  /\ leader' = n
  /\ proposed' = {} /\ holder' = NoNode
  /\ UNCHANGED <<phase, voters>>

\* A leader loses contact with the others for a while: the AddVoter calls that
\* wait on it fail.
Depose ==
  /\ leader # NoNode
  /\ leader' = NoNode
  /\ phase' = Fail(leader, {"adding"})
  /\ UNCHANGED <<voters, proposed, holder>>

\* A leader without a majority gives up when its lease ends.
LoseLease == ~ Majority(voters \cup proposed) /\ Depose

-----------------------------------------------------------------------------
Next ==
  \/ \E n \in Nodes :
        \/ StartBootstrap(n) \/ StartJoin(n) \/ StartPlain(n) \/ Serve(n) \/ Stop(n)
        \/ RequestJoin(n) \/ HandleJoin(n) \/ HandleJoinNotLeader(n)
        \/ AnswerJoin(n) \/ JoinFails(n)
        \/ CommitVoter(n) \/ Elect(n) \/ ElectWithout(n)
  \/ Depose

(***************************************************************************)
(* Processes that run go on: main, the handlers and Raft's own goroutines  *)
(* are never blocked by another request, and a leader that has lost its    *)
(* majority notices.  Nothing is assumed about operators, elections and    *)
(* what goes wrong.                                                        *)
(***************************************************************************)
Fairness ==
  /\ \A n \in Nodes :
        /\ WF_vars(Serve(n)) /\ WF_vars(RequestJoin(n))
        /\ WF_vars(HandleJoin(n)) /\ WF_vars(HandleJoinNotLeader(n))
        /\ WF_vars(AnswerJoin(n)) /\ WF_vars(CommitVoter(n))
  /\ WF_vars(LoseLease)

Spec == Init /\ [][Next]_vars /\ Fairness

-----------------------------------------------------------------------------
(* Properties. *)

\* The type of every variable; one membership change at a time, and a process
\* that has ended leads no more.
JoinTypeOK ==
  /\ phase \in [Nodes -> Phases]
  /\ voters \subseteq Nodes /\ proposed \subseteq Nodes
  /\ {holder, leader} \subseteq Nodes \cup {NoNode}
  /\ Cardinality(proposed) <= 1 /\ (holder = NoNode <=> proposed = {})
  /\ leader # NoNode => Runs(leader)

\* "ask it to admit us, retrying until it does" (main.go:107): when the target
\* serves and leads for good from some time on, and no process is stopped and no
\* connection to the leader lost any more, every node leaves the join loop and serves,
\* whatever was lost, committed or dropped before and whoever else is joining.
JoinersServe ==
  \A n \in Nodes :
     /\ <>[](leader = Target[n] /\ phase[Target[n]] = "serving")
     /\ <>[][\A m \in Nodes : ~ Stop(m) /\ (leader = Target[m] => ~ JoinFails(m))]_vars
     => (phase[n] = "joining" ~> phase[n] \in {"serving", "down"})
=============================================================================
