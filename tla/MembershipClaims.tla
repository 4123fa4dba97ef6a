-------------------------- MODULE MembershipClaims --------------------------
(***************************************************************************)
(* What the documents say of joining and restarting and the code does not  *)
(* do.  Each property has a run in which TLC finds a behaviour against it. *)
(***************************************************************************)
EXTENDS Membership

(***************************************************************************)
(* "The `-join` parameter specifies the HTTP address of any existing node  *)
(* in the cluster" (README.md:54): no process fails to start because the   *)
(* node it asked told it the leader, when that leader serves.  The join    *)
(* inside NewRaftNode takes the redirect of a follower for an error.       *)
(***************************************************************************)
JoinThroughAnyNode ==
  [][\A p \in Procs :
       proc[p] = "opening" /\ proc'[p] = "off" /\ stops' = stops =>
         ~(Settled /\ \E c \in Pending(p) : c.at \in conf /\ c.leader = newest)]_vars

(***************************************************************************)
(* "Automatic Recovery: System self-heals without manual intervention"     *)
(* (docs.md:28), when something starts every process again that is not     *)
(* running, with the flags of the README.                                  *)
(***************************************************************************)
RestartFairness ==
  /\ WF_vars(StartBoot)
  /\ \A p \in Procs : WF_vars(Start(p, Boot)) /\ WF_vars(Elect(p)) /\ WF_vars(Establish(p))

RestartSpec == FairSpec /\ RestartFairness

FlagsOfReadme == /\ proc[Boot] \in {"off", "serving"}
                 /\ \A p \in Procs : proc[p] # "alone"

StoppedClusterRecovers ==
  []FlagsOfReadme => []<>(newest # None \/ elections = MaxElections)
=============================================================================
