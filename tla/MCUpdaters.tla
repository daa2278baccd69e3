----------------------------- MODULE MCUpdaters -----------------------------
(***************************************************************************)
(* Updaters for TLC: every event of the environment has a budget, and      *)
(* workers report the end of a round only.                                 *)
(***************************************************************************)
EXTENDS Updaters

CONSTANTS
  b1, b2,       \* boot servers
  MaxLate,      \* completed rounds that a worker aborts
  MaxPublish,   \* changes of GitHub's latest release
  MaxFault,     \* sessions that expire, updaters that die
  MaxTimeout,   \* rounds that become overdue
  MaxRecover,   \* uses of neco recover
  MaxMember     \* boot servers that join or leave

VARIABLE left   \* what remains of these budgets

mcVars == <<updatersVars, left>>

Spend(event) ==
  /\ left[event] > 0
  /\ left' = [left EXCEPT ![event] = @ - 1]

MCInit ==
  /\ UpdatersInit
  /\ left = [late |-> MaxLate, publish |-> MaxPublish, fault |-> MaxFault,
             timeout |-> MaxTimeout, recover |-> MaxRecover,
             member |-> MaxMember]

\* A server of the current request ends the round, one way or the other.
Ends(w, cond) ==
  /\ IsMember(current, w)
  /\ ~current.stop
  /\ statuses[w].version # current.version
  /\ Report(w, Status(current.version, FinalStep, cond))

\* A server aborts a round that it has completed.
AbortsLate(w) ==
  /\ statuses[w].cond = "complete"
  /\ Report(w, [statuses[w] EXCEPT !.cond = "abort"])

Reports ==
  /\ \E w \in Lrn : Ends(w, "complete") \/ Ends(w, "abort")
  /\ UNCHANGED left

MCNext ==
  \/ \E u \in UpdaterHosts : UpdaterStep(u) /\ UNCHANGED left
  \/ \E u \in UpdaterHosts : Spend("fault") /\ UpdaterFault(u)
  \/ Reports
  \/ \E w \in Lrn : Spend("late") /\ AbortsLate(w)
  \/ \E version \in Version : Spend("publish") /\ Publish(version)
  \/ Spend("timeout") /\ Timeout
  \/ Spend("recover") /\ AdminRecovers
  \/ \E lrn \in Lrn : Spend("member") /\ (Join(lrn) \/ Leave(lrn))

MCSpec == MCInit /\ [][MCNext]_mcVars

\* Updaters that can take a step take one, and workers end the rounds they are
\* asked for (EveryRoundEnds of NecoUpdate).
MCFairSpec ==
  /\ MCSpec
  /\ \A u \in UpdaterHosts : WF_mcVars(UpdaterStep(u) /\ UNCHANGED left)
  /\ WF_mcVars(Reports)
=============================================================================
