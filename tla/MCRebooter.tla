----------------------------- MODULE MCRebooter -----------------------------
(***************************************************************************)
(* Rebooter for TLC: a few events of the environment, in any mix, around   *)
(* the steps of the daemons and of CKE.                                    *)
(***************************************************************************)
EXTENDS Rebooter, TLC

CONSTANTS
  b1, b2,       \* boot servers
  n1, n2, n3,   \* nodes
  MaxAdd,       \* entries added to the list
  MaxEvent      \* cancellations, uses of disable, crashes, errors, lost
                \* leases, failed drains and changes of the time, in total

VARIABLES
  adds, events  \* how many remain

mcVars == <<rebooterVars, adds, events>>

MCGroupOf == (n1 :> "rack0") @@ (n2 :> "rack1") @@ (n3 :> "rack1")
MCLabels == (n1 :> {"cs"}) @@ (n2 :> {"ss"}) @@ (n3 :> {"ss"})
MCRebootTimes ==
  <<[match |-> {"cs"}, deny |-> {"first"}, allow |-> {"night"}],
    [match |-> {}, deny |-> {}, allow |-> {"night"}]>>

Good == {"night"}   \* every node can be rebooted

MCInit ==
  /\ RebooterInit
  /\ within = Good
  /\ adds = MaxAdd
  /\ events = MaxEvent

Spend(budget) == budget > 0 /\ budget' = budget - 1

\* Something happens to the daemons, to CKE or to the time, or the
\* administrator interferes.
Event ==
  \/ \E h \in Host : Crash(h) \/ Exit(h) \/ (Running(h) /\ LeaseExpires(h))
  \/ \E i \in DOMAIN list : Cancel(i)
  \/ CancelAll
  \/ enabled /\ EnableNecoRebooter(FALSE)
  \/ \E j \in DOMAIN queue : DrainFails(j)
  \/ TimePasses({}) \/ TimePasses(Schedules)

Enables == ~enabled /\ EnableNecoRebooter(TRUE)
Opens == TimePasses(Good)

\* The old key of a daemon goes, and a daemon learns that its key has gone.
Notices(h) ==
  \/ ~Running(h) /\ LeaseExpires(h)
  \/ leader # h /\ Exit(h)

Steps ==
  \/ \E h \in Host : DaemonStep(h) \/ Notices(h)
  \/ CKEStep \/ CancelNext \/ Enables \/ Opens

MCNext ==
  \/ Steps /\ UNCHANGED <<adds, events>>
  \/ Spend(events) /\ Event /\ UNCHANGED adds
  \/ /\ \E n \in Node : (Duplicates \/ ~Listed(n)) /\ Add(n)
     /\ Spend(adds) /\ UNCHANGED events

MCSpec == MCInit /\ [][MCNext]_mcVars

\* Whoever can take a step takes one, and the time of day when every node can be
\* rebooted comes again.  Nothing is assumed of CKE while the rebooter is
\* disabled, except that it drops cancelled entries.
CKEWorks ==
  \/ enabled /\ CKEStep
  \/ \E j \in DOMAIN queue : queue[j].status = "cancelled" /\ Leaves(j)

MCFairSpec ==
  /\ MCSpec
  /\ \A h \in Host : WF_mcVars(DaemonStep(h) /\ UNCHANGED <<adds, events>>)
  /\ \A h \in Host : WF_mcVars(Notices(h) /\ UNCHANGED <<adds, events>>)
  /\ WF_mcVars(CKEWorks /\ UNCHANGED <<adds, events>>)
  /\ WF_mcVars(CancelNext /\ UNCHANGED <<adds, events>>)
  /\ WF_mcVars(Opens /\ UNCHANGED <<adds, events>>)
=============================================================================
