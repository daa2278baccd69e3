----------------------------- MODULE MCServices -----------------------------
(***************************************************************************)
(* Two versions, of which the second changes some of the services, on one  *)
(* boot server; another server joins or leaves.                            *)
(***************************************************************************)
EXTENDS Services

CONSTANTS MaxRound, MaxFault

VARIABLES round, fault

mcvars == <<servicesVars, round, fault>>

MCServerSets == {{0}, {0, 1}}

\* CKE and sabakan-state-setter are of the version of the package, and the
\* script of setup-serf-tags contains it.
MCTag ==
  [s \in Service |->
     [v \in {1, 2} |-> IF s \in {"vault", "serf"} THEN 1 ELSE v]]

MCInit == ServicesInit /\ round = 0 /\ fault = 0

Requests ==
  /\ round < MaxRound /\ round' = round + 1
  /\ \E r \in Request : NewRequest(r)
  /\ UNCHANGED fault

\* After the last of these, an aborted round is retried as it is.
Retries ==
  /\ round = MaxRound /\ status = "aborted" /\ NewRequest(request)
  /\ UNCHANGED <<round, fault>>

Faults ==
  /\ fault < MaxFault /\ fault' = fault + 1
  /\ Fails \/ Crash
  /\ UNCHANGED round

Works == (RunStep \/ Run) /\ UNCHANGED <<round, fault>>

MCNext == Requests \/ Retries \/ Faults \/ Works

\* The worker goes on, systemd starts it again, and aborted rounds are recovered
\* and retried.
MCSpec == MCInit /\ [][MCNext]_mcvars /\ WF_mcvars(Works \/ Retries \/ Requests)
=============================================================================
