----------------------------- MODULE MCContents -----------------------------
(***************************************************************************)
(* Contents for TLC: MaxFail faults, MaxNew requests besides the ones that *)
(* follow a recovery, MaxRound rounds in all.                              *)
(***************************************************************************)
EXTENDS Contents

CONSTANTS w1, w2, r1, r2, MaxFail, MaxNew, MaxRound, MaxVersion

VARIABLES faults, news

counts == <<faults, news>>

MCTargets == <<"cke-template", "cke", "sabakan", "dhcp.json", "user-resources">>

Fault ==
    /\ faults < MaxFail
    /\ \/ \E w \in Worker : UploadFails(w) \/ Crash(w)
       \/ SessionExpires /\ ~DeadKey(Head(keys))
    /\ faults' = faults + 1 /\ UNCHANGED news

\* The key of a dead worker goes without being counted.
Buried == SessionExpires /\ DeadKey(Head(keys)) /\ UNCHANGED counts

\* After a recovery the updater asks for the same version again.
Retries ==
    /\ request.stop /\ request.round < MaxRound
    /\ NewRequest(request.version, request.servers)
    /\ UNCHANGED counts

\* The same version again or the next one: larger gaps make no difference, nor
\* does which of two like servers the first request names.
Asks ==
    /\ news < MaxNew /\ request.round < MaxRound
    /\ \E v \in {request.version, request.version + 1}, ws \in SUBSET Worker :
         /\ v <= MaxVersion /\ (news = 0 /\ Worker = active => w1 \in ws)
         /\ NewRequest(v, ws)
    /\ news' = news + 1 /\ UNCHANGED faults

Steps ==
    /\ \/ \E w \in Worker : WorkerStep(w)
       \/ StopRequest \/ Recover
    /\ UNCHANGED counts

MCInit ==
    /\ ContentsInit /\ w1 \in active
    /\ faults = 0 /\ news = 0

MCNext == Steps \/ Fault \/ Buried \/ Retries \/ Asks

mcvars == <<cvars, counts>>

\* Something that can be done is done in the end; nobody has to be preferred, as
\* a round has finitely many steps.
MCSpec ==
    /\ MCInit /\ [][MCNext]_mcvars
    /\ WF_mcvars(Steps \/ Buried \/ Retries \/ (Asks /\ request.round = 0))
=============================================================================
