------------------------- MODULE StateSetterProofs -------------------------
(***************************************************************************)
(* What holds of sabakan-state-setter for any machines, any number of      *)
(* processes, any grace period, any changes of the machines' conditions    *)
(* and states, and any failures and losses of the leadership.              *)
(***************************************************************************)
EXTENDS StateSetter, TLAPS

\* A leaf is tried with Zenon first; one that needs arithmetic cites SMT.
USE ZenonT(30), SMT

----------------------------------------------------------------------------
(* The inductive invariant. *)

\* What machineHealthCheck decides.
Candidates == {"unreachable", "unhealthy_immediate", "unhealthy", "healthy",
               doNotChangeState}

\* The types of the variables of runOnce, at the places where they are used.
SetterTypeInv ==
  /\ StateSetterTypeOK
  /\ leader \in Setter \cup {Nobody}
  /\ todo \in [Setter -> SUBSET Machine] /\ stopping \in [Setter -> SUBSET Machine]
  /\ known \in [Setter -> [Machine -> States] \cup {Nothing}]
  /\ newState \in [Setter -> [Machine -> Candidates \cup {"retired"}] \cup {Nothing}]
  /\ \A s \in Setter :
       /\ pc[s] \in {"serf", "alerts", "metrics", "retire", "tpm"} =>
            known[s] \in [Machine -> States]
       /\ pc[s] \in {"retire", "tpm", "update"} =>
            newState[s] \in [Machine -> Candidates \cup {"retired"}]
       /\ pc[s] = "tpm" => todo[s] # {}

Wiped(m) == ~crypts[m] /\ (tpm[m] # "keys" \/ type[m] = "qemu")

\* A machine is wiped when a runOnce has decided that it is retired, and its
\* keys are deleted when its TPM is about to be cleared.
Decided(s) ==
  \A m \in Machine :
    /\ pc[s] = "tpm" /\ First(todo[s]) = m => ~crypts[m]
    /\ newState[s] # Nothing /\ newState[s][m] = "retired" => Wiped(m)

WipedInv == RetiredIsWiped /\ \A s \in Setter : Decided(s)

\* The leader does not count for longer than all leaders together have judged a
\* machine unhealthy; a process counts anew.
Counted(s) ==
  /\ pc[s] \in {"down", "campaign"} => \A m \in Machine : age[s][m] = Never
  /\ leader = s => \A m \in Machine : age[s][m] <= judged[m]

GraceInv == \A s \in Setter : Counted(s)

SetterInv == SetterTypeInv /\ WipedInv /\ GraceInv

----------------------------------------------------------------------------
(* Types. *)

\* The loops take a machine of the set that is left.
LEMMA FirstIsThere ==
  ASSUME NEW S, S # {}
  PROVE  First(S) \in S
BY DEF First

\* machineHealthCheck never decides that a machine is retired.
LEMMA CandidateIs ==
  ASSUME NEW t, NEW c
  PROVE  decideMachineStateCandidate(t, c) \in Candidates
BY DEF decideMachineStateCandidate, Candidates, doNotChangeState

\* sabakan only knows its own states.
LEMMA AllowedIs ==
  ASSUME NEW from, NEW to, Allowed(from, to)
  PROVE  to \in States
BY DEF Allowed, States, Checked

\* neco power starts or stops a machine or leaves it as it is.
LEMMA PowerTypes ==
  ASSUME NEW m \in Machine, NEW action, on \in [Machine -> BOOLEAN], power(m, action)
  PROVE  on' \in [Machine -> BOOLEAN]
<1>1. CASE action = "start"
  BY <1>1 DEF power
<1>2. CASE action = "stop"
  BY <1>2 DEF power
<1>3. CASE action # "start" /\ action # "stop"
  BY <1>3 DEF power
<1> QED BY <1>1, <1>2, <1>3

\* The types at the beginning.
LEMMA SetterTypeInit == StateSetterInit => SetterTypeInv
BY SMT, StateSetterAssumption
   DEF StateSetterInit, SetterTypeInv, StateSetterTypeOK, States, Checked, Never,
       Elected

\* The end of a process, which resigns, keeps the types.
LEMMA ExitTypes ==
  ASSUME SetterTypeInv, NEW s \in Setter, Exit(s)
  PROVE  SetterTypeInv'
<1> USE StateSetterAssumption
    DEF Exit, Goto, Forget, SetterTypeInv, StateSetterTypeOK, Elected, world, Never
<1>1. /\ leader' \in Setter \cup {Nobody}
      /\ leader' # Nobody => leader' = leader /\ leader # s
  OBVIOUS
<1>2. pc' \in [Setter -> {"down", "campaign", "tick", "serf", "alerts", "metrics",
                          "retire", "tpm", "update"}]
  OBVIOUS
<1>3. leader' # Nobody => Elected(leader)'
  BY <1>1
<1>4. age' \in [Setter -> [Machine -> Never .. Grace + 1]]
  BY SMT
<1>5. /\ todo' \in [Setter -> SUBSET Machine] /\ stopping' \in [Setter -> SUBSET Machine]
      /\ known' \in [Setter -> [Machine -> States] \cup {Nothing}]
      /\ newState' \in [Setter -> [Machine -> Candidates \cup {"retired"}] \cup {Nothing}]
  OBVIOUS
<1>6. ASSUME NEW v \in Setter
      PROVE  /\ pc'[v] \in {"serf", "alerts", "metrics", "retire", "tpm"} =>
                  known'[v] \in [Machine -> States]
             /\ pc'[v] \in {"retire", "tpm", "update"} =>
                  newState'[v] \in [Machine -> Candidates \cup {"retired"}]
             /\ pc'[v] = "tpm" => todo'[v] # {}
  OBVIOUS
<1> QED BY <1>1, <1>2, <1>3, <1>4, <1>5, <1>6

\* A step of the election or of runOnce keeps the types.
LEMMA RunStepTypes ==
  ASSUME SetterTypeInv, NEW s \in Setter, RunStep(s) \/ RunFails(s) \/ ShutdownStep(s)
  PROVE  SetterTypeInv'
<1> USE StateSetterAssumption
    DEF Goto, Forget, Skip, SetterTypeInv, StateSetterTypeOK, Elected, world, runVars,
        Never, States, Checked
<1>1. CASE StartSetter(s)
  BY <1>1 DEF StartSetter
<1>2. CASE Campaign(s)
  BY <1>2 DEF Campaign
<1>3. CASE watchLeaderKey(s) \/ SerfFails(s)
  BY <1>3, ExitTypes DEF watchLeaderKey, SerfFails
<1>4. CASE Deposed(s)
  BY <1>4 DEF Deposed
<1>5. CASE GetAllMachines(s)
  BY <1>5 DEF GetAllMachines
<1>6. CASE GetSerfStatus(s)
  BY <1>6 DEF GetSerfStatus
<1>7. CASE Alerts(s, TRUE) \/ Alerts(s, FALSE)
  BY SMTT(20), <1>7 DEF Alerts
<1>8. CASE machineHealthCheck(s)
  BY <1>8, CandidateIs DEF machineHealthCheck, Candidates, doNotChangeState
<1>9. CASE CryptsDelete(s)
  BY <1>9, FirstIsThere DEF CryptsDelete
<1>10. CASE CryptsDeleteFails(s)
  BY <1>10 DEF CryptsDeleteFails
<1>11. CASE TPMClear(s)
  <2> DEFINE m == First(todo[s])
  <2>1. pc[s] = "tpm" /\ m \in Machine
    BY <1>11, FirstIsThere DEF TPMClear
  <2>2. tpm' \in [Machine -> {"keys", "pending", "cleared"}]
    BY <1>11, <2>1 DEF TPMClear, dellRedfishClearTpm
  <2>3. (\E a : power(m, a)) \/ on' = on
    BY <1>11 DEF TPMClear, dellRedfishClearTpm, startOrRestart
  <2>4. on' \in [Machine -> BOOLEAN]
    BY <2>1, <2>3, PowerTypes
  <2> HIDE DEF m
  <2> QED BY SMT, <1>11, <2>1, <2>2, <2>4 DEF TPMClear, m
<1>12. CASE TPMClearFails(s)
  <2> DEFINE m == First(todo[s])
  <2>1. pc[s] = "tpm" /\ m \in Machine
    BY <1>12, FirstIsThere DEF TPMClearFails
  <2>2. tpm' \in [Machine -> {"keys", "pending", "cleared"}]
    BY <1>12, <2>1 DEF TPMClearFails
  <2> QED BY <1>12, <2>2 DEF TPMClearFails
<1>13. CASE Judge(s)
  BY SMT, <1>13 DEF Judge, Registered, Candidates, doNotChangeState
<1>14. CASE UpdateSabakanState(s)
  BY SMT, <1>14, FirstIsThere, AllowedIs DEF UpdateSabakanState
<1>15. CASE UpdateFails(s)
  BY <1>15 DEF UpdateFails
<1>16. CASE Done(s)
  BY <1>16 DEF Done
<1>17. CASE GetRetiredMachines(s)
  BY <1>17 DEF GetRetiredMachines
<1>18. CASE PowerStop(s, TRUE) \/ PowerStop(s, FALSE)
  <2>1. First(stopping[s]) \in Machine
    BY <1>18, FirstIsThere DEF PowerStop
  <2>2. \E a : power(First(stopping[s]), a)
    BY <1>18 DEF PowerStop
  <2>3. on' \in [Machine -> BOOLEAN]
    BY <2>1, <2>2, PowerTypes
  <2>4. stopping' \in [Setter -> SUBSET Machine]
    BY SMT, <1>18 DEF PowerStop
  <2>5. UNCHANGED <<type, state, crypts, tpm, cond, leader, runVars, judged>>
    BY <1>18 DEF PowerStop
  <2> QED BY <2>3, <2>4, <2>5
<1> QED
  BY <1>1, <1>2, <1>3, <1>4, <1>5, <1>6, <1>7, <1>8, <1>9, <1>10, <1>11, <1>12,
     <1>13, <1>14, <1>15, <1>16, <1>17, <1>18
  DEF RunStep, RunFails, ShutdownStep

\* So does what happens to the machines, and the time.
LEMMA OtherStepTypes ==
  ASSUME SetterTypeInv,
         \/ \E m \in Machine : Operate(m) \/ Changes(m) \/ BiosStarts(m)
         \/ Tick
  PROVE  SetterTypeInv'
<1> USE StateSetterAssumption
    DEF SetterTypeInv, StateSetterTypeOK, Elected, world, runVars
<1>1. CASE Tick
  <2>1. \A a \in Never .. Grace + 1 : Older(a) \in Never .. Grace + 1
    BY SMT DEF Older, Never
  <2>2. /\ age' \in [Setter -> [Machine -> Never .. Grace + 1]]
        /\ judged' \in [Machine -> Never .. Grace + 1]
    BY SMT, <1>1, <2>1 DEF Tick
  <2> QED BY <1>1, <2>2 DEF Tick
<1>2. ASSUME NEW m \in Machine, Operate(m) PROVE SetterTypeInv'
  <2>1. ASSUME NEW to, SetState(m, to) PROVE SetterTypeInv'
    BY <2>1, AllowedIs DEF SetState
  <2>2. CASE Reuse(m)
    BY <2>2 DEF Reuse, States, Checked
  <2> QED BY <1>2, <2>1, <2>2 DEF Operate
<1>3. ASSUME NEW m \in Machine, Changes(m) PROVE SetterTypeInv'
  <2>1. cond' \in [Machine -> Conditions]
    BY <1>3 DEF Changes
  <2> QED BY <1>3, <2>1 DEF Changes
<1>4. ASSUME NEW m \in Machine, BiosStarts(m) PROVE SetterTypeInv'
  BY <1>4 DEF BiosStarts
<1> QED BY <1>1, <1>2, <1>3, <1>4

----------------------------------------------------------------------------
(* Retirement. *)

\* What a process has decided stays true of wiped machines while it does nothing.
LEMMA DecidedKept ==
  ASSUME NEW s \in Setter, Decided(s),
         pc'[s] = pc[s], newState'[s] = newState[s], todo'[s] = todo[s],
         \A m \in Machine : /\ ~crypts[m] => ~crypts'[m]
                            /\ Wiped(m) => Wiped(m)'
  PROVE  Decided(s)'
BY DEF Decided

OthersKeep(s) ==
  \A v \in Setter \ {s} :
    pc'[v] = pc[v] /\ newState'[v] = newState[v] /\ todo'[v] = todo[v]

\* A step of one process that wipes, and does not undo.
LEMMA StepOfOne ==
  ASSUME WipedInv, NEW s \in Setter, Decided(s)', OthersKeep(s),
         \A m \in Machine : /\ ~crypts[m] => ~crypts'[m]
                            /\ Wiped(m) => Wiped(m)'
                            /\ state'[m] = "retired" => state[m] = "retired" \/ Wiped(m)'
  PROVE  WipedInv'
<1>1. RetiredIsWiped'
  BY DEF WipedInv, RetiredIsWiped, Wiped
<1>2. \A v \in Setter : Decided(v)'
  BY DecidedKept DEF WipedInv, OthersKeep
<1> QED BY <1>1, <1>2 DEF WipedInv

\* A step that decides nothing.
LEMMA NothingDecided ==
  ASSUME WipedInv, NEW s \in Setter, UNCHANGED <<type, state, crypts, tpm>>,
         OthersKeep(s), pc'[s] # "tpm",
         \A m \in Machine : newState'[s] # Nothing /\ newState'[s][m] = "retired" =>
           newState[s] # Nothing /\ newState[s][m] = "retired"
  PROVE  WipedInv'
<1>1. Decided(s)
  BY DEF WipedInv
<1>2. Decided(s)'
  BY <1>1 DEF Decided, Wiped
<1> QED BY <1>2, StepOfOne DEF Wiped

\* A step of the election or of runOnce keeps WipedInv.
LEMMA RunStepWiped ==
  ASSUME SetterTypeInv, WipedInv, NEW s \in Setter,
         RunStep(s) \/ RunFails(s) \/ ShutdownStep(s)
  PROVE  WipedInv'
<1> USE DEF Goto, Forget, Skip, world, runVars
<1>1. Decided(s) /\ RetiredIsWiped
  BY DEF WipedInv
<1>2. pc \in [Setter -> {"down", "campaign", "tick", "serf", "alerts", "metrics",
                         "retire", "tpm", "update"}]
  BY DEF SetterTypeInv, StateSetterTypeOK
<1>3. CASE Deposed(s) \/ GetRetiredMachines(s) \/ PowerStop(s, TRUE) \/ PowerStop(s, FALSE)
  <2>1. UNCHANGED <<type, crypts, tpm, state, pc, newState, todo>>
    BY <1>3 DEF Deposed, GetRetiredMachines, PowerStop
  <2>2. Decided(s)'
    BY <1>1, <2>1 DEF Decided, Wiped
  <2> QED BY <2>1, <2>2, StepOfOne DEF Wiped, OthersKeep
<1>4. CASE \/ StartSetter(s) \/ Campaign(s) \/ GetAllMachines(s) \/ GetSerfStatus(s)
           \/ Alerts(s, TRUE) \/ Alerts(s, FALSE)
  <2>1. UNCHANGED <<type, crypts, tpm, state, newState, todo>>
    BY <1>4 DEF StartSetter, Campaign, GetAllMachines, GetSerfStatus, Alerts
  <2>2. \E p \in {"campaign", "tick", "serf", "alerts", "metrics"} : Goto(s, p)
    BY <1>4 DEF StartSetter, Campaign, GetAllMachines, GetSerfStatus, Alerts
  <2>3. OthersKeep(s) /\ pc'[s] # "tpm"
    BY <1>2, <2>1, <2>2 DEF OthersKeep
  <2> QED BY <2>1, <2>3, NothingDecided
<1>5. CASE watchLeaderKey(s) \/ SerfFails(s) \/ Done(s)
  <2>1. newState'[s] = Nothing /\ UNCHANGED <<type, crypts, tpm, state>>
    BY <1>5 DEF watchLeaderKey, SerfFails, Exit, Done, SetterTypeInv
  <2>2. OthersKeep(s) /\ pc'[s] # "tpm"
    BY <1>2, <1>5
    DEF watchLeaderKey, SerfFails, Exit, Done, SetterTypeInv, OthersKeep
  <2> QED BY <2>1, <2>2, NothingDecided
<1>6. CASE CryptsDeleteFails(s) \/ UpdateFails(s)
  <2>1. UNCHANGED <<type, crypts, tpm, state, newState>>
    BY <1>6 DEF CryptsDeleteFails, UpdateFails
  <2>2. OthersKeep(s) /\ pc'[s] # "tpm"
    BY <1>2, <1>6, <2>1 DEF CryptsDeleteFails, UpdateFails, SetterTypeInv, OthersKeep
  <2> QED BY <2>1, <2>2, NothingDecided
<1>7. CASE machineHealthCheck(s)
  <2>1. \A m \in Machine : newState'[s][m] # "retired"
    BY <1>7, CandidateIs
    DEF machineHealthCheck, SetterTypeInv, Candidates, doNotChangeState
  <2>2. OthersKeep(s) /\ pc'[s] # "tpm" /\ UNCHANGED <<type, crypts, tpm, state>>
    BY <1>2, <1>7 DEF machineHealthCheck, SetterTypeInv, OthersKeep
  <2> QED BY <2>1, <2>2, NothingDecided
<1>9. CASE Judge(s)
  <2>1. OthersKeep(s) /\ pc'[s] # "tpm" /\ UNCHANGED <<type, crypts, tpm, state>>
    BY <1>2, <1>9 DEF Judge, SetterTypeInv, OthersKeep
  <2>2. \A m \in Machine : newState'[s][m] \in {doNotChangeState, newState[s][m]}
    BY <1>9 DEF Judge, SetterTypeInv
  <2>3. \A m \in Machine : newState[s] # Nothing
    BY SMT, <1>9 DEF Judge, SetterTypeInv, Nothing
  <2>4. \A m \in Machine : newState'[s] # Nothing /\ newState'[s][m] = "retired" =>
          newState[s] # Nothing /\ newState[s][m] = "retired"
    BY <2>2, <2>3 DEF doNotChangeState
  <2> QED BY <2>1, <2>4, NothingDecided
<1>10. CASE CryptsDelete(s)
  <2> DEFINE m == First(todo[s])
  <2>1. /\ crypts' = [crypts EXCEPT ![m] = FALSE] /\ pc' = [pc EXCEPT ![s] = "tpm"]
        /\ UNCHANGED <<type, state, tpm, newState, todo>> /\ m \in Machine
    BY <1>10, FirstIsThere DEF CryptsDelete, SetterTypeInv
  <2>2. ~crypts'[m] /\ \A n \in Machine : ~crypts[n] => ~crypts'[n]
    BY <2>1 DEF SetterTypeInv, StateSetterTypeOK
  <2>3. \A n \in Machine : Wiped(n) => Wiped(n)'
    BY <2>1, <2>2 DEF Wiped
  <2>4. Decided(s)'
    BY <1>1, <2>1, <2>2, <2>3 DEF Decided
  <2>5. OthersKeep(s)
    BY <1>2, <2>1 DEF OthersKeep
  <2> QED BY <2>1, <2>2, <2>3, <2>4, <2>5, StepOfOne
<1>11. CASE TPMClear(s) \/ TPMClearFails(s)
  <2>0. pc[s] = "tpm" /\ First(todo[s]) \in Machine
    BY <1>11, FirstIsThere DEF TPMClear, TPMClearFails, SetterTypeInv
  <2> PICK m \in Machine : m = First(todo[s])
    BY <2>0
  <2>1. /\ pc[s] = "tpm" /\ m \in Machine /\ ~crypts[m]
        /\ newState[s] \in [Machine -> Candidates \cup {"retired"}]
    BY <1>1, <2>0 DEF SetterTypeInv, Decided
  <2>2. /\ pc' = [pc EXCEPT ![s] = "retire"] /\ UNCHANGED <<type, state, crypts>>
        /\ todo' = [todo EXCEPT ![s] = @ \ {First(@)}]
    BY <1>11 DEF TPMClear, TPMClearFails
  <2>3. tpm' \in {tpm, [tpm EXCEPT ![m] = "pending"]}
    <3>1. tpm \in [Machine -> {"keys", "pending", "cleared"}]
      BY DEF SetterTypeInv, StateSetterTypeOK
    <3>2. CASE TPMClear(s)
      BY <3>2 DEF TPMClear, dellRedfishClearTpm
    <3>3. CASE TPMClearFails(s)
      BY <2>1, <3>1, <3>3 DEF TPMClearFails
    <3> QED BY <1>11, <3>2, <3>3
  <2>4. \A n \in Machine : Wiped(n) => Wiped(n)'
    BY <2>1, <2>2, <2>3 DEF Wiped, SetterTypeInv, StateSetterTypeOK
  <2>5. \/ newState' = newState
        \/ newState' = [newState EXCEPT ![s][m] = "retired"] /\ Wiped(m)'
    <3>1. CASE TPMClear(s) /\ state[m] = "retiring" /\ type[m] # "unknown"
      <4>1. newState' = [newState EXCEPT ![s][m] = "retired"]
        BY <3>1 DEF TPMClear
      <4>2. CASE DellRedfish(m)
        <5>1. tpm' = [tpm EXCEPT ![m] = "pending"]
          BY <3>1, <4>2 DEF TPMClear, dellRedfishClearTpm
        <5>2. tpm'[m] = "pending" /\ ~crypts'[m]
          BY <2>1, <2>2, <5>1 DEF SetterTypeInv, StateSetterTypeOK
        <5> QED BY <4>1, <5>2 DEF Wiped
      <4>3. CASE ~DellRedfish(m)
        <5>1. type'[m] = "qemu" /\ ~crypts'[m]
          BY <2>1, <2>2, <3>1, <4>3 DEF DellRedfish
        <5> QED BY <4>1, <5>1 DEF Wiped
      <4> QED BY <4>2, <4>3
    <3>2. CASE TPMClear(s) /\ ~(state[m] = "retiring" /\ type[m] # "unknown")
      <4>1. newState' = [newState EXCEPT ![s] = [newState[s] EXCEPT ![m] = newState[s][m]]]
        BY <3>2 DEF TPMClear
      <4>2. [newState[s] EXCEPT ![m] = newState[s][m]] = newState[s]
        BY <2>1
      <4> QED BY <4>1, <4>2 DEF SetterTypeInv
    <3>3. CASE TPMClearFails(s)
      BY <3>3 DEF TPMClearFails
    <3> QED BY <1>11, <3>1, <3>2, <3>3
  <2>6. \A n \in Machine : newState'[s][n] = "retired" => Wiped(n)'
    <3>1. \A n \in Machine : newState[s][n] = "retired" => Wiped(n)'
      BY SMT, <1>1, <2>1, <2>4 DEF Decided, Nothing
    <3>2. CASE newState' = newState
      BY <3>1, <3>2
    <3>3. CASE newState' = [newState EXCEPT ![s][m] = "retired"] /\ Wiped(m)'
      <4>1. newState'[s] = [newState[s] EXCEPT ![m] = "retired"]
        BY <3>3 DEF SetterTypeInv
      <4>2. \A n \in Machine : n # m => newState'[s][n] = newState[s][n]
        BY <2>1, <4>1
      <4> QED BY <3>1, <3>3, <4>2
    <3> QED BY <2>5, <3>2, <3>3
  <2>7. Decided(s)'
    BY <2>2, <2>6 DEF Decided, SetterTypeInv, StateSetterTypeOK
  <2>8. OthersKeep(s)
    BY <1>2, <2>2, <2>5 DEF SetterTypeInv, OthersKeep
  <2> QED BY <2>2, <2>4, <2>7, <2>8, StepOfOne
<1>12. CASE UpdateSabakanState(s)
  <2> DEFINE m == First(todo[s])
  <2>1. /\ pc' = [pc EXCEPT ![s] = "update"] /\ UNCHANGED <<type, tpm, crypts, newState>>
        /\ m \in Machine /\ pc[s] = "update"
    BY <1>12, FirstIsThere DEF UpdateSabakanState, SetterTypeInv
  <2>2. OthersKeep(s)
    BY <1>2, <1>12 DEF UpdateSabakanState, SetterTypeInv, OthersKeep
  <2>3. Decided(s)'
    BY <1>1, <2>1 DEF Decided, Wiped, SetterTypeInv, StateSetterTypeOK
  <2>4. ASSUME NEW n \in Machine, state'[n] = "retired"
        PROVE  state[n] = "retired" \/ newState[s][n] = "retired"
    BY <1>12, <2>1, <2>4 DEF UpdateSabakanState, SetterTypeInv, StateSetterTypeOK
  <2>5. \A n \in Machine : newState[s][n] = "retired" => Wiped(n)
    BY SMT, <1>1, <2>1 DEF Decided, SetterTypeInv, Nothing
  <2> QED BY <2>1, <2>2, <2>3, <2>4, <2>5, StepOfOne DEF Wiped
<1> QED
  BY <1>3, <1>4, <1>5, <1>6, <1>7, <1>9, <1>10, <1>11, <1>12
  DEF RunStep, RunFails, ShutdownStep

\* So does what happens to the machines, and the time.
LEMMA OtherStepWiped ==
  ASSUME SetterTypeInv, WipedInv,
         \/ \E m \in Machine : Operate(m) \/ Changes(m) \/ BiosStarts(m)
         \/ Tick
  PROVE  WipedInv'
<1> USE DEF runVars, world
<1>1. ASSUME UNCHANGED <<type, crypts, pc, newState, todo>>,
             \A m \in Machine : /\ tpm'[m] = "keys" => tpm[m] = "keys"
                                /\ state'[m] = "retired" => state[m] = "retired"
      PROVE  WipedInv'
  <2>1. \A m \in Machine : Wiped(m) => Wiped(m)'
    BY <1>1 DEF Wiped
  <2>2. RetiredIsWiped'
    BY <1>1 DEF WipedInv, RetiredIsWiped
  <2>3. \A s \in Setter : Decided(s)'
    BY <1>1, <2>1, DecidedKept DEF WipedInv
  <2> QED BY <2>2, <2>3 DEF WipedInv
<1>2. CASE Tick
  BY <1>1, <1>2 DEF Tick
<1>3. ASSUME NEW m \in Machine, Changes(m) PROVE WipedInv'
  BY <1>1, <1>3 DEF Changes
<1>4. ASSUME NEW m \in Machine, BiosStarts(m) PROVE WipedInv'
  BY <1>1, <1>4 DEF BiosStarts, SetterTypeInv, StateSetterTypeOK
<1>5. ASSUME NEW m \in Machine, NEW to, to # "retired", SetState(m, to) PROVE WipedInv'
  BY <1>1, <1>5 DEF SetState, SetterTypeInv, StateSetterTypeOK
<1>6. ASSUME NEW m \in Machine, Reuse(m) PROVE WipedInv'
  <2>1. /\ state' = [state EXCEPT ![m] = "uninitialized"]
        /\ crypts' = [crypts EXCEPT ![m] = TRUE] /\ tpm' = [tpm EXCEPT ![m] = "keys"]
        /\ UNCHANGED <<type, pc, newState, todo>>
        /\ \A s \in Setter : ~Retires(s, m)
    BY <1>6 DEF Reuse
  <2>2. \A n \in Machine \ {m} :
          crypts'[n] = crypts[n] /\ tpm'[n] = tpm[n] /\ state'[n] = state[n]
    BY <2>1 DEF SetterTypeInv, StateSetterTypeOK
  <2>3. state'[m] = "uninitialized"
    BY <2>1 DEF SetterTypeInv, StateSetterTypeOK
  <2>4. \A n \in Machine \ {m} : Wiped(n) <=> Wiped(n)'
    BY <2>1, <2>2 DEF Wiped
  <2>5. RetiredIsWiped'
    BY <2>1, <2>2, <2>3 DEF RetiredIsWiped, WipedInv
  <2>6. ASSUME NEW s \in Setter PROVE Decided(s)'
    <3>1. Decided(s)
      BY DEF WipedInv
    <3> QED BY <2>1, <2>2, <2>4, <3>1 DEF Decided, Retires
  <2> QED BY <2>5, <2>6 DEF WipedInv
<1> QED BY <1>2, <1>3, <1>4, <1>5, <1>6 DEF Operate

----------------------------------------------------------------------------
(* The grace period. *)

\* Every step keeps GraceInv.
LEMMA GraceStep ==
  ASSUME SetterTypeInv, GraceInv, [StateSetterNext]_setterVars
  PROVE  GraceInv'
<1> USE StateSetterAssumption DEF Never
<1>1. /\ pc \in [Setter -> {"down", "campaign", "tick", "serf", "alerts", "metrics",
                            "retire", "tpm", "update"}]
      /\ age \in [Setter -> [Machine -> Never .. Grace + 1]]
      /\ judged \in [Machine -> Never .. Grace + 1]
  BY DEF SetterTypeInv, StateSetterTypeOK
<1>2. leader # Nobody => Elected(leader)
  BY DEF SetterTypeInv, StateSetterTypeOK
<1>3. ASSUME UNCHANGED <<age, judged>>, leader' \in {leader, Nobody},
             \A v \in Setter : pc'[v] \in {"down", "campaign"} =>
                                 pc[v] \in {"down", "campaign"}
      PROVE  GraceInv'
  BY <1>3 DEF GraceInv, Counted
<1>4. ASSUME NEW s \in Setter,
             RunStep(s) \/ RunFails(s) \/ ShutdownStep(s)
      PROVE  GraceInv'
  <2> USE DEF Goto, Skip, runVars
  <2>1. CASE Campaign(s)
    <3>1. \A v \in Setter : pc'[v] \in {"down", "campaign"} =>
            pc[v] \in {"down", "campaign"} /\ v # s
      BY <1>1, <2>1 DEF Campaign
    <3>2. leader' = s /\ UNCHANGED <<age, judged>> /\ pc[s] = "campaign"
      BY <2>1 DEF Campaign
    <3>3. \A m \in Machine : age[s][m] = Never
      BY <3>2 DEF GraceInv, Counted
    <3> QED BY SMT, <1>1, <3>1, <3>2, <3>3 DEF GraceInv, Counted
  <2>2. CASE watchLeaderKey(s) \/ SerfFails(s)
    <3>1. /\ age' = [age EXCEPT ![s] = [m \in Machine |-> Never]]
          /\ pc' = [pc EXCEPT ![s] = "down"]
          /\ UNCHANGED judged /\ leader' = IF leader = s THEN Nobody ELSE leader
      BY <2>2 DEF watchLeaderKey, SerfFails, Exit
    <3>2. /\ \A v \in Setter \ {s} : age'[v] = age[v] /\ pc'[v] = pc[v]
          /\ \A m \in Machine : age'[s][m] = Never
      BY <1>1, <3>1
    <3> QED BY SMT, <3>1, <3>2 DEF GraceInv, Counted
  <2>3. CASE Judge(s)
    <3>1. /\ pc' = [pc EXCEPT ![s] = "update"] /\ UNCHANGED leader
          /\ age' = [age EXCEPT ![s] = [m \in Machine |-> Registered(s, m)]]
      BY <2>3 DEF Judge
    <3>2. /\ \A v \in Setter \ {s} : age'[v] = age[v] /\ pc'[v] = pc[v]
          /\ \A m \in Machine : age'[s][m] = Registered(s, m)
          /\ pc'[s] = "update"
      BY <1>1, <3>1
    <3>3. CASE leader # s
      <4>1. UNCHANGED judged
        BY <2>3, <3>3 DEF Judge
      <4> QED BY <3>1, <3>2, <3>3, <4>1 DEF GraceInv, Counted
    <3>4. CASE leader = s
      <4>1. \A m \in Machine :
              judged'[m] = IF newState[s][m] # "unhealthy" THEN Never
                           ELSE IF judged[m] = Never THEN 0 ELSE judged[m]
        BY <2>3, <3>4 DEF Judge
      <4>2. \A m \in Machine : age[s][m] <= judged[m]
        BY <3>4 DEF GraceInv, Counted
      <4>3. \A m \in Machine : /\ age[s][m] \in Never .. Grace + 1
                               /\ judged[m] \in Never .. Grace + 1
        BY <1>1
      <4>4. \A m \in Machine : Registered(s, m) <= judged'[m]
        BY SMT, <4>1, <4>2, <4>3 DEF Registered, Waits
      <4> QED BY SMT, <3>1, <3>2, <3>4, <4>4 DEF GraceInv, Counted
    <3> QED BY <3>3, <3>4
  <2>4. CASE \/ StartSetter(s) \/ GetAllMachines(s) \/ GetSerfStatus(s)
             \/ Alerts(s, TRUE) \/ Alerts(s, FALSE) \/ machineHealthCheck(s)
             \/ CryptsDelete(s) \/ CryptsDeleteFails(s) \/ TPMClear(s)
             \/ TPMClearFails(s) \/ UpdateSabakanState(s) \/ UpdateFails(s)
             \/ Done(s) \/ Deposed(s) \/ GetRetiredMachines(s)
             \/ PowerStop(s, TRUE) \/ PowerStop(s, FALSE)
    <3>1. UNCHANGED <<age, judged>> /\ leader' \in {leader, Nobody}
      BY <2>4
      DEF StartSetter, GetAllMachines, GetSerfStatus, Alerts, machineHealthCheck,
          CryptsDelete, CryptsDeleteFails, TPMClear, TPMClearFails,
          UpdateSabakanState, UpdateFails, Done, Deposed, GetRetiredMachines, PowerStop
    <3>2. \A v \in Setter : pc'[v] \in {"down", "campaign"} =>
                              pc[v] \in {"down", "campaign"}
      BY <1>1, <2>4
      DEF StartSetter, GetAllMachines, GetSerfStatus, Alerts, machineHealthCheck,
          CryptsDelete, CryptsDeleteFails, TPMClear, TPMClearFails,
          UpdateSabakanState, UpdateFails, Done, Deposed, GetRetiredMachines, PowerStop
    <3> QED BY <1>3, <3>1, <3>2
  <2> QED BY <1>4, <2>1, <2>2, <2>3, <2>4 DEF RunStep, RunFails, ShutdownStep
<1>5. CASE Tick
  <2>1. \A a, b \in Never .. Grace + 1 : a <= b => Older(a) <= Older(b)
    BY SMT DEF Older
  <2>2. /\ UNCHANGED <<pc, leader>>
        /\ \A s \in Setter, m \in Machine : age'[s][m] = Older(age[s][m])
        /\ \A m \in Machine : judged'[m] = Older(judged[m])
    BY <1>5 DEF Tick
  <2>3. Older(Never) = Never
    BY DEF Older
  <2> QED BY SMT, <1>1, <2>1, <2>2, <2>3 DEF GraceInv, Counted
<1>6. ASSUME NEW m \in Machine, Operate(m) \/ Changes(m) \/ BiosStarts(m)
      PROVE  GraceInv'
  BY <1>3, <1>6 DEF Operate, SetState, Reuse, Changes, BiosStarts, runVars
<1>7. CASE UNCHANGED setterVars
  BY <1>3, <1>7 DEF setterVars, runVars
<1> QED BY <1>4, <1>5, <1>6, <1>7 DEF StateSetterNext

----------------------------------------------------------------------------
\* SetterInv is inductive.
LEMMA SetterInductive ==
  SetterInv /\ [StateSetterNext]_setterVars => SetterInv'
<1> SUFFICES ASSUME SetterInv, [StateSetterNext]_setterVars PROVE SetterInv'
  OBVIOUS
<1> USE DEF SetterInv
<1>1. CASE UNCHANGED setterVars
  <2>1. SetterTypeInv'
    BY <1>1
    DEF setterVars, world, runVars, SetterTypeInv, StateSetterTypeOK, Elected
  <2>2. WipedInv'
    BY <1>1 DEF setterVars, world, runVars, WipedInv, RetiredIsWiped, Decided, Wiped
  <2> QED BY <2>1, <2>2, GraceStep
<1>2. CASE StateSetterNext
  <2>1. SetterTypeInv'
    BY <1>2, RunStepTypes, OtherStepTypes DEF StateSetterNext
  <2>2. WipedInv'
    BY <1>2, RunStepWiped, OtherStepWiped DEF StateSetterNext
  <2> QED BY <2>1, <2>2, GraceStep
<1> QED BY <1>1, <1>2

\* It holds at the beginning.
LEMMA SetterInitially == StateSetterInit => SetterInv
<1> SUFFICES ASSUME StateSetterInit PROVE SetterInv
  OBVIOUS
<1>1. WipedInv
  BY DEF StateSetterInit, WipedInv, RetiredIsWiped, Decided
<1>2. GraceInv
  BY StateSetterAssumption DEF StateSetterInit, GraceInv, Counted
<1> QED BY <1>1, <1>2, SetterTypeInit DEF SetterInv

\* It holds always.
LEMMA SetterAlways == StateSetterSpec => []SetterInv
BY SetterInitially, SetterInductive, PTL DEF StateSetterSpec

\* Every variable keeps to its type, and the owner of the leader key has been
\* elected (Run).
THEOREM StateSetterTypeCorrect == StateSetterSpec => []StateSetterTypeOK
<1>1. SetterInv => StateSetterTypeOK
  BY DEF SetterInv, SetterTypeInv
<1> QED BY <1>1, SetterAlways, PTL

\* No machine is retired in sabakan before its disks' keys are deleted and its
\* TPM is cleared or about to be, whatever fails in machineRetire, whoever
\* else writes its state, and also when a process that is no longer the leader
\* writes late.
THEOREM RetirementWipes == StateSetterSpec => []RetiredIsWiped
<1>1. SetterInv => RetiredIsWiped
  BY DEF SetterInv, WipedInv
<1> QED BY <1>1, SetterAlways, PTL

\* RegisterUnhealthy and ClearUnhealthy do not let a process make a machine
\* unhealthy before the leaders have judged it so for the grace period, across
\* any changes of the leader.
THEOREM GraceIsRespected == StateSetterSpec => GraceRespected
<1> DEFINE Judgement ==
      \A s \in Setter, m \in Machine :
        /\ leader = s /\ pc[s] = "retire" /\ pc'[s] = "update"
        /\ newState'[s][m] = "unhealthy" /\ type[m] \in KnownTypes
        => judged[m] > Grace
<1>1. ASSUME SetterInv, [StateSetterNext]_setterVars PROVE Judgement
  <2> SUFFICES ASSUME NEW s \in Setter, NEW m \in Machine,
                      leader = s, pc[s] = "retire", pc'[s] = "update",
                      newState'[s][m] = "unhealthy", type[m] \in KnownTypes
               PROVE  judged[m] > Grace
    OBVIOUS
  <2>1. Judge(s)
    <3>1. pc \in [Setter -> {"down", "campaign", "tick", "serf", "alerts", "metrics",
                             "retire", "tpm", "update"}]
      BY <1>1 DEF SetterInv, SetterTypeInv, StateSetterTypeOK
    <3>2. pc'[s] # pc[s]
      OBVIOUS
    <3>3. PICK v \in Setter : RunStep(v) \/ RunFails(v)
      BY <1>1, <3>2
      DEF StateSetterNext, setterVars, runVars, ShutdownStep, GetRetiredMachines,
          PowerStop, Tick, Operate, SetState, Reuse, Changes, BiosStarts
    <3> USE <3>1, <3>2 DEF Goto, Skip
    <3>4. v = s
      BY <3>3
      DEF RunStep, RunFails, StartSetter, Campaign, watchLeaderKey, SerfFails, Exit,
          GetAllMachines, GetSerfStatus, Alerts, machineHealthCheck, CryptsDelete,
          CryptsDeleteFails, TPMClear, TPMClearFails, Judge, UpdateSabakanState,
          UpdateFails, Done, Deposed, PowerStop, runVars
    <3> QED
      BY <3>3, <3>4
      DEF RunStep, RunFails, StartSetter, Campaign, watchLeaderKey, SerfFails, Exit,
          GetAllMachines, GetSerfStatus, Alerts, machineHealthCheck, CryptsDelete,
          CryptsDeleteFails, TPMClear, TPMClearFails, UpdateSabakanState,
          UpdateFails, Done, Deposed, PowerStop, runVars
  <2>2. newState'[s] = [n \in Machine |->
          IF Unchanged(s, n) \/ (Waits(s, n) /\ ~Ripe(s, n)) THEN doNotChangeState
          ELSE newState[s][n]]
    BY <1>1, <2>1 DEF Judge, SetterInv, SetterTypeInv
  <2>3. newState[s][m] = "unhealthy" /\ Ripe(s, m)
    BY <2>2 DEF Unchanged, Waits, doNotChangeState
  <2>4. age[s][m] > Grace /\ age[s][m] <= judged[m]
    BY <1>1, <2>3 DEF Ripe, SetterInv, GraceInv, Counted
  <2>5. age[s][m] \in Int /\ judged[m] \in Int
    BY SMT, <1>1, StateSetterAssumption DEF SetterInv, SetterTypeInv, StateSetterTypeOK, Never
  <2> QED BY SMT, <2>4, <2>5, StateSetterAssumption
<1>2. SetterInv /\ [StateSetterNext]_setterVars => [Judgement]_setterVars
  BY <1>1
<1> QED BY <1>2, SetterAlways, PTL DEF StateSetterSpec, GraceRespected
=============================================================================
