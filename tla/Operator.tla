------------------------------ MODULE Operator ------------------------------
(***************************************************************************)
(* What the steps of an update do to a boot server (worker/operator.go,    *)
(* worker/vault.go, worker/cke.go): the neco package, the Vault service    *)
(* and the CKE service.  The other steps replace files and restart one     *)
(* local service each; they have no effect on this state.                  *)
(***************************************************************************)
EXTENDS UpdateStorage

CONSTANTS
  StopVaultStep,   \* 3 in RunStep
  UpdateVaultStep, \* 4
  StopCKEStep,     \* 11
  UpdateCKEStep    \* 12

ASSUME StepAssumption ==
  /\ {StopVaultStep, UpdateVaultStep, StopCKEStep, UpdateCKEStep}
       \subseteq Nat \ {0, FinalStep}
  /\ StopVaultStep < UpdateVaultStep
  /\ UpdateVaultStep < StopCKEStep
  /\ StopCKEStep < UpdateCKEStep

VARIABLES
  neco,       \* version of the installed neco package, which contains CKE
  vaultUnit,  \* version named by /etc/systemd/system/vault.service
  vault,      \* version of the running Vault, 0 when it is stopped
  cke         \* version of the running CKE, 0 when it is stopped

operatorVars == <<neco, vaultUnit, vault, cke>>

----------------------------------------------------------------------------
\* systemctl start: does nothing to a service that is running.
StartVault(w, unit) ==
  vault' = [vault EXCEPT ![w] = IF vault[w] = 0 THEN unit ELSE vault[w]]

\* When the worker starts: etcd and Vault are started if they are installed.
StartServices(w) ==
  /\ StartVault(w, vaultUnit[w])
  /\ UNCHANGED <<neco, vaultUnit, cke>>

\* dpkg -i: the maintainer scripts stop cke with the old package and start it
\* with the new one.
UpdateNeco(w, version) ==
  /\ neco' = [neco EXCEPT ![w] = version]
  /\ cke' = [cke EXCEPT ![w] = version]
  /\ UNCHANGED <<vaultUnit, vault>>

\* Variant: Vault is not stopped.
StopVaultNot(w) == UNCHANGED operatorVars

StopVault(w) ==
  /\ vault' = [vault EXCEPT ![w] = 0]
  /\ UNCHANGED <<neco, vaultUnit, cke>>

replaceVaultFiles(w, version) ==
  vaultUnit' = [vaultUnit EXCEPT ![w] = version]

UpdateVault(w, version) ==
  /\ replaceVaultFiles(w, version)
  /\ StartVault(w, version)
  /\ UNCHANGED <<neco, cke>>

\* stopService looks for /etc/systemd/system/cke.service and returns when there
\* is none.  The package installs the unit in /lib/systemd/system, so nothing
\* is stopped.
StopCKE(w) == UNCHANGED operatorVars

\* systemctl restart runs the installed binary.
UpdateCKE(w) ==
  /\ cke' = [cke EXCEPT ![w] = neco[w]]
  /\ UNCHANGED <<neco, vaultUnit, vault>>

RunStep(w, step, version) ==
  \/ step = StopVaultStep /\ StopVault(w)
  \/ step = UpdateVaultStep /\ UpdateVault(w, version)
  \/ step = StopCKEStep /\ StopCKE(w)
  \/ step = UpdateCKEStep /\ UpdateCKE(w)
  \/ /\ step \notin {StopVaultStep, UpdateVaultStep, StopCKEStep, UpdateCKEStep}
     /\ UNCHANGED operatorVars

\* A step that fails or is killed stops before its effect, after it, or
\* half-way: Vault's unit is replaced before the service is started.
RunStepPartly(w, step, version) ==
  \/ UNCHANGED operatorVars
  \/ RunStep(w, step, version)
  \/ /\ step = UpdateVaultStep
     /\ replaceVaultFiles(w, version)
     /\ UNCHANGED <<neco, vault, cke>>

OperatorTypeOK ==
  /\ neco \in [Lrn -> Version]
  /\ vaultUnit \in [Lrn -> Version]
  /\ vault \in [Lrn -> Version \cup {0}]
  /\ cke \in [Lrn -> Version \cup {0}]
=============================================================================
