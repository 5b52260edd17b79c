----------------------------- MODULE Deployment -----------------------------
(***************************************************************************)
(* The machine a server is deployed on: its files (ServerFiles), its       *)
(* binary (Upgrade) and the service manager.  The operator runs one        *)
(* command at a time, beside the running server; the service manager       *)
(* starts the server again and again, which takes a complete binary and    *)
(* files that parse.                                                       *)
(***************************************************************************)
EXTENDS ServerFiles, Upgrade

deploymentVars == <<vars, upgradeVars>>

(* Types: each file holds what some writer of that file has put there.     *)
TypeOK == FilesTypeOK /\ UpgradeTypeOK

DeploymentInit == Init /\ UpgradeInit

(* ExecStart of the unit that createSystemdService writes.                 *)
StartService == serveCmd /\ IsWhole(current) /\ UNCHANGED upgradeVars

(* systemctl restart, whose error runUpgrade ignores.                      *)
RestartService ==
  /\ step = "restart" /\ CommandEnds
  /\ Killed \/ UNCHANGED vars

Commands == runWizard \/ runBackup \/ runRestore

DeploymentNext ==
  \/ StartService \/ RestartService
  \/ Commands /\ step = "idle" /\ UNCHANGED upgradeVars
  \/ FilesNext /\ UNCHANGED upgradeVars
  \/ runUpgrade /\ AtPrompt /\ UNCHANGED vars
  \/ UpgradeNext /\ UNCHANGED vars

Spec == DeploymentInit /\ [][DeploymentNext]_deploymentVars
=============================================================================
