---------------------------- MODULE MCProtocols ----------------------------
(***************************************************************************)
(* Small instances for TLC of three protocols with liveness, side by side  *)
(* in one state space: the event relay, the agent scheduler and the lock   *)
(* around the web UI's settings.  They share nothing.  A behaviour is one  *)
(* of one of them, its subject; the others stay in their initial states,   *)
(* in which none of their fair actions is enabled, so that the fairness of *)
(* all three may be assumed of every behaviour.                            *)
(***************************************************************************)
EXTENDS EventRelay, AgentScheduler, SettingsLock, TLC

CONSTANTS c1, c2, c3, r1, r2

\* A call of each run, and one that belongs to no run.
MCRunOf == (c1 :> r1 @@ c2 :> r2 @@ c3 :> NoRun)

VARIABLE subject

protocolVars == <<subject, vars, schedulerVars, settingsVars>>

ProtocolsInit ==
  /\ subject \in {"relay", "scheduler", "settings"}
  /\ Init /\ SchedulerInit /\ SettingsInit

ProtocolsNext ==
  /\ UNCHANGED subject
  /\ \/ subject = "relay" /\ Next /\ UNCHANGED <<schedulerVars, settingsVars>>
     \/ subject = "scheduler" /\ SchedulerNext /\ UNCHANGED <<vars, settingsVars>>
     \/ subject = "settings" /\ SettingsNext /\ UNCHANGED <<vars, schedulerVars>>

Protocols ==
  /\ ProtocolsInit /\ [][ProtocolsNext]_protocolVars
  /\ Fairness /\ SchedulerFairness /\ SettingsFairness
=============================================================================
