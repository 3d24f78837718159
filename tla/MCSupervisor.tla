---------------------------- MODULE MCSupervisor ----------------------------
(***************************************************************************)
(* Small instances for TLC of three parts: the supervisor's start and its  *)
(* end, the event relay with its refinement, and the session claims of the *)
(* Qt backend.  They share no variable: the relay counts supervisor        *)
(* processes and does not ask how one was found, and the Qt backend has    *)
(* no supervisor.  A behaviour is one of one of them, and the others stay  *)
(* in their initial states.                                                *)
(***************************************************************************)
EXTENDS EventRelay, SupervisorLaunch, SessionClaims, TLC

VARIABLE subject

supervisorVars == <<subject, vars, launchVars, claimsVars>>

SupervisorInit == subject \in {"relay", "launch", "claims"} /\ Init /\ LaunchInit /\ ClaimsInit

SupervisorNext ==
  /\ UNCHANGED subject
  /\ \/ subject = "relay" /\ Next /\ UNCHANGED <<launchVars, claimsVars>>
     \/ subject = "launch" /\ LaunchNext /\ UNCHANGED <<vars, claimsVars>>
     \/ subject = "claims" /\ ClaimsNext /\ UNCHANGED <<vars, launchVars>>

Supervisor == SupervisorInit /\ [][SupervisorNext]_supervisorVars

\* The configuration gives servers, launchers and tabs the same values: of the parts that
\* stay in their initial states none tells them apart.
Symmetry == Permutations(Servers) \cup Permutations(NewFiles)

\* What TLC explores of the relay: every size with the first server alone. Once a
\* second server or supervisor has started, small and oversized events, and the last
\* one only into a full ring of small events, when a server has gone.
RelayExplored ==
  \/ epoch = 1 /\ Cardinality({s \in Servers : phase[s] # "new"}) <= 1
  \/ /\ \A i \in 1..Len(events) : events[i].bytes = 1
     /\ sequence <= (IF Len(events) = RingLimit /\ (\E s \in Servers : phase[s] = "gone") THEN 4 ELSE 3) - epoch

\* And of the claims: one tab at a time that is restarted, that another mutation holds
\* while its session waits, whose child may be where the tab does not know, or whose draft
\* was not migrated; and one that is stopped or closed.
ClaimsExplored ==
  /\ Cardinality({t \in TabIds :
       \/ late[t] # {} \/ unnoticed[t] \/ tab[t].mutation \in {"restart", "other"}
       \/ tab[t].sessionFile \in files /\ ~tab[t].durable}) <= 1
  /\ Cardinality({t \in TabIds : shuttingDown[t]}) <= 1
  /\ \A t \in TabIds :
       /\ Cardinality(late[t]) <= 1
       /\ tab[t].mutation = "other" => tab[t].pendingResume # NoFile /\ ~tab[t].resumeBlocked

Explored == RelayExplored /\ ClaimsExplored
=============================================================================
