-------------------------------- MODULE Bsal --------------------------------
(***************************************************************************)
(* The Band Steering Abstraction Layer of the default build, bsal_legacy.c:*)
(* the steering group, events and client information of BsalSteering and   *)
(* the neighbor reports of BsalNeighbors, both called by the loop of the   *)
(* Band Steering Manager and lost together when it is started again.       *)
(***************************************************************************)
EXTENDS BsalSteering, BsalNeighbors

Init == SteeringInit /\ NeighborsInit

Restart == RestartSteering /\ RestartNeighbors

Next ==
    \/ SteeringNext /\ UNCHANGED nvars
    \/ ~crashed /\ NeighborsNext /\ UNCHANGED svars
    \/ Restart

Spec == Init /\ [][Next]_<<svars, nvars>>

\* One type invariant for both.
TypeOK == SteeringTypeOK /\ NeighborsTypeOK
=============================================================================
