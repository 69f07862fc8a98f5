---------------------------- MODULE MCBackground ----------------------------
(* The wrapper's two loops that run beside the sessions: the one that claims *)
(* Work schedules and the one that keeps the connection to the relay.  They  *)
(* share no state: a behaviour of this run is one of the loop named by loop. *)
EXTENDS WorkSchedules, LinkQueue, TLC

CONSTANTS a, b, c, hello

FrameSizes == a :> 1 @@ b :> 2 @@ c :> 3 @@ hello :> 1

VARIABLE loop

BackgroundInit == loop \in {"schedules", "link"} /\ Init /\ LinkInit

BackgroundNext ==
    /\ UNCHANGED loop
    /\ \/ loop = "schedules" /\ Next /\ UNCHANGED linkVars
       \/ loop = "link" /\ LinkNext /\ UNCHANGED vars

OfSchedules == loop = "schedules"
OfLink == loop = "link"

\* Fairness of WorkSchedules and LinkFairness, each for its own loop.
BackgroundFairness ==
    /\ WF_vars(OfSchedules /\ ClaimDue)
    /\ \A t \in Tasks : /\ WF_vars(OfSchedules /\ Start(t)) /\ WF_vars(OfSchedules /\ Renew(t))
                        /\ WF_vars(OfSchedules /\ \E failed \in BOOLEAN : Complete(t, failed))
    /\ \A r \in Runs : WF_vars(OfSchedules /\ BackOff(r)) /\ WF_vars(OfSchedules /\ Lapse(r))
    /\ \A t \in Senders : WF_linkVars(OfLink /\ Recheck(t))
    /\ WF_linkVars(OfLink /\ Connect) /\ WF_linkVars(OfLink /\ Greeted) /\ WF_linkVars(OfLink /\ Take) /\ WF_linkVars(OfLink /\ Write)
    /\ WF_linkVars(OfLink /\ Incoming) /\ WF_linkVars(OfLink /\ LinkLost) /\ WF_linkVars(OfLink /\ Drain)

BackgroundSpec ==
    BackgroundInit /\ [][BackgroundNext]_<<loop, vars, linkVars>> /\ BackgroundFairness
=============================================================================
