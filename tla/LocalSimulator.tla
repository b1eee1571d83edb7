----------------------------- MODULE LocalSimulator -----------------------------
(***************************************************************************)
(* The local node and the harness page together: they share the file       *)
(* deployed.json, which outlives a boot, and the chain, which does not.    *)
(***************************************************************************)
EXTENDS LocalNode

CONSTANTS MaxPolls, MaxStarts

VARIABLE page

ChainBoot == IF node.pc = "down" THEN 0 ELSE node.boot

Page == INSTANCE SimulatorPage WITH chainBoot <- ChainBoot

simulatorVars == <<nodeVars, page>>

SimulatorInit == NodeInit /\ Page!PageInit

NodeSide == NodeNext /\ UNCHANGED page
PageSide == Page!PageNext /\ UNCHANGED nodeVars

SimulatorNext == NodeSide \/ PageSide

SimulatorSpec == SimulatorInit /\ [][SimulatorNext]_simulatorVars

\* A sync runs on, requests are answered, a creation ends, and the page keeps
\* asking.  Nothing makes the node boot or the developer press Start.
SimulatorFairness ==
    /\ WF_simulatorVars(SyncStep /\ UNCHANGED page)
    /\ WF_simulatorVars(Page!Answer /\ UNCHANGED nodeVars)
    /\ WF_simulatorVars((Page!RuntimeCreated \/ Page!CreationFails) /\ UNCHANGED nodeVars)
    /\ SF_simulatorVars(Page!Poll /\ UNCHANGED nodeVars)

-----------------------------------------------------------------------------

\* The harness follows the node: when a boot stays, the page ends on a
\* runtime of its chain, whatever old answers of the server and failed
\* creations come between (App.tsx:82-87, "a node reboot ... restarts the
\* harness instead of leaving it on the previous chain's session feed").
FollowsTheNode ==
    \A boot \in 1..MaxBoots :
        <>[](node.pc # "down" /\ node.boot = boot) => <>[]Page!OnTheNewestChain(boot)

=============================================================================
