------------------------------ MODULE SimulatorPage ------------------------------
(***************************************************************************)
(* The harness page (App.tsx): it polls deployed.json, applies what it     *)
(* finds as its configuration, and runs one runtime on the applied         *)
(* configuration.  Creating a runtime takes time, and React may apply the  *)
(* next configuration meanwhile.                                           *)
(*                                                                         *)
(* A configuration is the boot whose addresses it has; each one that is    *)
(* applied is a generation of the effect that creates the runtime.  Other  *)
(* fields of the panel are left out, as is the page without a local node.  *)
(***************************************************************************)
EXTENDS Integers, Sequences, FiniteSets

CONSTANTS
    MaxPolls,       \* bound: polls that wait for their response
    MaxStarts       \* bound: presses of Start

\* What the constants are assumed to be.
PageAssumption == {MaxPolls, MaxStarts} \subseteq Nat

VARIABLES
    page,           \* the state of the page
    deployedJson,   \* what the web server serves
    chainBoot       \* the boot whose chain answers, or 0

pageVars == <<page>>

PageInit ==
    page = [detected |-> {}, bootId |-> 0, polls |-> <<>>, config |-> 0,
            applied |-> 0, generation |-> 0, starts |-> 0,
            creating |-> {}, live |-> {}, shown |-> 0, error |-> FALSE]

\* withDetectedContracts: the addresses of a boot replace the saved ones.
WithDetectedContracts(contracts) == contracts.boot

-----------------------------------------------------------------------------
(***************************************************************************)
(* The effect of the applied configuration: its cleanup stops the runtime  *)
(* it created, or marks the one under way, and the next one is begun.      *)
(***************************************************************************)

\* Mutant: the effect has no cleanup
ApplyOnly(config) ==
    LET g == page.generation + 1
    IN  [page EXCEPT !.config = config, !.applied = config, !.generation = g,
                     !.creating = @ \cup {[gen |-> g, boot |-> config]}, !.error = FALSE]

Applied(config) ==
    LET g == page.generation + 1
    IN  [page EXCEPT !.config = config, !.applied = config, !.generation = g,
                     !.live = {}, !.shown = 0, !.error = FALSE,
                     !.creating = @ \cup {[gen |-> g, boot |-> config]}]

\* A runtime that arrives after its effect was cleaned up is stopped.
RuntimeCreated ==
    \E r \in page.creating :
        /\ r.boot = chainBoot
        /\ page' = IF r.gen = page.generation
                   THEN [page EXCEPT !.creating = @ \ {r}, !.live = @ \cup {r},
                                     !.shown = r.gen]
                   ELSE [page EXCEPT !.creating = @ \ {r}]

CreationFails ==
    \E r \in page.creating :
        /\ r.boot # chainBoot
        /\ page' = [page EXCEPT !.creating = @ \ {r},
                                !.error = @ \/ r.gen = page.generation]

-----------------------------------------------------------------------------
(***************************************************************************)
(* Polling.  Every tick asks, whatever is still unanswered; the answers    *)
(* may come in any order.                                                  *)
(***************************************************************************)

Poll ==
    /\ Len(page.polls) < MaxPolls
    /\ page' = [page EXCEPT !.polls = Append(@, deployedJson)]

NewBoot(contracts) == page.bootId = 0 \/ contracts.boot # page.bootId

Answer ==
    \E i \in DOMAIN page.polls :
        LET contracts == page.polls[i]
            rest == [j \in 1..(Len(page.polls) - 1) |-> page.polls[IF j < i THEN j ELSE j + 1]]
            rebooted == page.bootId # 0
            apply == rebooted \/ page.applied = 0
            merged == WithDetectedContracts(contracts)
            next == IF apply THEN Applied(merged) ELSE [page EXCEPT !.config = merged]
        IN  page' = IF contracts.boot = 0
                    THEN [page EXCEPT !.polls = rest]
                    ELSE IF NewBoot(contracts)
                    THEN [next EXCEPT !.polls = rest, !.detected = contracts.games,
                                      !.bootId = contracts.boot]
                    ELSE [page EXCEPT !.polls = rest, !.detected = contracts.games]

\* The button applies the panel's configuration, addresses included.
Start ==
    /\ page.config # 0
    /\ page.starts < MaxStarts
    /\ page' = [Applied(page.config) EXCEPT !.starts = page.starts + 1]

-----------------------------------------------------------------------------

PageNext == Poll \/ Answer \/ RuntimeCreated \/ CreationFails \/ Start

\* The page, whatever becomes of the node and its file meanwhile.
PageSpec == PageInit /\ [][PageNext]_pageVars

-----------------------------------------------------------------------------
(***************************************************************************)
(* Correctness                                                             *)
(***************************************************************************)

\* Never two feeds: the only runtime that is live is the one of the applied
\* configuration, and it is the one on display, however configurations
\* overtake the creation of runtimes (App.tsx:127-128, "keeps StrictMode's
\* dev double-mount from killing a live event feed").
OneLiveRuntime ==
    /\ \A r \in page.live : r.gen = page.generation /\ r.boot = page.applied
    /\ page.shown = IF page.live = {} THEN 0 ELSE page.generation

\* The page runs on the chain of that boot.  See LocalSimulator.
OnTheNewestChain(boot) == page.live # {} /\ \A r \in page.live : r.boot = boot

=============================================================================
