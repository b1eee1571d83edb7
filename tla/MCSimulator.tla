------------------------------ MODULE MCSimulator ------------------------------
(***************************************************************************)
(* Small instances of the simulator around a frame, for TLC: the queue of  *)
(* transactions, the balance ledger, the local node with its folder, and   *)
(* the node with the page.  A behaviour is one of one part; the others     *)
(* stay at rest.                                                           *)
(***************************************************************************)
EXTENDS TransactionQueue

CONSTANTS
    Parts,          \* the parts of a run
    Revisions, MaxEdits, MaxDeployments, MaxBoots, MaxPolls, MaxStarts,
    Rounds, History, Funds, ExtraStakes, MaxBets, MaxTroubles

VARIABLES
    part,
    folder, edits, node, registrations, deployedJson, page,
    funds, session, openCall, action, mined, loose, patched, indexed, ready,
    rowsChanged, raw, baseline, adjustment, activeRounds, givenBack, epoch,
    reconcileTimer, reads, readFailed, tracked, pendingReveal, following, credited,
    mounted, orphans, replayed, troubles

Ledger == INSTANCE RoundLedger WITH call <- openCall, EarlyPlay <- FALSE,
              LateActions <- FALSE
Node == INSTANCE LocalNode WITH Files <- 1..2, EditsInScan <- FALSE,
            MaxBoots <- 1
Simulator == INSTANCE LocalSimulator WITH Files <- {}, Revisions <- {},
                 EditsInScan <- FALSE, MaxEdits <- 0, MaxDeployments <- 0

ASSUME SimulatorAssumption ==
    /\ Ledger!LedgerAssumption
    /\ Node!NodeAssumption
    /\ Simulator!Page!PageAssumption

localVars == <<folder, edits, node, registrations, deployedJson, page>>
ledgerVars == <<funds, session, openCall, action, mined, loose, patched, indexed,
                ready, rowsChanged, raw, baseline, adjustment, activeRounds, givenBack,
                epoch, reconcileTimer, reads, readFailed, tracked, pendingReveal,
                following, credited, mounted, orphans, replayed, troubles>>
allVars == <<part, queueVars, localVars, ledgerVars>>

AllInit ==
    /\ part \in Parts
    /\ QueueInit
    /\ Ledger!Init
    /\ part # "ledger" => \A r \in Rounds : session[r] = Ledger!NoSession
    /\ IF part = "node" THEN Node!NodeInit ELSE Simulator!NodeInit
    /\ Simulator!Page!PageInit

\* The ledger with every trouble but a restart and a call that gives up, where the
\* receipt of an action comes at once; from a chain without sessions, with two
\* bets or resumed rounds and calls that give up or reads that fail; and the same
\* with one restart.
OneViewport ==
    /\ Ledger!Next
    /\ mounted'
    /\ givenBack' = 0
    /\ \A r \in Rounds : mined[r] > 0 => mined'[r] = 0
    /\ \A r \in Rounds : openCall'[r] # "lost" /\ loose'[r] = 0

LostCalls == Ledger!Next /\ mounted' /\ ready' /\ epoch' <= 2

OneRestart ==
    /\ Ledger!Next
    /\ epoch' <= 2
    /\ troubles' <= 1
    /\ ready' /\ ~readFailed'
    /\ \A r \in Rounds : action'[r] <= 0

AllNext ==
    /\ \/ part = "queue" /\ QueueNext /\ UNCHANGED <<localVars, ledgerVars>>
       \/ part = "ledger" /\ OneViewport /\ UNCHANGED <<queueVars, localVars>>
       \/ part = "lost" /\ LostCalls /\ UNCHANGED <<queueVars, localVars>>
       \/ part = "restart" /\ OneRestart /\ UNCHANGED <<queueVars, localVars>>
       \/ part = "node" /\ Node!NodeNext /\ UNCHANGED <<queueVars, page, ledgerVars>>
       \/ part = "page" /\ Simulator!SimulatorNext /\ UNCHANGED <<queueVars, ledgerVars>>
    /\ UNCHANGED part

AllSpec == AllInit /\ [][AllNext]_allVars

-----------------------------------------------------------------------------
\* See RoundLedger, LocalNode, SimulatorPage and LocalSimulator.

\* The display never promises more than the chain will give, but for the stakes
\* that a call gave back and that left the chain all the same.
\* Code: balance-hold.ts.
NeverOverstated == Ledger!NeverOverstated

\* A round that was played to its end leaves nothing held.
\* Code: use-round-ledger.ts.
PlayedRoundsClose == Ledger!PlayedRoundsClose

\* A display at rest is the chain's balance, but for the stakes that were given
\* back and left the chain since it was read.  Code: balance-hold.ts.
DisplaysTheChain == Ledger!DisplaysTheChain

\* The local node misses no edit, and its list is the host's.
\* Code: game-contracts.ts, registered-games.ts, local-node/index.ts.
NodeIsUpToDate ==
    part = "node" => Node!NoEditMissed /\ Node!ListsTheHostsGames

\* A broken edit or a failed deployment costs no game that worked.
\* Code: game-contracts.ts.
LastGoodStays == [][part = "node" => Node!KeepsTheGood]_node

\* One feed at a time.  Code: simulator App.tsx.
OneLiveRuntime == part = "page" => Simulator!Page!OneLiveRuntime

\* Calls are answered and the page follows the node, each under its own
\* fairness.  Code: runtime.ts, simulator App.tsx.
SimulatorSettles ==
    /\ part = "queue" => (QueueFairness => CallsReturn)
    /\ part = "page" => (Simulator!SimulatorFairness => Simulator!FollowsTheNode)

=============================================================================
