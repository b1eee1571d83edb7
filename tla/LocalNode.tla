-------------------------------- MODULE LocalNode --------------------------------
(***************************************************************************)
(* The local node (local-node/): a process that deploys the host, then     *)
(* deploys and registers the games of a folder and watches it, mirrors the *)
(* games the host lists, and writes all of it to deployed.json.            *)
(*                                                                         *)
(* A source file is its revision; what the compiler makes of a revision is *)
(* how many games it holds.  An address is a number of its own.  The chain *)
(* is the list of the registrations of this boot's host, one to a block.   *)
(* An error nobody catches ends the process, which Stop stands for.        *)
(***************************************************************************)
EXTENDS Integers, Sequences, FiniteSets, SequencesExt

CONSTANTS
    Files,          \* sources a developer may drop into the folder, by number
    Revisions,      \* what a file may hold
    EditsInScan,    \* whether the folder may change during the first scan
    MaxBoots,       \* bound: boots of the node
    MaxEdits,       \* bound: changes of the folder
    MaxDeployments  \* bound: contracts deployed or registered in a boot

\* What the constants are assumed to be.
NodeAssumption ==
    /\ Files \subseteq Nat
    /\ Revisions \subseteq {"broken", "library", "game", "edited", "pair"}
    /\ EditsInScan \in BOOLEAN
    /\ {MaxBoots, MaxEdits, MaxDeployments} \subseteq Nat

VARIABLES
    folder,         \* the revision of each file, or "absent"
    edits,          \* changes of the folder so far
    node,           \* the process
    registrations,  \* GameWhitelistUpdated of this boot's host, by block
    deployedJson    \* the file the harness reads

nodeVars == <<folder, edits, node, registrations, deployedJson>>

Compiles(revision) == revision # "broken"
GamesOf(revision) ==
    CASE revision = "pair" -> 2
      [] revision \in {"game", "edited"} -> 1
      [] OTHER -> 0

Coinflip == 0
NoFile == [boot |-> 0, games |-> {}]
NoEntry == [hash |-> "none", games |-> {}]
NoSync == [at |-> "none", left |-> {}, file |-> 0, hash |-> "none",
           games |-> {}, fresh |-> 0, changed |-> FALSE]

NodeInit ==
    /\ folder \in [Files -> Revisions \cup {"absent"}]
    /\ edits = 0
    /\ node = [pc |-> "down", boot |-> 0, deployed |-> [f \in Files |-> NoEntry],
               sync |-> NoSync, debounce |-> FALSE, queued |-> 0, addresses |-> 0,
               dynamicGames |-> {}, registeredGames |-> {}, nextBlock |-> 1]
    /\ registrations = <<>>
    /\ deployedJson = NoFile

-----------------------------------------------------------------------------
(***************************************************************************)
(* The process                                                             *)
(***************************************************************************)

\* The chain and the infrastructure of a boot; nothing is written yet.
Boot ==
    /\ node.pc = "down"
    /\ node.boot < MaxBoots
    /\ node' = [node EXCEPT !.pc = "scanning", !.boot = @ + 1, !.queued = 1,
            !.deployed = [f \in Files |-> NoEntry], !.sync = NoSync,
            !.debounce = FALSE, !.addresses = 0, !.dynamicGames = {},
            !.registeredGames = {}, !.nextBlock = 1]
    /\ registrations' = <<Coinflip>>
    /\ UNCHANGED <<folder, edits, deployedJson>>

\* A signal, a chain that exits, or a sync that throws outside its try: the
\* rejected queue has no handler.  deployed.json stays behind.
Stop ==
    /\ node.pc # "down"
    /\ node.boot < MaxBoots
    /\ node' = [node EXCEPT !.pc = "down", !.sync = NoSync, !.queued = 0, !.debounce = FALSE]
    /\ UNCHANGED <<folder, edits, registrations, deployedJson>>

\* listGames: the deployed ones, then those of the host not among them
ListGames(dynamic, registered) == {Coinflip} \cup dynamic \cup registered

WriteDeployed(dynamic, registered) ==
    deployedJson' = [boot |-> node.boot, games |-> ListGames(dynamic, registered)]

-----------------------------------------------------------------------------
(***************************************************************************)
(* watchGameContracts.  A sync looks at one file after the other; it is    *)
(* away while a contract is deployed and while it is registered.           *)
(***************************************************************************)

Sources == {f \in Files : folder[f] # "absent"}

BeginSync ==
    /\ node.queued > 0
    /\ node.sync = NoSync
    /\ LET stale == {f \in Files : node.deployed[f] # NoEntry /\ folder[f] = "absent"}
       IN  node' = [node EXCEPT
               !.queued = @ - 1,
               !.deployed = [f \in Files |-> IF f \in stale THEN NoEntry ELSE @[f]],
               !.sync = [NoSync EXCEPT !.at = "files", !.left = Sources,
                                       !.changed = stale # {}]]
    /\ UNCHANGED <<folder, edits, registrations, deployedJson>>

AtFile(f) ==
    /\ node.sync.at = "files"
    /\ f \in node.sync.left
    /\ \A g \in node.sync.left : f <= g

\* Gone since it was listed, or a revision already dealt with.
SkipFile(f) ==
    /\ AtFile(f)
    /\ folder[f] \in {"absent", node.deployed[f].hash}
    /\ node' = [node EXCEPT !.sync.left = @ \ {f}]
    /\ UNCHANGED <<folder, edits, registrations, deployedJson>>

\* A broken revision is remembered with the games of the last good one.
\* Mutant: with no games
ForgetsTheGood(f, hash) == [hash |-> hash, games |-> {}]
Broken(f, hash) == [hash |-> hash, games |-> node.deployed[f].games]

CompileFile(f) ==
    /\ AtFile(f)
    /\ folder[f] \notin {"absent", node.deployed[f].hash}
    /\ LET hash == folder[f] IN
        IF Compiles(hash) /\ GamesOf(hash) > 0
        THEN node' = [node EXCEPT !.sync.at = "deploy", !.sync.file = f, !.sync.hash = hash,
                                  !.sync.games = {}]
        ELSE node' = [node EXCEPT
                !.sync.left = @ \ {f},
                !.sync.changed = @ \/ Compiles(hash),
                !.deployed[f] =
                    IF Compiles(hash) THEN [hash |-> hash, games |-> {}] ELSE Broken(f, hash)]
    /\ UNCHANGED <<folder, edits, registrations, deployedJson>>

DeployGame ==
    /\ node.sync.at = "deploy"
    /\ node.addresses < MaxDeployments
    /\ node' = [node EXCEPT !.sync.at = "register", !.addresses = @ + 1,
                            !.sync.fresh = node.addresses + 1]
    /\ UNCHANGED <<folder, edits, registrations, deployedJson>>

\* The next contract of the file, or the next file.
RegisterGame ==
    LET sync == node.sync
        games == sync.games \cup {sync.fresh}
        done == Cardinality(games) = GamesOf(sync.hash)
    IN
    /\ sync.at = "register"
    /\ registrations' = Append(registrations, sync.fresh)
    /\ node' = IF done
               THEN [node EXCEPT
                        !.sync.at = "files", !.sync.left = @ \ {sync.file},
                        !.sync.changed = TRUE,
                        !.deployed[sync.file] = [hash |-> sync.hash, games |-> games]]
               ELSE [node EXCEPT !.sync.at = "deploy", !.sync.games = games]
    /\ UNCHANGED <<folder, edits, deployedJson>>

\* A deployment or a registration fails: caught like a compiler's error.
FailGame ==
    /\ node.sync.at \in {"deploy", "register"}
    /\ LET f == node.sync.file
       IN  node' = [node EXCEPT !.sync.at = "files", !.sync.left = @ \ {f},
                                !.deployed[f] = Broken(f, node.sync.hash)]
    /\ UNCHANGED <<folder, edits, registrations, deployedJson>>

CurrentGames == UNION {node.deployed[f].games : f \in Files}

\* The first scan writes when it is done, a later one if something changed.
EndSync ==
    /\ node.sync.at = "files"
    /\ node.sync.left = {}
    /\ LET dynamic == IF node.sync.changed THEN CurrentGames ELSE node.dynamicGames
       IN  /\ node' = [node EXCEPT !.pc = "up", !.sync = NoSync, !.dynamicGames = dynamic]
           /\ IF node.pc = "scanning" \/ node.sync.changed
              THEN WriteDeployed(dynamic, node.registeredGames)
              ELSE UNCHANGED deployedJson
    /\ UNCHANGED <<folder, edits, registrations>>

\* A change of the folder; the watch is there once the first scan is done.
Edit(f) ==
    /\ edits < MaxEdits
    /\ node.pc = "scanning" => EditsInScan
    /\ \E revision \in Revisions \cup {"absent"} :
        /\ folder[f] # revision
        /\ folder' = [folder EXCEPT ![f] = revision]
    /\ edits' = edits + 1
    /\ node' = [node EXCEPT !.debounce = @ \/ node.pc = "up"]
    /\ UNCHANGED <<registrations, deployedJson>>

\* Mutant: no sync is queued behind one that runs
SyncUnlessRunning == IF node.sync = NoSync THEN node.queued + 1 ELSE node.queued
QueueSync == node.queued + 1

Debounced ==
    /\ node.debounce
    /\ node' = [node EXCEPT !.debounce = FALSE, !.queued = QueueSync]
    /\ UNCHANGED <<folder, edits, registrations, deployedJson>>

-----------------------------------------------------------------------------
(***************************************************************************)
(* watchRegisteredGames                                                    *)
(***************************************************************************)

NextBlock(latest) == latest + 1

\* A poll reads the head, then the logs up to it; meanwhile more may come.
PollRegistered ==
    /\ node.pc = "up"
    /\ \E latest \in node.nextBlock..Len(registrations) :
        LET found == {registrations[b] : b \in node.nextBlock..latest}
        IN  /\ node' = [node EXCEPT !.nextBlock = NextBlock(latest),
                                    !.registeredGames = @ \cup found]
            /\ WriteDeployed(node.dynamicGames, node.registeredGames \cup found)
    /\ UNCHANGED <<folder, edits, registrations>>

\* Another tool registers a game of its own.
RegisterElsewhere ==
    /\ node.pc # "down"
    /\ node.addresses < MaxDeployments
    /\ node' = [node EXCEPT !.addresses = @ + 1]
    /\ registrations' = Append(registrations, node.addresses + 1)
    /\ UNCHANGED <<folder, edits, deployedJson>>

-----------------------------------------------------------------------------

SyncStep ==
    \/ BeginSync \/ DeployGame \/ RegisterGame \/ EndSync
    \/ \E f \in Files : SkipFile(f) \/ CompileFile(f)

NodeNext ==
    \/ Boot \/ Stop \/ SyncStep \/ FailGame \/ Debounced \/ PollRegistered
    \/ RegisterElsewhere
    \/ \E f \in Files : Edit(f)

NodeSpec == NodeInit /\ [][NodeNext]_nodeVars

-----------------------------------------------------------------------------
(***************************************************************************)
(* Correctness                                                             *)
(***************************************************************************)

Quiet == node.pc = "up" /\ node.sync = NoSync /\ node.queued = 0 /\ ~node.debounce

\* An edit is never missed: once the watcher has come to rest, it has dealt
\* with the very revision each file holds, however edits fell between its
\* reads and its deployments (game-contracts.ts:1-4, "new or edited files go
\* live without a restart").  Edits during the first scan, before the watch
\* exists, are not covered: see the README.
NoEditMissed ==
    Quiet => \A f \in Files :
        node.deployed[f].hash = IF folder[f] = "absent" THEN "none" ELSE folder[f]

\* The picker's list is the host's: with the poll up to date and no sync
\* running, deployed.json names exactly the games of this boot's host, each
\* way they came to it.
ListsTheHostsGames ==
    (/\ node.pc = "up"
     /\ node.sync = NoSync
     /\ node.nextBlock > Len(registrations)) =>
        deployedJson = [boot |-> node.boot, games |-> ToSet(registrations)]

\* A broken edit costs nothing: while a file is there, games it has deployed
\* leave the list of deployed games only for those of a newer good revision.
KeepsTheGood ==
    \A f \in Files :
        (/\ node'.boot = node.boot
         /\ folder[f] # "absent"
         /\ node'.deployed[f].games # node.deployed[f].games) =>
            LET entry == node'.deployed[f]
            IN  Compiles(entry.hash) /\ Cardinality(entry.games) = GamesOf(entry.hash)

LastGoodStays == [][KeepsTheGood]_nodeVars

=============================================================================
