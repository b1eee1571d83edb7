---------------------------- MODULE SessionEscrow ----------------------------
(***************************************************************************)
(* What a casino host promises about money, whatever game runs on it.      *)
(* Every session is a box of its own.  It is opened once, in order, under  *)
(* two limits fixed at the opening; while it is open its stake may move    *)
(* between nothing and the stake limit; it is closed once, and then the    *)
(* player has lost no more than the stake limit and won no more than the   *)
(* profit limit.  A step is about one box and leaves every other as it is. *)
(***************************************************************************)
EXTENDS Integers

CONSTANT SessionIds

VARIABLE box

Status == {"unused", "open", "closed"}

Init == \A sid \in SessionIds : box[sid].status = "unused"

SameLimits(sid) ==
    /\ box'[sid].stakeLimit = box[sid].stakeLimit
    /\ box'[sid].profitLimit = box[sid].profitLimit

Holding(sid) ==
    /\ box'[sid].status = "open"
    /\ box'[sid].stake \in 0..box'[sid].stakeLimit

\* gain is what the player has won, negative for a loss.
Emptied(sid) ==
    /\ box'[sid].status = "closed"
    /\ -box'[sid].stakeLimit <= box'[sid].gain
    /\ box'[sid].gain <= box'[sid].profitLimit

\* A game may settle a session in the transaction that opens it.
Open(sid) ==
    /\ box[sid].status = "unused"
    /\ \A other \in SessionIds : other < sid => box[other].status # "unused"
    /\ Holding(sid) \/ Emptied(sid)

Adjust(sid) ==
    /\ box[sid].status = "open"
    /\ SameLimits(sid)
    /\ Holding(sid)

Close(sid) ==
    /\ box[sid].status = "open"
    /\ SameLimits(sid)
    /\ Emptied(sid)

OthersKept(sid) == \A other \in SessionIds \ {sid} : box'[other] = box[other]

Next == \E sid \in SessionIds :
            /\ Open(sid) \/ Adjust(sid) \/ Close(sid)
            /\ OthersKept(sid)

Spec == Init /\ [][Next]_box
=============================================================================
