-------------------------------- MODULE Quota --------------------------------
(***************************************************************************)
(* What app/auth.py promises of its rate limits: each (subject, minute)    *)
(* has a quota of Limit places; a request takes a place while one is left  *)
(* and is turned away only when none is.  One atomic step each.            *)
(***************************************************************************)
EXTENDS Naturals, FiniteSets

CONSTANTS
    Requests,  \* requests that ask for a place
    Slots,     \* (subject, minute) pairs
    Limit      \* places in each slot

VARIABLES
    taken,  \* slot -> the requests that have a place
    turned  \* slot -> the requests that were turned away

Free(slot) == Cardinality(taken[slot]) < Limit

QuotaInit ==
    /\ taken = [slot \in Slots |-> {}]
    /\ turned = [slot \in Slots |-> {}]

Take(r, slot) ==
    /\ Free(slot)
    /\ taken' = [taken EXCEPT ![slot] = @ \cup {r}]
    /\ UNCHANGED turned

TurnAway(r, slot) ==
    /\ ~Free(slot)
    /\ turned' = [turned EXCEPT ![slot] = @ \cup {r}]
    /\ UNCHANGED taken

QuotaNext ==
    \E r \in Requests, slot \in Slots : Take(r, slot) \/ TurnAway(r, slot)

QuotaSpec == QuotaInit /\ [][QuotaNext]_<<taken, turned>>
=============================================================================
