----------------------------- MODULE Settlement -----------------------------
(* What the workload promises of one reservation, to its owner and to the     *)
(* website, without streams, threads, receipts or retries: one call at most   *)
(* comes to hold the claim and works, a charge is for finished work, and what *)
(* a browser is told is what was recorded, for good. Cleaning implements it   *)
(* for the text of a reservation, Media for each of its files.                *)
EXTENDS Website

CONSTANT Calls   \* the calls that carry the capability of the reservation

VARIABLES
    site,      \* the website's reservation
    holders,   \* the call that claimed it, unless it is gone: at most one
    done,      \* has a holder finished work that can be charged?
    told       \* what each browser was told of its credits, if anything

settlementVars == <<site, holders, done, told>>

SettlementInit ==
    /\ site = "pending"
    /\ holders = {}
    /\ done = FALSE
    /\ told = [c \in Calls |-> "nothing"]

(* A holder can be cancelled, or its process stop, alone or with a step.      *)
LetGo == holders' \in SUBSET holders

(* The website claims a pending reservation; the call that asked for it holds *)
(* it, or never learns that it does.                                          *)
Claimed ==
    /\ site = "pending"
    /\ site' = "claimed"
    /\ holders' \in {{}} \cup {{c} : c \in Calls}
    /\ UNCHANGED <<done, told>>

Finished ==
    /\ holders # {}
    /\ done' = TRUE
    /\ LetGo
    /\ UNCHANGED <<site, told>>

(* A claimed reservation is settled, by a receipt or by the website itself.   *)
Settles ==
    /\ site = "claimed"
    /\ site' \in Settled
    /\ site' = "charged" => done

(* The acknowledgement can reach the holder with the settlement, later with   *)
(* that of a repeated receipt, or never.                                      *)
Tells ==
    /\ site' \in Settled
    /\ \E c \in holders : told[c] = "nothing" /\ told' = [told EXCEPT ![c] = site']

SettlementNext ==
    \/ Claimed
    \/ Finished
    \/ /\ Settles \/ UNCHANGED site
       /\ Tells \/ UNCHANGED told
       /\ LetGo
       /\ UNCHANGED done

SettlementSpec == SettlementInit /\ [][SettlementNext]_settlementVars
=============================================================================
