------------------------------ MODULE KeyTable ------------------------------
(* What the attestation endpoint promises, without tasks, caches or clocks: a *)
(* bounded table of keys. A key is bound once, to one request and challenge;  *)
(* a request has at most one live key; and the workload only ever vouches for *)
(* a key under the request and challenge the key was bound to.                *)
EXTENDS Integers, FiniteSets

CONSTANTS Requests, Challenges, Keys, Capacity, None

VARIABLES
    bound,    \* the request and challenge of each key, once bound
    live,     \* the keys that occupy a slot
    vouched   \* the answers given

tableVars == <<bound, live, vouched>>

TableInit ==
    /\ bound = [k \in Keys |-> None]
    /\ live = {}
    /\ vouched = {}

(* Slots can be freed at any time, alone or with the other steps.             *)
Free(dead) == live' = live \ dead /\ UNCHANGED <<bound, vouched>>

Bind(k, r, ch, dead) ==
    /\ bound[k] = None
    /\ \A l \in live \ dead : bound[l].rid # r
    /\ Cardinality(live \ dead) < Capacity
    /\ bound' = [bound EXCEPT ![k] = [rid |-> r, challenge |-> ch]]
    /\ live' = (live \ dead) \cup {k}
    /\ UNCHANGED vouched

(* An answer may reach a caller after its key has lost the slot.              *)
Vouch(k, dead) ==
    /\ bound[k] # None
    /\ vouched' = vouched \cup
         {[rid |-> bound[k].rid, challenge |-> bound[k].challenge, key |-> k]}
    /\ live' = live \ dead
    /\ UNCHANGED bound

TableNext ==
    \E dead \in SUBSET live :
        \/ Free(dead)
        \/ \E k \in Keys : Vouch(k, dead)
        \/ \E k \in Keys, r \in Requests, ch \in Challenges : Bind(k, r, ch, dead)

TableSpec == TableInit /\ [][TableNext]_tableVars
=============================================================================
