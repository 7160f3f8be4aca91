-------------------------- MODULE RewriteProvider --------------------------
(* What _processing_stream relies on from a rewrite provider (the protocol    *)
(* RewriteProvider of app.py): deltas, then a result, billable or empty. The  *)
(* deadline can replace the result by an empty one until the iteration ends,  *)
(* and the iteration can raise or be dropped. Cleaning.tla is written against *)
(* this; Provider.tla implements it.                                          *)

VARIABLES
    phase,   \* is the iteration running, or how it ended
    result   \* the last result the consumer received

providerVars == <<phase, result>>

ProviderInit == phase = "streaming" /\ result = "none"

Delta == phase = "streaming" /\ result = "none" /\ UNCHANGED providerVars

Result(r) ==
    /\ phase = "streaming"
    /\ result = "none"
    /\ result' = r
    /\ UNCHANGED phase

Expire ==
    /\ phase = "streaming"
    /\ result' = "empty"
    /\ phase' = "ended"

End ==
    /\ phase = "streaming"
    /\ result # "none"
    /\ phase' = "ended"
    /\ UNCHANGED result

(* An exception, out of the iteration or in the consumer's send.              *)
Raise == phase = "streaming" /\ phase' \in {"raised", "dropped"} /\ UNCHANGED result

ProviderNext ==
    \/ Delta \/ Expire \/ End \/ Raise
    \/ \E r \in {"empty", "billable"} : Result(r)

ProviderSpec == ProviderInit /\ [][ProviderNext]_providerVars
=============================================================================
