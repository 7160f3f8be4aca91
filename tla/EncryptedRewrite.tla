-------------------------- MODULE EncryptedRewrite --------------------------
(* One encrypted text cleaning from the provider to the page: every event     *)
(* _processing_stream yields, two phases, the provider's deltas and at most   *)
(* one last event, is sealed as it is yielded (Provider drives                *)
(* ResponseStream), and the page opens what the path delivers.                *)
EXTENDS Provider, ResponseStream

VARIABLE
    carried   \* what each sealed event carries: its type, and the provider
              \* attempt it was yielded in

rewriteVars == <<vars, streamVars, carried>>

Endings == {"complete", "fallback", "error"}
Event == [type : {"phase", "delta"} \cup Endings, attempt : Attempts]

RewriteInit == Init /\ StreamInit /\ carried = <<>>

(* yield encode_event(...)                                                    *)
Yield(type) ==
    /\ Encrypt
    /\ carried' = Append(carried, [type |-> type, attempt |-> attempt])

(* "cleaning" and "rephrasing", before the provider is asked.                 *)
Announce ==
    /\ pc = "idle"
    /\ Len(carried) < 2
    /\ Yield("phase")
    /\ UNCHANGED vars

(* The provider's steps; the loop of _processing_stream yields its deltas.    *)
Rewrite ==
    /\ Len(carried) >= 2
    /\ Next
    /\ IF pc = "reading" /\ pc' = "sending" THEN Yield("delta")
                                            ELSE UNCHANGED <<streamVars, carried>>

(* The request is settled and the last event tells how. A billable result may *)
(* still end in an error: its receipt may fail.                               *)
LastEventComplete ==                                             \* mutant
    IF result # None /\ finish = "stop" THEN "complete" ELSE "fallback"
LastEvent ==
    CASE pc = "raised" -> "error"
      [] pc = "ended" /\ result.billable -> "complete"
      [] OTHER -> "fallback"
Finish ==
    /\ pc \in {"ended", "raised"}
    /\ carried[Len(carried)].type \notin Endings
    /\ Yield(LastEvent) \/ Yield("error")
    /\ UNCHANGED vars

RewriteNext ==
    \/ Announce \/ Rewrite \/ Finish
    \/ Receive /\ UNCHANGED <<vars, carried>>

RewriteSpec == RewriteInit /\ [][RewriteNext]_rewriteVars /\ WF_vars(Deadline)

----------------------------------------------------------------------------
(* Properties *)

(* Across provider, generator, cipher, path and decryptor: a page that opens  *)
(* the event "complete" has opened every delta of the rewrite it is charged   *)
(* for, all of one attempt that ended with an explicit stop, in their order;  *)
(* nothing follows that event (app.py:241-316, confidential-crypto.ts:150-180)*)
CompleteIsWhole ==
    \A i \in DOMAIN accepted : carried[accepted[i] + 1].type = "complete" =>
        /\ i = Len(carried)
        /\ \A j \in 1 .. i : accepted[j] = j - 1
        /\ i > 3 /\ \A j \in 3 .. i - 1 :
              carried[j] = [type |-> "delta", attempt |-> result.attempts]
        /\ result.attempts \in stopped
=============================================================================
