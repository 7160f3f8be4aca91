------------------------------ MODULE Cleaning ------------------------------
(* One reservation from its claim to its settlement: the calls that try to    *)
(* clean it (clean and clean_plain), the streaming generator of the one that  *)
(* claims it (_processing_stream), the receipt client with its retries, and   *)
(* the receipts on their way to the website. Receipts and replies are lost,   *)
(* delayed and, by retries, duplicated; the browser disconnects; the provider *)
(* deadline passes; the process stops.                                        *)
(*                                                                            *)
(* The generator suspends at an await (it is then cancelled from inside its   *)
(* try block) or at a yield whose send is blocked by a slow reader (whatever  *)
(* is raised there is raised outside the generator, which is then dropped).   *)
EXTENDS Integers, Website

CONSTANTS
    Calls,        \* HTTP calls that carry this reservation's capability
    MaxAttempts,  \* 3 in the code: POSTs per terminal receipt
    None

ASSUME AttemptsAssumption == MaxAttempts \in Nat \ {0}

VARIABLES
    pc,        \* where each call is suspended, or what its browser was told
    changed,   \* did clean_deterministically change the text?
    result,    \* provider_result: none yet, empty, or a billable rewrite
    post,      \* the receipt a call is submitting and the POSTs it has left
    network,   \* POSTs of each call's receipts not yet handled by the website
    site,      \* the website's reservation
    sent,      \* history: the receipts each call ever posted
    expired    \* history: the provider deadline passed during this call

vars == <<pc, changed, result, post, network, site, sent, expired>>
streamVars == <<changed, result, expired>>
postVars == <<post, network, sent>>

AtYield == {"cleaning", "rephrasing", "sending"}
AtAwait == {"claiming", "provider", "charging", "refunding", "failing"}
Active == AtYield \cup AtAwait
Told == {"complete", "fallback", "refunded", "errored"}
Ended == Told \cup {"unclaimed", "aborted", "dropped", "reset"}

Post == [receipt : Receipts, left : 0 .. MaxAttempts - 1]

TypeOK ==
    /\ pc \in [Calls -> {"idle"} \cup Active \cup Ended]
    /\ changed \in [Calls -> BOOLEAN]
    /\ result \in [Calls -> {"none", "empty", "billable"}]
    /\ post \in [Calls -> Post \cup {None}]
    /\ network \in [Calls -> [Receipts -> Nat]]
    /\ site \in Reservations
    /\ sent \in [Calls -> SUBSET Receipts]
    /\ expired \in [Calls -> BOOLEAN]

Init ==
    /\ pc = [c \in Calls |-> "idle"]
    /\ changed = [c \in Calls |-> FALSE]
    /\ result = [c \in Calls |-> "none"]
    /\ post = [c \in Calls |-> None]
    /\ network = [c \in Calls |-> [r \in Receipts |-> 0]]
    /\ site = "pending"
    /\ sent = [c \in Calls |-> {}]
    /\ expired = [c \in Calls |-> FALSE]

----------------------------------------------------------------------------
(* ReceiptClient.submit *)

Goes(c, to) == pc' = [pc EXCEPT ![c] = to]

Posted(c, receipt) == [network EXCEPT ![c][receipt] = @ + 1]

(* Begin a submission with its first POST; `attempts` POSTs in all.           *)
Submit(c, receipt, attempts) ==
    /\ post' = [post EXCEPT ![c] = [receipt |-> receipt, left |-> attempts - 1]]
    /\ network' = Posted(c, receipt)
    /\ sent' = [sent EXCEPT ![c] = @ \cup {receipt}]

Done(c) == post' = [post EXCEPT ![c] = None] /\ UNCHANGED sent

(* What a call does with an acknowledgement, by where it awaits it. A receipt *)
(* posted by the cancellation handler is awaited by nobody.                   *)
AfterAck(c) ==
    [claiming |-> "cleaning",
     charging |-> "complete",
     refunding |-> IF changed[c] THEN "fallback" ELSE "refunded",
     failing |-> "errored",
     aborted |-> "aborted"][pc[c]]

(* ReceiptError. A failed settlement ends in the general failure handler,     *)
(* which reports `failed` whatever the receipt was.                           *)
AfterErrorIgnored(c) ==                                          \* mutant
    [claiming |-> "cleaning", charging |-> "complete", refunding |-> "fallback",
     failing |-> "errored", aborted |-> "aborted"][pc[c]]
AfterError(c) ==
    [claiming |-> "unclaimed", charging |-> "failing", refunding |-> "failing",
     failing |-> "errored", aborted |-> "aborted"][pc[c]]

ReceiptError(c, net) ==
    /\ Goes(c, AfterError(c))
    /\ IF AfterError(c) = "failing"
       THEN /\ post' = [post EXCEPT ![c] = [receipt |-> "failed", left |-> MaxAttempts - 1]]
            /\ network' = [net EXCEPT ![c]["failed"] = @ + 1]
            /\ sent' = [sent EXCEPT ![c] = @ \cup {"failed"}]
       ELSE network' = net /\ Done(c)

(* The website handles a POST. Its reply reaches the call if that call is     *)
(* still submitting this receipt, or is lost.                                 *)
WebsiteHandles(c, receipt) ==
    LET net == [network EXCEPT ![c][receipt] = @ - 1] IN
    /\ network[c][receipt] > 0
    /\ \E outcome \in Replies(site, receipt) :
        /\ site' = outcome.to
        /\ \/ UNCHANGED <<pc, post, sent>> /\ network' = net
           \/ /\ post[c] # None
              /\ post[c].receipt = receipt
              /\ IF outcome.reply = "ok"
                 THEN Goes(c, AfterAck(c)) /\ network' = net /\ Done(c)
                 ELSE ReceiptError(c, net)
    /\ UNCHANGED streamVars

(* A timeout, a transport error, a 5xx or an unreadable acknowledgement: POST *)
(* the same body again, or give up.                                           *)
PostFails(c) ==
    /\ post[c] # None
    /\ IF post[c].left > 0
       THEN /\ post' = [post EXCEPT ![c].left = @ - 1]
            /\ network' = Posted(c, post[c].receipt)
            /\ UNCHANGED <<pc, sent>>
       ELSE ReceiptError(c, network)
    /\ UNCHANGED <<streamVars, site>>

----------------------------------------------------------------------------
(* clean, clean_plain and _processing_stream *)

(* `started` is posted once, without a retry.                                 *)
Claim(c) ==
    /\ pc[c] = "idle"
    /\ Goes(c, "claiming")
    /\ Submit(c, "started", 1)
    /\ UNCHANGED <<streamVars, site>>

(* Between the two phase events, before the try block: an exception here ends *)
(* the stream and reports nothing.                                            *)
CleanDeterministically(c) ==
    /\ pc[c] = "cleaning"
    /\ \/ /\ Goes(c, "rephrasing")
          /\ \E b \in BOOLEAN : changed' = [changed EXCEPT ![c] = b]
       \/ Goes(c, "dropped") /\ UNCHANGED changed
    /\ UNCHANGED <<result, postVars, site, expired>>

(* The reader catches up: the generator runs on to the provider.              *)
Resume(c) ==
    /\ pc[c] \in {"rephrasing", "sending"}
    /\ Goes(c, "provider")
    /\ UNCHANGED <<streamVars, postVars, site>>

ProviderDelta(c) ==
    /\ pc[c] = "provider"
    /\ result[c] = "none"
    /\ Goes(c, "sending")
    /\ UNCHANGED <<streamVars, postVars, site>>

(* The provider's result; a billable one needs an explicit normal stop.       *)
ProviderResult(c) ==
    /\ pc[c] = "provider"
    /\ result[c] = "none"
    /\ \E r \in {"empty", "billable"} : result' = [result EXCEPT ![c] = r]
    /\ UNCHANGED <<pc, changed, postVars, site, expired>>

(* The loop over provider events ends and the request is settled.             *)
Settle(c, r) ==
    IF r = "billable"
    THEN Goes(c, "charging") /\ Submit(c, "succeeded", MaxAttempts)
    ELSE Goes(c, "refunding") /\ Submit(c, "failed", MaxAttempts)

ProviderEndsAny(c) ==                                            \* mutant
    /\ pc[c] = "provider"
    /\ result[c] # "none"
    /\ Settle(c, "billable")
    /\ UNCHANGED <<streamVars, site>>
ProviderEnds(c) ==
    /\ pc[c] = "provider"
    /\ result[c] # "none"
    /\ Settle(c, result[c])
    /\ UNCHANGED <<streamVars, site>>

(* except Exception: a provider error after output, or anything unexpected.   *)
ProviderRaises(c) ==
    /\ pc[c] = "provider"
    /\ Goes(c, "failing")
    /\ Submit(c, "failed", MaxAttempts)
    /\ UNCHANGED <<streamVars, site>>

(* The provider deadline. While the provider is awaited it yields an empty    *)
(* result, even after a billable one whose connection was still closing;      *)
(* while a delta is being sent it cancels the send, outside the generator.    *)
DeadlinePerRead(c) ==                                            \* mutant
    /\ pc[c] = "provider"
    /\ expired' = [expired EXCEPT ![c] = TRUE]
    /\ result' = [result EXCEPT ![c] = "empty"]
    /\ Settle(c, "empty")
    /\ UNCHANGED <<changed, site>>
DeadlineKeepsResult(c) ==                                        \* mutant
    /\ pc[c] = "provider"
    /\ expired' = [expired EXCEPT ![c] = TRUE]
    /\ result' = [result EXCEPT ![c] = IF @ = "none" THEN "empty" ELSE @]
    /\ Settle(c, result'[c])
    /\ UNCHANGED <<changed, site>>
Deadline(c) ==
    /\ expired' = [expired EXCEPT ![c] = TRUE]
    /\ \/ /\ pc[c] = "provider"
          /\ result' = [result EXCEPT ![c] = "empty"]
          /\ Settle(c, "empty")
       \/ /\ pc[c] = "sending"
          /\ Goes(c, "dropped")
          /\ UNCHANGED <<result, postVars>>
    /\ UNCHANGED <<changed, site>>

(* The browser disconnects while the generator awaits inside the try block:   *)
(* `failed` is posted by a task of its own and cancellation goes on at once.  *)
CancelSilently(c) ==                                             \* mutant
    /\ pc[c] \in {"provider", "charging", "refunding"}
    /\ Goes(c, "aborted")
    /\ post' = [post EXCEPT ![c] = None]
    /\ UNCHANGED <<streamVars, network, sent, site>>
Cancel(c) ==
    /\ pc[c] \in {"provider", "charging", "refunding"}
    /\ Goes(c, "aborted")
    /\ Submit(c, "failed", MaxAttempts)
    /\ UNCHANGED <<streamVars, site>>

(* ... at a yield, or inside the failure handler: nothing catches it.         *)
Drop(c) ==
    /\ pc[c] \in AtYield \cup {"failing"}
    /\ Goes(c, "dropped")
    /\ post' = [post EXCEPT ![c] = None]
    /\ UNCHANGED <<streamVars, network, sent, site>>

----------------------------------------------------------------------------
(* The process stops: every call and submission is gone, POSTs may arrive.    *)
Restart ==
    /\ pc' = [c \in Calls |-> IF pc[c] \in Active THEN "reset" ELSE pc[c]]
    /\ post' = [c \in Calls |-> None]
    /\ UNCHANGED <<streamVars, network, sent, site>>

(* External: the website returns the credits of a claimed reservation that    *)
(* nobody settles. Its ten minutes outlast every call (README.md:126-128).    *)
Reconcile ==
    /\ site = "claimed"
    /\ \A c \in Calls : pc[c] \notin Active
    /\ site' = "returned"
    /\ UNCHANGED <<pc, streamVars, postVars>>

Next ==
    \/ \E c \in Calls :
        \/ Claim(c) \/ CleanDeterministically(c) \/ Resume(c)
        \/ ProviderDelta(c) \/ ProviderResult(c) \/ ProviderEnds(c)
        \/ ProviderRaises(c) \/ Deadline(c) \/ Cancel(c) \/ Drop(c)
        \/ PostFails(c)
        \/ \E receipt \in Receipts : WebsiteHandles(c, receipt)
    \/ Restart
    \/ Reconcile

Spec == Init /\ [][Next]_vars

(* A POST is answered or times out; a blocked send drains or the connection   *)
(* is closed (the load balancer's request limit); the provider deadline       *)
(* passes; the event loop runs what is ready; the website reconciles.         *)
StepOrDrop(c) == CleanDeterministically(c) \/ Resume(c) \/ Drop(c)
Fairness ==
    /\ \A c \in Calls : WF_vars(PostFails(c)) /\ WF_vars(Deadline(c))
                        /\ WF_vars(StepOrDrop(c))
    /\ WF_vars(Reconcile)

FairSpec == Spec /\ Fairness

----------------------------------------------------------------------------
(* Properties *)

Working(c) == pc[c] \in (Active \ {"claiming"}) \cup Told \cup {"aborted", "dropped"}

(* "Atomically claim the database reservation before spending provider        *)
(* tokens" (app.py:737): of all calls with this capability at most one ever   *)
(* works on it, and only once the website has left `pending`, whatever        *)
(* happens to the `started` receipts and their replies.                       *)
ClaimIsExclusive ==
    \A c \in Calls : Working(c) =>
        site # "pending" /\ \A d \in Calls \ {c} : ~Working(d)

(* What the browser is told about its credits is what the website recorded:   *)
(* a complete rewrite is charged, "Your credits were returned" is a refund    *)
(* (app.py:264-303, 318-337), also when an acknowledgement was lost and the   *)
(* receipt posted again.                                                      *)
ToldIsSettled ==
    \A c \in Calls : /\ pc[c] = "complete" => site = "charged"
                     /\ pc[c] \in {"fallback", "refunded"} => site = "returned"

(* A reservation is only charged for a rewrite with an explicit normal stop,  *)
(* never for partial output, an error or an expired operation, in whatever    *)
(* order the receipts arrive.                                                 *)
ChargedNeedsRewrite ==
    site = "charged" =>
        \E c \in Calls : result[c] = "billable" /\ "succeeded" \in sent[c]

(* A stream that told its browser an outcome, or was cancelled at an await,   *)
(* has posted the matching terminal receipt, and an acknowledged success is   *)
(* never followed by a failure.                                               *)
EndedStreamsReport ==
    \A c \in Calls :
        /\ pc[c] \in {"fallback", "refunded", "errored", "aborted"} => "failed" \in sent[c]
        /\ pc[c] = "complete" => sent[c] = {"started", "succeeded"}

(* An operation that expired takes the refund path, whatever the provider had *)
(* already sent: no success is posted for it, and a failure is, unless its    *)
(* stream was dropped or the process stopped (provider.py:207-224).           *)
ExpiredNeverCharged ==
    \A c \in Calls : expired[c] =>
        /\ "succeeded" \notin sent[c]
        /\ pc[c] \in Ended \ {"dropped", "reset"} => "failed" \in sent[c]

(* Losses, retries, disconnections and restarts left out, this is one         *)
(* reservation claimed, worked on by the call that claimed it, settled once,  *)
(* and reported to the browser as it was settled, for good (app.py:227-386,   *)
(* 737-744).                                                                  *)
Holders == {c \in Calls : Working(c)}
Rewritten == \E c \in Calls : result[c] = "billable" /\ "succeeded" \in sent[c]
CreditsTold ==
    [c \in Calls |-> CASE pc[c] = "complete" -> "charged"
                      [] pc[c] \in {"fallback", "refunded"} -> "returned"
                      [] OTHER -> "nothing"]
Reservation == INSTANCE Settlement WITH
    holders <- Holders, done <- Rewritten, told <- CreditsTold

ImplementsSettlement == Reservation!SettlementSpec

(* Every call ends: the deadline bounds a provider that never stops sending,  *)
(* the attempts bound the receipts.                                           *)
CallsEnd == \A c \in Calls : pc[c] \in Active ~> pc[c] \in Ended

(* A claimed reservation is settled in the end, by a receipt or, when the     *)
(* stream was dropped or the process stopped, by reconciliation.              *)
ReservationSettles == site = "claimed" ~> site \in Settled

(* apps/confidential-server/README.md:129: "Expired provider operations still *)
(* follow the failed-rewrite refund path."                                    *)
DeadlineRefunds ==
    \A c \in Calls :
        expired[c] /\ pc[c] \in Ended \ {"reset"} => "failed" \in sent[c]
=============================================================================
