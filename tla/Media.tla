------------------------------- MODULE Media -------------------------------
(* The media endpoint after its key gate (Attestation): one media job at a    *)
(* time, refused rather than queued, on a native thread that cancellation     *)
(* does not stop, between the claim and the settlement of a reservation       *)
(* (clean_encrypted_media, run_media_job). Each call has a reservation.       *)
(*                                                                            *)
(* A submission is one step here: it is acknowledged, or it fails with the    *)
(* receipt handled by the website or not. Cleaning has its retries.           *)
EXTENDS Integers, FiniteSets, Website

CONSTANTS Calls, None

ASSUME NoneAssumption == None \notin Calls

VARIABLES
    pc,      \* where each call is suspended, or how it ended
    lock,    \* the call that holds media_processing_lock, or None
    thread,  \* the native thread of each call's job
    site     \* the website's reservation of each call

vars == <<pc, lock, thread, site>>

Holding == {"claiming", "working", "draining", "charging", "failing"}
Ended == {"refused", "busy", "unclaimed", "delivered", "broken", "errored",
          "cancelled", "reset"}

TypeOK ==
    /\ pc \in [Calls -> {"idle"} \cup Holding \cup Ended]
    /\ lock \in Calls \cup {None}
    /\ thread \in [Calls -> {"none", "running", "cleaned", "raised"}]
    /\ site \in [Calls -> Reservations]

Init ==
    /\ pc = [c \in Calls |-> "idle"]
    /\ lock = None
    /\ thread = [c \in Calls |-> "none"]
    /\ site = [c \in Calls |-> "pending"]

Goes(c, to) == pc' = [pc EXCEPT ![c] = to]

(* A submission that is acknowledged, and one that raises ReceiptError: the   *)
(* receipt or its reply is lost, or the website refuses it.                   *)
Acknowledged(c, receipt) ==
    \E o \in Replies(site[c], receipt) :
        o.reply = "ok" /\ site' = [site EXCEPT ![c] = o.to]
NotAcknowledged(c, receipt) ==
    \/ UNCHANGED site
    \/ \E o \in Replies(site[c], receipt) : site' = [site EXCEPT ![c] = o.to]

----------------------------------------------------------------------------
(* The measurements in the sealed header are not those of the capability.     *)
Mismatch(c) ==
    /\ pc[c] = "idle"
    /\ Goes(c, "refused")
    /\ UNCHANGED <<lock, thread, site>>

(* locked() and the acquire that follows do not suspend in between: the       *)
(* acquire never waits.                                                       *)
Admit(c) ==
    /\ pc[c] = "idle"
    /\ IF lock # None THEN Goes(c, "busy") /\ UNCHANGED lock
                      ELSE Goes(c, "claiming") /\ lock' = c
    /\ UNCHANGED <<thread, site>>

(* The claim is acknowledged: the job starts on a thread.                     *)
StartJob(c) ==
    /\ pc[c] = "claiming"
    /\ Acknowledged(c, "started")
    /\ Goes(c, "working")
    /\ thread' = [thread EXCEPT ![c] = "running"]
    /\ UNCHANGED lock

(* The finally clause of every path gives the lock back.                      *)
EndHolding(c, outcome) == Goes(c, outcome) /\ UNCHANGED lock      \* mutant
End(c, outcome) == Goes(c, outcome) /\ lock' = None

ClaimFails(c) ==
    /\ pc[c] = "claiming"
    /\ NotAcknowledged(c, "started")
    /\ End(c, "unclaimed")
    /\ UNCHANGED thread

(* clean_media returns or raises, on its thread.                              *)
ThreadEnds(c) ==
    /\ thread[c] = "running"
    /\ \E r \in {"cleaned", "raised"} : thread' = [thread EXCEPT ![c] = r]
    /\ UNCHANGED <<pc, lock, site>>

JobEscapes(c) ==                                                 \* mutant
    /\ pc[c] = "working"
    /\ thread[c] # "running"
    /\ Goes(c, IF thread[c] = "cleaned" THEN "charging" ELSE thread[c])
    /\ UNCHANGED <<lock, thread, site>>
JobReturns(c) ==
    /\ pc[c] = "working"
    /\ thread[c] # "running"
    /\ Goes(c, IF thread[c] = "cleaned" THEN "charging" ELSE "failing")
    /\ UNCHANGED <<lock, thread, site>>

(* The call is cancelled during the job: wait for the thread, which is not    *)
(* stopped, and then let the cancellation go on; no receipt is posted.        *)
CancelJobAtOnce(c) ==                                            \* mutant
    /\ pc[c] = "working"
    /\ End(c, "cancelled")
    /\ UNCHANGED <<thread, site>>
CancelJob(c) ==
    /\ pc[c] = "working"
    /\ Goes(c, "draining")
    /\ UNCHANGED <<lock, thread, site>>

Drained(c) ==
    /\ pc[c] = "draining"
    /\ thread[c] # "running"
    /\ End(c, "cancelled")
    /\ UNCHANGED <<thread, site>>

(* ... or while it submits a receipt, which may have arrived.                 *)
ReceiptOf ==
    [claiming |-> "started", charging |-> "succeeded", failing |-> "failed"]
CancelSubmit(c) ==
    /\ pc[c] \in DOMAIN ReceiptOf
    /\ NotAcknowledged(c, ReceiptOf[pc[c]])
    /\ End(c, "cancelled")
    /\ UNCHANGED thread

(* The success is acknowledged; the result is encoded and sealed, or its      *)
(* header is too large and the handler fails with nothing to deliver.         *)
DeliverUnsettled(c) ==                                           \* mutant
    /\ pc[c] = "charging"
    /\ Acknowledged(c, "succeeded") \/ NotAcknowledged(c, "succeeded")
    /\ \E outcome \in {"delivered", "broken"} : End(c, outcome)
    /\ UNCHANGED thread
Deliver(c) ==
    /\ pc[c] = "charging"
    /\ Acknowledged(c, "succeeded")
    /\ \E outcome \in {"delivered", "broken"} : End(c, outcome)
    /\ UNCHANGED thread

ChargeFails(c) ==
    /\ pc[c] = "charging"
    /\ NotAcknowledged(c, "succeeded")
    /\ Goes(c, "failing")
    /\ UNCHANGED <<lock, thread>>

(* `failed` is submitted; the browser is told that its credits were returned  *)
(* whether or not that is acknowledged.                                       *)
Fail(c) ==
    /\ pc[c] = "failing"
    /\ Acknowledged(c, "failed") \/ NotAcknowledged(c, "failed")
    /\ End(c, "errored")
    /\ UNCHANGED thread

(* The process stops, and its threads with it.                                *)
Restart ==
    /\ pc' = [c \in Calls |-> IF pc[c] \in Holding THEN "reset" ELSE pc[c]]
    /\ lock' = None
    /\ thread' = [c \in Calls |-> IF thread[c] = "running" THEN "raised" ELSE thread[c]]
    /\ UNCHANGED site

SubmitEnds(c) == StartJob(c) \/ ClaimFails(c) \/ Deliver(c) \/ ChargeFails(c) \/ Fail(c)
JobEnds(c) == JobReturns(c) \/ Drained(c)

Next ==
    \/ \E c \in Calls : \/ Mismatch(c) \/ Admit(c) \/ SubmitEnds(c) \/ ThreadEnds(c)
                        \/ JobEnds(c) \/ CancelJob(c) \/ CancelSubmit(c)
    \/ Restart

Spec == Init /\ [][Next]_vars

(* Submissions have timeouts, and the event loop runs what is ready. Nothing  *)
(* makes a native thread end: of the cleaners only audio_purify is given a    *)
(* timeout (media.py:218). Nothing makes a call arrive, be cancelled, or the  *)
(* process stop.                                                              *)
Fairness == \A c \in Calls : WF_vars(SubmitEnds(c)) /\ WF_vars(JobEnds(c))

FairSpec == Spec /\ Fairness

----------------------------------------------------------------------------
(* Properties *)

(* "Bound media work to one job" (app.py:407): whatever is cancelled while    *)
(* its thread runs on, two native jobs never run together.                    *)
OneThread == Cardinality({c \in Calls : thread[c] = "running"}) <= 1

(* A file is delivered only for a charged reservation, and a reservation is   *)
(* charged only for a job that returned a clean file after the claim.         *)
ChargedForCleaned ==
    \A c \in Calls : /\ pc[c] = "delivered" => site[c] = "charged"
                     /\ site[c] = "charged" => thread[c] = "cleaned"

(* Each call settles its reservation as the text stream does: charged only    *)
(* for work of the call that claimed it, and delivered only once charged      *)
(* (app.py:839-915). What a failed call is told is not claimed here.          *)
Worker(c) == pc[c] \in (Holding \ {"claiming"}) \cup {"delivered", "broken", "errored"}
Holders(c) == {d \in {c} : Worker(d)}
CreditsTold(c) == [d \in {c} |-> IF pc[d] = "delivered" THEN "charged" ELSE "nothing"]
Reservation(c) == INSTANCE Settlement WITH
    Calls <- {c}, site <- site[c], holders <- Holders(c), done <- thread[c] = "cleaned",
    told <- CreditsTold(c)

SettlementStep(c) == [Reservation(c)!SettlementNext]_(Reservation(c)!settlementVars)
ImplementsSettlement ==
    /\ \A c \in Calls : Reservation(c)!SettlementInit
    /\ [][\A c \in Calls : SettlementStep(c)]_vars

(* Only a native job that never ends keeps the single lock (app.py:407), and  *)
(* the endpoint busy, for good: whatever is cancelled, lost or refused before *)
(* or after the job, and however the job ends, the lock is given back.        *)
LockReleased ==
    \A c \in Calls : <>[](lock = c) => <>[](thread[c] = "running")

(* app.py:882, the answer to a failed job: "Reserved credits were returned."  *)
FailureRefunds == \A c \in Calls : pc[c] = "errored" => site[c] = "returned"
=============================================================================
