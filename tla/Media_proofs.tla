---------------------------- MODULE Media_proofs ----------------------------
(* For any number of calls, files and reports: one media job at a time, a     *)
(* charge only for a clean file, and only on the terms that were signed.      *)
EXTENDS MediaExchange, FiniteSetTheorems, TLAPS

(* The lock is held exactly while a call is between its admission and its     *)
(* end, and a thread runs only while its call waits for it.                   *)
LockInv ==
    /\ TypeOK
    /\ \A c \in Calls : pc[c] \in Holding <=> lock = c
    /\ \A c \in Calls : thread[c] = "running" => pc[c] \in {"working", "draining"}

(* A reservation is untouched before its claim is posted, and charged only    *)
(* once its job has returned a file.                                          *)
ChargeInv ==
    \A c \in Calls :
        /\ pc[c] = "idle" => site[c] = "pending"
        /\ pc[c] \in {"idle", "refused", "claiming"} => thread[c] = "none" /\ site[c] # "charged"
        /\ pc[c] = "charging" => thread[c] = "cleaned"
        /\ pc[c] = "delivered" => site[c] = "charged"
        /\ site[c] = "charged" => thread[c] = "cleaned"

MediaInv == LockInv /\ ChargeInv

----------------------------------------------------------------------------
(* What the website does with a receipt.                                      *)
LEMMA ReplyFacts ==
    ASSUME NEW r \in Receipts, NEW s \in Reservations, NEW o \in Replies(s, r)
    PROVE  /\ o.to \in Reservations
           /\ o.to = "charged" => s = "charged" \/ r = "succeeded"
           /\ o.reply = "ok" /\ r = "succeeded" => o.to = "charged"
  <1> USE DEF Receipts, Reservations
  <1>1. CASE r = "started" /\ s = "pending"
    BY <1>1, SMT DEF Replies
  <1>2. CASE r # "started" /\ s = "claimed"
    BY <1>2, SMT DEF Replies, SettledBy
  <1>3. CASE r # "started" /\ s = SettledBy(r)
    BY <1>3, SMT DEF Replies, SettledBy
  <1>4. CASE /\ ~(r = "started" /\ s = "pending")
             /\ ~(r # "started" /\ s = "claimed")
             /\ ~(r # "started" /\ s = SettledBy(r))
    BY <1>4, SMT DEF Replies
  <1> QED
    BY <1>1, <1>2, <1>3, <1>4

(* What a submission does to the reservations.                                *)
LEMMA SubmissionEffect ==
    ASSUME TypeOK, NEW c \in Calls, NEW r \in Receipts,
           Acknowledged(c, r) \/ NotAcknowledged(c, r)
    PROVE  /\ site' \in [Calls -> Reservations]
           /\ \A d \in Calls \ {c} : site'[d] = site[d]
           /\ site'[c] = "charged" => site[c] = "charged" \/ r = "succeeded"
           /\ Acknowledged(c, r) /\ r = "succeeded" => site'[c] = "charged"
  <1>1. CASE UNCHANGED site /\ ~Acknowledged(c, r)
    BY <1>1, Zenon DEF TypeOK
  <1>2. ASSUME NEW o \in Replies(site[c], r), site' = [site EXCEPT ![c] = o.to]
        PROVE  /\ site' \in [Calls -> Reservations]
               /\ \A d \in Calls \ {c} : site'[d] = site[d]
               /\ site'[c] = o.to
               /\ site'[c] = "charged" => site[c] = "charged" \/ r = "succeeded"
    <2>1. site[c] \in Reservations
      BY DEF TypeOK
    <2>2. o.to \in Reservations /\ (o.to = "charged" => site[c] = "charged" \/ r = "succeeded")
      BY <2>1, ReplyFacts
    <2> QED
      BY <1>2, <2>2, Zenon DEF TypeOK
  <1>3. ASSUME Acknowledged(c, r), r = "succeeded" PROVE site'[c] = "charged"
    <2>1. PICK o \in Replies(site[c], r) : o.reply = "ok" /\ site' = [site EXCEPT ![c] = o.to]
      BY <1>3 DEF Acknowledged
    <2>2. o.to = "charged"
      BY <1>3, <2>1, ReplyFacts DEF TypeOK
    <2> QED
      BY <2>1, <2>2, Zenon DEF TypeOK
  <1> QED
    BY <1>1, <1>2, <1>3, Zenon DEF Acknowledged, NotAcknowledged

----------------------------------------------------------------------------
(* A step of one call that holds the lock, or takes it.                       *)
LEMMA HolderStep ==
    ASSUME MediaInv, NEW c \in Calls, NEW to \in {"idle"} \cup Holding \cup Ended, Goes(c, to),
           pc[c] \in Holding,
           to \in Holding => lock' = lock,
           to \notin Holding => lock' = None,
           thread' \in [Calls -> {"none", "running", "cleaned", "raised"}],
           site' \in [Calls -> Reservations],
           \A d \in Calls \ {c} : thread'[d] = thread[d] /\ site'[d] = site[d],
           to \notin {"idle", "refused", "claiming"},
           thread'[c] = "running" => to \in {"working", "draining"},
           to = "charging" => thread'[c] = "cleaned",
           to = "delivered" => site'[c] = "charged",
           site'[c] = "charged" => thread'[c] = "cleaned"
    PROVE  MediaInv'
  <1>1. /\ pc' \in [Calls -> {"idle"} \cup Holding \cup Ended]
        /\ pc'[c] = to
        /\ \A d \in Calls \ {c} : pc'[d] = pc[d]
    BY Zenon DEF MediaInv, LockInv, TypeOK, Goes
  <1>2. lock = c /\ c # None
    BY NoneAssumption, Zenon DEF MediaInv, LockInv
  <1>3. lock' \in Calls \cup {None} /\ \A d \in Calls : pc'[d] \in Holding <=> lock' = d
    BY <1>1, <1>2, NoneAssumption, Zenon DEF MediaInv, LockInv
  <1>4. LockInv'
    BY <1>1, <1>3, Zenon DEF MediaInv, LockInv, TypeOK
  <1>5. ChargeInv'
    BY <1>1, Zenon DEF MediaInv, ChargeInv
  <1> QED
    BY <1>4, <1>5 DEF MediaInv

(* The submissions (app.py:842-894).                                          *)
LEMMA SubmitStep ==
    ASSUME MediaInv, NEW c \in Calls, SubmitEnds(c) \/ CancelSubmit(c) PROVE MediaInv'
  <1> USE DEF MediaInv
  <1>1. /\ "started" \in Receipts /\ "succeeded" \in Receipts /\ "failed" \in Receipts
        /\ {"claiming", "working", "charging", "failing"} \subseteq Holding
        /\ {"unclaimed", "delivered", "broken", "errored", "cancelled"} \subseteq Ended
        /\ "idle" \notin Holding /\ Ended \cap Holding = {}
    BY SMT DEF Receipts, Holding, Ended
  <1>2. thread \in [Calls -> {"none", "running", "cleaned", "raised"}]
        /\ (pc[c] = "claiming" => thread[c] = "none" /\ site[c] # "charged")
        /\ (thread[c] = "running" => pc[c] \in {"working", "draining"})
        /\ (pc[c] = "charging" => thread[c] = "cleaned")
        /\ (site[c] = "charged" => thread[c] = "cleaned")
    BY DEF LockInv, ChargeInv, TypeOK
  <1>3. ASSUME NEW outcome \in Ended, End(c, outcome) PROVE Goes(c, outcome) /\ lock' = None
    BY <1>3 DEF End
  <1>4. CASE StartJob(c)
    <2>1. /\ pc[c] = "claiming" /\ Acknowledged(c, "started") /\ Goes(c, "working")
          /\ thread' = [thread EXCEPT ![c] = "running"] /\ lock' = lock
      BY <1>4 DEF StartJob
    <2>2. /\ site' \in [Calls -> Reservations]
          /\ \A d \in Calls \ {c} : site'[d] = site[d]
          /\ site'[c] # "charged"
      BY <1>1, <1>2, <2>1, SubmissionEffect DEF LockInv
    <2>3. /\ thread' \in [Calls -> {"none", "running", "cleaned", "raised"}]
          /\ thread'[c] = "running"
          /\ \A d \in Calls \ {c} : thread'[d] = thread[d]
      BY <1>2, <2>1, Zenon
    <2> QED
      BY <1>1, <2>1, <2>2, <2>3, HolderStep
  <1>5. CASE ClaimFails(c)
    <2>1. /\ pc[c] = "claiming" /\ NotAcknowledged(c, "started") /\ End(c, "unclaimed")
          /\ thread' = thread
      BY <1>5 DEF ClaimFails
    <2>2. /\ site' \in [Calls -> Reservations]
          /\ \A d \in Calls \ {c} : site'[d] = site[d]
          /\ site'[c] # "charged"
      BY <1>1, <1>2, <2>1, SubmissionEffect DEF LockInv
    <2> QED
      BY <1>1, <1>2, <1>3, <2>1, <2>2, HolderStep
  <1>6. CASE Deliver(c)
    <2>1. /\ pc[c] = "charging" /\ Acknowledged(c, "succeeded") /\ thread' = thread
      BY <1>6 DEF Deliver
    <2>2. PICK outcome \in {"delivered", "broken"} : End(c, outcome)
      BY <1>6 DEF Deliver
    <2>3. /\ site' \in [Calls -> Reservations]
          /\ \A d \in Calls \ {c} : site'[d] = site[d]
          /\ site'[c] = "charged"
      BY <1>1, <2>1, SubmissionEffect DEF LockInv
    <2> QED
      BY <1>1, <1>2, <1>3, <2>1, <2>2, <2>3, HolderStep
  <1>7. CASE ChargeFails(c)
    <2>1. /\ pc[c] = "charging" /\ NotAcknowledged(c, "succeeded") /\ Goes(c, "failing")
          /\ thread' = thread /\ lock' = lock
      BY <1>7 DEF ChargeFails
    <2>2. site' \in [Calls -> Reservations] /\ \A d \in Calls \ {c} : site'[d] = site[d]
      BY <1>1, <2>1, SubmissionEffect DEF LockInv
    <2> QED
      BY <1>1, <1>2, <2>1, <2>2, HolderStep
  <1>8. CASE Fail(c)
    <2>1. /\ pc[c] = "failing" /\ End(c, "errored") /\ thread' = thread
          /\ Acknowledged(c, "failed") \/ NotAcknowledged(c, "failed")
      BY <1>8 DEF Fail
    <2>2. /\ site' \in [Calls -> Reservations]
          /\ \A d \in Calls \ {c} : site'[d] = site[d]
          /\ site'[c] = "charged" => site[c] = "charged"
      BY <1>1, <2>1, SubmissionEffect DEF LockInv
    <2> QED
      BY <1>1, <1>2, <1>3, <2>1, <2>2, HolderStep
  <1>9. CASE CancelSubmit(c)
    <2>1. /\ NotAcknowledged(c, ReceiptOf[pc[c]]) /\ End(c, "cancelled") /\ thread' = thread
          /\ pc[c] \in {"claiming", "charging", "failing"}
          /\ ReceiptOf[pc[c]] \in Receipts
          /\ pc[c] # "charging" => ReceiptOf[pc[c]] # "succeeded"
      BY <1>1, <1>9, SMT DEF CancelSubmit, ReceiptOf
    <2>2. /\ site' \in [Calls -> Reservations]
          /\ \A d \in Calls \ {c} : site'[d] = site[d]
          /\ site'[c] = "charged" => site[c] = "charged" \/ pc[c] = "charging"
      BY <1>1, <2>1, SubmissionEffect DEF LockInv
    <2> QED
      BY <1>1, <1>2, <1>3, <2>1, <2>2, HolderStep
  <1> QED
    BY <1>4, <1>5, <1>6, <1>7, <1>8, <1>9 DEF SubmitEnds

(* The job and its cancellation (app.py:404-427).                             *)
LEMMA JobStep ==
    ASSUME MediaInv, NEW c \in Calls, JobEnds(c) \/ CancelJob(c) PROVE MediaInv'
  <1> USE DEF MediaInv
  <1>1. /\ {"working", "draining", "charging", "failing"} \subseteq Holding
        /\ "cancelled" \in Ended /\ Ended \cap Holding = {}
    BY SMT DEF Holding, Ended
  <1>2. /\ thread \in [Calls -> {"none", "running", "cleaned", "raised"}]
        /\ site \in [Calls -> Reservations]
        /\ site[c] = "charged" => thread[c] = "cleaned"
    BY DEF LockInv, ChargeInv, TypeOK
  <1>3. CASE JobReturns(c)
    <2>1. /\ pc[c] = "working" /\ thread[c] # "running"
          /\ thread' = thread /\ lock' = lock /\ site' = site
      BY <1>3 DEF JobReturns
    <2>2. CASE thread[c] = "cleaned" /\ Goes(c, "charging")
      BY <1>1, <1>2, <2>1, <2>2, HolderStep
    <2>3. CASE Goes(c, "failing")
      BY <1>1, <1>2, <2>1, <2>3, HolderStep
    <2> QED
      BY <1>3, <2>2, <2>3 DEF JobReturns
  <1>4. CASE Drained(c)
    <2>1. /\ pc[c] = "draining" /\ thread[c] # "running" /\ Goes(c, "cancelled")
          /\ thread' = thread /\ lock' = None /\ site' = site
      BY <1>4 DEF Drained, End
    <2> QED
      BY <1>1, <1>2, <2>1, HolderStep
  <1>5. CASE CancelJob(c)
    <2>1. /\ pc[c] = "working" /\ Goes(c, "draining")
          /\ thread' = thread /\ lock' = lock /\ site' = site
      BY <1>5 DEF CancelJob
    <2> QED
      BY <1>1, <1>2, <2>1, HolderStep
  <1> QED
    BY <1>3, <1>4, <1>5 DEF JobEnds

(* The thread ends by itself; nobody else is concerned.                       *)
LEMMA ThreadStep == ASSUME MediaInv, NEW c \in Calls, ThreadEnds(c) PROVE MediaInv'
  <1>1. /\ thread[c] = "running" /\ pc' = pc /\ lock' = lock /\ site' = site
        /\ \E r \in {"cleaned", "raised"} : thread' = [thread EXCEPT ![c] = r]
    BY DEF ThreadEnds
  <1>2. /\ thread' \in [Calls -> {"none", "running", "cleaned", "raised"}]
        /\ thread'[c] \in {"cleaned", "raised"}
        /\ \A d \in Calls \ {c} : thread'[d] = thread[d]
    BY <1>1, Zenon DEF MediaInv, LockInv, TypeOK
  <1>3. pc[c] \in {"working", "draining"} /\ site[c] # "charged"
    BY <1>1, SMT DEF MediaInv, LockInv, ChargeInv
  <1>4. LockInv'
    BY <1>1, <1>2, SMT DEF MediaInv, LockInv, TypeOK
  <1>5. ChargeInv'
    BY <1>1, <1>2, <1>3, SMT DEF MediaInv, ChargeInv
  <1> QED
    BY <1>4, <1>5 DEF MediaInv

(* A call is refused before the lock, or finds it taken, or takes it.         *)
LEMMA AdmissionStep ==
    ASSUME MediaInv, NEW c \in Calls, Mismatch(c) \/ Admit(c) PROVE MediaInv'
  <1> USE DEF MediaInv
  <1>1. PICK to \in {"refused", "busy", "claiming"} :
           /\ Goes(c, to)
           /\ IF to = "claiming" THEN lock = None /\ lock' = c ELSE lock' = lock
    BY Zenon DEF Mismatch, Admit
  <1>2. /\ pc[c] = "idle" /\ thread' = thread /\ site' = site
        /\ thread[c] = "none" /\ site[c] = "pending"
    BY DEF Mismatch, Admit, ChargeInv
  <1>3. to \in Holding \cup Ended /\ (to \in Holding <=> to = "claiming") /\ "idle" \notin Holding
    BY SMT DEF Holding, Ended
  <1>4. /\ pc' \in [Calls -> {"idle"} \cup Holding \cup Ended]
        /\ pc'[c] = to
        /\ \A d \in Calls \ {c} : pc'[d] = pc[d]
    BY <1>1, <1>3, Zenon DEF LockInv, TypeOK, Goes
  <1>5. lock' \in Calls \cup {None} /\ \A d \in Calls : pc'[d] \in Holding <=> lock' = d
    BY <1>1, <1>2, <1>3, <1>4, NoneAssumption, Zenon DEF LockInv, TypeOK
  <1>6. LockInv'
    BY <1>2, <1>4, <1>5, SMT DEF LockInv, TypeOK
  <1>7. ChargeInv'
    BY <1>2, <1>4, SMT DEF ChargeInv
  <1> QED
    BY <1>6, <1>7

LEMMA RestartStep == ASSUME MediaInv, Restart PROVE MediaInv'
  <1> USE DEF MediaInv
  <1>1. /\ pc' = [c \in Calls |-> IF pc[c] \in Holding THEN "reset" ELSE pc[c]]
        /\ lock' = None /\ site' = site
        /\ thread' = [c \in Calls |-> IF thread[c] = "running" THEN "raised" ELSE thread[c]]
    BY DEF Restart
  <1>2. "reset" \in Ended \ Holding
    BY SMT DEF Holding, Ended
  <1>3. \A c \in Calls : /\ pc'[c] = (IF pc[c] \in Holding THEN "reset" ELSE pc[c])
                         /\ thread'[c] = (IF thread[c] = "running" THEN "raised" ELSE thread[c])
    BY <1>1
  <1>4. \A c \in Calls : pc'[c] \notin Holding /\ lock' # c
    BY <1>1, <1>2, <1>3, NoneAssumption, Zenon
  <1>5. TypeOK'
    BY <1>1, <1>2, Zenon DEF LockInv, TypeOK
  <1>6. LockInv'
    BY <1>3, <1>4, <1>5, SMT DEF LockInv
  <1>7. ChargeInv'
    BY <1>1, <1>3, SMT DEF ChargeInv, Holding
  <1> QED
    BY <1>6, <1>7

LEMMA MediaStart == Init => MediaInv
  <1> SUFFICES ASSUME Init PROVE MediaInv
    OBVIOUS
  <1>1. TypeOK
    BY SMT DEF Init, TypeOK, Reservations
  <1>2. \A c \in Calls : pc[c] \notin Holding /\ lock # c
    BY NoneAssumption, SMT DEF Init, Holding
  <1>3. \A c \in Calls : pc[c] = "idle" /\ thread[c] = "none" /\ site[c] = "pending"
    BY SMT DEF Init
  <1> QED
    BY <1>1, <1>2, <1>3, SMT DEF MediaInv, LockInv, ChargeInv

LEMMA MediaStep == ASSUME MediaInv, [Next]_vars PROVE MediaInv'
  <1>1. CASE UNCHANGED vars
    BY <1>1, SMT DEF vars, MediaInv, LockInv, ChargeInv, TypeOK
  <1> QED
    BY <1>1, AdmissionStep, SubmitStep, ThreadStep, JobStep, RestartStep DEF Next

----------------------------------------------------------------------------
(* The terms *)

(* A call is past its first check only with the request its capability was    *)
(* signed for.                                                                *)
TermsInv ==
    /\ file \in [Calls -> Files]
    /\ capability \in [Calls -> Capabilities]
    /\ DOMAIN page = Calls
    /\ \A c \in Calls : pc[c] \notin {"idle", "refused"} => Authorized(file[c], capability[c])
    /\ \A c \in Calls : page[c] = "shown" => pc[c] = "delivered"

ExchangeInv == MediaInv /\ TermsInv

LEMMA ExchangeIsMediaStep == [ExchangeNext]_<<vars, data>> => [Next]_vars
  BY Zenon DEF ExchangeNext, OpenRequest, CleanMedia, EncodeResult, Receive, Next, SubmitEnds

(* What a call carries never changes the control: the exchange, with its      *)
(* fairness, implements the media endpoint without data (app.py:797-890).     *)
THEOREM ExchangeImplementsMedia == ExchangeFairSpec => FairSpec
<1>1. ExchangeInit => Init
  BY DEF ExchangeInit
<1> QED
  BY <1>1, ExchangeIsMediaStep, PTL
     DEF ExchangeFairSpec, ExchangeSpec, FairSpec, Spec, Fairness

(* A call that holds the lock is at one of the places its steps start from.   *)
LEMMA HolderMoves ==
    ASSUME NEW d \in Calls, SubmitEnds(d) \/ JobEnds(d) \/ CancelJob(d) \/ CancelSubmit(d)
    PROVE  pc[d] \in Holding /\ \E to : Goes(d, to)
  <1>1. pc[d] \in {"claiming", "working", "draining", "charging", "failing"}
    BY SMT DEF SubmitEnds, StartJob, ClaimFails, Deliver, ChargeFails, Fail, JobEnds,
               JobReturns, Drained, CancelJob, CancelSubmit, ReceiptOf
  <1>2. \E to : Goes(d, to)
    BY Zenon DEF SubmitEnds, StartJob, ClaimFails, Deliver, ChargeFails, Fail, JobEnds,
                 JobReturns, Drained, CancelJob, CancelSubmit, End
  <1> QED
    BY <1>1, <1>2, Zenon DEF Holding

(* A delivered result stays delivered.                                        *)
LEMMA DeliveredStays ==
    ASSUME MediaInv, [Next]_vars, NEW c \in Calls, pc[c] = "delivered"
    PROVE  pc'[c] = "delivered"
  <1> USE DEF MediaInv, LockInv, TypeOK
  <1>1. "delivered" \notin Holding
    BY SMT DEF Holding
  <1>2. ASSUME NEW d \in Calls, NEW to, Goes(d, to), d # c PROVE pc'[c] = "delivered"
    BY <1>2, Zenon DEF Goes
  <1>3. ASSUME NEW d \in Calls, SubmitEnds(d) \/ JobEnds(d) \/ CancelJob(d) \/ CancelSubmit(d)
        PROVE  pc'[c] = "delivered"
    BY <1>1, <1>2, <1>3, HolderMoves
  <1>4. ASSUME NEW d \in Calls, Mismatch(d) \/ Admit(d) PROVE pc'[c] = "delivered"
    <2>1. pc[d] = "idle" /\ \E to : Goes(d, to)
      BY <1>4, Zenon DEF Mismatch, Admit
    <2> QED
      BY <1>2, <2>1
  <1>5. CASE Restart
    BY <1>1, <1>5, Zenon DEF Restart
  <1>6. ASSUME pc' = pc PROVE pc'[c] = "delivered"
    BY <1>6
  <1>7. ASSUME NEW d \in Calls, ThreadEnds(d) PROVE pc'[c] = "delivered"
    BY <1>6, <1>7 DEF ThreadEnds
  <1> QED
    BY <1>3, <1>4, <1>5, <1>6, <1>7, Zenon DEF Next, vars

(* Only the check of the request lets a call go on.                           *)
LEMMA CallsAdmitted ==
    ASSUME MediaInv, [ExchangeNext]_<<vars, data>>, NEW c \in Calls,
           pc[c] \in {"idle", "refused"}, pc'[c] \notin {"idle", "refused"}
    PROVE  Authorized(file[c], capability[c])
  <1> USE DEF MediaInv, LockInv, TypeOK
  <1>1. "idle" \notin Holding /\ "refused" \notin Holding /\ pc' # pc
    BY SMT DEF Holding
  <1>2. ASSUME NEW d \in Calls, NEW to, Goes(d, to), pc[d] \in Holding PROVE FALSE
    BY <1>1, <1>2, Zenon DEF Goes
  <1>3. ASSUME NEW d \in Calls, SubmitEnds(d) \/ JobEnds(d) \/ CancelJob(d) \/ CancelSubmit(d)
        PROVE  FALSE
    BY <1>2, <1>3, HolderMoves
  <1>4. CASE Restart
    <2>1. pc'[c] = pc[c]
      BY <1>1, <1>4, Zenon DEF Restart
    <2> QED
      BY <2>1
  <1>5. CASE \E d \in Calls : OpenRequest(d)
    <2>1. PICK d \in Calls : OpenRequest(d)
      BY <1>5
    <2>2. CASE d = c
      <3>1. CASE Authorized(file[c], capability[c])
        BY <3>1
      <3>2. CASE Mismatch(c)
        <4>1. pc'[c] = "refused"
          BY <3>2, Zenon DEF Mismatch, Goes
        <4> QED
          BY <4>1
      <3> QED
        BY <2>1, <2>2, <3>1, <3>2 DEF OpenRequest
    <2>3. CASE d # c
      <3>1. \E to : Goes(d, to)
        BY <2>1, Zenon DEF OpenRequest, Admit, Mismatch
      <3>2. pc'[c] = pc[c]
        BY <2>3, <3>1, Zenon DEF Goes
      <3> QED
        BY <3>2
    <2> QED
      BY <2>2, <2>3
  <1>6. ~\E d \in Calls : CleanMedia(d)
    BY <1>1, Zenon DEF CleanMedia, ThreadEnds
  <1>7. ~\E d \in Calls : Receive(d)
    BY <1>1 DEF Receive, vars
  <1>8. ~\E d \in Calls : EncodeResult(d)
    BY <1>3, Zenon DEF EncodeResult, SubmitEnds
  <1>9. ~UNCHANGED <<vars, data>>
    BY <1>1 DEF vars
  <1> QED
    BY <1>3, <1>4, <1>5, <1>6, <1>7, <1>8, <1>9, Zenon DEF ExchangeNext, SubmitEnds

LEMMA ExchangeStart == ExchangeInit => ExchangeInv
  <1> SUFFICES ASSUME ExchangeInit PROVE ExchangeInv
    OBVIOUS
  <1>1. MediaInv
    BY MediaStart DEF ExchangeInit
  <1>2. TermsInv
    BY SMT DEF ExchangeInit, Init, TermsInv
  <1> QED
    BY <1>1, <1>2 DEF ExchangeInv

LEMMA ExchangeStep ==
    ASSUME ExchangeInv, [ExchangeNext]_<<vars, data>> PROVE ExchangeInv'
  <1> USE DEF ExchangeInv
  <1>1. MediaInv'
    BY ExchangeIsMediaStep, MediaStep
  <1>2. file' = file /\ capability' = capability
    BY Zenon DEF ExchangeNext, OpenRequest, CleanMedia, EncodeResult, Receive, data
  <1>3. ASSUME NEW c \in Calls, pc'[c] \notin {"idle", "refused"}
        PROVE  Authorized(file'[c], capability'[c])
    BY <1>2, <1>3, CallsAdmitted, Zenon DEF TermsInv
  <1>4. ASSUME NEW c \in Calls, page'[c] = "shown" PROVE pc'[c] = "delivered"
    <2>1. CASE page'[c] = page[c]
      BY <1>4, <2>1, ExchangeIsMediaStep, DeliveredStays, Zenon DEF TermsInv
    <2>2. CASE page'[c] # page[c]
      <3>1. PICK d \in Calls : Receive(d)
        BY <2>2, Zenon DEF ExchangeNext, OpenRequest, CleanMedia, EncodeResult, data
      <3>2. c = d
        BY <2>2, <3>1 DEF Receive, TermsInv
      <3>3. pc[c] = "delivered"
        BY <3>1, <3>2, Zenon DEF Receive
      <3> QED
        BY <3>3, ExchangeIsMediaStep, DeliveredStays
    <2> QED
      BY <2>1, <2>2
  <1>5. DOMAIN page' = Calls
    <2>1. CASE page' = page
      BY <2>1 DEF TermsInv
    <2>2. CASE \E d \in Calls : Receive(d)
      BY <2>2 DEF Receive, TermsInv
    <2> QED
      BY <2>1, <2>2, Zenon DEF ExchangeNext, OpenRequest, CleanMedia, EncodeResult, data
  <1> QED
    BY <1>1, <1>2, <1>3, <1>4, <1>5, Zenon DEF TermsInv

----------------------------------------------------------------------------
(* The theorems *)

(* However calls are cancelled while their threads run on, two native jobs    *)
(* never run together (app.py:404-427).                                       *)
THEOREM OneThreadRuns == ExchangeSpec => []OneThread
  <1>1. ExchangeInv => OneThread
    <2> SUFFICES ASSUME ExchangeInv PROVE OneThread
      OBVIOUS
    <2> DEFINE running == {c \in Calls : thread[c] = "running"}
    <2>1. \A c \in running : c = lock
      BY SMT DEF ExchangeInv, MediaInv, LockInv, Holding
    <2>2. running \subseteq {lock}
      BY <2>1
    <2>3. IsFiniteSet({lock}) /\ Cardinality({lock}) = 1
      BY FS_Singleton
    <2>4. Cardinality(running) <= Cardinality({lock})
      BY <2>2, <2>3, FS_Subset
    <2> QED
      BY <2>3, <2>4 DEF OneThread
  <1> QED
    BY <1>1, ExchangeStart, ExchangeStep, PTL DEF ExchangeSpec

(* A file is delivered only for a charged reservation, and that is charged    *)
(* only for a job that returned a clean file (app.py:842-872).                *)
THEOREM ChargedIsCleaned == ExchangeSpec => []ChargedForCleaned
  <1>1. ExchangeInv => ChargedForCleaned
    BY Zenon DEF ExchangeInv, MediaInv, ChargeInv, ChargedForCleaned
  <1> QED
    BY <1>1, ExchangeStart, ExchangeStep, PTL DEF ExchangeSpec

----------------------------------------------------------------------------
(* The results *)

(* A thread that cleaned its file has left a report, which nothing replaces;  *)
(* what became of the result follows from the report.                         *)
Fits(c, r) == r \in Reports /\ r.format = FormatByExtension[Lower(file[c].extension)]
Sealed ==
    [creditsUsed : Value \ {"null", "other"}, remainingCredits : Value, guestCleansLeft : Value]
Refused(c) == ~Accepts(file[c], capability[c], report[c], balances[c])
ResultsInv ==
    /\ report \in [Calls -> Reports \cup {None}]
    /\ balances \in [Calls -> Balances \cup {None}]
    /\ \A c \in Calls :
          /\ thread[c] = "cleaned" => Fits(c, report[c])
          /\ pc[c] \in {"delivered", "broken"} => thread[c] = "cleaned"
          /\ pc[c] = "delivered" => Encodes(file[c], report[c]) /\ balances[c] \in Sealed
          /\ pc[c] = "broken" => ~Encodes(file[c], report[c])
          /\ page[c] = "rejected" => pc[c] = "delivered" /\ Refused(c)

(* Only a running thread ends, and it ends with a report if it cleaned.       *)
LEMMA ReportFixed ==
    ASSUME MediaInv, ResultsInv, [ExchangeNext]_<<vars, data>>
    PROVE  /\ report' \in [Calls -> Reports \cup {None}]
           /\ \A c \in Calls : thread'[c] = "cleaned" => Fits(c, report'[c])
           /\ \A c \in Calls : thread[c] = "cleaned" =>
                 thread'[c] = "cleaned" /\ report'[c] = report[c]
  <1> DEFINE Fixed ==
                /\ report' \in [Calls -> Reports \cup {None}]
                /\ \A c \in Calls : thread'[c] = "cleaned" => Fits(c, report'[c])
                /\ \A c \in Calls : thread[c] = "cleaned" =>
                      thread'[c] = "cleaned" /\ report'[c] = report[c]
  <1>0. /\ thread \in [Calls -> {"none", "running", "cleaned", "raised"}]
        /\ \A c \in Calls : pc[c] = "claiming" => thread[c] = "none"
    BY SMT DEF MediaInv, LockInv, TypeOK, ChargeInv
  <1>1. ASSUME thread' = thread, report' = report PROVE Fixed
    BY <1>1, Zenon DEF ResultsInv
  <1>2. ASSUME NEW d \in Calls, CleanMedia(d) PROVE Fixed
    <2>1. thread[d] = "running" /\ \A c \in Calls \ {d} : thread'[c] = thread[c]
      BY <1>0, <1>2, Zenon DEF CleanMedia, ThreadEnds
    <2>2. \/ /\ thread'[d] = "cleaned"
             /\ \E r \in Reports : Fits(d, r) /\ report' = [report EXCEPT ![d] = r]
          \/ thread'[d] # "cleaned" /\ report' = report
      BY <1>2, Zenon DEF CleanMedia, Fits
    <2>3. thread[d] # "cleaned"
      BY <2>1
    <2>4. CASE thread'[d] # "cleaned" /\ report' = report
      BY <2>1, <2>3, <2>4, Zenon DEF ResultsInv
    <2>5. ASSUME NEW r \in Reports, Fits(d, r), report' = [report EXCEPT ![d] = r]
          PROVE  Fixed
      <3>1. /\ report' \in [Calls -> Reports \cup {None}]
            /\ report'[d] = r
            /\ \A c \in Calls \ {d} : report'[c] = report[c]
        BY <2>5, Zenon DEF ResultsInv
      <3> QED
        BY <2>1, <2>3, <2>5, <3>1, Zenon DEF ResultsInv
    <2> QED
      BY <2>2, <2>4, <2>5
  <1>3. ASSUME NEW d \in Calls, StartJob(d), UNCHANGED data PROVE Fixed
    <2>1. /\ thread[d] = "none" /\ thread'[d] = "running"
          /\ \A c \in Calls \ {d} : thread'[c] = thread[c]
      BY <1>0, <1>3, Zenon DEF StartJob
    <2>2. report' = report
      BY <1>3 DEF data
    <2> QED
      BY <2>1, <2>2, SMT DEF ResultsInv
  <1>4. ASSUME Restart, UNCHANGED data PROVE Fixed
    <2>1. \A c \in Calls : thread'[c] = "cleaned" <=> thread[c] = "cleaned"
      BY <1>0, <1>4, SMT DEF Restart
    <2>2. report' = report
      BY <1>4 DEF data
    <2> QED
      BY <2>1, <2>2, Zenon DEF ResultsInv
  <1>5. ASSUME NEW d \in Calls, OpenRequest(d) \/ EncodeResult(d) \/ Receive(d) PROVE Fixed
    BY <1>1, <1>5, Zenon DEF OpenRequest, Mismatch, Admit, EncodeResult, Deliver, Receive,
                             vars, data
  <1>6. ASSUME NEW d \in Calls, UNCHANGED data,
               \/ ClaimFails(d) \/ ChargeFails(d) \/ Fail(d)
               \/ JobEnds(d) \/ CancelJob(d) \/ CancelSubmit(d)
        PROVE  Fixed
    BY <1>1, <1>6, Zenon DEF ClaimFails, ChargeFails, Fail, JobEnds, JobReturns, Drained,
                             CancelJob, CancelSubmit, data
  <1>7. ASSUME UNCHANGED <<vars, data>> PROVE Fixed
    BY <1>1, <1>7 DEF vars, data
  <1> HIDE DEF Fixed
  <1>8. Fixed
    BY <1>2, <1>3, <1>4, <1>5, <1>6, <1>7, Zenon DEF ExchangeNext
  <1> QED
    BY <1>8 DEF Fixed

(* Only the encoding ends a call as delivered or broken.                      *)
LEMMA OnlyEncoded ==
    ASSUME MediaInv, [ExchangeNext]_<<vars, data>>, NEW c \in Calls,
           pc'[c] \in {"delivered", "broken"}
    PROVE  pc'[c] = pc[c] \/ EncodeResult(c)
  <1> SUFFICES ASSUME pc'[c] # pc[c] PROVE EncodeResult(c)
    OBVIOUS
  <1>0. pc \in [Calls -> {"idle"} \cup Holding \cup Ended]
    BY DEF MediaInv, LockInv, TypeOK
  <1>1. ASSUME NEW d \in Calls, NEW to, Goes(d, to), to \notin {"delivered", "broken"} PROVE FALSE
    BY <1>0, <1>1, Zenon DEF Goes
  <1>2. ASSUME NEW d \in Calls, OpenRequest(d) PROVE FALSE
    <2>1. \E to \in {"refused", "busy", "claiming"} : Goes(d, to)
      BY <1>2, SMT DEF OpenRequest, Mismatch, Admit
    <2> QED
      BY <1>1, <2>1
  <1>3. ASSUME NEW d \in Calls, \/ StartJob(d) \/ ClaimFails(d) \/ ChargeFails(d) \/ Fail(d)
                                \/ JobEnds(d) \/ CancelJob(d) \/ CancelSubmit(d)
        PROVE  FALSE
    <2>1. \E to \in {"working", "unclaimed", "failing", "errored", "charging", "cancelled",
                     "draining"} : Goes(d, to)
      BY <1>3, SMT DEF StartJob, ClaimFails, ChargeFails, Fail, JobEnds, JobReturns, Drained,
                       CancelJob, CancelSubmit, End
    <2> QED
      BY <1>1, <2>1
  <1>4. ASSUME Restart PROVE FALSE
    BY <1>0, <1>4, SMT DEF Restart
  <1>5. ASSUME pc' = pc PROVE FALSE
    BY <1>5
  <1>6. ASSUME NEW d \in Calls, CleanMedia(d) \/ Receive(d) PROVE FALSE
    BY <1>5, <1>6, Zenon DEF CleanMedia, ThreadEnds, Receive, vars
  <1>7. ASSUME NEW d \in Calls, EncodeResult(d), d # c PROVE FALSE
    <2>1. \E to : Goes(d, to)
      BY <1>7, Zenon DEF EncodeResult, Deliver, End
    <2> QED
      BY <1>0, <1>7, <2>1, Zenon DEF Goes
  <1> QED
    BY <1>2, <1>3, <1>4, <1>5, <1>6, <1>7, Zenon DEF ExchangeNext, vars

(* The balances of a delivered result are those of a reply that was read, and *)
(* nothing changes them.                                                      *)
LEMMA BalancesFixed ==
    ASSUME MediaInv, ResultsInv, [ExchangeNext]_<<vars, data>>
    PROVE  /\ balances' \in [Calls -> Balances \cup {None}]
           /\ \A c \in Calls : EncodeResult(c) => balances'[c] \in Sealed
           /\ \A c \in Calls : pc[c] = "delivered" => balances'[c] = balances[c]
  <1>1. CASE balances' = balances /\ ~\E c \in Calls : EncodeResult(c)
    BY <1>1, Zenon DEF ResultsInv
  <1>2. ASSUME NEW d \in Calls, EncodeResult(d)
        PROVE  /\ balances' \in [Calls -> Balances \cup {None}]
               /\ balances'[d] \in Sealed
               /\ \A c \in Calls : pc[c] = "delivered" => balances'[c] = balances[c]
    <2>1. PICK reply \in Payloads : /\ Readable(reply)
                                   /\ balances' = [balances EXCEPT ![d] = ReceiptResult(reply)]
      BY <1>2, Zenon DEF EncodeResult
    <2>2. reply \in Balances
      BY PayloadsAssumption
    <2>3. ReceiptResult(reply) \in Sealed /\ ReceiptResult(reply) \in Balances
      BY <2>1, <2>2, SMT DEF ReceiptResult, Readable, Balances, Sealed, Value
    <2>4. pc[d] # "delivered"
      BY <1>2, SMT DEF EncodeResult, Deliver
    <2> QED
      BY <2>1, <2>3, <2>4, SMT DEF ResultsInv
  <1>3. balances' = balances \/ \E c \in Calls : EncodeResult(c)
    BY Zenon DEF ExchangeNext, OpenRequest, CleanMedia, Receive, data
  <1> QED
    BY <1>1, <1>2, <1>3

LEMMA ResultsStep ==
    ASSUME MediaInv, TermsInv, ResultsInv, [ExchangeNext]_<<vars, data>> PROVE ResultsInv'
  <1>0. file' = file /\ capability' = capability /\ DOMAIN page = Calls
    BY Zenon DEF ExchangeNext, OpenRequest, CleanMedia, EncodeResult, Receive, data, TermsInv
  <1>1. /\ report' \in [Calls -> Reports \cup {None}]
        /\ \A c \in Calls : thread'[c] = "cleaned" => Fits(c, report'[c])
        /\ \A c \in Calls : thread[c] = "cleaned" =>
              thread'[c] = "cleaned" /\ report'[c] = report[c]
    BY ReportFixed
  <1>2. ASSUME NEW c \in Calls, pc'[c] \in {"delivered", "broken"}
        PROVE  /\ thread'[c] = "cleaned"
               /\ pc'[c] = "delivered" =>
                     Encodes(file'[c], report'[c]) /\ balances'[c] \in Sealed
               /\ pc'[c] = "broken" => ~Encodes(file'[c], report'[c])
    <2>1. CASE pc'[c] = pc[c]
      BY <1>0, <1>1, <1>2, <2>1, BalancesFixed, Zenon DEF ResultsInv
    <2>2. CASE EncodeResult(c)
      <3>1. thread[c] = "cleaned"
        BY <2>2, Zenon DEF EncodeResult, Deliver, MediaInv, ChargeInv
      <3>2. /\ pc'[c] = "delivered" => Encodes(file[c], report[c])
            /\ pc'[c] = "broken" => ~Encodes(file[c], report[c])
        BY <2>2, SMT DEF EncodeResult
      <3> QED
        BY <1>0, <1>1, <2>2, <3>1, <3>2, BalancesFixed, Zenon
    <2> QED
      BY <1>2, <2>1, <2>2, OnlyEncoded
  <1>3. ASSUME NEW c \in Calls, page'[c] = "rejected"
        PROVE  pc'[c] = "delivered" /\ Refused(c)'
    <2>1. pc[c] = "delivered" /\ Refused(c)
      <3>1. CASE page'[c] = page[c]
        BY <1>3, <3>1, Zenon DEF ResultsInv
      <3>2. CASE page'[c] # page[c]
        <4>1. PICK d \in Calls : Receive(d)
          BY <3>2, Zenon DEF ExchangeNext, OpenRequest, CleanMedia, EncodeResult, data
        <4>2. c = d
          BY <1>0, <3>2, <4>1 DEF Receive
        <4>3. page'[c] = IF Refused(c) THEN "rejected" ELSE "shown"
          BY <1>0, <4>1, <4>2, Zenon DEF Receive, Refused
        <4> QED
          BY <1>3, <4>1, <4>2, <4>3 DEF Receive
      <3> QED
        BY <3>1, <3>2
    <2>2. pc'[c] = "delivered"
      BY <2>1, ExchangeIsMediaStep, DeliveredStays
    <2>3. report'[c] = report[c] /\ balances'[c] = balances[c]
      BY <1>1, <2>1, BalancesFixed, Zenon DEF ResultsInv
    <2> QED
      BY <1>0, <2>1, <2>2, <2>3, Zenon DEF Refused
  <1>4. ASSUME NEW c \in Calls, thread'[c] = "cleaned" PROVE Fits(c, report[c])'
    BY <1>0, <1>1, <1>4, Zenon DEF Fits
  <1> QED
    BY <1>1, <1>2, <1>3, <1>4, BalancesFixed, Zenon DEF ResultsInv

LEMMA ResultsAlways == ExchangeSpec => [](ExchangeInv /\ ResultsInv)
  <1>1. ExchangeInit => ResultsInv
    <2> SUFFICES ASSUME ExchangeInit PROVE ResultsInv
      OBVIOUS
    <2> QED
      BY SMT DEF ExchangeInit, Init, ResultsInv
  <1>2. ExchangeInv /\ ResultsInv /\ [ExchangeNext]_<<vars, data>> => ResultsInv'
    BY ResultsStep DEF ExchangeInv
  <1> QED
    BY <1>1, <1>2, ExchangeStart, ExchangeStep, PTL DEF ExchangeSpec

(* What is charged or shown was sealed under the kind, operation, extension,  *)
(* type and byte count that were signed, is of the signed format inside, and  *)
(* came out in the format the operation makes (app.py:819-826,                *)
(* media.py:171-228).                                                         *)
THEOREM TermsHold == ExchangeSpec => []NoSubstitution
  <1>1. ExchangeInv /\ ResultsInv => NoSubstitution
    <2> SUFFICES ASSUME ExchangeInv, ResultsInv, NEW c \in Calls,
                        site[c] = "charged" \/ page[c] = "shown"
                 PROVE  /\ [file[c] EXCEPT !.extension = Lower(@)] = capability[c]
                        /\ report[c] \in Reports
                        /\ report[c].format = FormatByExtension[capability[c].extension]
                        /\ OutputExtension(file[c]) =
                              IF capability[c].operation = "AUDIO_PURIFY"
                              THEN ".m4a" ELSE capability[c].extension
      BY Zenon DEF NoSubstitution
    <2>1. site[c] = "charged"
      BY SMT DEF ExchangeInv, MediaInv, ChargeInv, TermsInv
    <2>2. pc[c] \notin {"idle", "refused"} /\ Fits(c, report[c])
      BY <2>1, SMT DEF ExchangeInv, MediaInv, ChargeInv, ResultsInv
    <2>3. [file[c] EXCEPT !.extension = Lower(@)] = capability[c]
      BY <2>2, Zenon DEF ExchangeInv, TermsInv, Authorized
    <2>4. file[c] \in Terms
      BY TermsAssumption, Zenon DEF ExchangeInv, TermsInv
    <2>5. /\ capability[c].operation = file[c].operation
          /\ capability[c].extension = Lower(file[c].extension)
      BY <2>3, <2>4, SMT DEF Terms
    <2>6. report[c] \in Reports /\ report[c].format = FormatByExtension[capability[c].extension]
      BY <2>2, <2>5, Zenon DEF Fits
    <2>7. OutputExtension(file[c]) = IF capability[c].operation = "AUDIO_PURIFY"
                                     THEN ".m4a" ELSE capability[c].extension
      BY <2>5, Zenon DEF OutputExtension, Purified
    <2> QED
      BY <2>3, <2>6, <2>7
  <1> QED
    BY <1>1, ResultsAlways, PTL

(* The page looks at a response once, and only then says what it made of it.  *)
PageInv == page \in [Calls -> {"waiting", "shown", "rejected"}]

LEMMA PageStep == ASSUME PageInv, [ExchangeNext]_<<vars, data>> PROVE PageInv'
  <1>1. CASE page' = page
    BY <1>1 DEF PageInv
  <1>2. CASE \E c \in Calls : Receive(c)
    BY <1>2, SMT DEF PageInv, Receive
  <1> QED
    BY <1>1, <1>2, Zenon DEF ExchangeNext, OpenRequest, CleanMedia, EncodeResult, data

(* The state of the composed media exchange has its types: a call carries     *)
(* only terms that can be signed and sealed, and at most one report, one of   *)
(* those the cleaners make (app.py:783-890, media.py:171-251).                *)
THEOREM ExchangeTypes == ExchangeSpec => []DataTypeOK
  <1>1. ExchangeInv /\ ResultsInv /\ PageInv => DataTypeOK
    BY Zenon DEF ExchangeInv, MediaInv, LockInv, TermsInv, ResultsInv, PageInv, DataTypeOK
  <1>2. ExchangeInit => PageInv
    BY SMT DEF ExchangeInit, PageInv
  <1> QED
    BY <1>1, <1>2, ResultsAlways, PageStep, PTL DEF ExchangeSpec

(* The bounds of a header of a actions, each of b characters of e bytes.      *)
LEMMA HeaderArithmetic ==
    ASSUME NEW a \in 0 .. 30, NEW b \in 0 .. MaxAction, NEW e \in {1, 6, 12}
    PROVE  LET h == FixedHeader + a * (b * e + 3)
           IN  /\ h <= MaxHeader => h \in 2 .. MaxHeader
               /\ e = 1 => h <= MaxHeader
               /\ b * 1 <= MaxAction
  <1> DEFINE MaxTotal == 9090
  <1>1. a * (b * e + 3) \in Nat /\ b * 1 <= MaxAction
    BY DEF MaxAction
  <1>2. e = 1 => a * (b * e + 3) <= MaxTotal
    <2>1. a * (b + 3) <= 30 * (b + 3)
      BY DEF MaxAction
    <2> QED
      BY <2>1 DEF MaxAction
  <1>3. ASSUME NEW t \in Nat
        PROVE  /\ FixedHeader + t \in Nat
               /\ FixedHeader + t >= 2
               /\ t <= MaxTotal => FixedHeader + t <= MaxHeader
    BY <1>3, SMT DEF FixedHeader, MaxHeader
  <1>4. MaxHeader \in Nat
    BY DEF MaxHeader
  <1>5. \A h \in Nat : h >= 2 /\ h <= MaxHeader => h \in 2 .. MaxHeader
    BY <1>4, SMT
  <1> HIDE DEF MaxTotal
  <1> QED
    BY <1>1, <1>2, <1>3, <1>5, Zenon

(* What the list of actions may take.                                         *)
LEMMA HeaderBounds ==
    ASSUME NEW f, NEW r \in CleanerReport
    PROVE  /\ ActionCount(f, r) <= 30
           /\ HeaderBytes(f, r) <= MaxHeader => HeaderBytes(f, r) \in 2 .. MaxHeader
           /\ r.script = "ascii" => HeaderBytes(f, r) <= MaxHeader
           /\ ActionLength(r) * 1 <= MaxAction
  <1>1. r.actions \in Nat /\ r.length \in Nat /\ r.script \in {"ascii", "bmp", "astral"}
    BY DEF CleanerReport
  <1>2. /\ ActionsKept(f, r) \in 0 .. 30
        /\ Purified(f) => ActionsKept(f, r) \in 0 .. 29
        /\ ActionLength(r) \in 0 .. MaxAction
    BY <1>1, SMT DEF ActionsKept, ActionLength, Least, MaxAction
  <1>3. ActionCount(f, r) <= 30
    BY <1>2, SMT DEF ActionCount
  <1>4. EscapedBytes[r.script] \in {1, 6, 12} /\ EscapedBytes["ascii"] = 1
    BY <1>1 DEF EscapedBytes
  <1>5. LET h == FixedHeader
                   + ActionsKept(f, r) * (ActionLength(r) * EscapedBytes[r.script] + 3)
        IN  /\ h <= MaxHeader => h \in 2 .. MaxHeader
            /\ EscapedBytes[r.script] = 1 => h <= MaxHeader
            /\ ActionLength(r) * 1 <= MaxAction
    BY <1>2, <1>4, HeaderArithmetic
  <1> QED
    BY <1>3, <1>4, <1>5, Zenon DEF HeaderBytes

(* Plain text always fits the header.                                         *)
LEMMA AsciiEncodes ==
    ASSUME NEW f, NEW r \in CleanerReport, r.script = "ascii"
    PROVE  Encodes(f, r)
  <1>1. HeaderBytes(f, r) <= MaxHeader
    BY HeaderBounds, Zenon
  <1> QED
    BY <1>1, Zenon DEF Encodes

(* A purified file has the type of an .m4a file.                              *)
LEMMA PurifiedType ==
    ASSUME NEW f, Purified(f)
    PROVE  MimeByExtension[OutputExtension(f)] = "audio/mp4"
  <1>1. ExtensionsByKind["AUDIO"] = {".mp3", ".m4a"} /\ "AUDIO" \in DOMAIN ExtensionsByKind
    BY DEF ExtensionsByKind
  <1>2. ".m4a" \in Extensions
    BY <1>1, Zenon DEF Extensions
  <1> QED
    BY <1>2, SMT DEF OutputExtension, MimeByExtension

(* What the page compares is what the workload computes, for every operation. *)
LEMMA OrdinaryAccepts ==
    ASSUME NEW f, NEW k, NEW r \in CleanerReport, NEW b \in Sealed, Encodes(f, r),
           f.extension = Lower(f.extension), f.bytes = k.bytes,
           f.mime = MimeByExtension[Lower(f.extension)],
           r.outputBytes # 0, r.script # "astral",
           \A name \in DOMAIN b : b[name] \notin {"negative", "nonfinite", "other"},
           b.guestCleansLeft # "fraction"
    PROVE  Accepts(f, k, r, b)
  <1>1. /\ HeaderBytes(f, r) <= MaxHeader => HeaderBytes(f, r) \in 2 .. MaxHeader
        /\ ActionLength(r) * 1 <= MaxAction
        /\ ActionCount(f, r) <= 30
    BY HeaderBounds, Zenon
  <1>2. HeaderBytes(f, r) \in 2 .. MaxHeader
    BY <1>1, Zenon DEF Encodes
  <1>3. OutputExtension(f) = IF Purified(f) THEN ".m4a" ELSE f.extension
    BY Zenon DEF OutputExtension
  <1>4. OutputMime(f) = IF Purified(f) THEN "audio/mp4" ELSE f.mime
    <2>1. CASE Purified(f)
      BY <2>1, PurifiedType DEF OutputMime
    <2>2. CASE ~Purified(f)
      BY <2>2, Zenon DEF OutputMime, OutputExtension
    <2> QED
      BY <2>1, <2>2
  <1>5. r.outputBytes > 0 /\ Utf16Units[r.script] = 1
    BY DEF CleanerReport, Utf16Units
  <1>6. ActionLength(r) * Utf16Units[r.script] <= MaxAction
    BY <1>1, <1>5, Zenon
  <1>7. /\ b.creditsUsed \in {"count", "fraction"}
        /\ b.remainingCredits \in {"null", "count", "fraction"}
        /\ b.guestCleansLeft \in {"null", "count"}
    BY SMT DEF Sealed, Value
  <1> QED
    BY <1>1, <1>2, <1>3, <1>4, <1>5, <1>6, <1>7, Zenon DEF Accepts

(* Of any report, a charge is lost to the encoding only over text that JSON   *)
(* escapes: the cuts and limits of media.py:171-251 leave room for any other. *)
THEOREM BrokenEscapes == ExchangeSpec => []BrokenNeedsEscapes
  <1>1. ResultsInv => BrokenNeedsEscapes
    <2> SUFFICES ASSUME ResultsInv, NEW c \in Calls, pc[c] = "broken"
                 PROVE  report[c].script # "ascii"
      BY Zenon DEF BrokenNeedsEscapes
    <2>1. PICK f, r : f = file[c] /\ r = report[c]
      OBVIOUS
    <2>2. r \in CleanerReport /\ ~Encodes(f, r)
      BY <2>1, ReportsAssumption, Zenon DEF ResultsInv, Fits
    <2> QED
      BY <2>1, <2>2, AsciiEncodes
  <1> QED
    BY <1>1, ResultsAlways, PTL

(* Of any file, report and reply, the page refuses a genuine result only for  *)
(* a name the workload normalises, for what the cleaners returned, or for     *)
(* balances of the website that break their types (media.py:206-251,          *)
(* receipts.py:48-54, confidential-crypto.ts:192-259).                        *)
THEOREM OrdinaryAccepted == ExchangeSpec => []OrdinaryResultAccepted
  <1>1. ExchangeInv /\ ResultsInv => OrdinaryResultAccepted
    <2> SUFFICES ASSUME ExchangeInv, ResultsInv, NEW c \in Calls, page[c] = "rejected",
                        file[c].extension = Lower(file[c].extension),
                        file[c].mime = MimeByExtension[Lower(file[c].extension)],
                        report[c].outputBytes # 0,
                        report[c].script # "astral",
                        \A name \in DOMAIN balances[c] :
                            balances[c][name] \notin {"negative", "nonfinite", "other"},
                        balances[c].guestCleansLeft # "fraction"
                 PROVE  FALSE
      BY Zenon DEF OrdinaryResultAccepted
    <2>1. PICK f, k, r, b :
              f = file[c] /\ k = capability[c] /\ r = report[c] /\ b = balances[c]
      OBVIOUS
    <2>2. pc[c] = "delivered" /\ ~Accepts(f, k, r, b)
      BY <2>1, Zenon DEF ResultsInv, Refused
    <2>3. r \in CleanerReport /\ Encodes(f, r) /\ b \in Sealed
      <3>1. thread[c] = "cleaned"
        BY <2>2, SMT DEF ResultsInv
      <3> QED
        BY <2>1, <2>2, <3>1, ReportsAssumption, Zenon DEF ResultsInv, Fits
    <2>4. f.bytes = k.bytes
      <3>1. [f EXCEPT !.extension = Lower(@)] = k
        BY <2>1, <2>2, SMT DEF ExchangeInv, TermsInv, Authorized
      <3>2. f \in Terms
        BY <2>1, TermsAssumption, Zenon DEF ExchangeInv, TermsInv
      <3> QED
        BY <3>1, <3>2, SMT DEF Terms
    <2> QED
      BY <2>1, <2>2, <2>3, <2>4, OrdinaryAccepts
  <1> QED
    BY <1>1, ResultsAlways, PTL

----------------------------------------------------------------------------
(* The settlement *)

(* What a submission does to the reservation of its call: `started` claims a  *)
(* pending one, a terminal receipt settles a claimed one, or nothing changes. *)
LEMMA ReplyMoves ==
    ASSUME NEW r \in Receipts, NEW s \in Reservations, NEW o \in Replies(s, r)
    PROVE  /\ \/ o.to = s
              \/ s = "pending" /\ o.to = "claimed" /\ r = "started"
              \/ s = "claimed" /\ o.to = SettledBy(r) /\ r # "started"
           /\ o.reply = "ok" /\ r = "started" => s = "pending" /\ o.to = "claimed"
  <1> USE DEF Receipts, Reservations
  <1>1. CASE r = "started" /\ s = "pending"
    BY <1>1, SMT DEF Replies
  <1>2. CASE r # "started" /\ s = "claimed"
    BY <1>2, SMT DEF Replies, SettledBy
  <1>3. CASE r # "started" /\ s = SettledBy(r)
    BY <1>3, SMT DEF Replies, SettledBy
  <1>4. CASE /\ ~(r = "started" /\ s = "pending")
             /\ ~(r # "started" /\ s = "claimed")
             /\ ~(r # "started" /\ s = SettledBy(r))
    BY <1>4, SMT DEF Replies
  <1> QED
    BY <1>1, <1>2, <1>3, <1>4

LEMMA SubmissionMoves ==
    ASSUME TypeOK, NEW c \in Calls, NEW r \in Receipts,
           Acknowledged(c, r) \/ NotAcknowledged(c, r)
    PROVE  /\ \/ site'[c] = site[c]
              \/ site[c] = "pending" /\ site'[c] = "claimed" /\ r = "started"
              \/ site[c] = "claimed" /\ site'[c] = SettledBy(r) /\ r # "started"
           /\ Acknowledged(c, r) /\ r = "started" => site[c] = "pending" /\ site'[c] = "claimed"
           /\ \A d \in Calls \ {c} : site'[d] = site[d]
  <1>1. site[c] \in Reservations
    BY DEF TypeOK
  <1>2. CASE UNCHANGED site /\ ~Acknowledged(c, r)
    BY <1>2, Zenon
  <1>3. ASSUME NEW o \in Replies(site[c], r), site' = [site EXCEPT ![c] = o.to]
        PROVE  site'[c] = o.to /\ \A d \in Calls \ {c} : site'[d] = site[d]
    BY <1>3, Zenon DEF TypeOK
  <1>4. CASE Acknowledged(c, r)
    <2>1. PICK o \in Replies(site[c], r) : o.reply = "ok" /\ site' = [site EXCEPT ![c] = o.to]
      BY <1>4 DEF Acknowledged
    <2>2. /\ \/ o.to = site[c]
             \/ site[c] = "pending" /\ o.to = "claimed" /\ r = "started"
             \/ site[c] = "claimed" /\ o.to = SettledBy(r) /\ r # "started"
          /\ r = "started" => site[c] = "pending" /\ o.to = "claimed"
      BY <1>1, <2>1, ReplyMoves
    <2> QED
      BY <1>3, <2>1, <2>2, Zenon
  <1>5. CASE ~Acknowledged(c, r) /\ ~UNCHANGED site
    <2>1. PICK o \in Replies(site[c], r) : site' = [site EXCEPT ![c] = o.to]
      BY <1>5 DEF NotAcknowledged
    <2>2. \/ o.to = site[c]
          \/ site[c] = "pending" /\ o.to = "claimed" /\ r = "started"
          \/ site[c] = "claimed" /\ o.to = SettledBy(r) /\ r # "started"
      BY <1>1, ReplyMoves
    <2> QED
      BY <1>3, <1>5, <2>1, <2>2, Zenon
  <1> QED
    BY <1>2, <1>4, <1>5

(* Nothing happens to a call, except that its work may end.                   *)
LEMMA NothingSettles ==
    ASSUME NEW c \in Calls, site'[c] = site[c], Worker(c)' <=> Worker(c),
           pc'[c] = "delivered" <=> pc[c] = "delivered",
           (thread'[c] = "cleaned") = (thread[c] = "cleaned")
    PROVE  SettlementStep(c)
  <1>1. Holders(c)' = Holders(c)
    BY Zenon DEF Holders, Worker
  <1>2. CreditsTold(c)' = CreditsTold(c)
    BY Zenon DEF CreditsTold
  <1> QED
    BY <1>1, <1>2, Zenon DEF SettlementStep, Reservation!settlementVars

(* The reservation of a call is settled or not, its call goes on or not, and  *)
(* what it delivers it delivers charged.                                      *)
SettledStep(c) ==
    \/ site'[c] = site[c]
    \/ /\ site[c] = "claimed"
       /\ site'[c] \in Settled
       /\ site'[c] = "charged" => thread[c] = "cleaned"
DeliveryStep(c) ==
    \/ pc'[c] = "delivered" <=> pc[c] = "delivered"
    \/ pc[c] # "delivered" /\ pc'[c] = "delivered" /\ Worker(c) /\ site'[c] = "charged"

LEMMA CallSettles ==
    ASSUME NEW c \in Calls, SettledStep(c), DeliveryStep(c), Worker(c)' => Worker(c),
           (thread'[c] = "cleaned") = (thread[c] = "cleaned")
    PROVE  SettlementStep(c)
  <1>1. Holders(c)' \in SUBSET Holders(c)
    BY Zenon DEF Holders, Worker
  <1>2. Reservation(c)!LetGo
    BY <1>1, Zenon DEF Reservation!LetGo
  <1>3. Reservation(c)!Settles \/ site'[c] = site[c]
    BY Zenon DEF SettledStep, Reservation!Settles, Settled, Reservation!Settled
  <1>4. Reservation(c)!Tells \/ CreditsTold(c)' = CreditsTold(c)
    <2>1. CASE pc'[c] = "delivered" <=> pc[c] = "delivered"
      BY <2>1, Zenon DEF CreditsTold
    <2>2. CASE pc[c] # "delivered" /\ pc'[c] = "delivered" /\ Worker(c) /\ site'[c] = "charged"
      <3>1. c \in Holders(c)
        BY <2>2, Zenon DEF Holders
      <3>2. CreditsTold(c)[c] = "nothing"
        BY <2>2, Zenon DEF CreditsTold
      <3>3. CreditsTold(c)' = [CreditsTold(c) EXCEPT ![c] = site'[c]]
        BY <2>2, Zenon DEF CreditsTold
      <3>4. site'[c] \in Reservation(c)!Settled
        BY <2>2, SMT DEF Reservation!Settled
      <3> QED
        BY <3>1, <3>2, <3>3, <3>4, Zenon DEF Reservation!Tells
    <2> QED
      BY <2>1, <2>2 DEF DeliveryStep
  <1> QED
    BY <1>2, <1>3, <1>4, Zenon DEF SettlementStep, Reservation!SettlementNext

(* The submission of a terminal receipt: what it records was earned.          *)
LEMMA TerminalSettles ==
    ASSUME MediaInv, NEW c \in Calls, NEW r \in {"succeeded", "failed"},
           Acknowledged(c, r) \/ NotAcknowledged(c, r), r = "succeeded" => thread[c] = "cleaned"
    PROVE  SettledStep(c)
  <1>1. TypeOK /\ r \in Receipts
    BY SMT DEF MediaInv, LockInv, Receipts
  <1>2. \/ site'[c] = site[c]
        \/ site[c] = "claimed" /\ site'[c] = SettledBy(r)
    BY <1>1, SubmissionMoves, SMT
  <1>3. SettledBy(r) \in Settled /\ (SettledBy(r) = "charged" => r = "succeeded")
    BY SMT DEF SettledBy, Settled
  <1> QED
    BY <1>2, <1>3, Zenon DEF SettledStep

(* The end of a claim that the call never learns of.                          *)
LEMMA UnheardClaimSettles ==
    ASSUME MediaInv, NEW c \in Calls, pc[c] = "claiming", NotAcknowledged(c, "started"),
           pc'[c] \in {"unclaimed", "cancelled"}, thread' = thread
    PROVE  SettlementStep(c)
  <1>1. TypeOK /\ "started" \in Receipts
    BY SMT DEF MediaInv, LockInv, Receipts
  <1>2. \/ site'[c] = site[c]
        \/ site[c] = "pending" /\ site'[c] = "claimed"
    BY <1>1, SubmissionMoves, SMT
  <1>3. /\ ~Worker(c) /\ ~Worker(c)'
        /\ pc[c] # "delivered" /\ pc'[c] # "delivered"
    BY SMT DEF Worker, Holding
  <1>4. CASE site'[c] = site[c]
    BY <1>3, <1>4, NothingSettles
  <1>5. CASE site[c] = "pending" /\ site'[c] = "claimed"
    <2>1. Holders(c)' = {}
      BY <1>3, Zenon DEF Holders, Worker
    <2>2. CreditsTold(c)' = CreditsTold(c)
      BY <1>3, Zenon DEF CreditsTold
    <2> QED
      BY <1>5, <2>1, <2>2, Zenon
         DEF SettlementStep, Reservation!SettlementNext, Reservation!Claimed
  <1> QED
    BY <1>2, <1>4, <1>5

(* A step of the call itself.                                                 *)
LEMMA OwnSettles ==
    ASSUME MediaInv, NEW c \in Calls,
           \/ Mismatch(c) \/ Admit(c) \/ SubmitEnds(c) \/ ThreadEnds(c)
           \/ JobEnds(c) \/ CancelJob(c) \/ CancelSubmit(c)
    PROVE  SettlementStep(c)
  <1>1. TypeOK
    BY DEF MediaInv, LockInv
  <1>2. ASSUME NEW to, Goes(c, to) PROVE pc'[c] = to
    BY <1>1, <1>2, Zenon DEF Goes, TypeOK
  <1>3. ASSUME pc'[c] \in {"refused", "busy", "claiming"}, pc[c] = "idle", thread' = thread,
               site' = site
        PROVE  SettlementStep(c)
    <2>1. /\ ~Worker(c) /\ ~Worker(c)'
          /\ pc[c] # "delivered" /\ pc'[c] # "delivered"
      BY <1>3, SMT DEF Worker, Holding
    <2> QED
      BY <1>3, <2>1, NothingSettles
  <1>4. CASE Mismatch(c)
    BY <1>2, <1>3, <1>4, Zenon DEF Mismatch
  <1>5. CASE Admit(c)
    BY <1>2, <1>3, <1>5, Zenon DEF Admit
  <1>6. CASE StartJob(c)
    <2>1. /\ site[c] = "pending" /\ site'[c] = "claimed"
          /\ pc[c] = "claiming" /\ pc'[c] = "working"
      BY <1>1, <1>2, <1>6, SubmissionMoves, SMT DEF StartJob, Receipts
    <2>2. thread[c] # "cleaned" /\ thread'[c] # "cleaned"
      <3>1. thread[c] = "none"
        BY <2>1, SMT DEF MediaInv, ChargeInv
      <3>2. thread'[c] = "running"
        BY <1>1, <1>6, Zenon DEF StartJob, TypeOK
      <3> QED
        BY <3>1, <3>2
    <2>3. Worker(c)'
      BY <2>1, SMT DEF Worker, Holding
    <2>4. Holders(c)' = {c}
      BY <2>3, Zenon DEF Holders, Worker
    <2>5. CreditsTold(c)' = CreditsTold(c)
      BY <2>1, SMT DEF CreditsTold
    <2> QED
      BY <2>1, <2>2, <2>4, <2>5, Zenon
         DEF SettlementStep, Reservation!SettlementNext, Reservation!Claimed
  <1>7. CASE ClaimFails(c)
    BY <1>2, <1>7, UnheardClaimSettles, Zenon DEF ClaimFails, End
  <1>8. ASSUME pc[c] \in {"working", "draining", "charging", "failing"},
               pc'[c] \in {"draining", "charging", "failing", "errored", "broken", "cancelled"},
               thread' = thread, SettledStep(c)
        PROVE  SettlementStep(c)
    <2>1. Worker(c)
      BY <1>8, SMT DEF Worker, Holding
    <2>2. pc[c] # "delivered" /\ pc'[c] # "delivered"
      BY <1>8
    <2> QED
      BY <1>8, <2>1, <2>2, CallSettles, Zenon DEF DeliveryStep
  <1>9. site' = site => SettledStep(c)
    BY Zenon DEF SettledStep
  <1>10. pc[c] = "charging" => thread[c] = "cleaned"
    BY Zenon DEF MediaInv, ChargeInv
  <1>11. CASE Deliver(c)
    <2>1. PICK outcome \in {"delivered", "broken"} : Goes(c, outcome)
      BY <1>11 DEF Deliver, End
    <2>2. /\ pc[c] = "charging" /\ pc'[c] \in {"delivered", "broken"} /\ thread' = thread
          /\ Acknowledged(c, "succeeded")
      BY <1>2, <1>11, <2>1, Zenon DEF Deliver
    <2>3. SettledStep(c)
      BY <1>10, <2>2, TerminalSettles
    <2>4. CASE pc'[c] = "delivered"
      <3>1. site'[c] = "charged"
        BY <1>1, <2>2, SubmissionEffect DEF Receipts
      <3>2. Worker(c)
        BY <2>2, SMT DEF Worker, Holding
      <3> QED
        BY <2>2, <2>3, <2>4, <3>1, <3>2, CallSettles DEF DeliveryStep
    <2>5. CASE pc'[c] = "broken"
      BY <1>8, <2>2, <2>3, <2>5
    <2> QED
      BY <2>2, <2>4, <2>5
  <1>12. CASE ChargeFails(c)
    BY <1>2, <1>8, <1>10, <1>12, TerminalSettles, SMT DEF ChargeFails
  <1>13. CASE Fail(c)
    BY <1>2, <1>8, <1>13, TerminalSettles, SMT DEF Fail, End
  <1>14. CASE JobReturns(c)
    BY <1>2, <1>8, <1>9, <1>14, SMT DEF JobReturns
  <1>15. CASE Drained(c)
    BY <1>2, <1>8, <1>9, <1>15, SMT DEF Drained, End
  <1>16. CASE CancelJob(c)
    BY <1>2, <1>8, <1>9, <1>16, SMT DEF CancelJob
  <1>17. CASE CancelSubmit(c)
    <2>1. /\ pc'[c] = "cancelled" /\ thread' = thread
          /\ pc[c] \in {"claiming", "charging", "failing"}
          /\ NotAcknowledged(c, ReceiptOf[pc[c]])
      BY <1>2, <1>17, SMT DEF CancelSubmit, End, ReceiptOf
    <2>2. /\ pc[c] = "claiming" => ReceiptOf[pc[c]] = "started"
          /\ pc[c] = "charging" => ReceiptOf[pc[c]] = "succeeded"
          /\ pc[c] = "failing" => ReceiptOf[pc[c]] = "failed"
      BY SMT DEF ReceiptOf
    <2>3. CASE pc[c] = "claiming"
      BY <2>1, <2>2, <2>3, UnheardClaimSettles, Zenon
    <2>4. CASE pc[c] \in {"charging", "failing"}
      BY <1>8, <1>10, <2>1, <2>2, <2>4, TerminalSettles, Zenon
    <2> QED
      BY <2>1, <2>3, <2>4
  <1>18. CASE ThreadEnds(c)
    <2>1. /\ thread[c] = "running" /\ pc' = pc /\ site' = site
          /\ thread'[c] \in {"cleaned", "raised"}
      BY <1>1, <1>18, SMT DEF ThreadEnds, TypeOK
    <2>2. pc[c] \in {"working", "draining"}
      BY <2>1, Zenon DEF MediaInv, LockInv
    <2>3. c \in Holders(c)
      BY <2>2, SMT DEF Holders, Worker, Holding
    <2>4. Holders(c)' = Holders(c) /\ CreditsTold(c)' = CreditsTold(c)
      BY <2>1, Zenon DEF Holders, Worker, CreditsTold
    <2>5. CASE thread'[c] = "cleaned"
      BY <2>1, <2>3, <2>4, <2>5, Zenon
         DEF SettlementStep, Reservation!SettlementNext, Reservation!Finished, Reservation!LetGo
    <2>6. CASE thread'[c] = "raised"
      BY <2>1, <2>4, <2>6, Zenon DEF SettlementStep, Reservation!settlementVars
    <2> QED
      BY <2>1, <2>5, <2>6
  <1> QED
    BY <1>4, <1>5, <1>6, <1>7, <1>11, <1>12, <1>13, <1>14, <1>15, <1>16, <1>17, <1>18
       DEF SubmitEnds, JobEnds

(* A step of one call leaves the others, and their reservations, alone.       *)
LEMMA OthersUntouched ==
    ASSUME TypeOK, NEW c \in Calls, NEW d \in Calls \ {c},
           \/ Mismatch(d) \/ Admit(d) \/ SubmitEnds(d) \/ ThreadEnds(d)
           \/ JobEnds(d) \/ CancelJob(d) \/ CancelSubmit(d)
    PROVE  pc'[c] = pc[c] /\ thread'[c] = thread[c] /\ site'[c] = site[c]
  <1>1. ASSUME NEW to, Goes(d, to) PROVE pc'[c] = pc[c]
    BY <1>1, Zenon DEF Goes, TypeOK
  <1>2. pc'[c] = pc[c]
    BY <1>1, Zenon DEF Mismatch, Admit, SubmitEnds, StartJob, ClaimFails, Deliver, ChargeFails,
       Fail, ThreadEnds, JobEnds, JobReturns, Drained, CancelJob, CancelSubmit, End
  <1>3. thread'[c] = thread[c]
    <2>1. \/ thread' = thread
          \/ \E r : thread' = [thread EXCEPT ![d] = r]
      BY Zenon DEF Mismatch, Admit, SubmitEnds, StartJob, ClaimFails, Deliver, ChargeFails,
         Fail, ThreadEnds, JobEnds, JobReturns, Drained, CancelJob, CancelSubmit
    <2> QED
      BY <2>1, Zenon DEF TypeOK
  <1>4. site'[c] = site[c]
    <2>1. \/ site' = site
          \/ \E r \in {"started", "succeeded", "failed"} :
                Acknowledged(d, r) \/ NotAcknowledged(d, r)
      <3>1. CASE CancelSubmit(d)
        <4>1. pc[d] \in {"claiming", "charging", "failing"}
              /\ NotAcknowledged(d, ReceiptOf[pc[d]])
          BY <3>1, SMT DEF CancelSubmit, ReceiptOf
        <4>2. ReceiptOf[pc[d]] \in {"started", "succeeded", "failed"}
          BY <4>1, SMT DEF ReceiptOf
        <4> QED
          BY <4>1, <4>2, Zenon
      <3> QED
        BY <3>1, Zenon DEF Mismatch, Admit, SubmitEnds, StartJob, ClaimFails, Deliver,
           ChargeFails, Fail, ThreadEnds, JobEnds, JobReturns, Drained, CancelJob
    <2>2. ASSUME NEW r \in {"started", "succeeded", "failed"},
                 Acknowledged(d, r) \/ NotAcknowledged(d, r)
          PROVE  site'[c] = site[c]
      BY <2>2, SubmissionMoves DEF Receipts
    <2> QED
      BY <2>1, <2>2, Zenon
  <1> QED
    BY <1>2, <1>3, <1>4

LEMMA RestartSettles == ASSUME MediaInv, Restart, NEW c \in Calls PROVE SettlementStep(c)
  <1>1. /\ pc[c] \in Holding => pc'[c] = "reset"
        /\ pc[c] \notin Holding => pc'[c] = pc[c]
        /\ thread[c] = "running" => thread'[c] = "raised"
        /\ thread[c] # "running" => thread'[c] = thread[c]
        /\ site' = site
    BY Zenon DEF Restart
  <1>2. (thread'[c] = "cleaned") = (thread[c] = "cleaned")
    BY <1>1, SMT
  <1>3. pc'[c] = "delivered" <=> pc[c] = "delivered"
    BY <1>1, SMT DEF Holding
  <1>4. Worker(c)' => Worker(c)
    BY <1>1, SMT DEF Worker, Holding
  <1> QED
    BY <1>1, <1>2, <1>3, <1>4, CallSettles, Zenon DEF SettledStep, DeliveryStep

(* Of every media call, with the lock, the threads and the receipts left out: *)
(* its reservation is claimed by it alone, charged only once its job returned *)
(* a clean file, and a file is delivered only for what is charged, for good   *)
(* (app.py:839-915).                                                          *)
THEOREM MediaImplementsSettlement == ExchangeSpec => ImplementsSettlement
  <1>1. Init => \A c \in Calls : Reservation(c)!SettlementInit
    <2> SUFFICES ASSUME Init, NEW c \in Calls PROVE Reservation(c)!SettlementInit
      OBVIOUS
    <2>1. pc[c] = "idle" /\ thread[c] = "none" /\ site[c] = "pending"
      BY Zenon DEF Init
    <2>2. Holders(c) = {}
      BY <2>1, SMT DEF Holders, Worker, Holding
    <2>3. CreditsTold(c) = [d \in {c} |-> "nothing"]
      BY <2>1, SMT DEF CreditsTold
    <2> QED
      BY <2>1, <2>2, <2>3, Zenon DEF Reservation!SettlementInit
  <1>2. ASSUME MediaInv, [Next]_vars, NEW c \in Calls PROVE SettlementStep(c)
    <2>1. CASE UNCHANGED vars
      BY <2>1, NothingSettles, Zenon DEF vars, Worker
    <2>2. ASSUME NEW d \in Calls,
                 \/ Mismatch(d) \/ Admit(d) \/ SubmitEnds(d) \/ ThreadEnds(d)
                 \/ JobEnds(d) \/ CancelJob(d) \/ CancelSubmit(d)
          PROVE  SettlementStep(c)
      <3>1. CASE d = c
        BY <1>2, <2>2, <3>1, OwnSettles
      <3>2. CASE d # c
        <4>1. pc'[c] = pc[c] /\ thread'[c] = thread[c] /\ site'[c] = site[c]
          BY <1>2, <2>2, <3>2, OthersUntouched DEF MediaInv, LockInv
        <4> QED
          BY <4>1, NothingSettles, Zenon DEF Worker
      <3> QED
        BY <3>1, <3>2
    <2>3. CASE Restart
      BY <1>2, <2>3, RestartSettles
    <2> QED
      BY <1>2, <2>1, <2>2, <2>3, Zenon DEF Next
  <1>3. MediaInv /\ [ExchangeNext]_<<vars, data>> => [\A c \in Calls : SettlementStep(c)]_vars
    BY <1>2, ExchangeIsMediaStep
  <1> QED
    BY <1>1, <1>3, MediaStart, MediaStep, ExchangeIsMediaStep, PTL
       DEF ExchangeSpec, ExchangeInit, ImplementsSettlement

(* What the abstract settlement of one call keeps true.                       *)
CallPromise(c) ==
    /\ site[c] \in Reservations
    /\ site[c] = "charged" => thread[c] = "cleaned"
    /\ pc[c] = "delivered" => site[c] = "charged"

LEMMA PromiseStep ==
    ASSUME NEW c \in Calls, CallPromise(c), SettlementStep(c)
    PROVE  CallPromise(c)'
  <1> USE DEF Settled, Reservations, Reservation!Settled
  <1>1. /\ pc[c] = "delivered" => CreditsTold(c)[c] = "charged"
        /\ pc[c] # "delivered" => CreditsTold(c)[c] = "nothing"
        /\ pc'[c] = "delivered" => CreditsTold(c)'[c] = "charged"
        /\ pc'[c] # "delivered" => CreditsTold(c)'[c] = "nothing"
    BY SMT DEF CreditsTold
  <1>2. CASE UNCHANGED Reservation(c)!settlementVars
    <2>1. /\ site'[c] = site[c] /\ CreditsTold(c)' = CreditsTold(c)
          /\ (thread'[c] = "cleaned") = (thread[c] = "cleaned")
      BY <1>2, Zenon DEF Reservation!settlementVars
    <2> QED
      BY <1>1, <2>1, SMT DEF CallPromise
  <1>3. CASE Reservation(c)!Claimed
    <2>1. /\ site[c] = "pending" /\ site'[c] = "claimed"
          /\ CreditsTold(c)' = CreditsTold(c)
      BY <1>3, Zenon DEF Reservation!Claimed
    <2> QED
      BY <1>1, <2>1, SMT DEF CallPromise
  <1>4. CASE Reservation(c)!Finished
    <2>1. /\ site'[c] = site[c] /\ CreditsTold(c)' = CreditsTold(c)
          /\ (thread'[c] = "cleaned") = TRUE
      BY <1>4, Zenon DEF Reservation!Finished
    <2> QED
      BY <1>1, <2>1, SMT DEF CallPromise
  <1>5. CASE /\ Reservation(c)!Settles \/ UNCHANGED site[c]
             /\ Reservation(c)!Tells \/ UNCHANGED CreditsTold(c)
             /\ Reservation(c)!LetGo
             /\ UNCHANGED (thread[c] = "cleaned")
    <2>1. /\ \/ site'[c] = site[c]
             \/ /\ site[c] = "claimed" /\ site'[c] \in Settled
                /\ site'[c] = "charged" => thread[c] = "cleaned"
          /\ (thread'[c] = "cleaned") = (thread[c] = "cleaned")
      BY <1>5, Zenon DEF Reservation!Settles
    <2>2. CASE UNCHANGED CreditsTold(c)
      BY <1>1, <2>1, <2>2, SMT DEF CallPromise
    <2>3. CASE Reservation(c)!Tells
      <3>1. PICK d \in {c} : CreditsTold(c)' = [CreditsTold(c) EXCEPT ![d] = site'[c]]
        BY <2>3, Zenon DEF Reservation!Tells, Holders
      <3>2. c \in DOMAIN CreditsTold(c)
        BY DEF CreditsTold
      <3>3. CreditsTold(c)'[c] = site'[c]
        BY <3>1, <3>2, Zenon
      <3> QED
        BY <1>1, <2>1, <3>3, SMT DEF CallPromise
    <2> QED
      BY <1>5, <2>2, <2>3
  <1> QED
    BY <1>2, <1>3, <1>4, <1>5, Zenon DEF SettlementStep, Reservation!SettlementNext

(* The abstract settlement promises enough for a media call, too: a file is   *)
(* delivered only for a charge, and charged only once it is cleaned           *)
(* (app.py:839-915).                                                          *)
THEOREM SettlementSuffices == ImplementsSettlement => []ChargedForCleaned
  <1> DEFINE Promise == \A c \in Calls : CallPromise(c)
  <1>1. (\A c \in Calls : Reservation(c)!SettlementInit) => Promise
    <2> SUFFICES ASSUME NEW c \in Calls, Reservation(c)!SettlementInit PROVE CallPromise(c)
      BY Zenon
    <2>1. site[c] = "pending" /\ CreditsTold(c) = [d \in {c} |-> "nothing"]
      BY DEF Reservation!SettlementInit
    <2>2. pc[c] # "delivered"
      BY <2>1, SMT DEF CreditsTold
    <2> QED
      BY <2>1, <2>2, SMT DEF CallPromise, Reservations
  <1>2. ASSUME Promise, [\A c \in Calls : SettlementStep(c)]_vars PROVE Promise'
    <2>1. CASE \A c \in Calls : SettlementStep(c)
      BY <1>2, <2>1, PromiseStep, Zenon
    <2>2. CASE UNCHANGED vars
      BY <1>2, <2>2, Zenon DEF vars, CallPromise
    <2> QED
      BY <1>2, <2>1, <2>2
  <1>3. Promise => ChargedForCleaned
    BY Zenon DEF CallPromise, ChargedForCleaned
  <1> QED
    BY <1>1, <1>2, <1>3, PTL DEF ImplementsSettlement
==============================================================================
