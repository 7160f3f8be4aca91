-------------------------- MODULE Cleaning_proofs ---------------------------
(* The safety of one reservation, for any number of calls with its capability *)
(* and any number of POSTs per receipt, over losses, delays, duplicates,      *)
(* disconnections, deadlines and restarts.                                    *)
EXTENDS Cleaning, TLAPS

(* One call: what it has sent follows from where it is, and only the receipt  *)
(* that belongs to that place is being submitted. Nothing is in flight that   *)
(* was not sent, and a success is sent only over a billable result, which is  *)
(* final once the generator has left the provider.                            *)
CallInv(c) ==
    /\ pc[c] = "idle" => sent[c] = {}
    /\ pc[c] \in AtYield \cup {"claiming", "provider"} => sent[c] = {"started"}
    /\ pc[c] \in {"charging", "complete"} => sent[c] = {"started", "succeeded"}
    /\ pc[c] \in {"refunding", "failing", "fallback", "refunded", "errored", "aborted"} =>
          "failed" \in sent[c]
    /\ post[c] # None => pc[c] \in {"claiming", "charging", "refunding", "failing", "aborted"}
    /\ post[c] # None /\ pc[c] = "claiming" => post[c].receipt = "started"
    /\ post[c] # None /\ pc[c] = "charging" => post[c].receipt = "succeeded"
    /\ post[c] # None /\ pc[c] \in {"refunding", "failing", "aborted"} =>
          post[c].receipt = "failed"
    /\ "succeeded" \in sent[c] => result[c] = "billable"
    /\ \A r \in Receipts : network[c][r] > 0 => r \in sent[c]

CleaningInv ==
    /\ TypeOK
    /\ \A c \in Calls : CallInv(c)
    /\ ClaimIsExclusive
    /\ ToldIsSettled
    /\ ChargedNeedsRewrite

----------------------------------------------------------------------------
(* What the website's replies mean to the invariant.                          *)
LEMMA ReplyFacts ==
    ASSUME NEW r \in Receipts, NEW s \in Reservations, NEW o \in Replies(s, r)
    PROVE  /\ o.to \in Reservations
           /\ s # "pending" => o.to # "pending"
           /\ s \in Settled => o.to = s
           /\ o.to = "charged" => s = "charged" \/ r = "succeeded"
           /\ o.reply = "ok" /\ r = "started" => s = "pending" /\ o.to = "claimed"
           /\ o.reply = "ok" /\ r = "succeeded" => o.to = "charged"
           /\ o.reply = "ok" /\ r = "failed" => o.to = "returned"
  <1> USE DEF Receipts, Reservations, Settled
  <1>1. CASE r = "started" /\ s = "pending"
    BY <1>1, SMT DEF Replies
  <1>2. CASE r # "started" /\ s = "claimed"
    BY <1>2, SMT DEF Replies, SettledBy
  <1>3. CASE r # "started" /\ s = SettledBy(r)
    BY <1>3, SMT DEF Replies, SettledBy
  <1>4. CASE /\ ~(r = "started" /\ s = "pending")
             /\ ~(r # "started" /\ s = "claimed")
             /\ ~(r # "started" /\ s = SettledBy(r))
    BY <1>4, SMT DEF Replies
  <1> QED
    BY <1>1, <1>2, <1>3, <1>4

(* Where an acknowledgement and an error lead.                                *)
LEMMA AckTargets ==
    ASSUME NEW c
    PROVE  /\ pc[c] = "claiming" => AfterAck(c) = "cleaning"
           /\ pc[c] = "charging" => AfterAck(c) = "complete"
           /\ pc[c] = "refunding" => AfterAck(c) \in {"fallback", "refunded"}
           /\ pc[c] = "failing" => AfterAck(c) = "errored"
           /\ pc[c] = "aborted" => AfterAck(c) = "aborted"
  BY SMT DEF AfterAck

LEMMA ErrorTargets ==
    ASSUME NEW c
    PROVE  /\ pc[c] = "claiming" => AfterError(c) = "unclaimed"
           /\ pc[c] = "charging" => AfterError(c) = "failing"
           /\ pc[c] = "refunding" => AfterError(c) = "failing"
           /\ pc[c] = "failing" => AfterError(c) = "errored"
           /\ pc[c] = "aborted" => AfterError(c) = "aborted"
  BY SMT DEF AfterError

----------------------------------------------------------------------------
(* What the updates of one call do to it and to the others.                   *)

Places == {"idle"} \cup Active \cup Ended

LEMMA GoesEffect ==
    ASSUME TypeOK, NEW c \in Calls, NEW to \in Places, Goes(c, to)
    PROVE  /\ pc' \in [Calls -> Places]
           /\ pc'[c] = to
           /\ \A d \in Calls \ {c} : pc'[d] = pc[d]
  BY Zenon DEF TypeOK, Goes, Places

LEMMA PostedEffect ==
    ASSUME network \in [Calls -> [Receipts -> Nat]], NEW c \in Calls, NEW receipt \in Receipts,
           network' = Posted(c, receipt)
    PROVE  /\ network' \in [Calls -> [Receipts -> Nat]]
           /\ \A r \in Receipts : network'[c][r] > 0 => r = receipt \/ network[c][r] > 0
           /\ \A d \in Calls \ {c} : network'[d] = network[d]
  BY SMT DEF Posted

LEMMA SubmitEffect ==
    ASSUME TypeOK, NEW c \in Calls, NEW receipt \in Receipts,
           NEW attempts \in 1 .. MaxAttempts, Submit(c, receipt, attempts)
    PROVE  /\ post' \in [Calls -> Post \cup {None}]
           /\ post'[c].receipt = receipt
           /\ network' \in [Calls -> [Receipts -> Nat]]
           /\ \A r \in Receipts : network'[c][r] > 0 => r = receipt \/ network[c][r] > 0
           /\ sent' \in [Calls -> SUBSET Receipts]
           /\ sent'[c] = sent[c] \cup {receipt}
           /\ \A d \in Calls \ {c} : /\ post'[d] = post[d]
                                    /\ network'[d] = network[d]
                                    /\ sent'[d] = sent[d]
  <1>1. attempts - 1 \in 0 .. MaxAttempts - 1
    BY AttemptsAssumption, SMT
  <1> DEFINE p == [receipt |-> receipt, left |-> attempts - 1]
  <1>2. p \in Post /\ p.receipt = receipt
    BY <1>1, Zenon DEF Post
  <1>3. post' = [post EXCEPT ![c] = p]
    BY DEF Submit
  <1> HIDE DEF p
  <1>4. /\ post' \in [Calls -> Post \cup {None}]
        /\ post'[c] = p
        /\ \A d \in Calls \ {c} : post'[d] = post[d]
    BY <1>2, <1>3, Zenon DEF TypeOK
  <1>5. /\ sent' \in [Calls -> SUBSET Receipts]
        /\ sent'[c] = sent[c] \cup {receipt}
        /\ \A d \in Calls \ {c} : sent'[d] = sent[d]
    BY SMT DEF TypeOK, Submit
  <1> QED
    BY <1>2, <1>4, <1>5, PostedEffect DEF TypeOK, Submit

LEMMA DoneEffect ==
    ASSUME TypeOK, NEW c \in Calls, post' = [post EXCEPT ![c] = None]
    PROVE  /\ post' \in [Calls -> Post \cup {None}]
           /\ post'[c] = None
           /\ \A d \in Calls \ {c} : post'[d] = post[d]
  BY Zenon DEF TypeOK

----------------------------------------------------------------------------
(* A step of one call, and what suffices for it to keep the invariant.        *)

Others(c) ==
    \A d \in Calls \ {c} :
        /\ pc'[d] = pc[d]
        /\ result'[d] = result[d]
        /\ post'[d] = post[d]
        /\ network'[d] = network[d]
        /\ sent'[d] = sent[d]

LEMMA UnchangedCall ==
    ASSUME NEW d, CallInv(d), pc'[d] = pc[d], result'[d] = result[d], post'[d] = post[d],
           network'[d] = network[d], sent'[d] = sent[d]
    PROVE  CallInv(d)'
  BY Zenon DEF CallInv

LEMMA StepKeeps ==
    ASSUME CleaningInv, NEW c \in Calls, TypeOK', CallInv(c)', Others(c),
           site # "pending" => site' # "pending",
           site \in Settled => site' = site,
           Working(c)' => Working(c) \/ (site = "pending" /\ site' # "pending"),
           pc'[c] = "complete" => pc[c] = "complete" \/ site' = "charged",
           pc'[c] \in {"fallback", "refunded"} => pc[c] = pc'[c] \/ site' = "returned",
           site' = "charged" => site = "charged" \/ "succeeded" \in sent[c],
           sent[c] \subseteq sent'[c]
    PROVE  CleaningInv'
  <1> USE DEF CleaningInv
  <1>1. \A d \in Calls : CallInv(d)'
    BY UnchangedCall, Zenon DEF Others
  <1>2. \A d \in Calls \ {c} : Working(d)' <=> Working(d)
    BY Zenon DEF Others, Working
  <1>3. ClaimIsExclusive'
    BY <1>2, Zenon DEF ClaimIsExclusive
  <1>4. ToldIsSettled'
    BY Zenon DEF ToldIsSettled, Others, Settled
  <1>5. ChargedNeedsRewrite'
    <2> SUFFICES ASSUME site' = "charged" PROVE ChargedNeedsRewrite'
      BY DEF ChargedNeedsRewrite
    <2>1. PICK d \in Calls : "succeeded" \in sent[d]
      BY Zenon DEF ChargedNeedsRewrite
    <2>2. "succeeded" \in sent'[d]
      BY <2>1, Zenon DEF Others
    <2>3. result'[d] = "billable"
      BY <1>1, <2>2, Zenon DEF CallInv
    <2> QED
      BY <2>2, <2>3, Zenon DEF ChargedNeedsRewrite
  <1> QED
    BY <1>1, <1>3, <1>4, <1>5

(* Most steps leave the website alone.                                        *)
LEMMA LocalStepKeeps ==
    ASSUME CleaningInv, NEW c \in Calls, TypeOK', CallInv(c)', Others(c), site' = site,
           Working(c)' => Working(c),
           pc'[c] \in {"complete", "fallback", "refunded"} => pc'[c] = pc[c],
           sent[c] \subseteq sent'[c]
    PROVE  CleaningInv'
  BY StepKeeps, Zenon

----------------------------------------------------------------------------
(* The generator (app.py:217-341)                                             *)

StreamTypes ==
    /\ changed' \in [Calls -> BOOLEAN]
    /\ result' \in [Calls -> {"none", "empty", "billable"}]
    /\ expired' \in [Calls -> BOOLEAN]

OtherResults(c) == \A d \in Calls \ {c} : result'[d] = result[d]

(* A receipt is submitted: the claim, a charge for a billable result, or a    *)
(* failure by a call that has claimed.                                        *)
MaySubmit(c, to, receipt) ==
    \/ to = "claiming" /\ receipt = "started" /\ pc[c] = "idle"
    \/ /\ to = "charging" /\ receipt = "succeeded" /\ pc[c] = "provider"
       /\ result'[c] = "billable"
    \/ /\ to \in {"refunding", "failing", "aborted"} /\ receipt = "failed"
       /\ pc[c] # "provider" => pc[c] \in {"charging", "refunding"} /\ result'[c] = result[c]

LEMMA SubmitStep ==
    ASSUME CleaningInv, NEW c \in Calls, NEW to \in Places, NEW receipt \in Receipts,
           NEW attempts \in 1 .. MaxAttempts, Goes(c, to), Submit(c, receipt, attempts),
           StreamTypes, OtherResults(c), site' = site,
           MaySubmit(c, to, receipt)
    PROVE  CleaningInv'
  <1> USE DEF CleaningInv
  <1>1. /\ pc' \in [Calls -> Places]
        /\ pc'[c] = to
        /\ \A d \in Calls \ {c} : pc'[d] = pc[d]
    BY GoesEffect
  <1>2. /\ post' \in [Calls -> Post \cup {None}]
        /\ post'[c].receipt = receipt
        /\ network' \in [Calls -> [Receipts -> Nat]]
        /\ \A r \in Receipts : network'[c][r] > 0 => r = receipt \/ network[c][r] > 0
        /\ sent' \in [Calls -> SUBSET Receipts]
        /\ sent'[c] = sent[c] \cup {receipt}
        /\ \A d \in Calls \ {c} : /\ post'[d] = post[d]
                                 /\ network'[d] = network[d]
                                 /\ sent'[d] = sent[d]
    BY SubmitEffect
  <1>3. TypeOK'
    BY <1>1, <1>2, Zenon DEF TypeOK, StreamTypes, Places
  <1>4. Others(c)
    BY <1>1, <1>2, Zenon DEF Others, OtherResults
  <1>5. \A r \in Receipts : network'[c][r] > 0 => r \in sent'[c]
    BY <1>2, Zenon DEF CallInv
  <1>6. CASE to = "claiming" /\ receipt = "started" /\ pc[c] = "idle"
    <2>1. sent'[c] = {"started"}
      BY <1>2, <1>6, SMT DEF CallInv
    <2>2. CallInv(c)'
      BY <1>1, <1>2, <1>5, <1>6, <2>1, SMT DEF CallInv, AtYield
    <2>3. Working(c)' => Working(c)
      BY <1>1, <1>6, SMT DEF Working, Active, AtYield, AtAwait, Told
    <2> QED
      BY <1>1, <1>2, <1>3, <1>4, <1>6, <2>2, <2>3, LocalStepKeeps, Zenon
  <1>7. CASE /\ to = "charging" /\ receipt = "succeeded" /\ pc[c] = "provider"
             /\ result'[c] = "billable"
    <2>1. sent'[c] = {"started", "succeeded"}
      BY <1>2, <1>7, SMT DEF CallInv
    <2>2. CallInv(c)'
      BY <1>1, <1>2, <1>5, <1>7, <2>1, SMT DEF CallInv, AtYield
    <2>3. Working(c)
      BY <1>7, SMT DEF Working, Active, AtAwait
    <2> QED
      BY <1>1, <1>2, <1>3, <1>4, <1>7, <2>2, <2>3, LocalStepKeeps, Zenon
  <1>8. CASE /\ to \in {"refunding", "failing", "aborted"} /\ receipt = "failed"
             /\ pc[c] # "provider" => pc[c] \in {"charging", "refunding"} /\ result'[c] = result[c]
    <2>1. "failed" \in sent'[c] /\ ("succeeded" \in sent'[c] => result'[c] = "billable")
      BY <1>2, <1>8, SMT DEF CallInv
    <2>2. CallInv(c)'
      BY <1>1, <1>2, <1>5, <1>8, <2>1, SMT DEF CallInv, AtYield
    <2>3. Working(c)
      BY <1>8, SMT DEF Working, Active, AtAwait
    <2>4. to \notin {"complete", "fallback", "refunded"}
      BY <1>8
    <2> QED
      BY <1>1, <1>2, <1>3, <1>4, <2>2, <2>3, <2>4, LocalStepKeeps, Zenon
  <1> QED
    BY <1>6, <1>7, <1>8, Zenon DEF MaySubmit

(* The generator moves between its yields and the provider, or is dropped     *)
(* there; no receipt is concerned.                                            *)
LEMMA MoveStep ==
    ASSUME CleaningInv, NEW c \in Calls, pc[c] \in AtYield \cup {"provider"},
           NEW to \in AtYield \cup {"provider", "dropped"},
           Goes(c, to) \/ (pc' = pc /\ to = pc[c]), StreamTypes, OtherResults(c),
           UNCHANGED postVars, site' = site
    PROVE  CleaningInv'
  <1> USE DEF CleaningInv
  <1>1. /\ pc' \in [Calls -> Places]
        /\ pc'[c] = to
        /\ \A d \in Calls \ {c} : pc'[d] = pc[d]
    <2>1. to \in Places
      BY DEF Places, Active, AtAwait, Ended
    <2>2. pc \in [Calls -> Places]
      BY DEF TypeOK, Places
    <2> QED
      BY <2>1, <2>2, GoesEffect, Zenon
  <1>2. post' = post /\ network' = network /\ sent' = sent
    BY DEF postVars
  <1>3. TypeOK'
    BY <1>1, <1>2, Zenon DEF TypeOK, StreamTypes, Places
  <1>4. Others(c)
    BY <1>1, <1>2, Zenon DEF Others, OtherResults
  <1>5. sent[c] = {"started"} /\ post[c] = None
    BY SMT DEF CallInv, AtYield
  <1>6. CallInv(c)'
    <2>1. "succeeded" \notin sent'[c] /\ post'[c] = None /\ sent'[c] = {"started"}
      BY <1>2, <1>5
    <2>2. \A r \in Receipts : network'[c][r] > 0 => r \in sent'[c]
      BY <1>2, Zenon DEF CallInv
    <2> QED
      BY <1>1, <2>1, <2>2, SMT DEF CallInv, AtYield
  <1>7. Working(c)
    BY SMT DEF Working, Active, AtYield, AtAwait
  <1>8. to \notin {"complete", "fallback", "refunded"}
    BY DEF AtYield
  <1> QED
    BY <1>1, <1>2, <1>3, <1>4, <1>6, <1>7, <1>8, LocalStepKeeps, Zenon

(* Nothing catches a disconnection at a yield or in the failure handler.      *)
LEMMA DropStep == ASSUME CleaningInv, NEW c \in Calls, Drop(c) PROVE CleaningInv'
  <1> USE DEF CleaningInv
  <1>1. /\ pc[c] \in AtYield \cup {"failing"} /\ Goes(c, "dropped")
        /\ post' = [post EXCEPT ![c] = None]
        /\ UNCHANGED <<changed, result, expired, network, sent, site>>
    BY DEF Drop, streamVars
  <1>2. /\ pc' \in [Calls -> Places]
        /\ pc'[c] = "dropped"
        /\ \A d \in Calls \ {c} : pc'[d] = pc[d]
    BY <1>1, GoesEffect DEF Places, Ended
  <1>3. /\ post' \in [Calls -> Post \cup {None}]
        /\ post'[c] = None
        /\ \A d \in Calls \ {c} : post'[d] = post[d]
    BY <1>1, DoneEffect
  <1>4. TypeOK'
    BY <1>1, <1>2, <1>3, Zenon DEF TypeOK, Places
  <1>5. Others(c)
    BY <1>1, <1>2, <1>3, Zenon DEF Others
  <1>6. CallInv(c)'
    BY <1>1, <1>2, <1>3, SMT DEF CallInv, AtYield
  <1>7. Working(c)
    BY <1>1, SMT DEF Working, Active, AtYield, AtAwait
  <1> QED
    BY <1>1, <1>2, <1>4, <1>5, <1>6, <1>7, LocalStepKeeps, Zenon

----------------------------------------------------------------------------
(* The receipt client (app.py:80-158)                                         *)

(* The website may or may not have handled a POST in the step, for this call. *)
NetStep(c, net) ==
    /\ net \in [Calls -> [Receipts -> Nat]]
    /\ \A r \in Receipts : net[c][r] > 0 => network[c][r] > 0
    /\ \A d \in Calls \ {c} : net[d] = network[d]

SiteStep(c) ==
    /\ site' \in Reservations
    /\ site # "pending" => site' # "pending"
    /\ site \in Settled => site' = site
    /\ site' = "charged" => site = "charged" \/ "succeeded" \in sent[c]

(* The place a submission is awaited at, and its receipt.                     *)
LEMMA AwaitedReceipt ==
    ASSUME CleaningInv, NEW c \in Calls, post[c] # None
    PROVE  /\ post[c] \in Post
           /\ post[c].receipt \in Receipts /\ post[c].receipt \in sent[c]
           /\ \/ pc[c] = "claiming" /\ post[c].receipt = "started"
              \/ pc[c] = "charging" /\ post[c].receipt = "succeeded"
              \/ pc[c] \in {"refunding", "failing", "aborted"} /\ post[c].receipt = "failed"
  <1>1. post[c] \in Post
    BY DEF CleaningInv, TypeOK
  <1>2. post[c].receipt \in Receipts
    BY <1>1, SMT DEF Post
  <1> QED
    BY <1>1, <1>2, SMT DEF CleaningInv, CallInv

(* The submission fails (ReceiptError), and a failed settlement is reported.  *)
LEMMA ReceiptErrorStep ==
    ASSUME CleaningInv, NEW c \in Calls, post[c] # None, NEW net, NetStep(c, net),
           ReceiptError(c, net), UNCHANGED streamVars, SiteStep(c)
    PROVE  CleaningInv'
  <1> USE DEF CleaningInv
  <1>1. /\ Goes(c, AfterError(c))
        /\ changed' = changed /\ result' = result /\ expired' = expired
    BY DEF ReceiptError, streamVars
  <1>2. pc[c] \in {"claiming", "charging", "refunding", "failing", "aborted"}
    BY AwaitedReceipt
  <1>3. /\ pc[c] = "claiming" => AfterError(c) = "unclaimed"
        /\ pc[c] \in {"charging", "refunding"} => AfterError(c) = "failing"
        /\ pc[c] = "failing" => AfterError(c) = "errored"
        /\ pc[c] = "aborted" => AfterError(c) = "aborted"
    BY ErrorTargets, Zenon
  <1>4. AfterError(c) \in {"unclaimed", "failing", "errored", "aborted"}
    BY <1>2, <1>3, Zenon
  <1>5. /\ pc' \in [Calls -> Places]
        /\ pc'[c] = AfterError(c)
        /\ \A d \in Calls \ {c} : pc'[d] = pc[d]
    <2>1. AfterError(c) \in Places
      BY <1>4, Zenon DEF Places, Active, AtAwait, Ended, Told
    <2> QED
      BY <1>1, <2>1, GoesEffect
  <1>6. CASE AfterError(c) = "failing"
    <2> DEFINE p == [receipt |-> "failed", left |-> MaxAttempts - 1]
    <2>1. p \in Post /\ p.receipt = "failed"
      <3>1. MaxAttempts - 1 \in 0 .. MaxAttempts - 1
        BY AttemptsAssumption, SMT
      <3> QED
        BY <3>1, Zenon DEF Post, Receipts
    <2>2. /\ post' = [post EXCEPT ![c] = p]
          /\ network' = [net EXCEPT ![c]["failed"] = @ + 1]
          /\ sent' = [sent EXCEPT ![c] = @ \cup {"failed"}]
      BY <1>6 DEF ReceiptError
    <2> HIDE DEF p
    <2>3. /\ post' \in [Calls -> Post \cup {None}]
          /\ post'[c] = p
          /\ \A d \in Calls \ {c} : post'[d] = post[d]
      BY <2>1, <2>2, Zenon DEF TypeOK
    <2>4. /\ network' \in [Calls -> [Receipts -> Nat]]
          /\ \A r \in Receipts : network'[c][r] > 0 => r = "failed" \/ net[c][r] > 0
          /\ \A d \in Calls \ {c} : network'[d] = net[d]
      BY <2>2, SMT DEF NetStep, Receipts
    <2>5. /\ sent' \in [Calls -> SUBSET Receipts]
          /\ sent'[c] = sent[c] \cup {"failed"}
          /\ \A d \in Calls \ {c} : sent'[d] = sent[d]
      BY <2>2, SMT DEF TypeOK, Receipts
    <2>6. TypeOK'
      BY <1>1, <1>5, <2>3, <2>4, <2>5, Zenon DEF TypeOK, Places, SiteStep
    <2>7. Others(c)
      BY <1>1, <1>5, <2>3, <2>4, <2>5, Zenon DEF Others, NetStep
    <2>8. pc[c] \in {"charging", "refunding"}
      BY <1>2, <1>3, <1>6, SMT
    <2>9. CallInv(c)'
      <3>1. \A r \in Receipts : network'[c][r] > 0 => r \in sent'[c]
        BY <2>4, <2>5, Zenon DEF CallInv, NetStep
      <3>2. "succeeded" \in sent'[c] => result'[c] = "billable"
        BY <1>1, <2>5, SMT DEF CallInv
      <3> QED
        BY <1>5, <1>6, <2>1, <2>3, <2>5, <3>1, <3>2, SMT DEF CallInv, AtYield
    <2>10. Working(c)
      BY <2>8, SMT DEF Working, Active, AtAwait
    <2> QED
      BY <1>5, <1>6, <2>5, <2>6, <2>7, <2>9, <2>10, StepKeeps, Zenon DEF SiteStep
  <1>7. CASE AfterError(c) # "failing"
    <2>1. network' = net /\ post' = [post EXCEPT ![c] = None] /\ sent' = sent
      BY <1>7 DEF ReceiptError, Done
    <2>2. /\ post' \in [Calls -> Post \cup {None}]
          /\ post'[c] = None
          /\ \A d \in Calls \ {c} : post'[d] = post[d]
      BY <2>1, DoneEffect
    <2>3. TypeOK'
      BY <1>1, <1>5, <2>1, <2>2, Zenon DEF TypeOK, Places, NetStep, SiteStep
    <2>4. Others(c)
      BY <1>1, <1>5, <2>1, <2>2, Zenon DEF Others, NetStep
    <2>5. CallInv(c)'
      <3>1. \A r \in Receipts : network'[c][r] > 0 => r \in sent'[c]
        BY <2>1, Zenon DEF CallInv, NetStep
      <3>2. pc'[c] \in {"unclaimed", "errored", "aborted"}
        BY <1>4, <1>5, <1>7
      <3>3. pc'[c] \in {"errored", "aborted"} => "failed" \in sent[c]
        BY <1>2, <1>3, <1>5, <1>7, SMT DEF CallInv
      <3> QED
        BY <1>1, <2>1, <2>2, <3>1, <3>2, <3>3, SMT DEF CallInv, AtYield
    <2>6. Working(c)' => Working(c)
      BY <1>2, <1>3, <1>5, <1>7, SMT DEF Working, Active, AtYield, AtAwait, Told
    <2>7. pc'[c] \notin {"complete", "fallback", "refunded"}
      BY <1>4, <1>5
    <2> QED
      BY <2>1, <2>3, <2>4, <2>5, <2>6, <2>7, StepKeeps, Zenon DEF SiteStep
  <1> QED
    BY <1>6, <1>7

(* The acknowledgement arrives: the claim or the settlement is recorded.      *)
LEMMA AckStep ==
    ASSUME CleaningInv, NEW c \in Calls, post[c] # None, NEW net, NetStep(c, net),
           NEW o \in Replies(site, post[c].receipt), o.reply = "ok", site' = o.to, SiteStep(c),
           Goes(c, AfterAck(c)), network' = net, Done(c), UNCHANGED streamVars
    PROVE  CleaningInv'
  <1> USE DEF CleaningInv
  <1>1. changed' = changed /\ result' = result /\ expired' = expired /\ sent' = sent
    BY DEF streamVars, Done
  <1>2. /\ post[c].receipt \in Receipts
        /\ \/ pc[c] = "claiming" /\ post[c].receipt = "started"
           \/ pc[c] = "charging" /\ post[c].receipt = "succeeded"
           \/ pc[c] \in {"refunding", "failing", "aborted"} /\ post[c].receipt = "failed"
    BY AwaitedReceipt
  <1>3. /\ pc[c] = "claiming" => AfterAck(c) = "cleaning"
        /\ pc[c] = "charging" => AfterAck(c) = "complete"
        /\ pc[c] = "refunding" => AfterAck(c) \in {"fallback", "refunded"}
        /\ pc[c] = "failing" => AfterAck(c) = "errored"
        /\ pc[c] = "aborted" => AfterAck(c) = "aborted"
    BY AckTargets
  <1>4. /\ pc' \in [Calls -> Places]
        /\ pc'[c] = AfterAck(c)
        /\ \A d \in Calls \ {c} : pc'[d] = pc[d]
    <2>1. AfterAck(c) \in Places
      BY <1>2, <1>3, SMT DEF Places, Active, AtYield, Ended, Told
    <2> QED
      BY <2>1, GoesEffect
  <1>5. /\ post' \in [Calls -> Post \cup {None}]
        /\ post'[c] = None
        /\ \A d \in Calls \ {c} : post'[d] = post[d]
    BY DoneEffect DEF Done
  <1>6. /\ pc[c] = "claiming" => site = "pending" /\ site' # "pending"
        /\ pc[c] = "charging" => site' = "charged"
        /\ pc[c] = "refunding" => site' = "returned"
    <2>1. /\ post[c].receipt = "started" => site = "pending" /\ o.to = "claimed"
          /\ post[c].receipt = "succeeded" => o.to = "charged"
          /\ post[c].receipt = "failed" => o.to = "returned"
      BY <1>2, ReplyFacts DEF TypeOK
    <2> QED
      BY <1>2, <2>1, SMT
  <1>7. TypeOK'
    BY <1>1, <1>4, <1>5, Zenon DEF TypeOK, Places, NetStep, SiteStep
  <1>8. Others(c)
    BY <1>1, <1>4, <1>5, Zenon DEF Others, NetStep
  <1>9. CallInv(c)'
    <2>1. \A r \in Receipts : network'[c][r] > 0 => r \in sent'[c]
      BY <1>1, Zenon DEF CallInv, NetStep
    <2> QED
      BY <1>1, <1>2, <1>3, <1>4, <1>5, <2>1, SMT DEF CallInv, AtYield
  <1>10. Working(c)' => Working(c) \/ (site = "pending" /\ site' # "pending")
    BY <1>2, <1>6, SMT DEF Working, Active, AtAwait
  <1>11. /\ pc'[c] = "complete" => site' = "charged"
         /\ pc'[c] \in {"fallback", "refunded"} => site' = "returned"
    BY <1>2, <1>3, <1>4, <1>6, SMT
  <1> QED
    BY <1>1, <1>7, <1>8, <1>9, <1>10, <1>11, StepKeeps, Zenon DEF SiteStep

(* The website handles a POST, and its reply arrives or is lost.              *)
LEMMA WebsiteStep ==
    ASSUME CleaningInv, NEW c \in Calls, NEW receipt \in Receipts, WebsiteHandles(c, receipt)
    PROVE  CleaningInv'
  <1> USE DEF CleaningInv
  <1> DEFINE net == [network EXCEPT ![c][receipt] = @ - 1]
  <1>1. network[c][receipt] > 0 /\ UNCHANGED streamVars
    BY DEF WebsiteHandles
  <1>2. NetStep(c, net)
    BY <1>1, SMT DEF NetStep, TypeOK
  <1>3. PICK o \in Replies(site, receipt) :
        /\ site' = o.to
        /\ \/ UNCHANGED <<pc, post, sent>> /\ network' = net
           \/ /\ post[c] # None
              /\ post[c].receipt = receipt
              /\ IF o.reply = "ok"
                 THEN Goes(c, AfterAck(c)) /\ network' = net /\ Done(c)
                 ELSE ReceiptError(c, net)
    BY DEF WebsiteHandles
  <1>4. receipt \in sent[c]
    BY <1>1, Zenon DEF CallInv
  <1>5. SiteStep(c)
    <2>1. /\ o.to \in Reservations
          /\ site # "pending" => o.to # "pending"
          /\ site \in Settled => o.to = site
          /\ o.to = "charged" => site = "charged" \/ receipt = "succeeded"
      BY <1>3, ReplyFacts DEF TypeOK
    <2> QED
      BY <1>3, <1>4, <2>1, Zenon DEF SiteStep
  <1> HIDE DEF net
  <1>6. CASE UNCHANGED <<pc, post, sent>> /\ network' = net
    <2>1. /\ pc' = pc /\ post' = post /\ sent' = sent /\ network' = net
          /\ changed' = changed /\ result' = result /\ expired' = expired
      BY <1>1, <1>6 DEF streamVars
    <2>2. TypeOK'
      BY <1>2, <1>5, <2>1, Zenon DEF TypeOK, NetStep, SiteStep
    <2>3. Others(c)
      BY <1>2, <2>1, Zenon DEF Others, NetStep
    <2>4. CallInv(c)'
      BY <1>2, <2>1, Zenon DEF CallInv, NetStep
    <2>5. Working(c)' <=> Working(c)
      BY <2>1, Zenon DEF Working
    <2> QED
      BY <1>5, <2>1, <2>2, <2>3, <2>4, <2>5, StepKeeps, Zenon DEF SiteStep
  <1>7. CASE /\ post[c] # None /\ post[c].receipt = receipt /\ o.reply = "ok"
             /\ Goes(c, AfterAck(c)) /\ network' = net /\ Done(c)
    BY <1>1, <1>2, <1>3, <1>5, <1>7, AckStep
  <1>8. CASE post[c] # None /\ ReceiptError(c, net)
    BY <1>1, <1>2, <1>5, <1>8, ReceiptErrorStep
  <1> QED
    BY <1>3, <1>6, <1>7, <1>8, Zenon

(* A POST fails: the same body again, or the end of the submission.           *)
LEMMA PostFailsStep == ASSUME CleaningInv, NEW c \in Calls, PostFails(c) PROVE CleaningInv'
  <1> USE DEF CleaningInv
  <1>1. /\ post[c] # None /\ site' = site
        /\ changed' = changed /\ result' = result /\ expired' = expired
    BY DEF PostFails, streamVars
  <1>2. /\ post[c] \in Post
        /\ post[c].receipt \in Receipts /\ post[c].receipt \in sent[c]
    BY <1>1, AwaitedReceipt
  <1>3. CASE post[c].left > 0
    <2> DEFINE p == [post[c] EXCEPT !.left = @ - 1]
    <2>1. /\ post' = [post EXCEPT ![c] = p]
          /\ network' = Posted(c, post[c].receipt)
          /\ pc' = pc /\ sent' = sent
      BY <1>3 DEF PostFails
    <2>2. p \in Post /\ p.receipt = post[c].receipt
      BY <1>2, <1>3, AttemptsAssumption, SMT DEF Post
    <2> HIDE DEF p
    <2>3. /\ post' \in [Calls -> Post \cup {None}]
          /\ post'[c] = p
          /\ \A d \in Calls \ {c} : post'[d] = post[d]
      BY <2>1, <2>2, Zenon DEF TypeOK
    <2>4. /\ network' \in [Calls -> [Receipts -> Nat]]
          /\ \A r \in Receipts : network'[c][r] > 0 => r = post[c].receipt \/ network[c][r] > 0
          /\ \A d \in Calls \ {c} : network'[d] = network[d]
      BY <1>2, <2>1, PostedEffect DEF TypeOK
    <2>5. TypeOK'
      BY <1>1, <2>1, <2>3, <2>4, Zenon DEF TypeOK
    <2>6. Others(c)
      BY <1>1, <2>1, <2>3, <2>4, Zenon DEF Others
    <2>7. CallInv(c)'
      BY <1>1, <1>2, <2>1, <2>2, <2>3, <2>4, Zenon DEF CallInv
    <2>8. Working(c)' <=> Working(c)
      BY <2>1, Zenon DEF Working
    <2> QED
      BY <1>1, <2>1, <2>5, <2>6, <2>7, <2>8, LocalStepKeeps, Zenon
  <1>4. CASE ~(post[c].left > 0)
    <2>1. ReceiptError(c, network) /\ UNCHANGED streamVars
      BY <1>4 DEF PostFails
    <2>2. NetStep(c, network) /\ SiteStep(c)
      BY <1>1, Zenon DEF NetStep, SiteStep, TypeOK
    <2> QED
      BY <1>1, <2>1, <2>2, ReceiptErrorStep
  <1> QED
    BY <1>3, <1>4

----------------------------------------------------------------------------
(* Every step *)

LEMMA CallStep ==
    ASSUME CleaningInv, NEW c \in Calls,
           \/ Claim(c) \/ CleanDeterministically(c) \/ Resume(c)
           \/ ProviderDelta(c) \/ ProviderResult(c) \/ ProviderEnds(c)
           \/ ProviderRaises(c) \/ Deadline(c) \/ Cancel(c) \/ Drop(c)
    PROVE  CleaningInv'
  <1>1. 1 \in 1 .. MaxAttempts /\ MaxAttempts \in 1 .. MaxAttempts
    BY AttemptsAssumption, SMT
  <1>2. /\ "started" \in Receipts /\ "succeeded" \in Receipts /\ "failed" \in Receipts
        /\ {"claiming", "charging", "refunding", "failing", "aborted"} \subseteq Places
    BY SMT DEF Receipts, Places, Active, AtAwait, Ended
  <1>3. /\ changed \in [Calls -> BOOLEAN]
        /\ result \in [Calls -> {"none", "empty", "billable"}]
        /\ expired \in [Calls -> BOOLEAN]
    BY DEF CleaningInv, TypeOK
  <1>4. ASSUME UNCHANGED streamVars
        PROVE  StreamTypes /\ OtherResults(c) /\ result' = result
    BY <1>3, <1>4, Zenon DEF streamVars, StreamTypes, OtherResults
  <1>5. CASE Claim(c)
    <2>1. MaySubmit(c, "claiming", "started")
      BY <1>5 DEF Claim, MaySubmit
    <2> QED
      BY <1>1, <1>2, <1>4, <1>5, <2>1, SubmitStep DEF Claim
  <1>6. CASE CleanDeterministically(c)
    <2>1. /\ pc[c] = "cleaning" /\ result' = result /\ expired' = expired
          /\ UNCHANGED postVars /\ site' = site
          /\ changed' \in [Calls -> BOOLEAN]
      BY <1>3, <1>6, Zenon DEF CleanDeterministically
    <2>2. StreamTypes /\ OtherResults(c)
      BY <1>3, <2>1, Zenon DEF StreamTypes, OtherResults
    <2>3. Goes(c, "rephrasing") \/ Goes(c, "dropped")
      BY <1>6 DEF CleanDeterministically
    <2> QED
      BY <2>1, <2>2, <2>3, MoveStep DEF AtYield
  <1>7. CASE Resume(c)
    BY <1>4, <1>7, MoveStep DEF Resume, AtYield
  <1>8. CASE ProviderDelta(c)
    BY <1>4, <1>8, MoveStep DEF ProviderDelta, AtYield
  <1>9. CASE ProviderResult(c)
    <2>1. /\ pc[c] = "provider" /\ pc' = pc /\ changed' = changed /\ expired' = expired
          /\ UNCHANGED postVars /\ site' = site
      BY <1>9 DEF ProviderResult
    <2>2. PICK r \in {"empty", "billable"} : result' = [result EXCEPT ![c] = r]
      BY <1>9 DEF ProviderResult
    <2>3. StreamTypes /\ OtherResults(c)
      BY <1>3, <2>1, <2>2, SMT DEF StreamTypes, OtherResults
    <2> QED
      BY <2>1, <2>3, MoveStep
  <1>10. ASSUME pc[c] = "provider", Settle(c, result'[c]), StreamTypes, OtherResults(c), site' = site
         PROVE  CleaningInv'
    <2>1. CASE result'[c] = "billable"
      <3>1. Goes(c, "charging") /\ Submit(c, "succeeded", MaxAttempts)
        BY <1>10, <2>1, Zenon DEF Settle
      <3>2. MaySubmit(c, "charging", "succeeded")
        BY <1>10, <2>1 DEF MaySubmit
      <3> QED
        BY <1>1, <1>2, <1>10, <3>1, <3>2, SubmitStep
    <2>2. CASE result'[c] # "billable"
      <3>1. Goes(c, "refunding") /\ Submit(c, "failed", MaxAttempts)
        BY <1>10, <2>2, Zenon DEF Settle
      <3>2. MaySubmit(c, "refunding", "failed")
        BY <1>10 DEF MaySubmit
      <3> QED
        BY <1>1, <1>2, <1>10, <3>1, <3>2, SubmitStep
    <2> QED
      BY <2>1, <2>2
  <1>11. CASE ProviderEnds(c)
    BY <1>4, <1>10, <1>11 DEF ProviderEnds
  <1>12. CASE ProviderRaises(c)
    <2>1. MaySubmit(c, "failing", "failed")
      BY <1>12 DEF ProviderRaises, MaySubmit
    <2> QED
      BY <1>1, <1>2, <1>4, <1>12, <2>1, SubmitStep DEF ProviderRaises
  <1>13. CASE Deadline(c)
    <2>1. changed' = changed /\ site' = site /\ expired' \in [Calls -> BOOLEAN]
      BY <1>3, <1>13, Zenon DEF Deadline
    <2>2. CASE pc[c] = "provider" /\ result' = [result EXCEPT ![c] = "empty"] /\ Settle(c, "empty")
      <3>1. result'[c] = "empty" /\ StreamTypes /\ OtherResults(c)
        BY <1>3, <2>1, <2>2, SMT DEF StreamTypes, OtherResults
      <3> QED
        BY <1>10, <2>1, <2>2, <3>1
    <2>3. CASE pc[c] = "sending" /\ Goes(c, "dropped") /\ UNCHANGED <<result, postVars>>
      <3>1. StreamTypes /\ OtherResults(c)
        BY <1>3, <2>1, <2>3, Zenon DEF StreamTypes, OtherResults
      <3> QED
        BY <2>1, <2>3, <3>1, MoveStep DEF AtYield
    <2> QED
      BY <1>13, <2>2, <2>3 DEF Deadline
  <1>14. CASE Cancel(c)
    <2>1. MaySubmit(c, "aborted", "failed")
      <3>1. pc[c] \in {"provider", "charging", "refunding"} /\ result' = result
        BY <1>4, <1>14 DEF Cancel
      <3> QED
        BY <3>1, Zenon DEF MaySubmit
    <2> QED
      BY <1>1, <1>2, <1>4, <1>14, <2>1, SubmitStep DEF Cancel
  <1>15. CASE Drop(c)
    BY <1>15, DropStep
  <1> QED
    BY <1>5, <1>6, <1>7, <1>8, <1>9, <1>11, <1>12, <1>13, <1>14, <1>15

(* After a restart the receipts in flight may still be handled.               *)
LEMMA RestartStep == ASSUME CleaningInv, Restart PROVE CleaningInv'
  <1> USE DEF CleaningInv
  <1>1. /\ pc' = [c \in Calls |-> IF pc[c] \in Active THEN "reset" ELSE pc[c]]
        /\ post' = [c \in Calls |-> None]
        /\ UNCHANGED <<changed, result, expired, network, sent, site>>
    BY DEF Restart, streamVars
  <1>2. \A c \in Calls : /\ pc[c] \in Active => pc'[c] = "reset"
                         /\ pc[c] \notin Active => pc'[c] = pc[c]
                         /\ post'[c] = None
    BY <1>1, Zenon
  <1>3. TypeOK'
    BY <1>1, Zenon DEF TypeOK, Ended
  <1>4. ASSUME NEW c \in Calls PROVE CallInv(c)'
    <2>1. CASE pc[c] \in Active
      BY <1>1, <1>2, <2>1, SMT DEF CallInv, AtYield
    <2>2. CASE pc[c] \notin Active
      BY <1>1, <1>2, <2>2, Zenon DEF CallInv
    <2> QED
      BY <2>1, <2>2
  <1>5. \A c \in Calls : Working(c)' => Working(c)
    BY <1>2, SMT DEF Working, Active, AtYield, AtAwait, Told
  <1>6. ClaimIsExclusive'
    BY <1>1, <1>5, Zenon DEF ClaimIsExclusive
  <1>7. ToldIsSettled'
    BY <1>1, <1>2, SMT DEF ToldIsSettled
  <1>8. ChargedNeedsRewrite'
    BY <1>1, Zenon DEF ChargedNeedsRewrite
  <1> QED
    BY <1>3, <1>4, <1>6, <1>7, <1>8

LEMMA ReconcileStep == ASSUME CleaningInv, Reconcile PROVE CleaningInv'
  <1> USE DEF CleaningInv
  <1>1. /\ site = "claimed" /\ site' = "returned"
        /\ UNCHANGED <<pc, changed, result, expired, post, network, sent>>
    BY DEF Reconcile, streamVars, postVars
  <1>2. TypeOK'
    BY <1>1, Zenon DEF TypeOK, Reservations
  <1>3. \A c \in Calls : CallInv(c)' /\ (Working(c)' <=> Working(c))
    BY <1>1, UnchangedCall, Zenon DEF Working
  <1>4. ClaimIsExclusive'
    BY <1>1, <1>3, Zenon DEF ClaimIsExclusive
  <1>5. ToldIsSettled'
    BY <1>1, Zenon DEF ToldIsSettled
  <1>6. ChargedNeedsRewrite'
    BY <1>1, Zenon DEF ChargedNeedsRewrite
  <1> QED
    BY <1>2, <1>3, <1>4, <1>5, <1>6

LEMMA CleaningStart == Init => CleaningInv
  <1> SUFFICES ASSUME Init PROVE CleaningInv
    OBVIOUS
  <1>1. TypeOK
    BY SMT DEF Init, TypeOK, Reservations
  <1>2. ASSUME NEW c \in Calls PROVE CallInv(c)
    BY <1>2, SMT DEF Init, CallInv, AtYield
  <1>3. \A c \in Calls : pc[c] = "idle"
    BY Zenon DEF Init
  <1>4. ClaimIsExclusive /\ ToldIsSettled
    BY <1>3, SMT DEF ClaimIsExclusive, ToldIsSettled, Working, Active, AtYield, AtAwait, Told
  <1>5. ChargedNeedsRewrite
    BY Zenon DEF Init, ChargedNeedsRewrite
  <1> QED
    BY <1>1, <1>2, <1>4, <1>5 DEF CleaningInv

LEMMA CleaningStep == ASSUME CleaningInv, [Next]_vars PROVE CleaningInv'
  <1>1. CASE UNCHANGED vars
    <2>1. UNCHANGED <<pc, changed, result, post, network, site, sent, expired>>
      BY <1>1 DEF vars
    <2>2. TypeOK'
      BY <2>1, Zenon DEF CleaningInv, TypeOK
    <2>3. \A c \in Calls : CallInv(c)' /\ (Working(c)' <=> Working(c))
      BY <2>1, UnchangedCall, Zenon DEF CleaningInv, Working
    <2> QED
      BY <2>1, <2>2, <2>3, Zenon
         DEF CleaningInv, ClaimIsExclusive, ToldIsSettled, ChargedNeedsRewrite
  <1> QED
    BY <1>1, CallStep, WebsiteStep, PostFailsStep, RestartStep, ReconcileStep DEF Next

(* A capability is worked on by at most one call, once the website has left   *)
(* `pending`, whatever happens to the claims (app.py:737-744, 823-830).       *)
THEOREM ClaimExclusive == Spec => []ClaimIsExclusive
  <1>1. CleaningInv => ClaimIsExclusive
    BY DEF CleaningInv
  <1> QED
    BY <1>1, CleaningStart, CleaningStep, PTL DEF Spec

(* What a browser is told of its credits is what the website recorded, also   *)
(* after lost acknowledgements and repeated receipts (app.py:264-337).        *)
THEOREM ToldSettled == Spec => []ToldIsSettled
  <1>1. CleaningInv => ToldIsSettled
    BY DEF CleaningInv
  <1> QED
    BY <1>1, CleaningStart, CleaningStep, PTL DEF Spec

(* A reservation is charged only over a rewrite with a normal stop, in        *)
(* whatever order receipts arrive (app.py:264-284).                           *)
THEOREM ChargedForRewrite == Spec => []ChargedNeedsRewrite
  <1>1. CleaningInv => ChargedNeedsRewrite
    BY DEF CleaningInv
  <1> QED
    BY <1>1, CleaningStart, CleaningStep, PTL DEF Spec

(* A stream that told an outcome, or was cancelled at an await, has posted the*)
(* receipt of that outcome and no other after it (app.py:264-341).            *)
THEOREM EndedReported == Spec => []EndedStreamsReport
  <1>1. CleaningInv => EndedStreamsReport
    BY Zenon DEF CleaningInv, CallInv, EndedStreamsReport
  <1> QED
    BY <1>1, CleaningStart, CleaningStep, PTL DEF Spec

(* Type correctness of the text stream.                                       *)
THEOREM CleaningTypes == Spec => []TypeOK
  <1>1. CleaningInv => TypeOK
    BY DEF CleaningInv
  <1> QED
    BY <1>1, CleaningStart, CleaningStep, PTL DEF Spec
----------------------------------------------------------------------------
(* The settlement *)

TellingPlaces == {"complete", "fallback", "refunded"}

(* A step of one call that neither the website nor its browser notices. It    *)
(* may be the one that asks for the charge.                                   *)
Quiet(c) ==
    /\ site' = site
    /\ \A d \in Calls \ {c} : pc'[d] = pc[d] /\ sent'[d] = sent[d]
    /\ pc'[c] = pc[c] \/ (pc[c] \notin TellingPlaces /\ pc'[c] \notin TellingPlaces)
    /\ Working(c)' => Working(c)
    /\ sent[c] \subseteq sent'[c]
    /\ "succeeded" \in sent'[c] => "succeeded" \in sent[c] \/ Working(c)

(* What a browser was told follows from where its call is.                    *)
LEMMA ToldFacts ==
    /\ \A d \in Calls : (pc[d] \notin TellingPlaces => CreditsTold[d] = "nothing")
    /\ \A d \in Calls : pc[d] = "complete" => CreditsTold[d] = "charged"
    /\ \A d \in Calls : pc[d] \in {"fallback", "refunded"} => CreditsTold[d] = "returned"
    /\ DOMAIN CreditsTold = Calls
  BY SMT DEF CreditsTold, TellingPlaces

LEMMA ToldKept ==
    ASSUME \A d \in Calls : \/ pc'[d] = pc[d]
                            \/ pc[d] \notin TellingPlaces /\ pc'[d] \notin TellingPlaces
    PROVE  CreditsTold' = CreditsTold
  <1>1. ASSUME NEW d \in Calls PROVE CreditsTold'[d] = CreditsTold[d]
    <2>1. CASE pc'[d] = pc[d]
      BY <2>1, Zenon DEF CreditsTold
    <2>2. CASE pc[d] \notin TellingPlaces /\ pc'[d] \notin TellingPlaces
      BY <2>2, SMT DEF CreditsTold, TellingPlaces
    <2> QED
      BY <2>1, <2>2
  <1> QED
    BY <1>1, Zenon DEF CreditsTold

(* What has been rewritten stays so, and only a holder adds to it.            *)
LEMMA RewrittenKept ==
    ASSUME CleaningInv, CleaningInv', NEW c \in Calls,
           \A d \in Calls \ {c} : sent'[d] = sent[d],
           sent[c] \subseteq sent'[c],
           "succeeded" \in sent'[c] => "succeeded" \in sent[c] \/ Working(c)
    PROVE  Rewritten' = Rewritten \/ (Rewritten' = TRUE /\ Holders # {})
  <1>1. \A d \in Calls : "succeeded" \in sent[d] => result[d] = "billable"
    BY Zenon DEF CleaningInv, CallInv
  <1>2. \A d \in Calls : "succeeded" \in sent'[d] => result'[d] = "billable"
    BY Zenon DEF CleaningInv, CallInv
  <1>3. Rewritten <=> \E d \in Calls : "succeeded" \in sent[d]
    BY <1>1, Zenon DEF Rewritten
  <1>4. Rewritten' <=> \E d \in Calls : "succeeded" \in sent'[d]
    BY <1>2, Zenon DEF Rewritten
  <1>5. Rewritten \in BOOLEAN /\ Rewritten' \in BOOLEAN
    BY DEF Rewritten
  <1>6. CASE Working(c)
    <2>1. Holders # {}
      BY <1>6, Zenon DEF Holders
    <2>2. Rewritten => Rewritten'
      BY <1>3, <1>4, Zenon
    <2> QED
      BY <1>5, <2>1, <2>2, Zenon
  <1>7. CASE ~Working(c)
    <2>1. \A d \in Calls : "succeeded" \in sent'[d] <=> "succeeded" \in sent[d]
      BY <1>7, Zenon
    <2> QED
      BY <1>3, <1>4, <1>5, <2>1, Zenon
  <1> QED
    BY <1>6, <1>7

LEMMA QuietSettles ==
    ASSUME CleaningInv, CleaningInv', NEW c \in Calls, Quiet(c)
    PROVE  Reservation!SettlementNext
  <1>1. CreditsTold' = CreditsTold
    BY ToldKept, Zenon DEF Quiet
  <1>2. Holders' \in SUBSET Holders
    BY Zenon DEF Quiet, Holders, Working
  <1>3. Rewritten' = Rewritten \/ (Rewritten' = TRUE /\ Holders # {})
    BY RewrittenKept, Zenon DEF Quiet
  <1> QED
    BY <1>1, <1>2, <1>3, Zenon
       DEF Quiet, Reservation!SettlementNext, Reservation!Finished, Reservation!LetGo

(* No step of the generator is noticed outside.                               *)
LEMMA GeneratorQuiet ==
    ASSUME CleaningInv, NEW c \in Calls,
           \/ Claim(c) \/ CleanDeterministically(c) \/ Resume(c)
           \/ ProviderDelta(c) \/ ProviderResult(c) \/ ProviderEnds(c)
           \/ ProviderRaises(c) \/ Deadline(c) \/ Cancel(c) \/ Drop(c)
    PROVE  Quiet(c)
  <1>1. pc \in [Calls -> Places] /\ sent \in [Calls -> SUBSET Receipts]
    BY Zenon DEF CleaningInv, TypeOK, Places
  <1>2. site' = site
    BY Zenon DEF Claim, CleanDeterministically, Resume, ProviderDelta, ProviderResult,
                 ProviderEnds, ProviderRaises, Deadline, Cancel, Drop
  <1>3. ASSUME NEW to, Goes(c, to)
        PROVE  pc'[c] = to /\ \A d \in Calls \ {c} : pc'[d] = pc[d]
    BY <1>1, <1>3, Zenon DEF Goes
  <1>4. ASSUME NEW to, Goes(c, to), to \notin TellingPlaces, pc[c] \in Active \ {"claiming"},
               to \in Places, UNCHANGED sent
        PROVE  Quiet(c)
    <2>1. Working(c)
      BY <1>4, Zenon DEF Working
    <2>2. pc[c] \notin TellingPlaces
      BY <1>4, SMT DEF Active, AtYield, AtAwait, TellingPlaces
    <2> QED
      BY <1>2, <1>3, <1>4, <2>1, <2>2, Zenon DEF Quiet
  <1>5. ASSUME NEW to, Goes(c, to), NEW receipt \in Receipts, NEW attempts,
               Submit(c, receipt, attempts),
               \/ /\ to \in {"charging", "refunding", "failing", "aborted"}
                  /\ pc[c] \in Active \ {"claiming"}
               \/ to = "claiming" /\ pc[c] = "idle" /\ receipt = "started"
        PROVE  Quiet(c)
    <2>1. /\ sent'[c] = sent[c] \cup {receipt}
          /\ \A d \in Calls \ {c} : sent'[d] = sent[d]
      BY <1>1, <1>5, SMT DEF Submit
    <2>2. "succeeded" \in sent'[c] => "succeeded" \in sent[c] \/ Working(c)
      BY <1>5, <2>1, SMT DEF Working
    <2>3. Working(c)' => Working(c)
      BY <1>3, <1>5, SMT DEF Working, Active, AtYield, AtAwait, Told
    <2>4. pc[c] \notin TellingPlaces /\ to \notin TellingPlaces
      BY <1>5, SMT DEF Active, AtYield, AtAwait, TellingPlaces
    <2> QED
      BY <1>2, <1>3, <1>5, <2>1, <2>2, <2>3, <2>4, Zenon DEF Quiet
  <1>6. /\ {"cleaning", "rephrasing", "sending", "provider", "charging", "refunding", "failing"}
             \subseteq Active \ {"claiming"}
        /\ {"rephrasing", "provider", "sending", "dropped"} \subseteq Places
        /\ {"rephrasing", "provider", "sending", "dropped"} \cap TellingPlaces = {}
        /\ Receipts = {"started", "succeeded", "failed"}
    BY SMT DEF Places, Active, AtYield, AtAwait, Ended, Told, TellingPlaces, Receipts
  <1>7. CASE Claim(c)
    BY <1>5, <1>6, <1>7, Zenon DEF Claim
  <1>8. CASE CleanDeterministically(c)
    BY <1>4, <1>6, <1>8, SMT DEF CleanDeterministically, postVars
  <1>9. CASE Resume(c)
    BY <1>4, <1>6, <1>9, SMT DEF Resume, postVars
  <1>10. CASE ProviderDelta(c)
    BY <1>4, <1>6, <1>10, SMT DEF ProviderDelta, postVars
  <1>11. CASE ProviderResult(c)
    <2>1. pc' = pc /\ sent' = sent
      BY <1>11, SMT DEF ProviderResult, postVars
    <2> QED
      BY <1>2, <2>1, Zenon DEF Quiet, Working
  <1>12. ASSUME NEW r, pc[c] = "provider", Settle(c, r) PROVE Quiet(c)
    <2>1. CASE r = "billable"
      BY <1>5, <1>6, <1>12, <2>1, Zenon DEF Settle
    <2>2. CASE r # "billable"
      BY <1>5, <1>6, <1>12, <2>2, Zenon DEF Settle
    <2> QED
      BY <2>1, <2>2
  <1>13. CASE ProviderEnds(c)
    BY <1>12, <1>13 DEF ProviderEnds
  <1>14. CASE ProviderRaises(c)
    BY <1>5, <1>6, <1>14, Zenon DEF ProviderRaises
  <1>15. CASE Deadline(c)
    <2>1. CASE pc[c] = "provider" /\ Settle(c, "empty")
      BY <1>12, <2>1
    <2>2. CASE pc[c] = "sending" /\ Goes(c, "dropped") /\ UNCHANGED <<result, postVars>>
      BY <1>4, <1>6, <2>2, SMT DEF postVars
    <2> QED
      BY <1>15, <2>1, <2>2 DEF Deadline
  <1>16. CASE Cancel(c)
    BY <1>5, <1>6, <1>16, Zenon DEF Cancel
  <1>17. CASE Drop(c)
    BY <1>4, <1>6, <1>17, SMT DEF Drop, AtYield
  <1> QED
    BY <1>7, <1>8, <1>9, <1>10, <1>11, <1>13, <1>14, <1>15, <1>16, <1>17

(* Nor is a failed submission, wherever it leads.                             *)
LEMMA ErrorQuiet ==
    ASSUME CleaningInv, NEW c \in Calls, post[c] # None, NEW net, ReceiptError(c, net),
           site' = site
    PROVE  Quiet(c)
  <1>1. pc \in [Calls -> Places] /\ sent \in [Calls -> SUBSET Receipts]
    BY Zenon DEF CleaningInv, TypeOK, Places
  <1>2. pc[c] \in {"claiming", "charging", "refunding", "failing", "aborted"}
    BY AwaitedReceipt
  <1>3. /\ pc'[c] = AfterError(c)
        /\ \A d \in Calls \ {c} : pc'[d] = pc[d]
    BY <1>1, Zenon DEF ReceiptError, Goes
  <1>4. /\ pc[c] = "claiming" => pc'[c] = "unclaimed"
        /\ pc[c] \in {"charging", "refunding"} => pc'[c] = "failing"
        /\ pc[c] = "failing" => pc'[c] = "errored"
        /\ pc[c] = "aborted" => pc'[c] = "aborted"
    BY <1>3, ErrorTargets, Zenon
  <1>5. pc[c] \notin TellingPlaces /\ pc'[c] \notin TellingPlaces
    BY <1>2, <1>4, SMT DEF TellingPlaces
  <1>6. Working(c)' => Working(c)
    BY <1>2, <1>4, SMT DEF Working, Active, AtYield, AtAwait, Told
  <1>7. \/ sent' = sent
        \/ sent' = [sent EXCEPT ![c] = @ \cup {"failed"}]
    BY Zenon DEF ReceiptError, Done
  <1>8. /\ sent[c] \subseteq sent'[c]
        /\ "succeeded" \in sent'[c] => "succeeded" \in sent[c]
        /\ \A d \in Calls \ {c} : sent'[d] = sent[d]
    BY <1>1, <1>7, SMT
  <1> QED
    BY <1>3, <1>5, <1>6, <1>8, Zenon DEF Quiet

LEMMA PostFailsQuiet == ASSUME CleaningInv, NEW c \in Calls, PostFails(c) PROVE Quiet(c)
  <1>1. CASE post[c].left > 0
    BY <1>1, Zenon DEF PostFails, Quiet, Working
  <1>2. CASE ~(post[c].left > 0)
    BY <1>2, ErrorQuiet, Zenon DEF PostFails
  <1> QED
    BY <1>1, <1>2

(* A receipt claims a pending reservation, settles a claimed one, or changes  *)
(* nothing, as one does that is refused.                                      *)
LEMMA ReplyMoves ==
    ASSUME NEW r \in Receipts, NEW s \in Reservations, NEW o \in Replies(s, r)
    PROVE  /\ \/ o.to = s
              \/ s = "pending" /\ o.to = "claimed" /\ r = "started"
              \/ s = "claimed" /\ o.to = SettledBy(r) /\ r # "started"
           /\ o.reply # "ok" => o.to = s
  <1> USE DEF Receipts, Reservations
  <1>1. CASE r = "started" /\ s = "pending"
    BY <1>1, SMT DEF Replies
  <1>2. CASE r # "started" /\ s = "claimed"
    BY <1>2, SMT DEF Replies, SettledBy
  <1>3. CASE r # "started" /\ s = SettledBy(r)
    BY <1>3, SMT DEF Replies, SettledBy
  <1>4. CASE /\ ~(r = "started" /\ s = "pending")
             /\ ~(r # "started" /\ s = "claimed")
             /\ ~(r # "started" /\ s = SettledBy(r))
    BY <1>4, SMT DEF Replies
  <1> QED
    BY <1>1, <1>2, <1>3, <1>4

(* What the website records when it handles a POST of a call.                 *)
Recorded ==
    \/ site' = site
    \/ site = "pending" /\ site' = "claimed"
    \/ site = "claimed" /\ site' \in Settled /\ (site' = "charged" => Rewritten)

LEMMA PostRecorded ==
    ASSUME CleaningInv, NEW c \in Calls, NEW r \in Receipts, network[c][r] > 0,
           NEW o \in Replies(site, r), site' = o.to
    PROVE  Recorded
  <1>1. site \in Reservations
    BY DEF CleaningInv, TypeOK
  <1>2. \/ o.to = site
        \/ site = "pending" /\ o.to = "claimed" /\ r = "started"
        \/ site = "claimed" /\ o.to = SettledBy(r) /\ r # "started"
    BY <1>1, ReplyMoves
  <1>3. r = "succeeded" => Rewritten
    BY Zenon DEF CleaningInv, CallInv, Rewritten
  <1>4. SettledBy(r) \in Settled /\ (SettledBy(r) = "charged" => r = "succeeded")
    BY SMT DEF SettledBy, Settled
  <1> QED
    BY <1>2, <1>3, <1>4, Zenon DEF Recorded

(* The website handles a POST whose reply nobody waits for.                   *)
LEMMA LostReplySettles ==
    ASSUME CleaningInv, CleaningInv', Recorded, UNCHANGED <<pc, sent, result>>
    PROVE  [Reservation!SettlementNext]_(Reservation!settlementVars)
  <1>1. CreditsTold' = CreditsTold
    BY ToldKept, Zenon
  <1>2. Holders' = Holders /\ (Rewritten' <=> Rewritten)
    BY Zenon DEF Holders, Working, Rewritten
  <1>3. Rewritten' = Rewritten
    BY <1>2, Zenon DEF Rewritten
  <1>4. CASE site' = site
    BY <1>1, <1>2, <1>3, <1>4 DEF Reservation!settlementVars
  <1>5. CASE site = "pending" /\ site' = "claimed"
    <2>1. \A d \in Calls : ~Working(d)
      BY <1>5, Zenon DEF CleaningInv, ClaimIsExclusive
    <2>2. Holders' = {}
      BY <1>2, <2>1, Zenon DEF Holders
    <2> QED
      BY <1>1, <1>3, <1>5, <2>2, Zenon DEF Reservation!SettlementNext, Reservation!Claimed
  <1>6. CASE site = "claimed" /\ site' \in Settled /\ (site' = "charged" => Rewritten)
    BY <1>1, <1>2, <1>3, <1>6, Zenon
       DEF Reservation!SettlementNext, Reservation!Settles, Reservation!LetGo, Settled,
           Reservation!Settled
  <1> QED
    BY <1>4, <1>5, <1>6 DEF Recorded

(* The acknowledgement of the claim makes a holder, that of a settlement is   *)
(* told.                                                                      *)
LEMMA AckSettles ==
    ASSUME CleaningInv, CleaningInv', Recorded, NEW c \in Calls, post[c] # None,
           NEW o \in Replies(site, post[c].receipt), o.reply = "ok", site' = o.to,
           Goes(c, AfterAck(c)), Done(c), UNCHANGED streamVars
    PROVE  [Reservation!SettlementNext]_(Reservation!settlementVars)
  <1>1. sent' = sent /\ result' = result
    BY DEF Done, streamVars
  <1>2. /\ post[c].receipt \in Receipts
        /\ \/ pc[c] = "claiming" /\ post[c].receipt = "started"
           \/ pc[c] = "charging" /\ post[c].receipt = "succeeded"
           \/ pc[c] \in {"refunding", "failing", "aborted"} /\ post[c].receipt = "failed"
    BY AwaitedReceipt
  <1>3. pc'[c] = AfterAck(c) /\ \A d \in Calls \ {c} : pc'[d] = pc[d]
    BY Zenon DEF CleaningInv, TypeOK, Goes
  <1>4. /\ pc[c] = "claiming" => pc'[c] = "cleaning"
        /\ pc[c] = "charging" => pc'[c] = "complete"
        /\ pc[c] = "refunding" => pc'[c] \in {"fallback", "refunded"}
        /\ pc[c] = "failing" => pc'[c] = "errored"
        /\ pc[c] = "aborted" => pc'[c] = "aborted"
    BY <1>3, AckTargets
  <1>5. Rewritten' = Rewritten
    BY <1>1, Zenon DEF Rewritten
  <1>6. /\ pc[c] = "claiming" => site = "pending" /\ site' = "claimed"
        /\ pc[c] = "charging" => site' = "charged"
        /\ pc[c] = "refunding" => site' = "returned"
    <2>1. site \in Reservations
      BY DEF CleaningInv, TypeOK
    <2>2. /\ post[c].receipt = "started" => site = "pending" /\ o.to = "claimed"
          /\ post[c].receipt = "succeeded" => o.to = "charged"
          /\ post[c].receipt = "failed" => o.to = "returned"
      BY <1>2, <2>1, ReplyFacts
    <2> QED
      BY <1>2, <2>2, SMT
  <1>7. CASE pc[c] = "claiming"
    <2>1. \A d \in Calls : ~Working(d)
      BY <1>6, <1>7, Zenon DEF CleaningInv, ClaimIsExclusive
    <2>2. Working(c)'
      BY <1>4, <1>7, SMT DEF Working, Active, AtYield
    <2>3. \A d \in Calls \ {c} : ~Working(d)'
      BY <1>3, <2>1, Zenon DEF Working
    <2>4. Holders' = {c}
      BY <2>2, <2>3, Zenon DEF Holders
    <2>5. CreditsTold' = CreditsTold
      <3>1. pc[c] \notin TellingPlaces /\ pc'[c] \notin TellingPlaces
        BY <1>4, <1>7, SMT DEF TellingPlaces
      <3> QED
        BY <1>3, <3>1, ToldKept, Zenon
    <2> QED
      BY <1>5, <1>6, <1>7, <2>4, <2>5, Zenon DEF Reservation!SettlementNext, Reservation!Claimed
  <1>8. CASE pc[c] # "claiming"
    <2>1. Working(c) /\ Working(c)'
      BY <1>2, <1>4, <1>8, SMT DEF Working, Active, AtAwait, Told
    <2>2. Holders' = Holders /\ c \in Holders
      BY <1>3, <2>1, Zenon DEF Holders, Working
    <2>3. Reservation!LetGo
      BY <2>2, Zenon DEF Reservation!LetGo
    <2>4. site # "pending"
      BY <2>1, Zenon DEF CleaningInv, ClaimIsExclusive
    <2>5. Reservation!Settles \/ site' = site
      BY <2>4, Zenon DEF Recorded, Reservation!Settles, Settled, Reservation!Settled
    <2>6. CASE pc[c] \in {"charging", "refunding"}
      <3>1. site' \in Settled
        BY <1>6, <2>6, SMT DEF Settled
      <3>2. CreditsTold[c] = "nothing"
        <4>1. pc[c] \notin TellingPlaces
          BY <2>6, SMT DEF TellingPlaces
        <4> QED
          BY <4>1, ToldFacts, Zenon
      <3>3. CreditsTold'[c] = site'
        <4>1. /\ pc'[c] = "complete" => CreditsTold'[c] = "charged"
              /\ pc'[c] \in {"fallback", "refunded"} => CreditsTold'[c] = "returned"
          BY SMT DEF CreditsTold
        <4> QED
          BY <1>4, <1>6, <2>6, <4>1, SMT
      <3>4. \A d \in Calls \ {c} : CreditsTold'[d] = CreditsTold[d]
        BY <1>3, Zenon DEF CreditsTold
      <3>5. CreditsTold' = [CreditsTold EXCEPT ![c] = site']
        <4>1. PICK f : f = CreditsTold
          OBVIOUS
        <4>2. f = [d \in Calls |-> f[d]]
          BY <4>1, Zenon DEF CreditsTold
        <4>3. CreditsTold' = [d \in Calls |-> CreditsTold'[d]]
          BY Zenon DEF CreditsTold
        <4>4. \A d \in Calls : CreditsTold'[d] = IF d = c THEN site' ELSE f[d]
          BY <3>3, <3>4, <4>1, Zenon
        <4>5. [f EXCEPT ![c] = site'] = [d \in Calls |-> IF d = c THEN site' ELSE f[d]]
          BY <4>2, Zenon
        <4> QED
          BY <4>1, <4>3, <4>4, <4>5, Zenon
      <3>6. Reservation!Tells
        BY <2>2, <3>1, <3>2, <3>5, Zenon DEF Reservation!Tells, Settled, Reservation!Settled
      <3> QED
        BY <1>5, <2>3, <2>5, <3>6, Zenon DEF Reservation!SettlementNext
    <2>7. CASE pc[c] \in {"failing", "aborted"}
      <3>1. pc[c] \notin TellingPlaces /\ pc'[c] \notin TellingPlaces
        BY <1>4, <2>7, SMT DEF TellingPlaces
      <3>2. CreditsTold' = CreditsTold
        BY <1>3, <3>1, ToldKept, Zenon
      <3> QED
        BY <1>5, <2>3, <2>5, <3>2, Zenon DEF Reservation!SettlementNext
    <2> QED
      BY <1>2, <1>8, <2>6, <2>7, SMT
  <1> QED
    BY <1>7, <1>8

LEMMA WebsiteSettles ==
    ASSUME CleaningInv, CleaningInv', NEW c \in Calls, NEW receipt \in Receipts,
           WebsiteHandles(c, receipt)
    PROVE  [Reservation!SettlementNext]_(Reservation!settlementVars)
  <1> DEFINE net == [network EXCEPT ![c][receipt] = @ - 1]
  <1>1. network[c][receipt] > 0 /\ UNCHANGED streamVars
    BY DEF WebsiteHandles
  <1>2. PICK o \in Replies(site, receipt) :
        /\ site' = o.to
        /\ \/ UNCHANGED <<pc, post, sent>> /\ network' = net
           \/ /\ post[c] # None
              /\ post[c].receipt = receipt
              /\ IF o.reply = "ok"
                 THEN Goes(c, AfterAck(c)) /\ network' = net /\ Done(c)
                 ELSE ReceiptError(c, net)
    BY DEF WebsiteHandles
  <1> HIDE DEF net
  <1>3. Recorded
    BY <1>1, <1>2, PostRecorded
  <1>4. CASE UNCHANGED <<pc, post, sent>> /\ network' = net
    BY <1>1, <1>3, <1>4, LostReplySettles DEF streamVars
  <1>5. CASE /\ post[c] # None /\ post[c].receipt = receipt /\ o.reply = "ok"
             /\ Goes(c, AfterAck(c)) /\ Done(c)
    BY <1>1, <1>2, <1>3, <1>5, AckSettles
  <1>6. CASE post[c] # None /\ ReceiptError(c, net) /\ o.reply # "ok"
    <2>1. site \in Reservations
      BY DEF CleaningInv, TypeOK
    <2>2. site' = site
      BY <1>2, <1>6, <2>1, ReplyMoves
    <2> QED
      BY <1>6, <2>2, ErrorQuiet, QuietSettles
  <1> QED
    BY <1>2, <1>4, <1>5, <1>6, Zenon

(* A stop of the process takes the holder away, and the website may return    *)
(* what nobody settles.                                                       *)
LEMMA RestartSettles ==
    ASSUME CleaningInv, CleaningInv', Restart
    PROVE  Reservation!SettlementNext
  <1>1. \A d \in Calls : /\ pc[d] \in Active => pc'[d] = "reset"
                         /\ pc[d] \notin Active => pc'[d] = pc[d]
    BY Zenon DEF Restart
  <1>2. \A d \in Calls : pc'[d] = pc[d] \/ (pc[d] \notin TellingPlaces /\ pc'[d] \notin TellingPlaces)
    BY <1>1, SMT DEF Active, AtYield, AtAwait, TellingPlaces
  <1>3. CreditsTold' = CreditsTold
    BY <1>2, ToldKept
  <1>4. \A d \in Calls : Working(d)' => Working(d)
    BY <1>1, SMT DEF Working, Active, AtYield, AtAwait, Told
  <1>5. Holders' \in SUBSET Holders
    BY <1>4, Zenon DEF Holders
  <1>6. sent' = sent /\ result' = result /\ site' = site
    BY DEF Restart, streamVars
  <1>7. Rewritten' = Rewritten
    BY <1>6, Zenon DEF Rewritten
  <1> QED
    BY <1>3, <1>5, <1>6, <1>7, Zenon DEF Reservation!SettlementNext, Reservation!LetGo

(* Losses, retries, disconnections, deadlines and restarts left out, the text *)
(* stream is a reservation that one call claims and works on, that is settled *)
(* once, charged only over a rewrite of its holder, and told as it was settled*)
(* for good (app.py:227-386, 737-744).                                        *)
THEOREM CleaningImplementsSettlement == Spec => ImplementsSettlement
  <1>1. Init => Reservation!SettlementInit
    <2> SUFFICES ASSUME Init PROVE Reservation!SettlementInit
      OBVIOUS
    <2>1. \A d \in Calls : pc[d] = "idle" /\ sent[d] = {}
      BY Zenon DEF Init
    <2>2. Holders = {}
      BY <2>1, SMT DEF Holders, Working, Active, AtYield, AtAwait, Told
    <2>3. Rewritten = FALSE
      BY <2>1, Zenon DEF Rewritten
    <2>4. CreditsTold = [d \in Calls |-> "nothing"]
      BY <2>1, SMT DEF CreditsTold
    <2>5. site = "pending"
      BY DEF Init
    <2> QED
      BY <2>2, <2>3, <2>4, <2>5 DEF Reservation!SettlementInit
  <1>2. ASSUME CleaningInv, CleaningInv', [Next]_vars
        PROVE  [Reservation!SettlementNext]_(Reservation!settlementVars)
    <2>1. CASE UNCHANGED vars
      BY <1>2, <2>1, LostReplySettles DEF vars, Recorded
    <2>2. CASE Reconcile
      <3>1. Recorded
        BY <2>2, SMT DEF Reconcile, Recorded, Settled
      <3> QED
        BY <1>2, <2>2, <3>1, LostReplySettles DEF Reconcile, streamVars, postVars
    <2> QED
      BY <1>2, <2>1, <2>2, GeneratorQuiet, PostFailsQuiet, QuietSettles, WebsiteSettles,
         RestartSettles DEF Next
  <1> QED
    BY <1>1, <1>2, CleaningStart, CleaningStep, PTL
       DEF Spec, ImplementsSettlement, Reservation!SettlementSpec

(* What the abstract settlement keeps true: a holder has a claimed            *)
(* reservation, alone; a charge has its work; what was told is what is        *)
(* recorded.                                                                  *)
PromiseInv ==
    /\ site \in Reservations
    /\ Holders # {} => site # "pending"
    /\ \A c, d \in Holders : c = d
    /\ site = "charged" => Rewritten
    /\ \A c \in Calls : CreditsTold[c] # "nothing" => site \in Settled /\ CreditsTold[c] = site

LEMMA PromiseStep ==
    ASSUME PromiseInv, [Reservation!SettlementNext]_(Reservation!settlementVars)
    PROVE  PromiseInv'
  <1> USE DEF Settled, Reservations, Reservation!Settled
  <1>0. DOMAIN CreditsTold = Calls /\ DOMAIN CreditsTold' = Calls
    BY DEF CreditsTold
  <1>1. CASE UNCHANGED Reservation!settlementVars
    BY <1>1, Zenon DEF PromiseInv, Reservation!settlementVars
  <1>2. CASE Reservation!Claimed
    <2>1. /\ site = "pending" /\ site' = "claimed"
          /\ Rewritten' = Rewritten /\ CreditsTold' = CreditsTold
          /\ \A c, d \in Holders' : c = d
      BY <1>2, Zenon DEF Reservation!Claimed
    <2> QED
      BY <2>1, SMT DEF PromiseInv
  <1>3. CASE Reservation!Finished
    <2>1. /\ site' = site /\ Holders # {} /\ Holders' \in SUBSET Holders
          /\ Rewritten' = TRUE /\ CreditsTold' = CreditsTold
      BY <1>3, Zenon DEF Reservation!Finished, Reservation!LetGo
    <2> QED
      BY <2>1, SMT DEF PromiseInv
  <1>4. CASE /\ Reservation!Settles \/ UNCHANGED site
             /\ Reservation!Tells \/ UNCHANGED CreditsTold
             /\ Reservation!LetGo
             /\ UNCHANGED Rewritten
    <2>1. /\ site' = site \/ (site = "claimed" /\ site' \in Settled)
          /\ site' = "charged" => site = "charged" \/ Rewritten
          /\ Holders' \in SUBSET Holders
      BY <1>4, Zenon DEF Reservation!Settles, Reservation!LetGo
    <2>2. Rewritten' = Rewritten
      BY <1>4
    <2>3. \A c \in Calls : CreditsTold'[c] # "nothing" => site' \in Settled /\ CreditsTold'[c] = site'
      <3> SUFFICES ASSUME NEW c \in Calls, CreditsTold'[c] # "nothing"
                   PROVE  site' \in Settled /\ CreditsTold'[c] = site'
        OBVIOUS
      <3>1. CASE CreditsTold'[c] = CreditsTold[c]
        <4>1. site \in Settled /\ CreditsTold[c] = site
          BY <3>1, Zenon DEF PromiseInv
        <4> QED
          BY <2>1, <3>1, <4>1, SMT
      <3>2. CASE CreditsTold'[c] # CreditsTold[c]
        <4>1. PICK d \in Holders : /\ site' \in Settled
                                  /\ CreditsTold' = [CreditsTold EXCEPT ![d] = site']
          BY <1>4, <3>2, Zenon DEF Reservation!Tells
        <4>2. d = c /\ CreditsTold'[c] = site'
          BY <1>0, <3>2, <4>1, Zenon
        <4> QED
          BY <4>1, <4>2
      <3> QED
        BY <3>1, <3>2
    <2>4. site' \in Reservations /\ (Holders' # {} => site' # "pending")
      BY <2>1, SMT DEF PromiseInv
    <2>5. \A c, d \in Holders' : c = d
      BY <2>1, Zenon DEF PromiseInv
    <2>6. site' = "charged" => Rewritten'
      BY <2>1, <2>2, Zenon DEF PromiseInv
    <2> QED
      BY <2>3, <2>4, <2>5, <2>6, Zenon DEF PromiseInv
  <1> QED
    BY <1>1, <1>2, <1>3, <1>4, Zenon DEF Reservation!SettlementNext

(* The abstract settlement promises enough: whatever implements it claims     *)
(* exclusively, charges only for a rewrite and tells what was recorded        *)
(* (app.py:264-303, 737-744).                                                 *)
THEOREM SettlementSuffices ==
    ImplementsSettlement => [](ClaimIsExclusive /\ ToldIsSettled /\ ChargedNeedsRewrite)
  <1>1. Reservation!SettlementInit => PromiseInv
    <2> SUFFICES ASSUME Reservation!SettlementInit PROVE PromiseInv
      OBVIOUS
    <2>1. site = "pending" /\ Holders = {} /\ CreditsTold = [c \in Calls |-> "nothing"]
      BY DEF Reservation!SettlementInit
    <2> QED
      BY <2>1, SMT DEF PromiseInv, Reservations
  <1>2. ASSUME PromiseInv PROVE ClaimIsExclusive /\ ToldIsSettled /\ ChargedNeedsRewrite
    <2>1. \A c \in Calls : Working(c) => c \in Holders
      BY Zenon DEF Holders
    <2>2. ClaimIsExclusive
      BY <1>2, <2>1, Zenon DEF PromiseInv, ClaimIsExclusive
    <2>3. ToldIsSettled
      BY <1>2, ToldFacts, SMT DEF PromiseInv, ToldIsSettled
    <2>4. ChargedNeedsRewrite
      BY <1>2, Zenon DEF PromiseInv, ChargedNeedsRewrite, Rewritten
    <2> QED
      BY <2>2, <2>3, <2>4
  <1> QED
    BY <1>1, <1>2, PromiseStep, PTL DEF ImplementsSettlement, Reservation!SettlementSpec

----------------------------------------------------------------------------
(* The deadline *)

(* An expired operation is on the refund path and never leaves it.            *)
RefundPath == {"refunding", "failing", "fallback", "refunded", "errored", "aborted",
               "dropped", "reset"}
ExpiredInv == \A c \in Calls : expired[c] => pc[c] \in RefundPath /\ "succeeded" \notin sent[c]

LEMMA RefundPathKept ==
    ASSUME CleaningInv, [Next]_vars, NEW c \in Calls, pc[c] \in RefundPath,
           "succeeded" \notin sent[c]
    PROVE  pc'[c] \in RefundPath /\ "succeeded" \notin sent'[c]
  <1> DEFINE Kept == pc'[c] \in RefundPath /\ "succeeded" \notin sent'[c]
  <1>0. pc \in [Calls -> Places] /\ sent \in [Calls -> SUBSET Receipts]
    BY Zenon DEF CleaningInv, TypeOK, Places
  <1>1. ASSUME pc'[c] = pc[c], sent'[c] = sent[c] PROVE Kept
    BY <1>1
  <1>2. CASE UNCHANGED vars
    BY <1>1, <1>2 DEF vars
  <1>3. CASE Reconcile
    BY <1>1, <1>3 DEF Reconcile, postVars
  <1>4. CASE Restart
    <2>1. sent' = sent /\ pc'[c] \in {"reset", pc[c]}
      BY <1>4, SMT DEF Restart
    <2> QED
      BY <2>1, SMT DEF RefundPath
  <1>5. ASSUME NEW d \in Calls, Quiet(d), d # c PROVE Kept
    BY <1>1, <1>5, Zenon DEF Quiet
  <1>6. ASSUME post[c] # None, NEW net, ReceiptError(c, net) PROVE Kept
    <2>1. pc'[c] = AfterError(c) /\ (sent' = sent \/ sent' = [sent EXCEPT ![c] = @ \cup {"failed"}])
      BY <1>0, <1>6, Zenon DEF ReceiptError, Goes, Done
    <2>2. "succeeded" \notin sent'[c]
      BY <1>0, <2>1, SMT
    <2>3. pc[c] \in {"refunding", "failing", "aborted"}
      BY <1>6, AwaitedReceipt, SMT DEF RefundPath
    <2> QED
      BY <2>1, <2>2, <2>3, ErrorTargets, SMT DEF RefundPath
  <1>7. ASSUME NEW d \in Calls, PostFails(d) PROVE Kept
    <2>1. CASE d # c
      BY <1>5, <1>7, <2>1, PostFailsQuiet
    <2>2. CASE d = c /\ post[c].left > 0
      BY <1>1, <1>7, <2>2, Zenon DEF PostFails
    <2>3. CASE d = c /\ ~(post[c].left > 0)
      BY <1>6, <1>7, <2>3, Zenon DEF PostFails
    <2> QED
      BY <2>1, <2>2, <2>3
  <1>8. ASSUME NEW d \in Calls, NEW receipt \in Receipts, WebsiteHandles(d, receipt) PROVE Kept
    <2>1. PICK net, o : \/ UNCHANGED <<pc, post, sent>>
                        \/ post[d] # None /\ Goes(d, AfterAck(d)) /\ Done(d)
                        \/ post[d] # None /\ ReceiptError(d, net) /\ site' = site
      <3> DEFINE net == [network EXCEPT ![d][receipt] = @ - 1]
      <3>1. PICK o \in Replies(site, receipt) :
              /\ site' = o.to
              /\ \/ UNCHANGED <<pc, post, sent>> /\ network' = net
                 \/ /\ post[d] # None
                    /\ post[d].receipt = receipt
                    /\ IF o.reply = "ok"
                       THEN Goes(d, AfterAck(d)) /\ network' = net /\ Done(d)
                       ELSE ReceiptError(d, net)
        BY <1>8 DEF WebsiteHandles
      <3>2. o.reply # "ok" => site' = site
        BY <3>1, ReplyMoves DEF CleaningInv, TypeOK
      <3> HIDE DEF net
      <3> QED
        BY <3>1, <3>2, Zenon
    <2>2. CASE UNCHANGED <<pc, post, sent>>
      BY <1>1, <2>2
    <2>3. CASE post[d] # None /\ Goes(d, AfterAck(d)) /\ Done(d)
      <3>1. sent' = sent
        BY <2>3 DEF Done
      <3>2. CASE d # c
        BY <1>0, <1>1, <2>3, <3>1, <3>2, Zenon DEF Goes
      <3>3. CASE d = c
        <4>1. pc'[c] = AfterAck(c)
          BY <1>0, <2>3, <3>3, Zenon DEF Goes
        <4>2. pc[c] \in {"refunding", "failing", "aborted"}
          BY <2>3, <3>3, AwaitedReceipt, SMT DEF RefundPath
        <4> QED
          BY <3>1, <4>1, <4>2, AckTargets, SMT DEF RefundPath
      <3> QED
        BY <3>2, <3>3
    <2>4. CASE post[d] # None /\ ReceiptError(d, net) /\ site' = site
      BY <1>5, <1>6, <2>4, ErrorQuiet, Zenon
    <2> QED
      BY <2>1, <2>2, <2>3, <2>4
  <1>9. ASSUME NEW d \in Calls,
               \/ Claim(d) \/ CleanDeterministically(d) \/ Resume(d)
               \/ ProviderDelta(d) \/ ProviderResult(d) \/ ProviderEnds(d)
               \/ ProviderRaises(d) \/ Deadline(d) \/ Cancel(d) \/ Drop(d)
        PROVE  Kept
    <2>1. CASE d # c
      BY <1>5, <1>9, <2>1, GeneratorQuiet
    <2>2. CASE d = c
      <3>1. Cancel(c) \/ Drop(c)
        BY <1>9, <2>2, SMT DEF RefundPath, Claim, CleanDeterministically, Resume, ProviderDelta,
           ProviderResult, ProviderEnds, ProviderRaises, Deadline
      <3>2. CASE Cancel(c)
        BY <1>0, <3>2, SMT DEF Cancel, Goes, Submit, RefundPath
      <3>3. CASE Drop(c)
        BY <1>0, <3>3, SMT DEF Drop, Goes, RefundPath
      <3> QED
        BY <3>1, <3>2, <3>3
    <2> QED
      BY <2>1, <2>2
  <1> QED
    BY <1>2, <1>3, <1>4, <1>7, <1>8, <1>9 DEF Next

LEMMA ExpiredStep == ASSUME CleaningInv, ExpiredInv, [Next]_vars PROVE ExpiredInv'
  <1> SUFFICES ASSUME NEW c \in Calls, expired'[c]
               PROVE  pc'[c] \in RefundPath /\ "succeeded" \notin sent'[c]
    BY DEF ExpiredInv
  <1>1. CASE expired[c]
    BY <1>1, RefundPathKept DEF ExpiredInv
  <1>2. CASE ~expired[c]
    <2>0. expired' # expired
      BY <1>2
    <2>1. PICK d \in Calls : Deadline(d)
      BY <2>0, Zenon DEF Next, vars, streamVars, Claim, CleanDeterministically, Resume,
         ProviderDelta, ProviderResult, ProviderEnds, ProviderRaises, Cancel, Drop, PostFails,
         WebsiteHandles, Restart, Reconcile
    <2>2. d = c
      BY <1>2, <2>1, SMT DEF Deadline, CleaningInv, TypeOK
    <2>3. /\ pc \in [Calls -> Places] /\ sent \in [Calls -> SUBSET Receipts]
          /\ pc[c] \in {"provider", "sending"} => "succeeded" \notin sent[c]
      BY SMT DEF CleaningInv, TypeOK, Places, CallInv, AtYield
    <2>4. CASE pc[c] = "provider" /\ Settle(c, "empty")
      <3>1. Goes(c, "refunding") /\ Submit(c, "failed", MaxAttempts)
        BY <2>4, SMT DEF Settle
      <3> QED
        BY <2>3, <2>4, <3>1, SMT DEF Goes, Submit, RefundPath
    <2>5. CASE pc[c] = "sending" /\ Goes(c, "dropped") /\ sent' = sent
      BY <2>3, <2>5, SMT DEF Goes, RefundPath
    <2> QED
      BY <2>1, <2>2, <2>4, <2>5, Zenon DEF Deadline, postVars
  <1> QED
    BY <1>1, <1>2

(* The deadline replaces whatever the provider had sent: an expired operation *)
(* posts no success, and posts a failure unless its stream was dropped or the *)
(* process stopped (provider.py:207-224, app.py:252-264).                     *)
THEOREM ExpiredRefunded == Spec => []ExpiredNeverCharged
  <1>1. CleaningInv /\ ExpiredInv => ExpiredNeverCharged
    <2> SUFFICES ASSUME CleaningInv, ExpiredInv, NEW c \in Calls, expired[c]
                 PROVE  /\ "succeeded" \notin sent[c]
                        /\ pc[c] \in Ended \ {"dropped", "reset"} => "failed" \in sent[c]
      BY DEF ExpiredNeverCharged
    <2>1. pc[c] \in RefundPath /\ "succeeded" \notin sent[c]
      BY DEF ExpiredInv
    <2>2. pc[c] \in RefundPath \ {"dropped", "reset"} => "failed" \in sent[c]
      BY SMT DEF RefundPath, CleaningInv, CallInv
    <2> QED
      BY <2>1, <2>2
  <1>2. Init => ExpiredInv
    BY SMT DEF Init, ExpiredInv
  <1> QED
    BY <1>1, <1>2, ExpiredStep, CleaningStart, CleaningStep, PTL DEF Spec

=============================================================================
