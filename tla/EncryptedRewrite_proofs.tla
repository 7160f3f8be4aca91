---------------------- MODULE EncryptedRewrite_proofs -----------------------
(* One encrypted rewrite, for any number of attempts, chunks, events and      *)
(* lines: what the provider yields, that it implements the contract the text  *)
(* stream is written for, and what a page holds that opened "complete".       *)
EXTENDS EncryptedRewrite, TLAPS

----------------------------------------------------------------------------
(* The stream *)

(* The page awaits each decrypt before it hands over the next line.           *)
OneReader == \A r, s \in Readers : r = s

(* A call past its checks is opening the expected number, because nobody else *)
(* moves it, and only a number already sealed opens.                          *)
StreamInv ==
    /\ sequence \in Nat
    /\ expected \in Nat
    /\ accepted \in Seq(Nat)
    /\ reading \in [Readers -> Lines \cup {NoLine}]
    /\ \A r \in Readers : reading[r] # NoLine =>
          /\ reading[r].sequence = expected
          /\ reading[r].ciphertext = Changed \/ reading[r].ciphertext < sequence
    /\ PlaceKept
    /\ AcceptedIsPrefix

(* Handing a line to the decryptor keeps the invariant                        *)
(* (confidential-crypto.ts:156-163).                                          *)
LEMMA DecryptStep ==
    ASSUME StreamInv, NEW r \in Readers, NEW line \in Delivered, Decrypt(r, line)
    PROVE  StreamInv'
<1> USE NoLineAssumption DEF StreamInv
<1>1. line \in Lines /\ (line.ciphertext = Changed \/ line.ciphertext < sequence)
  BY DEF Delivered
<1>2. UNCHANGED <<sequence, expected, accepted>>
  BY DEF Decrypt
<1>3. CASE InOrder(line)
  <2>1. reading' = [reading EXCEPT ![r] = line] /\ line.sequence = expected
    BY <1>3 DEF Decrypt, InOrder
  <2> QED
    BY <1>1, <1>2, <2>1 DEF PlaceKept, AcceptedIsPrefix
<1>4. CASE ~InOrder(line)
  BY <1>2, <1>4 DEF Decrypt, PlaceKept, AcceptedIsPrefix
<1> QED
  BY <1>3, <1>4

(* The end of a decryption keeps the invariant (confidential-crypto.ts:164-174).*)
LEMMA DecryptedStep ==
    ASSUME StreamInv, OneReader, NEW r \in Readers, Decrypted(r)
    PROVE  StreamInv'
<1> USE NoLineAssumption DEF StreamInv
<1> DEFINE line == reading[r]
<1>1. /\ line \in Lines
      /\ line.sequence = expected
      /\ line.ciphertext = Changed \/ line.ciphertext < sequence
      /\ reading' = [reading EXCEPT ![r] = NoLine]
      /\ sequence' = sequence
  BY DEF Decrypted
<1>2. \A s \in Readers : reading'[s] = NoLine
  BY <1>1 DEF OneReader
<1>3. CASE ~Opens(line)
  BY <1>1, <1>2, <1>3 DEF Decrypted, PlaceKept, AcceptedIsPrefix
<1>4. CASE Opens(line)
  <2>1. /\ line.ciphertext = expected
        /\ expected < sequence
    BY <1>1, <1>4, ChangedAssumption DEF Opens
  <2>2. /\ expected' = expected + 1
        /\ accepted' = Append(accepted, expected)
    BY <1>1, <1>4, <2>1 DEF Decrypted
  <2>3. /\ accepted' \in Seq(Nat)
        /\ Len(accepted') = Len(accepted) + 1
        /\ accepted'[Len(accepted) + 1] = expected
        /\ \A i \in 1 .. Len(accepted) : accepted'[i] = accepted[i]
    BY <2>2
  <2>4. PlaceKept'
    BY <2>2, <2>3 DEF PlaceKept
  <2>5. AcceptedIsPrefix'
    <3>1. Len(accepted') <= sequence'
      BY <1>1, <2>1, <2>3 DEF PlaceKept
    <3>2. ASSUME NEW i \in 1 .. Len(accepted')
          PROVE  accepted'[i] = i - 1
      <4>1. Len(accepted) \in Nat /\ Len(accepted) = expected
        BY DEF PlaceKept
      <4>2. CASE i \in 1 .. Len(accepted)
        <5>1. accepted[i] = i - 1
          BY <4>2 DEF AcceptedIsPrefix
        <5> QED
          BY <2>3, <4>2, <5>1
      <4>3. CASE i = Len(accepted) + 1
        BY <2>3, <4>1, <4>3
      <4> QED
        BY <2>3, <4>1, <4>2, <4>3
    <3> QED
      BY <3>1, <3>2 DEF AcceptedIsPrefix
  <2> QED
    BY <1>1, <1>2, <2>2, <2>3, <2>4, <2>5
<1> QED
  BY <1>3, <1>4

(* Sealing an event and every step of the page keep the invariant.            *)
LEMMA StreamStep ==
    ASSUME StreamInv, OneReader, [StreamNext]_streamVars
    PROVE  StreamInv'
<1>1. CASE Encrypt
  <2>1. sequence' = sequence + 1 /\ UNCHANGED <<expected, reading, accepted>>
    BY <1>1 DEF Encrypt
  <2>2. \A r \in Readers : reading[r] # NoLine => reading[r] \in Lines
    BY DEF StreamInv
  <2>3. \A r \in Readers : reading[r] # NoLine /\ reading[r].ciphertext # Changed =>
           reading[r].ciphertext \in Nat /\ reading[r].ciphertext < sequence
    BY <2>2, BoundsAssumption DEF StreamInv, Lines
  <2> QED
    BY <2>1, <2>3 DEF StreamInv, PlaceKept, AcceptedIsPrefix
<1>2. ASSUME NEW r \in Readers, NEW line \in Delivered, Decrypt(r, line)
      PROVE  StreamInv'
  BY <1>2, DecryptStep
<1>3. ASSUME NEW r \in Readers, Decrypted(r)
      PROVE  StreamInv'
  BY <1>3, OneReader, DecryptedStep
<1>4. CASE UNCHANGED streamVars
  BY <1>4 DEF streamVars, StreamInv, PlaceKept, AcceptedIsPrefix
<1> QED
  BY <1>1, <1>2, <1>3, <1>4 DEF StreamNext, Receive

LEMMA StreamStart == StreamInit => StreamInv
  BY DEF StreamInit, StreamInv, PlaceKept, AcceptedIsPrefix

(* Whatever the path does with the lines, and however many events and reads   *)
(* there are, a page that awaits each decrypt receives a prefix of the events,*)
(* and the decryptor keeps its place (confidential-crypto.ts:156-174).        *)
THEOREM StreamIsPrefix ==
    ASSUME OneReader
    PROVE  StreamSpec => []PrefixInPlace
<1>1. StreamInv => PrefixInPlace
  BY DEF StreamInv, PrefixInPlace
<1> QED
  BY <1>1, StreamStart, StreamStep, OneReader, PTL DEF StreamSpec

----------------------------------------------------------------------------
(* The provider *)

(* Output and metadata belong to the running attempt: an attempt that has     *)
(* shown output is never followed by another.                                 *)
AttemptInv ==
    /\ attempt \in Attempts
    /\ text \in {"", "blank", "words"}
    /\ shown = IF emitted THEN {attempt} ELSE {}
    /\ finish \in Reason \cup {None}
    /\ finish = "stop" => attempt \in stopped
    /\ requestId \in {0, attempt}

(* Usage is delayed by at most the delta that is being sent.                  *)
UsageInv ==
    /\ usage \in Nat /\ counted \in Nat
    /\ reported = usage + counted
    /\ pc \notin {"sending", "dropped"} => counted = 0

(* A result ends the reading, and tells of the attempt it ended.              *)
ResultInv ==
    /\ pc \in {"idle"} \cup Active \cup Ended
    /\ pc = "idle" => attempt = 0 /\ ~emitted
    /\ pc \in {"closing", "ended"} => result # None
    /\ result # None =>
          /\ pc \in {"closing"} \cup Ended
          /\ result.usage = reported
          /\ result.attempts = attempt
          /\ result.billable \in BOOLEAN
          /\ result.billable => /\ text = "words"
                                /\ attempt \in stopped
                                /\ result.requestId = requestId

ProviderInv == AttemptInv /\ UsageInv /\ ResultInv

LEMMA ProviderStart == Init => ProviderInv
  <1> SUFFICES ASSUME Init PROVE ProviderInv
    OBVIOUS
  <1>1. /\ pc = "idle" /\ attempt = 0 /\ text = "" /\ finish = None /\ requestId = 0
        /\ shown = {} /\ result = None
    BY DEF Init
  <1>2. usage = 0 /\ counted = 0 /\ reported = 0
    BY DEF Init
  <1>3. usage \in Nat /\ counted \in Nat /\ reported = usage + counted
    BY <1>2, SMT
  <1>4. ~emitted
    BY <1>1 DEF emitted
  <1>5. 0 \in Attempts
    BY TriesAssumption, SMT DEF Attempts
  <1>6. finish # "stop"
    BY <1>1, NoneAssumption DEF Reason
  <1>7. AttemptInv
    BY <1>1, <1>4, <1>5, <1>6, Zenon DEF AttemptInv
  <1>8. UsageInv
    BY <1>1, <1>2, <1>3, Zenon DEF UsageInv
  <1>9. ResultInv
    BY <1>1, <1>4, Zenon DEF ResultInv, Active, Ended
  <1> QED
    BY <1>7, <1>8, <1>9 DEF ProviderInv

(* A result is a record, so it is not None.                                   *)
LEMMA ResultIsRecord ==
    ASSUME AttemptInv, usage \in Nat, NEW b \in BOOLEAN
    PROVE  /\ ResultNow(b) # None
           /\ ResultNow(b).usage = usage
           /\ ResultNow(b).attempts = attempt
           /\ ResultNow(b).billable = b
           /\ ResultNow(b).requestId = requestId
  <1>1. 0 \in Attempts
    BY TriesAssumption, SMT DEF Attempts
  <1>2. finish \in Reason \cup {None} /\ attempt \in Attempts /\ requestId \in Attempts
    BY <1>1, Zenon DEF AttemptInv
  <1>3. ResultNow(b) \in Result
    BY <1>2, Zenon DEF ResultNow, Result
  <1> QED
    BY <1>3, NoneAssumption, Zenon DEF ResultNow

----------------------------------------------------------------------------
(* The loop's exits *)

(* The next attempt starts with nothing shown (provider.py:101-106).          *)
LEMMA NewAttemptStep ==
    ASSUME AttemptInv, ~emitted, attempt < MaxTries, NewAttempt, UNCHANGED history
    PROVE  AttemptInv'
  <1>1. attempt' \in Attempts
    <2>1. attempt \in Attempts /\ attempt' = attempt + 1
      BY DEF AttemptInv, NewAttempt
    <2> QED
      BY <2>1, TriesAssumption, SMT DEF Attempts
  <1>2. text' = "" /\ finish' = None /\ requestId' = 0 /\ shown' = {}
    BY Zenon DEF AttemptInv, NewAttempt, history
  <1>3. finish' # "stop"
    BY <1>2, NoneAssumption, Zenon DEF Reason
  <1> QED
    BY <1>1, <1>2, <1>3, Zenon DEF AttemptInv, emitted

(* An empty result accounts for all usage (provider.py:207-224).              *)
LEMMA EndsEmptyStep ==
    ASSUME ProviderInv, counted = 0, EndsEmpty, UNCHANGED <<counted, history>>
    PROVE  ProviderInv'
  <1>1. /\ pc' = "ended" /\ result' = ResultNow(FALSE)
        /\ UNCHANGED <<attempt, text, finish, requestId, usage, counted, shown, stopped, reported>>
    BY DEF EndsEmpty, attemptVars, history
  <1>2. AttemptInv'
    BY <1>1, Zenon DEF ProviderInv, AttemptInv, emitted
  <1>3. UsageInv' /\ usage = reported
    BY <1>1, SMT DEF ProviderInv, UsageInv
  <1>4. /\ ResultNow(FALSE) # None
        /\ ResultNow(FALSE).usage = usage
        /\ ResultNow(FALSE).attempts = attempt
        /\ ResultNow(FALSE).billable = FALSE
    BY ResultIsRecord DEF ProviderInv, UsageInv
  <1>5. ResultInv'
    BY <1>1, <1>3, <1>4, Zenon DEF ResultInv, Ended
  <1> QED
    BY <1>2, <1>3, <1>5 DEF ProviderInv

LEMMA RetriesStep ==
    ASSUME ProviderInv, pc \in {"posting", "reading"}, ~emitted, Retries,
           UNCHANGED <<counted, history>>
    PROVE  ProviderInv'
  <1>1. CASE attempt < MaxTries
    <2>1. AttemptInv'
      BY <1>1, NewAttemptStep DEF ProviderInv, Retries
    <2>2. pc' = "posting" /\ UNCHANGED <<result, usage, counted, reported>>
      BY <1>1 DEF Retries, NewAttempt, history
    <2>3. UsageInv'
      BY <2>2 DEF ProviderInv, UsageInv
    <2>4. ResultInv'
      BY <2>2, Zenon DEF ProviderInv, ResultInv, Active, Ended
    <2> QED
      BY <2>1, <2>3, <2>4 DEF ProviderInv
  <1>2. CASE ~(attempt < MaxTries)
    BY <1>2, EndsEmptyStep DEF Retries, ProviderInv, UsageInv
  <1> QED
    BY <1>1, <1>2

----------------------------------------------------------------------------
(* The steps *)

(* The usage of a chunk is added at once, or after its delta was sent         *)
(* (provider.py:159-186).                                                     *)
LEMMA UsageStep ==
    ASSUME UsageInv, pc = "reading", NEW used \in {0, 1}, reported' = reported + used,
           \/ usage' = usage + used /\ pc' = pc /\ counted' = counted
           \/ counted' = used /\ pc' = "sending" /\ usage' = usage
    PROVE  UsageInv'
  BY SMT DEF UsageInv

(* A chunk, with its delta if it has one (provider.py:143-186).               *)
LEMMA ChunkStep == ASSUME ProviderInv, Chunk PROVE ProviderInv'
  <1>1. PICK reason \in Reason \cup {None}, content \in {"", "blank", "words"}, used \in {0, 1} :
        /\ finish' = IF reason = None THEN finish ELSE reason
        /\ stopped' = IF reason = "stop" THEN stopped \cup {attempt} ELSE stopped
        /\ reported' = reported + used
        /\ IF content = ""
           THEN /\ usage' = usage + used
                /\ UNCHANGED <<pc, text, counted, shown>>
           ELSE /\ text' = IF text = "words" THEN "words" ELSE content
                /\ shown' = shown \cup {attempt}
                /\ counted' = used
                /\ pc' = "sending"
                /\ UNCHANGED usage
    BY DEF Chunk
  <1>2. /\ attempt' = attempt /\ result' = result /\ pc = "reading"
        /\ requestId' \in {requestId, attempt}
    BY DEF Chunk
  <1>3. finish' \in Reason \cup {None} /\ (finish' = "stop" => attempt \in stopped')
    BY <1>1, NoneAssumption DEF ProviderInv, AttemptInv, Reason
  <1>4. /\ text' \in {"", "blank", "words"}
        /\ shown' = IF text' # "" THEN {attempt} ELSE {}
    BY <1>1 DEF ProviderInv, AttemptInv, emitted
  <1>5. AttemptInv'
    BY <1>2, <1>3, <1>4 DEF ProviderInv, AttemptInv, emitted
  <1>6. UsageInv'
    BY <1>1, <1>2, UsageStep, Zenon DEF ProviderInv
  <1>7. result = None /\ pc' \in {"reading", "sending"}
    BY <1>1, <1>2, Zenon DEF ProviderInv, ResultInv, Ended
  <1>8. ResultInv'
    BY <1>2, <1>7, Zenon DEF ResultInv, Active
  <1> QED
    BY <1>5, <1>6, <1>8 DEF ProviderInv

(* The response body ends (provider.py:187-206).                              *)
LEMMA BodyEndsStep == ASSUME ProviderInv, BodyEnds PROVE ProviderInv'
  <1>1. pc = "reading" /\ counted = 0 /\ UNCHANGED <<counted, history>>
    BY DEF BodyEnds, ProviderInv, UsageInv
  <1>2. CASE /\ Billable
             /\ result' = ResultNow(TRUE)
             /\ pc' = "closing"
             /\ UNCHANGED <<attempt, attemptVars, usage>>
    <2>1. AttemptInv'
      BY <1>1, <1>2 DEF ProviderInv, AttemptInv, attemptVars, history, emitted
    <2>2. /\ ResultNow(TRUE) # None
          /\ ResultNow(TRUE).usage = usage
          /\ ResultNow(TRUE).attempts = attempt
          /\ ResultNow(TRUE).billable = TRUE
          /\ ResultNow(TRUE).requestId = requestId
      BY ResultIsRecord DEF ProviderInv, UsageInv
    <2>3. text = "words" /\ attempt \in stopped
      BY <1>2 DEF Billable, ProviderInv, AttemptInv
    <2>4. UsageInv' /\ usage = reported
      BY <1>1, <1>2, SMT DEF ProviderInv, UsageInv, history
    <2>5. /\ pc' = "closing" /\ result' = ResultNow(TRUE)
          /\ UNCHANGED <<attempt, text, requestId, reported, stopped>>
      BY <1>1, <1>2 DEF attemptVars, history
    <2>6. ResultInv'
      BY <2>2, <2>3, <2>4, <2>5, Zenon DEF ResultInv, Active
    <2> QED
      BY <2>1, <2>4, <2>6 DEF ProviderInv
  <1>3. CASE ~Billable /\ emitted /\ EndsEmpty
    BY <1>1, <1>3, EndsEmptyStep
  <1>4. CASE ~emitted /\ Retries
    BY <1>1, <1>4, RetriesStep
  <1> QED
    BY <1>2, <1>3, <1>4 DEF BodyEnds

(* A step that changes only where the generator is, from a place to one where *)
(* the same is known.                                                         *)
LEMMA MoveStep ==
    ASSUME ProviderInv, UNCHANGED <<attempt, attemptVars, usage, counted, result, history>>,
           pc' \in Active \cup Ended,
           pc' \in {"closing", "ended"} => pc \in {"closing", "ended"},
           pc' \notin {"sending", "dropped"} => pc \notin {"sending", "dropped"},
           result # None => pc' \in {"closing"} \cup Ended
    PROVE  ProviderInv'
  <1>1. UNCHANGED <<attempt, text, finish, requestId, usage, counted, result, shown, stopped,
                   reported>>
    BY DEF attemptVars, history
  <1>2. AttemptInv'
    BY <1>1, Zenon DEF ProviderInv, AttemptInv, emitted
  <1>3. UsageInv'
    BY <1>1, Zenon DEF ProviderInv, UsageInv
  <1>4. ResultInv'
    BY <1>1, Zenon DEF ProviderInv, ResultInv, Active, Ended
  <1> QED
    BY <1>2, <1>3, <1>4 DEF ProviderInv

LEMMA ProviderStep == ASSUME ProviderInv, [Next]_vars PROVE ProviderInv'
  <1> USE DEF ProviderInv
  <1>1. CASE Start
    <2>1. attempt < MaxTries /\ ~emitted
      BY <1>1, TriesAssumption DEF Start, ResultInv
    <2>2. AttemptInv'
      BY <1>1, <2>1, NewAttemptStep DEF Start
    <2>3. /\ pc = "idle" /\ pc' = "posting"
          /\ UNCHANGED <<result, usage, counted, reported>>
      BY <1>1 DEF Start, NewAttempt, history
    <2>4. UsageInv'
      BY <2>3 DEF UsageInv
    <2>5. ResultInv'
      BY <2>3, Zenon DEF ResultInv, Active, Ended
    <2> QED
      BY <2>2, <2>4, <2>5
  <1>2. CASE Response
    BY <1>2, MoveStep DEF Response, ResultInv, Active, Ended
  <1>3. CASE Chunk
    BY <1>3, ChunkStep
  <1>4. CASE Resume
    <2>1. /\ pc = "sending" /\ pc' = "reading" /\ counted' = 0
          /\ UNCHANGED <<attempt, text, finish, requestId, result, shown, stopped, reported>>
      BY <1>4 DEF Resume, attemptVars, history
    <2>2. AttemptInv'
      BY <2>1, Zenon DEF AttemptInv, emitted
    <2>3. UsageInv'
      BY <1>4, <2>1, SMT DEF Resume, UsageInv
    <2>4. ResultInv'
      BY <2>1, Zenon DEF ResultInv, Active, Ended
    <2> QED
      BY <2>2, <2>3, <2>4
  <1>5. CASE BodyEnds
    BY <1>5, BodyEndsStep
  <1>6. CASE Fails
    <2>1. CASE pc' = "raised" /\ UNCHANGED <<attempt, attemptVars, usage, result>>
      BY <1>6, <2>1, MoveStep DEF Fails, ResultInv, Active, Ended
    <2>2. CASE ~emitted /\ Retries
      BY <1>6, <2>2, RetriesStep DEF Fails
    <2> QED
      BY <1>6, <2>1, <2>2 DEF Fails
  <1>7. CASE Escapes
    BY <1>7, MoveStep DEF Escapes, Active, Ended
  <1>8. CASE Closed
    BY <1>8, MoveStep DEF Closed, Active, Ended
  <1>9. CASE Deadline
    <2>1. CASE pc \in {"posting", "reading", "closing"} /\ EndsEmpty
      BY <1>9, <2>1, EndsEmptyStep DEF Deadline, UsageInv
    <2>2. CASE /\ pc' = "dropped"
               /\ UNCHANGED <<attempt, attemptVars, usage, result>>
      BY <1>9, <2>2, MoveStep DEF Deadline, Active, Ended
    <2> QED
      BY <1>9, <2>1, <2>2 DEF Deadline
  <1>10. CASE Dropped
    BY <1>10, MoveStep DEF Dropped, Active, Ended
  <1>11. CASE UNCHANGED vars
    BY <1>11 DEF vars, AttemptInv, UsageInv, ResultInv, attemptVars, history, emitted
  <1> QED
    BY <1>1, <1>2, <1>3, <1>4, <1>5, <1>6, <1>7, <1>8, <1>9, <1>10, <1>11 DEF Next

----------------------------------------------------------------------------
(* The composition *)

(* A step of the composition is a step of the provider, or none of its.       *)
LEMMA RewriteIsProviderStep == [RewriteNext]_rewriteVars => [Next]_vars
  BY DEF RewriteNext, rewriteVars, Announce, Rewrite, Finish

LEMMA RewriteIsStreamStep == [RewriteNext]_rewriteVars => [StreamNext]_streamVars
  BY DEF RewriteNext, rewriteVars, Announce, Rewrite, Finish, Yield, StreamNext

(* Neither part does in the composition what it does not do alone: what is    *)
(* proved of the provider, fair deadline included, and of the stream holds    *)
(* here (app.py:244-250, crypto.py:84-97).                                    *)
THEOREM RewriteImplementsParts == RewriteSpec => FairSpec /\ StreamSpec
<1>1. RewriteInit => Init /\ StreamInit
  BY DEF RewriteInit
<1> QED
  BY <1>1, RewriteIsProviderStep, RewriteIsStreamStep, PTL
     DEF RewriteSpec, FairSpec, Spec, StreamSpec

(* The composed stream, its events yielded by the generator, is delivered as  *)
(* the cipher's stream alone is: the page holds a prefix of the events, and a *)
(* rejected line does not cost the decryptor its place (crypto.py:84-97,      *)
(* confidential-crypto.ts:156-174).                                           *)
THEOREM RewriteKeepsPlace ==
    ASSUME OneReader
    PROVE  RewriteSpec => []PrefixInPlace
<1>1. StreamInv => PrefixInPlace
  BY DEF StreamInv, PrefixInPlace
<1> QED
  BY <1>1, StreamStart, StreamStep, RewriteIsStreamStep, OneReader, PTL
     DEF RewriteSpec, RewriteInit

(* However attempts fail, are retried or expire: the browser sees the output  *)
(* of one attempt, and a billable result is the normal completion of that one *)
(* (provider.py:106-205).                                                     *)
THEOREM RewriteOutputIsWhole == RewriteSpec => []OutputIsWhole
  <1>1. ProviderInv => OutputIsWhole
    <2> SUFFICES ASSUME ProviderInv PROVE OutputIsWhole
      OBVIOUS
    <2> USE DEF ProviderInv
    <2>1. \A a, b \in shown : a = b
      BY Zenon DEF AttemptInv
    <2>2. ASSUME result # None, result.billable
          PROVE  /\ shown = {result.attempts}
                 /\ result.attempts \in stopped
                 /\ result.requestId \in {0, result.attempts}
      <3>1. text = "words" /\ attempt \in stopped /\ result.attempts = attempt
            /\ result.requestId = requestId
        BY <2>2, Zenon DEF ResultInv
      <3>2. shown = {attempt}
        BY <3>1 DEF AttemptInv, emitted
      <3> QED
        BY <3>1, <3>2, Zenon DEF AttemptInv
    <2> QED
      BY <2>1, <2>2, Zenon DEF OutputIsWhole
  <1> QED
    BY <1>1, ProviderStart, ProviderStep, RewriteIsProviderStep, PTL DEF RewriteSpec, RewriteInit

(* "Preserve the measured attempt count and any usage already reported"       *)
(* (provider.py:208): every result accounts for the usage of all attempts.    *)
THEOREM RewriteUsageIsKept == RewriteSpec => []UsageKept
  <1>1. ProviderInv => UsageKept
    BY Zenon DEF ProviderInv, ResultInv, UsageKept
  <1> QED
    BY <1>1, ProviderStart, ProviderStep, RewriteIsProviderStep, PTL DEF RewriteSpec, RewriteInit

ContractStep == [Contract!ProviderNext]_(Contract!providerVars)

(* An empty result at the end of the iteration is an expiry to the consumer.  *)
LEMMA EndsEmptyExpires ==
    ASSUME ProviderInv, pc \in {"posting", "reading", "closing"}, EndsEmpty PROVE ContractStep
  <1>1. ResultNow(FALSE) # None /\ ResultNow(FALSE).billable = FALSE
    BY ResultIsRecord DEF ProviderInv, UsageInv
  <1>2. pc' = "ended" /\ result' = ResultNow(FALSE) /\ pc \notin Ended
    BY Zenon DEF EndsEmpty, Ended
  <1>3. Contract!Expire
    BY <1>1, <1>2, Zenon DEF Contract!Expire, Ended
  <1> QED
    BY <1>3 DEF ContractStep, Contract!ProviderNext

(* A step that leaves the iteration and its result alone is not seen.         *)
LEMMA HiddenStep ==
    ASSUME pc \notin Ended, pc' \notin Ended, result' = result PROVE ContractStep
  BY Zenon DEF ContractStep, Contract!providerVars

(* Nor is one that ends it by an exception or a cancellation anything else.   *)
LEMMA RaisingStep ==
    ASSUME pc \notin Ended, pc' \in {"raised", "dropped"}, result' = result PROVE ContractStep
  <1>1. Contract!Raise
    BY Zenon DEF Contract!Raise, Ended
  <1> QED
    BY <1>1 DEF ContractStep, Contract!ProviderNext

LEMMA RetriesKeepContract ==
    ASSUME ProviderInv, pc \in {"posting", "reading"}, Retries PROVE ContractStep
  <1>1. CASE EndsEmpty
    BY <1>1, EndsEmptyExpires
  <1>2. CASE pc' = "posting" /\ result' = result
    BY <1>2, HiddenStep DEF Ended
  <1> QED
    BY <1>1, <1>2 DEF Retries

(* The rewrite implements the contract the text stream relies on (the protocol*)
(* RewriteProvider of app.py): deltas, one result, which only the deadline    *)
(* replaces by an empty one, and an end.                                      *)
THEOREM RewriteImplementsContract == RewriteSpec => ImplementsContract
  <1>1. Init => Contract!ProviderInit
    BY DEF Init, Contract!ProviderInit, Ended
  <1>2. ASSUME ProviderInv, [Next]_vars
        PROVE  ContractStep
    <2>1. CASE Start
      BY <2>1, HiddenStep DEF Start, Ended
    <2>2. CASE Response
      BY <2>2, HiddenStep DEF Response, Ended
    <2>3. CASE Chunk
      BY <2>3, HiddenStep, Zenon DEF Chunk, Ended
    <2>4. CASE Resume
      BY <2>4, HiddenStep DEF Resume, Ended
    <2>5. CASE BodyEnds
      <3>1. CASE result' = ResultNow(TRUE) /\ pc' = "closing"
        <4>1. ResultNow(TRUE) # None /\ ResultNow(TRUE).billable = TRUE
          BY <1>2, ResultIsRecord DEF ProviderInv, UsageInv
        <4>2. pc = "reading" /\ result = None
          BY <1>2, <2>5, Zenon DEF BodyEnds, ProviderInv, ResultInv, Ended
        <4>3. Contract!Result("billable")
          BY <3>1, <4>1, <4>2, Zenon DEF Contract!Result, Ended
        <4> QED
          BY <4>3, Zenon DEF ContractStep, Contract!ProviderNext
      <3>2. CASE EndsEmpty
        BY <1>2, <2>5, <3>2, EndsEmptyExpires DEF BodyEnds
      <3>3. CASE Retries
        BY <1>2, <2>5, <3>3, RetriesKeepContract DEF BodyEnds
      <3> QED
        BY <2>5, <3>1, <3>2, <3>3 DEF BodyEnds
    <2>6. CASE Fails
      <3>1. CASE pc' = "raised" /\ result' = result
        BY <2>6, <3>1, RaisingStep DEF Fails, Ended
      <3>2. CASE Retries
        BY <1>2, <2>6, <3>2, RetriesKeepContract DEF Fails
      <3> QED
        BY <2>6, <3>1, <3>2 DEF Fails
    <2>7. CASE Escapes
      BY <2>7, RaisingStep DEF Escapes, Ended
    <2>8. CASE Closed
      <3>1. pc = "closing" /\ pc' = "ended" /\ result' = result /\ result # None
        BY <1>2, <2>8, Zenon DEF Closed, ProviderInv, ResultInv
      <3>2. Contract!End
        BY <3>1, Zenon DEF Contract!End, Ended
      <3> QED
        BY <3>2 DEF ContractStep, Contract!ProviderNext
    <2>9. CASE Deadline
      <3>1. CASE pc \in {"posting", "reading", "closing"} /\ EndsEmpty
        BY <1>2, <3>1, EndsEmptyExpires
      <3>2. CASE pc = "sending" /\ pc' = "dropped" /\ result' = result
        BY <3>2, RaisingStep DEF Ended
      <3> QED
        BY <2>9, <3>1, <3>2 DEF Deadline
    <2>10. CASE Dropped
      BY <2>10, RaisingStep DEF Dropped, Active, Ended
    <2>11. CASE UNCHANGED vars
      BY <2>11, Zenon DEF vars, ContractStep, Contract!providerVars
    <2> QED
      BY <1>2, <2>1, <2>2, <2>3, <2>4, <2>5, <2>6, <2>7, <2>8, <2>9, <2>10, <2>11 DEF Next
  <1>3. ASSUME ProviderInv, [Next]_vars
        PROVE  [Contract!ProviderNext]_(Contract!providerVars)
    BY <1>2, <1>3 DEF ContractStep
  <1> QED
    BY <1>1, <1>3, ProviderStart, ProviderStep, RewriteIsProviderStep, PTL
       DEF RewriteSpec, RewriteInit, ImplementsContract, Contract!ProviderSpec

(* What the sealed events carry: two phases, then deltas of the one attempt   *)
(* that shows output, then at most one last event, after which nothing moves; *)
(* a "complete" is only sealed over a billable result.                        *)
CarriedInv ==
    /\ carried \in Seq(Event)
    /\ Len(carried) = sequence
    /\ pc # "idle" => Len(carried) >= 2
    /\ Len(carried) < 3 => ~emitted
    /\ \A j \in DOMAIN carried :
          /\ j < 3 => carried[j].type = "phase"
          /\ j >= 3 => carried[j].type # "phase"
          /\ carried[j].type = "delta" => carried[j].attempt = attempt /\ emitted
          /\ carried[j].type \in Endings => j = Len(carried) /\ pc \in {"ended", "raised"}
          /\ carried[j].type \in Endings /\ j = 3 => ~emitted
          /\ carried[j].type = "complete" => result # None /\ result.billable

RewriteInv == ProviderInv /\ StreamInv /\ CarriedInv

(* Sealing an event extends what is carried.                                  *)
LEMMA YieldExtends ==
    ASSUME carried \in Seq(Event), NEW type, Yield(type)
    PROVE  /\ Len(carried') = Len(carried) + 1
           /\ sequence' = sequence + 1
           /\ \A j \in DOMAIN carried : j \in DOMAIN carried' /\ carried'[j] = carried[j]
           /\ carried'[Len(carried) + 1] = [type |-> type, attempt |-> attempt]
           /\ \A j \in DOMAIN carried' : j \in DOMAIN carried \/ j = Len(carried) + 1
           /\ (attempt \in Attempts /\ type \in {"phase", "delta"} \cup Endings) =>
                 carried' \in Seq(Event)
  <1> DEFINE e == [type |-> type, attempt |-> attempt]
  <1>1. carried' = Append(carried, e) /\ sequence' = sequence + 1
    BY DEF Yield, Encrypt
  <1>2. (attempt \in Attempts /\ type \in {"phase", "delta"} \cup Endings) => e \in Event
    BY Zenon DEF Event
  <1> HIDE DEF e
  <1>3. /\ Len(carried') = Len(carried) + 1
        /\ \A j \in DOMAIN carried : j \in DOMAIN carried' /\ carried'[j] = carried[j]
        /\ carried'[Len(carried) + 1] = e
        /\ \A j \in DOMAIN carried' : j \in DOMAIN carried \/ j = Len(carried) + 1
        /\ e \in Event => carried' \in Seq(Event)
    BY <1>1, SMT
  <1> QED
    BY <1>1, <1>2, <1>3, Zenon DEF e

LEMMA YieldKeeps ==
    ASSUME CarriedInv, attempt \in Attempts, attempt' = attempt,
           NEW type \in {"phase", "delta"} \cup Endings, Yield(type),
           \A j \in DOMAIN carried : carried[j].type \notin Endings,
           type = "phase" <=> Len(carried) < 2,
           Len(carried) < 2 => ~emitted',
           emitted => emitted',
           type = "delta" => emitted',
           pc' # "idle" => Len(carried) >= 1,
           type \in Endings => pc' \in {"ended", "raised"} /\ (emitted' => emitted),
           type = "complete" => result' # None /\ result'.billable
    PROVE  CarriedInv'
  <1> DEFINE n == Len(carried)
  <1>1. n \in Nat /\ DOMAIN carried = 1 .. n
    BY DEF CarriedInv
  <1>2. /\ Len(carried') = n + 1
        /\ sequence' = sequence + 1
        /\ \A j \in DOMAIN carried : j \in DOMAIN carried' /\ carried'[j] = carried[j]
        /\ carried'[n + 1] = [type |-> type, attempt |-> attempt]
        /\ \A j \in DOMAIN carried' : j \in DOMAIN carried \/ j = n + 1
        /\ carried' \in Seq(Event)
    BY YieldExtends DEF CarriedInv
  <1>3. Len(carried') = sequence' /\ (pc' # "idle" => Len(carried') >= 2)
        /\ (Len(carried') < 3 => Len(carried) < 2)
    BY <1>1, <1>2, SMT DEF CarriedInv
  <1>4. ASSUME NEW j \in DOMAIN carried'
        PROVE  /\ j < 3 => carried'[j].type = "phase"
               /\ j >= 3 => carried'[j].type # "phase"
               /\ carried'[j].type = "delta" => carried'[j].attempt = attempt' /\ emitted'
               /\ carried'[j].type \in Endings => j = Len(carried') /\ pc' \in {"ended", "raised"}
               /\ carried'[j].type \in Endings /\ j = 3 => ~emitted'
               /\ carried'[j].type = "complete" => result' # None /\ result'.billable
    <2>1. CASE j \in DOMAIN carried
      <3>1. carried'[j] = carried[j] /\ carried[j].type \notin Endings
        BY <1>2, <2>1
      <3>2. carried[j].type # "complete"
        BY <3>1 DEF Endings
      <3> QED
        BY <2>1, <3>1, <3>2, Zenon DEF CarriedInv
    <2>2. CASE j = n + 1
      <3>1. carried'[j].type = type /\ carried'[j].attempt = attempt
        <4>1. carried'[j] = [type |-> type, attempt |-> attempt]
          BY <1>2, <2>2
        <4> QED
          BY <4>1, SMT
      <3>2. (j < 3 <=> n < 2) /\ (j >= 3 <=> ~(n < 2)) /\ j = Len(carried') /\ (j = 3 => n < 3)
        BY <1>1, <1>2, <2>2, SMT
      <3>3. j = 3 => ~emitted
        BY <3>2 DEF CarriedInv
      <3> QED
        BY <3>1, <3>2, <3>3, Zenon
    <2> QED
      BY <1>1, <1>2, <2>1, <2>2 DEF RewriteInv
  <1> QED
    BY <1>2, <1>3, <1>4, Zenon DEF CarriedInv

(* What the composition sees of a step of the provider: output is sent by     *)
(* exactly the steps that go from reading to sending.                         *)
LEMMA ProviderMoves ==
    ASSUME ProviderInv, Next
    PROVE  /\ pc \notin Ended
           /\ pc' # "idle"
           /\ emitted => emitted' /\ attempt' = attempt
           /\ pc = "reading" /\ pc' = "sending" => emitted' /\ attempt' = attempt
           /\ ~(pc = "reading" /\ pc' = "sending") => (emitted' => emitted)
  <1> USE DEF emitted, attemptVars, Active, Ended
  <1>1. ASSUME Retries, ~emitted
        PROVE  pc' \in {"posting", "ended"} /\ ~emitted'
    BY <1>1, Zenon DEF Retries, NewAttempt, EndsEmpty
  <1>2. ASSUME EndsEmpty
        PROVE  pc' = "ended" /\ attempt' = attempt /\ text' = text
    BY <1>2, Zenon DEF EndsEmpty
  <1>3. CASE Start
    <2>1. ~emitted
      BY <1>3, Zenon DEF Start, ProviderInv, ResultInv
    <2> QED
      BY <1>3, <2>1, Zenon DEF Start, NewAttempt
  <1>4. CASE Response \/ Resume \/ Escapes \/ Closed \/ Dropped
    BY <1>4, Zenon DEF Response, Resume, Escapes, Closed, Dropped
  <1>5. CASE Chunk
    <2>1. pc = "reading" /\ attempt' = attempt
      BY <1>5 DEF Chunk
    <2>2. PICK content \in {"", "blank", "words"} :
             IF content = ""
             THEN UNCHANGED <<pc, text>>
             ELSE text' = (IF text = "words" THEN "words" ELSE content) /\ pc' = "sending"
      BY <1>5, Zenon DEF Chunk
    <2> QED
      BY <2>1, <2>2, Zenon
  <1>6. CASE BodyEnds
    BY <1>1, <1>2, <1>6, Zenon DEF BodyEnds
  <1>7. CASE Fails
    BY <1>1, <1>7, Zenon DEF Fails
  <1>8. CASE Deadline
    BY <1>2, <1>8, Zenon DEF Deadline
  <1> QED
    BY <1>3, <1>4, <1>5, <1>6, <1>7, <1>8 DEF Next

(* The phases, before the provider is asked (app.py:244-252).                 *)
LEMMA AnnounceStep == ASSUME RewriteInv, Announce PROVE CarriedInv'
  <1>1. /\ pc = "idle" /\ Len(carried) < 2 /\ Yield("phase")
        /\ pc' = pc /\ attempt' = attempt /\ text' = text
    BY DEF Announce, vars, attemptVars
  <1>2. attempt \in Attempts /\ ~emitted /\ ~emitted'
    BY <1>1, Zenon DEF RewriteInv, ProviderInv, AttemptInv, ResultInv, emitted
  <1>3. \A j \in DOMAIN carried : carried[j].type \notin Endings
    BY <1>1, Zenon DEF RewriteInv, CarriedInv
  <1>4. "phase" \notin Endings /\ "phase" # "delta" /\ "phase" # "complete"
    BY DEF Endings
  <1> QED
    BY <1>1, <1>2, <1>3, <1>4, YieldKeeps, Zenon DEF RewriteInv

(* The provider's steps, each delta yielded as it arrives (app.py:253-264).   *)
LEMMA RewriteStep == ASSUME RewriteInv, Rewrite PROVE CarriedInv'
  <1>1. Len(carried) >= 2 /\ Next
    BY DEF Rewrite
  <1>2. /\ pc \notin Ended
        /\ pc' # "idle"
        /\ emitted => emitted' /\ attempt' = attempt
        /\ pc = "reading" /\ pc' = "sending" => emitted' /\ attempt' = attempt
        /\ ~(pc = "reading" /\ pc' = "sending") => (emitted' => emitted)
    BY <1>1, ProviderMoves DEF RewriteInv
  <1>3. \A j \in DOMAIN carried : carried[j].type \notin Endings
    BY <1>2, Zenon DEF RewriteInv, CarriedInv, Ended
  <1>4. CASE pc = "reading" /\ pc' = "sending"
    <2>1. Yield("delta")
      BY <1>4 DEF Rewrite
    <2>2. ~(Len(carried) < 2) /\ Len(carried) >= 1
      BY <1>1, SMT DEF RewriteInv, CarriedInv
    <2>3. "delta" \notin Endings /\ "delta" # "phase" /\ "delta" # "complete"
      BY DEF Endings
    <2>4. attempt \in Attempts
      BY DEF RewriteInv, ProviderInv, AttemptInv
    <2> QED
      BY <1>2, <1>3, <1>4, <2>1, <2>2, <2>3, <2>4, YieldKeeps, Zenon DEF RewriteInv
  <1>5. CASE ~(pc = "reading" /\ pc' = "sending")
    <2>1. carried' = carried /\ sequence' = sequence
      BY <1>5 DEF Rewrite, streamVars
    <2>2. \A j \in DOMAIN carried : carried[j].type # "complete"
      BY <1>3, Zenon DEF Endings
    <2> QED
      BY <1>1, <1>2, <1>3, <1>5, <2>1, <2>2, Zenon DEF RewriteInv, CarriedInv
  <1> QED
    BY <1>4, <1>5

(* The last event (app.py:265-316).                                           *)
LEMMA FinishStep == ASSUME RewriteInv, Finish PROVE CarriedInv'
  <1>1. /\ pc \in {"ended", "raised"}
        /\ carried[Len(carried)].type \notin Endings
        /\ Yield(LastEvent) \/ Yield("error")
        /\ pc' = pc /\ attempt' = attempt /\ text' = text /\ result' = result
    BY DEF Finish, vars, attemptVars
  <1>2. attempt \in Attempts /\ (emitted <=> emitted')
    BY <1>1, Zenon DEF RewriteInv, ProviderInv, AttemptInv, emitted
  <1>3. \A j \in DOMAIN carried : carried[j].type \notin Endings
    BY <1>1, Zenon DEF RewriteInv, CarriedInv
  <1>4. ~(Len(carried) < 2) /\ Len(carried) >= 1
    <2>1. Len(carried) \in Nat /\ Len(carried) >= 2
      BY <1>1, SMT DEF RewriteInv, CarriedInv
    <2> QED
      BY <2>1, SMT
  <1>5. /\ LastEvent \in Endings
        /\ LastEvent = "complete" => result # None /\ result.billable
    <2>1. CASE pc = "raised"
      BY <2>1, Zenon DEF LastEvent, Endings
    <2>2. CASE pc = "ended" /\ result.billable
      <3>1. result # None
        BY <2>2 DEF RewriteInv, ProviderInv, ResultInv
      <3>2. LastEvent = "complete"
        BY <2>2, Zenon DEF LastEvent
      <3> QED
        BY <2>2, <3>1, <3>2, Zenon DEF Endings
    <2>3. CASE pc = "ended" /\ ~result.billable
      BY <2>3, Zenon DEF LastEvent, Endings
    <2> QED
      BY <1>1, <2>1, <2>2, <2>3, Zenon
  <1>6. "phase" \notin Endings /\ "delta" \notin Endings /\ "error" \in Endings /\ "error" # "complete"
    BY DEF Endings
  <1>7. ASSUME NEW type \in Endings, Yield(type),
               type = "complete" => result # None /\ result.billable
        PROVE  CarriedInv'
    BY <1>1, <1>2, <1>3, <1>4, <1>6, <1>7, YieldKeeps, Zenon DEF RewriteInv
  <1> QED
    BY <1>1, <1>5, <1>6, <1>7, Zenon

LEMMA RewriteInvStep ==
    ASSUME OneReader, RewriteInv, [RewriteNext]_rewriteVars PROVE RewriteInv'
  <1>1. ProviderInv' /\ StreamInv'
    BY RewriteIsProviderStep, RewriteIsStreamStep, ProviderStep, StreamStep DEF RewriteInv
  <1>2. ASSUME UNCHANGED vars, carried' = carried, sequence' = sequence PROVE CarriedInv'
    BY <1>2, Zenon DEF RewriteInv, CarriedInv, vars, attemptVars, emitted
  <1>3. CASE Receive /\ UNCHANGED <<vars, carried>>
    <2>1. sequence' = sequence
      BY <1>3, Zenon DEF Receive, Decrypt, Decrypted
    <2>2. UNCHANGED vars /\ carried' = carried
      BY <1>3 DEF vars, attemptVars, history
    <2> QED
      BY <1>1, <1>2, <2>1, <2>2 DEF RewriteInv
  <1>4. CASE UNCHANGED rewriteVars
    <2>1. UNCHANGED vars /\ carried' = carried /\ sequence' = sequence
      BY <1>4 DEF rewriteVars, streamVars, vars, attemptVars, history
    <2> QED
      BY <1>1, <1>2, <2>1 DEF RewriteInv
  <1> QED
    BY <1>1, <1>3, <1>4, AnnounceStep, RewriteStep, FinishStep DEF RewriteNext, RewriteInv

(* Across provider, generator, cipher, path and decryptor, with one decrypt   *)
(* at a time: a page that opens "complete" holds every delta of the rewrite it*)
(* is charged for, and all are of the attempt that ended with an explicit stop*)
(* (app.py:241-316, confidential-crypto.ts:150-180).                          *)
THEOREM RewriteCompleteIsWhole ==
    ASSUME OneReader
    PROVE  RewriteSpec => []CompleteIsWhole
  <1>1. RewriteInit => RewriteInv
    <2> SUFFICES ASSUME RewriteInit PROVE RewriteInv
      OBVIOUS
    <2>1. carried = <<>> /\ sequence = 0 /\ pc = "idle" /\ ~emitted
      BY Zenon DEF RewriteInit, StreamInit, Init, emitted
    <2>2. carried \in Seq(Event) /\ Len(carried) = sequence /\ DOMAIN carried = {}
      BY <2>1, SMT
    <2>3. CarriedInv
      BY <2>1, <2>2, Zenon DEF CarriedInv
    <2> QED
      BY <2>3, ProviderStart, StreamStart DEF RewriteInit, RewriteInv
  <1>2. RewriteInv => CompleteIsWhole
    <2> SUFFICES ASSUME RewriteInv, NEW i \in DOMAIN accepted,
                        carried[accepted[i] + 1].type = "complete"
                 PROVE  /\ i = Len(carried)
                        /\ \A j \in 1 .. i : accepted[j] = j - 1
                        /\ i > 3 /\ \A j \in 3 .. i - 1 :
                              carried[j] = [type |-> "delta", attempt |-> result.attempts]
                        /\ result.attempts \in stopped
      BY DEF CompleteIsWhole
    <2>1. /\ Len(accepted) \in Nat /\ Len(carried) \in Nat
          /\ DOMAIN accepted = 1 .. Len(accepted) /\ DOMAIN carried = 1 .. Len(carried)
          /\ Len(accepted) <= Len(carried)
      BY DEF RewriteInv, StreamInv, CarriedInv, AcceptedIsPrefix
    <2>2. \A j \in 1 .. Len(accepted) : accepted[j] = j - 1
      BY DEF RewriteInv, StreamInv, AcceptedIsPrefix
    <2>3. accepted[i] + 1 = i /\ i \in DOMAIN carried /\ i \in Nat
      BY <2>1, <2>2, SMT
    <2>4. carried[i].type = "complete"
      BY <2>3
    <2>5. i = Len(carried) /\ result # None /\ result.billable
      BY <2>3, <2>4, Zenon DEF RewriteInv, CarriedInv, Endings
    <2>6. \A j \in 1 .. i : accepted[j] = j - 1
      BY <2>1, <2>2, <2>3, SMT
    <2>7. text = "words" /\ attempt \in stopped /\ result.attempts = attempt
      BY <2>5, Zenon DEF RewriteInv, ProviderInv, ResultInv
    <2>8. emitted
      BY <2>7 DEF emitted
    <2>9. ~(Len(carried) < 3)
      BY <2>8 DEF RewriteInv, CarriedInv
    <2>10. i >= 3
      BY <2>1, <2>5, <2>9, SMT
    <2>11. i > 3
      <3>1. i # 3
        BY <2>3, <2>4, <2>8, Zenon DEF RewriteInv, CarriedInv, Endings
      <3> QED
        BY <2>3, <2>10, <3>1, SMT
    <2>12. ASSUME NEW j \in 3 .. i - 1
           PROVE  carried[j] = [type |-> "delta", attempt |-> result.attempts]
      <3>1. j \in DOMAIN carried /\ j >= 3 /\ j # Len(carried)
        <4>1. j \in Int /\ 3 <= j /\ j <= i - 1
          BY <2>3, SMT
        <4>2. i = Len(carried)
          BY <2>5
        <4>3. j \in 1 .. i /\ j >= 3 /\ j # i
          BY <2>3, <4>1, SMT
        <4> QED
          BY <2>1, <4>2, <4>3, Zenon
      <3>2. carried[j].type # "phase" /\ carried[j].type \notin Endings
        BY <3>1, Zenon DEF RewriteInv, CarriedInv
      <3>3. carried[j] \in Event
        BY <3>1, SMT DEF RewriteInv, CarriedInv
      <3>4. carried[j].type = "delta"
        BY <3>2, <3>3, Zenon DEF Event
      <3>5. carried[j].attempt = result.attempts
        BY <2>7, <3>1, <3>4, Zenon DEF RewriteInv, CarriedInv
      <3> QED
        BY <3>3, <3>4, <3>5, Zenon DEF Event
    <2> QED
      BY <2>5, <2>6, <2>7, <2>11, <2>12, Zenon
  <1> QED
    BY <1>1, <1>2, RewriteInvStep, OneReader, PTL DEF RewriteSpec
=============================================================================
