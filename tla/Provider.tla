------------------------------ MODULE Provider ------------------------------
(* One rewrite by DeepInfraProvider.stream (provider.py): at most MaxTries    *)
(* HTTP attempts under one deadline, each a stream of chunks. The consumer is *)
(* _processing_stream, which sends every delta to a browser before it asks    *)
(* for the next event, so the generator may be suspended at a delta for long. *)
EXTENDS Integers

CONSTANTS
    MaxTries,    \* 2 in the code: range(2)
    MaxChunks,   \* bound: chunks of one attempt
    None

ASSUME TriesAssumption == MaxTries \in Nat \ {0} /\ MaxChunks \in Nat

Attempts == 0 .. MaxTries

VARIABLES
    pc,         \* where the generator is, or how the iteration ended
    attempt,    \* attempts
    chunks,     \* chunks read in this attempt
    text,       \* attempt_text: nothing, blanks only, or words
    finish,     \* finish_reason
    requestId,  \* provider_request_id: the attempt whose response named it
    usage,      \* the four usage counters, as one sum
    counted,    \* the usage of the chunk whose delta is being sent
    result,     \* the last ProviderResult the consumer received
    shown,      \* history: the attempts whose deltas the consumer received
    stopped,    \* history: the attempts whose response reported "stop"
    reported    \* history: all usage in the chunks read

attemptVars == <<chunks, text, finish, requestId>>
history == <<shown, stopped, reported>>
vars == <<pc, attempt, attemptVars, usage, counted, result, history>>

Active == {"posting", "reading", "sending", "closing"}
Ended == {"ended", "raised", "dropped"}
Reason == {"stop", "length"}
Result == [billable : BOOLEAN, finish : Reason \cup {None}, requestId : Attempts,
           usage : Nat, attempts : Attempts]
ASSUME NoneAssumption == None \notin Result /\ None \notin Reason

TypeOK ==
    /\ pc \in {"idle"} \cup Active \cup Ended
    /\ attempt \in Attempts
    /\ chunks \in 0 .. MaxChunks
    /\ text \in {"", "blank", "words"}
    /\ finish \in Reason \cup {None}
    /\ requestId \in Attempts
    /\ usage \in Nat /\ counted \in Nat /\ reported \in Nat
    /\ result \in Result \cup {None}
    /\ shown \in SUBSET Attempts /\ stopped \in SUBSET Attempts

Init ==
    /\ pc = "idle"
    /\ attempt = 0 /\ chunks = 0 /\ usage = 0 /\ counted = 0 /\ reported = 0
    /\ text = "" /\ finish = None /\ requestId = 0 /\ result = None
    /\ shown = {} /\ stopped = {}

emitted == text # ""

(* The result as it would be yielded now.                                     *)
ResultNow(billable) ==
    [billable |-> billable, finish |-> finish, requestId |-> requestId,
     usage |-> usage, attempts |-> attempt]

----------------------------------------------------------------------------
(* The top of the for loop: a new attempt forgets the last one's output and   *)
(* metadata, but not its usage.                                               *)
NewAttemptKeepingReason ==                                       \* mutant
    /\ attempt' = attempt + 1
    /\ chunks' = 0 /\ text' = "" /\ requestId' = 0
    /\ UNCHANGED <<finish, usage>>
NewAttemptResettingUsage ==                                      \* mutant
    /\ attempt' = attempt + 1
    /\ chunks' = 0 /\ text' = "" /\ finish' = None /\ requestId' = 0
    /\ usage' = 0
NewAttempt ==
    /\ attempt' = attempt + 1
    /\ chunks' = 0 /\ text' = "" /\ finish' = None /\ requestId' = 0
    /\ UNCHANGED usage

Start ==
    /\ pc = "idle"
    /\ NewAttempt
    /\ pc' = "posting"
    /\ UNCHANGED <<counted, result, history>>

(* After the loop: an empty result with what is known, and the end.           *)
EndsEmpty ==
    /\ pc' = "ended"
    /\ result' = ResultNow(FALSE)
    /\ UNCHANGED <<attempt, attemptVars, usage>>

(* An attempt without output is tried again while there are attempts left.    *)
Retries ==
    IF attempt < MaxTries
    THEN NewAttempt /\ pc' = "posting" /\ UNCHANGED result
    ELSE EndsEmpty

Response ==
    /\ pc = "posting"
    /\ pc' = "reading"
    /\ UNCHANGED <<attempt, attemptVars, usage, counted, result, history>>

(* A chunk with any of an id, a finish reason, content and usage. The reason  *)
(* is recorded before the delta is yielded, the usage after it.               *)
Chunk ==
    /\ pc = "reading"
    /\ chunks < MaxChunks
    /\ chunks' = chunks + 1
    /\ requestId' \in {requestId, attempt}
    /\ \E reason \in Reason \cup {None}, content \in {"", "blank", "words"}, used \in {0, 1} :
        /\ finish' = IF reason = None THEN finish ELSE reason
        /\ stopped' = IF reason = "stop" THEN stopped \cup {attempt} ELSE stopped
        /\ reported' = reported + used
        /\ IF content = ""
           THEN /\ usage' = usage + used
                /\ UNCHANGED <<pc, text, counted, shown>>
           ELSE /\ text' = IF text = "words" THEN "words" ELSE content
                /\ shown' = shown \cup {attempt}
                /\ counted' = used
                /\ pc' = "sending"
                /\ UNCHANGED usage
    /\ UNCHANGED <<attempt, result>>

(* The consumer asks for the next event: the rest of the chunk is handled.    *)
Resume ==
    /\ pc = "sending"
    /\ pc' = "reading"
    /\ usage' = usage + counted
    /\ counted' = 0
    /\ UNCHANGED <<attempt, attemptVars, result, history>>

(* The response body ends.                                                    *)
Billable == text = "words" /\ finish = "stop"

BodyEnds ==
    /\ pc = "reading"
    /\ \/ /\ Billable
          /\ result' = ResultNow(TRUE)
          /\ pc' = "closing"
          /\ UNCHANGED <<attempt, attemptVars, usage>>
       \/ ~Billable /\ emitted /\ EndsEmpty
       \/ ~emitted /\ Retries
    /\ UNCHANGED <<counted, history>>

(* A transport error, an error status or a line that is not JSON.             *)
Fails ==
    /\ pc \in {"posting", "reading"}
    /\ \/ /\ emitted
          /\ pc' = "raised"
          /\ UNCHANGED <<attempt, attemptVars, usage, result>>
       \/ ~emitted /\ Retries
    /\ UNCHANGED <<counted, history>>

(* JSON of another shape than expected raises what nobody here catches; so    *)
(* may closing the connection after a billable result.                        *)
Escapes ==
    /\ pc \in {"reading", "closing"}
    /\ pc' = "raised"
    /\ UNCHANGED <<attempt, attemptVars, usage, counted, result, history>>

Closed ==
    /\ pc = "closing"
    /\ pc' = "ended"
    /\ UNCHANGED <<attempt, attemptVars, usage, counted, result, history>>

(* The deadline of the whole operation. It ends any await of the generator,   *)
(* also the close after a billable result, with an empty result. During a     *)
(* send it cancels the consumer's task, and the generator is dropped.         *)
DeadlinePerRead ==                                               \* mutant
    /\ pc \in {"posting", "reading", "closing"}
    /\ EndsEmpty
    /\ UNCHANGED <<counted, history>>
DeadlineSilent ==                                                \* mutant
    /\ \/ /\ pc \in {"posting", "reading", "closing"}
          /\ pc' = "ended"
          /\ UNCHANGED <<attempt, attemptVars, usage, result>>
       \/ /\ pc = "sending"
          /\ pc' = "dropped"
          /\ UNCHANGED <<attempt, attemptVars, usage, result>>
    /\ UNCHANGED <<counted, history>>
Deadline ==
    /\ \/ pc \in {"posting", "reading", "closing"} /\ EndsEmpty
       \/ /\ pc = "sending"
          /\ pc' = "dropped"
          /\ UNCHANGED <<attempt, attemptVars, usage, result>>
    /\ UNCHANGED <<counted, history>>

(* The consumer is cancelled: the browser has disconnected.                   *)
Dropped ==
    /\ pc \in Active
    /\ pc' = "dropped"
    /\ UNCHANGED <<attempt, attemptVars, usage, counted, result, history>>

Next ==
    \/ Start \/ Response \/ Chunk \/ Resume \/ BodyEnds \/ Fails \/ Escapes
    \/ Closed \/ Deadline \/ Dropped

Spec == Init /\ [][Next]_vars

(* Only the deadline is promised to happen: the provider and the browser may  *)
(* trickle or stall.                                                          *)
FairSpec == Spec /\ WF_vars(Deadline)

----------------------------------------------------------------------------
(* Properties *)

(* The browser never sees output of two attempts, and a billable result is a  *)
(* normal completion of the attempt it saw: its own response said "stop",     *)
(* named its request id if any, and carried the text (provider.py:106-205).   *)
OutputIsWhole ==
    /\ \A a, b \in shown : a = b
    /\ result # None /\ result.billable =>
          /\ shown = {result.attempts}
          /\ result.attempts \in stopped
          /\ result.requestId \in {0, result.attempts}

(* "Preserve the measured attempt count and any usage already reported"       *)
(* (provider.py:208): whatever failed, was retried or expired, a result       *)
(* accounts for all usage the provider reported, of all attempts.             *)
UsageKept == result # None => result.usage = reported /\ result.attempts = attempt

(* The consumer sees deltas, then one result, that only the deadline may      *)
(* replace by an empty one: the provider _processing_stream is written for.   *)
Contract == INSTANCE RewriteProvider WITH
    phase <- IF pc \in Ended THEN pc ELSE "streaming",
    result <- IF result = None THEN "none"
              ELSE IF result.billable THEN "billable" ELSE "empty"
ImplementsContract == Contract!ProviderSpec

(* "The outer deadline bounds the entire provider operation, including a peer *)
(* that sends one harmless chunk just before every read timeout"              *)
(* (provider.py:98-100), and a browser that stops reading.                    *)
OperationEnds == pc \in Active ~> pc \in Ended
=============================================================================
