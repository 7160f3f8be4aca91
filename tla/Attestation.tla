---------------------------- MODULE Attestation ----------------------------
(* The attestation handshake and the key gate of the workload: the cache of   *)
(* attested request keys, the mints that fill it, and the cleaning requests   *)
(* that spend an entry and claim the reservation (app.py, create_app).        *)
(*                                                                            *)
(* The workload is one asyncio process. A section under attestation_lock      *)
(* never awaits, so it is one action; an action here is the code between two  *)
(* awaits. Time is the capability clock, in units of the model.               *)
EXTENDS Integers, FiniteSets

CONSTANTS
    Requests,     \* request ids the website has issued capabilities for
    Challenges,   \* browser challenges
    Keys,         \* key pairs; WorkloadEncryptionKey() yields one never seen
    Calls,        \* HTTP calls, each made once
    Expiry,       \* Expiry[r]: the exp of the capability for r
    MaxEntries,   \* 2000 in the code: cached plus pending entries
    MaxDecrypts,  \* 5 in the code: decrypt attempts per entry
    MaxTime,      \* bound of the model's clock
    None

ASSUME RequestsAssumption == IsFiniteSet(Requests)
ASSUME ExpiryAssumption == Expiry \in [Requests -> Nat]
ASSUME LimitsAssumption ==
    MaxEntries \in Nat /\ MaxDecrypts \in Nat /\ MaxTime \in Nat

VARIABLES
    now,        \* int(time.time())
    cache,      \* attestation_cache
    pending,    \* pending_attestations
    mint,       \* mint[k]: the task minting the token for key k, and its result
    pc,         \* where each call is suspended, or how it ended
    rid,        \* the request id of each call's capability
    challenge,  \* the challenge an attestation call carries
    key,        \* the key a call waits for, or its ciphertext is sealed to
    answer,     \* the 200 answer of an attestation call
    claim,      \* the `started` receipt of each cleaning call
    reserved,   \* the website's reservations
    trials      \* history: how often each private key was used to decrypt

attestVars == <<cache, pending, mint>>
callVars == <<pc, rid, challenge, key, answer>>
siteVars == <<claim, reserved>>
vars == <<now, attestVars, callVars, siteVars, trials>>

(* attestation_binding: a collision-free digest of challenge, id and key.     *)
Binding == [challenge : Challenges, rid : Requests, key : Keys]
AttestationBinding(c, r, k) == [challenge |-> c, rid |-> r, key |-> k]

Entry == [binding : Binding, key : Keys, expiresAt : Nat, attempts : 0 .. MaxDecrypts]
Pending == [challenge : Challenges, key : Keys]
Mint == [rid : Requests, challenge : Challenges,
         state : {"running", "ready", "failed", "lost"}]

ASSUME NoneAssumption == None \notin Mint \cup Pending \cup Entry

(* The token of an answer is identified with the nonce it carries.            *)
Answer == [token : Binding, key : Keys]
AttestationResponse(e) == [token |-> e.binding, key |-> e.key]

Suspended == {"attesting", "waiting", "cleaning", "claiming"}
Outcomes ==
    {"attested", "conflict", "busy", "unavailable", "cancelled",  \* attest
     "unattested", "unreadable", "unclaimed", "streaming",         \* clean
     "invalid", "reset"}                                           \* either

TypeOK ==
    /\ now \in Nat
    /\ cache \in [Requests -> Entry \cup {None}]
    /\ pending \in [Requests -> Pending \cup {None}]
    /\ mint \in [Keys -> Mint \cup {None}]
    /\ pc \in [Calls -> {"idle"} \cup Suspended \cup Outcomes]
    /\ rid \in [Calls -> Requests \cup {None}]
    /\ challenge \in [Calls -> Challenges \cup {None}]
    /\ key \in [Calls -> Keys \cup {None}]
    /\ answer \in [Calls -> Answer \cup {None}]
    /\ claim \in [Calls -> {"none", "sent", "accepted", "refused"}]
    /\ reserved \in [Requests -> {"pending", "claimed"}]
    /\ trials \in [Keys -> Nat]

Init ==
    /\ now = 0
    /\ cache = [r \in Requests |-> None]
    /\ pending = [r \in Requests |-> None]
    /\ mint = [k \in Keys |-> None]
    /\ pc = [c \in Calls |-> "idle"]
    /\ rid = [c \in Calls |-> None]
    /\ challenge = [c \in Calls |-> None]
    /\ key = [c \in Calls |-> None]
    /\ answer = [c \in Calls |-> None]
    /\ claim = [c \in Calls |-> "none"]
    /\ reserved = [r \in Requests |-> "pending"]
    /\ trials = [k \in Keys |-> 0]

----------------------------------------------------------------------------
(* Helpers *)

(* prune_attestations: the cache without the entries that have expired.       *)
PrunedNever == cache                                             \* mutant
Pruned ==
    [r \in Requests |-> IF cache[r] # None /\ cache[r].expiresAt > now
                        THEN cache[r] ELSE None]

Held(table) == {r \in Requests : table[r] # None}
Slots(c, p) == Cardinality(Held(c)) + Cardinality(Held(p))
FullOfStale == Slots(cache, pending) >= MaxEntries               \* mutant
Full == Slots(Pruned, pending) >= MaxEntries

(* attest starts a mint for r only when neither table has an entry for it.    *)
Unattested(r) == Pruned[r] = None /\ pending[r] = None

(* pending[r].task is the mint of the key named there; a mint that ends gives *)
(* back the slot if the slot is its own.                                      *)
OwnsSlot(k) ==
    LET r == mint[k].rid IN pending[r] # None /\ pending[r].key = k
Unreleased(k) == pending                                         \* mutant
Released(k) ==
    IF OwnsSlot(k) THEN [pending EXCEPT ![mint[k].rid] = None] ELSE pending

Ends(c, outcome) == pc' = [pc EXCEPT ![c] = outcome]

----------------------------------------------------------------------------
(* POST /v1/attestation *)

(* verify_capability: of its checks only the expiry can change over time.     *)
Verifies(r) == now < Expiry[r]

(* A call whose capability verifies starts reading its body.                  *)
Attest(c, r, ch) ==
    /\ pc[c] = "idle"
    /\ Verifies(r)
    /\ Ends(c, "attesting")
    /\ rid' = [rid EXCEPT ![c] = r]
    /\ challenge' = [challenge EXCEPT ![c] = ch]
    /\ UNCHANGED <<now, attestVars, key, answer, siteVars, trials>>

(* A call refused before the lock: no body, too large, too slow, malformed.   *)
Refuse(c) ==
    /\ pc[c] \in {"attesting", "cleaning"}
    /\ Ends(c, "invalid")
    /\ UNCHANGED <<now, attestVars, rid, challenge, key, answer, siteVars, trials>>

(* The locked section of attest; it prunes first, whatever it then answers.   *)
AttestCached(c) ==
    LET r == rid[c] e == Pruned[r] IN
    /\ e # None
    /\ IF e.binding = AttestationBinding(challenge[c], r, e.key)
       THEN Ends(c, "attested") /\ answer' = [answer EXCEPT ![c] = AttestationResponse(e)]
       ELSE Ends(c, "conflict") /\ UNCHANGED answer
    /\ UNCHANGED <<pending, mint, key>>

JoinsAny(c) == TRUE                                              \* mutant
Joins(c) == pending[rid[c]].challenge = challenge[c]

AttestJoins(c) ==
    LET r == rid[c] IN
    /\ Pruned[r] = None
    /\ pending[r] # None
    /\ IF Joins(c)
       THEN Ends(c, "waiting") /\ key' = [key EXCEPT ![c] = pending[r].key]
       ELSE Ends(c, "conflict") /\ UNCHANGED key
    /\ UNCHANGED <<pending, mint, answer>>

AttestFull(c) ==
    /\ Unattested(rid[c])
    /\ Full
    /\ Ends(c, "busy")
    /\ UNCHANGED <<pending, mint, key, answer>>

(* WorkloadEncryptionKey(): a key pair from 32 random bytes, never seen.       *)
Fresh(k) == mint[k] = None

AttestStarts(c, k) ==
    LET r == rid[c] IN
    /\ Unattested(r)
    /\ ~Full
    /\ Fresh(k)
    /\ mint' = [mint EXCEPT ![k] =
                   [rid |-> r, challenge |-> challenge[c], state |-> "running"]]
    /\ pending' = [pending EXCEPT ![r] = [challenge |-> challenge[c], key |-> k]]
    /\ Ends(c, "waiting")
    /\ key' = [key EXCEPT ![c] = k]
    /\ UNCHANGED answer

AttestLocked(c) ==
    /\ pc[c] = "attesting"
    /\ cache' = Pruned
    /\ \/ AttestCached(c)
       \/ AttestJoins(c)
       \/ AttestFull(c)
       \/ \E k \in Keys : AttestStarts(c, k)
    /\ UNCHANGED <<now, rid, challenge, siteVars, trials>>

(* mint_attestation: the launcher answered. The store and the finally clause  *)
(* run without an await between them.                                         *)
MintStores(k) ==
    /\ mint[k] # None
    /\ mint[k].state = "running"
    /\ LET r == mint[k].rid IN
       cache' = IF OwnsSlot(k)
                THEN [Pruned EXCEPT ![r] =
                        [binding |-> AttestationBinding(mint[k].challenge, r, k),
                         key |-> k, expiresAt |-> Expiry[r], attempts |-> 0]]
                ELSE Pruned
    /\ pending' = Released(k)
    /\ mint' = [mint EXCEPT ![k].state = "ready"]
    /\ UNCHANGED <<now, callVars, siteVars, trials>>

(* The queue was full or the launcher failed: only the finally clause runs.   *)
MintFails(k) ==
    /\ mint[k] # None
    /\ mint[k].state = "running"
    /\ pending' = Released(k)
    /\ mint' = [mint EXCEPT ![k].state = "failed"]
    /\ UNCHANGED <<now, cache, callVars, siteVars, trials>>

(* await asyncio.shield(attestation_task): every waiter sees the task's       *)
(* result; the entry returned is the task's, cached or not by now.            *)
AttestResultOfSuccess(c) ==                                      \* mutant
    LET k == key[c] m == mint[k] IN
    /\ pc[c] = "waiting"
    /\ m.state = "ready"
    /\ Ends(c, "attested")
    /\ answer' = [answer EXCEPT ![c] =
         [token |-> AttestationBinding(m.challenge, m.rid, k), key |-> k]]
    /\ UNCHANGED <<now, attestVars, rid, challenge, key, siteVars, trials>>
AttestResult(c) ==
    LET k == key[c] m == mint[k] IN
    /\ pc[c] = "waiting"
    /\ \/ /\ m.state = "ready"
          /\ Ends(c, "attested")
          /\ answer' = [answer EXCEPT ![c] =
               [token |-> AttestationBinding(m.challenge, m.rid, k), key |-> k]]
       \/ m.state = "failed" /\ Ends(c, "unavailable") /\ UNCHANGED answer
    /\ UNCHANGED <<now, attestVars, rid, challenge, key, siteVars, trials>>

(* A waiting caller is cancelled; the shield keeps its mint running.          *)
AttestCancelled(c) ==
    /\ pc[c] = "waiting"
    /\ Ends(c, "cancelled")
    /\ UNCHANGED <<now, attestVars, rid, challenge, key, answer, siteVars, trials>>

----------------------------------------------------------------------------
(* POST /v1/clean and POST /v1/media/clean, up to the claim *)

(* A browser seals its request to a key it was answered for that request.     *)
Clean(c, d) ==
    /\ pc[c] = "idle"
    /\ pc[d] = "attested"
    /\ Verifies(rid[d])
    /\ Ends(c, "cleaning")
    /\ rid' = [rid EXCEPT ![c] = rid[d]]
    /\ key' = [key EXCEPT ![c] = answer[d].key]
    /\ UNCHANGED <<now, attestVars, challenge, answer, siteVars, trials>>

(* The locked section finds no entry.                                         *)
CleanUnattested(c) ==
    /\ Pruned[rid[c]] = None
    /\ Ends(c, "unattested")
    /\ cache' = Pruned
    /\ UNCHANGED <<claim, trials>>

(* The attempt after the last one drops the entry.                            *)
ExhaustedLate(e) == e.attempts > MaxDecrypts                     \* mutant
Exhausted(e) == e.attempts + 1 > MaxDecrypts

CleanExhausted(c) ==
    LET r == rid[c] IN
    /\ Pruned[r] # None
    /\ Exhausted(Pruned[r])
    /\ Ends(c, "unattested")
    /\ cache' = [Pruned EXCEPT ![r] = None]
    /\ UNCHANGED <<claim, trials>>

(* decrypt_request_bytes: HPKE opens what was sealed to this private key.      *)
Opens(c, e) == key[c] = e.key

(* Count the attempt, leave the lock, decrypt and validate, and begin to send *)
(* `started`: nothing suspends in between. A ciphertext sealed to another key *)
(* does not open; one sealed to this key may still be refused (400, 403, and  *)
(* 429 while another media job runs).                                         *)
CleanOpens(c) ==
    LET r == rid[c] e == Pruned[r] IN
    /\ e # None
    /\ ~Exhausted(e)
    /\ cache' = [Pruned EXCEPT ![r].attempts = e.attempts + 1]
    /\ trials' = [trials EXCEPT ![e.key] = @ + 1]
    /\ \/ Ends(c, "unreadable") /\ UNCHANGED claim
       \/ /\ Opens(c, e)
          /\ Ends(c, "claiming")
          /\ claim' = [claim EXCEPT ![c] = "sent"]

CleanLocked(c) ==
    /\ pc[c] = "cleaning"
    /\ CleanUnattested(c) \/ CleanExhausted(c) \/ CleanOpens(c)
    /\ UNCHANGED <<now, pending, mint, rid, challenge, key, answer, reserved>>

(* The website claims a reservation once, for the first `started` it sees.    *)
WebsiteStarted(c) ==
    /\ claim[c] = "sent"
    /\ claim' = [claim EXCEPT ![c] =
                    IF reserved[rid[c]] = "pending" THEN "accepted" ELSE "refused"]
    /\ reserved' = [reserved EXCEPT ![rid[c]] = "claimed"]
    /\ UNCHANGED <<now, attestVars, callVars, trials>>

(* The acknowledgement arrives: drop the request's entry and start the stream.*)
Answered(c) == claim[c] \in {"accepted", "refused"}              \* mutant
Acknowledged(c) == claim[c] = "accepted"

ClaimAcknowledged(c) ==
    /\ pc[c] = "claiming"
    /\ Acknowledged(c)
    /\ cache' = [cache EXCEPT ![rid[c]] = None]
    /\ Ends(c, "streaming")
    /\ UNCHANGED <<now, pending, mint, rid, challenge, key, answer, siteVars, trials>>

(* `started` is sent once: a refusal, a lost request or reply, a late reply.  *)
ClaimFails(c) ==
    /\ pc[c] = "claiming"
    /\ Ends(c, "unclaimed")
    /\ UNCHANGED <<now, attestVars, rid, challenge, key, answer, siteVars, trials>>

----------------------------------------------------------------------------
(* The process stops and starts again: memory and calls are gone, receipts    *)
(* already sent are not.                                                      *)
Restart ==
    /\ cache' = [r \in Requests |-> None]
    /\ pending' = [r \in Requests |-> None]
    /\ mint' = [k \in Keys |-> IF mint[k] # None /\ mint[k].state = "running"
                               THEN [mint[k] EXCEPT !.state = "lost"] ELSE mint[k]]
    /\ pc' = [c \in Calls |-> IF pc[c] \in Suspended THEN "reset" ELSE pc[c]]
    /\ UNCHANGED <<now, rid, challenge, key, answer, siteVars, trials>>

Tick ==
    /\ now < MaxTime
    /\ now' = now + 1
    /\ UNCHANGED <<attestVars, callVars, siteVars, trials>>

MintEnds(k) == MintStores(k) \/ MintFails(k)
ClaimEnds(c) == ClaimAcknowledged(c) \/ ClaimFails(c)

Next ==
    \/ \E c \in Calls, r \in Requests, ch \in Challenges : Attest(c, r, ch)
    \/ \E c, d \in Calls : Clean(c, d)
    \/ \E c \in Calls : Refuse(c) \/ AttestLocked(c) \/ AttestResult(c)
                        \/ AttestCancelled(c) \/ CleanLocked(c)
                        \/ WebsiteStarted(c) \/ ClaimEnds(c)
    \/ \E k \in Keys : MintEnds(k)
    \/ Restart
    \/ Tick

Spec == Init /\ [][Next]_vars

(* Bodies, mints and receipts all have timeouts, and the event loop runs what *)
(* is ready. Nothing makes a client call, time pass or the process stop.      *)
Fairness ==
    /\ \A c \in Calls : /\ WF_vars(Refuse(c) \/ AttestLocked(c) \/ CleanLocked(c))
                        /\ WF_vars(AttestResult(c))
                        /\ WF_vars(ClaimEnds(c))
    /\ \A k \in Keys : WF_vars(MintEnds(k))

FairSpec == Spec /\ Fairness

----------------------------------------------------------------------------
(* Properties *)

(* A request holds one slot, cached or pending, never both: attest, the mint  *)
(* and its finally clause hand a slot over without duplicating it.            *)
OneSlotPerRequest == \A r \in Requests : cache[r] = None \/ pending[r] = None

(* Every pending slot is backed by the running mint of its own key, and every *)
(* running mint still owns its slot, so no slot is dead (app.py:485-490).     *)
SlotsBackedByMints ==
    /\ \A r \in Requests : pending[r] # None =>
          mint[pending[r].key] = [rid |-> r, challenge |-> pending[r].challenge,
                                  state |-> "running"]
    /\ \A k \in Keys : mint[k] # None /\ mint[k].state = "running" => OwnsSlot(k)

(* Cached and pending entries together stay within the cap (app.py:578), over *)
(* every interleaving of callers, mints and expiries.                         *)
SlotsBounded == Slots(cache, pending) <= MaxEntries

(* A 503 for capacity is only given when that many slots are live: unexpired  *)
(* entries and running mints, not entries that were due to be pruned.         *)
BusyIsHonest ==
    [][\A c \in Calls : pc[c] = "attesting" /\ pc'[c] = "busy" =>
         Cardinality({r \in Requests : cache[r] # None /\ now < Expiry[r]})
         + Cardinality(Held(pending)) >= MaxEntries]_vars

(* The token of every 200 answer, given to the launcher of the mint or to a   *)
(* caller that joined it or found it cached, proves the key of that answer    *)
(* for that caller's own request and challenge (app.py:564-577, 603-607).     *)
AnswersVerify ==
    \A c \in Calls : pc[c] = "attested" =>
        answer[c].token = AttestationBinding(challenge[c], rid[c], answer[c].key)

(* "Mint and cache one token for every request ID, even under retries"        *)
(* (app.py:466): a cached key is never replaced in place by another one.      *)
CachedKeyStable ==
    [][\A r \in Requests : cache[r] # None /\ cache'[r] # None =>
         cache'[r].key = cache[r].key]_vars

(* However requests are retried and interleaved, and even if its request is   *)
(* attested again, a private key is used for at most MaxDecrypts decryptions. *)
DecryptsBounded == \A k \in Keys : trials[k] <= MaxDecrypts

(* A key opens nothing once its capability has expired, although capability   *)
(* checks happen before the body is read (app.py:688-715).                    *)
NoUsePastExpiry ==
    [][\A k \in Keys : trials'[k] # trials[k] => now < Expiry[mint[k].rid]]_vars

(* Two calls may hold the same entry between the lock and the claim; still at *)
(* most one of them streams, so one response key and nonce sequence is used   *)
(* once (app.py:737-744).                                                     *)
OneStreamPerRequest ==
    \A c, d \in Calls : pc[c] = "streaming" /\ pc[d] = "streaming" =>
        c = d \/ rid[c] # rid[d]

(* Every attestation call whose body is read or that waits for a mint ends.   *)
HandshakeEnds ==
    \A c \in Calls : pc[c] \in {"attesting", "waiting"} ~> pc[c] \in Outcomes

(* A reserved slot is given back or filled, whatever happens to the caller.   *)
SlotsReleased == \A r \in Requests : pending[r] # None ~> pending[r] = None

(* An unbound key is told from a bound one.                                   *)
ASSUME BindingAssumption == None \notin [rid : Requests, challenge : Challenges]

(* The endpoint implements the abstract key table: mints are invisible, and   *)
(* prunes, drops, failures and restarts only free slots.                      *)
Table == INSTANCE KeyTable WITH
    Capacity <- MaxEntries,
    bound <- [k \in Keys |-> IF mint[k] = None THEN None ELSE
                [rid |-> mint[k].rid, challenge |-> mint[k].challenge]],
    live <- {cache[r].key : r \in Held(cache)} \cup {pending[r].key : r \in Held(pending)},
    vouched <- {[rid |-> rid[c], challenge |-> challenge[c], key |-> answer[c].key] :
                  c \in {d \in Calls : pc[d] = "attested"}}
ImplementsKeyTable == Table!TableSpec
=============================================================================
