------------------------- MODULE Attestation_proofs -------------------------
(* Theorems about Attestation for all requests, keys, calls and limits.       *)
EXTENDS Attestation, FiniteSetTheorems, TLAPS

(* What a call carries once it is past a given point.                         *)
CallsTyped ==
    \A c \in Calls :
        /\ pc[c] # "idle" => rid[c] \in Requests
        /\ pc[c] \in {"attesting", "waiting", "attested"} => challenge[c] \in Challenges
        /\ pc[c] = "waiting" => key[c] \in Keys /\ mint[key[c]] \in Mint
        /\ pc[c] = "attested" => answer[c] \in Answer

(* A pending slot names a mint that was started.                              *)
PendingTyped ==
    \A r \in Requests : pending[r] # None => mint[pending[r].key] \in Mint

TypeInv == TypeOK /\ CallsTyped /\ PendingTyped

(* Pruning keeps the type of the cache.                                       *)
LEMMA PrunedType ==
    ASSUME TypeOK
    PROVE  Pruned \in [Requests -> Entry \cup {None}]
BY DEF TypeOK, Pruned

(* Every locked section of attest preserves the types (app.py:560-598).       *)
LEMMA AttestLockedType ==
    ASSUME TypeInv, NEW c \in Calls, AttestLocked(c)
    PROVE  TypeInv'
<1> USE NoneAssumption DEF TypeInv, TypeOK, CallsTyped, PendingTyped, Suspended, Outcomes, Ends
<1>0. /\ rid[c] \in Requests
      /\ challenge[c] \in Challenges
      /\ cache' \in [Requests -> Entry \cup {None}]
      /\ Pruned \in [Requests -> Entry \cup {None}]
  BY PrunedType DEF AttestLocked
<1>1. CASE AttestCached(c)
  <2>1. Pruned[rid[c]] \in Entry
    BY <1>0, <1>1 DEF AttestCached
  <2>2. AttestationResponse(Pruned[rid[c]]) \in Answer
    BY <2>1 DEF AttestationResponse, Entry, Answer
  <2> QED
    BY <1>0, <1>1, <2>2 DEF AttestCached, AttestLocked, siteVars
<1>2. CASE AttestJoins(c)
  BY <1>0, <1>2 DEF AttestJoins, Joins, AttestLocked, siteVars, Pending
<1>3. CASE AttestFull(c)
  BY <1>0, <1>3 DEF AttestFull, AttestLocked, siteVars
<1>4. CASE \E k \in Keys : AttestStarts(c, k)
  <2>1. PICK k \in Keys : AttestStarts(c, k)
    BY <1>4
  <2>2. [rid |-> rid[c], challenge |-> challenge[c], state |-> "running"] \in Mint
    BY <1>0 DEF Mint
  <2> QED
    BY <1>0, <2>1, <2>2 DEF AttestStarts, Fresh, AttestLocked, siteVars, Pending
<1> QED
  BY <1>1, <1>2, <1>3, <1>4 DEF AttestLocked

(* The end of a mint preserves the types (app.py:468-490).                    *)
LEMMA MintEndsType ==
    ASSUME TypeInv, NEW k \in Keys, MintEnds(k)
    PROVE  TypeInv'
<1> USE NoneAssumption DEF TypeInv, TypeOK, CallsTyped, PendingTyped
<1>0. /\ mint[k] \in Mint
      /\ mint[k].rid \in Requests
      /\ mint[k].challenge \in Challenges
      /\ Pruned \in [Requests -> Entry \cup {None}]
      /\ Released(k) \in [Requests -> Pending \cup {None}]
      /\ \A r \in Requests : Released(k)[r] # None => Released(k)[r] = pending[r]
  BY PrunedType DEF MintEnds, MintStores, MintFails, Mint, Released
<1>1. CASE MintStores(k)
  <2>1. [binding |-> AttestationBinding(mint[k].challenge, mint[k].rid, k),
         key |-> k, expiresAt |-> Expiry[mint[k].rid], attempts |-> 0] \in Entry
    BY <1>0, ExpiryAssumption, LimitsAssumption DEF Entry, Binding, AttestationBinding
  <2>2. cache' \in [Requests -> Entry \cup {None}]
    BY <1>0, <1>1, <2>1 DEF MintStores
  <2>3. mint' \in [Keys -> Mint \cup {None}]
    BY <1>0, <1>1 DEF MintStores, Mint
  <2>4. \A l \in Keys : mint[l] \in Mint => mint'[l] \in Mint
    BY <1>0, <1>1 DEF MintStores, Mint
  <2> QED
    BY <1>0, <1>1, <2>2, <2>3, <2>4 DEF MintStores, callVars, siteVars, Pending
<1>2. CASE MintFails(k)
  <2>3. mint' \in [Keys -> Mint \cup {None}]
    BY <1>0, <1>2 DEF MintFails, Mint
  <2>4. \A l \in Keys : mint[l] \in Mint => mint'[l] \in Mint
    BY <1>0, <1>2 DEF MintFails, Mint
  <2> QED
    BY <1>0, <1>2, <2>3, <2>4 DEF MintFails, callVars, siteVars, Pending
<1> QED
  BY <1>1, <1>2 DEF MintEnds

(* The locked section of a cleaning call preserves the types (app.py:699-740).*)
LEMMA CleanLockedType ==
    ASSUME TypeInv, NEW c \in Calls, CleanLocked(c)
    PROVE  TypeInv'
<1> USE NoneAssumption DEF TypeInv, TypeOK, CallsTyped, PendingTyped, Ends, Suspended, Outcomes
<1>0. /\ rid[c] \in Requests
      /\ Pruned \in [Requests -> Entry \cup {None}]
  BY PrunedType DEF CleanLocked
<1>1. CASE CleanUnattested(c)
  BY <1>0, <1>1 DEF CleanUnattested, CleanLocked
<1>2. CASE CleanExhausted(c)
  BY <1>0, <1>2 DEF CleanExhausted, CleanLocked
<1>3. CASE CleanOpens(c)
  <2>1. /\ Pruned[rid[c]] \in Entry
        /\ Pruned[rid[c]].key \in Keys
        /\ Pruned[rid[c]].attempts + 1 \in 0 .. MaxDecrypts
    BY <1>0, <1>3, LimitsAssumption DEF CleanOpens, Opens, Exhausted, Entry
  <2>2. cache' \in [Requests -> Entry \cup {None}]
    BY <1>0, <1>3, <2>1 DEF CleanOpens, Opens, Entry
  <2>3. trials' \in [Keys -> Nat]
    BY <1>3, <2>1 DEF CleanOpens, Opens
  <2>4. claim' \in [Calls -> {"none", "sent", "accepted", "refused"}]
    BY <1>3 DEF CleanOpens, Opens
  <2>5. pc' \in [Calls -> {"idle"} \cup Suspended \cup Outcomes]
        /\ \A d \in Calls : pc'[d] = pc[d] \/ (d = c /\ pc'[d] \in {"unreadable", "claiming"})
    BY <1>3 DEF CleanOpens, Opens
  <2> QED
    BY <1>0, <2>2, <2>3, <2>4, <2>5 DEF CleanLocked
<1> QED
  BY <1>1, <1>2, <1>3 DEF CleanLocked

(* Every step preserves the types.                                            *)
LEMMA TypeStep ==
    ASSUME TypeInv, [Next]_vars
    PROVE  TypeInv'
<1> USE NoneAssumption
<1> USE DEF TypeInv, TypeOK, CallsTyped, PendingTyped, Ends, Suspended, Outcomes
<1>1. ASSUME NEW c \in Calls, NEW r \in Requests, NEW ch \in Challenges, Attest(c, r, ch)
      PROVE  TypeInv'
  BY <1>1 DEF Attest, attestVars, siteVars
<1>2. ASSUME NEW c \in Calls, NEW d \in Calls, Clean(c, d)
      PROVE  TypeInv'
  <2>1. answer[d].key \in Keys /\ rid[d] \in Requests
    BY <1>2 DEF Clean, Answer
  <2> QED
    BY <1>2, <2>1 DEF Clean, attestVars, siteVars
<1>3. ASSUME NEW c \in Calls, Refuse(c)
      PROVE  TypeInv'
  BY <1>3 DEF Refuse, attestVars, siteVars
<1>4. ASSUME NEW c \in Calls, AttestLocked(c)
      PROVE  TypeInv'
  BY <1>4, AttestLockedType
<1>5. ASSUME NEW c \in Calls, AttestResult(c)
      PROVE  TypeInv'
  <2>1. /\ key[c] \in Keys
        /\ [token |-> AttestationBinding(mint[key[c]].challenge, mint[key[c]].rid, key[c]),
            key |-> key[c]] \in Answer
    BY <1>5 DEF AttestResult, Mint, Answer, AttestationBinding, Binding
  <2> QED
    BY <1>5, <2>1 DEF AttestResult, attestVars, siteVars
<1>6. ASSUME NEW c \in Calls, AttestCancelled(c)
      PROVE  TypeInv'
  BY <1>6 DEF AttestCancelled, attestVars, siteVars
<1>7. ASSUME NEW c \in Calls, CleanLocked(c)
      PROVE  TypeInv'
  BY <1>7, CleanLockedType
<1>8. ASSUME NEW c \in Calls, WebsiteStarted(c)
      PROVE  TypeInv'
  BY <1>8 DEF WebsiteStarted, attestVars, callVars
<1>9. ASSUME NEW c \in Calls, ClaimEnds(c)
      PROVE  TypeInv'
  BY <1>9 DEF ClaimEnds, ClaimAcknowledged, ClaimFails, attestVars, siteVars
<1>10. ASSUME NEW k \in Keys, MintEnds(k)
       PROVE  TypeInv'
  BY <1>10, MintEndsType
<1>11. CASE Restart
  <2>1. \A k \in Keys : mint[k] \in Mint => mint'[k] \in Mint
    BY <1>11 DEF Restart, Mint
  <2> QED
    BY <1>11, <2>1 DEF Restart, siteVars
<1>12. CASE Tick
  BY <1>12 DEF Tick, attestVars, callVars, siteVars
<1>13. CASE UNCHANGED vars
  BY <1>13 DEF vars, attestVars, callVars, siteVars
<1> QED
  BY <1>1, <1>2, <1>3, <1>4, <1>5, <1>6, <1>7, <1>8, <1>9, <1>10, <1>11, <1>12, <1>13
     DEF Next

(* Every variable of the handshake keeps its type, for any number of requests,*)
(* keys and calls.                                                            *)
THEOREM TypeCorrect == Spec => []TypeOK
<1>1. Init => TypeInv
  BY NoneAssumption DEF Init, TypeInv, TypeOK, CallsTyped, PendingTyped
<1>2. TypeInv /\ [Next]_vars => TypeInv'
  BY TypeStep
<1>3. TypeInv => TypeOK
  BY DEF TypeInv
<1> QED
  BY <1>1, <1>2, <1>3, PTL DEF Spec

----------------------------------------------------------------------------
(* The handshake: slots, mints and answers *)

(* A cached entry is what the finished mint of its key produced.              *)
CacheSound ==
    \A r \in Requests : cache[r] # None =>
        LET k == cache[r].key IN
        /\ mint[k] \in Mint
        /\ mint[k].state = "ready"
        /\ mint[k].rid = r
        /\ cache[r].binding = AttestationBinding(mint[k].challenge, r, k)
        /\ cache[r].expiresAt = Expiry[r]

(* A waiting call waits for a mint of its own request and challenge.          *)
WaitersSound ==
    \A c \in Calls : pc[c] = "waiting" =>
        mint[key[c]].rid = rid[c] /\ mint[key[c]].challenge = challenge[c]

SlotInv == OneSlotPerRequest /\ SlotsBackedByMints /\ CacheSound
AnswerInv == WaitersSound /\ AnswersVerify

(* Pruning only removes entries.                                              *)
LEMMA PrunedSubset ==
    ASSUME TypeOK
    PROVE  \A r \in Requests : Pruned[r] # None => Pruned[r] = cache[r]
BY DEF Pruned

(* A locked section of attest keeps the slots sound.                          *)
LEMMA AttestLockedSlots ==
    ASSUME TypeInv, SlotInv, NEW c \in Calls, AttestLocked(c)
    PROVE  SlotInv'
<1> USE NoneAssumption
        DEF SlotInv, OneSlotPerRequest, SlotsBackedByMints, CacheSound, OwnsSlot
<1>0. /\ rid[c] \in Requests
      /\ challenge[c] \in Challenges
      /\ cache' = Pruned
      /\ Pruned \in [Requests -> Entry \cup {None}]
      /\ \A r \in Requests : Pruned[r] # None => Pruned[r] = cache[r]
      /\ pending \in [Requests -> Pending \cup {None}]
      /\ mint \in [Keys -> Mint \cup {None}]
  BY PrunedType, PrunedSubset DEF AttestLocked, TypeInv, TypeOK, CallsTyped
<1>1. CASE UNCHANGED <<pending, mint>>
  BY <1>0, <1>1
<1>2. CASE \E k \in Keys : AttestStarts(c, k)
  <2>1. PICK k \in Keys : AttestStarts(c, k)
    BY <1>2
  <2>2. /\ mint[k] = None
        /\ Pruned[rid[c]] = None
        /\ pending[rid[c]] = None
        /\ mint' = [mint EXCEPT ![k] =
              [rid |-> rid[c], challenge |-> challenge[c], state |-> "running"]]
        /\ pending' = [pending EXCEPT ![rid[c]] = [challenge |-> challenge[c], key |-> k]]
    BY <2>1 DEF AttestStarts, Fresh, Unattested
  <2>3. OneSlotPerRequest'
    BY <1>0, <2>2
  <2>4. \A r \in Requests : pending[r] # None => pending[r].key # k
    BY <1>0, <2>2 DEF TypeInv, PendingTyped
  <2>5. SlotsBackedByMints'
    <3>1. ASSUME NEW r \in Requests, pending'[r] # None
          PROVE  mint'[pending'[r].key] =
                   [rid |-> r, challenge |-> pending'[r].challenge, state |-> "running"]
      <4>1. CASE r = rid[c]
        BY <1>0, <2>2, <4>1
      <4>2. CASE r # rid[c]
        BY <1>0, <2>2, <2>4, <3>1, <4>2 DEF Pending
      <4> QED
        BY <4>1, <4>2
    <3>2. ASSUME NEW l \in Keys, mint'[l] # None, mint'[l].state = "running"
          PROVE  OwnsSlot(l)'
      <4>1. CASE l = k
        <5>1. mint'[k].rid = rid[c]
          BY <1>0, <2>2
        <5>2. pending'[rid[c]] \in Pending /\ pending'[rid[c]].key = k
          BY <1>0, <2>2 DEF Pending
        <5>3. pending'[rid[c]] # None
          BY <5>2
        <5> QED
          BY <4>1, <5>1, <5>2, <5>3
      <4>2. CASE l # k
        <5>1. mint'[l] = mint[l] /\ OwnsSlot(l)
          BY <1>0, <2>2, <3>2, <4>2
        <5>2. mint[l] \in Mint /\ mint[l].rid \in Requests
          BY <1>0, <3>2, <5>1 DEF Mint
        <5>3. mint[l].rid # rid[c]
          BY <2>2, <5>1
        <5>4. pending'[mint[l].rid] = pending[mint[l].rid]
          BY <1>0, <2>2, <5>2, <5>3
        <5>5. mint'[l].rid = mint[l].rid
          BY <5>1
        <5> QED
          BY <5>1, <5>4, <5>5
      <4> QED
        BY <4>1, <4>2
    <3> QED
      BY <3>1, <3>2
  <2>7. \A r \in Requests : cache'[r] # None => cache'[r] = cache[r] /\ cache[r].key # k
    BY <1>0, <2>2
  <2>8. CacheSound'
    BY <1>0, <2>2, <2>7 DEF Entry
  <2> QED
    BY <2>3, <2>5, <2>8
<1> QED
  BY <1>1, <1>2 DEF AttestLocked, AttestCached, AttestJoins, AttestFull

(* The end of a mint hands its slot over or gives it back.                    *)
LEMMA MintEndsSlots ==
    ASSUME TypeInv, SlotInv, NEW k \in Keys, MintEnds(k)
    PROVE  SlotInv'
<1> USE NoneAssumption
        DEF SlotInv, OneSlotPerRequest, SlotsBackedByMints, CacheSound, OwnsSlot
<1> DEFINE q == mint[k].rid
<1>0. /\ mint[k] \in Mint
      /\ mint[k].state = "running"
      /\ q \in Requests
      /\ Pruned \in [Requests -> Entry \cup {None}]
      /\ \A r \in Requests : Pruned[r] # None => Pruned[r] = cache[r]
      /\ pending \in [Requests -> Pending \cup {None}]
      /\ mint \in [Keys -> Mint \cup {None}]
      /\ cache \in [Requests -> Entry \cup {None}]
  BY PrunedType, PrunedSubset DEF MintEnds, MintStores, MintFails, Mint, TypeInv, TypeOK
<1>1. pending[q] # None /\ pending[q].key = k /\ cache[q] = None
  BY <1>0
<1>2. Released(k) = [pending EXCEPT ![q] = None]
  BY <1>1 DEF Released
<1>3. ASSUME NEW r \in Requests, r # q, pending[r] # None
      PROVE  pending[r].key # k
  <2>1. mint[pending[r].key] =
          [rid |-> r, challenge |-> pending[r].challenge, state |-> "running"]
    BY <1>3
  <2>2. mint[pending[r].key].rid = r
    BY <2>1
  <2> QED
    BY <1>3, <2>2
<1>4. \A r \in Requests : cache[r] # None => cache[r].key # k
  BY <1>0
<1>5. CASE MintStores(k)
  <2> DEFINE e == [binding |-> AttestationBinding(mint[k].challenge, q, k),
                   key |-> k, expiresAt |-> Expiry[q], attempts |-> 0]
  <2>1. /\ pending' = [pending EXCEPT ![q] = None]
        /\ mint' = [mint EXCEPT ![k].state = "ready"]
        /\ cache' = [Pruned EXCEPT ![q] = e]
    BY <1>1, <1>2, <1>5 DEF MintStores
  <2>2. mint'[k] \in Mint /\ mint'[k] = [mint[k] EXCEPT !.state = "ready"]
    BY <1>0, <2>1 DEF Mint
  <2>3. OneSlotPerRequest'
    BY <1>0, <2>1
  <2>4. SlotsBackedByMints'
    BY <1>0, <1>3, <2>1, <2>2 DEF Mint
  <2>5. CacheSound'
    <3> SUFFICES ASSUME NEW r \in Requests, cache'[r] # None
                 PROVE  LET l == cache'[r].key IN
                        /\ mint'[l] \in Mint
                        /\ mint'[l].state = "ready"
                        /\ mint'[l].rid = r
                        /\ cache'[r].binding = AttestationBinding(mint'[l].challenge, r, l)
                        /\ cache'[r].expiresAt = Expiry[r]
      OBVIOUS
    <3>1. CASE r = q
      <4>1. cache'[q] = e
        BY <1>0, <2>1
      <4> QED
        BY <1>0, <2>2, <3>1, <4>1 DEF Mint
    <3>2. CASE r # q
      BY <1>0, <1>4, <2>1, <3>2
    <3> QED
      BY <3>1, <3>2
  <2> QED
    BY <2>3, <2>4, <2>5
<1>6. CASE MintFails(k)
  <2>1. /\ pending' = [pending EXCEPT ![q] = None]
        /\ mint' = [mint EXCEPT ![k].state = "failed"]
        /\ cache' = cache
    BY <1>1, <1>2, <1>6 DEF MintFails
  <2>2. mint'[k] \in Mint /\ mint'[k] = [mint[k] EXCEPT !.state = "failed"]
    BY <1>0, <2>1 DEF Mint
  <2>3. OneSlotPerRequest'
    BY <1>0, <2>1
  <2>4. SlotsBackedByMints'
    BY <1>0, <1>3, <2>1, <2>2 DEF Mint
  <2>5. CacheSound'
    BY <1>0, <1>4, <2>1
  <2> QED
    BY <2>3, <2>4, <2>5
<1> QED
  BY <1>5, <1>6 DEF MintEnds

(* Steps that only drop cached entries or count attempts keep the slots.      *)
LEMMA CacheKeptSlots ==
    ASSUME TypeInv, SlotInv, UNCHANGED <<pending, mint>>,
           \A r \in Requests : cache'[r] # None =>
              /\ cache[r] # None
              /\ cache'[r].key = cache[r].key
              /\ cache'[r].binding = cache[r].binding
              /\ cache'[r].expiresAt = cache[r].expiresAt
    PROVE  SlotInv'
BY DEF SlotInv, OneSlotPerRequest, SlotsBackedByMints, CacheSound, OwnsSlot

(* A cleaning call keeps at most what it found in the cache (app.py:699-744). *)
LEMMA CleanKeeps ==
    ASSUME TypeInv, NEW c \in Calls, CleanLocked(c) \/ ClaimEnds(c)
    PROVE  \A r \in Requests : cache'[r] # None =>
              /\ cache[r] # None
              /\ cache'[r].key = cache[r].key
              /\ cache'[r].binding = cache[r].binding
              /\ cache'[r].expiresAt = cache[r].expiresAt
<1> USE NoneAssumption DEF TypeInv, TypeOK
<1>0. /\ Pruned \in [Requests -> Entry \cup {None}]
      /\ \A r \in Requests : Pruned[r] # None => Pruned[r] = cache[r]
  BY PrunedType, PrunedSubset
<1>1. CASE CleanUnattested(c)
  BY <1>0, <1>1 DEF CleanUnattested
<1>2. CASE CleanExhausted(c)
  BY <1>0, <1>2 DEF CleanExhausted
<1>3. CASE CleanLocked(c) /\ CleanOpens(c)
  <2>1. /\ rid[c] \in Requests
        /\ Pruned[rid[c]] \in Entry
        /\ cache' = [Pruned EXCEPT ![rid[c]].attempts = Pruned[rid[c]].attempts + 1]
    BY <1>0, <1>3 DEF CleanOpens, Opens, CleanLocked, CallsTyped
  <2>2. ASSUME NEW r \in Requests, cache'[r] # None
        PROVE  /\ Pruned[r] # None
               /\ cache'[r].key = Pruned[r].key
               /\ cache'[r].binding = Pruned[r].binding
               /\ cache'[r].expiresAt = Pruned[r].expiresAt
    BY <1>0, <1>3, <2>1, <2>2 DEF CleanOpens, Opens, Entry
  <2> QED
    BY <1>0, <2>2
<1>4. CASE ClaimEnds(c)
  BY <1>4 DEF ClaimEnds, ClaimAcknowledged, ClaimFails, attestVars
<1> QED
  BY <1>1, <1>2, <1>3, <1>4 DEF CleanLocked

(* Every step keeps the slots sound.                                          *)
LEMMA SlotStep ==
    ASSUME TypeInv, SlotInv, [Next]_vars
    PROVE  SlotInv'
<1> USE NoneAssumption
<1>1. CASE UNCHANGED attestVars
  BY <1>1 DEF attestVars, SlotInv, OneSlotPerRequest, SlotsBackedByMints, CacheSound, OwnsSlot
<1>2. ASSUME NEW c \in Calls, AttestLocked(c)
      PROVE  SlotInv'
  BY <1>2, AttestLockedSlots
<1>3. ASSUME NEW c \in Calls, CleanLocked(c) \/ ClaimEnds(c)
      PROVE  SlotInv'
  <2>1. UNCHANGED <<pending, mint>>
    BY <1>3 DEF CleanLocked, ClaimEnds, ClaimAcknowledged, ClaimFails, attestVars
  <2> QED
    BY <1>3, <2>1, CleanKeeps, CacheKeptSlots
<1>4. ASSUME NEW k \in Keys, MintEnds(k)
      PROVE  SlotInv'
  BY <1>4, MintEndsSlots
<1>5. CASE Restart
  BY <1>5 DEF Restart, SlotInv, OneSlotPerRequest, SlotsBackedByMints, CacheSound, OwnsSlot,
              TypeInv, TypeOK, Mint
<1> QED
  BY <1>1, <1>2, <1>3, <1>4, <1>5
     DEF Next, vars, Attest, Clean, Refuse, AttestResult, AttestCancelled, WebsiteStarted, Tick

(* The slots are sound initially and forever.                                 *)
LEMMA SlotsAlways == Spec => [](TypeInv /\ SlotInv)
<1>1. Init => TypeInv /\ SlotInv
  BY NoneAssumption DEF Init, TypeInv, TypeOK, CallsTyped, PendingTyped, SlotInv,
                        OneSlotPerRequest, SlotsBackedByMints, CacheSound
<1>2. TypeInv /\ SlotInv /\ [Next]_vars => (TypeInv /\ SlotInv)'
  BY TypeStep, SlotStep
<1> QED
  BY <1>1, <1>2, PTL DEF Spec

(* No request is ever both cached and pending, whatever the number of callers *)
(* (app.py:468-490, 560-598).                                                 *)
THEOREM SlotsExclusive == Spec => []OneSlotPerRequest
BY SlotsAlways, PTL DEF SlotInv

(* No reserved slot is dead: each belongs to a mint that still runs and that  *)
(* will release it (app.py:485-490).                                          *)
THEOREM SlotsAlive == Spec => []SlotsBackedByMints
BY SlotsAlways, PTL DEF SlotInv

(* A finished mint becomes a cached entry only while none is cached, and no   *)
(* other step writes a key into the cache.                                    *)
LEMMA CacheKeyStep ==
    ASSUME TypeInv, SlotInv, [Next]_vars
    PROVE  \A r \in Requests : cache[r] # None /\ cache'[r] # None =>
              cache'[r].key = cache[r].key
<1> USE NoneAssumption
<1>0. \A r \in Requests : Pruned[r] # None => Pruned[r] = cache[r]
  BY PrunedSubset DEF TypeInv
<1>1. CASE UNCHANGED cache
  BY <1>1
<1>2. ASSUME NEW c \in Calls, AttestLocked(c)
      PROVE  \A r \in Requests : cache'[r] # None => cache'[r] = cache[r]
  BY <1>0, <1>2 DEF AttestLocked
<1>3. ASSUME NEW k \in Keys, MintStores(k)
      PROVE  \A r \in Requests : cache[r] # None /\ cache'[r] # None => cache'[r] = cache[r]
  <2>1. CASE OwnsSlot(k)
    <3> DEFINE q == mint[k].rid
    <3>1. q \in Requests /\ cache[q] = None
      BY <1>3, <2>1 DEF MintStores, OwnsSlot, SlotInv, OneSlotPerRequest, TypeInv, TypeOK, Mint
    <3>2. \A r \in Requests : r # q => cache'[r] = Pruned[r]
      BY <1>3, <2>1, PrunedType DEF MintStores, TypeInv
    <3> QED
      BY <1>0, <3>1, <3>2
  <2>2. CASE ~OwnsSlot(k)
    BY <1>0, <1>3, <2>2 DEF MintStores
  <2> QED
    BY <2>1, <2>2
<1>4. CASE Restart
  BY <1>4 DEF Restart
<1> QED
  BY <1>1, <1>2, <1>3, <1>4, CleanKeeps
     DEF Next, vars, attestVars, Attest, Clean, Refuse, AttestResult, AttestCancelled,
         WebsiteStarted, Tick, MintEnds, MintFails

(* "Mint and cache one token for every request ID, even under retries"        *)
(* (app.py:466): no step replaces a cached key by another.                    *)
THEOREM CachedKeysStable == Spec => CachedKeyStable
<1>1. TypeInv /\ SlotInv /\ [Next]_vars =>
        [\A r \in Requests : cache[r] # None /\ cache'[r] # None =>
            cache'[r].key = cache[r].key]_vars
  BY CacheKeyStep
<1> QED
  BY <1>1, SlotsAlways, PTL DEF Spec, CachedKeyStable

----------------------------------------------------------------------------
(* The answers *)

(* A mint that was started never changes its request or challenge.            *)
LEMMA MintFixed ==
    ASSUME TypeInv, [Next]_vars, NEW k \in Keys, mint[k] # None
    PROVE  /\ mint'[k] # None
           /\ mint'[k].rid = mint[k].rid
           /\ mint'[k].challenge = mint[k].challenge
<1> USE NoneAssumption DEF TypeInv, TypeOK, Mint
<1>1. CASE UNCHANGED mint
  BY <1>1
<1>2. ASSUME NEW c \in Calls, AttestLocked(c)
      PROVE  mint'[k] = mint[k]
  BY <1>2 DEF AttestLocked, AttestCached, AttestJoins, AttestFull, AttestStarts, Fresh
<1>3. ASSUME NEW l \in Keys, MintEnds(l)
      PROVE  mint'[k] = mint[k] \/ mint'[k] = [mint[k] EXCEPT !.state = "ready"]
                                \/ mint'[k] = [mint[k] EXCEPT !.state = "failed"]
  BY <1>3 DEF MintEnds, MintStores, MintFails
<1>4. CASE Restart
  BY <1>4 DEF Restart
<1>5. UNCHANGED mint
      \/ (\E c \in Calls : AttestLocked(c))
      \/ (\E l \in Keys : MintEnds(l))
      \/ Restart
  BY DEF Next, vars, attestVars, Attest, Clean, Refuse, AttestResult, AttestCancelled,
         WebsiteStarted, Tick, CleanLocked, ClaimEnds, ClaimAcknowledged, ClaimFails
<1> QED
  BY <1>1, <1>2, <1>3, <1>4, <1>5

(* A locked section of attest keeps the answers sound (app.py:563-598).       *)
LEMMA AttestLockedAnswers ==
    ASSUME TypeInv, SlotInv, AnswerInv, NEW c \in Calls, AttestLocked(c)
    PROVE  AnswerInv'
<1> USE NoneAssumption DEF AnswerInv, WaitersSound, AnswersVerify, Ends
<1>0. /\ pc \in [Calls -> {"idle"} \cup Suspended \cup Outcomes]
      /\ answer \in [Calls -> Answer \cup {None}]
      /\ key \in [Calls -> Keys \cup {None}]
      /\ mint \in [Keys -> Mint \cup {None}]
      /\ rid' = rid /\ challenge' = challenge
      /\ \A d \in Calls : pc[d] = "waiting" => key[d] \in Keys /\ mint[key[d]] \in Mint
      /\ rid[c] \in Requests
  BY DEF TypeInv, TypeOK, CallsTyped, AttestLocked
<1>1. CASE AttestCached(c)
  <2>1. CASE Pruned[rid[c]].binding =
               AttestationBinding(challenge[c], rid[c], Pruned[rid[c]].key)
    <3>1. answer'[c].token = AttestationBinding(challenge[c], rid[c], answer'[c].key)
      BY <1>0, <1>1, <2>1 DEF AttestCached, AttestationResponse
    <3>2. /\ \A d \in Calls \ {c} : answer'[d] = answer[d]
          /\ \A d \in Calls \ {c} : pc'[d] = pc[d]
          /\ pc'[c] = "attested"
          /\ UNCHANGED <<mint, key>>
      BY <1>0, <1>1, <2>1 DEF AttestCached
    <3> QED
      BY <1>0, <3>1, <3>2
  <2>2. CASE Pruned[rid[c]].binding #
               AttestationBinding(challenge[c], rid[c], Pruned[rid[c]].key)
    BY <1>0, <1>1, <2>2 DEF AttestCached
  <2> QED
    BY <2>1, <2>2
<1>2. CASE AttestJoins(c)
  <2>1. CASE Joins(c)
    <3>1. /\ mint[pending[rid[c]].key].rid = rid[c]
          /\ mint[pending[rid[c]].key].challenge = challenge[c]
      <4>1. mint[pending[rid[c]].key] =
              [rid |-> rid[c], challenge |-> pending[rid[c]].challenge, state |-> "running"]
        BY <1>0, <1>2 DEF AttestJoins, SlotInv, SlotsBackedByMints
      <4> QED
        BY <2>1, <4>1 DEF Joins
    <3> QED
      BY <1>0, <1>2, <2>1, <3>1 DEF AttestJoins
  <2>2. CASE ~Joins(c)
    BY <1>0, <1>2, <2>2 DEF AttestJoins
  <2> QED
    BY <2>1, <2>2
<1>3. CASE AttestFull(c)
  BY <1>0, <1>3 DEF AttestFull
<1>4. CASE \E k \in Keys : AttestStarts(c, k)
  <2>1. PICK k \in Keys : AttestStarts(c, k)
    BY <1>4
  <2>2. /\ mint'[k].rid = rid[c]
        /\ mint'[k].challenge = challenge[c]
        /\ \A l \in Keys : l # k => mint'[l] = mint[l]
        /\ mint[k] = None
    BY <1>0, <2>1 DEF AttestStarts, Fresh
  <2>3. /\ key' = [key EXCEPT ![c] = k]
        /\ pc' = [pc EXCEPT ![c] = "waiting"]
        /\ answer' = answer
    BY <2>1 DEF AttestStarts, Fresh
  <2> QED
    BY <1>0, <2>2, <2>3
<1> QED
  BY <1>1, <1>2, <1>3, <1>4 DEF AttestLocked

(* Every step keeps the answers sound.                                        *)
LEMMA AnswerStep ==
    ASSUME TypeInv, SlotInv, AnswerInv, [Next]_vars
    PROVE  AnswerInv'
<1> USE NoneAssumption DEF AnswerInv, WaitersSound, AnswersVerify, Ends
<1>0. /\ pc \in [Calls -> {"idle"} \cup Suspended \cup Outcomes]
      /\ rid \in [Calls -> Requests \cup {None}]
      /\ key \in [Calls -> Keys \cup {None}]
      /\ challenge \in [Calls -> Challenges \cup {None}]
      /\ answer \in [Calls -> Answer \cup {None}]
      /\ \A d \in Calls : pc[d] = "waiting" => key[d] \in Keys /\ mint[key[d]] # None
      /\ \A k \in Keys : mint[k] # None =>
            mint'[k].rid = mint[k].rid /\ mint'[k].challenge = mint[k].challenge
  BY MintFixed DEF TypeInv, TypeOK, CallsTyped
<1>1. ASSUME UNCHANGED <<rid, challenge, key, answer>>,
             \A c \in Calls : pc'[c] \in {"waiting", "attested"} => pc'[c] = pc[c]
      PROVE  AnswerInv'
  BY <1>0, <1>1
<1>2. ASSUME NEW c \in Calls, NEW r \in Requests, NEW ch \in Challenges, Attest(c, r, ch)
      PROVE  AnswerInv'
  <2>1. /\ pc'[c] = "attesting"
        /\ \A d \in Calls \ {c} : pc'[d] = pc[d] /\ rid'[d] = rid[d]
                                  /\ challenge'[d] = challenge[d]
        /\ UNCHANGED <<mint, key, answer>>
    BY <1>0, <1>2 DEF Attest, attestVars
  <2> QED
    BY <2>1
<1>3. ASSUME NEW c \in Calls, NEW d \in Calls, Clean(c, d)
      PROVE  AnswerInv'
  <2>1. /\ pc'[c] = "cleaning"
        /\ \A e \in Calls \ {c} : pc'[e] = pc[e] /\ rid'[e] = rid[e] /\ key'[e] = key[e]
        /\ UNCHANGED <<mint, challenge, answer>>
    BY <1>0, <1>3 DEF Clean, attestVars
  <2> QED
    BY <2>1
<1>4. ASSUME NEW c \in Calls, AttestResult(c)
      PROVE  AnswerInv'
  <2> DEFINE k == key[c]
  <2>1. UNCHANGED <<mint, rid, challenge, key>>
    BY <1>4 DEF AttestResult, attestVars
  <2>2. \A d \in Calls \ {c} : pc'[d] = pc[d] /\ answer'[d] = answer[d]
    BY <1>0, <1>4 DEF AttestResult
  <2>3. CASE pc'[c] = "attested"
    <3>1. answer'[c] =
            [token |-> AttestationBinding(mint[k].challenge, mint[k].rid, k), key |-> k]
      BY <1>0, <1>4, <2>3 DEF AttestResult
    <3>2. mint[k].rid = rid[c] /\ mint[k].challenge = challenge[c]
      BY <1>4 DEF AttestResult
    <3>3. answer'[c].token = AttestationBinding(challenge[c], rid[c], answer'[c].key)
      BY <3>1, <3>2
    <3> QED
      BY <2>1, <2>2, <2>3, <3>3
  <2>4. CASE pc'[c] # "attested"
    <3>1. pc'[c] = "unavailable"
      BY <1>0, <1>4, <2>4 DEF AttestResult
    <3> QED
      BY <2>1, <2>2, <3>1
  <2> QED
    BY <2>3, <2>4
<1>5. ASSUME NEW c \in Calls, AttestLocked(c)
      PROVE  AnswerInv'
  BY <1>5, AttestLockedAnswers
<1>6. CASE \/ \E c \in Calls : \/ Refuse(c) \/ AttestCancelled(c) \/ CleanLocked(c)
                               \/ WebsiteStarted(c) \/ ClaimEnds(c)
           \/ \E k \in Keys : MintEnds(k)
           \/ Restart
           \/ Tick
           \/ UNCHANGED vars
  <2>1. UNCHANGED <<rid, challenge, key, answer>>
    BY <1>6 DEF Refuse, AttestCancelled, CleanLocked, WebsiteStarted, ClaimEnds,
                ClaimAcknowledged, ClaimFails, MintEnds, MintStores, MintFails, Restart,
                Tick, vars, callVars
  <2>2. \A c \in Calls : pc'[c] \in {"waiting", "attested"} => pc'[c] = pc[c]
    <3>1. ASSUME NEW d \in Calls, \/ Refuse(d) \/ AttestCancelled(d) \/ CleanLocked(d)
                                  \/ WebsiteStarted(d) \/ ClaimEnds(d)
          PROVE  \A c \in Calls : pc'[c] \in {"waiting", "attested"} => pc'[c] = pc[c]
      <4>1. CASE CleanLocked(d)
        BY <1>0, <4>1 DEF CleanLocked, CleanUnattested, CleanExhausted, CleanOpens, Opens
      <4>2. CASE ~CleanLocked(d)
        BY <1>0, <3>1, <4>2 DEF Refuse, AttestCancelled, WebsiteStarted, ClaimEnds,
                                ClaimAcknowledged, ClaimFails, callVars
      <4> QED
        BY <4>1, <4>2
    <3>2. CASE Restart
      BY <1>0, <3>2 DEF Restart
    <3>3. CASE (\E k \in Keys : MintEnds(k)) \/ Tick \/ UNCHANGED vars
      BY <3>3 DEF MintEnds, MintStores, MintFails, Tick, vars, callVars
    <3> QED
      BY <1>6, <3>1, <3>2, <3>3
  <2> QED
    BY <1>1, <2>1, <2>2
<1> QED
  BY <1>2, <1>3, <1>4, <1>5, <1>6 DEF Next

(* Every 200 answer carries a token for that caller's request and challenge   *)
(* and for the key in the answer, whoever's mint produced it                  *)
(* (app.py:564-577, 600-607).                                                 *)
THEOREM AnswersAreVerifiable == Spec => []AnswersVerify
<1>1. Init => AnswerInv
  BY DEF Init, AnswerInv, WaitersSound, AnswersVerify
<1>2. (TypeInv /\ SlotInv) /\ AnswerInv /\ [Next]_vars => AnswerInv'
  BY AnswerStep
<1>3. AnswerInv => AnswersVerify
  BY DEF AnswerInv
<1> QED
  BY <1>1, <1>2, <1>3, SlotsAlways, PTL DEF Spec

----------------------------------------------------------------------------
(* The decrypt budget and expiry *)

(* A key that is not cached from a finished mint was never used; a cached key *)
(* was used as often as its entry counts.                                     *)
TrialsCounted ==
    /\ \A k \in Keys : mint[k] = None \/ mint[k].state # "ready" => trials[k] = 0
    /\ \A r \in Requests : cache[r] # None => trials[cache[r].key] = cache[r].attempts

TrialsInv == TrialsCounted /\ DecryptsBounded

(* A cleaning call counts an attempt and uses the key of one entry.           *)
LEMMA CleanOpensTrials ==
    ASSUME TypeInv, SlotInv, TrialsInv, NEW c \in Calls, CleanLocked(c), CleanOpens(c)
    PROVE  TrialsInv'
<1> USE NoneAssumption DEF TrialsInv, TrialsCounted, DecryptsBounded
<1> DEFINE q == rid[c]
           e == Pruned[q]
<1>0. /\ q \in Requests
      /\ trials \in [Keys -> Nat]
      /\ Pruned \in [Requests -> Entry \cup {None}]
      /\ \A r \in Requests : Pruned[r] # None => Pruned[r] = cache[r]
      /\ UNCHANGED mint
  BY PrunedType, PrunedSubset DEF TypeInv, TypeOK, CallsTyped, CleanLocked
<1>1. /\ e \in Entry
      /\ e = cache[q]
      /\ e.key \in Keys
      /\ e.attempts \in Nat
      /\ e.attempts + 1 <= MaxDecrypts
      /\ trials[e.key] = e.attempts
      /\ cache[q] # None
  BY <1>0, LimitsAssumption DEF CleanOpens, Opens, Entry, Exhausted
<1>2. /\ trials' = [trials EXCEPT ![e.key] = trials[e.key] + 1]
      /\ cache' = [Pruned EXCEPT ![q].attempts = e.attempts + 1]
  BY DEF CleanOpens, Opens
<1>3. \A r \in Requests : r # q /\ cache[r] # None => cache[r].key # e.key
  BY <1>0, <1>1 DEF SlotInv, CacheSound
<1>4. mint[e.key] # None /\ mint[e.key].state = "ready"
  BY <1>0, <1>1 DEF SlotInv, CacheSound
<1>5. ASSUME NEW k \in Keys
      PROVE  trials'[k] = IF k = e.key THEN e.attempts + 1 ELSE trials[k]
  BY <1>0, <1>1, <1>2
<1>6. ASSUME NEW r \in Requests, cache'[r] # None
      PROVE  trials'[cache'[r].key] = cache'[r].attempts
  <2>1. CASE r = q
    <3>1. cache'[q] = [e EXCEPT !.attempts = e.attempts + 1]
      BY <1>0, <1>2
    <3>2. cache'[q].key = e.key /\ cache'[q].attempts = e.attempts + 1
      BY <1>1, <3>1 DEF Entry
    <3> QED
      BY <1>1, <1>5, <2>1, <3>2
  <2>2. CASE r # q
    <3>1. cache'[r] = cache[r] /\ cache[r] # None
      BY <1>0, <1>2, <1>6, <2>2
    <3>2. cache[r].key \in Keys /\ cache[r].key # e.key
      BY <1>0, <1>3, <2>2, <3>1 DEF TypeInv, TypeOK, Entry
    <3> QED
      BY <1>5, <3>1, <3>2
  <2> QED
    BY <2>1, <2>2
<1> QED
  BY <1>0, <1>1, <1>4, <1>5, <1>6

(* Every step keeps the decrypt budget.                                       *)
LEMMA TrialsStep ==
    ASSUME TypeInv, SlotInv, TrialsInv, [Next]_vars
    PROVE  TrialsInv'
<1> USE NoneAssumption DEF TrialsInv, TrialsCounted, DecryptsBounded
<1>0. /\ trials \in [Keys -> Nat]
      /\ mint \in [Keys -> Mint \cup {None}]
      /\ cache \in [Requests -> Entry \cup {None}]
      /\ \A r \in Requests : Pruned[r] # None => Pruned[r] = cache[r]
  BY PrunedSubset DEF TypeInv, TypeOK
<1>1. ASSUME UNCHANGED <<mint, trials>>,
             \A r \in Requests : cache'[r] # None => cache'[r] = cache[r]
      PROVE  TrialsInv'
  BY <1>1
<1>2. ASSUME NEW c \in Calls, AttestLocked(c)
      PROVE  TrialsInv'
  <2>1. \A r \in Requests : cache'[r] # None => cache'[r] = cache[r]
    BY <1>0, <1>2 DEF AttestLocked
  <2>2. trials' = trials
    BY <1>2 DEF AttestLocked
  <2>3. UNCHANGED mint \/ \E k \in Keys : AttestStarts(c, k)
    BY <1>2 DEF AttestLocked, AttestCached, AttestJoins, AttestFull
  <2>4. \A k \in Keys : mint'[k] = mint[k] \/ mint[k] = None
    BY <1>0, <2>3 DEF AttestStarts, Fresh
  <2> QED
    BY <2>1, <2>2, <2>4
<1>3. ASSUME NEW k \in Keys, MintEnds(k)
      PROVE  TrialsInv'
  <2> DEFINE q == mint[k].rid
  <2>0. /\ mint[k] \in Mint
        /\ mint[k].state = "running"
        /\ q \in Requests
        /\ trials[k] = 0
        /\ trials' = trials
        /\ \A l \in Keys : l # k => mint'[l] = mint[l]
    BY <1>0, <1>3 DEF MintEnds, MintStores, MintFails, Mint
  <2>1. \A l \in Keys : mint'[l] = None \/ mint'[l].state # "ready" => trials'[l] = 0
    BY <1>0, <2>0
  <2>2. \A r \in Requests : cache'[r] # None =>
           cache'[r] = cache[r] \/ (cache'[r].key = k /\ cache'[r].attempts = 0)
    BY <1>0, <1>3, <2>0, PrunedType DEF MintEnds, MintStores, MintFails, TypeInv
  <2> QED
    BY <2>0, <2>1, <2>2
<1>4. ASSUME NEW c \in Calls, CleanLocked(c), ~CleanOpens(c)
      PROVE  TrialsInv'
  <2>1. UNCHANGED <<mint, trials>>
    BY <1>4 DEF CleanLocked, CleanUnattested, CleanExhausted
  <2>2. \A r \in Requests : cache'[r] # None => cache'[r] = cache[r]
    BY <1>0, <1>4, PrunedType DEF CleanLocked, CleanUnattested, CleanExhausted, TypeInv
  <2> QED
    BY <1>1, <2>1, <2>2
<1>5. CASE Restart
  <2>1. \A k \in Keys : mint'[k] = mint[k]
           \/ (mint[k] # None /\ mint[k].state = "running")
    BY <1>0, <1>5 DEF Restart
  <2> QED
    BY <1>5, <2>1 DEF Restart
<1>6. CASE \/ \E c \in Calls : Refuse(c) \/ AttestResult(c) \/ AttestCancelled(c)
                               \/ WebsiteStarted(c) \/ ClaimEnds(c)
           \/ \E c \in Calls, r \in Requests, ch \in Challenges : Attest(c, r, ch)
           \/ \E c, d \in Calls : Clean(c, d)
           \/ Tick
           \/ UNCHANGED vars
  <2>1. UNCHANGED <<mint, trials>>
    BY <1>6 DEF Refuse, AttestResult, AttestCancelled, WebsiteStarted, ClaimEnds,
                ClaimAcknowledged, ClaimFails, Attest, Clean, Tick, vars, attestVars
  <2>2. \A r \in Requests : cache'[r] # None => cache'[r] = cache[r]
    BY <1>0, <1>6 DEF Refuse, AttestResult, AttestCancelled, WebsiteStarted, ClaimEnds,
                ClaimAcknowledged, ClaimFails, Attest, Clean, Tick, vars, attestVars
  <2> QED
    BY <1>1, <2>1, <2>2
<1> QED
  BY <1>2, <1>3, <1>4, <1>5, <1>6, CleanOpensTrials DEF Next

(* Whatever the interleaving, and even when its request is attested again     *)
(* after a drop or a restart, no private key is used for more than            *)
(* MaxDecrypts decryptions (app.py:708-715).                                  *)
THEOREM DecryptBudget == Spec => []DecryptsBounded
<1>1. Init => TrialsInv
  BY LimitsAssumption DEF Init, TrialsInv, TrialsCounted, DecryptsBounded
<1>2. (TypeInv /\ SlotInv) /\ TrialsInv /\ [Next]_vars => TrialsInv'
  BY TrialsStep
<1>3. TrialsInv => DecryptsBounded
  BY DEF TrialsInv
<1> QED
  BY <1>1, <1>2, <1>3, SlotsAlways, PTL DEF Spec

(* A key is only used in the locked section that found its entry unexpired,   *)
(* although the capability was checked before the body was read               *)
(* (app.py:688-715).                                                          *)
THEOREM NoExpiredUse == Spec => NoUsePastExpiry
<1> USE NoneAssumption
<1>1. ASSUME TypeInv, SlotInv, NEW c \in Calls, CleanLocked(c), CleanOpens(c)
      PROVE  \A k \in Keys : trials'[k] # trials[k] => now < Expiry[mint[k].rid]
  <2> DEFINE q == rid[c]
  <2>1. /\ q \in Requests
        /\ Pruned[q] # None
        /\ trials' = [trials EXCEPT ![Pruned[q].key] = trials[Pruned[q].key] + 1]
    BY <1>1 DEF CleanOpens, Opens, CleanLocked, TypeInv, CallsTyped
  <2>2. /\ cache[q] # None
        /\ Pruned[q] = cache[q]
        /\ cache[q].expiresAt > now
    BY <2>1 DEF Pruned
  <2>3. cache[q].expiresAt = Expiry[q] /\ mint[cache[q].key].rid = q
    BY <1>1, <2>1, <2>2 DEF SlotInv, CacheSound
  <2>4. now \in Nat /\ Expiry[q] \in Nat
    BY <1>1, <2>1, ExpiryAssumption DEF TypeInv, TypeOK
  <2>5. \A k \in Keys : k # cache[q].key => trials'[k] = trials[k]
    BY <1>1, <2>1, <2>2 DEF TypeInv, TypeOK
  <2> QED
    BY <2>2, <2>3, <2>4, <2>5
<1>2. TypeInv /\ SlotInv /\ [Next]_vars =>
        [\A k \in Keys : trials'[k] # trials[k] => now < Expiry[mint[k].rid]]_vars
  BY <1>1 DEF Next, vars, attestVars, Attest, Clean, Refuse, AttestLocked, AttestResult,
      AttestCancelled, CleanLocked, CleanUnattested, CleanExhausted, WebsiteStarted,
      ClaimEnds, ClaimAcknowledged, ClaimFails, MintEnds, MintStores, MintFails, Restart, Tick
<1> QED
  BY <1>2, SlotsAlways, PTL DEF Spec, NoUsePastExpiry

----------------------------------------------------------------------------
(* The capacity *)

(* Sets of requests that shrink do not count more.                            *)
LEMMA SlotsMonotone ==
    ASSUME NEW S \in SUBSET Requests, NEW S0 \in SUBSET S,
           NEW T \in SUBSET Requests, NEW T0 \in SUBSET T
    PROVE  /\ Cardinality(S) \in Nat /\ Cardinality(T) \in Nat
           /\ Cardinality(S0) \in Nat /\ Cardinality(T0) \in Nat
           /\ Cardinality(S0) + Cardinality(T0) <= Cardinality(S) + Cardinality(T)
<1>1. IsFiniteSet(S) /\ IsFiniteSet(T)
  BY RequestsAssumption, FS_Subset
<1>2. /\ IsFiniteSet(S0) /\ Cardinality(S0) <= Cardinality(S)
      /\ IsFiniteSet(T0) /\ Cardinality(T0) <= Cardinality(T)
  BY <1>1, FS_Subset
<1>3. /\ Cardinality(S) \in Nat /\ Cardinality(T) \in Nat
      /\ Cardinality(S0) \in Nat /\ Cardinality(T0) \in Nat
  BY <1>1, <1>2, FS_CardinalityType
<1> QED
  BY <1>2, <1>3

(* One request more counts at most one more.                                  *)
LEMMA SlotsGrow ==
    ASSUME NEW S \in SUBSET Requests, NEW q \in Requests
    PROVE  /\ Cardinality(S) \in Nat
           /\ Cardinality(S \cup {q}) <= Cardinality(S) + 1
           /\ q \in S => Cardinality(S \ {q}) = Cardinality(S) - 1
<1>1. IsFiniteSet(S)
  BY RequestsAssumption, FS_Subset
<1>2. Cardinality(S) \in Nat
  BY <1>1, FS_CardinalityType
<1>3. Cardinality(S \cup {q}) <= Cardinality(S) + 1
  BY <1>1, <1>2, FS_AddElement
<1>4. q \in S => Cardinality(S \ {q}) = Cardinality(S) - 1
  BY <1>1, FS_RemoveElement
<1> QED
  BY <1>2, <1>3, <1>4

(* A step after which no more requests are held keeps the cap.                *)
LEMMA FewerSlots ==
    ASSUME SlotsBounded,
           \A r \in Requests : cache'[r] # None => cache[r] # None,
           \A r \in Requests : pending'[r] # None => pending[r] # None
    PROVE  SlotsBounded'
<1> DEFINE S  == Held(cache)
           S0 == Held(cache')
           T  == Held(pending)
           T0 == Held(pending')
<1>1. /\ S \in SUBSET Requests /\ S0 \in SUBSET S
      /\ T \in SUBSET Requests /\ T0 \in SUBSET T
  BY DEF Held
<1>2. /\ Cardinality(S) \in Nat /\ Cardinality(T) \in Nat
      /\ Cardinality(S0) \in Nat /\ Cardinality(T0) \in Nat
      /\ Cardinality(S0) + Cardinality(T0) <= Cardinality(S) + Cardinality(T)
  <2> HIDE DEF S, S0, T, T0
  <2> QED
    BY <1>1, SlotsMonotone
<1>3. Cardinality(S) + Cardinality(T) <= MaxEntries
  BY DEF SlotsBounded, Slots
<1>4. Cardinality(S0) + Cardinality(T0) <= MaxEntries
  <2> HIDE DEF S, S0, T, T0
  <2> QED
    BY <1>2, <1>3, LimitsAssumption
<1> QED
  BY <1>4 DEF SlotsBounded, Slots

(* A new mint takes a slot below the cap (app.py:578-587).                    *)
LEMMA AttestStartsBounded ==
    ASSUME TypeInv, NEW c \in Calls, NEW k \in Keys, AttestLocked(c), AttestStarts(c, k)
    PROVE  SlotsBounded'
<1> DEFINE S == Held(Pruned)
           T == Held(pending)
           q == rid[c]
<1>1. /\ q \in Requests
      /\ cache' = Pruned
      /\ pending \in [Requests -> Pending \cup {None}]
      /\ pending' = [pending EXCEPT ![q] = [challenge |-> challenge[c], key |-> k]]
  BY DEF AttestLocked, AttestStarts, Fresh, TypeInv, TypeOK, CallsTyped
<1>2. Held(pending') \in SUBSET (T \cup {q})
  BY <1>1 DEF Held
<1>4. /\ S \in SUBSET Requests /\ T \in SUBSET Requests
      /\ T \cup {q} \in SUBSET Requests
  BY <1>1 DEF Held
<1>5. ~(Cardinality(S) + Cardinality(T) >= MaxEntries)
  BY DEF AttestStarts, Fresh, Full, Slots
<1>6. Held(cache') = S
  BY <1>1
<1>7. Cardinality(S) + Cardinality(Held(pending')) <= MaxEntries
  <2> HIDE DEF S, T, q
  <2>1. Cardinality(S) \in Nat /\ Cardinality(T) \in Nat
    BY <1>4, SlotsGrow, <1>1
  <2>2. Cardinality(T \cup {q}) <= Cardinality(T) + 1
    BY <1>1, <1>4, SlotsGrow
  <2>3. /\ Cardinality(T \cup {q}) \in Nat
        /\ Cardinality(Held(pending')) \in Nat
        /\ Cardinality(S) + Cardinality(Held(pending'))
             <= Cardinality(S) + Cardinality(T \cup {q})
    BY <1>2, <1>4, SlotsMonotone
  <2> QED
    BY <1>5, <2>1, <2>2, <2>3, LimitsAssumption
<1> QED
  BY <1>6, <1>7 DEF SlotsBounded, Slots

(* A finished mint moves its slot from the pending to the cached entries.     *)
LEMMA MintStoresBounded ==
    ASSUME TypeInv, SlotInv, SlotsBounded, NEW k \in Keys, MintStores(k)
    PROVE  SlotsBounded'
<1> USE NoneAssumption
<1> DEFINE S == Held(cache)
           T == Held(pending)
           q == mint[k].rid
<1>1. /\ q \in Requests
      /\ OwnsSlot(k)
      /\ cache \in [Requests -> Entry \cup {None}]
      /\ pending \in [Requests -> Pending \cup {None}]
      /\ Pruned \in [Requests -> Entry \cup {None}]
      /\ \A r \in Requests : Pruned[r] # None => Pruned[r] = cache[r]
  BY PrunedType, PrunedSubset
     DEF MintStores, TypeInv, TypeOK, Mint, SlotInv, SlotsBackedByMints
<1>2. Held(cache') \in SUBSET (S \cup {q})
  BY <1>1 DEF MintStores, Held
<1>3. q \in T /\ Held(pending') \in SUBSET (T \ {q})
  BY <1>1 DEF MintStores, Held, OwnsSlot, Released
<1>4. /\ S \in SUBSET Requests /\ T \in SUBSET Requests
      /\ S \cup {q} \in SUBSET Requests /\ T \ {q} \in SUBSET Requests
  BY <1>1 DEF Held
<1>5. Cardinality(S) + Cardinality(T) <= MaxEntries
  BY DEF SlotsBounded, Slots
<1>6. Cardinality(Held(cache')) + Cardinality(Held(pending')) <= MaxEntries
  <2> HIDE DEF S, T, q
  <2>1. /\ Cardinality(S) \in Nat /\ Cardinality(S \cup {q}) <= Cardinality(S) + 1
        /\ Cardinality(T) \in Nat /\ Cardinality(T \ {q}) = Cardinality(T) - 1
    BY <1>1, <1>3, <1>4, SlotsGrow
  <2>2. /\ Cardinality(S \cup {q}) \in Nat /\ Cardinality(T \ {q}) \in Nat
        /\ Cardinality(Held(cache')) \in Nat /\ Cardinality(Held(pending')) \in Nat
        /\ Cardinality(Held(cache')) + Cardinality(Held(pending'))
             <= Cardinality(S \cup {q}) + Cardinality(T \ {q})
    BY <1>2, <1>3, <1>4, SlotsMonotone
  <2> QED
    BY <1>5, <2>1, <2>2, LimitsAssumption
<1> QED
  BY <1>6 DEF SlotsBounded, Slots

(* Every step keeps the cap.                                                  *)
LEMMA BoundStep ==
    ASSUME TypeInv, SlotInv, SlotsBounded, [Next]_vars
    PROVE  SlotsBounded'
<1> USE NoneAssumption
<1>0. \A r \in Requests : Pruned[r] # None => Pruned[r] = cache[r]
  BY PrunedSubset DEF TypeInv
<1>1. CASE UNCHANGED <<cache, pending>>
  BY <1>1, FewerSlots
<1>2. ASSUME NEW c \in Calls, AttestLocked(c)
      PROVE  SlotsBounded'
  <2>1. CASE \E k \in Keys : AttestStarts(c, k)
    BY <1>2, <2>1, AttestStartsBounded
  <2>2. CASE ~\E k \in Keys : AttestStarts(c, k)
    <3>1. cache' = Pruned /\ pending' = pending
      BY <1>2, <2>2 DEF AttestLocked, AttestCached, AttestJoins, AttestFull
    <3> QED
      BY <1>0, <3>1, FewerSlots
  <2> QED
    BY <2>1, <2>2
<1>3. ASSUME NEW k \in Keys, MintFails(k)
      PROVE  SlotsBounded'
  <2>1. \A r \in Requests : pending'[r] # None => pending[r] # None
    BY <1>3 DEF MintFails, Released, TypeInv, TypeOK
  <2>2. cache' = cache
    BY <1>3 DEF MintFails
  <2> QED
    BY <2>1, <2>2, FewerSlots
<1>4. ASSUME NEW k \in Keys, MintStores(k)
      PROVE  SlotsBounded'
  BY <1>4, MintStoresBounded
<1>5. ASSUME NEW c \in Calls, CleanLocked(c) \/ ClaimEnds(c)
      PROVE  SlotsBounded'
  <2>1. pending' = pending
    BY <1>5 DEF CleanLocked, ClaimEnds, ClaimAcknowledged, ClaimFails, attestVars
  <2> QED
    BY <1>5, <2>1, CleanKeeps, FewerSlots
<1>6. CASE Restart
  BY <1>6, FewerSlots DEF Restart
<1> QED
  BY <1>1, <1>2, <1>3, <1>4, <1>5, <1>6
     DEF Next, vars, attestVars, Attest, Clean, Refuse, AttestResult, AttestCancelled,
         WebsiteStarted, Tick, MintEnds

(* Cached and pending entries together never exceed the cap (app.py:578): a   *)
(* finished mint moves its slot, it does not take a second one.               *)
THEOREM CapacityKept == Spec => []SlotsBounded
<1>1. Init => SlotsBounded
  <2> SUFFICES ASSUME Init
               PROVE  SlotsBounded
    OBVIOUS
  <2>1. Held(cache) = {} /\ Held(pending) = {}
    BY DEF Init, Held
  <2>2. Cardinality({}) = 0
    BY FS_EmptySet
  <2> QED
    BY <2>1, <2>2, LimitsAssumption DEF SlotsBounded, Slots
<1>2. (TypeInv /\ SlotInv) /\ SlotsBounded /\ [Next]_vars => SlotsBounded'
  BY BoundStep
<1> QED
  BY <1>1, <1>2, SlotsAlways, PTL DEF Spec

(* A 503 for capacity counts live slots only: entries that have expired but   *)
(* are still cached are pruned before the comparison (app.py:561, 578).       *)
THEOREM BusyJustified == Spec => BusyIsHonest
<1> USE NoneAssumption
<1> DEFINE Live == {r \in Requests : cache[r] # None /\ now < Expiry[r]}
           Justified == \A c \in Calls : pc[c] = "attesting" /\ pc'[c] = "busy" =>
                           Cardinality(Live) + Cardinality(Held(pending)) >= MaxEntries
<1>1. ASSUME TypeInv, SlotInv, NEW c \in Calls, AttestLocked(c), AttestFull(c)
      PROVE  Cardinality(Live) + Cardinality(Held(pending)) >= MaxEntries
  <2>1. ASSUME NEW r \in Requests, cache[r] # None
        PROVE  cache[r].expiresAt > now <=> now < Expiry[r]
    <3>1. cache[r].expiresAt = Expiry[r]
      BY <1>1, <2>1 DEF SlotInv, CacheSound
    <3>2. Expiry[r] \in Nat /\ now \in Nat
      BY <1>1, ExpiryAssumption DEF TypeInv, TypeOK
    <3> QED
      BY <3>1, <3>2
  <2>2. Held(Pruned) = Live
    BY <2>1 DEF Held, Pruned
  <2> HIDE DEF Live
  <2> QED
    BY <1>1, <2>2 DEF AttestFull, Full, Slots
<1>2. ASSUME TypeInv, SlotInv, [Next]_vars, NEW c \in Calls,
             pc[c] = "attesting", pc'[c] = "busy"
      PROVE  \E d \in Calls : AttestLocked(d) /\ AttestFull(d)
  <2>1. pc \in [Calls -> {"idle"} \cup Suspended \cup Outcomes]
    BY <1>2 DEF TypeInv, TypeOK
  <2>2. ASSUME NEW d \in Calls, AttestLocked(d), ~AttestFull(d)
        PROVE  FALSE
    BY <1>2, <2>1, <2>2 DEF AttestLocked, AttestCached, AttestJoins, AttestStarts, Fresh, Ends
  <2>3. ASSUME NEW d \in Calls, CleanLocked(d)
        PROVE  FALSE
    BY <1>2, <2>1, <2>3 DEF CleanLocked, CleanUnattested, CleanExhausted, CleanOpens, Opens, Ends
  <2>4. ASSUME NEW d \in Calls, Refuse(d) \/ AttestResult(d) \/ AttestCancelled(d)
                                \/ WebsiteStarted(d) \/ ClaimEnds(d)
        PROVE  FALSE
    BY <1>2, <2>1, <2>4 DEF Refuse, AttestResult, AttestCancelled, WebsiteStarted, ClaimEnds,
                            ClaimAcknowledged, ClaimFails, Ends, callVars
  <2>5. ASSUME (\E k \in Keys : MintEnds(k)) \/ Restart \/ Tick \/ UNCHANGED vars
        PROVE  FALSE
    BY <1>2, <2>1, <2>5 DEF MintEnds, MintStores, MintFails, Restart, Tick, vars, callVars
  <2>6. ASSUME NEW d \in Calls, NEW r \in Requests, NEW ch \in Challenges, Attest(d, r, ch)
        PROVE  FALSE
    BY <1>2, <2>1, <2>6 DEF Attest, Ends
  <2>7. ASSUME NEW d \in Calls, NEW e \in Calls, Clean(d, e)
        PROVE  FALSE
    BY <1>2, <2>1, <2>7 DEF Clean, Ends
  <2> QED
    BY <1>2, <2>2, <2>3, <2>4, <2>5, <2>6, <2>7 DEF Next
<1>3. TypeInv /\ SlotInv /\ [Next]_vars => [Justified]_vars
  <2> HIDE DEF Live
  <2> QED
    BY <1>1, <1>2
<1> QED
  BY <1>3, SlotsAlways, PTL DEF Spec, BusyIsHonest

----------------------------------------------------------------------------
(* The claim *)

(* An accepted claim belongs to a call that has left the gate, its request is *)
(* claimed, and no other call of that request has an accepted claim.          *)
ClaimsSound ==
    /\ \A c \in Calls : claim[c] # "none" => pc[c] # "idle"
    /\ \A c \in Calls : pc[c] = "streaming" => claim[c] = "accepted"
    /\ \A c \in Calls : claim[c] = "accepted" => reserved[rid[c]] = "claimed"
    /\ \A c, d \in Calls : claim[c] = "accepted" /\ claim[d] = "accepted" =>
          c = d \/ rid[c] # rid[d]

(* Every step keeps the claims sound.                                         *)
LEMMA ClaimStep ==
    ASSUME TypeInv, ClaimsSound, [Next]_vars
    PROVE  ClaimsSound'
<1> USE DEF ClaimsSound, Ends
<1>0. /\ pc \in [Calls -> {"idle"} \cup Suspended \cup Outcomes]
      /\ rid \in [Calls -> Requests \cup {None}]
      /\ claim \in [Calls -> {"none", "sent", "accepted", "refused"}]
      /\ reserved \in [Requests -> {"pending", "claimed"}]
      /\ \A c \in Calls : pc[c] # "idle" => rid[c] \in Requests
  BY DEF TypeInv, TypeOK, CallsTyped
<1>1. ASSUME UNCHANGED <<claim, reserved>>,
             \A c \in Calls : pc[c] # "idle" => rid'[c] = rid[c] /\ pc'[c] # "idle",
             \A c \in Calls : pc'[c] = "streaming" => claim[c] = "accepted"
      PROVE  ClaimsSound'
  BY <1>1
<1>2. ASSUME NEW c \in Calls, WebsiteStarted(c)
      PROVE  ClaimsSound'
  <2>1. rid[c] \in Requests /\ UNCHANGED <<pc, rid>>
    BY <1>0, <1>2 DEF WebsiteStarted, callVars
  <2>2. reserved' = [reserved EXCEPT ![rid[c]] = "claimed"]
    BY <1>2 DEF WebsiteStarted
  <2>3. CASE reserved[rid[c]] = "pending"
    <3>1. claim' = [claim EXCEPT ![c] = "accepted"]
      BY <1>2, <2>3 DEF WebsiteStarted
    <3>2. \A d \in Calls : claim[d] = "accepted" => rid[d] # rid[c]
      BY <2>3
    <3> QED
      BY <1>0, <1>2, <2>1, <2>2, <3>1, <3>2 DEF WebsiteStarted
  <2>4. CASE reserved[rid[c]] # "pending"
    <3>1. claim' = [claim EXCEPT ![c] = "refused"]
      BY <1>2, <2>4 DEF WebsiteStarted
    <3> QED
      BY <1>0, <1>2, <2>1, <2>2, <3>1 DEF WebsiteStarted
  <2> QED
    BY <2>3, <2>4
<1>3. ASSUME NEW c \in Calls, CleanLocked(c)
      PROVE  ClaimsSound'
  <2>1. UNCHANGED <<rid, reserved>> /\ pc[c] = "cleaning"
    BY <1>3 DEF CleanLocked
  <2>2. /\ pc'[c] \in {"unattested", "unreadable", "claiming"}
        /\ claim'[c] = claim[c] \/ claim'[c] = "sent"
        /\ \A d \in Calls \ {c} : pc'[d] = pc[d] /\ claim'[d] = claim[d]
    BY <1>0, <1>3 DEF CleanLocked, CleanUnattested, CleanExhausted, CleanOpens, Opens
  <2> QED
    BY <1>0, <2>1, <2>2
<1>4. ASSUME NEW c \in Calls, AttestLocked(c)
      PROVE  ClaimsSound'
  <2>1. UNCHANGED <<claim, reserved, rid>> /\ pc[c] = "attesting"
    BY <1>4 DEF AttestLocked, siteVars
  <2>2. /\ pc'[c] \in {"attested", "conflict", "waiting", "busy"}
        /\ \A d \in Calls \ {c} : pc'[d] = pc[d]
    BY <1>0, <1>4 DEF AttestLocked, AttestCached, AttestJoins, AttestFull, AttestStarts, Fresh
  <2> QED
    BY <1>0, <2>1, <2>2
<1>5. ASSUME NEW c \in Calls, Refuse(c) \/ AttestResult(c) \/ AttestCancelled(c)
                              \/ ClaimEnds(c)
      PROVE  ClaimsSound'
  <2>1. UNCHANGED <<claim, reserved, rid>>
    BY <1>5 DEF Refuse, AttestResult, AttestCancelled, ClaimEnds, ClaimAcknowledged,
                ClaimFails, siteVars
  <2>2. /\ pc'[c] # "idle"
        /\ pc'[c] = "streaming" => claim[c] = "accepted"
        /\ \A d \in Calls \ {c} : pc'[d] = pc[d]
    BY <1>0, <1>5 DEF Refuse, AttestResult, AttestCancelled, ClaimEnds, ClaimAcknowledged,
                      ClaimFails, Acknowledged
  <2> QED
    BY <1>0, <1>1, <2>1, <2>2
<1>6. ASSUME NEW c \in Calls, NEW r \in Requests, NEW ch \in Challenges, Attest(c, r, ch)
      PROVE  ClaimsSound'
  BY <1>0, <1>1, <1>6 DEF Attest, siteVars
<1>7. ASSUME NEW c \in Calls, NEW d \in Calls, Clean(c, d)
      PROVE  ClaimsSound'
  BY <1>0, <1>1, <1>7 DEF Clean, siteVars
<1>8. CASE (\E k \in Keys : MintEnds(k)) \/ Tick \/ UNCHANGED vars
  BY <1>8 DEF MintEnds, MintStores, MintFails, Tick, vars, callVars, siteVars
<1>9. CASE Restart
  BY <1>0, <1>1, <1>9 DEF Restart, siteVars
<1> QED
  BY <1>2, <1>3, <1>4, <1>5, <1>6, <1>7, <1>8, <1>9 DEF Next

(* However many calls hold the same entry between the lock and the claim, at  *)
(* most one of them streams: a response key and its nonces are used once      *)
(* (app.py:737-744), because the website accepts one `started`.               *)
THEOREM StreamsExclusive == Spec => []OneStreamPerRequest
<1>1. Init => ClaimsSound
  BY DEF Init, ClaimsSound
<1>2. (TypeInv /\ SlotInv) /\ ClaimsSound /\ [Next]_vars => ClaimsSound'
  BY ClaimStep
<1>3. ClaimsSound => OneStreamPerRequest
  BY DEF ClaimsSound, OneStreamPerRequest
<1> QED
  BY <1>1, <1>2, <1>3, SlotsAlways, PTL DEF Spec

----------------------------------------------------------------------------
(* The abstract key table *)

(* The three variables of the abstract table, as the endpoint's state gives   *)
(* them.                                                                      *)
KeysOf(table) == {table[r].key : r \in Held(table)}
BoundKeys ==
    [k \in Keys |-> IF mint[k] = None THEN None ELSE
        [rid |-> mint[k].rid, challenge |-> mint[k].challenge]]
LiveKeys == KeysOf(cache) \cup KeysOf(pending)
Answers ==
    {[rid |-> rid[c], challenge |-> challenge[c], key |-> answer[c].key] :
        c \in {d \in Calls : pc[d] = "attested"}}

TableStep == [Table!TableNext]_(Table!tableVars)

(* The steps of the table drop any of the live keys.                          *)
LEMMA StepsOfTable ==
    ASSUME NEW dropped \in SUBSET LiveKeys,
           \/ Table!Free(dropped)
           \/ \E k \in Keys : Table!Vouch(k, dropped)
           \/ \E k \in Keys, r \in Requests, ch \in Challenges : Table!Bind(k, r, ch, dropped)
    PROVE  TableStep
<1>1. dropped \in SUBSET ({cache[r].key : r \in Held(cache)}
                             \cup {pending[r].key : r \in Held(pending)})
  BY DEF LiveKeys, KeysOf
<1>2. Table!TableNext
  BY <1>1, SMT DEF Table!TableNext
<1> QED
  BY <1>2 DEF TableStep

(* A step that binds and answers nothing is a Free, of the keys it drops.     *)
LEMMA Frees ==
    ASSUME BoundKeys' = BoundKeys, LiveKeys' \subseteq LiveKeys, Answers' = Answers
    PROVE  TableStep
<1>0. PICK dead : dead = LiveKeys \ LiveKeys'
  OBVIOUS
<1>1. dead \in SUBSET LiveKeys /\ LiveKeys' = LiveKeys \ dead
  BY <1>0
<1>2. Table!Free(dead)
  BY <1>1, Zenon DEF Table!Free, BoundKeys, LiveKeys, Answers, KeysOf
<1> QED
  BY <1>1, <1>2, StepsOfTable

(* A step that adds the answer a bound key gives is a Vouch.                  *)
LEMMA Vouches ==
    ASSUME TypeOK, NEW k \in Keys, mint[k] # None,
           BoundKeys' = BoundKeys, LiveKeys' \subseteq LiveKeys,
           Answers' = Answers \cup
             {[rid |-> mint[k].rid, challenge |-> mint[k].challenge, key |-> k]}
    PROVE  TableStep
<1> DEFINE b == [rid |-> mint[k].rid, challenge |-> mint[k].challenge]
<1>0. PICK dead : dead = LiveKeys \ LiveKeys'
  OBVIOUS
<1>1. dead \in SUBSET LiveKeys /\ LiveKeys' = LiveKeys \ dead
  BY <1>0
<1>2. BoundKeys[k] = b
  BY DEF BoundKeys
<1>3. b # None
  BY BindingAssumption DEF TypeOK, Mint
<1>4. Answers' = Answers \cup
        {[rid |-> BoundKeys[k].rid, challenge |-> BoundKeys[k].challenge, key |-> k]}
  BY <1>2
<1>5. Table!Vouch(k, dead)
  BY <1>1, <1>2, <1>3, <1>4, Zenon DEF Table!Vouch, BoundKeys, LiveKeys, Answers, KeysOf
<1> QED
  BY <1>1, <1>5, StepsOfTable

(* A step that takes a slot for a new key is a Bind, if the slots left to     *)
(* others are few and none is of the same request.                            *)
LEMMA Binds ==
    ASSUME NEW k \in Keys, NEW r \in Requests, NEW ch \in Challenges, NEW kept \in SUBSET LiveKeys,
           BoundKeys[k] = None,
           \A l \in kept : BoundKeys[l].rid # r,
           Cardinality(kept) < MaxEntries,
           BoundKeys' = [BoundKeys EXCEPT ![k] = [rid |-> r, challenge |-> ch]],
           LiveKeys' = kept \cup {k},
           Answers' = Answers
    PROVE  TableStep
<1>0. PICK dead : dead = LiveKeys \ kept
  OBVIOUS
<1>1. dead \in SUBSET LiveKeys /\ kept = LiveKeys \ dead
  BY <1>0
<1>2. Table!Bind(k, r, ch, dead)
  <2>1. /\ BoundKeys[k] = None
        /\ \A l \in LiveKeys \ dead : BoundKeys[l].rid # r
        /\ Cardinality(LiveKeys \ dead) < MaxEntries
        /\ BoundKeys' = [BoundKeys EXCEPT ![k] = [rid |-> r, challenge |-> ch]]
        /\ LiveKeys' = (LiveKeys \ dead) \cup {k}
        /\ Answers' = Answers
    BY <1>1, Zenon
  <2> QED
    BY <2>1, Zenon DEF Table!Bind, BoundKeys, LiveKeys, Answers, KeysOf,
                       Cardinality, Table!Cardinality
<1> QED
  BY <1>1, <1>2, StepsOfTable

(* The keys in a table are at most its entries.                               *)
LEMMA FewKeys ==
    ASSUME NEW table
    PROVE  /\ IsFiniteSet(KeysOf(table))
           /\ Cardinality(KeysOf(table)) \in Nat
           /\ Cardinality(Held(table)) \in Nat
           /\ Cardinality(KeysOf(table)) <= Cardinality(Held(table))
<1> DEFINE f == [r \in Held(table) |-> table[r].key]
<1>1. IsFiniteSet(Held(table))
  BY RequestsAssumption, FS_Subset DEF Held
<1>2. f \in Surjection(Held(table), KeysOf(table))
  BY DEF Surjection, KeysOf
<1>3. IsFiniteSet(KeysOf(table)) /\ Cardinality(KeysOf(table)) <= Cardinality(Held(table))
  BY <1>1, <1>2, FS_Surjection
<1> QED
  BY <1>1, <1>3, FS_CardinalityType

(* Every step but the start of a mint leaves the bindings alone.              *)
LEMMA BindingsKept ==
    ASSUME TypeInv, [Next]_vars, \A k \in Keys : mint[k] = None => mint'[k] = None
    PROVE  BoundKeys' = BoundKeys
<1>1. \A k \in Keys : mint[k] # None =>
        mint'[k] # None /\ mint'[k].rid = mint[k].rid /\ mint'[k].challenge = mint[k].challenge
  BY MintFixed
<1> QED
  BY <1>1, Zenon DEF BoundKeys

(* Answers stay, and a call that does not become one adds none.               *)
LEMMA AnswersKept ==
    ASSUME \A c \in Calls : pc'[c] = "attested" <=> pc[c] = "attested",
           \A c \in Calls : pc[c] = "attested" =>
               rid'[c] = rid[c] /\ challenge'[c] = challenge[c] /\ answer'[c] = answer[c]
    PROVE  Answers' = Answers
BY Zenon DEF Answers

LEMMA AnswerAdded ==
    ASSUME NEW c \in Calls, pc[c] # "attested", pc'[c] = "attested",
           \A d \in Calls \ {c} : pc'[d] = pc[d] /\ answer'[d] = answer[d],
           UNCHANGED <<rid, challenge>>
    PROVE  Answers' = Answers \cup
             {[rid |-> rid[c], challenge |-> challenge[c], key |-> answer'[c].key]}
<1> DEFINE old == {d \in Calls : pc[d] = "attested"}
<1>1. {d \in Calls : pc'[d] = "attested"} = old \cup {c} /\ c \notin old
  OBVIOUS
<1>2. Answers' = {[rid |-> rid[d], challenge |-> challenge[d], key |-> answer'[d].key] :
                    d \in old \cup {c}}
  BY <1>1 DEF Answers
<1>3. \A d \in old : answer'[d] = answer[d]
  BY <1>1
<1>4. Answers = {[rid |-> rid[d], challenge |-> challenge[d], key |-> answer[d].key] : d \in old}
  BY DEF Answers
<1> HIDE DEF old
<1> QED
  BY <1>2, <1>3, <1>4

(* Entries that stay, or that a finished mint moved from the one table to the *)
(* other, occupy no new key.                                                  *)
LEMMA LiveShrinks ==
    ASSUME \A r \in Requests : cache'[r] # None =>
               \/ cache[r] # None /\ cache'[r].key = cache[r].key
               \/ pending[r] # None /\ cache'[r].key = pending[r].key,
           \A r \in Requests : pending'[r] # None =>
               pending[r] # None /\ pending'[r].key = pending[r].key
    PROVE  LiveKeys' \subseteq LiveKeys
BY DEF LiveKeys, KeysOf, Held

(* The locked section of attest vouches for a cached key, binds a new one, or *)
(* only prunes (app.py:560-598).                                              *)
LEMMA AttestLockedTable ==
    ASSUME TypeInv, SlotInv, [Next]_vars, NEW c \in Calls, AttestLocked(c)
    PROVE  TableStep
<1> USE NoneAssumption
<1> DEFINE q == rid[c]
<1>0. /\ q \in Requests /\ challenge[c] \in Challenges
      /\ pc \in [Calls -> {"idle"} \cup Suspended \cup Outcomes]
      /\ answer \in [Calls -> Answer \cup {None}]
      /\ key \in [Calls -> Keys \cup {None}]
      /\ cache \in [Requests -> Entry \cup {None}]
      /\ pending \in [Requests -> Pending \cup {None}]
      /\ mint \in [Keys -> Mint \cup {None}]
      /\ pc[c] = "attesting"
  BY DEF AttestLocked, TypeInv, TypeOK, CallsTyped
<1>1. /\ cache' = Pruned
      /\ \A r \in Requests : Pruned[r] # None => cache[r] # None /\ Pruned[r] = cache[r]
      /\ UNCHANGED <<rid, challenge>>
  BY PrunedSubset DEF AttestLocked, TypeInv
<1>2. \A d \in Calls \ {c} : pc'[d] = pc[d] /\ answer'[d] = answer[d]
  BY <1>0 DEF AttestLocked, AttestCached, AttestJoins, AttestFull, AttestStarts, Ends
<1>3. ASSUME UNCHANGED <<pending, mint>>
      PROVE  BoundKeys' = BoundKeys /\ LiveKeys' \subseteq LiveKeys
  <2>1. BoundKeys' = BoundKeys
    BY <1>3, Zenon DEF BoundKeys
  <2>2. LiveKeys' \subseteq LiveKeys
    BY <1>1, <1>3, LiveShrinks
  <2> QED
    BY <2>1, <2>2
<1>4. CASE AttestCached(c) /\ pc'[c] = "attested"
  <2>1. PICK k : k = Pruned[q].key
    OBVIOUS
  <2>2. /\ UNCHANGED <<pending, mint>>
        /\ Pruned[q] # None
        /\ Pruned[q].binding = AttestationBinding(challenge[c], q, k)
        /\ answer'[c] = AttestationResponse(Pruned[q])
    BY <1>0, <1>4, <2>1 DEF AttestCached, Ends
  <2>3. /\ cache[q] # None /\ cache[q].key = k
        /\ cache[q].binding = AttestationBinding(challenge[c], q, k)
    BY <1>0, <1>1, <2>1, <2>2
  <2>4. k \in Keys
    BY <1>0, <2>3 DEF Entry
  <2>5. /\ mint[k] # None
        /\ mint[k].rid = q
        /\ AttestationBinding(mint[k].challenge, q, k) = AttestationBinding(challenge[c], q, k)
    BY <1>0, <2>3 DEF SlotInv, CacheSound
  <2>6. mint[k].challenge = challenge[c]
    BY <2>5 DEF AttestationBinding
  <2>7. answer'[c].key = k
    BY <2>1, <2>2 DEF AttestationResponse
  <2>8. Answers' = Answers \cup {[rid |-> rid[c], challenge |-> challenge[c], key |-> answer'[c].key]}
    BY <1>0, <1>1, <1>2, <1>4, AnswerAdded
  <2> QED
    BY <1>3, <2>2, <2>4, <2>5, <2>6, <2>7, <2>8, Vouches DEF TypeInv
<1>5. ASSUME pc'[c] # "attested" PROVE Answers' = Answers
  BY <1>0, <1>1, <1>2, <1>5, AnswersKept
<1>6. CASE /\ AttestCached(c) \/ AttestJoins(c) \/ AttestFull(c)
           /\ pc'[c] # "attested"
  <2>1. UNCHANGED <<pending, mint>>
    BY <1>6 DEF AttestCached, AttestJoins, AttestFull
  <2> QED
    BY <1>3, <1>5, <1>6, <2>1, Frees
<1>7. CASE (AttestJoins(c) \/ AttestFull(c)) /\ pc'[c] = "attested"
  BY <1>0, <1>7 DEF AttestJoins, AttestFull, Ends
<1>8. ASSUME NEW k \in Keys, AttestStarts(c, k)
      PROVE  TableStep
  <2>1. PICK r, ch, kept : r = q /\ ch = challenge[c] /\ kept = KeysOf(Pruned) \cup KeysOf(pending)
    OBVIOUS
  <2>2. /\ Pruned[q] = None /\ pending[q] = None /\ mint[k] = None
        /\ ~(Slots(Pruned, pending) >= MaxEntries)
        /\ mint' = [mint EXCEPT ![k] = [rid |-> r, challenge |-> ch, state |-> "running"]]
        /\ pending' = [pending EXCEPT ![q] = [challenge |-> ch, key |-> k]]
        /\ pc'[c] = "waiting"
    BY <1>0, <1>8, <2>1 DEF AttestStarts, Unattested, Full, Fresh, Ends
  <2>3. /\ KeysOf(Pruned) \subseteq KeysOf(cache)
        /\ kept \subseteq LiveKeys
    BY <1>1, <2>1 DEF KeysOf, Held, LiveKeys
  <2>4. BoundKeys[k] = None
    BY <2>2 DEF BoundKeys
  <2>5. \A l \in kept : BoundKeys[l].rid # r
    <3>1. ASSUME NEW l \in KeysOf(Pruned)
          PROVE  BoundKeys[l].rid # r
      <4>1. PICK s \in Requests : Pruned[s] # None /\ l = Pruned[s].key
        BY DEF KeysOf, Held
      <4>2. s # r /\ cache[s] # None /\ cache[s] \in Entry /\ cache[s].key = l
        BY <1>0, <1>1, <2>1, <2>2, <4>1
      <4>3. l \in Keys /\ mint[l] # None /\ mint[l].rid = s
        BY <4>2 DEF Entry, SlotInv, CacheSound
      <4> QED
        BY <4>2, <4>3 DEF BoundKeys
    <3>2. ASSUME NEW l \in KeysOf(pending)
          PROVE  BoundKeys[l].rid # r
      <4>1. PICK s \in Requests : pending[s] # None /\ l = pending[s].key
        BY DEF KeysOf, Held
      <4>2. s # r /\ pending[s] \in Pending
        BY <1>0, <2>1, <2>2, <4>1
      <4>3. mint[l] = [rid |-> s, challenge |-> pending[s].challenge, state |-> "running"]
        BY <4>1 DEF SlotInv, SlotsBackedByMints
      <4>4. l \in Keys /\ mint[l] # None /\ mint[l].rid = s
        <5>1. l \in Keys /\ pending[s].challenge \in Challenges
          BY <4>1, <4>2 DEF Pending
        <5>2. mint[l] \in Mint
          BY <4>3, <5>1 DEF Mint
        <5> QED
          BY <4>3, <5>1, <5>2
      <4> QED
        BY <4>2, <4>4 DEF BoundKeys
    <3> QED
      BY <2>1, <3>1, <3>2
  <2>6. Cardinality(kept) < MaxEntries
    <3> DEFINE A == KeysOf(Pruned)
               B == KeysOf(pending)
    <3>1. /\ IsFiniteSet(A) /\ IsFiniteSet(B)
          /\ Cardinality(A) \in Nat /\ Cardinality(B) \in Nat
          /\ Cardinality(Held(Pruned)) \in Nat /\ Cardinality(Held(pending)) \in Nat
          /\ Cardinality(A) <= Cardinality(Held(Pruned))
          /\ Cardinality(B) <= Cardinality(Held(pending))
      BY FewKeys
    <3>2. Cardinality(Held(Pruned)) + Cardinality(Held(pending)) < MaxEntries
      BY <2>2, <3>1, LimitsAssumption DEF Slots
    <3> HIDE DEF A, B
    <3>3. /\ Cardinality(A \cup B) = Cardinality(A) + Cardinality(B) - Cardinality(A \cap B)
          /\ Cardinality(A \cap B) \in Nat /\ Cardinality(A \cup B) \in Nat
      BY <3>1, FS_Union, FS_Intersection, FS_CardinalityType
    <3> QED
      BY <2>1, <3>1, <3>2, <3>3, LimitsAssumption DEF A, B
  <2>7. BoundKeys' = [BoundKeys EXCEPT ![k] = [rid |-> r, challenge |-> ch]]
    <3>1. mint'[k] = [rid |-> r, challenge |-> ch, state |-> "running"] /\ mint'[k] # None
      BY <1>0, <2>1, <2>2 DEF Mint
    <3>2. \A l \in Keys \ {k} : mint'[l] = mint[l]
      BY <1>0, <2>2
    <3>3. BoundKeys' = [l \in Keys |-> IF l = k THEN [rid |-> r, challenge |-> ch]
                                                ELSE BoundKeys[l]]
      BY <3>1, <3>2 DEF BoundKeys
    <3>4. BoundKeys = [l \in Keys |-> BoundKeys[l]]
      BY DEF BoundKeys
    <3> QED
      BY <3>3, <3>4, Zenon
  <2>8. LiveKeys' = kept \cup {k}
    <3>1. KeysOf(cache)' = KeysOf(Pruned)
      BY <1>1, Zenon DEF KeysOf, Held
    <3>2. Held(pending)' = Held(pending) \cup {q} /\ q \notin Held(pending)
      BY <1>0, <2>1, <2>2 DEF Held, Pending
    <3>3. pending'[q].key = k /\ \A s \in Held(pending) : pending'[s] = pending[s]
      BY <1>0, <2>2, <3>2 DEF Held
    <3>4. KeysOf(pending)' = KeysOf(pending) \cup {k}
      BY <3>2, <3>3 DEF KeysOf
    <3> QED
      BY <2>1, <3>1, <3>4 DEF LiveKeys
  <2>9. Answers' = Answers
    BY <1>5, <2>2
  <2>10. r \in Requests /\ ch \in Challenges /\ kept \in SUBSET LiveKeys
    BY <1>0, <2>1, <2>3
  <2> QED
    BY <2>4, <2>5, <2>6, <2>7, <2>8, <2>9, <2>10, Binds, Zenon
<1> QED
  BY <1>4, <1>6, <1>7, <1>8 DEF AttestLocked

(* The end of a mint drops expired keys, and moves or drops its own           *)
(* (app.py:460-490).                                                          *)
LEMMA MintEndsTable ==
    ASSUME TypeInv, SlotInv, [Next]_vars, NEW k \in Keys, MintEnds(k)
    PROVE  TableStep
<1> USE NoneAssumption
<1> DEFINE q == mint[k].rid
<1>0. /\ mint \in [Keys -> Mint \cup {None}]
      /\ cache \in [Requests -> Entry \cup {None}]
      /\ pending \in [Requests -> Pending \cup {None}]
      /\ mint[k] \in Mint /\ q \in Requests
  BY DEF TypeInv, TypeOK, Mint, MintEnds, MintStores, MintFails
<1>1. pending[q] # None /\ pending[q].key = k
  BY <1>0 DEF MintEnds, MintStores, MintFails, SlotInv, SlotsBackedByMints, OwnsSlot
<1>2. \A r \in Requests : Pruned[r] # None => cache[r] # None /\ Pruned[r] = cache[r]
  BY PrunedSubset DEF TypeInv
<1>3. \A r \in Requests : pending'[r] # None => pending[r] # None /\ pending'[r] = pending[r]
  BY <1>0 DEF MintEnds, MintStores, MintFails, Released
<1>4. \A r \in Requests : cache'[r] # None =>
         \/ cache[r] # None /\ cache'[r].key = cache[r].key
         \/ pending[r] # None /\ cache'[r].key = pending[r].key
  <2>1. CASE MintFails(k)
    BY <2>1 DEF MintFails
  <2>2. CASE MintStores(k)
    <3>1. PICK e : /\ e.key = k
                   /\ cache' = [Pruned EXCEPT ![q] = e]
      BY <1>1, <2>2 DEF MintStores, OwnsSlot
    <3>2. Pruned \in [Requests -> Entry \cup {None}]
      BY PrunedType DEF TypeInv
    <3> QED
      BY <1>0, <1>1, <1>2, <3>1, <3>2
  <2> QED
    BY <2>1, <2>2 DEF MintEnds
<1>5. LiveKeys' \subseteq LiveKeys
  BY <1>3, <1>4, LiveShrinks
<1>6. BoundKeys' = BoundKeys
  <2>1. \A l \in Keys : mint[l] = None => mint'[l] = None
    BY <1>0 DEF MintEnds, MintStores, MintFails
  <2> QED
    BY <2>1, BindingsKept
<1>7. Answers' = Answers
  <2>1. UNCHANGED <<pc, rid, challenge, answer>>
    BY DEF MintEnds, MintStores, MintFails, callVars
  <2> QED
    BY <2>1, Zenon DEF Answers
<1> QED
  BY <1>5, <1>6, <1>7, Frees

(* A waiter gets the answer of its finished mint, whatever became of the slot *)
(* (app.py:604-607).                                                          *)
LEMMA AttestResultTable ==
    ASSUME TypeInv, AnswerInv, NEW c \in Calls, AttestResult(c)
    PROVE  TableStep
<1> USE NoneAssumption
<1>0. /\ pc \in [Calls -> {"idle"} \cup Suspended \cup Outcomes]
      /\ answer \in [Calls -> Answer \cup {None}]
      /\ pc[c] = "waiting" /\ key[c] \in Keys /\ mint[key[c]] # None
  BY DEF AttestResult, TypeInv, TypeOK, CallsTyped
<1>1. UNCHANGED <<attestVars, rid, challenge>>
  BY DEF AttestResult
<1>2. BoundKeys' = BoundKeys /\ LiveKeys' = LiveKeys
  <2>1. UNCHANGED <<cache, pending, mint>>
    BY <1>1 DEF attestVars
  <2> QED
    BY <2>1, Zenon DEF BoundKeys, LiveKeys, KeysOf, Held
<1>3. \A d \in Calls \ {c} : pc'[d] = pc[d] /\ answer'[d] = answer[d]
  BY <1>0 DEF AttestResult, Ends
<1>4. CASE pc'[c] = "attested"
  <2>1. PICK k : k = key[c]
    OBVIOUS
  <2>2. answer'[c] = [token |-> AttestationBinding(mint[k].challenge, mint[k].rid, k), key |-> k]
    BY <1>0, <1>4, <2>1 DEF AttestResult, Ends
  <2>3. mint[k].rid = rid[c] /\ mint[k].challenge = challenge[c]
    BY <1>0, <2>1 DEF AnswerInv, WaitersSound
  <2>4. Answers' = Answers \cup {[rid |-> rid[c], challenge |-> challenge[c], key |-> answer'[c].key]}
    BY <1>0, <1>1, <1>3, <1>4, AnswerAdded
  <2>5. answer'[c].key = k
    BY <2>2
  <2>6. k \in Keys /\ mint[k] # None
    BY <1>0, <2>1
  <2>7. Answers' = Answers \cup {[rid |-> mint[k].rid, challenge |-> mint[k].challenge, key |-> k]}
    BY <2>3, <2>4, <2>5
  <2> QED
    BY <1>2, <2>6, <2>7, Vouches DEF TypeInv
<1>5. CASE pc'[c] # "attested"
  <2>1. Answers' = Answers
    BY <1>0, <1>1, <1>3, <1>5, AnswersKept
  <2> QED
    BY <1>2, <2>1, Frees
<1> QED
  BY <1>4, <1>5

(* No other step is seen but by the keys it drops.                            *)
LEMMA OtherStepsTable ==
    ASSUME TypeInv, [Next]_vars,
           ~\E c \in Calls : AttestLocked(c) \/ AttestResult(c),
           ~\E k \in Keys : MintEnds(k)
    PROVE  TableStep
<1> USE NoneAssumption
<1> DEFINE Kept == \A c \in Calls :
              /\ pc'[c] = "attested" <=> pc[c] = "attested"
              /\ pc[c] = "attested" => rid'[c] = rid[c] /\ challenge'[c] = challenge[c]
                                         /\ answer'[c] = answer[c]
           Dropped ==
              /\ \A k \in Keys : mint[k] = None => mint'[k] = None
              /\ \A r \in Requests : cache'[r] # None =>
                    cache[r] # None /\ cache'[r].key = cache[r].key
              /\ \A r \in Requests : pending'[r] # None =>
                    pending[r] # None /\ pending'[r].key = pending[r].key
<1>0. /\ pc \in [Calls -> {"idle"} \cup Suspended \cup Outcomes]
      /\ rid \in [Calls -> Requests \cup {None}]
      /\ challenge \in [Calls -> Challenges \cup {None}]
  BY DEF TypeInv, TypeOK
<1>1. ASSUME NEW c \in Calls, \/ \E r \in Requests, ch \in Challenges : Attest(c, r, ch)
                              \/ \E d \in Calls : Clean(c, d)
      PROVE  Kept /\ Dropped
  BY <1>0, <1>1 DEF Attest, Clean, Ends, attestVars
<1>2. ASSUME NEW c \in Calls, Refuse(c) \/ AttestCancelled(c) \/ WebsiteStarted(c)
      PROVE  Kept /\ Dropped
  BY <1>0, <1>2 DEF Refuse, AttestCancelled, WebsiteStarted, Ends, attestVars, callVars
<1>3. ASSUME NEW c \in Calls, CleanLocked(c) \/ ClaimEnds(c)
      PROVE  Kept /\ Dropped
  <2>1. UNCHANGED <<pending, mint, rid, challenge, answer>>
    BY <1>3 DEF CleanLocked, ClaimEnds, ClaimAcknowledged, ClaimFails, attestVars
  <2>2. \A d \in Calls : pc'[d] = "attested" <=> pc[d] = "attested"
    <3>1. CASE CleanLocked(c)
      BY <1>0, <3>1 DEF CleanLocked, CleanUnattested, CleanExhausted, CleanOpens, Ends
    <3>2. CASE ClaimEnds(c)
      BY <1>0, <3>2 DEF ClaimEnds, ClaimAcknowledged, ClaimFails, Ends
    <3> QED
      BY <1>3, <3>1, <3>2
  <2>3. Dropped
    BY <1>3, <2>1, CleanKeeps
  <2> QED
    BY <2>1, <2>2, <2>3
<1>4. ASSUME Restart PROVE Kept /\ Dropped
  BY <1>0, <1>4 DEF Restart, Suspended, TypeInv, TypeOK
<1>5. ASSUME Tick \/ UNCHANGED vars PROVE Kept /\ Dropped
  BY <1>5 DEF Tick, vars, attestVars, callVars
<1>6. Kept /\ Dropped
  <2> HIDE DEF Kept, Dropped
  <2> QED
    BY <1>1, <1>2, <1>3, <1>4, <1>5 DEF Next
<1>7. Answers' = Answers
  <2>1. /\ \A c \in Calls : pc'[c] = "attested" <=> pc[c] = "attested"
        /\ \A c \in Calls : pc[c] = "attested" =>
              rid'[c] = rid[c] /\ challenge'[c] = challenge[c] /\ answer'[c] = answer[c]
    BY <1>6
  <2> QED
    BY <2>1, AnswersKept
<1>8. LiveKeys' \subseteq LiveKeys
  <2>1. /\ \A r \in Requests : cache'[r] # None => cache[r] # None /\ cache'[r].key = cache[r].key
        /\ \A r \in Requests : pending'[r] # None =>
              pending[r] # None /\ pending'[r].key = pending[r].key
    BY <1>6
  <2> QED
    BY <2>1, LiveShrinks
<1>9. BoundKeys' = BoundKeys
  BY <1>6, BindingsKept
<1> QED
  BY <1>7, <1>8, <1>9, Frees

(* The endpoint implements the abstract key table: a key is bound once, live  *)
(* keys are bounded and of different requests, and an answer is only given    *)
(* under the request and challenge of its key (app.py:404-490, 560-607).      *)
THEOREM KeyTableImplemented == Spec => ImplementsKeyTable
<1>1. Init => Table!TableInit
  <2> SUFFICES ASSUME Init PROVE Table!TableInit
    OBVIOUS
  <2>1. Held(cache) = {} /\ Held(pending) = {}
    BY DEF Init, Held
  <2>2. {d \in Calls : pc[d] = "attested"} = {}
    BY DEF Init
  <2>3. BoundKeys = [k \in Keys |-> None]
    BY DEF Init, BoundKeys
  <2>4. LiveKeys = {} /\ Answers = {}
    BY <2>1, <2>2 DEF LiveKeys, KeysOf, Answers
  <2> QED
    BY <2>3, <2>4, Zenon DEF Table!TableInit, BoundKeys, LiveKeys, KeysOf, Answers
<1>2. ASSUME TypeInv, SlotInv, AnswerInv, [Next]_vars
      PROVE  TableStep
  <2>1. ASSUME NEW c \in Calls, AttestLocked(c) PROVE TableStep
    BY <1>2, <2>1, AttestLockedTable
  <2>2. ASSUME NEW c \in Calls, AttestResult(c) PROVE TableStep
    BY <1>2, <2>2, AttestResultTable
  <2>3. ASSUME NEW k \in Keys, MintEnds(k) PROVE TableStep
    BY <1>2, <2>3, MintEndsTable
  <2> QED
    BY <1>2, <2>1, <2>2, <2>3, OtherStepsTable
<1>3. Init => AnswerInv
  BY DEF Init, AnswerInv, WaitersSound, AnswersVerify
<1>4. (TypeInv /\ SlotInv) /\ AnswerInv /\ [Next]_vars => AnswerInv'
  BY AnswerStep
<1>5. (TypeInv /\ SlotInv) /\ AnswerInv /\ [Next]_vars => [Table!TableNext]_(Table!tableVars)
  BY <1>2 DEF TableStep
<1> QED
  BY <1>1, <1>3, <1>4, <1>5, SlotsAlways, PTL DEF Spec, ImplementsKeyTable, Table!TableSpec
=============================================================================
