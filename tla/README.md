# Verification of the Simple Unmark confidential workload

TLA+ models of the workload in `apps/confidential-server`, of the browser code in
`packages/client` that talks to it, and of the release policy that decides which image is
trusted; TLC configurations that check them; and theorems checked by TLAPS. `PROJECT.json`
holds the same as data: which definition models which lines, every run with its properties,
the hazards each property is for, and a mutant for each property.

Paths: `app.py`, `provider.py`, ... are in
`apps/confidential-server/simpleunmark_confidential/`.

## The system

The website (another repository) reserves credits and signs a *capability* for one cleaning.
The browser asks the workload to attest a fresh key, verifies the token, seals its text or file
to that key and receives an encrypted result. The workload reports `started`, `succeeded` or
`failed` to the website, which claims and settles the reservation.

| Component | Keeps | Operations | What is hard about it | Correct when |
| --- | --- | --- | --- | --- |
| Attestation handshake and key gate (`app.py`, `attestation.py`) | `attestation_cache`, `pending_attestations`, mint tasks | attest, mint, prune, look up and count a decryption, drop after the claim | concurrent and cancelled callers share a mint; entries expire and are replaced while calls hold them; one cap for two tables; restarts | one slot and one live key per request; answers verify; bounded slots and decryptions; refusals honest; no slot leaks |
| Pacing of mints (`app.py:443-458`) | `next_attestation_mint_at` | book, sleep, refuse | order of arrivals, late wake-ups | spaced bookings, the launcher's rate |
| Text streaming and settlement (`app.py:227-386`, `receipts.py`) | the generator's position, the provider's result, a receipt and its retries | claim, clean, stream, settle, handle cancellation and failure | lost, repeated and late receipts; cancellation in and outside the generator; the deadline; restarts | one worker per reservation, browser told what was recorded, charged only for a complete rewrite, everything ends and settles |
| Media endpoint (`app.py:762-915`, `media.py`, `MediaResponseDecryptor`) | `media_processing_lock`, a native thread; of a call its capability, sealed file and report | compare with the capability, admit or refuse, claim, run, settle, encode, receive | threads outlive cancellation; the result is encoded after the charge; three programs normalise extension, type and lengths | one thread, a lock that only a hanging job keeps, charged only for a cleaned file of the signed terms, ordinary results accepted |
| Rewrite provider (`provider.py`) | attempts, output, metadata and usage of an attempt | post, read chunks, retry, expire | retries, a trickling peer, a suspended generator | no mixed output, complete usage, bounded |
| Encrypted response stream (`crypto.py`, `confidential-crypto.ts`) | a counter at each end | seal, check, open | lost, repeated, reordered, changed lines | the page receives a prefix; `complete` only after the whole rewrite |
| Word counting (`text.py`, `measurements.ts`) | a loop's counter and flag | count, validate | two implementations must agree on every text | the workload accepts what the page measured |
| Start-up and deployment (`bootstrap.py`, `config.py`, `__main__.py`, `infra/gcp`) | secret versions, Terraform's state, the VM's metadata and group, the credentials in memory | upload, plan, apply step by step, boot, fetch, serve, exit | applies that fail half-way, replacement and group membership, restarts while versions change, a VM stopped by its launcher | what serves is what was applied and is reached; service returns unless the VM was stopped |
| Release policy (`scripts/release-policy.mjs`, workflows, `infra/github`, the precondition of `main.tf`) | the policy on main, attestations, the website's copy, the running image | attest, check, merge, approve, export, deploy | checks that are stale at the merge, partial publication, lost evidence, a deployment that verifies nothing | auditable history; only attested digests trusted or running |
| Capability verification (`security.py`) | nothing | verify | a verdict that is stale after an await | nothing is used past its expiry (`Attestation`); media and text terms (`MediaExchange`, `WordCount`) |
| Deterministic cleaning (`text.py:71-84`), upstream cleaners, ffmpeg | a temporary directory | clean | pinned upstream code | not modelled |
| Browser token verification, request sealing | nothing | verify claims, seal | pure | not modelled |

How they interact: the key gate calls the mint, which is paced; a cleaning call passes the gate,
claims, and then is a text stream (using the provider, the receipt client and the response
cipher) or a media job (using the receipt client). The release policy names the image that
Terraform deploys and the digests the browser accepts; start-up gives the process its
credentials. All workload state is in one asyncio process
and dies with it; the website's reservations do not.

## Modules

| Module | Models | State and actions |
| --- | --- | --- |
| `Attestation` | handshake and key gate | `cache`, `pending` are the two dictionaries, `mint[k]` is the task minting for key `k`; a call's `pc` is the await it is suspended at or its outcome. `Attest`/`Refuse`: reading the body; `AttestLocked`: the locked section of `attest` by its four branches; `MintStores`, `MintFails`: the end of a mint; `AttestResult`, `AttestCancelled`: the shielded await; `Clean`, `CleanLocked`: the gate, for `clean` and `clean_encrypted_media` alike; `WebsiteStarted`, `ClaimAcknowledged`, `ClaimFails`: the claim; `Restart`, `Tick` |
| `KeyTable` | abstract: what the handshake promises | keys bound once to a request and challenge, live ones bounded, answers given only under that binding |
| `MintPacing` | `mint_attestation_token` | `next` is `next_attestation_mint_at`; `Book`, `Refuse`, `Wake` |
| `Settlement` | abstract: what a reservation's owner and the website may rely on | one call at most comes to hold the claim, a charge is for finished work, and what a browser is told is what was recorded: `site`, `holders`, `done`, `told` |
| `Website` | external: reservations | `Replies(site, receipt)`: what a receipt may do and answer |
| `Cleaning` | a text cleaning from its claim to its settlement | `pc` is the `await` or `yield` the call is suspended at; `post` the receipt being submitted and the POSTs left; `network` the POSTs under way |
| `Media` | control of the media endpoint after the gate | `lock`, `thread[c]`; `Admit`, `StartJob`, `ThreadEnds`, `JobReturns`, `CancelJob`, `Drained`, `CancelSubmit`, `Deliver`, `ChargeFails`, `Fail` |
| `MediaExchange` | what a media call carries, on top of `Media` | `capability`, `file`, `report`, `balances`, `page` of each call; `OpenRequest` decides between `Mismatch` and `Admit`, `CleanMedia` refines `ThreadEnds`, `EncodeResult` refines `Deliver` (with the balances of the website's reply, `ReceiptResult`), `Receive` is the page (`Accepts`) |
| `Provider` | `DeepInfraProvider.stream` | `pc` is posting, reading, sending a delta, closing; one attempt's `text`, `finish`, `requestId`; `usage` over all of them |
| `RewriteProvider` | abstract: what `_processing_stream` relies on | deltas, then a result, which only the deadline may replace by an empty one |
| `ResponseStream` | `ResponseCipher` and `ResponseDecryptor` | the two counters; `Encrypt`, `Decrypt` (the checks), `Decrypted` (after the cipher) |
| `EncryptedRewrite` | composition of `Provider` and `ResponseStream` | `carried`: the type and attempt of each sealed event; `Announce`, `Rewrite` and `Finish` yield events, `Receive` is the page |
| `WordCount` | `count_words`, `_validated_text`, `countWords` | the loop's `index`, `words`, `in_word`; `MatchCount` is the page's expression, `Measured` all that the page asks a capability for, `Verdict` the workload's comparisons with the `capability` |
| `Startup` | secrets, Terraform apply, launcher, bootstrap | `recorded` is Terraform's trigger, `apply` its next step, `forced` what a plan replaces although the triggers are unchanged; `vm`, `member`; the workload's `phase` (`stopped` by `LauncherError` until `StartVm`), `references`, `loaded` |
| `ReleasePolicy` | policy, pull requests, approval, export, deployment | `main` is the history of the policy file; `Check`, `Merge`, `Approve`, `ExportWeb`, `Deploy`, `AttestImage`, `LoseEvidence` |
| `MCAttestation`, `MCCleaning`, `MCMediaExchange`, `MCMintPacing`, `MCReleasePolicy`, `MCWordCount` | instances for TLC | values of the constants and symmetry sets |
| `*_proofs` | theorems of the module they are named after | |

`Cleaning` and `Media` both extend `Website`. `Attestation` is shown to implement `KeyTable`,
`Provider` to implement `RewriteProvider`, and `Cleaning` and every call of `Media` to implement
`Settlement`, by `INSTANCE ... WITH` and a refinement mapping at the end of the detailed module. In
the mapping a call holds the claim while its stream or its job goes on, work is finished once a
success is posted over a billable result or the job has left a cleaned file, and what a browser is
told is what its outcome says definitely about the credits. What a failed media call is told is
left out of it (finding 2). `ImplementsSettlement` implies that a charge is for finished work and a
delivered file is charged (`ChargedNeedsRewrite`, `ChargedForCleaned`), by the theorems
`SettlementSuffices`; so the runs check the refinement and not these invariants. `MediaExchange`
constrains the steps of `Media`, and `EncryptedRewrite` is built from the steps of its two parts,
so their properties are checked in the composition. `Cleaning` has the same provider events as
`RewriteProvider`.

Operators whose comment is `\* mutant` are not part of a specification. Each is a plausible
mistake in the definition below it (a dropped guard, a missing reset, an off-by-one); the
`mutants` of `PROJECT.json` say which property breaks when it replaces that definition.

### Choices of the models

- *Atomicity.* The workload is one event loop. `attestation_lock` and
  `attestation_schedule_lock` are never held across an await, so a locked section is one action,
  and so is all code from one await to the next. In `mint_attestation`, the stored entry and the
  finally clause run without suspending in between.
- *Cancellation.* A cancelled coroutine raises at the await it is suspended at. When a streaming
  generator is suspended at a `yield` because the server's send is blocked, the exception is
  raised in the server's code instead: the generator is dropped and none of its handlers runs.
  `Cleaning` and `Provider` keep the two apart (`AtAwait`, `AtYield`; `Cancel`, `Drop`).
  `asyncio.timeout` in the provider cancels the task that iterates, so it is subject to the same
  difference. After a cancellation the server cancels again until the task ends; so the handler
  that posts `failed` and shields it is not waited for, but the post goes on.
- *The website* claims a reservation for the first `started` it handles and refuses the others;
  the first terminal receipt settles a claimed one; the same receipt again is acknowledged or
  refused (the model allows both), the opposite one is refused. A refusal is a 409, which
  `receipts.py:55` does not retry. A claimed reservation nobody settles is reconciled after ten
  minutes, longer than any call (`apps/confidential-server/README.md:126-128`).
- *Receipts.* A POST and its reply are separate; either is lost or arrives late. The media model
  takes a submission as one step, acknowledged or not, with the receipt handled or not; the
  retries are in `Cleaning`.
- *Keys* are fresh and unforgeable; `attestation_binding` and the response cipher are ideal.
  A token is identified with its nonce.
- *Time* is a counter. In `Attestation` its unit is anything that separates "before" from "at or
  after" an expiry; in `MintPacing` a tick is some fraction of a second.
- *Media data.* One extension stands for each way in which kind, type and detected format may
  differ; an action of a report is its number of characters and the script they are written in,
  which decides its UTF-16 units and its bytes in the header. `FixedHeader` is the length of the
  rest of a header, rounded up, for balances of ordinary length. A reply of the website is a JSON
  object; a balance in it is what the checks of workload and page tell apart.
- *Terraform* destroys, replaces the trigger, creates, then updates the group, in the order of the
  references between the resources, and may stop before each step. It replaces the VM when its
  triggers change, or for a reason outside the model (`forced`): a changed attribute such as a
  newer boot image of the family, or the operator's `-replace`, of the VM alone or of its trigger
  with it. The provider changes a group's membership only if the VM's self link differs from the
  one it saw at the plan, and Google removes a deleted VM from its group (the reason for the VM's
  name, `main.tf:117-119`). It neither starts a VM that stands stopped nor takes it out of its
  group.
- *Texts.* A text is its code points: `Array.from` and `len` both count them. `WordCount` takes the
  two programs to agree on the Unicode categories; they follow the versions of the browser and of
  Python. The upper limits of a text capability are left out.
- *Deployment.* `main.tf:2` reads the policy of the working tree, and no check ties it to main.
  `ReleasePolicy` deploys merged policies only: that the operator applies a checkout of main is an
  assumption. Approval is not required, by the code or the model.
- *Usage* of a provider response is one number; texts are empty, blank or words.

## Runs

| Run | Instance | Properties | Shows |
| --- | --- | --- | --- |
| `attestation` | 2 requests, 2 challenges, 2 keys, 4 calls, cap 1, 2 decryptions per key, clock 0..1 | `OneSlotPerRequest`, `SlotsBackedByMints`, `AnswersVerify`, `DecryptsBounded`, `OneStreamPerRequest`, `BusyIsHonest`, `NoUsePastExpiry`, `ImplementsKeyTable` | the handshake under every interleaving, with expiry and restarts |
| `attestation_liveness` | 3 calls, one challenge, cap 2, fair | `HandshakeEnds`, `SlotsReleased` | no waiter and no slot is forgotten |
| `cleaning` | 2 calls, 3 POSTs per terminal receipt, fair | `ClaimIsExclusive`, `ToldIsSettled`, `EndedStreamsReport`, `ExpiredNeverCharged`, `ImplementsSettlement`, `CallsEnd`, `ReservationSettles` | claims, settlement, expiry and termination |
| `cleaning_deadline` | 1 call | `DeadlineRefunds` violated | finding 1 |
| `media` | 2 calls, 5 capabilities, 10 sealed files, 12 reports, 8 replies, fair | `DataTypeOK`, `OneThread`, `NoSubstitution`, `BrokenNeedsEscapes`, `OrdinaryResultAccepted`, `ImplementsSettlement`, `LockReleased` | one job at a time through cancellation and restart; nothing but the signed file is charged; which results are lost after the charge |
| `media_refund` | 1 call | `FailureRefunds` violated | finding 2 |
| `media_rejected` | 1 call, ordinary reports and replies | `GenuineResultAccepted` violated | finding 3 |
| `mint_pacing` | 6 mints, spacing 3, window 5, 2 per window, queue 7, wake-ups up to 1 tick late | `BookingsSpaced`, `RateHolds` | the pacing does what its comment says while wake-ups stay within the margin |
| `encrypted_rewrite` | 2 attempts of up to 2 chunks, 5 events, 5 reads, one reader, fair deadline | `OutputIsWhole`, `UsageKept`, `PrefixInPlace`, `CompleteIsWhole`, `ImplementsContract`, `OperationEnds` | retries, errors and the deadline keep output, usage and contract; the page accepts a prefix only, and `complete` only after the whole rewrite |
| `release_policy` | legacy and one new image, right and wrong commit, 2 pull requests, 3 policies | `HistoryIsAuditable`, `WebTrustsAttested`, `RunningWasAttested` | checks, merges, approval, export and deployment together |
| `word_count` | all texts of up to 6 of 4 characters, each with capabilities that fit and that differ in words, characters, bytes or kind | `CountIsStarts`, `CleanedIfMeasured` | the loop and the expression agree, and a text is cleaned exactly for the capability of its measurements |
| `startup` | 2 images, 2 versions of each secret, 2 replacements of the trigger, fair launcher | `ServingIsApplied`, `MemberIsVm`, `ServiceReturns` | applies of any kind, failures and restarts leave the applied workload serving and reachable; service returns after every failure that the launcher survives |

### Why these bounds

- `attestation`: the hazards need two challenges for one request (conflict), two keys for one
  request (re-attestation while an old key is in use), two requests for the cap, and a cap of one
  so that it is reached; four calls are enough for two handshakes and two cleanings, or a mint with
  three more callers. The clock's one tick passes the expiry of the first request and not of the
  second. Two decryptions per key let two calls of one entry both be claiming, and a third is over
  the budget. The code's 2000 and 5 are the same formula; the theorems hold for every value.
- `attestation_liveness` needs no second challenge; three calls give a mint with two joiners, or
  one with a re-attestation. Its cap of two leaves a slot free beside a cached entry. No symmetry is
  used with liveness.
- `cleaning`: two calls are the race for one claim; more calls only lose it in the same way.
  Three POSTs is the code's number, so `MaxAttempts` is not reduced. One reservation suffices
  because reservations do not share state. POSTs on the network are bounded by what two calls can
  send.
- `media`: one call holding the lock and one that is refused, or starts after it. The files are
  each capability's own, one with no bytes, one with other bytes, one with another operation, one
  with another kind, one whose type another capability has, and one in upper case; the reports
  exceed both cuts, reach the UTF-16 limit, exceed the header limit, and one is of an empty file;
  the replies are two of the promised types and one for each way in which a single balance breaks
  them.
- `mint_pacing` has the proportions of the code on a coarser clock: `PerWindow * Spacing` exceeds
  the window by a margin of one tick, as 5 * 0.21 s exceeds one second; six mints fill the queue.
- `encrypted_rewrite`: two attempts is the code's number; five events are two phases, two deltas
  and the last event, so a complete text of two deltas is reached; two chunks can carry output and
  then a reason, or output twice; five reads deliver them all or fewer with repetitions and
  changed lines.
- `word_count`: six characters hold two words with every row of apostrophes and other characters
  between, before and after them; `count_words` looks one character ahead, the expression two.
  Letter and apostrophe have four and three bytes, so that characters and bytes differ wherever
  there is a word; the capabilities differ from the text in one measurement at a time.
- `startup`: two versions are an old and a new one, disabled or malformed in any combination; two
  replacements let a replaced VM be replaced again, and a failed apply be followed by one for
  another version.
- `release_policy`: three policies are a revocation, a stale check and a merge that would undo it.

### Fairness

Fairness is weak and stated only for what the code bounds in time. Body reads, launcher requests
(`attestation.py`) and receipts (`receipts.py`) have timeouts, so those steps end one way or
another; the event loop runs what is ready; the provider's deadline passes (`provider.py:101`); a
blocked send drains or is cut by the load balancer's request limit; the website reconciles; the
launcher and the workload's main thread run (`startup`). Never assumed: that a client calls, that a
provider or network answers well, that time passes in `Attestation`, that the process restarts,
that a native media job ends (of the cleaners only `audio_purify` is given a timeout,
`media.py:218`), or that somebody starts a stopped VM. So `LockReleased` says that a job which
never ends is the only thing that keeps the media lock, and `ServiceReturns` that, after an apply
of usable versions, only an error of the launcher keeps the service down for good. In `cleaning`
`CallsEnd` depends on the deadline alone when a provider trickles for ever.

### Findings

1. `cleaning_deadline`: a deadline that passes while a delta is being sent to a slow reader is
   raised outside the generator and no failed receipt is posted, while
   `apps/confidential-server/README.md:129` says expired operations follow the refund path. The
   credits come back by reconciliation only (`ReservationSettles`). This is the only way, a stop of
   the process aside: every other ended call that expired has posted `failed`, and none has posted
   `succeeded` (`ExpiredNeverCharged`, proved).
2. `media_refund`: the 422 answer says "Reserved credits were returned." (`app.py:882`) also when
   the failed receipt was not acknowledged, or when the charge had been recorded.
3. `media_rejected`: the page compares the type and the extension of a result with those it sealed
   (`confidential-crypto.ts:227-239`), the workload answers with its canonical ones
   (`media.py:146`, `media.py:208`). A file the page calls `audio/x-m4a`, or one with an upper-case
   extension, is cleaned and charged and then refused as "invalid media result metadata".
   `OrdinaryResultAccepted` says what else may be refused: empty output, characters outside the
   BMP, and a result with a balance that is negative, not finite or no number, or cleans left that
   are no safe integer. The workload passes `remainingCredits` and `guestCleansLeft` of the
   website's reply on as they are (`receipts.py:48-52`) and the page checks them after the charge
   (`confidential-crypto.ts:249-254`).

Observations without a run:

- Expired entries are pruned by later calls only (`app.py:424`): with no later call an expired
  private key stays in memory, where `apps/confidential-server/README.md:22-24` says it "is
  retained only for the capability lifetime". It cannot be *used* by then (`NoUsePastExpiry`,
  proved).
- The error event of a text stream says "Any reserved credits will be returned." (`app.py:377`)
  also when the charge was recorded and no acknowledgement of it arrived. The definite statements
  of the other endings are true (`ToldIsSettled`, proved).
- The image and audio/video cleaners and `media_has_video` run without a timeout
  (`media.py:189-211`, `media.py:223`), and `run_media_job` has none; the server's README promises
  a cap for the destructive audio subprocess alone (`apps/confidential-server/README.md:116-118`).
  A native job that hangs keeps the endpoint busy until a restart.
- A VM that is replaced without its trigger, by a newer boot image of the family or with
  `-replace`, keeps its name, and its group is empty until the next apply.
  `docs/instance-group-replacement.md:27-30` asks for the trigger to be replaced as well;
  `MemberIsVm` excepts exactly this case, and covers the forced replacement of both.
- Spacing is kept for the booked moments, not for the requests. The rate is kept while wake-ups are
  late by no more than the margin of the spacing (`WithinMargin`; `RateIsKept` proves it), which is
  50 ms in the code. With `MaxLate = 2` in `MintPacing.cfg` TLC finds `RateHolds` violated;
  `app.py:444` states the rate without that condition.
- `ResponseDecryptor.decrypt` checks its counter before it awaits the cipher and counts after it.
  With two overlapping calls (`Readers = {r1, r2}`) a repeated line is accepted twice and the next
  event is then refused. The run and the theorem assume a page that awaits each call; that page is
  not in this repository.
- `export-web` run in an older checkout embeds an older approved policy, so a digest revoked since
  is trusted again (`release-policy.mjs:123-135`); the order of exports is the operator's.
- A letter that only one of the two Unicode versions knows makes the counts of page and workload
  differ, and the text is refused before any charge.

## Proofs

All theorems hold for every value of the constants that satisfies the named assumptions: finite
`Requests` and natural-number limits (`Attestation`), a positive spacing (`MintPacing`), an
alphabet without the names of the other characters, one to four bytes for each, and a set of
capabilities for each text (`WordCount`), `None` distinct from what it stands beside
(`BindingAssumption` among them), the types of capabilities and files (`TermsAssumption`), of the
cleaners' reports (`ReportsAssumption`) and of the website's replies (`PayloadsAssumption`). Two
hypotheses are stated in the theorems that need them: `OneReader`, that the page awaits each
decrypt, in three theorems on the encrypted stream, and `WithinMargin`, how late a wake-up may be,
in `RateIsKept`. The configurations satisfy both, and TLC evaluates the assumptions of the modules
in the runs. Every invariant below was found with TLC before it was proved.

**`Attestation_proofs`**: `OneSlotPerRequest`, `SlotsBackedByMints`, `BusyIsHonest`,
`AnswersVerify`, `DecryptsBounded`, `NoUsePastExpiry`, `OneStreamPerRequest` and the refinement
`ImplementsKeyTable` of the runs, and
three facts that are only proved, `TypeOK`, `SlotsBounded` and `CachedKeyStable`. The argument is
layered, each invariant resting on the ones before it:

- `TypeInv`: types, including that a suspended call has a request, and a waiting one a key.
- `SlotInv`: the two tables are disjoint, a pending slot and a running mint own each other, and
  (`CacheSound`) a cached entry is the entry its key's finished mint would make. The properties
  alone are not inductive: that a mint may store its entry without overwriting another key needs
  the ownership of the slot, and that the entry verifies needs `CacheSound`. `CachedKeyStable`
  follows: no step finds both a cached entry and a mint that would replace it.
- `AnswerInv`: a waiter's key is that of a mint with its own request and challenge
  (`WaitersSound`); so whatever the task returns, after whatever happened to the slot, verifies.
- `TrialsInv`: for a cached key, decryptions so far equal the entry's count; for one still being
  minted, none. An entry that left the cache never returns, since its mint has ended; so the
  budget holds per key, not just per entry. `NoUsePastExpiry` follows from `CacheSound`, because
  the entry's expiry is that of its request and the lookup prunes first.
- `SlotsBounded` adds cardinalities: a step adds at most one slot, and only if not `Full`.
- `ClaimsSound`: an accepted claim means a claimed reservation and is the only one for its
  request; a streaming call has an accepted claim.
- `ImplementsKeyTable` (`TableStep`, one lemma per abstract step): the locked section
  that reserves a slot for a mint is a `Bind`, an answer is a `Vouch` under the binding of its key,
  whatever empties a slot is a `Free`, and everything else is a stutter.

**`MintPacing_proofs`**: `BookingsSpaced` from `BookingInv`: every booking lies at least the
spacing before `next`. `RateHolds` (`RateIsKept`) from `SentInv`: a request goes out at most
`MaxLate` after its booking. So requests of one window have bookings less than
`Window + MaxLate` apart, which `WithinMargin` bounds by `PerWindow` spacings; an interval of that
length is divided into `PerWindow` slots of one spacing, and `SpacedAreFew` (a pigeonhole: two
bookings never share a slot) counts them.

**`Cleaning_proofs`**: `ClaimIsExclusive`, `ToldIsSettled`, `ChargedNeedsRewrite` and
`EndedStreamsReport`, for any number of calls and of POSTs per receipt. `CallInv` relates, for one
call, its position, the receipt being submitted, the receipts sent and the provider's result:
which receipt may be on the network follows from what was sent, and a success is sent only over a
billable result. `ReplyFacts` says what the website's replies can change. A charge may be the work
of a POST that was retried long ago; that it is justified then is the clause on the network.

- `ExpiredNeverCharged` from `ExpiredInv`: an expired call is on the refund path, which no step
  leaves (`RefundPathKept`), and no success was sent before it.
- `ImplementsSettlement`, a refinement (`CleaningImplementsSettlement`): most steps neither change
  the website's record nor tell the browser anything (the `Quiet` lemmas, one per kind of step).
  The others are a POST that the website handles, with its reply delivered at once or lost
  (`PostRecorded`, `LostReplySettles`), a late acknowledgement (`AckSettles`), reconciliation and
  a restart; that the call which is told is still the holder needs `CallInv`.
- `SettlementSuffices`: conversely the abstract settlement alone implies `ClaimIsExclusive`,
  `ToldIsSettled` and `ChargedNeedsRewrite` (`PromiseInv`), so nothing of them was lost in it.

**`Media_proofs`**: `OneThread` and `ChargedForCleaned` from `LockInv` (the lock is held exactly
while a call is between its admission and its end, and a thread runs only while its call waits for
it) and `ChargeInv`. Steps of `MediaExchange` are steps of `Media` (`ExchangeIsMediaStep`), so the
control is proved once. `NoSubstitution` from `TermsInv` (a call past its admission was authorised)
and `ResultsInv` (a thread that cleaned its file has left a report, which nothing replaces, and
what became of the result follows from it). `BrokenNeedsEscapes` and `OrdinaryResultAccepted`, for
all files, reports and replies, from `ResultsInv`, `BalancesFixed` (the balances of a delivered
result do not change) and the arithmetic of the header (`HeaderBounds`). `DataTypeOK` from the
types in these and `PageInv`, for the page's verdict.

Two refinements: `ExchangeImplementsMedia` (the exchange, with its fairness, is a behaviour of the
control) and `MediaImplementsSettlement`, for each call by itself: its submissions are the steps
that settle and tell (`SubmissionMoves`, `TerminalSettles`, `UnheardClaimSettles`), its other steps
stutter or let go of the claim, and the steps of other calls leave it as it is (`OthersUntouched`).
TLC checks the same formula, written with one action property for all calls. `SettlementSuffices`
derives `ChargedForCleaned` from it.

**`EncryptedRewrite_proofs`**, over `RewriteSpec`:

- `OutputIsWhole` and `UsageKept` from `ProviderInv`: output and metadata belong to the running
  attempt; usage lags by at most the delta being sent.
- `ImplementsContract`, a refinement: the provider implements `RewriteProvider`; initial states
  map to initial states and each step to a step or a stutter (`ContractStep`).
- `PrefixInPlace` from `StreamInv`: a call past its checks is opening exactly the expected number,
  which holds only while nobody else moves it, hence `OneReader`. It is proved for the stream alone
  and for the composition (`RewriteKeepsPlace`).
- `RewriteImplementsParts`: the composition is a behaviour of the provider, with its fairness, and
  of the stream, so nothing proved of a part is lost by composing it.
- `CompleteIsWhole` from all of them and `CarriedInv`: what the sealed events carry is two phases,
  deltas of the one attempt that shows output, then at most one last event.

**`WordCount_proofs`**: `CountIsStarts` from `LoopInv`, for texts of any length: `in_word` is a
function of the last two characters and the next one. `CleanedIfMeasured` (`CleanedIffMeasured`)
needs that the page's expression has as many matches from a position on as words start there
(`MatchesCountWords`), by induction from the end of the text. The induction is done on the set of
positions where the two differ: were it not empty it would have a greatest element
(`GreatestExists`, proved from the library's well-foundedness facts without an operator parameter),
and the match at that position, ended by one of the characters `MatchEnds` describes, leads to a
later one. The counts of characters and bytes are the same function on both sides; that a text of
blanks has no words, and that no capability is valid without words or characters, gives the other
direction.

**`Startup_proofs`**: `ServingIsApplied` and `MemberIsVm`, from `ApplyInv` (what an apply may rely
on when it resumes one that failed), `GroupInv` (a plan that saw the VM as the member gives the
next one another name, unless it replaces the VM alone and so leaves the group empty, `Left`) and
`WorkloadInv`.

**`ReleasePolicy_proofs`**: `HistoryIsAuditable`, `WebTrustsAttested`, `RunningWasAttested` and
`TypeOK`. `ChecksSound` says that a check which passed stays true of its base and of the
attestations made so far, although main has moved and evidence may be gone; the strict merge rule
makes that base the last version, and `History` follows by transitivity (`FollowsTransitive`). The
running image is one that a merged version deploys (`RunningMerged`), and every merged version was
checked.

Checked by TLC only: the liveness properties (`HandshakeEnds`, `SlotsReleased`, `CallsEnd`,
`ReservationSettles`, `LockReleased`, `OperationEnds`, `ServiceReturns`), which TLAPS does not
reach. Every invariant and every refinement of a passing run is proved.

## Not modelled

- Cryptography itself (HPKE, AES-GCM, HMAC, Google's token): ideal, as said above. The signature
  and shape of a capability, the page's verification of a token and its sealing of a request:
  functions of one message, without state.
- The upstream cleaners and ffmpeg: a job returns a report or raises. The deterministic text
  cleaner is a pinned upstream file; `Cleaning` has whether it changed the text.
- The byte layout of media frames.
- A second cancellation while a cancelled media job waits for its thread (`app.py:421`).
- Values of URLs and ports in the configuration; network, load balancer and IAM declarations;
  shell scripts that run commands in a straight line.
- In `ReleasePolicy`: the client package and the candidate file.

## Plan

Done: every component with state or concurrency; the compositions of media
control and data, of provider and encrypted stream, of policy, website and deployment; the proofs
above.

Left:

- the key gate composed with `Cleaning` for two requests that share one website;
- the clock of a capability (`security.py:85-111`) against the ten minutes of a reservation;
- a change of the HMAC secret while capabilities signed with the old one are in use.
