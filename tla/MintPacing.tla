----------------------------- MODULE MintPacing -----------------------------
(* The pacing of token mints (mint_attestation_token): every mint books the   *)
(* next free moment under attestation_schedule_lock, sleeps until then and    *)
(* asks the launcher for a token. A moment too far away is refused.           *)
(*                                                                            *)
(* Time is discrete. A sleeper wakes when its moment comes or later: how much *)
(* later is how long the event loop was busy, at most MaxLate.                *)
EXTENDS Integers, FiniteSets

CONSTANTS
    Mints,      \* mints, each started once
    Spacing,    \* 0.21 s in the code
    MaxDelay,   \* 3 s in the code
    Window,     \* the launcher's window, one second
    PerWindow,  \* mints the launcher allows in a window, 5
    MaxLate,    \* bound on the lateness of a wake-up
    MaxTime     \* bound of the model's clock

ASSUME SpacingAssumption == Spacing \in Nat \ {0} /\ MaxDelay \in Nat
ASSUME WindowAssumption ==
    Window \in Nat /\ PerWindow \in Nat \ {0} /\ PerWindow * Spacing >= Window
ASSUME BoundsAssumption == MaxLate \in Nat /\ MaxTime \in Nat
ASSUME MintsAssumption == IsFiniteSet(Mints)

VARIABLES
    now,      \* the event loop's clock
    next,     \* next_attestation_mint_at
    state,    \* new, asleep, sent or refused
    booked,   \* the moment each mint is scheduled at
    sentAt    \* when its token request was sent

vars == <<now, next, state, booked, sentAt>>

TypeOK ==
    /\ now \in Nat
    /\ next \in 0 .. now + MaxDelay + Spacing
    /\ state \in [Mints -> {"new", "asleep", "sent", "refused"}]
    /\ booked \in [Mints -> Nat]
    /\ sentAt \in [Mints -> Nat]

Init ==
    /\ now = 0
    /\ next = 0
    /\ state = [m \in Mints |-> "new"]
    /\ booked = [m \in Mints |-> 0]
    /\ sentAt = [m \in Mints |-> 0]

(* max(now, next_attestation_mint_at)                                         *)
ScheduledAtNext == next                                          \* mutant
ScheduledAt == IF now > next THEN now ELSE next

TooLate == ScheduledAt - now > MaxDelay

(* The queue is full: AttestationError, and nothing is booked.                *)
Refuse(m) ==
    /\ state[m] = "new"
    /\ TooLate
    /\ state' = [state EXCEPT ![m] = "refused"]
    /\ UNCHANGED <<now, next, booked, sentAt>>

(* Book the moment; without a delay the request is sent at once.              *)
BookWithoutReserving(m) ==                                       \* mutant
    /\ state[m] = "new"
    /\ ~TooLate
    /\ next' = ScheduledAt
    /\ booked' = [booked EXCEPT ![m] = ScheduledAt]
    /\ IF ScheduledAt > now
       THEN state' = [state EXCEPT ![m] = "asleep"] /\ UNCHANGED sentAt
       ELSE state' = [state EXCEPT ![m] = "sent"] /\ sentAt' = [sentAt EXCEPT ![m] = now]
    /\ UNCHANGED now
Book(m) ==
    /\ state[m] = "new"
    /\ ~TooLate
    /\ next' = ScheduledAt + Spacing
    /\ booked' = [booked EXCEPT ![m] = ScheduledAt]
    /\ IF ScheduledAt > now
       THEN state' = [state EXCEPT ![m] = "asleep"] /\ UNCHANGED sentAt
       ELSE state' = [state EXCEPT ![m] = "sent"] /\ sentAt' = [sentAt EXCEPT ![m] = now]
    /\ UNCHANGED now

(* asyncio.sleep returns.                                                     *)
Wake(m) ==
    /\ state[m] = "asleep"
    /\ now >= booked[m]
    /\ state' = [state EXCEPT ![m] = "sent"]
    /\ sentAt' = [sentAt EXCEPT ![m] = now]
    /\ UNCHANGED <<now, next, booked>>

Tick ==
    /\ now < MaxTime
    /\ \A m \in Mints : state[m] = "asleep" => now < booked[m] + MaxLate
    /\ now' = now + 1
    /\ UNCHANGED <<next, state, booked, sentAt>>

Next == Tick \/ \E m \in Mints : Refuse(m) \/ Book(m) \/ Wake(m)

Spec == Init /\ [][Next]_vars

----------------------------------------------------------------------------
(* Properties *)

(* Two mints are never booked closer together than the spacing, whatever      *)
(* order they arrive in and however long the queue was idle.                  *)
BookingsSpaced ==
    \A m, n \in Mints :
        state[m] \in {"asleep", "sent"} /\ state[n] \in {"asleep", "sent"} /\ m # n
            => booked[m] + Spacing <= booked[n] \/ booked[n] + Spacing <= booked[m]

(* app.py:444: "Stay below Confidential Space's five custom-token mints per   *)
(* second": no window of the launcher sees more requests than it allows.      *)
RateHolds ==
    \A m \in Mints : state[m] = "sent" =>
        Cardinality({n \in Mints : /\ state[n] = "sent"
                                   /\ sentAt[n] \in sentAt[m] .. sentAt[m] + Window - 1})
            <= PerWindow
=============================================================================
