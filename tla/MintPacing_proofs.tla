------------------------- MODULE MintPacing_proofs --------------------------
(* Theorems about MintPacing for any mints, spacing and lateness.             *)
EXTENDS MintPacing, FiniteSetTheorems, TLAPS

Booked(m) == state[m] \in {"asleep", "sent"}

(* The next free moment lies a spacing after every booking, and never further *)
(* ahead than the longest queue.                                              *)
BookingInv ==
    /\ TypeOK
    /\ \A m \in Mints : Booked(m) => booked[m] + Spacing <= next
    /\ BookingsSpaced

(* The scheduled moment is not before the next free one (app.py:450-453).     *)
LEMMA ScheduledLater ==
    ASSUME TypeOK
    PROVE  /\ ScheduledAt \in Nat
           /\ next <= ScheduledAt /\ now <= ScheduledAt
           /\ ~TooLate => ScheduledAt <= now + MaxDelay
BY SpacingAssumption DEF TypeOK, ScheduledAt, TooLate

(* A booking keeps the invariant (app.py:448-458).                            *)
LEMMA BookStep ==
    ASSUME BookingInv, NEW m \in Mints, Book(m)
    PROVE  BookingInv'
<1> USE SpacingAssumption DEF BookingInv, TypeOK, Booked
<1> DEFINE at == ScheduledAt
<1>1. /\ at \in Nat
      /\ next <= at /\ now <= at /\ at <= now + MaxDelay
      /\ now \in Nat /\ next \in Nat /\ Spacing \in Nat \ {0}
  BY ScheduledLater DEF Book
<1>2. /\ next' = at + Spacing
      /\ booked' = [booked EXCEPT ![m] = at]
      /\ now' = now
      /\ state[m] = "new"
      /\ \A n \in Mints \ {m} : state'[n] = state[n] /\ booked'[n] = booked[n]
      /\ state'[m] \in {"asleep", "sent"}
      /\ booked'[m] = at
  BY DEF Book
<1> HIDE DEF at
<1>3. TypeOK'
  BY <1>1, <1>2 DEF Book
<1>4. \A n \in Mints : Booked(n)' => booked'[n] + Spacing <= next'
  BY <1>1, <1>2
<1>5. ASSUME NEW n \in Mints \ {m}, Booked(n)'
      PROVE  booked'[n] + Spacing <= booked'[m]
  BY <1>1, <1>2, <1>5
<1>6. BookingsSpaced'
  BY <1>2, <1>5 DEF BookingsSpaced
<1> QED
  BY <1>3, <1>4, <1>6

(* Every step keeps the invariant.                                            *)
LEMMA BookingStep ==
    ASSUME BookingInv, [Next]_vars
    PROVE  BookingInv'
<1> USE SpacingAssumption, BoundsAssumption DEF BookingInv, TypeOK, Booked, BookingsSpaced
<1>1. ASSUME NEW m \in Mints, Book(m)
      PROVE  BookingInv'
  BY <1>1, BookStep
<1>2. ASSUME NEW m \in Mints, Refuse(m)
      PROVE  BookingInv'
  BY <1>2 DEF Refuse
<1>3. ASSUME NEW m \in Mints, Wake(m)
      PROVE  BookingInv'
  BY <1>3 DEF Wake
<1>4. CASE Tick
  BY <1>4 DEF Tick
<1>5. CASE UNCHANGED vars
  BY <1>5 DEF vars
<1> QED
  BY <1>1, <1>2, <1>3, <1>4, <1>5 DEF Next

(* Two mints are never booked closer together than the spacing, for any       *)
(* number of mints, any spacing and any lateness of the event loop            *)
(* (app.py:448-458).                                                          *)
THEOREM BookingsAreSpaced == Spec => []BookingsSpaced
<1>1. Init => BookingInv
  BY SpacingAssumption DEF Init, BookingInv, TypeOK, Booked, BookingsSpaced
<1>2. BookingInv /\ [Next]_vars => BookingInv'
  BY BookingStep
<1>3. BookingInv => BookingsSpaced
  BY DEF BookingInv
<1> QED
  BY <1>1, <1>2, <1>3, PTL DEF Spec

----------------------------------------------------------------------------
(* The rate *)

(* A request goes out when it is booked or at most MaxLate after, and no      *)
(* sleeper is overdue by more.                                                *)
SentInv ==
    \A m \in Mints :
        /\ state[m] = "sent" => sentAt[m] \in booked[m] .. booked[m] + MaxLate
        /\ state[m] = "asleep" => now <= booked[m] + MaxLate

(* Every step keeps it, by the guard on the clock (app.py:455-458).           *)
LEMMA SentStep ==
    ASSUME BookingInv, SentInv, [Next]_vars
    PROVE  SentInv'
<1> USE BoundsAssumption DEF SentInv, BookingInv, TypeOK
<1>1. ASSUME NEW m \in Mints, Book(m)
      PROVE  SentInv'
  <2>1. ScheduledAt \in Nat /\ now <= ScheduledAt
    BY ScheduledLater
  <2> QED
    BY <1>1, <2>1 DEF Book
<1>2. ASSUME NEW m \in Mints, Refuse(m)
      PROVE  SentInv'
  BY <1>2 DEF Refuse
<1>3. ASSUME NEW m \in Mints, Wake(m)
      PROVE  SentInv'
  BY <1>3 DEF Wake
<1>4. CASE Tick
  BY <1>4 DEF Tick
<1>5. CASE UNCHANGED vars
  BY <1>5 DEF vars
<1> QED
  BY <1>1, <1>2, <1>3, <1>4, <1>5 DEF Next

(* Division by the spacing.                                                   *)
LEMMA Slots ==
    ASSUME NEW x \in Nat, NEW d \in Nat \ {0}
    PROVE  LET q == x \div d IN q \in Nat /\ q * d <= x /\ x < q * d + d
OBVIOUS

LEMMA SlotBound ==
    ASSUME NEW q \in Nat, NEW p \in Nat, NEW d \in Nat \ {0}, q * d < p * d
    PROVE  q < p
<1> SUFFICES ASSUME p <= q PROVE FALSE
  OBVIOUS
<1>1. PICK r \in Nat : q = p + r
  <2>1. q - p \in Nat /\ q = p + (q - p)
    OBVIOUS
  <2> QED
    BY <2>1
<1>2. q * d = p * d + r * d /\ r * d >= 0
  BY <1>1
<1> QED
  BY <1>2

(* Moments that are pairwise a spacing apart, in a stretch shorter than       *)
(* PerWindow spacings, are at most PerWindow.                                 *)
LEMMA SpacedAreFew ==
    ASSUME NEW S, IsFiniteSet(S), NEW at \in [S -> Int], NEW from \in Int,
           \A m \in S : at[m] >= from /\ at[m] - from < PerWindow * Spacing,
           \A m, n \in S : m # n => at[m] + Spacing <= at[n] \/ at[n] + Spacing <= at[m]
    PROVE  Cardinality(S) <= PerWindow
<1> USE SpacingAssumption, WindowAssumption
<1> DEFINE slot == [m \in S |-> (at[m] - from) \div Spacing]
           T == 0 .. PerWindow - 1
<1>1. ASSUME NEW m \in S
      PROVE  /\ slot[m] \in T
             /\ slot[m] * Spacing <= at[m] - from
             /\ at[m] - from < slot[m] * Spacing + Spacing
  <2>1. PICK x \in Nat : x = at[m] - from
    OBVIOUS
  <2>2. PICK q : q = x \div Spacing
    OBVIOUS
  <2>3. q \in Nat /\ q * Spacing <= x /\ x < q * Spacing + Spacing
    BY <2>2, Slots
  <2>4. x < PerWindow * Spacing
    BY <2>1
  <2>5. q * Spacing \in Nat /\ PerWindow * Spacing \in Nat
    BY <2>3
  <2>6. q * Spacing < PerWindow * Spacing
    BY <2>3, <2>4, <2>5
  <2>7. q < PerWindow
    BY <2>3, <2>6, SlotBound
  <2>8. slot[m] = q
    BY <2>1, <2>2
  <2> HIDE DEF slot
  <2>9. q \in T
    BY <2>3, <2>7
  <2> QED
    BY <2>1, <2>3, <2>8, <2>9
<1>2. slot \in [S -> T]
  <2>1. slot = [m \in S |-> slot[m]]
    OBVIOUS
  <2> HIDE DEF slot
  <2> QED
    BY <1>1, <2>1
<1> HIDE DEF slot
<1>3. IsFiniteSet(T) /\ Cardinality(T) = PerWindow
  BY FS_Interval
<1> HIDE DEF T
<1>4. \A m, n \in S : m # n => slot[m] # slot[n]
  <2> SUFFICES ASSUME NEW m \in S, NEW n \in S, m # n, slot[m] = slot[n] PROVE FALSE
    OBVIOUS
  <2>1. PICK q : q = slot[m]
    OBVIOUS
  <2>2. /\ q * Spacing <= at[m] - from /\ at[m] - from < q * Spacing + Spacing
        /\ q * Spacing <= at[n] - from /\ at[n] - from < q * Spacing + Spacing
    BY <1>1, <2>1, Zenon
  <2>3. q \in Nat
    BY <1>1, <2>1 DEF T
  <2>4. q * Spacing \in Nat
    BY <2>3
  <2> QED
    BY <2>2, <2>4
<1>5. Cardinality(S) \in Nat
  BY FS_CardinalityType
<1>6. ~ (Cardinality(T) < Cardinality(S))
  BY <1>2, <1>3, <1>4, FS_PigeonHole
<1> QED
  BY <1>3, <1>5, <1>6

(* How late a wake-up may be: the margin between PerWindow spacings and the   *)
(* window, 50 ms with the code's 0.21 s and five mints in a second.           *)
WithinMargin == Window + MaxLate <= PerWindow * Spacing

(* While wake-ups are not later than the margin, the launcher never sees more *)
(* requests in a window than it allows, for any number of mints               *)
(* (app.py:443-458).                                                          *)
THEOREM RateIsKept == ASSUME WithinMargin PROVE Spec => []RateHolds
<1>1. Init => BookingInv /\ SentInv
  BY SpacingAssumption, BoundsAssumption
     DEF Init, BookingInv, SentInv, TypeOK, Booked, BookingsSpaced
<1>2. BookingInv /\ SentInv /\ [Next]_vars => (BookingInv /\ SentInv)'
  BY BookingStep, SentStep
<1>3. BookingInv /\ SentInv => RateHolds
  <2> SUFFICES ASSUME BookingInv, SentInv, NEW m \in Mints, state[m] = "sent"
               PROVE  Cardinality({n \in Mints :
                         /\ state[n] = "sent"
                         /\ sentAt[n] \in sentAt[m] .. sentAt[m] + Window - 1}) <= PerWindow
    BY DEF RateHolds
  <2> USE SpacingAssumption, WindowAssumption, BoundsAssumption
  <2>1. PICK S : S = {n \in Mints : /\ state[n] = "sent"
                                    /\ sentAt[n] \in sentAt[m] .. sentAt[m] + Window - 1}
    OBVIOUS
  <2>2. PICK at, from : from = sentAt[m] - MaxLate /\ at = [n \in S |-> booked[n]]
    OBVIOUS
  <2>3. /\ S \in SUBSET Mints /\ IsFiniteSet(S)
        /\ from \in Int
        /\ at \in [S -> Int]
    BY <2>1, <2>2, MintsAssumption, FS_Subset DEF BookingInv, TypeOK
  <2>4. ASSUME NEW n \in S
        PROVE  at[n] >= from /\ at[n] - from < PerWindow * Spacing
    <3>1. /\ at[n] = booked[n] /\ booked[n] \in Nat
          /\ sentAt[n] \in booked[n] .. booked[n] + MaxLate
          /\ sentAt[n] \in sentAt[m] .. sentAt[m] + Window - 1
          /\ sentAt[m] \in Nat
      BY <2>1, <2>2, <2>3 DEF SentInv, BookingInv, TypeOK
    <3>2. at[n] >= from /\ at[n] - from < Window + MaxLate
      BY <2>2, <3>1
    <3>3. PerWindow * Spacing \in Nat /\ at[n] - from \in Int
      BY <2>3, <3>1
    <3> QED
      BY <3>2, <3>3, WithinMargin DEF WithinMargin
  <2>5. \A p, n \in S : p # n => at[p] + Spacing <= at[n] \/ at[n] + Spacing <= at[p]
    BY <2>1, <2>2 DEF BookingInv, BookingsSpaced
  <2>6. Cardinality(S) <= PerWindow
    BY <2>3, <2>4, <2>5, SpacedAreFew
  <2> QED
    BY <2>1, <2>6
<1> QED
  BY <1>1, <1>2, <1>3, PTL DEF Spec
=============================================================================
