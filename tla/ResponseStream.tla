--------------------------- MODULE ResponseStream ---------------------------
(* The encrypted event stream of one text cleaning: ResponseCipher            *)
(* (crypto.py) numbers and seals the events, an unreliable path carries the   *)
(* lines, and ResponseDecryptor (confidential-crypto.ts) opens them in the    *)
(* browser. An event is identified with the sequence number it was sealed     *)
(* under. The AEAD is ideal: a ciphertext opens only under the response key,  *)
(* nonce and additional data it was sealed with.                              *)
EXTENDS Naturals, Sequences

CONSTANTS
    MaxEvents,    \* bound: events of the stream
    MaxReads,     \* bound: lines handed to the decryptor
    Readers,      \* decrypt calls the page may have open at once
    Changed,      \* a ciphertext not made with this response key
    NoLine        \* no line is being opened

ASSUME BoundsAssumption == MaxEvents \in Nat /\ MaxReads \in Nat
ASSUME ChangedAssumption == Changed \notin Nat

VARIABLES
    sequence,    \* ResponseCipher.sequence
    expected,    \* ResponseDecryptor.sequence
    reading,     \* the line each decrypt call is opening, after its checks
    accepted,    \* the events the page received, in order
    reads        \* lines handed over so far

streamVars == <<sequence, expected, reading, accepted, reads>>

(* What the path can deliver: any sequence number with any ciphertext it has  *)
(* seen, in any order and any number of times, or with a changed one.         *)
Lines == [sequence : 0 .. MaxEvents, ciphertext : 0 .. MaxEvents - 1 \cup {Changed}]
ASSUME NoLineAssumption == NoLine \notin Lines

Delivered == {l \in Lines : l.ciphertext = Changed \/ l.ciphertext < sequence}

StreamTypeOK ==
    /\ sequence \in 0 .. MaxEvents
    /\ expected \in Nat
    /\ reading \in [Readers -> Lines \cup {NoLine}]
    /\ accepted \in Seq(0 .. MaxEvents - 1)
    /\ reads \in 0 .. MaxReads

StreamInit ==
    /\ sequence = 0
    /\ expected = 0
    /\ reading = [r \in Readers |-> NoLine]
    /\ accepted = <<>>
    /\ reads = 0

(* encrypt_event: seal under the current number, then advance it.             *)
Encrypt ==
    /\ sequence < MaxEvents
    /\ sequence' = sequence + 1
    /\ UNCHANGED <<expected, reading, accepted, reads>>

(* The checks of decrypt, before it awaits the cipher.                        *)
InOrderOrLater(line) == line.sequence >= expected                \* mutant
InOrder(line) == line.sequence = expected

Decrypt(r, line) ==
    /\ reading[r] = NoLine
    /\ reads < MaxReads
    /\ reads' = reads + 1
    /\ IF InOrder(line)
       THEN reading' = [reading EXCEPT ![r] = line]
       ELSE UNCHANGED reading
    /\ UNCHANGED <<sequence, expected, accepted>>

(* The cipher finishes: nonce and additional data come from the number the    *)
(* line claims. Only then does the decryptor expect the next number.          *)
Opens(line) == line.ciphertext = line.sequence

Decrypted(r) ==
    /\ reading[r] # NoLine
    /\ reading' = [reading EXCEPT ![r] = NoLine]
    /\ \/ /\ Opens(reading[r])
          /\ expected' = expected + 1
          /\ accepted' = Append(accepted, reading[r].ciphertext)
       \/ ~Opens(reading[r]) /\ UNCHANGED <<expected, accepted>>
    /\ UNCHANGED <<sequence, reads>>

Receive == \E r \in Readers : Decrypted(r) \/ \E line \in Delivered : Decrypt(r, line)

StreamNext == Encrypt \/ Receive

StreamSpec == StreamInit /\ [][StreamNext]_streamVars

----------------------------------------------------------------------------
(* Properties *)

AcceptedIsPrefix ==
    /\ Len(accepted) <= sequence
    /\ \A i \in 1 .. Len(accepted) : accepted[i] = i - 1
PlaceKept == expected = Len(accepted)

(* Whatever the path loses, repeats, reorders or changes, and however many    *)
(* lines were rejected before, the page has received a prefix of the events:  *)
(* no gap, no repetition, no foreign event                                    *)
(* (apps/confidential-server/README.md:29-33); and a rejected line does not   *)
(* cost the stream its place: the genuine line is still accepted after a      *)
(* changed one (confidential-crypto.ts:156-174).                              *)
PrefixInPlace == AcceptedIsPrefix /\ PlaceKept
=============================================================================
