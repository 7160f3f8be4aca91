--------------------------- MODULE MCAttestation ---------------------------
(* Instances of Attestation for TLC: two requests, the second with a longer   *)
(* capability, and a clock that runs past the first one's expiry.             *)
EXTENDS Attestation, TLC

CONSTANTS r1, r2

MCRequests == {r1, r2}
MCExpiry == r1 :> 1 @@ r2 :> 2

(* Calls, keys and challenges are interchangeable; requests are not.          *)
MCSymmetry == Permutations(Calls) \cup Permutations(Keys) \cup Permutations(Challenges)
=============================================================================
