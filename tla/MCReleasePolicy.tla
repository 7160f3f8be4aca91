--------------------------- MODULE MCReleasePolicy --------------------------
(* The legacy image and one new image, with a right and a wrong commit.       *)
EXTENDS ReleasePolicy, TLC
CONSTANTS legacy, new, right, wrong
MCDigests == {legacy, new}
MCSymmetry == Permutations(PullRequests)
MCSourceOf == [d \in MCDigests |-> right]
=============================================================================
