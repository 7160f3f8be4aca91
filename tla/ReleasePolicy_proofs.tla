------------------------ MODULE ReleasePolicy_proofs ------------------------
(* Of every number of images, pull requests and policies: the history on main *)
(* is auditable, and what the website trusts and the VM runs was attested.    *)
EXTENDS ReleasePolicy, TLAPS

(* What ValidTransition wants of two successive policies, besides validity.   *)
Follows(old, new) ==
    \A d \in Known(old) :
        /\ d \in Known(new)
        /\ new.workloads[d].source = old.workloads[d].source
        /\ old.workloads[d].status = "revoked" => new.workloads[d].status = "revoked"

(* A policy whose usable digests were attested, in a history of attestations. *)
SoundIn(p, history) ==
    /\ p \in Policy
    /\ ValidPolicy(p)
    /\ \A d \in Usable(p) : /\ RequiredImages(d) \subseteq history[d]
                            /\ p.workloads[d].source = SourceOf[d]

EvidenceRecorded == \A d \in Digests : evidence[d] \subseteq attested[d]

(* A check that passed stays true of the base it was made against, although   *)
(* main has moved and evidence may be gone.                                   *)
ChecksSound ==
    \A p \in PullRequests : pr[p] # NoPullRequest =>
        /\ pr[p].base \in Versions
        /\ Follows(main[pr[p].base], pr[p].policy)
        /\ SoundIn(pr[p].policy, attested)

MainSound == \A v \in Versions : SoundIn(main[v], attested)
History == \A v, w \in Versions : v < w => Follows(main[v], main[w])

(* The VM runs what some merged policy deploys, of whatever age.              *)
RunningMerged == \E v \in Versions : main[v].deploymentDigest = running

PolicyInv ==
    /\ TypeOK
    /\ Len(main) >= 1
    /\ EvidenceRecorded
    /\ ChecksSound
    /\ MainSound
    /\ History
    /\ RunningMerged

----------------------------------------------------------------------------
(* Lemmas on policies *)

LEMMA FollowsTransitive ==
    ASSUME NEW p, NEW q, NEW r, Follows(p, q), Follows(q, r)
    PROVE  Follows(p, r)
BY DEF Follows

LEMMA SoundGrows ==
    ASSUME NEW p, NEW old, NEW new, SoundIn(p, old),
           \A d \in Digests : old[d] \subseteq new[d]
    PROVE  SoundIn(p, new)
<1>1. \A d \in Usable(p) : d \in Digests
  BY DEF Usable, Known
<1> QED
  BY <1>1 DEF SoundIn

(* verifyPolicy at any moment leaves a policy that is sound for good.         *)
LEMMA VerifiedIsSound ==
    ASSUME EvidenceRecorded, NEW p \in Policy, VerifiedPolicy(p)
    PROVE  SoundIn(p, attested)
<1>1. ASSUME NEW d \in Usable(p)
      PROVE  RequiredImages(d) \subseteq attested[d] /\ p.workloads[d].source = SourceOf[d]
  <2>1. d \in Digests
    BY <1>1 DEF Usable, Known
  <2>2. \A image \in RequiredImages(d) : image \in evidence[d]
                                         /\ p.workloads[d].source = SourceOf[d]
    BY <1>1 DEF VerifiedPolicy, VerifiedArtifact
  <2>3. "hub" \in RequiredImages(d)
    BY DEF RequiredImages, Images
  <2> QED
    BY <2>1, <2>2, <2>3 DEF EvidenceRecorded
<1> QED
  BY <1>1 DEF SoundIn, VerifiedPolicy

(* The image a sound policy deploys was attested.                             *)
LEMMA DeployedIsAttested ==
    ASSUME NEW p, NEW history, SoundIn(p, history)
    PROVE  LET d == p.deploymentDigest IN
           /\ d \in Digests
           /\ p.workloads[d].status = "active"
           /\ p.workloads[d].source = SourceOf[d]
           /\ RequiredImages(d) \subseteq history[d]
<1>1. p.deploymentDigest \in Digests
  BY DEF SoundIn, Policy
<1>2. p.deploymentDigest \in Usable(p)
  BY <1>1 DEF SoundIn, ValidPolicy, Usable, Known
<1> QED
  BY <1>1, <1>2 DEF SoundIn, ValidPolicy

----------------------------------------------------------------------------
(* The first policy, and every step *)

LEMMA FirstSound == SoundIn(FirstPolicy, [d \in Digests |-> IF d = Legacy THEN {"hub"} ELSE {}])
<1>1. SourceOf \in [Digests -> Commits] /\ Legacy \in Digests
  BY SourcesAssumption
<1>2. FirstPolicy \in Policy
  BY <1>1 DEF FirstPolicy, Policy, Entry, Absent
<1>3. FirstPolicy.deploymentDigest = Legacy /\ Usable(FirstPolicy) = {Legacy}
      /\ FirstPolicy.workloads[Legacy] = [status |-> "active", source |-> SourceOf[Legacy]]
  BY <1>1 DEF FirstPolicy, Usable, Known, Absent
<1>4. ValidPolicy(FirstPolicy)
  BY <1>3 DEF ValidPolicy
<1> QED
  BY <1>1, <1>2, <1>3, <1>4 DEF SoundIn, RequiredImages

LEMMA InitPolicy == Init => PolicyInv
<1> SUFFICES ASSUME Init PROVE PolicyInv
  OBVIOUS
<1> USE DEF Init
<1>1. Versions = {1} /\ main[1] = FirstPolicy /\ FirstPolicy \in Policy
  <2>1. FirstPolicy \in Policy
    BY FirstSound DEF SoundIn
  <2>2. Len(main) = 1 /\ main[1] = FirstPolicy
    BY <2>1
  <2> QED
    BY <2>1, <2>2 DEF Versions
<1>2. TypeOK
  BY <1>1, SourcesAssumption DEF TypeOK, Images
<1>3. EvidenceRecorded
  BY DEF EvidenceRecorded
<1>4. ChecksSound
  BY DEF ChecksSound
<1>5. MainSound
  BY <1>1, FirstSound DEF MainSound
<1>6. History
  BY <1>1 DEF History
<1>7. RunningMerged
  BY <1>1 DEF RunningMerged, FirstPolicy
<1> QED
  BY <1>2, <1>3, <1>4, <1>5, <1>6, <1>7 DEF PolicyInv

(* Steps that leave pull requests and main alone, and forget no attestation.  *)
LEMMA PoliciesKept ==
    ASSUME PolicyInv, UNCHANGED <<main, pr>>,
           \A d \in Digests : attested[d] \subseteq attested'[d]
    PROVE  ChecksSound' /\ MainSound' /\ History'
<1>1. Versions' = Versions
  BY DEF Versions
<1>2. ChecksSound'
  BY <1>1, SoundGrows DEF PolicyInv, ChecksSound
<1>3. MainSound'
  BY <1>1, SoundGrows DEF PolicyInv, MainSound
<1>4. History'
  BY <1>1 DEF PolicyInv, History
<1> QED
  BY <1>2, <1>3, <1>4

LEMMA AttestKeeps ==
    ASSUME PolicyInv, NEW d \in Digests, NEW image \in Images, AttestImage(d, image)
    PROVE  PolicyInv'
<1>1. TypeOK'
  BY DEF PolicyInv, TypeOK, AttestImage, Versions
<1>2. \A e \in Digests : attested[e] \subseteq attested'[e]
  BY DEF PolicyInv, TypeOK, AttestImage
<1>3. EvidenceRecorded'
  BY DEF PolicyInv, TypeOK, AttestImage, EvidenceRecorded
<1>4. ChecksSound' /\ MainSound' /\ History'
  BY <1>2, PoliciesKept DEF AttestImage
<1>5. RunningMerged'
  BY DEF PolicyInv, AttestImage, RunningMerged, Versions
<1>6. Len(main') >= 1
  BY DEF PolicyInv, AttestImage
<1> QED
  BY <1>1, <1>3, <1>4, <1>5, <1>6 DEF PolicyInv

LEMMA LoseKeeps ==
    ASSUME PolicyInv, NEW d \in Digests, LoseEvidence(d)
    PROVE  PolicyInv'
<1>1. TypeOK'
  BY DEF PolicyInv, TypeOK, LoseEvidence, Versions
<1>2. EvidenceRecorded'
  BY DEF PolicyInv, TypeOK, LoseEvidence, EvidenceRecorded
<1>3. ChecksSound' /\ MainSound' /\ History'
  BY PoliciesKept DEF LoseEvidence
<1>4. RunningMerged'
  BY DEF PolicyInv, LoseEvidence, RunningMerged, Versions
<1>5. Len(main') >= 1
  BY DEF PolicyInv, LoseEvidence
<1> QED
  BY <1>1, <1>2, <1>3, <1>4, <1>5 DEF PolicyInv

LEMMA CheckKeeps ==
    ASSUME PolicyInv, NEW p \in PullRequests, NEW policy \in ValidPolicies,
           Check(p, policy)
    PROVE  PolicyInv'
<1>1. /\ policy \in Policy
      /\ Len(main) \in Versions
  BY DEF PolicyInv, TypeOK, ValidPolicies, Versions
<1>2. SoundIn(policy, attested)
  BY <1>1, VerifiedIsSound DEF PolicyInv, Check
<1>3. Follows(main[Len(main)], policy)
  BY DEF Check, ValidTransition, Follows
<1>4. TypeOK'
  BY <1>1 DEF PolicyInv, TypeOK, Check, PullRequest, Versions
<1>5. EvidenceRecorded' /\ MainSound' /\ History' /\ RunningMerged'
  BY DEF PolicyInv, Check, EvidenceRecorded, MainSound, History, RunningMerged, Versions
<1>6. ChecksSound'
  <2> SUFFICES ASSUME NEW q \in PullRequests, pr'[q] # NoPullRequest
               PROVE  /\ pr'[q].base \in Versions
                      /\ Follows(main[pr'[q].base], pr'[q].policy)
                      /\ SoundIn(pr'[q].policy, attested)
    BY DEF Check, ChecksSound, Versions
  <2>1. CASE q = p
    <3>1. pr'[q] = [policy |-> policy, base |-> Len(main)]
      BY <2>1 DEF Check, PolicyInv, TypeOK
    <3> QED
      BY <3>1, <1>1, <1>2, <1>3
  <2>2. CASE q # p
    <3>1. pr'[q] = pr[q]
      BY <2>2 DEF Check, PolicyInv, TypeOK
    <3> QED
      BY <3>1 DEF PolicyInv, ChecksSound
  <2> QED
    BY <2>1, <2>2
<1> QED
  BY <1>4, <1>5, <1>6 DEF PolicyInv, Check

(* Branch protection makes the base of the merged change the last policy, so  *)
(* what was checked is what is appended.                                      *)
LEMMA MergeKeeps ==
    ASSUME PolicyInv, NEW p \in PullRequests, Merge(p)
    PROVE  PolicyInv'
<1> DEFINE n == Len(main)  new == pr[p].policy
<1>1. /\ n \in Nat /\ n >= 1 /\ pr[p] # NoPullRequest /\ pr[p].base = n
      /\ main' = Append(main, new)
      /\ UNCHANGED <<evidence, approved, web, running, attested>>
  BY DEF PolicyInv, TypeOK, Merge, Mergeable
<1>2. /\ Follows(main[n], new)
      /\ SoundIn(new, attested)
      /\ new \in Policy
  BY <1>1 DEF PolicyInv, ChecksSound, SoundIn
<1>3. /\ Versions = 1 .. n
      /\ Versions' = 1 .. n + 1
      /\ main'[n + 1] = new
      /\ \A v \in 1 .. n : main'[v] = main[v]
  BY <1>1, <1>2 DEF PolicyInv, TypeOK, Versions
<1>4. TypeOK'
  <2>1. main' \in Seq(Policy)
    BY <1>1, <1>2 DEF PolicyInv, TypeOK
  <2>2. pr' \in [PullRequests -> PullRequest \cup {NoPullRequest}]
    BY DEF PolicyInv, TypeOK, Merge
  <2>3. approved' \in SUBSET (Versions')
    BY <1>1, <1>3 DEF PolicyInv, TypeOK
  <2> QED
    BY <1>1, <2>1, <2>2, <2>3 DEF PolicyInv, TypeOK
<1>5. EvidenceRecorded' /\ RunningMerged'
  BY <1>1, <1>3 DEF PolicyInv, EvidenceRecorded, RunningMerged
<1>6. MainSound'
  BY <1>1, <1>2, <1>3 DEF PolicyInv, MainSound
<1>7. History'
  <2> SUFFICES ASSUME NEW v \in 1 .. n + 1, NEW w \in 1 .. n + 1, v < w
               PROVE  Follows(main'[v], main'[w])
    BY <1>3 DEF History
  <2>1. v \in 1 .. n /\ main'[v] = main[v]
    BY <1>1, <1>3
  <2>2. CASE w = n + 1
    <3>1. main'[w] = new
      BY <1>3, <2>2
    <3>2. CASE v = n
      BY <1>2, <2>1, <3>1, <3>2
    <3>3. CASE v # n
      <4>1. Follows(main[v], main[n])
        BY <1>1, <1>3, <2>1, <3>3 DEF PolicyInv, History
      <4> QED
        BY <1>2, <2>1, <3>1, <4>1, FollowsTransitive
    <3> QED
      BY <3>2, <3>3
  <2>3. CASE w # n + 1
    <3>1. w \in 1 .. n /\ main'[w] = main[w]
      BY <1>1, <1>3, <2>3
    <3> QED
      BY <1>3, <2>1, <3>1 DEF PolicyInv, History
  <2> QED
    BY <2>2, <2>3
<1>8. ChecksSound'
  <2> SUFFICES ASSUME NEW q \in PullRequests, pr'[q] # NoPullRequest
               PROVE  /\ pr'[q].base \in Versions'
                      /\ Follows(main'[pr'[q].base], pr'[q].policy)
                      /\ SoundIn(pr'[q].policy, attested)
    BY <1>1 DEF ChecksSound
  <2>1. q # p /\ pr'[q] = pr[q]
    BY DEF Merge, PolicyInv, TypeOK
  <2>2. /\ pr[q].base \in 1 .. n
        /\ Follows(main[pr[q].base], pr[q].policy)
        /\ SoundIn(pr[q].policy, attested)
    BY <1>3, <2>1 DEF PolicyInv, ChecksSound
  <2> QED
    BY <1>1, <1>3, <2>1, <2>2
<1>9. Len(main') >= 1
  BY <1>1, <1>2 DEF PolicyInv, TypeOK
<1> QED
  BY <1>4, <1>5, <1>6, <1>7, <1>8, <1>9 DEF PolicyInv

LEMMA VersionStepKeeps ==
    ASSUME PolicyInv, NEW v \in Versions, Approve(v) \/ ExportWeb(v) \/ Deploy(v)
    PROVE  PolicyInv'
<1>1. UNCHANGED <<evidence, main, pr, attested>>
  BY DEF Approve, ExportWeb, Embed, Deploy
<1>2. Versions' = Versions
  BY <1>1 DEF Versions
<1>3. SoundIn(main[v], attested)
  BY DEF PolicyInv, MainSound
<1>4. main[v].deploymentDigest \in Digests
  BY <1>3, DeployedIsAttested
<1>5. running' = running \/ running' = main[v].deploymentDigest
  BY DEF Approve, ExportWeb, Embed, Deploy
<1>6. approved' \subseteq Versions /\ web' \in approved' \cup {0}
  BY DEF PolicyInv, TypeOK, Approve, ExportWeb, Embed, Deploy
<1>7. TypeOK'
  BY <1>1, <1>2, <1>4, <1>5, <1>6 DEF PolicyInv, TypeOK
<1>8. EvidenceRecorded' /\ RunningMerged'
  BY <1>1, <1>2, <1>5 DEF PolicyInv, EvidenceRecorded, RunningMerged
<1>9. ChecksSound' /\ MainSound' /\ History'
  BY <1>1, PoliciesKept
<1> QED
  BY <1>1, <1>7, <1>8, <1>9 DEF PolicyInv

LEMMA NextKeepsPolicy == PolicyInv /\ [Next]_vars => PolicyInv'
<1> SUFFICES ASSUME PolicyInv, [Next]_vars PROVE PolicyInv'
  OBVIOUS
<1>1. CASE UNCHANGED vars
  BY <1>1 DEF vars, PolicyInv, TypeOK, EvidenceRecorded, ChecksSound, MainSound, History,
              RunningMerged, Versions
<1>2. CASE Next
  BY <1>2, AttestKeeps, LoseKeeps, CheckKeeps, MergeKeeps, VersionStepKeeps DEF Next
<1> QED
  BY <1>1, <1>2

----------------------------------------------------------------------------

LEMMA PolicyAlways == Spec => []PolicyInv
  BY InitPolicy, NextKeepsPolicy, PTL DEF Spec

(* The policies on main only ever grow, keep their sources and their          *)
(* revocations, over any number of pull requests checked against bases that   *)
(* have moved since (release-policy.mjs:47-58, github/main.tf:44-60).         *)
THEOREM HistoryAudited == Spec => []HistoryIsAuditable
<1>1. PolicyInv => HistoryIsAuditable
  BY DEF PolicyInv, History, Follows, HistoryIsAuditable
<1> QED
  BY <1>1, PolicyAlways, PTL

(* Whatever evidence is published in parts or lost, each digest a browser     *)
(* accepts was attested in full as a build of its commit                      *)
(* (release-policy.mjs:79-88, 119-135).                                       *)
THEOREM TrustedWasAttested == Spec => []WebTrustsAttested
<1>1. PolicyInv => WebTrustsAttested
  <2> SUFFICES ASSUME PolicyInv, web # 0, NEW d \in Usable(main[web])
               PROVE  /\ RequiredImages(d) \subseteq attested[d]
                      /\ main[web].workloads[d].source = SourceOf[d]
    BY DEF WebTrustsAttested
  <2>1. web \in Versions
    BY DEF PolicyInv, TypeOK
  <2> QED
    BY <2>1 DEF PolicyInv, MainSound, SoundIn
<1> QED
  BY <1>1, PolicyAlways, PTL

(* The VM only ever runs the image that some policy merged to main deploys,   *)
(* attested in full as a build of the commit that policy names, although      *)
(* Terraform verifies no attestation and asks for no approval                 *)
(* (main.tf:182-198).                                                         *)
THEOREM DeployedWasAttested == Spec => []RunningWasAttested
<1>1. PolicyInv => RunningWasAttested
  <2> SUFFICES ASSUME PolicyInv PROVE RunningWasAttested
    OBVIOUS
  <2>1. PICK v \in Versions : main[v].deploymentDigest = running
    BY DEF PolicyInv, RunningMerged
  <2>2. SoundIn(main[v], attested)
    BY DEF PolicyInv, MainSound
  <2> QED
    BY <2>1, <2>2, DeployedIsAttested DEF RunningWasAttested
<1> QED
  BY <1>1, PolicyAlways, PTL

(* Type correctness of the release policy's state.                            *)
THEOREM PolicyTypes == Spec => []TypeOK
<1>1. PolicyInv => TypeOK
  BY DEF PolicyInv
<1> QED
  BY <1>1, PolicyAlways, PTL
=============================================================================
