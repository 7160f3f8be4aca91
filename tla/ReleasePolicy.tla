--------------------------- MODULE ReleasePolicy ----------------------------
(* How an image becomes trusted: the release workflow attests its provenance  *)
(* in two registries, pull requests change releases/approved-workloads.json   *)
(* under the checks of scripts/release-policy.mjs and ci.yml, a second        *)
(* workflow attests the merged policy, export-web copies an attested policy   *)
(* into the website, whose browsers accept its usable digests, and Terraform  *)
(* replaces the one VM by the image a checked-out policy names.               *)
EXTENDS Integers, Sequences

CONSTANTS
    Digests,      \* image digests
    Legacy,       \* LEGACY_DIGEST, attested in one registry only
    Commits,      \* source commits
    SourceOf,     \* SourceOf[d]: the commit d was really built from
    PullRequests,
    MaxPolicies   \* bound: policies merged to main

ASSUME SourcesAssumption == SourceOf \in [Digests -> Commits] /\ Legacy \in Digests
ASSUME BoundAssumption == MaxPolicies \in Nat \ {0}

VARIABLES
    evidence,   \* evidence[d]: the registries with a provenance attestation
    main,       \* the policies merged to main, oldest first
    pr,         \* each open pull request: its policy, its base, its check
    approved,   \* the policies attested by approve-release-policy.yml
    web,        \* the policy the website embeds, 0 before the first export
    running,    \* the image of the VM
    attested    \* history: the registries that ever had an attestation

vars == <<evidence, main, pr, approved, web, running, attested>>

Images == {"hub", "gcp"}
Absent == [status |-> "absent"]
Entry == [status : {"active", "retiring", "revoked"}, source : Commits] \cup {Absent}
Policy == [workloads : [Digests -> Entry], deploymentDigest : Digests]
Versions == 1 .. Len(main)

PullRequest == [policy : Policy, base : Nat]
NoPullRequest == [base |-> 0]

TypeOK ==
    /\ evidence \in [Digests -> SUBSET Images]
    /\ attested \in [Digests -> SUBSET Images]
    /\ main \in Seq(Policy)
    /\ pr \in [PullRequests -> PullRequest \cup {NoPullRequest}]
    /\ approved \in SUBSET Versions
    /\ web \in approved \cup {0}
    /\ running \in Digests

----------------------------------------------------------------------------
(* scripts/release-policy.mjs *)

Known(p) == {d \in Digests : p.workloads[d].status # "absent"}
RequiredImages(d) == IF d = Legacy THEN {"hub"} ELSE Images

ValidPolicy(p) == p.workloads[p.deploymentDigest].status = "active"
ValidPolicies == {p \in Policy : ValidPolicy(p)}

ValidTransition(old, new) ==
    /\ ValidPolicy(old)
    /\ ValidPolicy(new)
    /\ \A d \in Known(old) :
        /\ d \in Known(new)
        /\ new.workloads[d].source = old.workloads[d].source
        /\ old.workloads[d].status = "revoked" => new.workloads[d].status = "revoked"

(* verifyArtifact pins the commit; verifyPolicy skips revoked entries, whose  *)
(* images may be gone.                                                        *)
VerifiedArtifact(d, image, source) == image \in evidence[d] /\ source = SourceOf[d]
Usable(p) == {d \in Known(p) : p.workloads[d].status # "revoked"}
VerifiedSomeImage(p) ==                                          \* mutant
    /\ ValidPolicy(p)
    /\ \A d \in Usable(p) : \E image \in RequiredImages(d) :
          VerifiedArtifact(d, image, p.workloads[d].source)
VerifiedPolicy(p) ==
    /\ ValidPolicy(p)
    /\ \A d \in Usable(p) : \A image \in RequiredImages(d) :
          VerifiedArtifact(d, image, p.workloads[d].source)

----------------------------------------------------------------------------

(* The repository starts with the adopted legacy image.                       *)
FirstPolicy ==
    [workloads |-> [d \in Digests |->
        IF d = Legacy THEN [status |-> "active", source |-> SourceOf[d]] ELSE Absent],
     deploymentDigest |-> Legacy]

Init ==
    /\ evidence = [d \in Digests |-> IF d = Legacy THEN {"hub"} ELSE {}]
    /\ attested = evidence
    /\ main = <<FirstPolicy>>
    /\ pr = [p \in PullRequests |-> NoPullRequest]
    /\ approved = {}
    /\ web = 0
    /\ running = Legacy

(* release-confidential.yml attests Docker Hub, then Artifact Registry; it    *)
(* may fail in between.                                                       *)
AttestImage(d, image) ==
    /\ d # Legacy
    /\ image = "gcp" => "hub" \in evidence[d]
    /\ evidence' = [evidence EXCEPT ![d] = @ \cup {image}]
    /\ attested' = [attested EXCEPT ![d] = @ \cup {image}]
    /\ UNCHANGED <<main, pr, approved, web, running>>

(* An image or its attestation is deleted.                                    *)
LoseEvidence(d) ==
    /\ evidence[d] # {}
    /\ evidence' = [evidence EXCEPT ![d] = {}]
    /\ UNCHANGED <<main, pr, approved, web, running, attested>>

(* ci.yml passes on a pull request against the base it was last updated to.   *)
Check(p, policy) ==
    /\ Len(main) < MaxPolicies
    /\ ValidTransition(main[Len(main)], policy)
    /\ VerifiedPolicy(policy)
    /\ pr' = [pr EXCEPT ![p] = [policy |-> policy, base |-> Len(main)]]
    /\ UNCHANGED <<evidence, main, approved, web, running, attested>>

(* Branch protection: the required checks passed, on an up-to-date branch.    *)
MergeableStale(p) == pr[p] # NoPullRequest                       \* mutant
Mergeable(p) == pr[p] # NoPullRequest /\ pr[p].base = Len(main)

Merge(p) ==
    /\ Mergeable(p)
    /\ Len(main) < MaxPolicies
    /\ main' = Append(main, pr[p].policy)
    /\ pr' = [pr EXCEPT ![p] = NoPullRequest]
    /\ UNCHANGED <<evidence, approved, web, running, attested>>

(* approve-release-policy.yml: verify again, then attest the exact file.      *)
Approve(v) ==
    /\ v \in Versions \ approved
    /\ VerifiedPolicy(main[v])
    /\ approved' = approved \cup {v}
    /\ UNCHANGED <<evidence, main, pr, web, running, attested>>

(* export-web of any committed, approved policy an operator has checked out.  *)
Embed(v) ==
    /\ VerifiedPolicy(main[v])
    /\ web' = v
    /\ UNCHANGED <<evidence, main, pr, approved, running, attested>>
ExportWeb(v) == v \in approved /\ Embed(v)

(* terraform apply in any checkout of main: its precondition wants an active  *)
(* deploymentDigest and looks at no attestation.                              *)
Deploy(v) ==
    /\ ValidPolicy(main[v])
    /\ running' = main[v].deploymentDigest
    /\ UNCHANGED <<evidence, main, pr, approved, web, attested>>

Next ==
    \/ \E d \in Digests : LoseEvidence(d) \/ \E image \in Images : AttestImage(d, image)
    \/ \E p \in PullRequests : Merge(p) \/ \E policy \in ValidPolicies : Check(p, policy)
    \/ \E v \in Versions : Approve(v) \/ ExportWeb(v) \/ Deploy(v)

Spec == Init /\ [][Next]_vars

----------------------------------------------------------------------------
(* Properties *)

(* "CI rejects history deletion, altered historical evidence and reactivation *)
(* of a revoked image" (docs/release-security.md): on main, over any number   *)
(* of pull requests checked against bases that have moved since.              *)
HistoryIsAuditable ==
    \A v, w \in Versions : v < w =>
        \A d \in Known(main[v]) :
            /\ d \in Known(main[w])
            /\ main[w].workloads[d].source = main[v].workloads[d].source
            /\ main[v].workloads[d].status = "revoked" =>
                  main[w].workloads[d].status = "revoked"

(* Every digest the website's browsers accept was attested in every registry  *)
(* its entry requires, as a build of the commit its entry names; a partial    *)
(* publication is never trusted.                                              *)
WebTrustsAttested ==
    web # 0 =>
        \A d \in Usable(main[web]) :
            /\ RequiredImages(d) \subseteq attested[d]
            /\ main[web].workloads[d].source = SourceOf[d]

(* Terraform "does not itself perform a Sigstore verification"                *)
(* (docs/release-security.md:35) and asks for no approval: the image that     *)
(* runs is nevertheless one that a policy merged to main deploys, attested in *)
(* every registry, as a build of the commit that policy names, because each   *)
(* policy passed CI before its merge.                                         *)
RunningWasAttested ==
    \E v \in Versions :
        /\ main[v].deploymentDigest = running
        /\ main[v].workloads[running].status = "active"
        /\ main[v].workloads[running].source = SourceOf[running]
        /\ RequiredImages(running) \subseteq attested[running]
=============================================================================
