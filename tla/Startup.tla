------------------------------ MODULE Startup -------------------------------
(* How the one production VM comes to serve: an operator uploads credential   *)
(* versions and applies Terraform, which replaces the VM when the image or a  *)
(* pinned version changes, or another change forces it, and puts it into the  *)
(* load balancer's group; the launcher starts the workload and restarts it    *)
(* when it exits; the workload fetches both pinned credentials before it      *)
(* serves. An apply, a fetch, the process, the launcher and the host may fail *)
(* at any point.                                                              *)
EXTENDS Integers, Sequences

CONSTANTS MaxVersion,    \* bound: versions of a secret, and images
          MaxGeneration  \* bound: replacements of terraform_data.workload_image

ASSUME BoundsAssumption == MaxVersion \in Nat \ {0} /\ MaxGeneration \in Nat \ {0}

VARIABLES
    versions,    \* each secret's versions in Secret Manager, oldest first
    planned,     \* the image and the versions the last plan was made for
    forced,      \* what that plan replaces although its triggers are unchanged
    recorded,    \* terraform_data.workload_image: its triggers and its id
    apply,       \* the next step of terraform apply, or how the last one ended
    refreshed,   \* the group's member when the last plan was made
    vm,          \* the VM: its name and its metadata
    member,      \* the VM in the instance group
    phase,       \* where the launcher and the workload are
    image,       \* the image the launcher runs
    references,  \* the version references the workload read
    loaded       \* the credential versions it holds; 0: not fetched

vars == <<versions, planned, forced, recorded, apply, refreshed, vm, member,
          phase, image, references, loaded>>
terraformVars == <<planned, forced, recorded, apply, refreshed, vm, member>>
workloadVars == <<phase, image, references, loaded>>

Secrets == {"deepinfra", "shared"}
Pins == [{"image"} \cup Secrets -> 1 .. MaxVersion]
Names == 0 .. MaxGeneration
Vm == [name : Names, pins : Pins]
None == [name |-> -1]
NotFetched == [s \in Secrets |-> 0]

TypeOK ==
    /\ versions \in [Secrets -> Seq({"usable", "malformed", "disabled"})]
    /\ planned \in Pins
    /\ forced \in {"nothing", "vm", "trigger"}
    /\ recorded \in [triggers : Pins, id : 0 .. MaxGeneration]
    /\ apply \in {"destroy", "data", "create", "update", "group", "complete", "failed"}
    /\ refreshed \in Names \cup {-1}
    /\ vm \in Vm \cup {None}
    /\ member \in Names \cup {-1}
    /\ phase \in {"off", "stopped", "exited", "starting", "fetching", "serving"}
    /\ image \in 1 .. MaxVersion
    /\ references \in [Secrets -> 0 .. MaxVersion]
    /\ loaded \in [Secrets -> 0 .. MaxVersion]
    /\ phase = "serving" => \A s \in Secrets : loaded[s] = references[s] /\ loaded[s] # 0

(* A first release, deployed and about to boot.                               *)
First == [p \in {"image"} \cup Secrets |-> 1]

Init ==
    /\ versions = [s \in Secrets |-> <<"usable">>]
    /\ planned = First
    /\ forced = "nothing"
    /\ recorded = [triggers |-> First, id |-> 0]
    /\ apply = "complete"
    /\ refreshed = 0
    /\ vm = [name |-> 0, pins |-> First]
    /\ member = 0
    /\ phase = "off"
    /\ image = 1
    /\ references = NotFetched
    /\ loaded = NotFetched

----------------------------------------------------------------------------
(* Secret Manager *)

AddVersion(s, kind) ==
    /\ Len(versions[s]) < MaxVersion
    /\ versions' = [versions EXCEPT ![s] = Append(@, kind)]
    /\ UNCHANGED <<terraformVars, workloadVars>>

(* upload-secret-version.py refuses what the workload would refuse.           *)
Upload(s) == AddVersion(s, "usable")

(* External: other clients of Secret Manager check nothing; operators disable *)
(* versions.                                                                  *)
UploadElsewhere(s) == AddVersion(s, "malformed")
Disable(s, v) ==
    /\ versions[s][v] = "usable"
    /\ versions' = [versions EXCEPT ![s][v] = "disabled"]
    /\ UNCHANGED <<terraformVars, workloadVars>>

----------------------------------------------------------------------------
(* Terraform: the old VM is destroyed before its trigger and it are created   *)
(* anew; the group, which refers to the VM, comes last.                       *)

(* The VM is named after the id of the trigger.                               *)
VmNameFixed(id) == 0                                             \* mutant
VmName(id) == id

TriggersLackShared(pins) == pins["image"] # recorded.triggers["image"] \* mutant
    \/ pins["deepinfra"] # recorded.triggers["deepinfra"]
TriggersChange(pins) == pins # recorded.triggers

(* A plan for any image and versions; it is then carried out. It does not     *)
(* look at the versions themselves. The VM is also replaced alone, when one   *)
(* of its other attributes has changed (a newer boot image of the family) or  *)
(* at the operator's wish; or with its trigger, as the operator is told to.   *)
Plan(pins, force) ==
    /\ apply \in {"complete", "failed"}
    /\ planned' = pins
    /\ forced' = force
    /\ refreshed' = member
    /\ apply' = IF \/ TriggersChange(pins)
                   \/ force # "nothing"
                   \/ vm.name # VmName(recorded.id)
                THEN "destroy" ELSE "update"
    /\ UNCHANGED <<versions, recorded, vm, member, workloadVars>>

(* Google removes a deleted VM from its group. A stopped one may be deleted.  *)
DestroyVm ==
    /\ apply = "destroy"
    /\ vm' = None
    /\ member' = IF member = vm.name THEN -1 ELSE member
    /\ phase' = "off"
    /\ loaded' = NotFetched
    /\ references' = NotFetched
    /\ apply' = "data"
    /\ UNCHANGED <<versions, planned, forced, recorded, refreshed, image>>

ReplaceTrigger ==
    LET replaced == TriggersChange(planned) \/ forced = "trigger" IN
    /\ apply = "data"
    /\ replaced => recorded.id < MaxGeneration
    /\ recorded' = IF replaced
                   THEN [triggers |-> planned, id |-> recorded.id + 1] ELSE recorded
    /\ apply' = "create"
    /\ UNCHANGED <<versions, planned, forced, refreshed, vm, member, workloadVars>>

CreateVm ==
    /\ apply = "create"
    /\ vm' = [name |-> VmName(recorded.id), pins |-> planned]
    /\ apply' = "group"
    /\ UNCHANGED <<versions, planned, forced, recorded, refreshed, member, workloadVars>>

(* Metadata of a VM that is kept is updated in place.                         *)
UpdateVm ==
    /\ apply = "update"
    /\ vm' = [vm EXCEPT !.pins = planned]
    /\ apply' = "group"
    /\ UNCHANGED <<versions, planned, forced, recorded, refreshed, member, workloadVars>>

(* The provider changes the membership if the VM's self link is not the one   *)
(* it saw when the plan was made.                                             *)
UpdateGroup ==
    /\ apply = "group"
    /\ member' = IF vm.name # refreshed THEN vm.name ELSE member
    /\ apply' = "complete"
    /\ UNCHANGED <<versions, planned, forced, recorded, refreshed, vm, workloadVars>>

ApplyFails ==
    /\ apply \notin {"complete", "failed"}
    /\ apply' = "failed"
    /\ UNCHANGED <<versions, planned, forced, recorded, refreshed, vm, member, workloadVars>>

Terraform ==
    \/ \E pins \in Pins, force \in {"nothing", "vm", "trigger"} : Plan(pins, force)
    \/ DestroyVm \/ ReplaceTrigger \/ CreateVm \/ UpdateVm \/ UpdateGroup \/ ApplyFails

----------------------------------------------------------------------------
(* The launcher and the workload *)

(* The launcher reads the image reference only at boot.                       *)
Boot ==
    /\ phase = "off"
    /\ vm # None
    /\ image' = vm.pins["image"]
    /\ phase' = "starting"
    /\ UNCHANGED <<versions, terraformVars, references, loaded>>

(* tee-restart-policy = Always.                                               *)
RestartNever == FALSE /\ UNCHANGED vars                          \* mutant
Restart ==
    /\ phase = "exited"
    /\ phase' = "starting"
    /\ UNCHANGED <<versions, terraformVars, image, references, loaded>>

ReadReferences ==
    /\ phase = "starting"
    /\ references' = [s \in Secrets |-> vm.pins[s]]
    /\ phase' = "fetching"
    /\ UNCHANGED <<versions, terraformVars, image, loaded>>

Accessible(s) == references[s] \in DOMAIN versions[s]

(* In the order of SECRET_REFERENCES. The version exists and is enabled, the  *)
(* value has a credential's form.                                             *)
Fetch(s) ==
    /\ phase = "fetching"
    /\ s = "shared" <=> loaded["deepinfra"] # 0
    /\ Accessible(s) /\ versions[s][references[s]] = "usable"
    /\ loaded' = [loaded EXCEPT ![s] = references[s]]
    /\ UNCHANGED <<versions, terraformVars, phase, image, references>>

(* Settings.from_env: in production a credential that was not fetched is an   *)
(* error, whatever the environment holds.                                     *)
Serve ==
    /\ phase = "fetching"
    /\ \A s \in Secrets : loaded[s] # 0
    /\ phase' = "serving"
    /\ UNCHANGED <<versions, terraformVars, image, references, loaded>>

(* An unusable credential, or any failure of a request to the metadata server *)
(* or Secret Manager while starting; a crash while serving.                   *)
Exit ==
    /\ phase \in {"starting", "fetching", "serving"}
    /\ phase' = "exited"
    /\ loaded' = NotFetched
    /\ references' = NotFetched
    /\ UNCHANGED <<versions, terraformVars, image>>

(* The host fails: automatic_restart of the VM, unless it was stopped.        *)
Reboot ==
    /\ phase \notin {"off", "stopped"}
    /\ phase' = "off"
    /\ loaded' = NotFetched
    /\ references' = NotFetched
    /\ UNCHANGED <<versions, terraformVars, image>>

(* An error of the launcher itself can stop the VM whatever its restart       *)
(* policy; only an operator starts it again. Terraform leaves it as it is.    *)
LauncherError ==
    /\ vm # None
    /\ phase # "stopped"
    /\ phase' = "stopped"
    /\ loaded' = NotFetched
    /\ references' = NotFetched
    /\ UNCHANGED <<versions, terraformVars, image>>
StartVm ==
    /\ phase = "stopped"
    /\ phase' = "off"
    /\ UNCHANGED <<versions, terraformVars, image, references, loaded>>

Launch == Boot \/ Restart \/ ReadReferences \/ (\E s \in Secrets : Fetch(s)) \/ Serve

Next ==
    \/ \E s \in Secrets : \/ Upload(s) \/ UploadElsewhere(s)
                          \/ \E v \in DOMAIN versions[s] : Disable(s, v)
    \/ Terraform
    \/ Launch \/ Exit \/ Reboot \/ LauncherError \/ StartVm

Spec == Init /\ [][Next]_vars

(* The launcher and the workload's main thread run. Nothing makes an operator *)
(* start a stopped VM.                                                        *)
FairSpec == Spec /\ WF_vars(Launch)

----------------------------------------------------------------------------
(* Properties *)

(* "Terraform replaces the workload when a version changes so it reloads the  *)
(* credentials" (apps/confidential-server/README.md): when an apply is done,  *)
(* what serves is what was applied, whatever failed in applies before it and  *)
(* however often the workload restarted: never an older image or key, and     *)
(* never a credential of the environment.                                     *)
ServingIsApplied ==
    apply = "complete" /\ phase = "serving" =>
        /\ image = planned["image"]
        /\ \A s \in Secrets : loaded[s] = planned[s]

(* "The provider made no membership update" (docs/instance-group-replacement  *)
(* .md:3-6): an apply that completes, also one that resumes a failed one,     *)
(* leaves the VM in the group, so the load balancer reaches it. Only one that *)
(* rebuilt the VM alone, under the name the group knew, leaves the group      *)
(* empty ("otherwise its name can be reused", 27-30), until the next apply.   *)
MemberIsVm ==
    apply = "complete" =>
        /\ vm # None
        /\ \/ member = vm.name
           \/ forced = "vm" /\ refreshed = vm.name /\ member = -1

(* "The launcher restarts failed workloads" (secret-manager-migration.md),    *)
(* but "a launcher error can stop the production VM" (infra/gcp/terraform/    *)
(* README.md:163-165): once an apply is done, its versions are usable and     *)
(* nothing fails any more, the workload serves for good, after whatever       *)
(* failures came before, or the VM is left stopped.                           *)
Applied == apply = "complete" /\ \A s \in Secrets :
    planned[s] \in DOMAIN versions[s] /\ versions[s][planned[s]] = "usable"
ServiceReturns ==
    <>[]Applied /\ <>[][~Exit /\ ~Reboot /\ ~LauncherError]_vars =>
        <>[](phase = "serving") \/ <>[](phase = "stopped")
=============================================================================
