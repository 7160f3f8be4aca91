--------------------------- MODULE Startup_proofs ---------------------------
(* For any number of secret versions, images and replacements of the VM: what *)
(* serves after an apply is what was applied, and the load balancer's group   *)
(* holds the VM.                                                              *)
EXTENDS Startup, TLAPS

(* The state a terraform apply keeps between its steps, and what it may rely  *)
(* on when it resumes one that failed: a VM that exists has the metadata and  *)
(* the name of the recorded trigger, so a trigger that does not change means  *)
(* metadata that does not change.                                             *)
ApplyInv ==
    /\ planned \in Pins
    /\ recorded \in [triggers : Pins, id : Nat]
    /\ vm \in [name : Nat, pins : Pins] \cup {None}
    /\ vm # None => vm = [name |-> recorded.id, pins |-> recorded.triggers]
    /\ apply \in {"destroy", "data", "create", "update", "group", "complete", "failed"}
    /\ apply \in {"create", "update", "group", "complete"} => planned = recorded.triggers
    /\ apply \in {"data", "create"} => vm = None
    /\ apply \in {"update", "group", "complete"} => vm # None

(* The group holds the VM or nothing; a plan that saw the VM as the member    *)
(* gives the next one another name, unless it rebuilds the VM alone.          *)
Left == forced = "vm" /\ refreshed = recorded.id /\ member = -1
GroupInv ==
    /\ member \in {-1, recorded.id}
    /\ vm = None => member = -1
    /\ refreshed \in Nat \cup {-1}
    /\ apply # "failed" => refreshed <= recorded.id
    /\ forced \in {"nothing", "vm", "trigger"}
    /\ apply \in {"destroy", "data"} =>
          refreshed # recorded.id \/ planned # recorded.triggers \/ forced # "nothing"
    /\ apply = "create" => refreshed # recorded.id \/ forced = "vm"
    /\ apply = "update" => refreshed = member
    /\ apply = "group" => refreshed # recorded.id \/ member = recorded.id \/ Left
    /\ apply = "complete" => member = recorded.id \/ Left

(* What the workload holds comes from the metadata of the VM that exists.     *)
WorkloadInv ==
    /\ phase \in {"off", "stopped", "exited", "starting", "fetching", "serving"}
    /\ loaded \in [Secrets -> Int]
    /\ vm = None => phase = "off"
    /\ phase \notin {"off", "stopped"} => image = vm.pins["image"]
    /\ phase \in {"fetching", "serving"} => references = [s \in Secrets |-> vm.pins[s]]
    /\ \A s \in Secrets : loaded[s] # 0 => phase \in {"fetching", "serving"}
                                           /\ loaded[s] = references[s]
    /\ phase = "serving" => \A s \in Secrets : loaded[s] # 0

StartupInv == ApplyInv /\ GroupInv /\ WorkloadInv

LEMMA InitStartup == Init => StartupInv
  <1> SUFFICES ASSUME Init PROVE StartupInv
    OBVIOUS
  <1>1. First \in Pins
    BY BoundsAssumption, SMT DEF First, Pins
  <1>2. ApplyInv
    BY <1>1, SMT DEF Init, ApplyInv, None
  <1>3. GroupInv
    BY SMT DEF Init, GroupInv, Left, None
  <1>4. WorkloadInv
    BY SMT DEF Init, WorkloadInv, None, NotFetched, Secrets
  <1> QED
    BY <1>2, <1>3, <1>4 DEF StartupInv

(* Every step of an apply, and its failure, keeps the three.                  *)
LEMMA TerraformKeepsInv ==
    ASSUME StartupInv, Terraform PROVE StartupInv'
  <1> USE DEF StartupInv
  <1>1. ASSUME NEW pins \in Pins, NEW force \in {"nothing", "vm", "trigger"}, Plan(pins, force)
        PROVE  StartupInv'
    <2>1. ApplyInv'
      BY <1>1, SMT DEF Plan, ApplyInv, TriggersChange, VmName, None, workloadVars
    <2>2. GroupInv'
      BY <1>1, SMT DEF Plan, ApplyInv, GroupInv, Left, TriggersChange, VmName, None, workloadVars
    <2>3. WorkloadInv'
      BY <1>1, SMT DEF Plan, WorkloadInv, workloadVars
    <2> QED
      BY <2>1, <2>2, <2>3
  <1>2. ASSUME DestroyVm PROVE StartupInv'
    <2>1. ApplyInv'
      BY <1>2, SMT DEF DestroyVm, ApplyInv, None
    <2>2. GroupInv'
      BY <1>2, SMT DEF DestroyVm, ApplyInv, GroupInv, Left, None
    <2>3. WorkloadInv'
      BY <1>2, SMT DEF DestroyVm, WorkloadInv, NotFetched, Secrets
    <2> QED
      BY <2>1, <2>2, <2>3
  <1>3. ASSUME ReplaceTrigger PROVE StartupInv'
    <2>1. ApplyInv'
      BY <1>3, SMT DEF ReplaceTrigger, ApplyInv, TriggersChange, None, workloadVars
    <2>2. GroupInv'
      BY <1>3, SMT DEF ReplaceTrigger, ApplyInv, GroupInv, Left, TriggersChange, None, workloadVars
    <2>3. WorkloadInv'
      BY <1>3, SMT DEF ReplaceTrigger, WorkloadInv, workloadVars
    <2> QED
      BY <2>1, <2>2, <2>3
  <1>4. ASSUME CreateVm PROVE StartupInv'
    <2>1. ApplyInv'
      BY <1>4, SMT DEF CreateVm, ApplyInv, VmName, None, workloadVars
    <2>2. GroupInv'
      BY <1>4, SMT DEF CreateVm, ApplyInv, GroupInv, Left, VmName, None, workloadVars
    <2>3. WorkloadInv'
      BY <1>4, SMT DEF CreateVm, ApplyInv, WorkloadInv, None, workloadVars
    <2> QED
      BY <2>1, <2>2, <2>3
  <1>5. ASSUME UpdateVm PROVE StartupInv'
    <2>1. vm' = vm
      BY <1>5, SMT DEF UpdateVm, ApplyInv
    <2>2. ApplyInv'
      BY <1>5, <2>1, SMT DEF UpdateVm, ApplyInv, workloadVars
    <2>3. GroupInv'
      BY <1>5, <2>1, SMT DEF UpdateVm, ApplyInv, GroupInv, Left, workloadVars
    <2>4. UNCHANGED workloadVars
      BY <1>5 DEF UpdateVm
    <2>5. WorkloadInv'
      BY <2>1, <2>4 DEF WorkloadInv, workloadVars
    <2> QED
      BY <2>2, <2>3, <2>5
  <1>6. ASSUME UpdateGroup PROVE StartupInv'
    <2>1. ApplyInv'
      BY <1>6, SMT DEF UpdateGroup, ApplyInv, workloadVars
    <2>2. GroupInv'
      BY <1>6, SMT DEF UpdateGroup, ApplyInv, GroupInv, Left, workloadVars
    <2>3. WorkloadInv'
      BY <1>6, SMT DEF UpdateGroup, WorkloadInv, workloadVars
    <2> QED
      BY <2>1, <2>2, <2>3
  <1>7. ASSUME ApplyFails PROVE StartupInv'
    <2>1. ApplyInv'
      BY <1>7, SMT DEF ApplyFails, ApplyInv, workloadVars
    <2>2. GroupInv'
      BY <1>7, SMT DEF ApplyFails, GroupInv, Left, workloadVars
    <2>3. WorkloadInv'
      BY <1>7, SMT DEF ApplyFails, WorkloadInv, workloadVars
    <2> QED
      BY <2>1, <2>2, <2>3
  <1> QED
    BY <1>1, <1>2, <1>3, <1>4, <1>5, <1>6, <1>7 DEF Terraform

(* The launcher and the workload change nothing of Terraform's.               *)
LEMMA WorkloadKeepsInv ==
    ASSUME StartupInv, Launch \/ Exit \/ Reboot \/ LauncherError \/ StartVm PROVE StartupInv'
  <1>1. UNCHANGED terraformVars
    BY DEF Launch, Boot, Restart, ReadReferences, Fetch, Serve, Exit, Reboot, LauncherError,
         StartVm
  <1>2. ApplyInv' /\ GroupInv'
    BY <1>1, SMT DEF StartupInv, ApplyInv, GroupInv, Left, terraformVars
  <1> USE DEF StartupInv, WorkloadInv, terraformVars
  <1>3. CASE Boot
    BY <1>2, <1>3, SMT DEF Boot
  <1>4. CASE Restart
    BY <1>2, <1>4, SMT DEF Restart
  <1>5. CASE ReadReferences
    BY <1>2, <1>5, SMT DEF ReadReferences
  <1>6. ASSUME NEW s \in Secrets, Fetch(s) PROVE WorkloadInv'
    <2>1. references = [t \in Secrets |-> vm.pins[t]] /\ vm # None
      BY <1>6, SMT DEF Fetch
    <2>2. vm.pins[s] \in Nat \ {0}
      BY <2>1, BoundsAssumption, SMT DEF ApplyInv, Pins, Secrets
    <2> QED
      BY <1>6, <2>1, <2>2, SMT DEF Fetch
  <1>7. CASE Serve
    BY <1>2, <1>7, SMT DEF Serve
  <1>8. CASE Exit
    BY <1>2, <1>8, SMT DEF Exit, NotFetched
  <1>9. CASE Reboot
    BY <1>2, <1>9, SMT DEF Reboot, NotFetched
  <1>10. CASE LauncherError
    BY <1>2, <1>10, SMT DEF LauncherError, NotFetched
  <1>11. CASE StartVm
    BY <1>2, <1>11, SMT DEF StartVm
  <1> QED
    BY <1>2, <1>3, <1>4, <1>5, <1>6, <1>7, <1>8, <1>9, <1>10, <1>11 DEF Launch

LEMMA NextKeepsStartup == ASSUME StartupInv, [Next]_vars PROVE StartupInv'
  <1>1. ASSUME UNCHANGED <<terraformVars, workloadVars>> PROVE StartupInv'
    BY <1>1, SMT DEF StartupInv, ApplyInv, GroupInv, Left, WorkloadInv, terraformVars, workloadVars
  <1>2. ASSUME NEW s \in Secrets,
               \/ Upload(s) \/ UploadElsewhere(s)
               \/ \E v \in DOMAIN versions[s] : Disable(s, v)
        PROVE StartupInv'
    BY <1>1, <1>2 DEF Upload, UploadElsewhere, AddVersion, Disable
  <1>3. CASE UNCHANGED vars
    BY <1>1, <1>3 DEF vars, terraformVars, workloadVars
  <1> QED
    BY <1>2, <1>3, TerraformKeepsInv, WorkloadKeepsInv DEF Next

(* What serves after an apply is what was applied (main.tf:12-21,             *)
(* bootstrap.py:22-81), over every failure and restart.                       *)
THEOREM AppliedIsServed == Spec => []ServingIsApplied
  <1>1. StartupInv => ServingIsApplied
    BY SMT DEF StartupInv, ApplyInv, WorkloadInv, ServingIsApplied, Secrets, Pins
  <1> QED
    BY <1>1, InitStartup, NextKeepsStartup, PTL DEF Spec

(* A completed apply leaves the VM in the load balancer's group, the          *)
(* regression docs/instance-group-replacement.md tells of, unless it rebuilt  *)
(* the VM alone under the name the group knew (main.tf:109-120).              *)
THEOREM VmIsMember == Spec => []MemberIsVm
  <1>1. StartupInv => MemberIsVm
    BY SMT DEF StartupInv, ApplyInv, GroupInv, Left, MemberIsVm
  <1> QED
    BY <1>1, InitStartup, NextKeepsStartup, PTL DEF Spec
=============================================================================
