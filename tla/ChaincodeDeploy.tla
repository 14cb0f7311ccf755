-------------------------- MODULE ChaincodeDeploy --------------------------
(***************************************************************************)
(* The controller of FabricChaincode: it keeps the TLS certificate of a     *)
(* chaincode server in a secret, and a Deployment and a Service that run    *)
(* the server with it.  One worker reconciles the resource, call by call;   *)
(* an administrator may edit or delete the resource in between, or delete   *)
(* what the controller made; the Deployment controller of Kubernetes        *)
(* replaces the pods when it gets to it, and they read the certificate when *)
(* they start.                                                              *)
(*                                                                          *)
(* The Kubernetes API, the Deployment controller and the certificate        *)
(* authority are external.  The template of a chaincode is part of what the *)
(* resource asks for, reading it part of the calls that can fail.           *)
(***************************************************************************)
EXTENDS Naturals

CONSTANTS
  Images,      (* what the pods are to run                                  *)
  Labels,      (* Spec.PodLabels                                            *)
  None,        (* an object that does not exist                             *)
  Life,        (* days a certificate is valid                               *)
  Margin,      (* days before the end when it is about to expire (7)        *)
  MaxDay,      (* bound: days                                               *)
  MaxEdits,    (* bound: creations, edits, deletions of the resource        *)
  MaxMeddles,  (* bound: interventions on what the controller made          *)
  MaxFails     (* bound: failed calls and restarts                          *)

ASSUME DayAssumption == Life \in Nat /\ Margin \in Nat /\ MaxDay \in Nat
ASSUME DeployBounds == MaxEdits \in Nat /\ MaxMeddles \in Nat /\ MaxFails \in Nat

VARIABLES
  today,       (* the day                                                   *)
  issued,      (* how many certificates the authority has issued            *)
  resource,    (* the FabricChaincode                                       *)
  status,      (* its status                                                *)
  queued,      (* it waits for a reconcile                                  *)
  run,         (* the reconcile in progress                                 *)
  secret,      (* the certificate, its key and root                         *)
  deployment,  (* the Deployment                                            *)
  service,     (* the Service exists                                        *)
  pods,        (* what the running pods were started with                   *)
  edits, meddles, fails

vars    == <<today, issued, resource, status, queued, run, secret, deployment,
             service, pods, edits, meddles, fails>>
objects == <<secret, deployment, service>>
world   == <<today, issued, pods, edits, meddles>>

(* tls says that the resource has Credentials.                              *)
Asked    == [image: Images, labels: Labels, tls: BOOLEAN]
Resource == [spec: Asked, finalizer: BOOLEAN, deleting: BOOLEAN]

(* whole: all three of tls.crt, tls.key and tlsroot.crt have content.       *)
Secret   == [serial: Nat, notAfter: Nat, whole: BOOLEAN]

(* A Deployment's selector cannot be changed; the labels of the resource    *)
(* are part of it, because podLabels and labels are one map in the code.    *)
(* stamp is the annotation updatedsecrettime: 0 when it is missing, and the *)
(* serial of the certificate it was set for instead of a time.              *)
Template   == [image: Images, tls: BOOLEAN, stamp: Nat]
Deployment == [selector: Labels, template: Template]
Pods       == [template: Template, serial: Nat]

Status == [state: {"", "FAILED", "RUNNING"}, message: {"", "error"}]
Blank  == [state |-> "", message |-> ""]

ASSUME NoneAssumption ==
  None \notin Resource /\ None \notin Secret /\ None \notin Deployment /\ None \notin Pods

(* A run: what was read of the resource and of the secret (on which day;    *)
(* unread when that failed), the certificate to write and whether it is a   *)
(* new one, the status to write, and what setConditionStatus is called with *)
Pc   == {"clients", "enroll", "secret", "deployment", "service", "condition", "update"}
Run  == [pc: Pc, spec: Asked, current: BOOLEAN, status: Status,
         day: 0 .. MaxDay, read: Secret \cup {None}, unread: BOOLEAN,
         updated: BOOLEAN, cert: Secret \cup {None},
         goal: {"", "FAILED", "RUNNING"}, err: BOOLEAN]
Idle == [pc |-> "idle"]

At(pc) == run.pc = pc
Go(pc) == run' = [run EXCEPT !.pc = pc]
Fault  == fails < MaxFails /\ fails' = fails + 1

Init ==
  /\ today = 0 /\ issued = 0
  /\ resource = None /\ status = Blank /\ queued = FALSE /\ run = Idle
  /\ secret = None /\ deployment = None /\ service = FALSE /\ pods = None
  /\ edits = 0 /\ meddles = 0 /\ fails = 0

-----------------------------------------------------------------------------
(* The administrator.                                                       *)

Outdated == run' = IF run = Idle THEN run ELSE [run EXCEPT !.current = FALSE]
Manage   == /\ edits < MaxEdits /\ edits' = edits + 1
            /\ queued' = TRUE /\ Outdated
            /\ UNCHANGED <<today, issued, objects, pods, meddles, fails>>

Create ==
  /\ Manage /\ resource = None
  /\ \E s \in Asked : resource' = [spec |-> s, finalizer |-> FALSE, deleting |-> FALSE]
  /\ status' = Blank

Edit ==
  /\ Manage /\ resource # None
  /\ \E s \in Asked \ {resource.spec} : resource' = [resource EXCEPT !.spec = s]
  /\ UNCHANGED status

(* The API keeps a resource with a finalizer until that is removed.         *)
Delete ==
  /\ Manage /\ resource # None /\ ~resource.deleting
  /\ resource' = IF resource.finalizer THEN [resource EXCEPT !.deleting = TRUE] ELSE None
  /\ UNCHANGED status

(* No event leads from these objects back to the resource: the controller   *)
(* does not own them.                                                       *)
Meddle ==
  /\ meddles < MaxMeddles /\ meddles' = meddles + 1
  /\ \/ /\ secret # None /\ secret' \in {None, [secret EXCEPT !.whole = FALSE]}
        /\ UNCHANGED <<deployment, service, pods>>
     \/ /\ deployment # None /\ deployment' = None /\ pods' = None
        /\ UNCHANGED <<secret, service>>
     \/ /\ service /\ service' = FALSE
        /\ UNCHANGED <<secret, deployment, pods>>
  /\ UNCHANGED <<today, issued, resource, status, queued, run, edits, fails>>

-----------------------------------------------------------------------------
(* Kubernetes and time.                                                     *)

Tick ==
  /\ today < MaxDay /\ today' = today + 1
  /\ UNCHANGED <<issued, resource, status, queued, run, objects, pods, edits, meddles, fails>>

(* The informer hands out all resources again every ten hours.              *)
Resync ==
  /\ resource # None /\ ~queued /\ queued' = TRUE
  /\ UNCHANGED <<world, resource, status, run, objects, fails>>

(* Pods start when the secret that they mount is there.                     *)
Startable == deployment # None /\ (deployment.template.tls => secret # None)
Started   == [template |-> deployment.template,
              serial   |-> IF deployment.template.tls THEN secret.serial ELSE 0]
StartPods == /\ pods' = Started
             /\ UNCHANGED <<today, issued, resource, status, queued, run, objects,
                            edits, meddles, fails>>

(* The Deployment controller replaces pods of another template; a node that *)
(* fails or is drained makes them start anew as well.                       *)
RollOut == Startable /\ (IF pods = None THEN TRUE ELSE pods.template # deployment.template) /\ StartPods
Evict   == Startable /\ pods # None /\ pods # Started /\ StartPods

-----------------------------------------------------------------------------
(* Reconcile.                                                               *)

(* Mutant: the message is passed for the state.                             *)
FailsByMessage(err) == run' = [run EXCEPT !.pc = "condition", !.goal = "error", !.err = err]

Fails(err) == run' = [run EXCEPT !.pc = "condition", !.goal = "FAILED", !.err = err]

Copy == [pc |-> "clients", spec |-> resource.spec, current |-> TRUE, status |-> status,
         day |-> 0, read |-> None, unread |-> FALSE, updated |-> FALSE, cert |-> None,
         goal |-> "", err |-> FALSE]

(* A resource that is gone is ignored; one without a finalizer gets it      *)
(* before anything else, and if that fails is queued again.                 *)
Begin ==
  /\ queued /\ run = Idle
  /\ \/ /\ resource = None
        /\ queued' = FALSE /\ UNCHANGED <<resource, run, fails>>
     \/ /\ resource # None /\ ~resource.deleting
        /\ resource' = [resource EXCEPT !.finalizer = TRUE]
        /\ run' = Copy /\ queued' = ~resource.finalizer
        /\ UNCHANGED fails
     \/ /\ resource # None /\ ~resource.deleting /\ ~resource.finalizer
        /\ Fault /\ UNCHANGED <<resource, queued, run>>
  /\ UNCHANGED <<world, status, objects>>

(* Mutant: the secret is forgotten.                                         *)
finalizeForgetsSecret(n) ==
  /\ deployment' = IF n > 0 THEN None ELSE deployment
  /\ service' = (service /\ n < 2)
  /\ UNCHANGED secret

(* Mutant: an object that is not found makes its deletion fail.             *)
finalizeStrictly(n) ==
  /\ deployment # None /\ service /\ secret # None
  /\ deployment' = None /\ service' = FALSE /\ secret' = None

(* The Deployment, the Service and the secret are deleted in this order; n  *)
(* of the calls get through.                                                *)
finalizeChaincode(n) ==
  /\ deployment' = IF n > 0 THEN None ELSE deployment
  /\ service' = (service /\ n < 2)
  /\ secret' = IF n > 2 THEN None ELSE secret

(* The resource is let go when all are deleted; a call that fails, this one *)
(* included, queues it again.                                               *)
Finalize ==
  /\ queued /\ run = Idle /\ resource # None /\ resource.deleting
  /\ \/ /\ finalizeChaincode(3) /\ resource' = None
        /\ queued' = FALSE /\ UNCHANGED fails
     \/ /\ \E n \in 0 .. 3 : finalizeChaincode(n)
        /\ Fault /\ UNCHANGED <<resource, queued>>
  /\ pods' = IF deployment' = None THEN None ELSE pods
  /\ UNCHANGED <<today, issued, status, run, edits, meddles>>

(* getCryptoMaterial up to the decision: the three parts being there        *)
(* settles it, whatever was found about the certificate's end before.  An   *)
(* error of the API other than not found leads to an enrollment as well.    *)
updateSecretData(s) == s = None \/ ~s.whole

GetSecret ==
  /\ At("clients")
  /\ \/ /\ ~run.spec.tls
        /\ Go("deployment") /\ UNCHANGED fails
     \/ /\ run.spec.tls
        /\ run' = [run EXCEPT !.pc      = IF updateSecretData(secret) THEN "enroll" ELSE "secret",
                              !.day     = today,
                              !.read    = secret,
                              !.updated = updateSecretData(secret),
                              !.cert    = secret]
        /\ UNCHANGED fails
     \/ /\ run.spec.tls /\ Fault
        /\ run' = [run EXCEPT !.pc = "enroll", !.unread = TRUE, !.updated = TRUE]
  /\ UNCHANGED <<world, resource, status, queued, objects>>

(* CreateChaincodeCryptoMaterial: the authority issues a certificate.       *)
Enroll ==
  /\ At("enroll")
  /\ issued' = issued + 1
  /\ IF run.unread
       THEN Fails(TRUE)
       ELSE run' = [run EXCEPT !.pc = "secret",
              !.cert = [serial |-> issued + 1, notAfter |-> today + Life, whole |-> TRUE]]
  /\ UNCHANGED <<today, pods, edits, meddles, resource, status, queued, objects, fails>>

(* Mutant: a secret that is there is left alone.                            *)
WrittenOnce(s) == IF s = None THEN run.cert ELSE s

Written(s) == run.cert

(* The secret is created, or updated also when nothing has changed; an      *)
(* update fails when the secret is not as it was read.                      *)
WriteSecret ==
  /\ At("secret")
  /\ IF secret = run.read
       THEN secret' = Written(secret) /\ Go("deployment")
       ELSE Fails(TRUE) /\ UNCHANGED secret
  /\ UNCHANGED <<world, resource, status, queued, deployment, service, fails>>

(* The annotation is set on a Deployment that exists, and only by the run   *)
(* that has renewed the certificate; the next one writes the template       *)
(* without it.                                                              *)
NewTemplate ==
  [image |-> run.spec.image, tls |-> run.spec.tls,
   stamp |-> IF deployment # None /\ run.updated THEN run.cert.serial ELSE 0]

(* Mutant: the Deployment that is there is kept.                            *)
ApplyOnce ==
  /\ At("deployment")
  /\ deployment' = IF deployment = None
                     THEN [selector |-> run.spec.labels, template |-> NewTemplate]
                     ELSE deployment
  /\ Go("service")
  /\ UNCHANGED <<world, resource, status, queued, secret, service, fails>>

ApplyDeployment ==
  /\ At("deployment")
  /\ IF (IF deployment = None THEN TRUE ELSE deployment.selector = run.spec.labels)
       THEN /\ deployment' = [selector |-> run.spec.labels, template |-> NewTemplate]
            /\ Go("service")
       ELSE Fails(TRUE) /\ UNCHANGED deployment
  /\ UNCHANGED <<world, resource, status, queued, secret, service, fails>>

(* A Service that had to be created is reported as FAILED, with no error.   *)
ApplyService ==
  /\ At("service")
  /\ service' = TRUE
  /\ IF service THEN run' = [run EXCEPT !.pc = "condition", !.goal = "RUNNING", !.err = FALSE]
                ELSE Fails(FALSE)
  /\ UNCHANGED <<world, resource, status, queued, secret, deployment, fails>>

(* A client, the template, the authority or a call to the API fails.        *)
CallFails ==
  /\ run.pc \in {"clients", "enroll", "secret", "deployment", "service"}
  /\ Fault /\ Fails(TRUE)
  /\ UNCHANGED <<world, resource, status, queued, objects>>

(* The operator stops; after the restart its informers list every resource. *)
Restart ==
  /\ run # Idle /\ Fault
  /\ run' = Idle /\ queued' = TRUE
  /\ UNCHANGED <<world, resource, status, objects>>

(* setConditionStatus: a new state is patched into the resource, whatever   *)
(* its version, and the outcome of the patch takes the place of the error.  *)
setConditionStatus ==
  /\ At("condition")
  /\ \/ /\ run.status.state = run.goal
        /\ run' = [run EXCEPT !.pc = "update",
                              !.status.message = IF run.err THEN "error" ELSE ""]
        /\ UNCHANGED <<status, queued, fails>>
     \/ /\ run.status.state # run.goal
        /\ status' = [status EXCEPT !.state = run.goal] /\ queued' = TRUE
        /\ run' = [run EXCEPT !.pc = "update", !.current = TRUE,
                              !.status = [state |-> run.goal, message |-> ""]]
        /\ UNCHANGED fails
     \/ /\ run.status.state # run.goal /\ Fault
        /\ run' = [run EXCEPT !.pc = "update",
                              !.status = [state |-> run.goal, message |-> "error"]]
        /\ UNCHANGED <<status, queued>>
  /\ UNCHANGED <<world, resource, objects>>

(* updateCRStatusOrFailReconcile: an update that fails is tried again, one  *)
(* that succeeds queues the resource only by the event of its change.       *)
updateCRStatusOrFailReconcile ==
  /\ At("update")
  /\ \/ /\ run.current
        /\ status' = run.status
        /\ queued' = (queued \/ status' # status)
        /\ UNCHANGED fails
     \/ /\ ~run.current \/ fails < MaxFails
        /\ fails' = IF run.current THEN fails + 1 ELSE fails
        /\ queued' = TRUE /\ UNCHANGED status
  /\ run' = Idle
  /\ UNCHANGED <<world, resource, objects>>

-----------------------------------------------------------------------------
Reconcile ==
  \/ Begin \/ Finalize \/ GetSecret \/ Enroll \/ WriteSecret \/ ApplyDeployment
  \/ ApplyService \/ setConditionStatus \/ updateCRStatusOrFailReconcile

Next ==
  \/ Create \/ Edit \/ Delete \/ Meddle \/ Tick \/ Resync \/ RollOut \/ Evict
  \/ Reconcile \/ CallFails \/ Restart

Spec == Init /\ [][Next]_vars

(* The worker goes on, the informers resync, Kubernetes rolls out.          *)
FairSpec == Spec /\ WF_vars(Reconcile) /\ WF_vars(Resync) /\ WF_vars(RollOut)

-----------------------------------------------------------------------------
(* Properties.                                                              *)

(* The variables stay in their ranges.                                      *)
TypeOK ==
  /\ today \in 0 .. MaxDay /\ issued \in Nat
  /\ resource \in Resource \cup {None}
  /\ status \in Status /\ queued \in BOOLEAN
  /\ run \in Run \cup {Idle}
  /\ secret \in Secret \cup {None}
  /\ deployment \in Deployment \cup {None} /\ service \in BOOLEAN
  /\ pods \in Pods \cup {None}
  /\ edits \in 0 .. MaxEdits /\ meddles \in 0 .. MaxMeddles /\ fails \in 0 .. MaxFails

(* When the resource is gone, so are its Deployment, Service and secret,    *)
(* whichever calls failed on the way and wherever the operator stopped: the *)
(* finalizer is there before the first of them and goes after the last      *)
(* (lines 74-129 and 275-295).                                              *)
NothingLeftBehind ==
  resource = None => deployment = None /\ ~service /\ secret = None

(* Pods that were started by the annotation updatedsecrettime serve the     *)
(* certificate it was set for or a later one, never the one that it         *)
(* replaced: the secret is written first (lines 225-256 and 532-552).       *)
StampedPodsServeNewCert ==
  pods # None => pods.template.stamp <= pods.serial

(* Once edits, interventions and faults have ended, the pods run what the   *)
(* resource asks for, unless its labels have been changed since the         *)
(* Deployment was made (lines 486-552): failures are retried although       *)
(* nothing is requeued after them (lines 616-623).                          *)
RolledOut ==
  <>[](/\ resource # None /\ ~resource.deleting
       /\ deployment # None => deployment.selector = resource.spec.labels
       => /\ pods # None
          /\ pods.template.image = resource.spec.image
          /\ pods.template.tls = resource.spec.tls)

(* A deleted resource goes away in the end.                                 *)
GoneInTheEnd == resource # None /\ resource.deleting ~> resource = None

(* After "renew certificates data if certificate is about to expire (7 days *)
(* before expiration)": the certificate that a reconcile goes on with is    *)
(* not about to expire on the day it was read.                              *)
RenewedInTime ==
  At("secret") => run.cert.notAfter >= run.day + Margin

=============================================================================
