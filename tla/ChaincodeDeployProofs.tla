----------------------- MODULE ChaincodeDeployProofs -------------------------
(***************************************************************************)
(* What the controller of FabricChaincode keeps for any chaincode, however  *)
(* many edits, interventions, failed calls and restarts there are.          *)
(*                                                                          *)
(* NothingLeftBehind needs Held: objects are made only under a finalizer,   *)
(* by a run that started with one.  StampedPodsServeNewCert needs Serials:  *)
(* how the certificates in the secret, in the Deployment's annotation and   *)
(* in the run that carries a new one compare, step by step.                 *)
(***************************************************************************)
EXTENDS ChaincodeDeploy, TLAPS

(* The certificate that a run carries is there when it is going to be used. *)
RunOK ==
  run # Idle =>
    /\ run.updated => run.spec.tls
    /\ At("clients") => run.updated = FALSE
    /\ At("enroll") => run.updated /\ run.spec.tls
    /\ At("secret") => run.cert # None
    /\ At("deployment") /\ run.updated => run.cert # None

Typed == TypeOK /\ RunOK

(* While anything exists, or a run is on, the resource has its finalizer.   *)
Guarded == resource # None /\ resource.finalizer
Held ==
  /\ run # Idle => Guarded
  /\ deployment # None \/ service \/ secret # None => Guarded

(* The annotation of the Deployment was set for a certificate that has been *)
(* issued, and the secret never holds an older one.                         *)
Stamp == deployment.template.stamp
Serials ==
  /\ secret # None => secret.serial <= issued
  /\ deployment # None =>
       /\ Stamp <= issued
       /\ ~deployment.template.tls => Stamp = 0
       /\ secret # None => Stamp <= secret.serial
  /\ At("secret") =>
       /\ run.cert.serial <= issued
       /\ deployment # None => Stamp <= run.cert.serial
  /\ At("deployment") /\ run.updated =>
       /\ run.cert.serial <= issued
       /\ secret # None => secret.serial = run.cert.serial

IInv == Typed /\ Held /\ Serials /\ StampedPodsServeNewCert

USE DEF At, objects, world

-----------------------------------------------------------------------------
(* Types.                                                                   *)

LEMMA IdleIsNoRun == Idle \notin Run
BY DEF Idle, Run, Pc

LEMMA NotIdle ==
  ASSUME Typed, run.pc # "idle"
  PROVE  run # Idle /\ run \in Run
BY DEF Idle, Typed, TypeOK

(* One more failure within the bound.                                       *)
LEMMA FaultTyped ==
  ASSUME Typed, Fault
  PROVE  fails' \in 0 .. MaxFails
BY DeployBounds DEF Fault, Typed, TypeOK

LEMMA InitTyped == Init => Typed
<1> SUFFICES ASSUME Init PROVE Typed
  OBVIOUS
<1>1. status \in Status
  BY DEF Init, Status, Blank
<1>2. today \in 0 .. MaxDay /\ edits \in 0 .. MaxEdits
  BY DayAssumption, DeployBounds DEF Init
<1>3. meddles \in 0 .. MaxMeddles /\ fails \in 0 .. MaxFails
  BY DeployBounds DEF Init
<1> QED
  BY <1>1, <1>2, <1>3 DEF Init, Typed, TypeOK, RunOK

(* What the administrators, time and Kubernetes do leaves a run as it is or *)
(* marks it as outdated.                                                    *)
LEMMA OutdatedTyped ==
  ASSUME Typed, Outdated
  PROVE  /\ run' \in Run \cup {Idle}
         /\ RunOK'
BY IdleIsNoRun DEF Typed, TypeOK, RunOK, Outdated, Run

LEMMA WorldTyped ==
  ASSUME Typed, Create \/ Edit \/ Delete \/ Meddle \/ Tick \/ Resync \/ RollOut \/ Evict
  PROVE  Typed'
<1> USE DayAssumption, DeployBounds DEF Typed, TypeOK
<1>1. CASE Create
  <2>1. resource' \in Resource
    BY <1>1 DEF Create, Resource
  <2>2. status' \in Status
    BY <1>1 DEF Create, Status, Blank
  <2> QED
    BY <1>1, <2>1, <2>2, OutdatedTyped DEF Create, Manage
<1>2. CASE Edit
  <2>1. resource' \in Resource
    BY <1>2 DEF Edit, Resource
  <2> QED
    BY <1>2, <2>1, OutdatedTyped DEF Edit, Manage
<1>3. CASE Delete
  <2>1. resource' \in Resource \cup {None}
    BY <1>3 DEF Delete, Resource
  <2>2. Manage /\ UNCHANGED status
    BY <1>3 DEF Delete
  <2>3. edits' \in 0 .. MaxEdits /\ run' \in Run \cup {Idle} /\ RunOK'
    BY <2>2, OutdatedTyped DEF Manage
  <2> QED
    BY <2>1, <2>2, <2>3 DEF Manage
<1>4. CASE Meddle
  <2>1. secret' \in Secret \cup {None}
    BY <1>4 DEF Meddle, Secret
  <2>2. deployment' \in Deployment \cup {None} /\ pods' \in Pods \cup {None} /\ service' \in BOOLEAN
    BY <1>4 DEF Meddle
  <2> QED
    BY <1>4, <2>1, <2>2 DEF Meddle, RunOK
<1>5. CASE Tick
  BY <1>5 DEF Tick, RunOK
<1>6. CASE Resync
  BY <1>6 DEF Resync, RunOK
<1>7. CASE RollOut \/ Evict
  <2>1. Started \in Pods
    BY <1>7, NoneAssumption DEF RollOut, Evict, Startable, Started, Pods, Deployment, Secret, Template
  <2> QED
    BY <1>7, <2>1 DEF RollOut, Evict, StartPods, RunOK
<1> QED
  BY <1>1, <1>2, <1>3, <1>4, <1>5, <1>6, <1>7

(* The forms in which a run is rewritten.                                   *)
LEMMA RunForms ==
  ASSUME NEW r \in Run, NEW pc \in Pc, NEW goal \in {"", "FAILED", "RUNNING"},
         NEW err \in BOOLEAN, NEW cert \in Secret \cup {None}
  PROVE  /\ [r EXCEPT !.pc = pc] \in Run
         /\ [r EXCEPT !.pc = pc, !.goal = goal, !.err = err] \in Run
         /\ [r EXCEPT !.pc = pc, !.cert = cert] \in Run
BY DEF Run

(* What a failing call leaves of a run.                                     *)
LEMMA FailsTyped ==
  ASSUME Typed, run # Idle, NEW err \in BOOLEAN, Fails(err)
  PROVE  run' \in Run /\ RunOK' /\ run'.pc = "condition"
<1>1. run \in Run
  BY DEF Typed, TypeOK
<1>2. run' \in Run
  BY <1>1, RunForms DEF Fails, Pc
<1>3. run'.pc = "condition" /\ run'.updated = run.updated /\ run'.spec = run.spec
  BY <1>1 DEF Fails, Run
<1> QED
  BY <1>2, <1>3 DEF Typed, RunOK

(* The first step of a run, and the steps of a deletion.                    *)
LEMMA BeginTyped ==
  ASSUME Typed, Begin
  PROVE  Typed'
<1>1. resource # None => resource.spec \in Asked /\ [resource EXCEPT !.finalizer = TRUE] \in Resource
  BY DEF Typed, TypeOK, Resource
<1>2. resource # None => Copy \in Run
  <2>1. 0 \in 0 .. MaxDay /\ status \in Status
    BY DayAssumption DEF Typed, TypeOK
  <2> QED
    BY <1>1, <2>1 DEF Copy, Run, Pc
<1>3. run' \in Run \cup {Idle} /\ resource' \in Resource \cup {None}
  BY <1>1, <1>2 DEF Begin, Typed, TypeOK
<1>4. queued' \in BOOLEAN
  BY DEF Begin, Typed, TypeOK
<1>5. fails' \in 0 .. MaxFails
  BY FaultTyped DEF Begin, Typed, TypeOK
<1>6. RunOK'
  <2>1. run' = Idle \/ run' = Copy
    BY DEF Begin
  <2>2. Copy.pc = "clients" /\ Copy.updated = FALSE
    BY DEF Copy
  <2> QED
    BY <2>1, <2>2 DEF RunOK
<1> QED
  BY <1>3, <1>4, <1>5, <1>6 DEF Begin, Typed, TypeOK

LEMMA FinalizeTyped ==
  ASSUME Typed, Finalize
  PROVE  Typed'
<1>1. deployment' \in {deployment, None} /\ service' \in BOOLEAN /\ secret' \in {secret, None}
  BY DEF Finalize, finalizeChaincode, Typed, TypeOK
<1>2. resource' \in {resource, None} /\ queued' \in BOOLEAN
  BY DEF Finalize, Typed, TypeOK
<1>3. fails' \in 0 .. MaxFails
  BY FaultTyped DEF Finalize, Typed, TypeOK
<1>4. pods' \in {pods, None} /\ UNCHANGED <<today, issued, status, run, edits, meddles>>
  BY DEF Finalize
<1> QED
  BY <1>1, <1>2, <1>3, <1>4 DEF Typed, TypeOK, RunOK

LEMMA GetSecretTyped ==
  ASSUME Typed, GetSecret
  PROVE  Typed'
<1>1. run # Idle /\ run \in Run
  BY NotIdle DEF GetSecret
<1>2. run' \in Run
  <2>1. CASE Go("deployment")
    BY <1>1, <2>1, RunForms DEF Go, Pc
  <2>2. CASE run' = [run EXCEPT !.pc      = IF updateSecretData(secret) THEN "enroll" ELSE "secret",
                                !.day     = today,
                                !.read    = secret,
                                !.updated = updateSecretData(secret),
                                !.cert    = secret]
    <3>1. updateSecretData(secret) \in BOOLEAN
      BY DEF updateSecretData, Typed, TypeOK, Secret
    <3>2. secret \in Secret \cup {None} /\ today \in 0 .. MaxDay
      BY DEF Typed, TypeOK
    <3> QED
      BY <1>1, <2>2, <3>1, <3>2 DEF Run, Pc
  <2>3. CASE run' = [run EXCEPT !.pc = "enroll", !.unread = TRUE, !.updated = TRUE]
    BY <1>1, <2>3 DEF Run, Pc
  <2> QED
    BY <2>1, <2>2, <2>3 DEF GetSecret
<1>3. RunOK'
  <2>1. CASE Go("deployment") /\ ~run.spec.tls
    BY <1>1, <2>1 DEF Go, Run, Typed, RunOK
  <2>2. CASE run.spec.tls /\ run'.updated = TRUE /\ run'.pc = "enroll" /\ run'.spec = run.spec
    BY <2>2 DEF RunOK
  <2>3. CASE /\ run.spec.tls /\ run'.updated = FALSE /\ run'.pc = "secret"
             /\ run'.spec = run.spec /\ run'.cert = secret /\ secret # None
    BY <2>3 DEF RunOK
  <2> QED
    BY <1>1, <2>1, <2>2, <2>3 DEF GetSecret, updateSecretData, Run
<1>4. fails' \in 0 .. MaxFails
  BY FaultTyped DEF GetSecret, Typed, TypeOK
<1> QED
  BY <1>2, <1>3, <1>4 DEF GetSecret, Typed, TypeOK

LEMMA EnrollTyped ==
  ASSUME Typed, Enroll
  PROVE  Typed'
<1> DEFINE new == [serial |-> issued + 1, notAfter |-> today + Life, whole |-> TRUE]
<1>1. run # Idle /\ run \in Run
  BY NotIdle DEF Enroll
<1>2. new \in Secret /\ new # None
  <2>1. issued + 1 \in Nat /\ today + Life \in Nat
    BY DayAssumption DEF Typed, TypeOK
  <2>2. new \in Secret
    BY <2>1 DEF Secret
  <2> QED
    BY <2>2, NoneAssumption
<1>3. run' \in Run /\ RunOK'
  <2>1. CASE run.unread
    BY <1>1, <2>1, FailsTyped DEF Enroll
  <2>2. CASE ~run.unread
    <3>1. run' = [run EXCEPT !.pc = "secret", !.cert = new]
      BY <2>2 DEF Enroll
    <3> HIDE DEF new
    <3>2. run' \in Run
      BY <1>1, <1>2, <3>1, RunForms DEF Pc
    <3>3. /\ run'.pc = "secret" /\ run'.cert = new
          /\ run'.updated = run.updated /\ run'.spec = run.spec
      BY <1>1, <3>1 DEF Run
    <3> QED
      BY <1>1, <1>2, <3>2, <3>3 DEF Typed, RunOK
  <2> QED
    BY <2>1, <2>2
<1>4. issued' \in Nat
  BY DEF Enroll, Typed, TypeOK
<1> QED
  BY <1>3, <1>4 DEF Enroll, Typed, TypeOK

(* The certificate that a run writes.                                       *)
LEMMA CertTyped ==
  ASSUME Typed, At("secret")
  PROVE  run.cert \in Secret
<1>1. run # Idle /\ run \in Run
  BY NotIdle
<1> QED
  BY <1>1 DEF Typed, RunOK, Run

(* A run that goes on keeps what it carries.                                *)
LEMMA GoTyped ==
  ASSUME Typed, run # Idle, NEW pc \in Pc, Go(pc),
         pc = "deployment" /\ run.updated => run.cert # None,
         pc \notin {"clients", "enroll", "secret"}
  PROVE  run' \in Run /\ RunOK'
<1>1. run \in Run
  BY DEF Typed, TypeOK
<1>2. run' \in Run
  BY <1>1, RunForms DEF Go
<1>3. /\ run'.pc = pc /\ run'.updated = run.updated /\ run'.spec = run.spec
      /\ run'.cert = run.cert
  BY <1>1 DEF Go, Run
<1> QED
  BY <1>2, <1>3 DEF Typed, RunOK

LEMMA WriteSecretTyped ==
  ASSUME Typed, WriteSecret
  PROVE  Typed'
<1>1. run # Idle /\ run \in Run
  BY NotIdle DEF WriteSecret
<1>2. run.cert \in Secret
  BY CertTyped DEF WriteSecret
<1>3. run' \in Run /\ RunOK' /\ secret' \in Secret \cup {None}
  <2>1. CASE secret = run.read
    <3>1. secret' = run.cert /\ Go("deployment")
      BY <2>1 DEF WriteSecret, Written
    <3> QED
      BY <1>1, <1>2, <3>1, GoTyped, NoneAssumption DEF Pc
  <2>2. CASE secret # run.read
    BY <1>1, <2>2, FailsTyped DEF WriteSecret, Typed, TypeOK
  <2> QED
    BY <2>1, <2>2
<1> QED
  BY <1>3 DEF WriteSecret, Typed, TypeOK

(* The template that a run writes.                                          *)
LEMMA TemplateTyped ==
  ASSUME Typed, At("deployment")
  PROVE  /\ [selector |-> run.spec.labels, template |-> NewTemplate] \in Deployment
         /\ run.updated => run.cert \in Secret
<1>1. run # Idle /\ run \in Run
  BY NotIdle
<1>2. run.updated => run.cert \in Secret
  BY <1>1 DEF Typed, RunOK, Run
<1>3. run.spec \in Asked
  BY <1>1 DEF Run
<1>4. NewTemplate \in Template
  BY <1>2, <1>3 DEF NewTemplate, Template, Asked, Secret
<1> QED
  BY <1>2, <1>3, <1>4 DEF Deployment, Asked

LEMMA ApplyDeploymentTyped ==
  ASSUME Typed, ApplyDeployment
  PROVE  Typed'
<1>1. run # Idle
  BY NotIdle DEF ApplyDeployment
<1>2. deployment' \in Deployment \cup {None}
  BY TemplateTyped DEF ApplyDeployment, Typed, TypeOK
<1>3. run' \in Run /\ RunOK'
  <2>1. CASE Go("service")
    BY <1>1, <2>1, GoTyped DEF Pc
  <2>2. CASE Fails(TRUE)
    BY <1>1, <2>2, FailsTyped
  <2> QED
    BY <2>1, <2>2 DEF ApplyDeployment
<1> QED
  BY <1>2, <1>3 DEF ApplyDeployment, Typed, TypeOK

LEMMA ApplyServiceTyped ==
  ASSUME Typed, ApplyService
  PROVE  Typed'
<1>1. run # Idle /\ run \in Run
  BY NotIdle DEF ApplyService
<1>2. run' \in Run /\ RunOK'
  <2>1. CASE service
    <3>1. run' = [run EXCEPT !.pc = "condition", !.goal = "RUNNING", !.err = FALSE]
      BY <2>1 DEF ApplyService
    <3>2. run' \in Run
      BY <1>1, <3>1, RunForms DEF Pc
    <3>3. run'.pc = "condition" /\ run'.updated = run.updated /\ run'.spec = run.spec
      BY <1>1, <3>1 DEF Run
    <3> QED
      BY <1>1, <3>2, <3>3 DEF Typed, RunOK
  <2>2. CASE ~service
    BY <1>1, <2>2, FailsTyped DEF ApplyService
  <2> QED
    BY <2>1, <2>2
<1> QED
  BY <1>2 DEF ApplyService, Typed, TypeOK

LEMMA InterruptedTyped ==
  ASSUME Typed, CallFails \/ Restart
  PROVE  Typed'
<1>1. CASE CallFails
  <2>1. run # Idle
    BY <1>1, NotIdle DEF CallFails
  <2>2. run' \in Run /\ RunOK'
    BY <1>1, <2>1, FailsTyped DEF CallFails
  <2>3. fails' \in 0 .. MaxFails
    BY <1>1, FaultTyped DEF CallFails
  <2> QED
    BY <1>1, <2>2, <2>3 DEF CallFails, Typed, TypeOK
<1>2. CASE Restart
  <2>1. fails' \in 0 .. MaxFails
    BY <1>2, FaultTyped DEF Restart
  <2> QED
    BY <1>2, <2>1 DEF Restart, Typed, TypeOK, RunOK
<1> QED
  BY <1>1, <1>2

LEMMA ReportTyped ==
  ASSUME Typed, setConditionStatus \/ updateCRStatusOrFailReconcile
  PROVE  Typed'
<1>1. run # Idle /\ run \in Run
  BY NotIdle DEF setConditionStatus, updateCRStatusOrFailReconcile
<1>2. run.status \in Status /\ run.goal \in {"", "FAILED", "RUNNING"}
  BY <1>1 DEF Run
<1>3. CASE setConditionStatus
  <2>1. PICK out \in Status, c \in BOOLEAN :
          run' = [run EXCEPT !.pc = "update", !.current = c, !.status = out]
    <3> USE DEF Status
    <3>1. CASE run' = [run EXCEPT !.pc = "update",
                         !.status.message = IF run.err THEN "error" ELSE ""]
      <4> DEFINE out == [run.status EXCEPT !.message = IF run.err THEN "error" ELSE ""]
      <4>1. out \in Status /\ run.current \in BOOLEAN
        BY <1>1, <1>2 DEF Run
      <4>2. run' = [run EXCEPT !.pc = "update", !.current = run.current, !.status = out]
        BY <1>1, <3>1 DEF Run
      <4> QED
        BY <4>1, <4>2
    <3>2. CASE run' = [run EXCEPT !.pc = "update", !.current = TRUE,
                         !.status = [state |-> run.goal, message |-> ""]]
      BY <1>1, <1>2, <3>2 DEF Run
    <3>3. CASE run' = [run EXCEPT !.pc = "update",
                         !.status = [state |-> run.goal, message |-> "error"]]
      BY <1>1, <1>2, <3>3 DEF Run
    <3> QED
      BY <1>3, <3>1, <3>2, <3>3 DEF setConditionStatus
  <2>2. run' \in Run
    BY <1>1, <2>1 DEF Run, Pc
  <2>3. run'.pc = "update" /\ run'.updated = run.updated /\ run'.spec = run.spec
    BY <1>1, <2>1 DEF Run
  <2>4. RunOK'
    BY <1>1, <2>3 DEF Typed, RunOK
  <2>5. status' \in Status /\ queued' \in BOOLEAN
    BY <1>2, <1>3 DEF setConditionStatus, Status, Typed, TypeOK
  <2>6. fails' \in 0 .. MaxFails
    BY <1>3, FaultTyped DEF setConditionStatus, Typed, TypeOK
  <2> QED
    BY <1>3, <2>2, <2>4, <2>5, <2>6 DEF setConditionStatus, Typed, TypeOK
<1>4. CASE updateCRStatusOrFailReconcile
  <2>1. status' \in Status /\ queued' \in BOOLEAN
    BY <1>2, <1>4 DEF updateCRStatusOrFailReconcile, Typed, TypeOK
  <2>2. fails' \in 0 .. MaxFails
    BY <1>4, DeployBounds DEF updateCRStatusOrFailReconcile, Typed, TypeOK
  <2> QED
    BY <1>4, <2>1, <2>2 DEF updateCRStatusOrFailReconcile, Typed, TypeOK, RunOK
<1> QED
  BY <1>3, <1>4

LEMMA NextTyped == Typed /\ [Next]_vars => Typed'
<1> SUFFICES ASSUME Typed, [Next]_vars PROVE Typed'
  OBVIOUS
<1>1. CASE UNCHANGED vars
  BY <1>1 DEF vars, Typed, TypeOK, RunOK
<1>2. CASE Next
  BY <1>2, WorldTyped, BeginTyped, FinalizeTyped, GetSecretTyped, EnrollTyped,
     WriteSecretTyped, ApplyDeploymentTyped, ApplyServiceTyped, ReportTyped,
     InterruptedTyped DEF Next, Reconcile
<1> QED
  BY <1>1, <1>2

-----------------------------------------------------------------------------
(* Nothing is left behind.                                                  *)

(* Steps that create no object, start no run and let go of no resource.     *)
LEMMA KeepsHeld ==
  ASSUME Held,
         run' # Idle => run # Idle,
         deployment' # None => deployment # None,
         service' => service,
         secret' # None => secret # None,
         Guarded => Guarded'
  PROVE  Held'
BY DEF Held

(* Steps of a run: the resource has its finalizer all the while.            *)
LEMMA RunKeepsHeld ==
  ASSUME Held, run # Idle, resource' = resource
  PROVE  Held'
BY DEF Held, Guarded

LEMMA NextHeld ==
  ASSUME Typed, Held, [Next]_vars
  PROVE  Held'
<1>1. CASE UNCHANGED vars
  BY <1>1 DEF vars, Held, Guarded
<1>2. CASE Create
  <2>1. run = Idle /\ run' = Idle /\ UNCHANGED objects
    BY <1>2 DEF Create, Manage, Outdated, Held, Guarded
  <2>2. deployment = None /\ ~service /\ secret = None
    BY <1>2 DEF Create, Held, Guarded
  <2> QED
    BY <2>1, <2>2 DEF Held
<1>3. CASE Edit
  <2>1. resource \in Resource /\ resource' \in Resource
    BY <1>3 DEF Edit, Typed, TypeOK, Resource
  <2>2. resource'.finalizer = resource.finalizer /\ resource' # None
    BY <1>3, <2>1, NoneAssumption DEF Edit, Resource
  <2> QED
    BY <1>3, <2>2, KeepsHeld DEF Edit, Manage, Outdated, Guarded
<1>4. CASE Delete
  <2>1. resource \in Resource
    BY <1>4 DEF Delete, Typed, TypeOK
  <2>2. CASE resource.finalizer
    <3>1. resource' \in Resource /\ resource'.finalizer = resource.finalizer
      BY <1>4, <2>1, <2>2 DEF Delete, Resource
    <3>2. resource' # None
      BY <3>1, NoneAssumption
    <3> QED
      BY <1>4, <3>1, <3>2, KeepsHeld DEF Delete, Manage, Outdated, Guarded
  <2>3. CASE ~resource.finalizer
    <3>1. run = Idle /\ deployment = None /\ ~service /\ secret = None
      BY <2>3 DEF Held, Guarded
    <3> QED
      BY <1>4, <3>1 DEF Delete, Manage, Outdated, Held
  <2> QED
    BY <2>2, <2>3
<1>5. CASE Meddle
  BY <1>5, KeepsHeld DEF Meddle, Guarded
<1>6. CASE Tick \/ Resync \/ RollOut \/ Evict
  BY <1>6, KeepsHeld DEF Tick, Resync, RollOut, Evict, StartPods, Guarded
<1>7. CASE Begin
  <2>1. UNCHANGED objects
    BY <1>7 DEF Begin
  <2>2. CASE run' = Idle /\ resource' = resource
    BY <2>1, <2>2, KeepsHeld DEF Guarded
  <2>3. CASE resource # None /\ resource' = [resource EXCEPT !.finalizer = TRUE]
    <3>1. resource \in Resource
      BY <2>3 DEF Typed, TypeOK
    <3>2. resource' \in Resource /\ resource'.finalizer
      BY <2>3, <3>1 DEF Resource
    <3>3. resource' # None
      BY <3>2, NoneAssumption
    <3> QED
      BY <3>2, <3>3 DEF Held, Guarded
  <2> QED
    BY <1>7, <2>2, <2>3 DEF Begin
<1>8. CASE Finalize
  <2>1. CASE finalizeChaincode(3) /\ resource' = None
    <3>1. deployment' = None /\ ~service' /\ secret' = None
      <4>1. 3 > 0 /\ ~(3 < 2) /\ 3 > 2
        OBVIOUS
      <4> QED
        BY <2>1, <4>1, Zenon DEF finalizeChaincode
    <3>2. run' = Idle
      BY <1>8 DEF Finalize
    <3> QED
      BY <3>1, <3>2 DEF Held
  <2>2. CASE resource' = resource /\ \E n \in 0 .. 3 : finalizeChaincode(n)
    <3>1. /\ deployment' # None => deployment # None
          /\ service' => service
          /\ secret' # None => secret # None
      BY <2>2 DEF finalizeChaincode
    <3> QED
      BY <1>8, <2>2, <3>1, KeepsHeld DEF Finalize, Guarded
  <2> QED
    BY <1>8, <2>1, <2>2 DEF Finalize
<1>9. CASE GetSecret \/ Enroll \/ WriteSecret \/ ApplyDeployment \/ ApplyService
             \/ CallFails \/ Restart
  <2>1. run # Idle
    BY <1>9, NotIdle DEF GetSecret, Enroll, WriteSecret, ApplyDeployment, ApplyService,
                         CallFails, Restart
  <2> QED
    BY <1>9, <2>1, RunKeepsHeld DEF GetSecret, Enroll, WriteSecret, ApplyDeployment,
                                    ApplyService, CallFails, Restart
<1>10. CASE setConditionStatus \/ updateCRStatusOrFailReconcile
  <2>1. run # Idle
    BY <1>10, NotIdle DEF setConditionStatus, updateCRStatusOrFailReconcile
  <2> QED
    BY <1>10, <2>1, RunKeepsHeld DEF setConditionStatus, updateCRStatusOrFailReconcile
<1> QED
  BY <1>1, <1>2, <1>3, <1>4, <1>5, <1>6, <1>7, <1>8, <1>9, <1>10 DEF Next, Reconcile

-----------------------------------------------------------------------------
(* Certificates and stamps.                                                 *)

(* Serials and stamps are numbers.                                          *)
LEMMA SerialTypes ==
  ASSUME Typed
  PROVE  /\ issued \in Nat
         /\ secret # None => secret.serial \in Nat
         /\ deployment # None => Stamp \in Nat /\ deployment.template.tls \in BOOLEAN
         /\ At("secret") \/ (At("deployment") /\ run.updated) => run.cert.serial \in Nat
<1>1. secret # None => secret.serial \in Nat
  BY DEF Typed, TypeOK, Secret
<1>2. deployment # None => Stamp \in Nat /\ deployment.template.tls \in BOOLEAN
  BY DEF Typed, TypeOK, Deployment, Template, Stamp
<1>3. At("secret") \/ (At("deployment") /\ run.updated) => run.cert \in Secret
  BY CertTyped, TemplateTyped
<1> QED
  BY <1>1, <1>2, <1>3 DEF Typed, TypeOK, Secret

(* Steps that issue and write no certificate and bring no run to where it   *)
(* would write one.                                                         *)
LEMMA KeepsSerials ==
  ASSUME Serials, issued' = issued, deployment' \in {deployment, None},
         secret' # None => secret # None /\ secret'.serial = secret.serial,
         run'.pc \in {"secret", "deployment"} =>
           run'.pc = run.pc /\ run'.cert = run.cert /\ run'.updated = run.updated
  PROVE  Serials'
BY DEF Serials, Stamp

(* The certificate of the secret is at least that of the annotation.        *)
LEMMA GetSecretSerials ==
  ASSUME Typed, Serials, GetSecret
  PROVE  Serials'
<1>1. run # Idle /\ run \in Run
  BY NotIdle DEF GetSecret
<1>2. UNCHANGED <<issued, secret, deployment>>
  BY DEF GetSecret
<1>3. CASE run'.pc = "enroll"
  BY <1>2, <1>3, KeepsSerials
<1>4. CASE run'.pc = "deployment" /\ run'.updated = FALSE
  BY <1>2, <1>4 DEF Serials, Stamp
<1>5. CASE run'.pc = "secret" /\ run'.cert = secret /\ secret # None
  BY <1>2, <1>5 DEF Serials, Stamp
<1>6. run.updated = FALSE
  BY <1>1 DEF GetSecret, Typed, RunOK
<1> QED
  BY <1>1, <1>3, <1>4, <1>5, <1>6 DEF GetSecret, Go, updateSecretData, Run

(* What the authority issues is newer than everything before.               *)
LEMMA EnrollSerials ==
  ASSUME Typed, Serials, Enroll
  PROVE  Serials'
<1>1. run # Idle /\ run \in Run
  BY NotIdle DEF Enroll
<1>2. issued' = issued + 1 /\ UNCHANGED <<secret, deployment>>
  BY DEF Enroll
<1>3. CASE run'.pc = "condition"
  BY <1>2, <1>3, SerialTypes DEF Serials, Stamp
<1>4. CASE run'.pc = "secret" /\ run'.cert.serial = issued + 1
  <2>1. deployment # None => Stamp \in Nat /\ Stamp <= issued + 1
    BY SerialTypes DEF Serials
  <2>2. secret # None => secret.serial <= issued + 1
    BY SerialTypes DEF Serials
  <2>3. Stamp' = Stamp
    BY <1>2 DEF Stamp
  <2> QED
    BY <1>2, <1>4, <2>1, <2>2, <2>3, SerialTypes DEF Serials
<1>5. CASE run.unread
  BY <1>1, <1>3, <1>5 DEF Enroll, Fails, Run
<1>6. CASE ~run.unread
  <2> DEFINE new == [serial |-> issued + 1, notAfter |-> today + Life, whole |-> TRUE]
  <2>1. run' = [run EXCEPT !.pc = "secret", !.cert = new] /\ new.serial = issued + 1
    BY <1>6 DEF Enroll
  <2> HIDE DEF new
  <2> QED
    BY <1>1, <1>4, <2>1 DEF Run
<1> QED
  BY <1>5, <1>6

(* The secret is written before the annotation is set for it.               *)
LEMMA WriteSecretSerials ==
  ASSUME Typed, Serials, WriteSecret
  PROVE  Serials'
<1>1. run # Idle /\ run \in Run
  BY NotIdle DEF WriteSecret
<1>2. CASE secret = run.read
  <2>1. /\ secret' = run.cert /\ UNCHANGED <<issued, deployment>>
        /\ run'.pc = "deployment" /\ run'.cert = run.cert
    BY <1>1, <1>2 DEF WriteSecret, Written, Go, Run
  <2> QED
    BY <2>1 DEF WriteSecret, Serials, Stamp
<1>3. CASE secret # run.read
  <2>1. UNCHANGED <<issued, secret, deployment>> /\ run'.pc = "condition"
    BY <1>1, <1>3 DEF WriteSecret, Fails, Run
  <2> QED
    BY <2>1, KeepsSerials
<1> QED
  BY <1>2, <1>3

(* The annotation is set for the certificate that the run has written.      *)
LEMMA ApplyDeploymentSerials ==
  ASSUME Typed, Serials, ApplyDeployment
  PROVE  Serials'
<1>1. run # Idle /\ run \in Run
  BY NotIdle DEF ApplyDeployment
<1>2. UNCHANGED <<issued, secret>> /\ run'.pc \in {"service", "condition"}
  BY <1>1 DEF ApplyDeployment, Go, Fails, Run
<1>3. CASE deployment' = deployment
  BY <1>2, <1>3, KeepsSerials
<1>4. CASE deployment' = [selector |-> run.spec.labels, template |-> NewTemplate]
  <2>1. /\ deployment'.template.tls = run.spec.tls
        /\ \/ Stamp' = 0
           \/ run.updated /\ Stamp' = run.cert.serial
    BY <1>4 DEF NewTemplate, Stamp
  <2>2. run.updated => run.spec.tls
    BY <1>1 DEF Typed, RunOK
  <2>3. At("deployment")
    BY DEF ApplyDeployment
  <2> QED
    BY <1>2, <2>1, <2>2, <2>3, SerialTypes DEF Serials
<1> QED
  BY <1>3, <1>4 DEF ApplyDeployment

LEMMA NextSerials ==
  ASSUME Typed, Serials, [Next]_vars
  PROVE  Serials'
<1>1. CASE UNCHANGED vars
  BY <1>1, KeepsSerials DEF vars
<1>2. CASE Create \/ Edit \/ Delete
  <2>1. Manage
    BY <1>2 DEF Create, Edit, Delete
  <2>2. run'.pc = run.pc /\ run'.cert = run.cert /\ run'.updated = run.updated
    <3>1. CASE run = Idle
      BY <2>1, <3>1 DEF Manage, Outdated
    <3>2. CASE run # Idle
      BY <2>1, <3>2 DEF Manage, Outdated, Typed, TypeOK, Run
    <3> QED
      BY <3>1, <3>2
  <2> QED
    BY <2>1, <2>2, KeepsSerials DEF Manage
<1>3. CASE Meddle
  <2>1. secret' # None => secret # None /\ secret'.serial = secret.serial
    BY <1>3 DEF Meddle, Typed, TypeOK, Secret
  <2> QED
    BY <1>3, <2>1, KeepsSerials DEF Meddle
<1>4. CASE Tick \/ Resync \/ RollOut \/ Evict
  BY <1>4, KeepsSerials DEF Tick, Resync, RollOut, Evict, StartPods
<1>5. CASE Begin
  <2>1. run' = run \/ run'.pc = "clients"
    <3>1. Copy.pc = "clients"
      BY DEF Copy
    <3> QED
      BY <1>5, <3>1 DEF Begin
  <2> QED
    BY <1>5, <2>1, KeepsSerials DEF Begin
<1>6. CASE Finalize
  BY <1>6, KeepsSerials DEF Finalize, finalizeChaincode
<1>7. CASE ApplyService \/ CallFails \/ Restart
  <2>1. run' = Idle \/ run'.pc = "condition"
    <3>1. run # Idle
      BY <1>7, NotIdle DEF ApplyService, CallFails, Restart
    <3>2. run \in Run
      BY <3>1 DEF Typed, TypeOK
    <3> QED
      BY <1>7, <3>2 DEF ApplyService, CallFails, Restart, Fails, Run
  <2>2. run'.pc \notin {"secret", "deployment"}
    BY <2>1 DEF Idle
  <2> QED
    BY <1>7, <2>2, KeepsSerials DEF ApplyService, CallFails, Restart
<1>8. CASE setConditionStatus \/ updateCRStatusOrFailReconcile
  <2>1. run' = Idle \/ run'.pc = "update"
    <3>1. run # Idle /\ run \in Run
      BY <1>8, NotIdle DEF setConditionStatus, updateCRStatusOrFailReconcile
    <3> QED
      BY <1>8, <3>1 DEF setConditionStatus, updateCRStatusOrFailReconcile, Run
  <2>2. run'.pc \notin {"secret", "deployment"}
    BY <2>1 DEF Idle
  <2> QED
    BY <1>8, <2>2, KeepsSerials DEF setConditionStatus, updateCRStatusOrFailReconcile
<1> QED
  BY <1>1, <1>2, <1>3, <1>4, <1>5, <1>6, <1>7, <1>8, GetSecretSerials, EnrollSerials,
     WriteSecretSerials, ApplyDeploymentSerials DEF Next, Reconcile

LEMMA NextStamped ==
  ASSUME Typed, Serials, StampedPodsServeNewCert, [Next]_vars
  PROVE  StampedPodsServeNewCert'
<1> USE DEF StampedPodsServeNewCert
<1>1. CASE RollOut \/ Evict
  <2>1. Startable /\ pods' = Started
    BY <1>1 DEF RollOut, Evict, StartPods
  <2>2. pods'.template.stamp = Stamp
    BY <2>1 DEF Started, Stamp
  <2>3. pods'.serial = IF deployment.template.tls THEN secret.serial ELSE 0
    BY <2>1 DEF Started
  <2> QED
    BY <2>1, <2>2, <2>3, SerialTypes DEF Startable, Serials
<1>2. CASE Meddle \/ Finalize
  BY <1>2 DEF Meddle, Finalize
<1>3. CASE ~(RollOut \/ Evict \/ Meddle \/ Finalize)
  <2>1. pods' = pods
    BY <1>3 DEF Next, Reconcile, vars, Create, Edit, Delete, Manage, Tick, Resync, Begin,
       GetSecret, Enroll, WriteSecret, ApplyDeployment, ApplyService, setConditionStatus,
       updateCRStatusOrFailReconcile, CallFails, Restart
  <2> QED
    BY <2>1
<1> QED
  BY <1>1, <1>2, <1>3

-----------------------------------------------------------------------------
(* The invariant.                                                           *)

(* Everything the controller keeps, for any images, labels and bounds.      *)
THEOREM DeployInvariant == Spec => []IInv
<1>1. Init => IInv
  <2> SUFFICES ASSUME Init PROVE IInv
    OBVIOUS
  <2>1. Held
    BY DEF Init, Held
  <2>2. Serials
    BY DEF Init, Serials, Idle
  <2>3. StampedPodsServeNewCert
    BY DEF Init, StampedPodsServeNewCert
  <2> QED
    BY <2>1, <2>2, <2>3, InitTyped DEF IInv
<1>2. IInv /\ [Next]_vars => IInv'
  BY NextTyped, NextHeld, NextSerials, NextStamped DEF IInv
<1> QED
  BY <1>1, <1>2, PTL DEF Spec

(* The variables stay in their ranges.                                      *)
THEOREM DeployTypes == Spec => []TypeOK
<1>1. IInv => TypeOK
  BY DEF IInv, Typed
<1> QED
  BY <1>1, DeployInvariant, PTL

(* A resource is gone only after its Deployment, its Service and its secret, *)
(* whichever calls failed and wherever the operator stopped (chaincode      *)
(* deployment controller, lines 74-129 and 275-295).                        *)
THEOREM DeletionIsComplete == Spec => []NothingLeftBehind
<1>1. IInv => NothingLeftBehind
  BY DEF IInv, Held, Guarded, NothingLeftBehind
<1> QED
  BY <1>1, DeployInvariant, PTL

(* Pods started by the annotation updatedsecrettime serve the certificate   *)
(* it was set for or a later one (lines 225-256 and 532-552).               *)
THEOREM RestartedPodsServeNewCert == Spec => []StampedPodsServeNewCert
<1>1. IInv => StampedPodsServeNewCert
  BY DEF IInv
<1> QED
  BY <1>1, DeployInvariant, PTL

=============================================================================
