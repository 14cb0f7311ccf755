---------------------- MODULE ChaincodeLifecycleProofs ------------------------
(***************************************************************************)
(* What the approve and commit controllers keep on every channel: for any   *)
(* organizations, packages and parameters, and any number of edits, failed  *)
(* calls, lost answers and restarts.                                        *)
(*                                                                          *)
(* ApprovalStands and CommitStands hold under what the runs                 *)
(* lifecycle_params and lifecycle_early give up: a single set of            *)
(* parameters, a committer whose administrator coordinates.  What RUNNING   *)
(* stands for without either is RunningIsReached.                           *)
(***************************************************************************)
EXTENDS ChaincodeLifecycle, TLAPS

(* setConditionStatus is called with one of two states.                     *)
Reporting == \A r \in Resources : At(r, "condition") => run[r].goal \in {"FAILED", "RUNNING"}

Typed == TypeOK /\ Reporting

USE DEF At, Ask, channel, cluster, bounds

-----------------------------------------------------------------------------
(* Runs.                                                                    *)

LEMMA SetupTypes ==
  ASSUME Typed
  PROVE  /\ Committer \notin Orgs /\ Orgs # {} /\ Packages # {}
         /\ MaxEdits \in Nat /\ MaxFails \in Nat /\ MaxSeq \in Nat \ {0}
BY SetupsAssumption, SequenceBound
   DEF Typed, TypeOK, Orgs, Packages, MaxEdits, MaxFails

(* What a resource that is being reconciled has.                            *)
LEMMA RunTypes ==
  ASSUME Typed, NEW r \in Resources, run[r].pc # "idle"
  PROVE  /\ run[r] # Idle /\ run[r] \in Run
         /\ run[r].spec.sequence \in 1 .. MaxSeq
         /\ run[r].spec.params \in Params /\ run[r].spec.package \in Packages
         /\ run[r].status \in Status
<1>1. run[r] # Idle /\ run[r] \in Run
  BY DEF Typed, TypeOK, Idle
<1> QED
  BY <1>1 DEF Run, Definition

(* A step keeps the setup, and runs stay in their ranges.                   *)
SetupKept ==
  /\ Orgs' = Orgs /\ Resources' = Resources /\ Packages' = Packages
  /\ Run' = Run /\ Definition' = Definition /\ Approval' = Approval
  /\ MaxEdits' = MaxEdits /\ MaxFails' = MaxFails /\ setup' = setup

RunsTyped ==
  /\ run' \in [Resources -> Run \cup {Idle}]
  /\ Reporting'
  /\ (~ At(Committer, "query") /\ ~ At(Committer, "approve"))'
  /\ (\A o \in Orgs : ~ At(o, "commit"))'

LEMMA KeepsSetup ==
  ASSUME setup' = setup
  PROVE  SetupKept
<1>1. /\ Orgs' = Orgs /\ Resources' = Resources /\ Packages' = Packages
      /\ MaxEdits' = MaxEdits /\ MaxFails' = MaxFails
  BY DEF Orgs, Resources, Packages, MaxEdits, MaxFails
<1>2. Definition' = Definition /\ Approval' = Approval
  BY <1>1 DEF Definition, Approval
<1>3. Run' = Run
  BY <1>2 DEF Run
<1> QED
  BY <1>1, <1>2, <1>3 DEF SetupKept

LEMMA KeepsRuns ==
  ASSUME Typed, setup' = setup, run' = run
  PROVE  RunsTyped
BY KeepsSetup DEF SetupKept, RunsTyped, Typed, TypeOK, Reporting

(* What the run of r may become.                                            *)
LEMMA StepTyped ==
  ASSUME Typed, NEW r \in Resources, NEW new \in Run \cup {Idle},
         setup' = setup, run' = [run EXCEPT ![r] = new],
         r = Committer => new.pc \notin {"query", "approve"},
         r # Committer => new.pc # "commit",
         new.pc = "condition" => new.goal \in {"FAILED", "RUNNING"}
  PROVE  RunsTyped
<1>1. SetupKept
  BY KeepsSetup
<1>2. run \in [Resources -> Run \cup {Idle}] /\ Committer \in Resources
  BY DEF Typed, TypeOK, Resources
<1>3. run'[r] = new /\ \A q \in Resources \ {r} : run'[q] = run[q]
  BY <1>2
<1>4. \A o \in Orgs : o \in Resources /\ o # Committer
  BY SetupTypes DEF Resources
<1> QED
  BY <1>1, <1>2, <1>3, <1>4 DEF SetupKept, RunsTyped, Typed, TypeOK, Reporting

(* The forms in which a run in progress is rewritten.                       *)
LEMMA GoTyped ==
  ASSUME Typed, NEW r \in Resources, run[r].pc # "idle", setup' = setup,
         NEW pc \in Pc \ {"condition"}, Go(r, pc),
         r = Committer => pc \notin {"query", "approve"},
         r # Committer => pc # "commit"
  PROVE  RunsTyped
<1> DEFINE new == [run[r] EXCEPT !.pc = pc]
<1>1. new \in Run /\ new.pc = pc
  BY RunTypes DEF Run
<1>2. run' = [run EXCEPT ![r] = new]
  BY DEF Go
<1> QED
  BY <1>1, <1>2, StepTyped

LEMMA ConditionTyped ==
  ASSUME Typed, NEW r \in Resources, run[r].pc # "idle", setup' = setup,
         NEW s \in {"FAILED", "RUNNING"}, Condition(r, s)
  PROVE  RunsTyped
<1> DEFINE new == [run[r] EXCEPT !.pc = "condition", !.goal = s]
<1>1. new \in Run /\ new.pc = "condition" /\ new.goal = s
  BY RunTypes DEF Run, Pc
<1>2. run' = [run EXCEPT ![r] = new]
  BY DEF Condition
<1> QED
  BY <1>1, <1>2, StepTyped

LEMMA RunningTyped ==
  ASSUME Typed, NEW r \in Resources, run[r].pc # "idle", setup' = setup,
         NEW m \in {"approved", "already committed", "committed"}, Running(r, m)
  PROVE  RunsTyped
<1> DEFINE told == [state |-> "RUNNING", running |-> "True", message |-> m]
           new  == [run[r] EXCEPT !.pc = "update", !.status = told]
<1>1. told \in Status
  BY DEF Status
<1>2. run' = [run EXCEPT ![r] = new]
  BY DEF Running
<1> HIDE DEF told
<1>3. new \in Run /\ new.pc = "update"
  BY <1>1, RunTypes DEF Run, Pc
<1> QED
  BY <1>2, <1>3, StepTyped

-----------------------------------------------------------------------------
(* Types.                                                                   *)

LEMMA InitTyped == Init => Typed
<1> SUFFICES ASSUME Init PROVE Typed
  OBVIOUS
<1>1. setup \in Setups /\ MaxEdits \in Nat /\ MaxFails \in Nat /\ Packages # {}
  BY SetupsAssumption DEF Init, MaxEdits, MaxFails, Packages
<1>2. First(Params) \in Params /\ First(Packages) \in Packages
  BY <1>1, ParamsAssumption DEF First
<1>3. [sequence |-> 1, params |-> First(Params), package |-> First(Packages)] \in Definition
  BY <1>2, SequenceBound DEF Definition
<1>4. Blank \in Status
  BY DEF Blank, Status
<1>5. /\ defined \in Seq(Params) /\ Len(defined) = 0
      /\ 0 \in 0 .. MaxSeq /\ edits \in 0 .. MaxEdits /\ fails \in 0 .. MaxFails
  BY <1>1, SequenceBound DEF Init
<1>6. run = [r \in Resources |-> Idle] /\ Idle.pc = "idle"
  BY DEF Init, Idle
<1>7. \A o \in Orgs : o \in Resources
  BY DEF Resources
<1>8. Committer \in Resources
  BY DEF Resources
<1>9. approved \in [Orgs -> [1 .. MaxSeq -> Approval \cup {None}]]
  BY DEF Init
<1>10. height \in [Orgs -> 0 .. MaxSeq] /\ \A o \in Orgs : height[o] <= Len(defined)
  BY <1>5 DEF Init
<1>11. spec \in [Resources -> Definition] /\ status \in [Resources -> Status]
  BY <1>3, <1>4 DEF Init
<1>12. run \in [Resources -> Run \cup {Idle}] /\ queued \subseteq Resources
  BY <1>6 DEF Init
<1>13. /\ \A r \in Resources : run[r].pc = "idle"
       /\ ~ At(Committer, "query") /\ ~ At(Committer, "approve")
       /\ \A o \in Orgs : ~ At(o, "commit")
  BY <1>6, <1>7, <1>8
<1> QED
  BY <1>1, <1>5, <1>9, <1>10, <1>11, <1>12, <1>13 DEF Typed, TypeOK, Reporting

(* A failure within the bound.                                              *)
LEMMA CountTyped ==
  ASSUME Typed, setup' = setup, fails' = fails \/ (fails < MaxFails /\ fails' = fails + 1)
  PROVE  fails' \in 0 .. MaxFails
BY SetupTypes DEF Typed, TypeOK

LEMMA EditTyped ==
  ASSUME Typed, NEW r \in Resources, Edit(r), setup' = setup
  PROVE  Typed'
<1>1. SetupKept
  BY KeepsSetup
<1>2. spec' \in [Resources -> Definition]
  BY DEF Edit, Typed, TypeOK
<1>3. RunsTyped
  <2>1. CASE run[r] = Idle
    BY <2>1, KeepsRuns DEF Edit
  <2>2. CASE run[r] # Idle
    <3> DEFINE new == [run[r] EXCEPT !.current = FALSE]
    <3>1. run[r] \in Run /\ run' = [run EXCEPT ![r] = new]
      BY <2>2 DEF Edit, Typed, TypeOK
    <3>2. new \in Run /\ new.pc = run[r].pc /\ new.goal = run[r].goal
      BY <3>1 DEF Run
    <3>3. /\ r = Committer => new.pc \notin {"query", "approve"}
          /\ r # Committer => new.pc # "commit"
          /\ new.pc = "condition" => new.goal \in {"FAILED", "RUNNING"}
      BY <3>2 DEF Typed, TypeOK, Resources, Reporting
    <3> HIDE DEF new
    <3> QED
      BY <3>1, <3>2, <3>3, StepTyped
  <2> QED
    BY <2>1, <2>2
<1>4. edits' \in 0 .. MaxEdits /\ queued' \subseteq Resources
  BY SetupTypes DEF Edit, Typed, TypeOK
<1>5. UNCHANGED <<defined, approved, height, status, fails>>
  BY DEF Edit
<1> QED
  BY <1>1, <1>2, <1>3, <1>4, <1>5 DEF SetupKept, RunsTyped, Typed, TypeOK

LEMMA DeliverTyped ==
  ASSUME Typed, NEW o \in Orgs, Deliver(o), setup' = setup
  PROVE  Typed'
<1>1. SetupKept /\ RunsTyped
  BY KeepsSetup, KeepsRuns DEF Deliver
<1>2. Len(defined) \in Nat
  BY DEF Typed, TypeOK
<1>3. height' \in [Orgs -> 0 .. MaxSeq] /\ \A p \in Orgs : height'[p] <= Len(defined)
  BY <1>2, SetupTypes DEF Deliver, Typed, TypeOK
<1>4. UNCHANGED <<defined, approved, spec, status, queued, edits, fails>>
  BY DEF Deliver
<1> QED
  BY <1>1, <1>3, <1>4 DEF SetupKept, RunsTyped, Typed, TypeOK

(* Steps of a run that change nothing but the run and the failures.         *)
LEMMA PrivateTyped ==
  ASSUME Typed, setup' = setup, RunsTyped,
         UNCHANGED <<defined, approved, height, spec, status, edits>>,
         queued' \subseteq Resources,
         fails' = fails \/ (fails < MaxFails /\ fails' = fails + 1)
  PROVE  Typed'
BY KeepsSetup, CountTyped DEF SetupKept, RunsTyped, Typed, TypeOK

LEMMA BeginTyped ==
  ASSUME Typed, NEW r \in Resources, Begin(r), setup' = setup
  PROVE  Typed'
<1> DEFINE new == [pc |-> "clients", spec |-> spec[r], current |-> TRUE,
                   status |-> status[r], goal |-> ""]
<1>1. spec[r] \in Definition /\ status[r] \in Status
  BY DEF Typed, TypeOK
<1>2. new \in Run /\ new.pc = "clients"
  BY <1>1 DEF Run, Pc
<1>3. run' = [run EXCEPT ![r] = new]
  BY DEF Begin
<1> HIDE DEF new
<1>4. RunsTyped
  BY <1>2, <1>3, StepTyped
<1> QED
  BY <1>4, PrivateTyped DEF Begin, Typed, TypeOK

LEMMA InterruptedTyped ==
  ASSUME Typed, NEW r \in Resources, CallFails(r) \/ Restart(r), setup' = setup
  PROVE  Typed'
<1>1. CASE CallFails(r)
  BY <1>1, ConditionTyped, PrivateTyped DEF CallFails, Fail, Typed, TypeOK
<1>2. CASE Restart(r)
  <2>1. RunsTyped
    BY <1>2, StepTyped DEF Restart, Idle
  <2> QED
    BY <1>2, <2>1, PrivateTyped DEF Restart, Typed, TypeOK
<1> QED
  BY <1>1, <1>2

(* Reporting: the status that a run writes is one.                          *)
LEMMA setConditionStatusTyped ==
  ASSUME Typed, NEW r \in Resources, setConditionStatus(r), setup' = setup
  PROVE  Typed'
<1> DEFINE p   == run[r].status
           fresh == p.state # run[r].goal
           out == [state   |-> run[r].goal,
                   running |-> IF run[r].goal = "RUNNING" THEN "False" ELSE p.running,
                   message |-> CASE fresh                   -> status[r].message
                                 [] run[r].goal = "FAILED"  -> "error"
                                 [] run[r].goal = "RUNNING" -> "already approved"]
           new == [run[r] EXCEPT !.pc = "update", !.status = out, !.current = @ \/ fresh]
<1>1. run[r] \in Run /\ p \in Status /\ run[r].goal \in {"FAILED", "RUNNING"}
  BY RunTypes DEF setConditionStatus, Typed, Reporting
<1>2. status[r] \in Status
  BY DEF Typed, TypeOK
<1>3. out \in Status
  <2>1. out.message \in {"", "error", "approved", "already approved",
                         "already committed", "committed"}
    <3>1. CASE fresh
      BY <1>2, <3>1 DEF Status
    <3>2. CASE ~fresh /\ run[r].goal = "FAILED"
      BY <3>2
    <3>3. CASE ~fresh /\ run[r].goal = "RUNNING"
      BY <3>3
    <3> QED
      BY <1>1, <3>1, <3>2, <3>3
  <2>2. out.running \in {"", "True", "False"}
    BY <1>1 DEF Status
  <2> QED
    BY <1>1, <2>1, <2>2 DEF Status
<1>4. run' = [run EXCEPT ![r] = new]
  BY DEF setConditionStatus
<1>5. new \in Run /\ new.pc = "update"
  <2>1. (run[r].current \/ fresh) \in BOOLEAN
    BY <1>1 DEF Run
  <2> HIDE DEF out, fresh
  <2> QED
    BY <1>1, <1>3, <2>1 DEF Run, Pc
<1>6. RunsTyped
  <2> HIDE DEF new
  <2> QED
    BY <1>4, <1>5, StepTyped
<1>7. status' \in [Resources -> Status]
  <2>1. [status[r] EXCEPT !.state = run[r].goal] \in Status
    BY <1>1, <1>2 DEF Status
  <2>2. status' = status \/ status' = [status EXCEPT ![r] = [status[r] EXCEPT !.state = run[r].goal]]
    BY DEF setConditionStatus
  <2> QED
    BY <2>1, <2>2 DEF Typed, TypeOK
<1>8. queued' \subseteq Resources
  BY DEF setConditionStatus, Typed, TypeOK
<1>9. UNCHANGED <<defined, approved, height, spec, edits, fails>>
  BY DEF setConditionStatus
<1> QED
  BY <1>6, <1>7, <1>8, <1>9, KeepsSetup DEF SetupKept, RunsTyped, Typed, TypeOK

LEMMA PatchFailsTyped ==
  ASSUME Typed, NEW r \in Resources, PatchFails(r), setup' = setup
  PROVE  Typed'
<1> DEFINE out == [run[r].status EXCEPT !.state = run[r].goal, !.message = "error",
                     !.running = IF run[r].goal = "RUNNING" THEN "False" ELSE @]
           new == [run[r] EXCEPT !.pc = "update", !.status = out]
<1>1. run[r] \in Run /\ run[r].status \in Status /\ run[r].goal \in {"FAILED", "RUNNING"}
  BY RunTypes DEF PatchFails, Typed, Reporting
<1>2. out \in Status
  BY <1>1 DEF Status
<1>3. run' = [run EXCEPT ![r] = new]
  BY <1>1 DEF PatchFails, Run, Status
<1>4. new \in Run /\ new.pc = "update"
  <2> HIDE DEF out
  <2> QED
    BY <1>1, <1>2 DEF Run, Pc
<1>5. RunsTyped
  <2> HIDE DEF new
  <2> QED
    BY <1>3, <1>4, StepTyped
<1> QED
  BY <1>5, PrivateTyped DEF PatchFails, Typed, TypeOK

LEMMA UpdateTyped ==
  ASSUME Typed, NEW r \in Resources, updateCRStatusOrFailReconcile(r), setup' = setup
  PROVE  Typed'
<1>1. run[r] \in Run /\ run[r].status \in Status /\ run[r].current \in BOOLEAN
  BY RunTypes DEF updateCRStatusOrFailReconcile, Run
<1>2. RunsTyped
  BY StepTyped DEF updateCRStatusOrFailReconcile, Idle
<1>3. status' \in [Resources -> Status] /\ queued' \subseteq Resources
  BY <1>1 DEF updateCRStatusOrFailReconcile, Typed, TypeOK
<1>4. fails' \in 0 .. MaxFails
  BY SetupTypes DEF updateCRStatusOrFailReconcile, Typed, TypeOK
<1>5. UNCHANGED <<defined, approved, height, spec, edits>>
  BY DEF updateCRStatusOrFailReconcile
<1> QED
  BY <1>2, <1>3, <1>4, <1>5, KeepsSetup DEF SetupKept, RunsTyped, Typed, TypeOK

(* The approve controller.                                                  *)
LEMMA QueryTyped ==
  ASSUME Typed, NEW o \in Orgs, setup' = setup,
         QueryCommitted(o) \/ QueryApproved(o) \/ QueryApprovedFails(o)
  PROVE  Typed'
<1>1. o \in Resources /\ o # Committer
  BY SetupTypes DEF Resources
<1>2. run[o].pc # "idle"
  BY DEF QueryCommitted, QueryApproved, QueryApprovedFails
<1>3. \/ Condition(o, "FAILED") \/ Condition(o, "RUNNING") \/ Running(o, "already committed")
      \/ Go(o, "query") \/ Go(o, "approve")
  BY DEF QueryCommitted, QueryApproved, QueryApprovedFails, Fail
<1>4. RunsTyped
  BY <1>1, <1>2, <1>3, ConditionTyped, RunningTyped, GoTyped DEF Pc
<1>5. UNCHANGED <<defined, approved, height, spec, status, queued, edits>>
  BY DEF QueryCommitted, QueryApproved, QueryApprovedFails
<1>6. fails' = fails \/ (fails < MaxFails /\ fails' = fails + 1)
  BY DEF QueryCommitted, QueryApproved, QueryApprovedFails
<1>7. queued' \subseteq Resources
  BY <1>5 DEF Typed, TypeOK
<1> QED
  BY <1>4, <1>5, <1>6, <1>7, PrivateTyped

LEMMA LifecycleApproveTyped ==
  ASSUME Typed, NEW o \in Orgs, LifecycleApproveCC(o), setup' = setup
  PROVE  Typed'
<1>1. o \in Resources /\ o # Committer /\ run[o].pc # "idle"
  BY SetupTypes DEF Resources, LifecycleApproveCC
<1>2. Condition(o, "FAILED") \/ Running(o, "approved")
  BY DEF LifecycleApproveCC, Fail
<1>3. RunsTyped
  BY <1>1, <1>2, ConditionTyped, RunningTyped
<1>4. approved' \in [Orgs -> [1 .. MaxSeq -> Approval \cup {None}]]
  <2>1. Asked(o) \in Approval /\ run[o].spec.sequence \in 1 .. MaxSeq
    BY <1>1, RunTypes DEF Asked, Approval
  <2>2. approved' = approved \/ WriteApproval(o)
    BY DEF LifecycleApproveCC
  <2>3. approved \in [Orgs -> [1 .. MaxSeq -> Approval \cup {None}]]
    BY DEF Typed, TypeOK
  <2>4. CASE WriteApproval(o)
    <3> DEFINE row == [approved[o] EXCEPT ![run[o].spec.sequence] = Asked(o)]
    <3>1. row \in [1 .. MaxSeq -> Approval \cup {None}]
      BY <2>1, <2>3
    <3>2. approved' = [approved EXCEPT ![o] = row]
      BY <2>4 DEF WriteApproval
    <3> HIDE DEF row
    <3> QED
      BY <2>3, <3>1, <3>2
  <2> QED
    BY <2>2, <2>3, <2>4
<1>5. fails' = fails \/ (fails < MaxFails /\ fails' = fails + 1)
  BY DEF LifecycleApproveCC
<1>6. UNCHANGED <<defined, height, spec, status, queued, edits>>
  BY DEF LifecycleApproveCC
<1> QED
  BY <1>3, <1>4, <1>5, <1>6, KeepsSetup, CountTyped DEF SetupKept, RunsTyped, Typed, TypeOK

(* The commit controller.                                                   *)
LEMMA CommitTyped ==
  ASSUME Typed, Commit, setup' = setup
  PROVE  Typed'
<1>1. Committer \in Resources /\ run[Committer].pc # "idle"
  BY DEF Commit, Prepare, LifecycleCommitCC, Resources
<1>2. CASE Prepare
  <2>1. RunsTyped
    BY <1>1, <1>2, GoTyped DEF Prepare, Pc
  <2> QED
    BY <1>2, <2>1, PrivateTyped DEF Prepare, Typed, TypeOK
<1>3. CASE LifecycleCommitCC
  <2>1. Condition(Committer, "FAILED") \/ Running(Committer, "committed")
    BY <1>3 DEF LifecycleCommitCC, Fail
  <2>2. RunsTyped
    BY <1>1, <2>1, ConditionTyped, RunningTyped
  <2>3. /\ defined' \in Seq(Params) /\ Len(defined') <= MaxSeq
        /\ Len(defined) <= Len(defined')
    <3>1. /\ run[Committer].spec.sequence \in 1 .. MaxSeq
          /\ run[Committer].spec.params \in Params
      BY <1>1, RunTypes
    <3>2. \/ defined' = defined
          \/ /\ run[Committer].spec.sequence = Len(defined) + 1
             /\ defined' = Append(defined, run[Committer].spec.params)
      BY <1>3 DEF LifecycleCommitCC
    <3>3. defined \in Seq(Params) /\ Len(defined) \in Nat /\ Len(defined) <= MaxSeq
      BY DEF Typed, TypeOK
    <3>4. CASE defined' = defined
      BY <3>3, <3>4
    <3>5. CASE /\ run[Committer].spec.sequence = Len(defined) + 1
               /\ defined' = Append(defined, run[Committer].spec.params)
      <4>1. defined' \in Seq(Params) /\ Len(defined') = Len(defined) + 1
        BY <3>1, <3>3, <3>5
      <4> QED
        BY <3>1, <3>3, <3>5, <4>1, SequenceBound
    <3> QED
      BY <3>2, <3>4, <3>5
  <2>4. fails' = fails \/ (fails < MaxFails /\ fails' = fails + 1)
    BY <1>3 DEF LifecycleCommitCC
  <2>5. UNCHANGED <<approved, height, spec, status, queued, edits>>
    BY <1>3 DEF LifecycleCommitCC
  <2>6. \A o \in Orgs : height[o] <= Len(defined')
    <3>1. Len(defined) \in Nat /\ Len(defined') \in Nat
      BY <2>3 DEF Typed, TypeOK
    <3> QED
      BY <2>3, <3>1 DEF Typed, TypeOK
  <2> QED
    BY <2>2, <2>3, <2>4, <2>5, <2>6, KeepsSetup, CountTyped
       DEF SetupKept, RunsTyped, Typed, TypeOK
<1> QED
  BY <1>2, <1>3 DEF Commit

LEMMA NextTyped == Typed /\ [Next]_vars => Typed'
<1> SUFFICES ASSUME Typed, [Next]_vars PROVE Typed'
  OBVIOUS
<1>1. CASE UNCHANGED vars
  BY <1>1, KeepsSetup, KeepsRuns DEF vars, SetupKept, RunsTyped, Typed, TypeOK
<1>2. CASE Next
  BY <1>2, EditTyped, BeginTyped, setConditionStatusTyped, UpdateTyped, InterruptedTyped,
     PatchFailsTyped, DeliverTyped, QueryTyped, LifecycleApproveTyped, CommitTyped
     DEF Next, Report, Fault, Approve
<1> QED
  BY <1>1, <1>2

-----------------------------------------------------------------------------
(* Retries.                                                                 *)

(* A run that ends leaves a failed resource in the queue.                   *)
LEMMA UpdateRetries ==
  ASSUME Typed, FailedIsRetried, NEW r \in Resources, updateCRStatusOrFailReconcile(r)
  PROVE  /\ status'[r].state = "FAILED" => r \in queued'
         /\ queued \subseteq queued'
         /\ \A q \in Resources \ {r} : status'[q] = status[q] /\ run'[q] = run[q]
<1>1. \A q \in Resources \ {r} : status'[q] = status[q] /\ run'[q] = run[q]
  BY DEF updateCRStatusOrFailReconcile, Typed, TypeOK
<1>2. run[r].current \in BOOLEAN
  BY RunTypes DEF updateCRStatusOrFailReconcile, Run
<1>3. PICK ok \in {run[r].current, FALSE} :
        /\ status' = IF ok THEN [status EXCEPT ![r] = run[r].status] ELSE status
        /\ queued' = IF Requeued(r, ~ok) THEN queued \cup {r} ELSE queued
  BY DEF updateCRStatusOrFailReconcile
<1>4. CASE ~ok
  <2>1. queued' = queued \cup {r}
    BY <1>3, <1>4 DEF Requeued
  <2> QED
    BY <1>1, <2>1
<1>5. CASE ok
  <2>1. status'[r] = run[r].status
    BY <1>3, <1>5 DEF Typed, TypeOK
  <2>2. run[r].status.state = "FAILED" => queued' = queued \cup {r}
    BY <1>3 DEF Requeued
  <2>3. queued \subseteq queued'
    BY <1>3
  <2> QED
    BY <1>1, <2>1, <2>2, <2>3
<1> QED
  BY <1>2, <1>4, <1>5

(* Every other step of r leaves it queued or in a run.                      *)
LEMMA NextRetries ==
  ASSUME Typed, Typed', FailedIsRetried, [Next]_vars
  PROVE  FailedIsRetried'
<1> USE DEF FailedIsRetried, Settled
<1>1. CASE UNCHANGED vars
  BY <1>1, KeepsSetup DEF vars, SetupKept
<1>2. ASSUME NEW r \in Resources, updateCRStatusOrFailReconcile(r), setup' = setup
      PROVE  FailedIsRetried'
  BY <1>2, UpdateRetries, KeepsSetup DEF SetupKept
<1>3. ASSUME NEW r \in Resources, setup' = setup,
             \A q \in Resources \ {r} : status'[q] = status[q] /\ run'[q] = run[q],
             queued \ {r} \subseteq queued', r \in queued' \/ run'[r] # Idle
      PROVE  FailedIsRetried'
  BY <1>3, KeepsSetup DEF SetupKept
<1>4. ASSUME setup' = setup, UNCHANGED <<status, queued, run>> PROVE FailedIsRetried'
  BY <1>4, KeepsSetup DEF SetupKept
<1>5. ASSUME NEW r \in Resources, setup' = setup, Edit(r) \/ Begin(r) \/ Restart(r)
      PROVE  FailedIsRetried'
  <2>1. \A q \in Resources \ {r} : status'[q] = status[q] /\ run'[q] = run[q]
    BY <1>5 DEF Edit, Begin, Restart, Typed, TypeOK
  <2>2. queued \ {r} \subseteq queued' /\ (r \in queued' \/ run'[r] # Idle)
    <3>1. CASE Edit(r)
      BY <3>1 DEF Edit
    <3>2. CASE Restart(r)
      BY <3>2 DEF Restart
    <3>3. CASE Begin(r)
      <4>1. run'[r].pc = "clients" /\ queued' = queued \ {r}
        BY <1>5, <3>3 DEF Begin, Typed, TypeOK
      <4> QED
        BY <4>1 DEF Idle
    <3> QED
      BY <1>5, <3>1, <3>2, <3>3
  <2> QED
    BY <1>3, <1>5, <2>1, <2>2
<1>6. ASSUME NEW r \in Resources, setup' = setup,
             setConditionStatus(r) \/ PatchFails(r) \/ CallFails(r)
      PROVE  FailedIsRetried'
  <2>1. \A q \in Resources \ {r} : status'[q] = status[q] /\ run'[q] = run[q]
    BY <1>6 DEF setConditionStatus, PatchFails, CallFails, Fail, Condition, Typed, TypeOK
  <2>2. run'[r].pc \in {"update", "condition"}
    <3>1. run[r] \in Run
      BY <1>6, RunTypes DEF setConditionStatus, PatchFails, CallFails
    <3> USE <3>1 DEF Run, Typed, TypeOK
    <3>2. CASE setConditionStatus(r)
      BY <1>6, <3>2 DEF setConditionStatus
    <3>3. CASE PatchFails(r)
      BY <1>6, <3>3 DEF PatchFails
    <3>4. CASE CallFails(r)
      BY <1>6, <3>4 DEF CallFails, Fail, Condition
    <3> QED
      BY <1>6, <3>2, <3>3, <3>4
  <2>3. queued \subseteq queued'
    BY <1>6 DEF setConditionStatus, PatchFails, CallFails
  <2> QED
    BY <1>3, <1>6, <2>1, <2>2, <2>3 DEF Idle
<1>7. ASSUME NEW o \in Orgs, setup' = setup, Deliver(o) PROVE FailedIsRetried'
  BY <1>4, <1>7 DEF Deliver
<1>8. ASSUME NEW r \in Resources, setup' = setup, run[r].pc # "idle",
             \/ Condition(r, "FAILED") \/ Condition(r, "RUNNING")
             \/ \E pc \in Pc : Go(r, pc)
             \/ \E m \in {"approved", "already committed", "committed"} : Running(r, m),
             UNCHANGED <<status, queued>>
      PROVE  FailedIsRetried'
  <2>1. run[r] \in Run
    BY <1>8, RunTypes
  <2>2. \A q \in Resources \ {r} : run'[q] = run[q]
    BY <1>8 DEF Condition, Go, Running, Typed, TypeOK
  <2>3. run'[r].pc \in Pc
    <3>1. DOMAIN run = Resources
      BY DEF Typed, TypeOK
    <3>2. DOMAIN run[r] = {"pc", "spec", "status", "current", "goal"}
      BY <2>1 DEF Run
    <3>3. CASE Condition(r, "FAILED") \/ Condition(r, "RUNNING")
      <4>1. run'[r].pc = "condition"
        BY <3>1, <3>2, <3>3 DEF Condition
      <4> QED
        BY <4>1 DEF Pc
    <3>4. ASSUME NEW pc \in Pc, Go(r, pc) PROVE run'[r].pc \in Pc
      BY <3>1, <3>2, <3>4 DEF Go
    <3>5. ASSUME NEW m \in {"approved", "already committed", "committed"}, Running(r, m)
          PROVE  run'[r].pc \in Pc
      <4>1. run'[r].pc = "update"
        BY <3>1, <3>2, <3>5 DEF Running
      <4> QED
        BY <4>1 DEF Pc
    <3> QED
      BY <1>8, <3>3, <3>4, <3>5
  <2>4. run'[r] # Idle
    BY <2>3 DEF Idle, Pc
  <2> QED
    BY <1>3, <1>8, <2>2, <2>4
<1>9. ASSUME NEW o \in Orgs, setup' = setup, Approve(o) \/ QueryApprovedFails(o)
      PROVE  FailedIsRetried'
  <2>1. o \in Resources /\ run[o].pc # "idle" /\ UNCHANGED <<status, queued>>
    BY <1>9 DEF Resources, Approve, QueryCommitted, QueryApproved, QueryApprovedFails,
                LifecycleApproveCC
  <2>2. \/ Condition(o, "FAILED") \/ Condition(o, "RUNNING") \/ Running(o, "already committed")
        \/ Running(o, "approved") \/ Go(o, "query") \/ Go(o, "approve")
    BY <1>9 DEF Approve, QueryCommitted, QueryApproved, QueryApprovedFails,
                LifecycleApproveCC, Fail
  <2> QED
    BY <1>8, <1>9, <2>1, <2>2 DEF Pc
<1>10. ASSUME setup' = setup, Commit PROVE FailedIsRetried'
  <2>1. Committer \in Resources /\ run[Committer].pc # "idle" /\ UNCHANGED <<status, queued>>
    BY <1>10 DEF Resources, Commit, Prepare, LifecycleCommitCC
  <2>2. \/ Condition(Committer, "FAILED") \/ Running(Committer, "committed")
        \/ Go(Committer, "commit")
    BY <1>10 DEF Commit, Prepare, LifecycleCommitCC, Fail
  <2> QED
    BY <1>8, <1>10, <2>1, <2>2 DEF Pc
<1> QED
  BY <1>1, <1>2, <1>5, <1>6, <1>7, <1>9, <1>10 DEF Next, Report, Fault

-----------------------------------------------------------------------------
(* What RUNNING stands for.                                                 *)

(* What a reconcile of r for the definition d has to bring about before it  *)
(* may report RUNNING, for any parameters and administrators: an approval   *)
(* of d's package, with whichever parameters it was made, or a definition   *)
(* at the peers that counts as done; a commit, when the committer's         *)
(* administrator coordinates.                                               *)
Reached(r, d) ==
  IF r = Committer
    THEN Committer \in Coordinated => d.sequence <= Len(defined)
    ELSE \/ /\ approved[r][d.sequence] \in Approval
            /\ approved[r][d.sequence].package = d.package
         \/ /\ height[r] >= d.sequence
            /\ d.sequence > 1 \/ defined[d.sequence] # d.params

(* What is known of a resource that is not queued: its run, if it has one,  *)
(* works for the current spec, and where that run or the status says        *)
(* RUNNING the spec is reached.                                             *)
Honest(r) ==
  /\ run[r] # Idle => run[r].spec = spec[r]
  /\ \/ run[r] = Idle /\ status[r].state = "RUNNING"
     \/ At(r, "condition") /\ run[r].goal = "RUNNING"
     \/ At(r, "update") /\ run[r].status.state = "RUNNING"
     => Reached(r, spec[r])

HonestRuns == \A r \in Resources : r \notin queued => Honest(r)

(* A coordinated committer never asks for a sequence that some peers are    *)
(* two behind.                                                              *)
InStep == Committer \in Coordinated => \A o \in Orgs : spec[Committer].sequence <= height[o] + 1

Claimed == HonestRuns /\ InStep

(* The channel only grows: what is reached stays so unless the organization *)
(* itself approves something else.                                          *)
Grows ==
  /\ \A o \in Orgs : height[o] <= height'[o]
  /\ Len(defined) <= Len(defined') /\ \A n \in 1 .. Len(defined) : defined'[n] = defined[n]

LEMMA ReachedKept ==
  ASSUME Typed, Typed', setup' = setup, Grows, NEW r \in Resources, NEW d \in Definition,
         r # Committer => approved'[r] = approved[r], Reached(r, d)
  PROVE  Reached(r, d)'
<1>1. SetupKept /\ Coordinated' = Coordinated
  BY KeepsSetup DEF Coordinated
<1>2. d.sequence \in 1 .. MaxSeq /\ MaxSeq \in Nat
  BY SetupTypes DEF Definition
<1>3. Len(defined) \in Nat /\ Len(defined') \in Nat
  BY DEF Typed, TypeOK
<1>4. CASE r = Committer
  BY <1>1, <1>2, <1>3, <1>4 DEF Reached, Grows
<1>5. CASE r # Committer
  <2>1. r \in Orgs /\ height[r] \in Nat /\ height'[r] \in Nat /\ height[r] <= Len(defined)
    BY <1>1, <1>5 DEF Resources, SetupKept, Typed, TypeOK
  <2>2. height[r] >= d.sequence => defined'[d.sequence] = defined[d.sequence]
    BY <1>2, <1>3, <2>1 DEF Grows
  <2> QED
    BY <1>1, <1>2, <1>5, <2>1, <2>2 DEF Reached, Grows, SetupKept
<1> QED
  BY <1>4, <1>5

(* A step for r leaves every other resource honest.                         *)
LEMMA OthersHonest ==
  ASSUME Typed, Typed', setup' = setup, HonestRuns, Grows, NEW r \in Resources,
         \A q \in Resources \ {r} :
           /\ run'[q] = run[q] /\ status'[q] = status[q] /\ spec'[q] = spec[q]
           /\ q # Committer => approved'[q] = approved[q],
         queued \ {r} \subseteq queued',
         r \notin queued' => Honest(r)'
  PROVE  HonestRuns'
<1>1. Resources' = Resources
  BY KeepsSetup DEF SetupKept
<1>2. ASSUME NEW q \in Resources \ {r}, q \notin queued' PROVE Honest(q)'
  <2>1. Honest(q) /\ spec[q] \in Definition
    BY <1>2 DEF HonestRuns, Typed, TypeOK
  <2>2. Reached(q, spec[q]) => Reached(q, spec[q])'
    <3>1. PICK d \in Definition : d = spec[q]
      BY <2>1
    <3>2. Reached(q, d) => Reached(q, d)'
      BY <1>2, ReachedKept
    <3>3. d = spec[q]'
      BY <1>2, <3>1
    <3> QED
      BY <3>1, <3>2, <3>3 DEF Reached
  <2> QED
    BY <1>2, <2>1, <2>2 DEF Honest
<1> QED
  BY <1>1, <1>2 DEF HonestRuns

(* A run of r goes on.                                                      *)
LEMMA ProgressHonest ==
  ASSUME Typed, Typed', setup' = setup, HonestRuns, Grows, NEW r \in Resources,
         run[r].pc # "idle", NEW new \in Run, run' = [run EXCEPT ![r] = new],
         new.spec = run[r].spec, spec' = spec,
         \A q \in Resources \ {r} :
           status'[q] = status[q] /\ (q # Committer => approved'[q] = approved[q]),
         queued \subseteq queued',
         \/ new.pc = "condition" /\ new.goal = "RUNNING"
         \/ new.pc = "update" /\ new.status.state = "RUNNING"
         => (r \notin queued' => Reached(r, run[r].spec)')
  PROVE  HonestRuns'
<1>1. run \in [Resources -> Run \cup {Idle}] /\ new.pc # "idle" /\ new # Idle
  <2>1. new.pc \in Pc
    BY DEF Run
  <2>2. new.pc # "idle"
    BY <2>1 DEF Pc
  <2> QED
    BY <2>2 DEF Typed, TypeOK, Idle
<1>2. run'[r] = new /\ \A q \in Resources \ {r} : run'[q] = run[q]
  BY <1>1
<1>3. r \notin queued' => Honest(r)'
  <2>1. SUFFICES ASSUME r \notin queued' PROVE Honest(r)'
    OBVIOUS
  <2>2. run[r].spec = spec[r]
    BY <2>1 DEF HonestRuns, Honest, Idle
  <2>3. \/ new.pc = "condition" /\ new.goal = "RUNNING"
        \/ new.pc = "update" /\ new.status.state = "RUNNING"
        => Reached(r, spec[r])'
    BY <2>1, <2>2 DEF Reached
  <2> QED
    BY <1>1, <1>2, <2>2, <2>3 DEF Honest, Idle
<1> QED
  BY <1>2, <1>3, OthersHonest

(* The forms in which the reconcilers rewrite a run between calls.          *)
LEMMA CallHonest ==
  ASSUME Typed, Typed', setup' = setup, HonestRuns, Grows, NEW r \in Resources,
         run[r].pc # "idle", UNCHANGED <<spec, status, queued>>,
         \A q \in Resources \ {r} : q # Committer => approved'[q] = approved[q],
         \/ \E pc \in {"query", "approve", "commit"} : Go(r, pc)
         \/ Condition(r, "FAILED")
         \/ /\ \/ Condition(r, "RUNNING")
               \/ \E m \in {"approved", "already committed", "committed"} : Running(r, m)
            /\ r \notin queued => Reached(r, run[r].spec)'
  PROVE  HonestRuns'
<1>1. run[r] \in Run
  BY RunTypes
<1>2. ASSUME NEW pc \in {"query", "approve", "commit"}, Go(r, pc) PROVE HonestRuns'
  <2> DEFINE new == [run[r] EXCEPT !.pc = pc]
  <2>1. new \in Run /\ new.spec = run[r].spec /\ new.pc = pc
    BY <1>1 DEF Run, Pc
  <2>2. run' = [run EXCEPT ![r] = new]
    BY <1>2 DEF Go
  <2> HIDE DEF new
  <2> QED
    BY <2>1, <2>2, ProgressHonest
<1>3. ASSUME NEW s \in {"FAILED", "RUNNING"}, Condition(r, s),
             s = "RUNNING" => (r \notin queued => Reached(r, run[r].spec)')
      PROVE  HonestRuns'
  <2> DEFINE new == [run[r] EXCEPT !.pc = "condition", !.goal = s]
  <2>1. new \in Run /\ new.spec = run[r].spec /\ new.pc = "condition" /\ new.goal = s
    BY <1>1 DEF Run, Pc
  <2>2. run' = [run EXCEPT ![r] = new]
    BY <1>3 DEF Condition
  <2> HIDE DEF new
  <2> QED
    BY <1>3, <2>1, <2>2, ProgressHonest
<1>4. ASSUME NEW m \in {"approved", "already committed", "committed"}, Running(r, m),
             r \notin queued => Reached(r, run[r].spec)'
      PROVE  HonestRuns'
  <2> DEFINE told == [state |-> "RUNNING", running |-> "True", message |-> m]
             new  == [run[r] EXCEPT !.pc = "update", !.status = told]
  <2>1. told \in Status
    BY DEF Status
  <2>2. run' = [run EXCEPT ![r] = new]
    BY <1>4 DEF Running
  <2> HIDE DEF told
  <2>3. new \in Run /\ new.spec = run[r].spec /\ new.pc = "update"
    BY <1>1, <2>1 DEF Run, Pc
  <2> HIDE DEF new
  <2> QED
    BY <1>4, <2>2, <2>3, ProgressHonest
<1> QED
  BY <1>2, <1>3, <1>4

(* Steps that leave the channel as it is, or only add to it.                *)
LEMMA ChannelKept ==
  ASSUME Typed, UNCHANGED <<defined, height>>
  PROVE  Grows
<1>1. Len(defined) \in Nat /\ \A o \in Orgs : height[o] \in Nat
  BY DEF Typed, TypeOK
<1> QED
  BY <1>1 DEF Grows

LEMMA QueueingHonest ==
  ASSUME Typed, Typed', setup' = setup, HonestRuns, NEW r \in Resources,
         Edit(r) \/ Begin(r) \/ Restart(r)
  PROVE  HonestRuns'
<1>1. Grows /\ approved' = approved
  BY ChannelKept DEF Edit, Begin, Restart
<1>2. \A q \in Resources \ {r} :
        run'[q] = run[q] /\ status'[q] = status[q] /\ spec'[q] = spec[q]
  BY DEF Edit, Begin, Restart, Typed, TypeOK
<1>3. queued \ {r} \subseteq queued'
  BY DEF Edit, Begin, Restart
<1>4. r \notin queued' => Honest(r)'
  <2>1. CASE Edit(r) \/ Restart(r)
    BY <2>1 DEF Edit, Restart
  <2>2. CASE Begin(r)
    <3>1. /\ run'[r].pc = "clients" /\ run'[r].spec = spec[r] /\ spec' = spec
      BY <2>2 DEF Begin, Typed, TypeOK
    <3> QED
      BY <3>1 DEF Honest, Idle
  <2> QED
    BY <2>1, <2>2
<1> QED
  BY <1>1, <1>2, <1>3, <1>4, OthersHonest

LEMMA UpdateHonest ==
  ASSUME Typed, Typed', setup' = setup, HonestRuns, NEW r \in Resources,
         updateCRStatusOrFailReconcile(r)
  PROVE  HonestRuns'
<1>1. Grows /\ approved' = approved /\ spec' = spec /\ UNCHANGED <<defined, height>>
  BY ChannelKept DEF updateCRStatusOrFailReconcile
<1>2. \A q \in Resources \ {r} : status'[q] = status[q] /\ run'[q] = run[q]
  BY DEF updateCRStatusOrFailReconcile, Typed, TypeOK
<1>3. run[r].current \in BOOLEAN
  BY RunTypes DEF updateCRStatusOrFailReconcile, Run
<1>4. PICK ok \in {run[r].current, FALSE} :
        /\ status' = IF ok THEN [status EXCEPT ![r] = run[r].status] ELSE status
        /\ queued' = IF Requeued(r, ~ok) THEN queued \cup {r} ELSE queued
  BY DEF updateCRStatusOrFailReconcile
<1>5. queued \subseteq queued'
  BY <1>4
<1>6. r \notin queued' => Honest(r)'
  <2>1. SUFFICES ASSUME r \notin queued' PROVE Honest(r)'
    OBVIOUS
  <2>2. ok
    <3>1. ~ Requeued(r, ~ok)
      BY <1>4, <2>1
    <3> QED
      BY <1>3, <3>1 DEF Requeued
  <2>3. status'[r] = run[r].status /\ run'[r] = Idle /\ spec'[r] = spec[r]
    BY <1>1, <1>4, <2>2 DEF updateCRStatusOrFailReconcile, Typed, TypeOK
  <2>4. run[r].status.state = "RUNNING" => Reached(r, spec[r])
    BY <1>5, <2>1 DEF HonestRuns, Honest, updateCRStatusOrFailReconcile
  <2>5. Reached(r, spec[r]) => Reached(r, spec[r])'
    BY <1>1 DEF Reached, Coordinated, Approval, Packages
  <2> QED
    BY <2>3, <2>4, <2>5 DEF Honest, Idle
<1> QED
  BY <1>1, <1>2, <1>5, <1>6, OthersHonest

LEMMA ReportHonest ==
  ASSUME Typed, Typed', setup' = setup, HonestRuns, NEW r \in Resources,
         setConditionStatus(r) \/ PatchFails(r)
  PROVE  HonestRuns'
<1>1. Grows /\ approved' = approved /\ spec' = spec /\ UNCHANGED <<defined, height>>
  BY ChannelKept DEF setConditionStatus, PatchFails
<1>2. \A q \in Resources \ {r} : status'[q] = status[q]
  BY DEF setConditionStatus, PatchFails, Typed, TypeOK
<1>3. queued \subseteq queued'
  BY DEF setConditionStatus, PatchFails
<1>4. /\ run[r] \in Run /\ run[r].status \in Status /\ run[r].pc = "condition"
      /\ run' \in [Resources -> Run \cup {Idle}]
  <2>1. run[r].pc = "condition"
    BY DEF setConditionStatus, PatchFails
  <2> QED
    BY <2>1, RunTypes, KeepsSetup DEF SetupKept, Typed, TypeOK
<1>5. PICK new : /\ run' = [run EXCEPT ![r] = new]
                 /\ new.pc = "update" /\ new.spec = run[r].spec
                 /\ new.status.state = run[r].goal
  <2>1. CASE setConditionStatus(r)
    <3> DEFINE p   == run[r].status
               fresh == p.state # run[r].goal
               out == [state   |-> run[r].goal,
                       running |-> IF run[r].goal = "RUNNING" THEN "False" ELSE p.running,
                       message |-> CASE fresh                   -> status[r].message
                                     [] run[r].goal = "FAILED"  -> "error"
                                     [] run[r].goal = "RUNNING" -> "already approved"]
               new == [run[r] EXCEPT !.pc = "update", !.status = out, !.current = @ \/ fresh]
    <3>1. run' = [run EXCEPT ![r] = new]
      BY <2>1 DEF setConditionStatus
    <3>2. out.state = run[r].goal
      OBVIOUS
    <3> HIDE DEF out
    <3>3. new.pc = "update" /\ new.spec = run[r].spec /\ new.status = out
      BY <1>4 DEF Run
    <3> QED
      BY <3>1, <3>2, <3>3
  <2>2. CASE PatchFails(r)
    <3> DEFINE st  == [run[r].status EXCEPT
                         !.state = run[r].goal, !.message = "error",
                         !.running = IF run[r].goal = "RUNNING" THEN "False" ELSE @]
               new == [run[r] EXCEPT !.pc = "update", !.status = st]
    <3>1. run' = [run EXCEPT ![r] = new]
      <4>1. run[r] \in Run /\ run[r].status \in Status
        BY <1>4
      <4> QED
        BY <2>2, <4>1 DEF PatchFails, Run, Status
    <3>2. st.state = run[r].goal
      BY <1>4 DEF Run, Status
    <3> HIDE DEF st
    <3>3. new.pc = "update" /\ new.spec = run[r].spec /\ new.status = st
      BY <1>4 DEF Run
    <3> QED
      BY <3>1, <3>2, <3>3
  <2> QED
    BY <2>1, <2>2
<1>6. new \in Run
  <2>1. run'[r] = new
    BY <1>5 DEF Typed, TypeOK
  <2> QED
    BY <1>4, <1>5, <2>1 DEF Idle
<1>7. ASSUME r \notin queued', new.status.state = "RUNNING"
      PROVE  Reached(r, run[r].spec)'
  <2>1. run[r].spec = spec[r] /\ Reached(r, spec[r])
    <3>1. run[r].goal = "RUNNING" /\ r \notin queued /\ run[r] # Idle
      BY <1>3, <1>4, <1>5, <1>7 DEF Idle
    <3>2. Honest(r)
      BY <3>1 DEF HonestRuns
    <3> QED
      BY <1>4, <3>1, <3>2 DEF Honest
  <2>2. run'[r] = new
    BY <1>5 DEF Typed, TypeOK
  <2> QED
    BY <1>1, <1>5, <2>1, <2>2 DEF Reached, Coordinated, Approval, Packages
<1> QED
  BY <1>1, <1>2, <1>3, <1>4, <1>5, <1>6, <1>7, ProgressHonest

LEMMA DeliverHonest ==
  ASSUME Typed, Typed', setup' = setup, HonestRuns, NEW o \in Orgs, Deliver(o)
  PROVE  HonestRuns' /\ Grows
<1>1. Len(defined) \in Nat /\ \A p \in Orgs : height[p] \in Nat
  BY DEF Typed, TypeOK
<1>2. Grows
  BY <1>1 DEF Deliver, Grows, Typed, TypeOK
<1>3. o \in Resources
  BY DEF Resources
<1>4. approved' = approved /\ run' = run /\ status' = status /\ spec' = spec /\ queued' = queued
  BY DEF Deliver, cluster
<1>5. o \notin queued' => Honest(o)'
  <2>1. SUFFICES ASSUME o \notin queued' PROVE Honest(o)'
    OBVIOUS
  <2>2. PICK d \in Definition : d = spec[o]
    BY <1>3 DEF Typed, TypeOK
  <2>3. Reached(o, d) => Reached(o, d)'
    BY <1>2, <1>3, <1>4, ReachedKept
  <2>4. Reached(o, spec[o]) => Reached(o, spec[o])'
    BY <1>4, <2>2, <2>3 DEF Reached
  <2> QED
    BY <1>3, <1>4, <2>1, <2>4 DEF HonestRuns, Honest
<1> QED
  BY <1>2, <1>3, <1>4, <1>5, OthersHonest

LEMMA ApproveHonest ==
  ASSUME Typed, Typed', setup' = setup, HonestRuns, NEW o \in Orgs,
         Approve(o) \/ QueryApprovedFails(o)
  PROVE  HonestRuns'
<1>1. o \in Resources /\ o # Committer /\ run[o].pc # "idle"
  BY SetupTypes DEF Resources, Approve, QueryCommitted, QueryApproved, QueryApprovedFails,
                    LifecycleApproveCC
<1>2. Grows /\ UNCHANGED <<defined, height, spec, status, queued>>
  BY ChannelKept DEF Approve, QueryCommitted, QueryApproved, QueryApprovedFails,
                     LifecycleApproveCC
<1>3. PICK d \in Definition : d = run[o].spec
  BY <1>1, RunTypes DEF Run
<1>4. /\ d.sequence \in 1 .. MaxSeq /\ approved \in [Orgs -> [1 .. MaxSeq -> Approval \cup {None}]]
      /\ height[o] \in Nat
  BY <1>1, <1>3, RunTypes DEF Typed, TypeOK
<1>5. Asked(o) \in Approval /\ Asked(o).package = d.package
  BY <1>1, <1>3, RunTypes DEF Asked, Approval
<1>6. \A q \in Orgs \ {o} : approved'[q] = approved[q]
  BY <1>4 DEF Approve, QueryCommitted, QueryApproved, QueryApprovedFails,
              LifecycleApproveCC, WriteApproval
<1>7. ASSUME Condition(o, "RUNNING") \/ \E m \in {"approved", "already committed"} : Running(o, m)
      PROVE  run'[o].spec = d
  <2>1. run \in [Resources -> Run \cup {Idle}] /\ run[o] \in Run
    BY <1>1, RunTypes DEF Typed, TypeOK
  <2>2. CASE Condition(o, "RUNNING")
    BY <1>1, <1>3, <2>1, <2>2 DEF Condition, Run
  <2>3. ASSUME NEW m \in {"approved", "already committed"}, Running(o, m)
        PROVE  run'[o].spec = d
    BY <1>1, <1>3, <2>1, <2>3 DEF Running, Run
  <2> QED
    BY <1>7, <2>2, <2>3
<1>8. Approval' = Approval
  BY KeepsSetup DEF SetupKept
<1>9. ASSUME Reached(o, d)',
             Condition(o, "RUNNING") \/ \E m \in {"approved", "already committed"} : Running(o, m)
      PROVE  HonestRuns'
  <2>1. Reached(o, run[o].spec)'
    BY <1>7, <1>9 DEF Reached
  <2> QED
    BY <1>1, <1>2, <1>6, <1>9, <2>1, CallHonest DEF Resources
<1>10. ASSUME \/ \E pc \in {"query", "approve", "commit"} : Go(o, pc)
              \/ Condition(o, "FAILED")
       PROVE  HonestRuns'
  BY <1>1, <1>2, <1>6, <1>10, CallHonest DEF Resources
<1>11. CASE QueryCommitted(o)
  <2>1. \/ Condition(o, "FAILED") \/ Go(o, "query")
        \/ d.sequence > 1 /\ height[o] >= d.sequence /\ Running(o, "already committed")
    BY <1>3, <1>11 DEF QueryCommitted, Fail
  <2>2. d.sequence > 1 /\ height[o] >= d.sequence => Reached(o, d)'
    BY <1>1, <1>2 DEF Reached
  <2> QED
    BY <1>9, <1>10, <2>1, <2>2
<1>12. CASE QueryApproved(o)
  <2>1. \/ Go(o, "approve")
        \/ ~ mustApprove(o) /\ Condition(o, "RUNNING") /\ approved' = approved
    BY <1>12 DEF QueryApproved
  <2>2. ~ mustApprove(o) /\ approved' = approved => Reached(o, d)'
    BY <1>1, <1>3, <1>4, <1>8 DEF Reached, mustApprove
  <2> QED
    BY <1>9, <1>10, <2>1, <2>2
<1>13. CASE QueryApprovedFails(o)
  BY <1>10, <1>13 DEF QueryApprovedFails
<1>14. CASE LifecycleApproveCC(o)
  <2>1. \/ Condition(o, "FAILED")
        \/ Running(o, "approved") /\ Redefines(o) /\ approved' = approved
        \/ Running(o, "approved") /\ WriteApproval(o)
    BY <1>14 DEF LifecycleApproveCC, Fail
  <2>2. CASE Running(o, "approved") /\ Redefines(o) /\ approved' = approved
    <3>1. \/ d.sequence = height[o] /\ defined[d.sequence] # d.params
          \/ approved[o][d.sequence] = Asked(o)
      BY <1>3, <2>2 DEF Redefines
    <3>2. Reached(o, d)'
      BY <1>1, <1>2, <1>4, <1>5, <1>8, <2>2, <3>1 DEF Reached
    <3> QED
      BY <1>9, <2>2, <3>2
  <2>3. CASE Running(o, "approved") /\ WriteApproval(o)
    <3>1. approved'[o][d.sequence] = Asked(o)
      BY <1>3, <1>4, <2>3 DEF WriteApproval
    <3>2. Reached(o, d)'
      BY <1>1, <1>5, <1>8, <3>1 DEF Reached
    <3> QED
      BY <1>9, <2>3, <3>2
  <2> QED
    BY <1>10, <2>1, <2>2, <2>3
<1> QED
  BY <1>11, <1>12, <1>13, <1>14 DEF Approve

LEMMA CallFailsHonest ==
  ASSUME Typed, Typed', setup' = setup, HonestRuns, NEW r \in Resources, CallFails(r)
  PROVE  HonestRuns'
<1>1. Grows /\ UNCHANGED <<approved, spec, status, queued>> /\ run[r].pc # "idle"
  BY ChannelKept DEF CallFails
<1> QED
  BY <1>1, CallHonest DEF CallFails, Fail

LEMMA CommitHonest ==
  ASSUME Typed, Typed', setup' = setup, Claimed, Commit
  PROVE  HonestRuns' /\ Grows
<1>1. Committer \in Resources /\ run[Committer].pc # "idle"
  BY DEF Resources, Commit, Prepare, LifecycleCommitCC
<1>2. UNCHANGED <<approved, height, spec, status, queued>>
  BY DEF Commit, Prepare, LifecycleCommitCC
<1>3. Len(defined) \in Nat /\ defined \in Seq(Params) /\ \A o \in Orgs : height[o] \in Nat
  BY DEF Typed, TypeOK
<1>4. PICK d \in Definition : d = run[Committer].spec
  BY <1>1, RunTypes DEF Run
<1>5. d.sequence \in Nat /\ d.params \in Params
  BY <1>1, <1>4, RunTypes
<1>6. \/ defined' = defined
      \/ d.sequence = Len(defined) + 1 /\ defined' = Append(defined, d.params)
  BY <1>4 DEF Commit, Prepare, LifecycleCommitCC
<1>7. /\ Len(defined) <= Len(defined')
      /\ \A n \in 1 .. Len(defined) : defined'[n] = defined[n]
  BY <1>3, <1>5, <1>6
<1>8. Grows
  BY <1>2, <1>3, <1>7 DEF Grows
<1>9. CASE Go(Committer, "commit") \/ Condition(Committer, "FAILED")
  BY <1>1, <1>2, <1>8, <1>9, CallHonest DEF Claimed
<1>10. CASE Running(Committer, "committed") /\ ~ (Go(Committer, "commit") \/ Condition(Committer, "FAILED"))
  <2>1. SUFFICES ASSUME Committer \notin queued, Committer \in Coordinated
                 PROVE  d.sequence <= Len(defined')
    <3>1. run'[Committer].spec = d
      BY <1>1, <1>4, <1>10, RunTypes DEF Running, Run, Typed, TypeOK
    <3>2. Coordinated' = Coordinated
      BY DEF Coordinated
    <3>3. Committer \notin queued => Reached(Committer, run[Committer].spec)'
      BY <2>1, <3>1, <3>2 DEF Reached
    <3> QED
      BY <1>1, <1>2, <1>8, <1>10, <3>3, CallHonest DEF Claimed
  <2>2. spec[Committer] = d /\ \A o \in Orgs : d.sequence <= height[o] + 1
    BY <1>1, <1>4, <2>1 DEF Claimed, HonestRuns, Honest, InStep, Idle
  <2>3. \/ \E T \in Majorities : NotNext(T)
        \/ d.sequence = Len(defined) + 1 /\ defined' = Append(defined, d.params)
    BY <1>4, <1>10 DEF Commit, Prepare, LifecycleCommitCC, Swallowed, Fail
  <2>4. ASSUME NEW T \in Majorities, NotNext(T) PROVE d.sequence <= Len(defined)
    <3>1. PICK o \in Orgs : height[o] + 1 # d.sequence
      BY <1>4, <2>4 DEF NotNext, Majorities
    <3>2. height[o] <= Len(defined) /\ d.sequence <= height[o] + 1
      BY <2>2 DEF Typed, TypeOK
    <3> QED
      BY <1>3, <1>5, <3>1, <3>2
  <2> QED
    BY <1>3, <1>5, <1>7, <2>3, <2>4
<1> QED
  BY <1>9, <1>10 DEF Commit, Prepare, LifecycleCommitCC, Fail

(* The coordinated committer asks for the next sequence only when all peers *)
(* have applied the current one.                                            *)
LEMMA StaysInStep ==
  ASSUME Typed, Typed', setup' = setup, InStep, Grows \/ UNCHANGED height,
         spec'[Committer] = spec[Committer] \/ Edit(Committer)
  PROVE  InStep'
<1>1. Orgs' = Orgs /\ Coordinated' = Coordinated
  BY KeepsSetup DEF SetupKept, Coordinated
<1>2. Committer \in Resources /\ spec[Committer].sequence \in Nat
  BY DEF Resources, Typed, TypeOK, Definition
<1>3. \A o \in Orgs : height[o] \in Nat /\ height'[o] \in Nat
  BY <1>1 DEF Typed, TypeOK
<1>4. \A o \in Orgs : height[o] <= height'[o]
  BY <1>3 DEF Grows
<1>5. CASE spec'[Committer] = spec[Committer]
  BY <1>1, <1>2, <1>3, <1>4, <1>5 DEF InStep
<1>6. CASE Edit(Committer)
  <2>1. SUFFICES ASSUME Committer \in Coordinated, NEW o \in Orgs
                 PROVE  spec'[Committer].sequence <= height'[o] + 1
    BY <1>1 DEF InStep
  <2>2. PICK e \in Definition :
          /\ \/ e.sequence = spec[Committer].sequence
             \/ /\ e.sequence = spec[Committer].sequence + 1
                /\ height[o] >= spec[Committer].sequence
          /\ spec' = [spec EXCEPT ![Committer] = e]
    BY <1>6, <2>1 DEF Edit
  <2>3. spec'[Committer] = e
    BY <1>2, <2>2 DEF Typed, TypeOK
  <2>4. spec[Committer].sequence <= height[o] + 1
    BY <2>1 DEF InStep
  <2> QED
    BY <1>2, <1>3, <1>4, <2>2, <2>3, <2>4
<1> QED
  BY <1>5, <1>6

LEMMA NextClaimed ==
  ASSUME Typed, Typed', Claimed, [Next]_vars
  PROVE  Claimed'
<1>1. CASE UNCHANGED vars
  BY <1>1, KeepsSetup
     DEF vars, Claimed, HonestRuns, Honest, Reached, InStep, Coordinated, SetupKept
<1>2. ASSUME setup' = setup, HonestRuns', Grows \/ UNCHANGED height,
             spec'[Committer] = spec[Committer] \/ Edit(Committer)
      PROVE  Claimed'
  BY <1>2, StaysInStep DEF Claimed
<1>3. ASSUME NEW r \in Resources, Edit(r), setup' = setup PROVE Claimed'
  <2>1. spec'[Committer] = spec[Committer] \/ r = Committer
    BY <1>3 DEF Edit, Typed, TypeOK
  <2> QED
    BY <1>2, <1>3, <2>1, QueueingHonest DEF Edit, Claimed
<1>4. ASSUME NEW r \in Resources, setup' = setup,
             Begin(r) \/ Report(r) \/ Fault(r)
      PROVE  Claimed'
  <2>1. HonestRuns'
    BY <1>4, QueueingHonest, UpdateHonest, ReportHonest, CallFailsHonest
       DEF Report, Fault, Claimed
  <2>2. UNCHANGED <<height, spec>>
    BY <1>4 DEF Begin, Report, Fault, setConditionStatus, updateCRStatusOrFailReconcile,
                CallFails, PatchFails, Restart
  <2> QED
    BY <1>2, <1>4, <2>1, <2>2
<1>5. ASSUME NEW o \in Orgs, setup' = setup, Deliver(o) PROVE Claimed'
  BY <1>2, <1>5, DeliverHonest DEF Claimed, Deliver
<1>6. ASSUME NEW o \in Orgs, setup' = setup, Approve(o) \/ QueryApprovedFails(o)
      PROVE  Claimed'
  <2>1. UNCHANGED <<height, spec>>
    BY <1>6 DEF Approve, QueryCommitted, QueryApproved, QueryApprovedFails, LifecycleApproveCC
  <2> QED
    BY <1>2, <1>6, <2>1, ApproveHonest DEF Claimed
<1>7. ASSUME setup' = setup, Commit PROVE Claimed'
  <2>1. UNCHANGED spec
    BY <1>7 DEF Commit, Prepare, LifecycleCommitCC
  <2> QED
    BY <1>2, <1>7, <2>1, CommitHonest
<1> QED
  BY <1>1, <1>3, <1>4, <1>5, <1>6, <1>7 DEF Next

-----------------------------------------------------------------------------
(* The invariant.                                                           *)

IInv == Typed /\ FailedIsRetried /\ Claimed

(* Types, retries and what is claimed, for any channel and any bounds.      *)
THEOREM LifecycleInvariant == Spec => []IInv
<1>1. Init => IInv
  <2>1. Init => FailedIsRetried
    <3>1. Blank.state = ""
      BY DEF Blank
    <3> QED
      BY <3>1 DEF Init, FailedIsRetried
  <2>2. Init => Claimed
    <3>1. ASSUME Init PROVE InStep
      <4>1. Committer \in Resources
        BY DEF Resources
      <4> QED
        BY <3>1, <4>1 DEF Init, InStep
    <3> QED
      BY <3>1 DEF Init, Claimed, HonestRuns
  <2> QED
    BY <2>1, <2>2, InitTyped DEF IInv
<1>2. IInv /\ [Next]_vars => IInv'
  BY NextTyped, NextRetries, NextClaimed DEF IInv
<1> QED
  BY <1>1, <1>2, PTL DEF Spec

(* The variables stay in their ranges; no organization's peers are ahead of *)
(* the channel, and a run keeps to the steps of its own controller.         *)
THEOREM LifecycleTypes == Spec => []TypeOK
<1>1. IInv => TypeOK
  BY DEF IInv, Typed
<1> QED
  BY <1>1, LifecycleInvariant, PTL

(* A resource reported as FAILED is queued or being reconciled, whatever    *)
(* conflict, edit, restart or lost answer came in between (commit           *)
(* controller, lines 239-262; approve controller, 313-339).                 *)
THEOREM FailuresAreRetried == Spec => []FailedIsRetried
<1>1. IInv => FailedIsRetried
  BY DEF IInv
<1> QED
  BY <1>1, LifecycleInvariant, PTL

(* Whatever the parameters and however the administrators behave, a         *)
(* resource at rest as RUNNING has reached this much: an approve resource   *)
(* the approval of its package, or a definition at the peers that the       *)
(* controller takes for it; a commit resource of an administrator who       *)
(* coordinates, the commit (approve controller, lines 185-267; commit       *)
(* controller, 160-193).                                                    *)
RunningIsReached == \A r \in Resources : Claims(r) => Reached(r, spec[r])

THEOREM RunningMeansReached == Spec => []RunningIsReached
<1>1. IInv => RunningIsReached
  BY DEF IInv, Claimed, HonestRuns, Honest, RunningIsReached, Claims, Settled
<1> QED
  BY <1>1, LifecycleInvariant, PTL

(* As long as the version, policy and collections of a chaincode never      *)
(* change, a RUNNING approve resource is approved as its spec asks, or      *)
(* committed at the peers: no edit in mid-reconcile, lost answer, restart   *)
(* or lagging peer makes it claim another package's approval (approve       *)
(* controller, lines 185-267).                                              *)
THEOREM OneParamsApprovalStands ==
  ASSUME \A p, q \in Params : p = q
  PROVE  Spec => []ApprovalStands
<1>1. IInv => ApprovalStands
  <2>1. SUFFICES ASSUME IInv, NEW o \in Orgs, Claims(o)
                 PROVE  \/ approved[o][spec[o].sequence] =
                             [params |-> spec[o].params, package |-> spec[o].package]
                        \/ spec[o].sequence > 1 /\ height[o] >= spec[o].sequence
    BY DEF ApprovalStands
  <2>2. o \in Resources /\ o # Committer
    BY <2>1, SetupTypes DEF IInv, Resources
  <2>3. spec[o] \in Definition /\ defined \in Seq(Params) /\ height[o] <= Len(defined)
        /\ height[o] \in Nat
    BY <2>1, <2>2 DEF IInv, Typed, TypeOK
  <2>4. spec[o].sequence \in Nat \ {0} /\ spec[o].params \in Params
    BY <2>3, SequenceBound DEF Definition
  <2>5. CASE /\ approved[o][spec[o].sequence] \in Approval
             /\ approved[o][spec[o].sequence].package = spec[o].package
    BY <2>4, <2>5 DEF Approval
  <2>6. CASE /\ height[o] >= spec[o].sequence
             /\ spec[o].sequence > 1 \/ defined[spec[o].sequence] # spec[o].params
    <3>1. defined[spec[o].sequence] \in Params
      BY <2>3, <2>4, <2>6
    <3> QED
      BY <2>4, <2>6, <3>1
  <2>7. Reached(o, spec[o])
    BY <2>1, <2>2 DEF IInv, Claimed, HonestRuns, Honest, Claims, Settled
  <2> QED
    BY <2>2, <2>5, <2>6, <2>7 DEF Reached
<1> QED
  BY <1>1, LifecycleInvariant, PTL

(* When the administrator of the commit resource asks for the next sequence *)
(* only once all peers show the current one, "Chaincode committed" means    *)
(* that the channel has the sequence asked for (commit controller, lines    *)
(* 160-193).                                                                *)
THEOREM CoordinatedCommitStands == Spec => [](Committer \in Coordinated => CommitStands)
<1>1. IInv => (Committer \in Coordinated => CommitStands)
  BY DEF IInv, Claimed, HonestRuns, Honest, CommitStands, Claims, Settled, Reached, Resources
<1> QED
  BY <1>1, LifecycleInvariant, PTL

=============================================================================
