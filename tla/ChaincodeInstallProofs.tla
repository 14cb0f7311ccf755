------------------------ MODULE ChaincodeInstallProofs -------------------------
(***************************************************************************)
(* The report of an installation can be relied on, for any peers, addresses *)
(* and number of edits, failures and restarts.                              *)
(*                                                                          *)
(* Reports ties what is reported, in the resource and in the copy that a    *)
(* run carries, to the peers; Asked says which peers a run has asked; and   *)
(* Fresh that an edit that a run has not seen has the resource queued, so   *)
(* that what it rests with is what the last run reported.                   *)
(***************************************************************************)
EXTENDS ChaincodeInstall, SequenceTheorems, TLAPS

Named(installed, package) == \A p \in installed : package \in packages[p]

(* A report of all the peers on the package of address a.                   *)
Complete(st, a) ==
  /\ st.installed \cup st.failed = Peer /\ st.installed \cap st.failed = {}
  /\ st.package \in Package /\ st.package.address = a

(* The peers that the loops have reached while left are to be asked.        *)
Reached(left) == {Peers[i] : i \in 1 .. Len(Peers) - left}

Reports ==
  /\ Named(status.installed, status.package)
  /\ run # Idle => Named(run.status.installed, run.status.package)

Asked ==
  /\ At("clients") => run.left = Len(Peers) /\ run.installed = {} /\ run.failed = {}
  /\ At("install") =>
       /\ run.package \in Package /\ run.package.address = run.spec
       /\ Named(run.installed, run.package)
       /\ run.installed \cup run.failed = Reached(run.left)
       /\ run.installed \cap run.failed = {}

Fresh ==
  /\ run # Idle /\ ~queued => spec = run.spec
  /\ At("update") => run.status.state = "FAILED" \/ Complete(run.status, run.spec)
  /\ Settled => Complete(status, spec)

IInv == TypeOK /\ Reports /\ Asked /\ Fresh

USE PeersAssumption, NoneAssumption, InstallBounds DEF At, resource

-----------------------------------------------------------------------------
LEMMA RunTyped ==
  ASSUME TypeOK, run # Idle
  PROVE  run \in Run /\ run.status \in Status /\ run.pc # "idle"
BY DEF TypeOK, Run

(* The next peer has not been asked before.                                 *)
LEMMA TargetFacts ==
  ASSUME TypeOK, At("install"), run.left > 0
  PROVE  /\ run \in Run /\ Target \in Peer /\ run.left - 1 \in 0 .. Len(Peers)
         /\ Reached(run.left - 1) = Reached(run.left) \cup {Target}
         /\ Target \notin Reached(run.left)
<1> DEFINE n == Len(Peers) - run.left
<1>1. run \in Run /\ run.left \in 1 .. Len(Peers) /\ Len(Peers) \in Nat
      /\ DOMAIN Peers = 1 .. Len(Peers)
  BY DEF TypeOK, Run, Idle
<1>2. n \in Nat /\ n + 1 \in 1 .. Len(Peers) /\ n + 1 \notin 1 .. n
      /\ 1 .. n \subseteq 1 .. Len(Peers)
      /\ Len(Peers) - (run.left - 1) = n + 1 /\ 1 .. n + 1 = 1 .. n \cup {n + 1}
      /\ run.left - 1 \in 0 .. Len(Peers)
  BY <1>1
<1>3. Target = Peers[n + 1]
  BY DEF Target
<1> HIDE DEF n
<1>4. Target \in Peer
  BY <1>1, <1>2, <1>3 DEF Peer, ToSet
<1>5. Reached(run.left) = {Peers[i] : i \in 1 .. n}
      /\ Reached(run.left - 1) = {Peers[i] : i \in 1 .. n + 1}
  BY <1>2 DEF Reached, n
<1>6. Target \notin {Peers[i] : i \in 1 .. n}
  BY <1>1, <1>2, <1>3 DEF IsInjective
<1> QED
  BY <1>1, <1>2, <1>3, <1>4, <1>5, <1>6

(* Peers keep what they have.                                               *)
LEMMA NamedStays ==
  ASSUME NEW S, NEW g, Named(S, g), S \subseteq Peer, \A p \in Peer : packages[p] \subseteq packages'[p]
  PROVE  Named(S, g)'
BY DEF Named

(* All peers have been asked when none is left.                             *)
LEMMA AllReached == Reached(Len(Peers)) = {} /\ Reached(0) = Peer
<1>1. Len(Peers) \in Nat /\ DOMAIN Peers = 1 .. Len(Peers)
  OBVIOUS
<1>2. 1 .. Len(Peers) - Len(Peers) = {} /\ 1 .. Len(Peers) - 0 = DOMAIN Peers
  BY <1>1
<1> QED
  BY <1>2 DEF Reached, Peer, ToSet


-----------------------------------------------------------------------------
(* The invariant is kept.                                                   *)

LEMMA InitIInv == Init => IInv
<1> SUFFICES ASSUME Init PROVE IInv
  OBVIOUS
<1>1. TypeOK
  <2>1. Blank \in Status
    BY DEF Blank, Status
  <2> QED
    BY <2>1 DEF Init, TypeOK
<1> QED
  BY <1>1 DEF Init, IInv, Reports, Asked, Fresh, Named, Settled, Blank, Idle

LEMMA InstallStep ==
  ASSUME IInv, LifecycleInstallCC
  PROVE  IInv'
<1> USE DEF IInv
<1>1. /\ At("install") /\ run.left > 0
      /\ UNCHANGED <<now, spec, status, queued, edits>>
      /\ run \in Run /\ Target \in Peer /\ run.left - 1 \in 0 .. Len(Peers)
      /\ Reached(run.left - 1) = Reached(run.left) \cup {Target}
      /\ Target \notin Reached(run.left)
  BY TargetFacts DEF LifecycleInstallCC
<1>2. PICK ok \in BOOLEAN :
        /\ run' = Recorded(ok)
        /\ \/ packages' = [packages EXCEPT ![Target] = @ \cup {run.package}]
           \/ ~ok /\ packages' = packages
        /\ fails' = fails \/ Fault
  BY DEF LifecycleInstallCC
<1>3. /\ run.package \in Package /\ run.package.address = run.spec
      /\ Named(run.installed, run.package)
      /\ run.installed \cup run.failed = Reached(run.left)
      /\ run.installed \cap run.failed = {}
  BY <1>1 DEF Asked
<1>4. /\ packages' \in [Peer -> SUBSET Package]
      /\ \A p \in Peer : packages[p] \subseteq packages'[p]
      /\ ok => run.package \in packages'[Target]
  BY <1>1, <1>2, <1>3 DEF TypeOK
<1>5. /\ run' \in Run /\ run'.pc = "install" /\ run'.left = run.left - 1
      /\ run'.package = run.package /\ run'.spec = run.spec /\ run'.status = run.status
      /\ run'.installed = (IF ok THEN run.installed \cup {Target} ELSE run.installed)
      /\ run'.failed = (IF ok THEN run.failed ELSE run.failed \cup {Target})
  BY <1>1, <1>2 DEF Recorded, Run
<1>6. fails' \in 0 .. MaxFails
  BY <1>2 DEF Fault, TypeOK
<1>7. TypeOK'
  BY <1>1, <1>4, <1>5, <1>6 DEF TypeOK
<1>8. run # Idle /\ run' # Idle
  BY <1>1, <1>5 DEF Idle
<1>9. Reports'
  <2>1. status.installed \subseteq Peer /\ run.status.installed \subseteq Peer
    BY <1>8, RunTyped DEF TypeOK, Status
  <2>2. Named(status.installed, status.package)' /\ Named(run.status.installed, run.status.package)'
    BY <1>1, <1>4, <1>5, <1>8, <2>1 DEF Reports, Named
  <2> QED
    BY <2>2 DEF Reports
<1>10. Asked'
  <2>1. run.installed \subseteq Peer
    BY <1>1 DEF Run
  <2>2. Named(run.installed, run.package)'
    BY <1>3, <1>4, <1>5, <2>1 DEF Named
  <2>3. Reached(run'.left) = Reached(run.left) \cup {Target}
    BY <1>1, <1>5
  <2>4. run'.installed \cup run'.failed = Reached(run'.left)
        /\ run'.installed \cap run'.failed = {}
    BY <1>1, <1>3, <1>5, <2>3
  <2>5. (run.installed \cup run.failed = Reached(run.left))'
    BY <2>4 DEF Reached
  <2> QED
    BY <1>3, <1>5, <2>2, <2>4, <2>5 DEF Asked
<1>11. Fresh'
  BY <1>1, <1>5, <1>8 DEF Fresh, Settled
<1> QED
  BY <1>7, <1>9, <1>10, <1>11

(* The steps that reach no peer.                                            *)
LEMMA RunStep ==
  ASSUME IInv, \/ Begin \/ CallFails \/ generateChaincodePackage \/ Running
  PROVE  IInv'
<1> USE DEF IInv
<1>1. UNCHANGED <<now, packages, spec, status, edits>> /\ fails' \in 0 .. MaxFails
  BY DEF Begin, CallFails, Fault, generateChaincodePackage, Running, TypeOK
<1>2. ASSUME Begin PROVE IInv'
  <2>1. /\ run' \in Run /\ queued' = FALSE
        /\ run'.pc = "clients" /\ run'.spec = spec /\ run'.status = status
        /\ run'.left = Len(Peers) /\ run'.installed = {} /\ run'.failed = {}
    BY <1>2, AllReached DEF Begin, TypeOK, Run
  <2>2. run' # Idle
    BY <2>1 DEF Idle
  <2>3. TypeOK'
    BY <1>1, <2>1 DEF TypeOK
  <2> QED
    BY <1>1, <2>1, <2>2, <2>3 DEF Reports, Asked, Fresh, Named, Settled
<1>3. ASSUME CallFails PROVE IInv'
  <2>1. run # Idle /\ queued' = queued
    BY <1>3 DEF CallFails, Idle
  <2>2. /\ run' \in Run /\ run'.pc = "condition"
        /\ run'.spec = run.spec /\ run'.status = run.status
    BY <1>3, <2>1, RunTyped DEF CallFails, Run
  <2>3. run' # Idle
    BY <2>2 DEF Idle
  <2>4. TypeOK'
    BY <1>1, <2>1, <2>2 DEF TypeOK
  <2> QED
    BY <1>1, <2>1, <2>2, <2>3, <2>4 DEF Reports, Asked, Fresh, Named, Settled
<1>4. ASSUME generateChaincodePackage PROVE IInv'
  <2>1. run # Idle /\ queued' = queued /\ At("clients")
    BY <1>4 DEF generateChaincodePackage, Idle
  <2>2. run \in Run /\ now \in 0 .. MaxTime /\ run.spec \in Addresses
    BY <2>1, RunTyped DEF TypeOK, Run
  <2>3. [address |-> run.spec, built |-> now] \in Package
    BY <2>2 DEF Package
  <2>4. /\ run' \in Run /\ run'.pc = "install" /\ run'.spec = run.spec /\ run'.status = run.status
        /\ run'.package \in Package /\ run'.package.address = run.spec
        /\ run'.left = Len(Peers) /\ run'.installed = {} /\ run'.failed = {}
    BY <1>4, <2>1, <2>2, <2>3 DEF generateChaincodePackage, Run, Asked
  <2>5. run' # Idle
    BY <2>4 DEF Idle
  <2>6. TypeOK'
    BY <1>1, <2>1, <2>4 DEF TypeOK
  <2>7. Asked'
    <3>1. Reached(run'.left) = {}
      BY <2>4, AllReached
    <3>2. (run.installed \cup run.failed = Reached(run.left))'
      BY <2>4, <3>1 DEF Reached
    <3> QED
      BY <2>4, <3>2 DEF Asked, Named
  <2> QED
    BY <1>1, <2>1, <2>4, <2>5, <2>6, <2>7 DEF Reports, Fresh, Named, Settled
<1>5. ASSUME Running PROVE IInv'
  <2>1. run # Idle /\ queued' = queued /\ At("install") /\ run.left = 0
    BY <1>5 DEF Running, Idle
  <2>2. run \in Run /\ now \in 0 .. MaxTime
    BY <2>1, RunTyped DEF TypeOK
  <2>3. /\ run.package \in Package /\ run.package.address = run.spec
        /\ Named(run.installed, run.package)
        /\ run.installed \cup run.failed = Peer /\ run.installed \cap run.failed = {}
    BY <2>1, AllReached DEF Asked
  <2> DEFINE st == [state |-> "RUNNING", package |-> run.package, installed |-> run.installed,
                    failed |-> run.failed, message |-> "", since |-> now]
  <2>4. st \in Status /\ Complete(st, run.spec) /\ st.installed = run.installed
        /\ st.package = run.package
    BY <2>2, <2>3 DEF Status, Complete, Run
  <2>5. run' = [run EXCEPT !.pc = "update", !.status = st]
    BY <1>5 DEF Running
  <2> HIDE DEF st
  <2>6. run' \in Run /\ run'.pc = "update" /\ run'.spec = run.spec /\ run'.status = st
    BY <2>2, <2>4, <2>5 DEF Run
  <2>7. run' # Idle
    BY <2>6 DEF Idle
  <2>8. TypeOK'
    BY <1>1, <2>1, <2>6 DEF TypeOK
  <2> QED
    BY <1>1, <2>1, <2>3, <2>4, <2>6, <2>7, <2>8
    DEF Reports, Asked, Fresh, Named, Settled, Complete
<1> QED
  BY <1>2, <1>3, <1>4, <1>5

LEMMA ConditionStep ==
  ASSUME IInv, setConditionStatus
  PROVE  IInv'
<1> USE DEF IInv
<1>1. /\ UNCHANGED <<now, packages, spec, edits>> /\ fails' \in 0 .. MaxFails
      /\ run # Idle /\ run \in Run /\ run.status \in Status /\ status \in Status
      /\ At("condition")
  <2>1. run # Idle
    BY DEF setConditionStatus, Idle
  <2> QED
    BY <2>1, RunTyped DEF setConditionStatus, Fault, TypeOK
<1>2. /\ status' \in Status /\ status'.installed = status.installed
      /\ status'.package = status.package
  BY <1>1 DEF setConditionStatus, Status
<1>3. /\ run' \in Run /\ run'.pc = "update" /\ run'.spec = run.spec
      /\ run'.status.state = "FAILED"
      /\ run'.status.installed = run.status.installed
      /\ run'.status.package = run.status.package
  <2> DEFINE st(m) == [run.status EXCEPT !.state = "FAILED", !.message = m]
  <2>1. ASSUME NEW m \in {"", "error"}
        PROVE  /\ st(m) \in Status /\ st(m).state = "FAILED"
               /\ st(m).installed = run.status.installed /\ st(m).package = run.status.package
    BY <1>1 DEF Status
  <2>2. PICK m \in {"", "error"}, b \in BOOLEAN :
          run' = [run EXCEPT !.pc = "update", !.current = b, !.status = st(m)]
    <3>1. CASE /\ run.status.state = "FAILED"
               /\ run' = [run EXCEPT !.pc = "update", !.status.message = "error"]
      <4>1. st("error") = [run.status EXCEPT !.message = "error"] /\ run.current \in BOOLEAN
        BY <1>1, <3>1 DEF Status, Run
      <4> QED
        BY <1>1, <3>1, <4>1 DEF Run
    <3>2. CASE run' = [run EXCEPT !.pc = "update", !.status.state = "FAILED", !.current = TRUE]
      <4>1. st(run.status.message) = [run.status EXCEPT !.state = "FAILED"]
            /\ run.status.message \in {"", "error"}
        BY <1>1 DEF Status
      <4> QED
        BY <1>1, <3>2, <4>1 DEF Run
    <3>3. CASE run' = [run EXCEPT !.pc = "update", !.status.state = "FAILED",
                                  !.status.message = "error"]
      <4>1. run.current \in BOOLEAN
        BY <1>1 DEF Run
      <4> QED
        BY <1>1, <3>3, <4>1 DEF Run, Status
    <3> QED
      BY <3>1, <3>2, <3>3 DEF setConditionStatus
  <2> HIDE DEF st
  <2>3. st(m) \in Status
    BY <2>1
  <2>4. run' \in Run /\ run'.pc = "update" /\ run'.spec = run.spec /\ run'.status = st(m)
    BY <1>1, <2>2, <2>3 DEF Run
  <2> QED
    BY <2>1, <2>4
<1>4. queued' \in BOOLEAN /\ (queued' = FALSE => queued = FALSE)
  BY DEF setConditionStatus, TypeOK
<1>5. run' # Idle
  BY <1>3 DEF Idle
<1>6. TypeOK'
  BY <1>1, <1>2, <1>3, <1>4 DEF TypeOK
<1>7. Reports' /\ Asked'
  BY <1>1, <1>2, <1>3 DEF Reports, Asked, Named
<1>8. Fresh'
  BY <1>1, <1>3, <1>4, <1>5 DEF Fresh, Settled
<1> QED
  BY <1>6, <1>7, <1>8

LEMMA UpdateStep ==
  ASSUME IInv, updateCRStatusOrFailReconcile
  PROVE  IInv'
<1> USE DEF IInv
<1>1. /\ UNCHANGED <<now, packages, spec, edits>> /\ run' = Idle /\ run # Idle
      /\ run \in Run /\ run.status \in Status /\ At("update")
  <2>1. run # Idle
    BY DEF updateCRStatusOrFailReconcile, Idle
  <2> QED
    BY <2>1, RunTyped DEF updateCRStatusOrFailReconcile
<1>2. ~ (At("clients") \/ At("install") \/ At("update"))'
  BY <1>1 DEF Idle
<1>3. CASE /\ status' = run.status
           /\ queued' = (queued \/ status' # status \/ status'.state = "FAILED")
           /\ UNCHANGED fails
  <2>1. queued' \in BOOLEAN
    BY <1>3 DEF TypeOK
  <2>2. ASSUME ~queued' PROVE Complete(status', spec')
    <3>1. ~queued /\ status' = status /\ status'.state # "FAILED"
      BY <1>3, <2>2
    <3> QED
      BY <1>1, <1>3, <3>1 DEF Fresh
  <2>3. TypeOK'
    BY <1>1, <1>3, <2>1 DEF TypeOK
  <2> QED
    BY <1>1, <1>2, <1>3, <2>2, <2>3 DEF Reports, Asked, Fresh, Named, Settled, Complete
<1>4. CASE queued' = TRUE /\ UNCHANGED status /\ fails' \in {fails, fails + 1} /\ fails' <= MaxFails
  <2>1. TypeOK'
    BY <1>1, <1>4 DEF TypeOK
  <2> QED
    BY <1>1, <1>2, <1>4, <2>1 DEF Reports, Asked, Fresh, Named, Settled
<1>5. \/ /\ status' = run.status /\ UNCHANGED fails
         /\ queued' = (queued \/ status' # status \/ status'.state = "FAILED")
      \/ queued' = TRUE /\ UNCHANGED status /\ fails' \in {fails, fails + 1} /\ fails' <= MaxFails
  BY DEF updateCRStatusOrFailReconcile, TypeOK
<1> QED
  BY <1>3, <1>4, <1>5

(* The administrators, time and restarts.                                   *)
LEMMA OtherStep ==
  ASSUME IInv, Tick \/ Edit \/ Restart \/ UNCHANGED vars
  PROVE  IInv'
<1> USE DEF IInv
<1>1. ASSUME Tick \/ UNCHANGED vars PROVE IInv'
  <2>1. UNCHANGED <<packages, spec, status, queued, run, edits, fails>>
    BY <1>1 DEF Tick, vars
  <2>2. TypeOK'
    BY <1>1, <2>1 DEF Tick, vars, TypeOK
  <2> QED
    BY <2>1, <2>2 DEF Reports, Asked, Fresh, Named, Settled, Reached, Complete
<1>2. ASSUME Edit PROVE IInv'
  <2>1. /\ UNCHANGED <<now, packages, status, fails>> /\ queued' = TRUE
        /\ spec' \in Addresses /\ edits' \in 0 .. MaxEdits
    BY <1>2 DEF Edit, TypeOK
  <2>2. CASE run = Idle
    <3>1. run' = Idle
      BY <1>2, <2>2 DEF Edit
    <3>2. TypeOK'
      BY <2>1, <3>1 DEF TypeOK
    <3> QED
      BY <2>1, <2>2, <3>1, <3>2 DEF Reports, Asked, Fresh, Named, Settled, Idle
  <2>3. CASE run # Idle
    <3>1. run \in Run /\ run' = [run EXCEPT !.current = FALSE]
      BY <1>2, <2>3, RunTyped DEF Edit
    <3>2. /\ run' \in Run /\ run'.pc = run.pc /\ run'.spec = run.spec /\ run'.status = run.status
          /\ run'.package = run.package /\ run'.left = run.left
          /\ run'.installed = run.installed /\ run'.failed = run.failed
      BY <3>1 DEF Run
    <3>3. run' # Idle
      BY <3>2 DEF Run, Idle
    <3>4. TypeOK'
      BY <2>1, <3>2 DEF TypeOK
    <3> QED
      BY <2>1, <2>3, <3>2, <3>3, <3>4
      DEF Reports, Asked, Fresh, Named, Settled, Reached, Complete
  <2> QED
    BY <2>2, <2>3
<1>3. ASSUME Restart PROVE IInv'
  <2>1. /\ run' = Idle /\ queued' = TRUE /\ UNCHANGED <<now, packages, spec, status, edits>>
        /\ fails' \in 0 .. MaxFails
    BY <1>3 DEF Restart, Fault, TypeOK
  <2>2. TypeOK'
    BY <2>1 DEF TypeOK
  <2> QED
    BY <2>1, <2>2 DEF Reports, Asked, Fresh, Named, Settled, Idle
<1> QED
  BY <1>1, <1>2, <1>3

-----------------------------------------------------------------------------
(* The theorems.                                                            *)

(* The invariant of the installation: every report, sent or still carried   *)
(* by a run, names only peers that hold its package.                        *)
THEOREM InstallInvariant == Spec => []IInv
<1>1. IInv /\ [Next]_vars => IInv'
  BY InstallStep, RunStep, ConditionStep, UpdateStep, OtherStep DEF Next, Reconcile
<1> QED
  BY <1>1, InitIInv, PTL DEF Spec

(* Resource, peers and run stay well typed, for any peers and addresses     *)
(* (install controller, lines 266-346).                                     *)
THEOREM InstallTypes == Spec => []TypeOK
BY InstallInvariant, PTL DEF IInv

(* The report can be relied on at any time, and a resource at rest has one  *)
(* about every peer and about the package that it asks for (install         *)
(* controller, lines 266-346).                                              *)
THEOREM ReportIsReliable == Spec => []ReportHolds
<1>1. IInv => ReportHolds
  BY DEF IInv, ReportHolds, Reports, Fresh, Named, Complete
<1> QED
  BY <1>1, InstallInvariant, PTL

=============================================================================
