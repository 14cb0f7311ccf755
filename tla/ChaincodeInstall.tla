-------------------------- MODULE ChaincodeInstall --------------------------
(***************************************************************************)
(* The controller of FabricChaincodeInstall: it builds the chaincode        *)
(* package, asks every peer of the resource in turn to install it, and      *)
(* writes down in the status which peers have it.  The package is built     *)
(* anew by every reconcile, from files written on the spot, and their time  *)
(* stamps are part of it: a package is told from another by what the        *)
(* resource asks for and by the second it was built in.                     *)
(*                                                                          *)
(* The peers and the Kubernetes API are external: a peer keeps what was     *)
(* installed, and a package that it has is no error.  Deletion is left out: *)
(* the finalizer does nothing.                                              *)
(***************************************************************************)
EXTENDS Naturals, Sequences, SequencesExt

CONSTANTS
  Peers,      (* Spec.Peers followed by Spec.ExternalPeers, in their order  *)
  Addresses,  (* Spec.ChaincodePackage, of which the address is used        *)
  None,       (* no package yet                                             *)
  MaxTime,    (* bound: seconds                                             *)
  MaxEdits,   (* bound: edits of the resource                               *)
  MaxFails    (* bound: failed calls, lost answers and restarts             *)

Peer    == ToSet(Peers)
Package == [address: Addresses, built: 0 .. MaxTime]

ASSUME PeersAssumption == Peers \in Seq(Peer) /\ IsInjective(Peers)
ASSUME NoneAssumption == None \notin Package
ASSUME InstallBounds == MaxTime \in Nat /\ MaxEdits \in Nat /\ MaxFails \in Nat

VARIABLES
  now,       (* the clock                                                   *)
  packages,  (* what each peer has installed                                *)
  spec,      (* the resource: the address asked for                         *)
  status,    (* the resource: what the operator reports                     *)
  queued,    (* the resource waits for a reconcile                          *)
  run,       (* the reconcile in progress                                   *)
  edits, fails

vars     == <<now, packages, spec, status, queued, run, edits, fails>>
resource == <<spec, status, queued>>

(* Status.Status, PackageID, InstalledPeers, FailedPeers, Message, and the  *)
(* time stamp of the RUNNING condition.                                     *)
Status == [state: {"", "FAILED", "RUNNING"}, package: Package \cup {None},
           installed: SUBSET Peer, failed: SUBSET Peer,
           message: {"", "error"}, since: 0 .. MaxTime]
Blank  == [state |-> "", package |-> None, installed |-> {}, failed |-> {},
           message |-> "", since |-> 0]

(* A run: the copy of the resource with the status to be written; current   *)
(* says that nobody has changed the resource since it was read; left is how *)
(* many peers are still to be asked.                                        *)
Run  == [pc: {"clients", "install", "condition", "update"}, spec: Addresses,
         current: BOOLEAN, package: Package \cup {None}, left: 0 .. Len(Peers),
         installed: SUBSET Peer, failed: SUBSET Peer, status: Status]
Idle == [pc |-> "idle"]

At(pc) == run.pc = pc
Fault  == fails < MaxFails /\ fails' = fails + 1

Init ==
  /\ now = 0
  /\ packages = [p \in Peer |-> {}]
  /\ spec \in Addresses
  /\ status = Blank /\ queued = TRUE /\ run = Idle
  /\ edits = 0 /\ fails = 0

Tick ==
  /\ now < MaxTime /\ now' = now + 1
  /\ UNCHANGED <<packages, resource, run, edits, fails>>

Edit ==
  /\ edits < MaxEdits /\ edits' = edits + 1
  /\ \E a \in Addresses \ {spec} : spec' = a
  /\ queued' = TRUE
  /\ run' = IF run = Idle THEN run ELSE [run EXCEPT !.current = FALSE]
  /\ UNCHANGED <<now, packages, status, fails>>

-----------------------------------------------------------------------------
Begin ==
  /\ queued /\ run = Idle
  /\ queued' = FALSE
  /\ run' = [pc |-> "clients", spec |-> spec, current |-> TRUE, package |-> None,
             left |-> Len(Peers), installed |-> {}, failed |-> {}, status |-> status]
  /\ UNCHANGED <<now, packages, spec, status, edits, fails>>

(* A client, the network configuration, the identity or a file fails.       *)
CallFails ==
  /\ At("clients") /\ Fault
  /\ run' = [run EXCEPT !.pc = "condition"]
  /\ UNCHANGED <<now, packages, resource, edits>>

(* The operator stops and starts again.                                     *)
Restart ==
  /\ run # Idle /\ Fault
  /\ run' = Idle /\ queued' = TRUE
  /\ UNCHANGED <<now, packages, spec, status, edits>>

generateChaincodePackage ==
  /\ At("clients")
  /\ run' = [run EXCEPT !.pc = "install", !.package = [address |-> run.spec, built |-> now]]
  /\ UNCHANGED <<now, packages, resource, edits, fails>>

(* The next peer of the loops over Spec.Peers and Spec.ExternalPeers.       *)
Target == Peers[Len(Peers) - run.left + 1]

(* Mutant: an error is not told from a success.                             *)
RecordedBlind(ok) == [run EXCEPT !.left = @ - 1, !.installed = @ \cup {Target}]

(* Mutant: the list of peers gets the package.                              *)
RecordedPackage(ok) == [run EXCEPT !.left = @ - 1, !.installed = @ \cup {run.package}]

Recorded(ok) ==
  [run EXCEPT !.left      = @ - 1,
              !.installed = IF ok THEN @ \cup {Target} ELSE @,
              !.failed    = IF ok THEN @ ELSE @ \cup {Target}]

(* The peer installs the package, refuses or is not reached, or installs it *)
(* and its answer gets lost.  The loop goes on in every case.               *)
LifecycleInstallCC ==
  /\ At("install") /\ run.left > 0
  /\ \/ /\ packages' = [packages EXCEPT ![Target] = @ \cup {run.package}]
        /\ run' = Recorded(TRUE) /\ UNCHANGED fails
     \/ /\ Fault /\ UNCHANGED packages
        /\ run' = Recorded(FALSE)
     \/ /\ Fault
        /\ packages' = [packages EXCEPT ![Target] = @ \cup {run.package}]
        /\ run' = Recorded(FALSE)
  /\ UNCHANGED <<now, resource, edits>>

(* After the loops the status is RUNNING whatever the peers answered; it    *)
(* replaces the old one as a whole, so that its condition is new as well.   *)
Running ==
  /\ At("install") /\ run.left = 0
  /\ run' = [run EXCEPT !.pc = "update",
       !.status = [state |-> "RUNNING", package |-> run.package, installed |-> run.installed,
                   failed |-> run.failed, message |-> "", since |-> now]]
  /\ UNCHANGED <<now, packages, resource, edits, fails>>

(* setConditionStatus, with the goal FAILED in all calls: a new state is    *)
(* patched into the resource, whatever its version, and the outcome of the  *)
(* patch takes the place of the error.                                      *)
setConditionStatus ==
  /\ At("condition")
  /\ \/ /\ run.status.state = "FAILED"
        /\ run' = [run EXCEPT !.pc = "update", !.status.message = "error"]
        /\ UNCHANGED <<status, queued, fails>>
     \/ /\ run.status.state # "FAILED"
        /\ status' = [status EXCEPT !.state = "FAILED"] /\ queued' = TRUE
        /\ run' = [run EXCEPT !.pc = "update", !.status.state = "FAILED", !.current = TRUE]
        /\ UNCHANGED fails
     \/ /\ run.status.state # "FAILED" /\ Fault
        /\ run' = [run EXCEPT !.pc = "update", !.status.state = "FAILED",
                              !.status.message = "error"]
        /\ UNCHANGED <<status, queued>>
  /\ UNCHANGED <<now, packages, spec, edits>>

(* The API refuses a copy that is not current.                              *)
Accepted == run.current

(* updateCRStatusOrFailReconcile: again after 10 seconds when the update    *)
(* fails, after a minute when the state is FAILED, and at once on the event *)
(* of a changed status.                                                     *)
updateCRStatusOrFailReconcile ==
  /\ At("update")
  /\ \/ /\ Accepted
        /\ status' = run.status
        /\ queued' = (queued \/ status' # status \/ status'.state = "FAILED")
        /\ UNCHANGED fails
     \/ /\ ~Accepted \/ fails < MaxFails
        /\ fails' = IF Accepted THEN fails + 1 ELSE fails
        /\ queued' = TRUE /\ UNCHANGED status
  /\ run' = Idle
  /\ UNCHANGED <<now, packages, spec, edits>>

-----------------------------------------------------------------------------
Reconcile ==
  \/ Begin \/ generateChaincodePackage \/ LifecycleInstallCC \/ Running
  \/ setConditionStatus \/ updateCRStatusOrFailReconcile

Next == Tick \/ Edit \/ Reconcile \/ CallFails \/ Restart

Spec == Init /\ [][Next]_vars

-----------------------------------------------------------------------------
(* Properties.                                                              *)

(* The variables stay in their ranges.                                      *)
TypeOK ==
  /\ now \in 0 .. MaxTime
  /\ packages \in [Peer -> SUBSET Package]
  /\ spec \in Addresses /\ status \in Status /\ queued \in BOOLEAN
  /\ run \in Run \cup {Idle}
  /\ edits \in 0 .. MaxEdits /\ fails \in 0 .. MaxFails

Settled == run = Idle /\ ~queued

(* The report can be relied on: a peer named as installed holds the package *)
(* named beside it, at any time and whatever failed, restarted or was       *)
(* edited since; and when the resource has come to rest, every peer is      *)
(* named once and the package is the one that the spec asks for (install    *)
(* controller, lines 266-346).                                              *)
ReportHolds ==
  /\ \A p \in status.installed : status.package \in packages[p]
  /\ Settled => /\ status.installed \cup status.failed = Peer
                /\ status.installed \cap status.failed = {}
                /\ status.package.address = spec

=============================================================================
