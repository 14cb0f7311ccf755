------------------------- MODULE ChaincodeLifecycle -------------------------
(***************************************************************************)
(* From approval to commit of a chaincode definition, as the operator's two *)
(* controllers drive it.  Every organization has a FabricChaincodeApprove   *)
(* resource in its own cluster and one of them a FabricChaincodeCommit; an  *)
(* administrator edits them, a controller reconciles each (one worker per   *)
(* controller and cluster), and the answers of Fabric's lifecycle chaincode *)
(* decide what it writes into the resource's status.  A reconcile is a row  *)
(* of remote calls: between two of them anything else may happen, and the   *)
(* resource it works for may be edited.                                     *)
(*                                                                          *)
(* The lifecycle chaincode, its endorsement policy (a majority of the       *)
(* organizations) and the Kubernetes API are external.  Deletion is left    *)
(* out: the finalizers of both kinds do nothing.                            *)
(***************************************************************************)
EXTENDS Naturals, Sequences, FiniteSets

CONSTANTS
  Setups,       (* channels and the bounds to look at them with, see below  *)
  Committer,    (* the FabricChaincodeCommit resource                       *)
  Params,       (* version, policy, collections and init flag together      *)
  MaxSeq        (* bound: sequences asked for                               *)

ASSUME SetupsAssumption ==
  \A s \in Setups :
    /\ IsFiniteSet(s.orgs) /\ s.orgs # {} /\ Committer \notin s.orgs
    /\ s.packages # {}
    /\ s.coordinated \subseteq s.orgs \cup {Committer}
    /\ s.maxEdits \in Nat /\ s.maxFails \in Nat
ASSUME SequenceBound == MaxSeq \in Nat \ {0}
ASSUME ParamsAssumption == Params # {}

VARIABLE setup  (* one of Setups, for good *)

(* The organizations of the channel, their package ids, the resources whose *)
(* administrators move on only when a sequence is committed, and the bounds *)
(* on the edits of resources and on failed calls, lost answers, restarts.   *)
Orgs        == setup.orgs
Packages    == setup.packages
Coordinated == setup.coordinated
MaxEdits    == setup.maxEdits
MaxFails    == setup.maxFails

Resources  == Orgs \cup {Committer}
Definition == [sequence: 1 .. MaxSeq, params: Params, package: Packages]

VARIABLES
  defined,   (* the channel: parameters of the committed sequences 1, 2...  *)
  approved,  (* the channel: what each organization approved, by sequence   *)
  height,    (* the sequence that each organization's peers have applied    *)
  spec,      (* the resources: what is asked for                            *)
  status,    (* the resources: what the operator reports                    *)
  queued,    (* the resources waiting for a reconcile                       *)
  run,       (* the reconcile in progress for each resource                 *)
  edits, fails

vars    == <<setup, defined, approved, height, spec, status, queued, run, edits, fails>>
channel == <<defined, approved, height>>
cluster == <<spec, status, queued>>
bounds  == <<edits, fails>>

Approval == [params: Params, package: Packages]
None     == [params |-> "none", package |-> "none"]

(* Status.Status, the RUNNING condition and Status.Message.                 *)
Status == [state: {"", "FAILED", "RUNNING"}, running: {"", "True", "False"},
           message: {"", "error", "approved", "already approved",
                     "already committed", "committed"}]
Blank  == [state |-> "", running |-> "", message |-> ""]

(* A run holds the copy of the resource that it has read, with the status   *)
(* it is going to write; current says that nobody has changed the resource  *)
(* since; goal is the state setConditionStatus is called with.              *)
Pc   == {"clients", "query", "approve", "commit", "condition", "update"}
Run  == [pc: Pc, spec: Definition, current: BOOLEAN, status: Status, goal: {"", "FAILED", "RUNNING"}]
Idle == [pc |-> "idle"]

At(r, pc) == run[r].pc = pc
Ask(r)    == run[r].spec

(* Which parameters and package the resources begin with makes no           *)
(* difference.                                                              *)
First(S) == CHOOSE x \in S : TRUE

Init ==
  /\ setup \in Setups
  /\ defined = <<>>
  /\ approved = [o \in Orgs |-> [n \in 1 .. MaxSeq |-> None]]
  /\ height = [o \in Orgs |-> 0]
  /\ spec = [r \in Resources |->
               [sequence |-> 1, params |-> First(Params), package |-> First(Packages)]]
  /\ status = [r \in Resources |-> Blank]
  /\ queued = Resources
  /\ run = [r \in Resources |-> Idle]
  /\ edits = 0 /\ fails = 0

-----------------------------------------------------------------------------
(* The administrators and the channel.                                      *)

(* Coordinated administrators ask for the next sequence when all peers show *)
(* the current one as committed; the others ask for what they like.         *)
Edit(r) ==
  /\ edits < MaxEdits
  /\ \E d \in Definition \ {spec[r]} :
       /\ r = Committer => d.package = spec[r].package
       /\ r \in Coordinated =>
            \/ d.sequence = spec[r].sequence
            \/ /\ d.sequence = spec[r].sequence + 1
               /\ \A o \in Orgs : height[o] >= spec[r].sequence
       /\ spec' = [spec EXCEPT ![r] = d]
  /\ queued' = queued \cup {r}
  /\ run' = IF run[r] = Idle THEN run ELSE [run EXCEPT ![r].current = FALSE]
  /\ edits' = edits + 1
  /\ UNCHANGED <<channel, status, fails>>

(* The peers of an organization apply the block with the next definition.   *)
Deliver(o) ==
  /\ height[o] < Len(defined)
  /\ height' = [height EXCEPT ![o] = @ + 1]
  /\ UNCHANGED <<defined, approved, cluster, run, bounds>>

-----------------------------------------------------------------------------
(* Steps that both reconcilers share.                                       *)

Go(r, pc)       == run' = [run EXCEPT ![r].pc = pc]
Condition(r, s) == run' = [run EXCEPT ![r].pc = "condition", ![r].goal = s]

(* Mutant: the message is passed for the state.                             *)
FailByMessage(r) == Condition(r, "error")
Fail(r)          == Condition(r, "FAILED")

(* Running with a message: the status is changed in memory only.            *)
Running(r, m) ==
  run' = [run EXCEPT ![r].pc = "update",
                     ![r].status = [state |-> "RUNNING", running |-> "True", message |-> m]]

Begin(r) ==
  /\ r \in queued /\ run[r] = Idle
  /\ queued' = queued \ {r}
  /\ run' = [run EXCEPT ![r] = [pc |-> "clients", spec |-> spec[r], current |-> TRUE,
                                status |-> status[r], goal |-> ""]]
  /\ UNCHANGED <<channel, spec, status, bounds>>

(* A client, the network configuration, the identity, the policy, a query   *)
(* or a transaction fails.                                                  *)
CallFails(r) ==
  /\ run[r].pc \in {"clients", "approve", "commit"}
  /\ fails < MaxFails /\ fails' = fails + 1
  /\ Fail(r)
  /\ UNCHANGED <<channel, cluster, edits>>

(* The operator stops; after the restart its informers list every resource. *)
Restart(r) ==
  /\ run[r] # Idle
  /\ fails < MaxFails /\ fails' = fails + 1
  /\ run' = [run EXCEPT ![r] = Idle]
  /\ queued' = queued \cup {r}
  /\ UNCHANGED <<channel, spec, status, edits>>

(* setConditionStatus.  A new state is patched into the resource, whatever  *)
(* its version, and the outcome of the patch takes the place of the error:  *)
(* the message stays what it was.  When the state is as it was the error's  *)
(* text becomes the message.  The RUNNING condition is touched only under   *)
(* the goal RUNNING, and its flag is false there too.                       *)
setConditionStatus(r) ==
  LET p   == run[r].status
      new == p.state # run[r].goal
      out == [state   |-> run[r].goal,
              running |-> IF run[r].goal = "RUNNING" THEN "False" ELSE p.running,
              message |-> CASE new                     -> status[r].message
                            [] run[r].goal = "FAILED"  -> "error"
                            [] run[r].goal = "RUNNING" -> "already approved"]
  IN
  /\ At(r, "condition")
  /\ run' = [run EXCEPT ![r].pc = "update", ![r].status = out, ![r].current = @ \/ new]
  /\ status' = IF new THEN [status EXCEPT ![r].state = run[r].goal] ELSE status
  /\ queued' = IF new THEN queued \cup {r} ELSE queued
  /\ UNCHANGED <<channel, spec, bounds>>

(* The patch fails: the state is changed in memory only.                    *)
PatchFails(r) ==
  /\ At(r, "condition") /\ run[r].status.state # run[r].goal
  /\ fails < MaxFails /\ fails' = fails + 1
  /\ run' = [run EXCEPT ![r].pc = "update", ![r].status.state = run[r].goal,
                        ![r].status.message = "error",
                        ![r].status.running = IF run[r].goal = "RUNNING" THEN "False" ELSE @]
  /\ UNCHANGED <<channel, cluster, edits>>

(* Mutant: neither a conflict nor a failure is retried.                     *)
RequeuedNever(r, conflict) == status'[r] # status[r]

(* What puts the resource back into the queue: a conflict after 10 seconds, *)
(* a failure after a minute, and the event of a changed status.             *)
Requeued(r, conflict) == conflict \/ status'[r] # status[r] \/ run[r].status.state = "FAILED"

(* updateCRStatusOrFailReconcile: the API refuses a copy that is not        *)
(* current, and may fail otherwise.                                         *)
updateCRStatusOrFailReconcile(r) ==
  /\ At(r, "update")
  /\ \E ok \in {run[r].current, FALSE} :
       /\ fails' = IF ok = run[r].current THEN fails ELSE fails + 1
       /\ fails' <= MaxFails
       /\ status' = IF ok THEN [status EXCEPT ![r] = run[r].status] ELSE status
       /\ queued' = IF Requeued(r, ~ok) THEN queued \cup {r} ELSE queued
  /\ run' = [run EXCEPT ![r] = Idle]
  /\ UNCHANGED <<channel, spec, edits>>

-----------------------------------------------------------------------------
(* The approve controller.  It asks the first peer that the resource names. *)

QueryCommitted(o) ==
  LET n == Ask(o).sequence IN
  /\ At(o, "clients")
  /\ \/ n > 1 /\ height[o] = 0 /\ Fail(o)
     \/ n > 1 /\ height[o] >= n /\ Running(o, "already committed")
     \/ n > 1 /\ height[o] \in 1 .. n - 1 /\ Go(o, "query")
     \/ n = 1 /\ Go(o, "query")
  /\ UNCHANGED <<channel, cluster, bounds>>

(* Mutant: an approval of the sequence is enough.                           *)
mustApproveOnce(o) == approved[o][Ask(o).sequence] = None

(* Only package and sequence are compared with the approval that is there.  *)
mustApprove(o) ==
  LET a == approved[o][Ask(o).sequence] IN a = None \/ a.package # Ask(o).package

QueryApproved(o) ==
  /\ At(o, "query")
  /\ IF mustApprove(o) THEN Go(o, "approve") ELSE Condition(o, "RUNNING")
  /\ UNCHANGED <<channel, cluster, bounds>>

(* A failed query counts as nothing approved.                               *)
QueryApprovedFails(o) ==
  /\ At(o, "query") /\ fails < MaxFails /\ fails' = fails + 1
  /\ Go(o, "approve")
  /\ UNCHANGED <<channel, cluster, edits>>

(* The lifecycle chaincode on the peer: it refuses a sequence that is not   *)
(* the current or the next one, other parameters for the current one, and   *)
(* an approval for the next one that changes nothing.                       *)
Asked(o)       == [params |-> Ask(o).params, package |-> Ask(o).package]
OutOfRange(o)  == Ask(o).sequence \notin {height[o], height[o] + 1}
Redefines(o)   ==
  \/ Ask(o).sequence = height[o] /\ defined[height[o]] # Ask(o).params
  \/ Ask(o).sequence = height[o] + 1 /\ approved[o][Ask(o).sequence] = Asked(o)
CanApprove(o)  == ~OutOfRange(o) /\ ~Redefines(o) /\ height[o] = Len(defined)
WriteApproval(o) == approved' = [approved EXCEPT ![o][Ask(o).sequence] = Asked(o)]

(* A refusal to redefine counts as success; an endorsement by a peer that   *)
(* lags behind is invalidated.  The answer to a valid one may get lost.     *)
LifecycleApproveCC(o) ==
  /\ At(o, "approve")
  /\ \/ /\ ~Redefines(o) /\ ~CanApprove(o)
        /\ Fail(o) /\ UNCHANGED <<approved, fails>>
     \/ /\ Redefines(o)
        /\ Running(o, "approved") /\ UNCHANGED <<approved, fails>>
     \/ /\ CanApprove(o) /\ WriteApproval(o)
        /\ Running(o, "approved") /\ UNCHANGED fails
     \/ /\ CanApprove(o) /\ WriteApproval(o)
        /\ fails < MaxFails /\ fails' = fails + 1 /\ Fail(o)
  /\ UNCHANGED <<defined, height, cluster, edits>>

-----------------------------------------------------------------------------
(* The commit controller.                                                   *)

Prepare ==
  /\ At(Committer, "clients")
  /\ Go(Committer, "commit")
  /\ UNCHANGED <<channel, cluster, bounds>>

(* The endorsers, a majority, see their own peers' sequence; the answers    *)
(* that disagree are reported together.                                     *)
Majorities == {T \in SUBSET Orgs : 2 * Cardinality(T) > Cardinality(Orgs)}
NotNext(T) == \E o \in T : height[o] + 1 # Ask(Committer).sequence
Agreed(T)  == \A o \in T : approved[o][Ask(Committer).sequence].params = Ask(Committer).params

(* Mutant: every refusal counts as success.                                 *)
SwallowedAll(T) == NotNext(T) \/ ~Agreed(T)

(* "new definition must be sequence" counts as success.                     *)
Swallowed(T) == NotNext(T)

LifecycleCommitCC ==
  /\ At(Committer, "commit")
  /\ \E T \in Majorities :
       \/ /\ Swallowed(T)
          /\ Running(Committer, "committed") /\ UNCHANGED <<defined, fails>>
       \/ /\ ~Swallowed(T)
          /\ ~Agreed(T) \/ Ask(Committer).sequence # Len(defined) + 1
          /\ Fail(Committer) /\ UNCHANGED <<defined, fails>>
       \/ /\ ~NotNext(T) /\ Agreed(T) /\ Ask(Committer).sequence = Len(defined) + 1
          /\ defined' = Append(defined, Ask(Committer).params)
          /\ \/ Running(Committer, "committed") /\ UNCHANGED fails
             \/ fails < MaxFails /\ fails' = fails + 1 /\ Fail(Committer)
  /\ UNCHANGED <<approved, height, cluster, edits>>

-----------------------------------------------------------------------------
Approve(o) == QueryCommitted(o) \/ QueryApproved(o) \/ LifecycleApproveCC(o)
Commit     == Prepare \/ LifecycleCommitCC
Report(r)  == setConditionStatus(r) \/ updateCRStatusOrFailReconcile(r)
Fault(r)   == CallFails(r) \/ PatchFails(r) \/ Restart(r)

Next ==
  /\ \/ \E r \in Resources : Edit(r) \/ Begin(r) \/ Report(r) \/ Fault(r)
     \/ \E o \in Orgs : Deliver(o) \/ Approve(o) \/ QueryApprovedFails(o)
     \/ Commit
  /\ UNCHANGED setup

Spec == Init /\ [][Next]_vars

(* The workers take what is queued and finish what they take; peers catch   *)
(* up.  Nothing makes an administrator edit or a call fail.                 *)
Works(r) ==
  /\ r \in Resources
  /\ Begin(r) \/ Report(r) \/ (IF r = Committer THEN Commit ELSE Approve(r))
  /\ UNCHANGED setup
CatchesUp(o) == o \in Orgs /\ Deliver(o) /\ UNCHANGED setup

AllOrgs  == UNION {s.orgs : s \in Setups}
Fairness ==
  /\ \A r \in AllOrgs \cup {Committer} : WF_vars(Works(r))
  /\ \A o \in AllOrgs : WF_vars(CatchesUp(o))

FairSpec == Spec /\ Fairness

-----------------------------------------------------------------------------
(* Properties.                                                              *)

(* The variables stay in their ranges; a run of an organization never       *)
(* enters the steps of the commit controller, nor the other way round.      *)
TypeOK ==
  /\ setup \in Setups
  /\ defined \in Seq(Params) /\ Len(defined) <= MaxSeq
  /\ approved \in [Orgs -> [1 .. MaxSeq -> Approval \cup {None}]]
  /\ height \in [Orgs -> 0 .. MaxSeq] /\ \A o \in Orgs : height[o] <= Len(defined)
  /\ spec \in [Resources -> Definition]
  /\ status \in [Resources -> Status]
  /\ queued \subseteq Resources
  /\ run \in [Resources -> Run \cup {Idle}]
  /\ edits \in 0 .. MaxEdits /\ fails \in 0 .. MaxFails
  /\ ~ At(Committer, "query") /\ ~ At(Committer, "approve")
  /\ \A o \in Orgs : ~ At(o, "commit")

(* Nothing is queued and nothing in progress: the status is what the        *)
(* administrator reads until somebody edits the resource.                   *)
Settled(r) == r \notin queued /\ run[r] = Idle
Claims(r)  == Settled(r) /\ status[r].state = "RUNNING"

(* When an approve resource has come to rest as RUNNING, the organization's *)
(* approval on the channel is the one its current spec asks for, or the     *)
(* sequence is committed at its peers: no edit made during a reconcile, no  *)
(* lost answer, restart or lagging peer leaves the status claiming an       *)
(* approval of something else (approve controller, lines 185-267).          *)
ApprovalStands ==
  \A o \in Orgs : Claims(o) =>
    \/ approved[o][spec[o].sequence] =
         [params |-> spec[o].params, package |-> spec[o].package]
    \/ spec[o].sequence > 1 /\ height[o] >= spec[o].sequence

(* When the commit resource has come to rest as RUNNING ("Chaincode         *)
(* committed", commit controller, lines 160-193), the channel has a         *)
(* committed definition with the sequence it asks for.                      *)
CommitStands == Claims(Committer) => spec[Committer].sequence <= Len(defined)

(* A resource whose status is FAILED is waiting for another reconcile or in *)
(* one, whatever went wrong on the way: the retry after a minute is never   *)
(* lost to a conflict, an edit or a restart (lines 239-262 of the commit    *)
(* controller, 313-339 of the approve controller).                          *)
FailedIsRetried == \A r \in Resources : status[r].state = "FAILED" => ~ Settled(r)

(* When the resources of coordinated administrators all ask for a sequence  *)
(* it is committed in the end, in whatever order they were applied, the     *)
(* controllers ran and the peers caught up, also when calls failed, answers *)
(* were lost or controllers restarted on the way (the setup bounds them).   *)
SequenceCommits ==
  \A n \in 1 .. MaxSeq :
    (Coordinated = Resources /\ \A r \in Resources : spec[r].sequence = n) ~> Len(defined) >= n

=============================================================================
