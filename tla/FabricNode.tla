----------------------------- MODULE FabricNode -----------------------------
(***************************************************************************)
(* A certificate authority, peer or orderer node: its resource, the Helm    *)
(* release that the operator keeps for it, and the controller that brings   *)
(* the one to the other.  The three controllers share their skeleton.  A    *)
(* reconcile undoes an upgrade or rollback that was cut off, decides        *)
(* whether the node's certificate has to be renewed, upgrades the release   *)
(* with the certificate that it finds in the cluster or with a new one, and *)
(* writes the outcome into the status.                                      *)
(*                                                                          *)
(* Helm, the cluster and the server that signs certificates are external.   *)
(* A release is a sequence of revisions, each with a status and with what   *)
(* it put into the cluster; an operation first records a pending revision,  *)
(* then applies it, the secrets before the rest, and then marks it as       *)
(* deployed or failed.  Pods carry the checksums of the secrets, so that    *)
(* they follow what is applied.  The controller reads resources from a      *)
(* cache that lags behind.                                                  *)
(*                                                                          *)
(* Only the node's controller touches its release, and one worker has the   *)
(* node at a time, so that a Helm operation is one step; the operator can   *)
(* stop in the middle of it.  There is no work queue: a reconcile is        *)
(* repeated after an error, after an hour at most when it went well, and    *)
(* when the informers hand out every resource again, after ten hours.  Left *)
(* out are the states shown to readers, the Service of a peer, the wait for *)
(* a genesis block and certificates kept in external secrets.  Automatic    *)
(* renewal, a flag of the operator, is switched on.                         *)
(***************************************************************************)
EXTENDS Naturals, Sequences, FiniteSets, FiniteSetsExt, SequencesExt

CONSTANTS
  Values,      (* what a resource asks for besides certificates             *)
  None,        (* nothing deployed                                          *)
  MaxHistory,  (* helm-max-history: revisions that Helm keeps               *)
  MaxEvents,   (* bound: edits, requests, ageing and faults                 *)
  MaxAhead     (* bound: requests within five minutes of a renewal          *)

ASSUME NoneAssumption == Values # {} /\ None \notin Values
(* With two Helm could drop the revision that an upgrade is rolled back to. *)
ASSUME HistoryAssumption == MaxHistory \in Nat /\ MaxHistory > 2
ASSUME EventsBound == MaxEvents \in Nat
ASSUME AheadBound == MaxAhead \in Nat

Kinds  == {"ca", "peer", "orderer"}
Status == {"deployed", "superseded", "failed", "pending-install", "pending-upgrade",
           "pending-rollback", "uninstalling"}

VARIABLES
  kind,     (* of the node, for good                                        *)
  res,      (* the resource; requests for renewal are counted, last is the  *)
            (* one that LastCertificateUpdate covers                        *)
  cache,    (* the resource as the operator's cache has it                  *)
  history,  (* the release's revisions                                      *)
  live,     (* what is in the cluster; certificates are numbered as issued, *)
            (* for an authority they stand for its root key                 *)
  due,      (* certificates up to this one expire within 15 days            *)
  expired,  (* certificates up to this one have expired                     *)
  misread,  (* a secret that is there could not be read                     *)
  run,      (* the reconcile in progress                                    *)
  events    (* edits, requests, ageing and faults so far                    *)

vars    == <<kind, res, cache, history, live, due, expired, misread, run, events>>
time    == <<due, expired>>
release == <<history, live>>

Nothing == [vals |-> None, cert |-> 0]
Idle    == [pc |-> "idle"]
At(pc)  == run.pc = pc
End     == run' = Idle
Event   == events < MaxEvents /\ events' = events + 1
Calm    == UNCHANGED events

(* A resource as it is created; its version, which every write changes, is  *)
(* never used again.                                                        *)
Created(v) ==
  [phase |-> "there", version |-> 1, vals |-> v, asked |-> 0, last |-> 0, shown |-> 0]
Written(r) == IF r = res THEN res ELSE [r EXCEPT !.version = res.version + 1]

Init ==
  /\ kind \in Kinds
  /\ res = Created(CHOOSE v \in Values : TRUE) /\ cache = res
  /\ history = <<>> /\ live = Nothing
  /\ due = 0 /\ expired = 0 /\ misread = FALSE
  /\ run = Idle /\ events = 0

-----------------------------------------------------------------------------
(* The administrators, the cache and time.                                  *)

Manage(r) == Event /\ res' = Written(r) /\ UNCHANGED <<kind, cache, release, time, misread, run>>

Edit    == res.phase = "there" /\ \E v \in Values \ {res.vals} : Manage([res EXCEPT !.vals = v])
Request == res.phase = "there" /\ kind # "ca" /\ Manage([res EXCEPT !.asked = @ + 1])
Delete  == res.phase = "there" /\ Manage([res EXCEPT !.phase = "deleting"])
Create  == res.phase = "gone" /\ \E v \in Values : Manage(Created(v))

Sync ==
  /\ cache # res /\ cache' = res
  /\ UNCHANGED <<kind, res, release, time, misread, run, events>>

Age ==
  /\ Event /\ kind # "ca"
  /\ \/ due < live.cert /\ due' = live.cert /\ UNCHANGED expired
     \/ expired < due /\ expired' = due /\ UNCHANGED due
  /\ UNCHANGED <<kind, res, cache, release, misread, run>>

-----------------------------------------------------------------------------
(* Helm.                                                                    *)

LatestIs(s) == history # <<>> /\ Last(history).status \in s
Pending     == {"pending-install", "pending-upgrade", "pending-rollback"}
Deployed(h) == {i \in DOMAIN h : h[i].status = "deployed"}

Superseded(h) == [i \in DOMAIN h |-> [h[i] EXCEPT !.status = IF @ = "deployed" THEN "superseded" ELSE @]]

(* An upgrade makes room for its revision: the oldest go, but not the one   *)
(* that is deployed.  A rollback drops nothing.                             *)
Excess == IF Len(history) < MaxHistory THEN 0 ELSE Len(history) + 1 - MaxHistory

Kept ==
  LET saved == {i \in Deployed(history) : i <= Excess} IN
  IF saved = {} THEN SubSeq(history, Excess + 1, Len(history))
  ELSE <<history[Max(saved)]>> \o SubSeq(history, Excess + 2, Len(history))

Revision(s, c) == [status |-> s, vals |-> c.vals, cert |-> c.cert]
Content(r)     == [vals |-> r.vals, cert |-> r.cert]

(* What an operation has applied when it is cut off.                        *)
Partly(c) == {live, [live EXCEPT !.cert = c.cert], c}

(* An operation on the revisions h.                                         *)
Succeeds(h, c) ==
  /\ history' = Append(Superseded(h), Revision("deployed", c))
  /\ live' = c

(* An error marks the revision as failed, a crash leaves it pending, at     *)
(* last when the one that was deployed has been superseded already.         *)
CutOff(h, pending, c) ==
  /\ Event
  /\ \/ /\ \E s \in {"failed", pending} : history' = Append(h, Revision(s, c))
        /\ live' \in Partly(c)
     \/ history' = Append(Superseded(h), Revision(pending, c)) /\ live' = c
  /\ End

(* Helm refuses to upgrade what is pending, or was never deployed unless    *)
(* the attempt has failed.                                                  *)
Refused == LatestIs(Pending) \/ (Deployed(history) = {} /\ ~LatestIs({"failed"}))

(* Every certificate that is issued is another one.                         *)
NewCert == 1 + Max({live.cert, due, res.shown} \cup {history[i].cert : i \in DOMAIN history})

-----------------------------------------------------------------------------
(* The reconcile.                                                           *)

(* Mutants: the oldest revision is restored; only an upgrade is repaired.   *)
RollbackTargetsOldest ==
  IF LatestIs({"pending-upgrade"}) THEN {1}
  ELSE {i \in Deployed(history) : LatestIs({"pending-rollback"})}

RollbackTargetsUpgrade ==
  IF LatestIs({"pending-upgrade"}) THEN {Len(history) - 1} ELSE {}

(* An upgrade that was cut off is rolled back to the revision before it, a  *)
(* rollback is repeated with the newest deployed revision.                  *)
RollbackTargets ==
  IF LatestIs({"pending-upgrade"}) THEN {Len(history) - 1}
  ELSE {i \in Deployed(history) : LatestIs({"pending-rollback"})}

(* After the rollback of an upgrade no upgrade follows in this reconcile.   *)
Decide ==
  run' = [pc   |-> IF history = <<>> THEN "install" ELSE "decide", copy |-> cache,
          skip |-> LatestIs({"pending-upgrade"})]

Begin ==
  /\ run = Idle /\ cache.phase = "there"
  /\ IF RollbackTargets = {} THEN UNCHANGED release
     ELSE Succeeds(history, Content(history[Max(RollbackTargets)]))
  /\ Decide
  /\ UNCHANGED <<kind, res, cache, time, misread, events>>

RollbackCutOff ==
  /\ run = Idle /\ cache.phase = "there" /\ RollbackTargets # {}
  /\ CutOff(history, "pending-rollback", Content(history[Max(RollbackTargets)]))
  /\ UNCHANGED <<kind, res, cache, time, misread>>

(* No release: the node is enrolled and the chart installed.                *)
Install ==
  LET c == [vals |-> run.copy.vals, cert |-> NewCert] IN
  /\ At("install")
  /\ \/ Succeeds(<<>>, c) /\ Calm /\ End
     \/ CutOff(<<>>, "pending-install", c)
  /\ UNCHANGED <<kind, res, cache, time, misread>>

(* Mutant: requests are compared with the status in the cache.              *)
RenewalRequestedCached == run.copy.asked > run.copy.last

(* The status is read afresh, the request from the copy; a peer that was    *)
(* never renewed reads it afresh too.                                       *)
RenewalRequested ==
  IF kind = "peer" /\ res.last = 0 THEN res.asked > 0 ELSE run.copy.asked > res.last

Renews == kind # "ca" /\ (RenewalRequested \/ live.cert <= due)

(* A peer's request is read from the copy even if only the fresh resource   *)
(* has one: the reconcile panics and is tried again.                        *)
Panics == kind = "peer" /\ res.last > 0 /\ res.asked > 0 /\ run.copy.asked = 0

(* The crypto material must be there, for an authority the Deployment too.  *)
Readable == live.cert > 0 /\ (kind = "ca" => live.vals # None)

(* The authority reads its resource again.                                  *)
Copy == IF kind = "ca" THEN cache ELSE run.copy

(* Mutant: an authority that is changed makes a new root key.               *)
ConfigNewRoot(c) ==
  IF kind = "ca" /\ c.vals # live.vals THEN [vals |-> c.vals, cert |-> NewCert]
  ELSE [vals |-> c.vals, cert |-> live.cert]

(* The configuration of an upgrade takes the certificate from the cluster.  *)
Config(c) == [vals |-> c.vals, cert |-> live.cert]

(* Nothing can be read, Helm refuses, or an orderer's certificate is too    *)
(* old to be used for another one: the reconcile fails.                     *)
Fails ==
  /\ At("decide")
  /\ \/ ~Readable \/ Panics
     \/ Refused /\ (Renews \/ ~run.skip)
     \/ Renews /\ kind = "orderer" /\ live.cert <= expired
  /\ End
  /\ UNCHANGED <<kind, res, cache, release, time, misread, events>>

(* An authority shows what it has found before the upgrade.                 *)
Record(c, renewed) ==
  run' = [pc |-> "record", copy |-> c, renewed |-> renewed,
          shown |-> IF kind = "ca" THEN live.cert ELSE live'.cert]

(* A secret that cannot be read counts as missing: the node is enrolled, an *)
(* authority makes a new root key.                                          *)
UpgradeChart ==
  LET c == Copy IN
  /\ At("decide") /\ Readable /\ ~Panics /\ ~Renews
  /\ \/ run.skip /\ UNCHANGED <<release, misread, events>> /\ Record(c, FALSE)
     \/ /\ ~run.skip /\ ~Refused
        /\ \/ Succeeds(Kept, Config(c)) /\ Record(c, FALSE) /\ UNCHANGED misread /\ Calm
           \/ /\ Event /\ misread' = TRUE
              /\ Succeeds(Kept, [vals |-> c.vals, cert |-> NewCert]) /\ Record(c, FALSE)
           \/ CutOff(Kept, "pending-upgrade", Config(c)) /\ UNCHANGED misread
  /\ UNCHANGED <<kind, res, cache, time>>

(* The state UpdatingCertificates is patched into the resource, which       *)
(* brings the copy up to date; that the patch fails is logged and no more.  *)
UpdateCerts ==
  /\ At("decide") /\ Readable /\ ~Panics /\ Renews /\ ~Refused
  /\ kind = "orderer" => live.cert > expired
  /\ \E copy \in {res, run.copy} :
       LET c == [vals |-> copy.vals, cert |-> NewCert] IN
       \/ Succeeds(Kept, c) /\ Record(copy, TRUE) /\ (IF copy = res THEN Calm ELSE Event)
       \/ CutOff(Kept, "pending-upgrade", c)
  /\ UNCHANGED <<kind, res, cache, time, misread>>

(* Mutant: every reconcile records a renewal.                               *)
CoveredAlways == {res.last + 1}

(* A renewal is recorded five minutes ahead: the next requests may be       *)
(* covered already.                                                         *)
Covered ==
  IF run.renewed THEN {n \in res.asked .. res.asked + MaxAhead : n >= res.last} ELSE {res.last}

(* The status of a copy that is not current is refused.                     *)
WriteStatus ==
  /\ At("record")
  /\ IF run.copy # res THEN UNCHANGED res
     ELSE \E n \in Covered : res' = Written([res EXCEPT !.last = n, !.shown = run.shown])
  /\ End
  /\ UNCHANGED <<kind, cache, release, time, misread, events>>

(* Deletion: whatever the uninstallation says, the finalizer is removed,    *)
(* unless the copy is not current.                                          *)
Finalize ==
  /\ run = Idle /\ cache.phase = "deleting"
  /\ \/ history' = <<>> /\ live' = Nothing /\ Calm
     \/ /\ Event /\ history # <<>>
        /\ history' = [history EXCEPT ![Len(history)].status = "uninstalling"]
        /\ live' \in {live, Nothing}
  /\ run' = [pc |-> "finalize", copy |-> cache]
  /\ UNCHANGED <<kind, res, cache, time, misread>>

RemoveFinalizer ==
  /\ At("finalize")
  /\ IF run.copy # res THEN UNCHANGED res ELSE res' = Written([res EXCEPT !.phase = "gone"])
  /\ End
  /\ UNCHANGED <<kind, cache, release, time, misread, events>>

(* A call fails or the operator stops between two Helm operations.          *)
CallFails ==
  /\ run # Idle /\ Event /\ End
  /\ UNCHANGED <<kind, res, cache, release, time, misread>>

-----------------------------------------------------------------------------
Reconcile ==
  \/ Begin \/ Install \/ Fails \/ UpgradeChart \/ UpdateCerts \/ WriteStatus
  \/ Finalize \/ RemoveFinalizer

Next ==
  \/ Edit \/ Request \/ Delete \/ Create \/ Age
  \/ Sync \/ Reconcile
  \/ RollbackCutOff \/ CallFails

Spec == Init /\ [][Next]_vars

(* The worker goes on and the cache catches up.                             *)
FairSpec == Spec /\ WF_vars(Reconcile) /\ WF_vars(Sync)

-----------------------------------------------------------------------------
(* Properties.                                                              *)

(* The variables stay in their ranges, one revision at most is deployed,    *)
(* and the status never covers requests beyond the five minutes by which a  *)
(* renewal is recorded ahead (orderer controller, line 240).                *)
Contents  == [vals: Values \cup {None}, cert: Nat]
Resources == [phase: {"there", "deleting", "gone"}, version: Nat, vals: Values,
              asked: Nat, last: Nat, shown: Nat]
TypeOK ==
  /\ kind \in Kinds
  /\ res \in Resources /\ cache \in Resources
  /\ res.last <= res.asked + MaxAhead /\ Cardinality(Deployed(history)) <= 1
  /\ \A i \in DOMAIN history : history[i].status \in Status /\ Content(history[i]) \in Contents
  /\ live \in Contents
  /\ expired <= due /\ misread \in BOOLEAN /\ events \in 0 .. MaxEvents

(* The certificate that the status of a node shows, and with it every       *)
(* renewal that is recorded, is never taken back: however upgrades and      *)
(* rollbacks are cut off, what is rolled back to is as new (orderer         *)
(* controller, lines 158-191).                                              *)
RenewalIsNotUndone == res.phase = "there" => res.shown <= live.cert

(* A certificate is renewed only when a request is not yet covered or it    *)
(* is about to expire, although the controller works on a copy that may be  *)
(* older than its own last renewal (lines 205-226).                         *)
Renewed == At("record") /\ run.renewed
NoNeedlessRenewal ==
  [][Renewed' /\ ~Renewed => res.asked > res.last \/ live.cert <= due]_vars

(* The root key of an authority stays what it was at its installation       *)
(* through edits, failed and repaired upgrades and restarts, as long as     *)
(* every secret that is there can be read (GetConfig of the authority,      *)
(* lines 491-505).                                                          *)
RootKept ==
  [][kind = "ca" /\ ~misread' /\ live.cert # 0 /\ live'.cert # 0 => live'.cert = live.cert]_vars

(* A node that stays is in the end what its resource asks for, with a       *)
(* certificate that is not about to expire and every request covered, even  *)
(* if upgrades, rollbacks and renewals were cut off anywhere.  The operator *)
(* does not get over an installation that was cut off or failed before the  *)
(* secrets were there, over a rollback that was cut off or an               *)
(* uninstallation that failed when nothing is deployed, or over an          *)
(* orderer's certificate that has expired, unless a rollback brings back a  *)
(* newer one (orderer, lines 158-250).                                      *)
Stuck ==
  \/ LatestIs({"pending-install"})
  \/ LatestIs({"pending-rollback", "uninstalling"}) /\ Deployed(history) = {}
  \/ history # <<>> /\ ~Readable
  \/ kind = "orderer" /\ history # <<>> /\ live.cert <= expired /\ RollbackTargets = {}
UpToDate == live.vals = res.vals /\ res.asked <= res.last /\ (kind # "ca" => live.cert > due)
Settles  == <>[](res.phase = "there") => <>[]UpToDate \/ <>[]Stuck

=============================================================================
