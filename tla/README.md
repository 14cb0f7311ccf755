# A TLA+ model of fabric-cti-sharing

fabric-cti-sharing shares cyber threat intelligence (STIX 2.1 objects) between
organisations over a Hyperledger Fabric channel. This directory holds a formal
model of the parts of it that keep state and interact: TLA+ modules, TLC
configurations that check them on small instances, and TLAPS proofs of all their
safety properties for instances of every size.

    tlc -config MCCTILedger.cfg MCCTILedger          # one of the runs below
    tlapm CTILedgerProofs.tla                        # one of the proof modules

`PROJECT.json` lists the runs with their properties, maps every definition to
the lines it models, gives for each checked property a plausible bug (a
definition that replaces another) that violates it, and lists the hazards the
properties are aimed at.

## The system

| Component | State | Operations | Talks to |
|---|---|---|---|
| STIX chaincode, `cti_stix_chaincode.go` | none of its own; world state of the channel, one key space for all object types | `Create`/`Read` of Indicator, Relationship, Sighting, Bundle; four `GetAllObjects` variants | called by clients on any peer |
| Fabric channel (external) | one chain of transactions; per peer validation codes and world state | simulate, endorse, order, validate, commit | runs the chaincode |
| Web client, `src/components/*` | the bundle (`BundleContext`); dialogs, filters | add, edit, delete, filter; graph; timeline; share; register | `POST /api/share`, a route nothing in the repository serves |
| Caliper workloads, `caliper-benchmark/*.js` | `txIndex` per round; IPFS, Vault and metadata ledger (external) | send: encrypt, add to IPFS, write key to Vault, publish; receive: the way back | IPFS, Vault, the metadata chaincode (`cti/`, not in the repository) |
| Operator, `bevel-operator-fabric/controllers` | Kubernetes resources and their status, secrets, Helm releases, channel configuration | one `Reconcile` per kind: CA, peers, orderers, identity, main and follower channels, chaincode install/approve/commit/deploy | Kubernetes, Helm, Fabric CA, peers, orderers |
| kubectl-hlf | none | one-shot commands | Kubernetes, Fabric |
| server | none | creates a wallet directory | - |

What is hard in it:

* the chaincode checks "does this id exist" and writes in two steps, on a peer
  that may be behind; between them any number of other creates may commit;
* clients see answers of different peers, at different heights, and reports of
  commits that may be late, lost or doubled;
* Caliper does not wait for a call before it starts the next, so that all calls
  of a round share one `this.txIndex` across their awaits, and each call leaves
  three stores one step at a time, any of which may fail;
* the editor's dialogs keep drafts of objects that may be gone;
* a reconciler may fail or be restarted between any two API calls and decides
  from a status it wrote itself whether it runs again;
* one channel configuration is written by several controllers that do not know of
  each other, and an update that was accepted may still be dropped;
* a Helm operation can be cut off anywhere, and what repairs it as well, while
  certificates are renewed with it and expire without it.

What makes each component correct: an id gets at most one object ever, all peers
agree, answers stay true and reports are right (chaincode on Fabric); nothing
incomplete is published, and published keys are kept or lost to calls that overlap
only (exchange); ids are unique, edits are not lost
and deletions cut only what they should (editor); a status at rest tells the truth
about the channel, the peers and the pods, a failure is retried, what is deleted
leaves nothing behind, channel and nodes become what their resources ask for as far
as the code brings it about, no controller undoes what another wrote, and no
repair takes back a renewed certificate or replaces a root key (operator).

## Modules

| Module | What it is | Models |
|---|---|---|
| `CTIContract` | the chaincode functions as operators from a world state to an error or a simulation result | `cti_stix_chaincode.go` |
| `CTILedger` | the chaincode on a channel: calls, endorsement, ordering, validation, commit, reports | the same, and Fabric as external |
| `CTIStore` | abstract specification: a write-once store with replicas that catch up | - |
| `CTILedgerProofs` | theorems about `CTILedger`: that it implements `CTIStore`, and what clients are told | - |
| `BundleEditor` | `ManageView` and the graph of `GraphView` | `ManageView.js`, `GraphView.js` |
| `CTIExchange` | senders and receivers over IPFS, Vault and the metadata ledger | `workload_5_1.js`, `5_2`, `2_1`, `2_2` |
| `ChaincodeLifecycle` | approve and commit controllers of several organizations against one channel | `chaincode_approve_controller.go`, `chaincode_commit_controller.go` |
| `ChaincodeInstall` | install controller and the peers it installs on | `chaincode_install_controller.go` |
| `ChaincodeDeploy` | deploy controller, its secret, Deployment and Service, and the pods | `chaincode_deploy_controller.go` |
| `FabricChannel` | main and follower channel controllers against one channel's configuration | `mainchannel_controller.go`, `followerchannel_controller.go` |
| `FabricNode` | a CA, peer or orderer: its resource, Helm release, certificates and controller | `ca_controller.go`, `peer_controller.go`, `ordnode_controller.go` |
| `BundleEditorProofs`, `CTIExchangeProofs`, `ChaincodeLifecycleProofs`, `ChaincodeInstallProofs`, `ChaincodeDeployProofs`, `FabricChannelProofs`, `FabricNodeProofs` | theorems about the module that each is named after | - |
| `MC*` | finite instances for TLC | - |

### CTIContract and CTILedger

A JSON document is reduced to its type, id and `spec_version`, an opaque body and
the set of Go structs that it cannot be unmarshalled into. `CreateError` is the
sequence of checks of the four `Create` functions in their order (they differ in
the struct and the type only), `CreateSimulation` what a successful one reads and
writes, `ReadResult` what a `Read` function shows of a stored object (the type is
not compared: another type's object decodes to a struct whose own fields are
empty), `GetAllSimulation` the range that `GetStateByRange` reads, absent keys
included.

In `CTILedger` a request is one call of a client. `CallChaincode` simulates it on
one peer's `world`; what was endorsed may be `Broadcast`, and the ordering service
may `Order` it late and more than once; `CommitBlock` validates the next
transaction of the chain (duplicate id, versions read, phantoms in the range read)
and applies it; `CommitStatus` or `Timeout` ends the client's wait. Evaluated
calls (`Read*`, `EvaluateGetAll`) end with the answer. A block holds one
transaction: Fabric validates the transactions of a block in order, each against
the writes of the valid ones before it. Fabric's part is modelled from what the
chaincode relies on, and marked external in the map. Endorsement by more than one
peer is not modelled: all endorsers must return the same result, so it only
removes behaviours.

The run `ledger` has two peers and four requests; the documents make the cases:
two of one id, one that another struct cannot hold, one with an empty id. It checks
`TypeOK`, the inductive invariant `IInv`, `Agreement`, `SubmittedListExact`,
`AnswersStayTrue`, `ReportIsTrue`, `RejectedMeansTaken`, `SnapshotsNested` (two
lists of all objects are ordered by inclusion), `Immutable`, and that `CTILedger`
implements `CTIStore`.

Bounds. A race needs two creates of one id, a third request to watch or disturb
them, and two peers of different height; `SnapshotsNested` needs two writes and two
lists, hence four requests. `MaxChain` bounds the chain and `Asked` the ids
that are read; requests and peers are symmetric. `CHECK_DEADLOCK` is off: when all
requests have been made and the chain is full the model stops. What the run checks
on a few peers the theorems below prove for any number. No liveness is claimed:
whether a call ends and peers catch up is up to clients and to Fabric.

### BundleEditor

The bundle's objects are kept with id, type and references. `handleAdd`,
`handleEdit`, `handleDelete`, `handleSave`, `confirmDelete` (whose
`filter` is `ObjectsAt`) and `handleFilterChange` are the handlers of those names; `SelectType` and `SetRefs`
the fields of the dialog, `Cancel` a dialog closed without saving (the draft is
kept), `Remount` a change of route (everything but the bundle is lost). The
dialogs are modal: nothing behind an open one can be clicked. The search and date
filters narrow the list of objects to click on, which the type filter already
does, and are left out. `Date.now()` is a counter that advances while a dialog is
open; two editors, or a clock set back, are outside the model.

The run `editor` starts from an object, alone or with a relationship that has no
ends yet, and adds two. A colliding id takes two additions with a deletion in
between, a lost edit a draft that outlives its object, a dangling link an end that
is added, picked and deleted. The ends a user picks are bounded by `Picked`.

`TypesNeverGrow` is worth knowing: the dialog offers only the types that the
bundle has, so a type whose last object is deleted or retyped cannot be added
again, and an emptied bundle stays empty.

### CTIExchange

A sender runs from await to await: `StartSend`, `Added` (answer of IPFS; the Vault
name is made here, from the `txIndex` of that moment), `KeyWritten` (answer of
Vault; the UUID is made, from the clock and the `txIndex` of this moment),
`Published`. `SendFails` is a failure of any request, Fabric's included, with or
without its effect; the chaincode refuses a UUID that it has. A receiver goes
`StartReceive`, `GotMetadata`, `GotBlob`, `GotKey`, where `Recovered` is what the GCM
tag and the hash let through. `NewRound` starts the counter again. A request's
effect and the arrival of its answer are one step: what the sender does in between
is wait, and for the counter and the clock only the arrival matters. Keys are
identified with the call that made them and blobs with their content. The entry the
receivers are configured with (`CTI_UUID`) is any entry on the ledger, or a seed
whose `VaultKey` may be a bare name or the whole path. `recent` and `before` are
history variables: what was published in this round, and what of it when a sender
began.

The run `exchange` has three senders and a receiver over several rounds; `mixed`,
chosen once, says whether they are those of workload 5_1 (and 5_2) or of 2_1 and
2_2. `PublishedIsComplete` holds in both. In 2_1, whose names end in a random suffix
(assumed to be different for each call), `KeysKept` holds as well. In 5_1 and 5_2
published keys do get overwritten, and the entry can no longer be decrypted: two
senders use one name when the counter advances between their awaits, or in another
round. `ReplacedByOverlap` says that nothing else overwrites one: a call that begins
after an entry was published, in the same round, never touches its key, although
the name is made two awaits after the counter was advanced. Two senders make an
overlap; the third is one that begins after the first has published while the
second still runs. `MaxIndex` of four lets all calls be in one round.

### The operator's chaincode controllers

The three modules have one shape. A resource has a spec that an administrator
edits at any time and a status that only its controller writes; `queued` is the
work queue, `run` the reconcile in progress with the copy of the resource it has
read. A reconcile is a row of remote calls, one action each, and everything else
may happen between two of them. `current` says that the copy is still the version
the API has: `updateCRStatusOrFailReconcile` fails on a copy that is not. A status
that changes is an event and queues the resource again; so does an edit. The merge
patch of `setConditionStatus` is not checked for the version, returns the current
one, and its outcome takes the place of the error that it was called with; all
three controllers do this. `Restart` is the operator stopping at any point; its
informers list every resource when it comes back. There is one worker per
controller. Failures, lost answers and restarts are counted by `MaxFails`, edits
by `MaxEdits`.

`ChaincodeLifecycle` joins the approve resource of each organization and one
commit resource through the channel: `defined` are the committed definitions,
`approved` the organizations' approvals, `height` what each organization's peers
have applied. The answers of the lifecycle chaincode (not the next sequence,
attempted to redefine, not agreed to) decide what the controllers report, so the
checks of `ApproveChaincodeDefinitionForOrg` and `CommitChaincodeDefinition` are
modelled as external actions' guards. An approval that a lagging peer endorsed is
invalidated by the channel. Package id and parameters are opaque.

| Run | Instance | Shows |
|---|---|---|
| `lifecycle` | five channels, chosen once (`setup`): one organization, 2 packages, 2 sequences in any order and 2 edits, or one edit and 2 faults; two organizations that coordinate, 2 sequences, 3 edits, or a fault on the way to the first; one organization that coordinates with its committer, 2 edits and 2 faults; fairness | `ApprovalStands`, `CommitStands`, `FailedIsRetried`, `SequenceCommits` |
| `lifecycle_early`, `lifecycle_params` | two organizations that do not coordinate; two sets of parameters | `CommitStands` and `ApprovalStands` fail (below) |

`coordinated` names the resources whose administrators move to the next sequence
only when the peers show the current one as committed. The commit resource always
does in `lifecycle`, for otherwise `CommitStands` fails. One organization is enough
for `ApprovalStands` and `FailedIsRetried`: they relate an approve resource to its
own organization's approvals and peers, and a commit by others is a commit. What
2 edits, or one and 2 faults, allow: an edit during a reconcile whose patch or
update fails as well, or two edits in a row. Three edits bring all three resources
of two coordinating organizations to sequence 2, two those of one.

Fairness: a worker takes what is queued and finishes what it took, peers catch
up. Delays of a minute or ten seconds are queue entries. `SequenceCommits` speaks
of coordinated channels, in which faults are failed calls, lost answers, failed
patches and restarts: a fault while two organizations commit their first sequence,
two while one goes through both. Faults and edits of two organizations together are
beyond the run's time; what a fault disturbs is one resource's way through one
sequence.

`ChaincodeInstall` is the loop over the peers. The package is built by every
reconcile from files written at that moment, so a package is its address and the
second it was built in. The run `install` has two peers, two addresses, an edit and
two faults, among them an installation whose answer is lost; `ReportHolds` says
that a peer named in `InstalledPeers` has the package named beside it and that a
report at rest is about the current spec.

`ChaincodeDeploy` follows a resource from creation to deletion and creation under
the same name. The template's renewal annotation (`updatedsecrettime`) is the
serial number of the certificate it was set for, which is what the property is
about, instead of a time. `RollOut` replaces pods whose template is not that of the
Deployment, `Evict` starts them anew for other reasons; both read the secret then.

| Run | Instance | Shows |
|---|---|---|
| `deploy` | 3 edits (creations and deletions count), 2 days, an intervention, a fault; fairness | `NothingLeftBehind`, `StampedPodsServeNewCert`, `RolledOut`, `GoneInTheEnd` |
| `deploy_renewal` | 3 days, certificates of 2 days | `RenewedInTime` fails (below) |

Three edits make a resource, delete it and make it again while the controller is
still at work on the first; with TLS or without is what an edit changes.

Fairness of `deploy`: the worker and the Deployment controller go on and
the informers resync. The resync is needed and is what the code relies on: a failed
reconcile is not requeued (lines 616-623), and the event of its status is missing
when the status is what it was. `RolledOut` leaves out resources whose `podLabels`
were changed: these are also the Deployment's selector, which Kubernetes refuses
to change, and the resource then fails for ever. One set of labels is enough
here; two make the run four times as long and show the same.

Two things that the model shows and that no document speaks about. The reconcile
after a renewal writes the template without the annotation: if it comes before the
Deployment controller replaced the pods, the template is again what it was and the
pods keep the old certificate; and when the update of the Deployment fails after
the secret was renewed, no later reconcile restarts them. An approved chaincode
that is found approved again gets the condition `RUNNING` with status `False`, and
a message of an earlier failure may stay with it.

### FabricChannel

The configuration of a channel is a function from its elements to a value and a
version: members, policies with capabilities (`Application`) and ACLs of the
application section, the channel's capabilities (`Channel`), the orderers' settings
(batches, consenters, organizations, endpoints, revocation lists, policies), their
capabilities and the consensus state, and for each organization its group, with the
certificates it was added with, and its anchor peers with its revocation list.
`updateChannelConfig` and `SetAnchorPeers` compute an update from the configuration
they read: `ApplicationChanges`, `ChannelChanges` and `OrdererChanges` are what the
functions of these sections change in the states in which they are called, and
`Propose` keeps the versions that the update rests on, as `CalculateConfigUpdate`
does. `SaveChannel` hands it in, `Order` applies or drops it. A value stands for the
entries that a resource names; whether policies of other names stay when new ones
are set is up to the library and not looked at.

Some of what a resource asks for is never brought about, and the model has it so.
Orderer capabilities are removed by their new names before these are added, which is
an error for one that is not set, and every reconcile ends with it
(`CapabilityMissing`); those no longer asked for stay. ACLs are removed by their new
names, so that those no longer asked for stay (`Written`). Organizations that stay
keep the certificates they came with (`Added`), unless they leave in one update and
return in a later one.

The first half of the main controller is `QueryConfigBlock`, `JoinOrderers`,
`QueryAgain`. Each reconcile whose query fails makes a genesis block of its own;
`joined` says which block an orderer has joined, the channel is served when a
majority has joined the same one. `Delete` and the rest of a reconcile after it are
there too: `handleInitialSetup` reports no error, so a channel that is being
deleted is reconciled once more. A query or join that fails, and any other failed
call or restart, counts towards `MaxEvents`.

The run `channel` has three orderers, a main channel, two organizations and two
events: an edit of the main channel overtaken by a follower's update and an edit of
the follower; an edit and a failed query; a switch to maintenance and the way back;
an organization removed and added again with other certificates. The resource is
edited among the `Requests`: members, orderer settings and state in any combination,
application section, ACLs and certificates together with other members, the channel
section or a new orderer capability together with the state. `MaxPending` of two
lets one update overtake another. `CHECK_DEADLOCK` is off: a
deleted main channel with every resource served has nothing more to do.

| Property | What it says |
|---|---|
| `AnchorsKept` | while an organization stays, its anchor peers change by its own follower's update only, its certificates not at all |
| `Converges` | while the state stays normal and no orderer capability is missing, the configuration comes to hold what all resources ask for: all sections, the ACLs among others perhaps, the certificates of those that stay left aside |
| `SwitchHappens` | a state that is asked for is reached, also when the application section is edited with it; orderer settings, and on the way back the channel section, must be in place |

Without either premise, that no capability is missing and that the channel section
is in place, TLC finds the property violated: the code does not get over it.

Fairness: orderers order what they took and a controller reconciles again. The
code's reasons for the latter: a FAILED resource is queued again after five minutes
(`updateCRStatusOrFailReconcile` of both), a panic after a back-off, and every
resource when the informers resync, after ten hours by default; the operator's
manager sets no other period (`main.go:129`). The last is what lets a
follower notice that it has become a member, or a lost update be made again.

### FabricNode

The three node controllers are one program with small differences; `kind`, chosen
once, selects them. A release is Helm's sequence of revisions. `Succeeds` is an
operation that ran to its end, `CutOff` one that failed or was interrupted: with
the revision pending or failed and the cluster holding the old content, the new
certificate only, or all of it. `Begin` is the first half of a reconcile, which
undoes an operation that was cut off; `Install`, `UpgradeChart`, `UpdateCerts` and
`Fails` are its continuations, `WriteStatus` its end, `Finalize` and
`RemoveFinalizer` the deletion.

Certificates are numbers in the order of issue, so that "older" is `<`; `due` and
`expired` are the numbers up to which they need renewal or have expired. For an
authority the number stands for its root key. A request for renewal
(`UpdateCertificateTime`) is a count, and `last` the requests that
`LastCertificateUpdate` covers: it is dated five minutes ahead, so that it may cover
up to `MaxAhead` more. `cache` lags behind `res`, and each read is from the one the code reads:
the reconcile works on the cached copy and compares it with a status that it gets
from the API; the peer's controller mixes the two in one condition (`Panics`). Every
write changes the resource's `version`, so that a resource that was changed and
changed back, or deleted and created again, is not mistaken for the copy: the API
refuses the status, and the removal of the finalizer, of a copy that is not
current.

The run `node` has two contents, three events and a history of three revisions,
the smallest that the code can work with: with two, the revision that a cut-off
upgrade has to be rolled back to could be gone. Three events are, for example, a
request, the upgrade that serves it cut off, and its rollback cut off as well; or
an edit, a renewal and a lost status write. `MaxAhead` is two, and so more than the
requests that can follow a renewal. With four events and one request ahead (2.4
million states) the properties hold, too.

| Property | What it says |
|---|---|
| `RenewalIsNotUndone` | a rollback never brings back a certificate older than the status shows |
| `NoNeedlessRenewal` | no renewal without an uncovered request or a certificate that is about to expire, although the copy may be old |
| `RootKept` | the root key outlives everything but a misread secret |
| `Settles` | a node that stays becomes what its resource asks for, or is in one of the states of `Stuck` |

`Stuck` lists what the operator does not get over, each a state found by weakening
the property until it held: a `pending-install` release, or one whose secrets cannot
be read, since `getExistingTLSCrypto` fails before anything is repaired; an
interrupted rollback or a failed uninstallation when no revision is deployed, since
Helm refuses to upgrade; an orderer with an expired certificate (a peer enrols anew),
unless a rollback is due, which may bring back a newer one from an upgrade that
failed. The theorem `StuckIsForGood` shows that the list is not too long: the
controller leaves none of these states.

Fairness: the controller goes on and its cache catches up. After a good reconcile
the node is queued again within the hour. An error returned to the controller
runtime is retried; the orderer's and the authority's failures that are written
into the status are not queued again (`updateCRStatusOrFailReconcile`), and when the
status already says so there is no event either: the resync is what remains.

## Where the code and its comments disagree

Shown by a run:

* `exchange_path`: "Fetch AES key from Vault" (`workload_2_2.js:73`) reads
  `metadata.VaultKey`, a bare name, while the sender writes the key under
  `kv-v2/data/`; the key of an entry that a workload published is never found.
* `lifecycle_early`: a commit resource that is ahead of the channel gets "new
  definition must be sequence", which counts as success
  (`chaincode_commit_controller.go:179`): it is RUNNING, "Chaincode committed"
  (line 185), with nothing committed, and is not reconciled again.
* `lifecycle_params`: "compare currentApprovedCC with approveCCRequest and decide
  if we need to approve again" (`chaincode_approve_controller.go:240`); only
  package and sequence are compared, other parameters are not approved again.
* `deploy_renewal`: "renew certificates data if certificate is about to expire"
  (`chaincode_deploy_controller.go:167`); the decision is overwritten four lines
  further down.

Plain to see in the code and in the models, and left without a run:

* "Channel doesn't exist, create it and join orderers"
  (`mainchannel_controller.go:121`); it is done after any error of the query, and
  makes one more genesis block each time (`JoinOrderers` in `FabricChannel`). With
  three orderers, of which each attempt reaches another one, no block ever gets a
  majority.
* "Successfully finalized orderer" (`ordnode_controller.go:73`, likewise for the
  others) is logged before the uninstallation, whose errors are all swallowed: the
  comparison with `Release not loaded` returns nil when the texts differ
  (`Finalize` in `FabricNode`).
* "consenter mapping needs to be at least 4" (`mainchannel_controller.go:958`); the
  condition is `<= 4`, so that four are refused.
* "to avoid duplicate updates" (`ordnode_controller.go:241`): the time that is
  recorded is five minutes ahead, and a request made in these minutes is not served
  (`Covered` in `FabricNode`); one that is dated in the future is served again on
  every reconcile until its time has come (requests are not dated in the model).
* "compare current acls with new acls" and "compare them to see if we have to set new
  ACLs" (`mainchannel_controller.go:1377-1384`); the current ones are read and
  logged, the new ones removed and set, and old ones stay (`Written` in
  `FabricChannel`).
* "failed to remove capability" (`mainchannel_controller.go:1715`) is what a new
  orderer capability leads to, for ever: the loop in the application section
  (1402-1407) removes the current ones, this one the new (`CapabilityMissing`).
* "ReadIndicator retrieves a single Indicator by its STIX ID"
  (`cti_stix_chaincode.go:168`); it returns an object of any type as an Indicator
  (`ReadResult` in `CTIContract`).
* `spec_version` `must be "2.1"` (`cti_stix_chaincode.go:29`); no function checks
  it (`CreateError`).
* "Verify successful installation" (`install-crd.md:125`); the status is RUNNING
  whatever the peers answered, and nothing retries (`Running` in
  `ChaincodeInstall`).
* "If status is running/success, don't requeue"
  (`chaincode_install_controller.go:475`); the status is new each time, its event
  queues the resource, and another package is built and installed (`Running` and
  `updateCRStatusOrFailReconcile` there).

## Proofs

What the runs check on small instances the theorems show for every value of the
constants: any number of peers, clients, organizations, edits, faults and restarts,
any length of a chain or history. Each rests on an inductive invariant, proved
action by action; `Spec => []...` follows from it.

| Module | Theorems (the property of each in brackets) |
|---|---|
| `CTILedgerProofs` | `TypeCorrect` (`TypeOK`), `Invariant` (`IInv`), `PeersAgree` (`Agreement`), `ObjectsImmutable` (`Immutable`), `LedgerImplementsStore` (`ImplementsStore`) |
| | `ListsAreNested` (`SnapshotsNested`), `ValidListsAreExact` (`SubmittedListExact`), `ShownStaysTrue` (`AnswersStayTrue`), `ReportsAreTrue` (`ReportIsTrue`), `RejectedIsTaken` (`RejectedMeansTaken`) |
| `BundleEditorProofs` | `EditorTypes` (`TypeOK`), `IdsStayUnique` (`IdsUnique`), `EditsAreSaved` (`EditedIsInBundle`), `TypesOnlyLeave` (`TypesNeverGrow`), `DeletionsCutLinks` (`DeleteCutsItsLinksOnly`) |
| `CTIExchangeProofs` | `ExchangeTypes` (`TypeOK`), `OnlyCompleteIsPublished` (`PublishedIsComplete`), `PublishedKeysStay` (`KeysKept`), `OnlyOverlapReplaces` (`ReplacedByOverlap`) |
| `ChaincodeLifecycleProofs` | `LifecycleTypes` (`TypeOK`), `FailuresAreRetried` (`FailedIsRetried`), `RunningMeansReached`, `OneParamsApprovalStands` (`ApprovalStands`), `CoordinatedCommitStands` (`CommitStands`) |
| `ChaincodeInstallProofs` | `InstallTypes` (`TypeOK`), `ReportIsReliable` (`ReportHolds`) |
| `ChaincodeDeployProofs` | `DeployTypes` (`TypeOK`), `DeletionIsComplete` (`NothingLeftBehind`), `RestartedPodsServeNewCert` (`StampedPodsServeNewCert`) |
| `FabricChannelProofs` | `ChannelTypes` (`TypeOK`), `AnchorsAreKept` (`AnchorsKept`) |
| `FabricNodeProofs` | `NodeTypes` (`TypeOK`), `ShownStaysLive` (`RenewalIsNotUndone`), `RenewalHasReason` (`NoNeedlessRenewal`), `RootStays` (`RootKept`), `StuckIsForGood` |

Assumptions are those of the modules, which TLC evaluates on every run: the bounds
are numbers, the values `None`, `Nil`, `EmptyKey`, `Blank`, `Old` and the like are
distinct from what they are distinguished from, the sets that something is chosen
from are not empty (`Starts`, `Anchors`, `Values`, `Params`), what a main channel
may be asked is one of its specs (`RequestsAssumption`), lists of peers and
orderers name nobody twice, Helm keeps three revisions at least
(`HistoryAssumption`), and the bundle that the editor starts with has unique ids,
none with a time that is still to come (`BundlesAssumption`). Two theorems say more
themselves: `OneParamsApprovalStands` assumes a single set of parameters, and
`CoordinatedCommitStands` speaks of the channels in which the committer is
`Coordinated`. Both are so in every channel of the run `lifecycle`, and neither can
be dropped (`lifecycle_params`, `lifecycle_early`).

### The arguments

*The ledger.* `Agreement` is not inductive: that two peers agree today says
nothing about whether they will give the next block the same code. `IInv` adds
what makes a commit deterministic. Since a create writes only a key that it read
as free (`WritesReadFree`) and a committed write was validated, no key is written
twice; hence a peer's past state after n blocks is its present one without the
keys written later (`AsOf`), and every block's code and effect can be replayed
from it (`Replayed`). Two peers that commit block n therefore start from the same
state, `AsOf(world, n-1)`, and validate the same transaction, which does not change
after it was ordered (`OnlySentOrdered`: only requests that were sent are in the
chain, and those no longer simulate). `Immutable` follows since validation with
`reads[k] = 0` demands a free key. For the refinement, an object counts as
accepted in the abstract store when the first peer applies it: the commit of that
peer is `Accept`, that of the others `CatchUp`, everything else stutters.

*Answers.* An answer says nothing about the peer that gave it, which has moved on.
`Told` keeps for every answer that some peer, at some height, was in the state it
was made from; `Reported` for every commit status the block that decided it;
`IdsMatch` that objects are stored under their own ids. As `IInv` makes the past a
function of the present and of a height, a step cannot change what they refer to,
and the five properties compare two such pasts.

*The editor.* Ids are unique because of what is not in the bundle: `Fresh` says that
no id carries a time that is yet to come, nor the time of an Add dialog that is open,
and a draft without an id exists in such a dialog only. `Offered` keeps the type of
an open dialog among those its menu offers, which is why types never grow.
`confirmDelete` filters a list: `KeptPositions` shows that what `ObjectsAt` returns
are the objects at the positions kept, each once and in their order (the function
that counts the positions up to one is an injection into as many numbers as there
are positions, hence onto them), and `KeptObjects` what that means for a bundle.

*The exchange.* `PublishedIsComplete` needs what a sender has secured at each of
its awaits (`Prepared`), `KeysKept` that without shared names a path in Vault tells
whose key is there (`OwnNames`, `OwnEntries`), and `Counted` that a sender in the
middle of a call has advanced the counter, which makes its name one that exists.
`ReplacedByOverlap` is about the counter: the names of entries of this round are not
ahead of it, and a sender's name is ahead of the names of all entries that were there
when it began (`Ordered`); a key in Vault is that of a sender with a name (`Written`).

*The chaincode controllers.* `FailedIsRetried` and `TypeOK` need only that
`setConditionStatus` is called with one of two goals (`Reporting`). `ApprovalStands`
and `CommitStands` come from one invariant, `HonestRuns`: a resource that is not
queued is worked on for its current spec, and wherever its run or its status says
RUNNING that spec is `Reached`. That it is about resources outside the queue is the
point: a run that an edit has made obsolete may well write RUNNING for the old spec,
since the patch of `setConditionStatus` makes its copy current again, but the edit
has queued the resource. What is reached stays so, because the channel only grows
(`Grows`) and an organization's approvals are changed by its own run alone.
`RunningMeansReached` states what this gives without further assumptions: the
package is approved, or the peers have a definition of that sequence that is either
not the first or has other parameters. With a single set of parameters this is
`ApprovalStands`. For the committer `InStep` is needed: its spec is ahead of no
peer by more than one, so that "new definition must be sequence" can only mean that
the sequence is committed. `ReportHolds` is
about the status at rest, written by a reconcile that is over: `Asked` follows its
loop over the peers, and `Fresh` says that an edit it did not see has queued the
resource. `NothingLeftBehind` needs `Held` - objects are made under a finalizer
only - and `StampedPodsServeNewCert` needs `Serials`, an order of the certificates in
the secret, in the Deployment's annotation and in the run that carries a new one.

*The channel.* What an update may write is decided when it is computed and used
when it is ordered, so that the invariant speaks of updates wherever they are, in a
run or with the orderers: each writes values of the element's kind, and anchor
peers only if their follower made it (`Owned`). Certificates are written by any
follower whose organization gets its first anchor peers; `KeepsCerts` says that such
an update rests on the version of the members, and that as long as this is current a
member's certificates are those it writes. An organization that left and came back
has changed the version.

*The nodes.* The inductive invariant has three parts beyond types. `Floors`: the
certificate that the status shows is not newer than any that a repair could bring
back - that of the deployed revision, of the last one, and, behind a pending
upgrade, of the one before it. `Copies`: how an old copy relates to the resource;
its request counts never exceed the resource's while a renewal can follow from
them, and a node that was deleted is not created again before its cache has seen
the deletion. `Roots`: the revisions of an authority all have the root key that is
live. `KeptFacts` shows that Helm's pruning, with three revisions or more, drops
neither the last revision nor the deployed one, which `Floors` needs. For
`StuckIsForGood` a fourth part is needed, `Repairs`: every revision has values and a
certificate, and a release that waits for a rollback can be read, so that no rollback
starts in a state of `Stuck`.

### What is only model-checked

* Liveness (`SequenceCommits`, `RolledOut`, `GoneInTheEnd`, `Converges`,
  `SwitchHappens`, `Settles`): out of the prover's reach.
* The counterexamples of the four runs that expect a violation.
* That `ObjectsAt` is the `SelectSeq` of the library, which is defined by recursion:
  `MCBundleEditor` compares the two on short lists (`FilterAssumption`).

## Not modelled

* Endorsement policies, private data, chaincode upgrade; Fabric's block cutting.
* `ShareView`, `RegisterPage`, `TimelineView`, the sidebar: single requests to
  routes that do not exist here, or rendering.
* Caliper workloads 1_1, 1_2, 4_1, 4_2, 4_3, 4_4: single requests, or 5_1's steps
  without IPFS (4_3); the configuration files.
* Channels whose orderers use BFT, whose section is set as a whole, and migrations
  between the two kinds; certificates of orderer organizations that stay, which are
  not refreshed.
* The operator's other controllers: `FabricIdentity` (register, enrol, renew into a
  secret; the modules above take the secret's reads as calls that may fail), network
  configuration, console, operator API and UI, and the older network and ordering
  service kinds; kubectl-hlf. Deletion of install, approve, commit and follower
  resources, whose finalizers do nothing; what the controllers render into packages,
  policies, charts and manifests beyond the fields named above.
* Vendored Fabric code, generated clients and deep copies, API types, charts and
  documentation. They are most of the repository's lines; the map covers nearly all
  code of the chaincode, the exchange, the editor and the eight controllers that the
  modules are about, and a small share of the whole.

## Plan

In this order, the most important behaviour first:

1. `CTIContract`, `CTILedger`, `CTIStore` and their proofs - done.
2. `CTIExchange` and `BundleEditor` - done and proved.
3. `ChaincodeLifecycle`, `ChaincodeInstall`, `ChaincodeDeploy` - done, their safety
   properties proved, two of them under the conditions that they need.
4. `FabricChannel` and `FabricNode` - done, their safety properties proved.
5. `FabricIdentity`: register, enrol and renew into a secret that the controllers of
   1 to 4 read; `ShareView` once there is a server to talk to.
6. Proofs: every safety property of the runs has its theorem. What is left are
   facts that the other liveness properties rest on, as `StuckIsForGood` is for
   `Settles`: that a step of the controller brings its measure of progress down.
