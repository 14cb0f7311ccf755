---------------------------- MODULE FabricChannel ----------------------------
(***************************************************************************)
(* A channel and the operator's controllers that shape it.  The controller  *)
(* of FabricMainChannel makes a genesis block when no orderer tells it of   *)
(* the channel, joins the orderers to it and brings most of the channel's   *)
(* configuration to what its resource asks for; in every organization the   *)
(* controller of FabricFollowerChannel joins the peers and sets the         *)
(* organization's anchor peers and revocation list.  Each computes a        *)
(* configuration update from a configuration that it has read, and none of  *)
(* them knows of the others.                                                *)
(*                                                                          *)
(* The orderers are external.  A channel is served when a majority of them  *)
(* has joined one genesis block.  The elements of the configuration carry   *)
(* versions; an update names the versions it was computed from, is checked  *)
(* when it is handed in and again when its turn comes, and is then dropped  *)
(* without a word to the one who sent it.  In maintenance mode orderers     *)
(* accept updates from their own organizations only, and an update that     *)
(* changes the consensus state may change nothing else.  They order with    *)
(* Raft; a BFT channel is configured by a path of its own, left out here.   *)
(*                                                                          *)
(* There is no work queue here: a failed reconcile is tried again after     *)
(* five minutes, an event leads to another, and the informers hand out      *)
(* every resource again after ten hours, so that a reconcile may begin at   *)
(* any time and must begin in the end.  What a reconcile reads first,       *)
(* resource and configuration, it reads in one step.  What it only shows to *)
(* readers is left out, the status of the resources and the config maps     *)
(* with the configuration: no reconcile looks at them.  So is the deletion  *)
(* of a follower, which does nothing.                                       *)
(***************************************************************************)
EXTENDS Naturals, Sequences, FiniteSets, FiniteSetsExt, SequencesExt

CONSTANTS
  PeerOrgs,    (* organizations, each with a FabricFollowerChannel          *)
  Main,        (* the FabricMainChannel                                     *)
  Orderers,    (* the orderer nodes to join, in the order of the resource   *)
  Values,      (* what a section of a resource may ask for                  *)
  Names,       (* names of ACLs and of orderer capabilities                 *)
  Requests,    (* what administrators may ask of the main channel ...       *)
  Starts,      (* ... and begin with                                        *)
  Anchors,     (* anchor peers and revocation list of an organization       *)
  None,        (* nothing: no anchor peers, no certificates                 *)
  MaxEvents,   (* bound: edits, deletions, failed calls and restarts        *)
  MaxPending   (* bound: updates waiting at the orderers                    *)

ASSUME MainAssumption == Main \notin PeerOrgs
ASSUME AnchorsAssumption == Anchors # {} /\ None \notin Anchors
ASSUME OrderersAssumption == Orderers \in Seq(ToSet(Orderers)) /\ IsInjective(Orderers)
ASSUME ChannelBounds == MaxEvents \in Nat /\ MaxPending \in Nat \ {0}

Controllers == PeerOrgs \cup {Main}
Node        == ToSet(Orderers)

(* A FabricMainChannel asks for members and their CA certificates; for the  *)
(* policies, capabilities and ACLs of the application; for the channel's    *)
(* capabilities; and for consenters, endpoints, batches and policies of the *)
(* orderers, their capabilities and the consensus state.                    *)
MainSpec == [members: SUBSET PeerOrgs \ {{}}, certs: Values, application: Values,
             acls: SUBSET Names, channel: Values, settings: Values,
             capabilities: SUBSET Names, state: {"normal", "maintenance"}]

ASSUME RequestsAssumption == Starts # {} /\ Starts \subseteq Requests /\ Requests \subseteq MainSpec

(* The elements of a configuration that are compared or written: those of   *)
(* the application, channel and orderer sections, and per organization its  *)
(* group, with the certificates it was added with and a version that counts *)
(* the appearance of anchor peers, and the anchor peers themselves.         *)
Members      == <<"members", Main>>
Application  == <<"application", Main>>
Acls         == <<"acls", Main>>
Channel      == <<"channel", Main>>
Setting      == <<"settings", Main>>
Capabilities == <<"capabilities", Main>>
State        == <<"state", Main>>
Group(o)     == <<"group", o>>
Anchor(o)    == <<"anchors", o>>
OfApplication == {Members, Application, Acls}
Sections     == OfApplication \cup {Channel, Setting, Capabilities, State}
Element      == Sections \cup ({"group", "anchors"} \X PeerOrgs)

VARIABLES
  joined,    (* the genesis block each orderer has joined, 0 for none       *)
  config,    (* the channel's configuration, once it is served              *)
  pending,   (* updates the orderers have taken and not yet ordered         *)
  peers,     (* organizations whose peers have joined                       *)
  main,      (* the FabricMainChannel is there, deleting or gone            *)
  spec,      (* the resources: what is asked for                            *)
  run,       (* the reconcile in progress for each resource                 *)
  events     (* edits and faults so far                                     *)

vars    == <<joined, config, pending, peers, main, spec, run, events>>
channel == <<joined, config, pending, peers>>

Served == config # <<>>
Val(e) == config[e].val
Ver(e) == config[e].ver

(* A run holds the resource as it was read, or the update to submit.        *)
Idle     == [pc |-> "idle"]
At(c, p) == run[c].pc = p
Copy(c)  == [pc |-> "create", spec |-> spec[c]]
Event    == events < MaxEvents /\ events' = events + 1

(* Which anchor peers the followers begin with makes no difference.         *)
First(S) == CHOOSE x \in S : TRUE

Init ==
  /\ joined = [n \in Node |-> 0]
  /\ config = <<>> /\ pending = <<>> /\ peers = {}
  /\ main = "there"
  /\ \E s \in Starts : spec = [c \in Controllers |-> IF c = Main THEN s ELSE First(Anchors)]
  /\ run = [c \in Controllers |-> Idle]
  /\ events = 0

-----------------------------------------------------------------------------
(* The administrators.                                                      *)

Manage(c) ==
  /\ Event
  /\ c = Main => main = "there"
  /\ UNCHANGED <<channel, run>>

Edit(c) ==
  /\ Manage(c)
  /\ \E s \in (IF c = Main THEN Requests ELSE Anchors) \ {spec[c]} : spec' = [spec EXCEPT ![c] = s]
  /\ UNCHANGED main

Delete == Manage(Main) /\ main' = "deleting" /\ UNCHANGED spec

-----------------------------------------------------------------------------
(* The orderers.                                                            *)

(* An update holds who sent it, the versions it was computed from and the   *)
(* new values.                                                              *)
Acceptable(u) ==
  /\ \A e \in DOMAIN u.read : u.read[e] = Ver(e)
  /\ Val(State) = "maintenance" => u.by = Main
  /\ State \in DOMAIN u.write => DOMAIN u.write = {State}

(* The group of an organization that is not a member is not there; it       *)
(* starts anew when the organization is added.                              *)
Applied(u) ==
  LET New(e) == IF e \in DOMAIN u.write THEN [val |-> u.write[e], ver |-> Ver(e) + 1] ELSE config[e]
  IN [e \in Element |-> IF e[2] = Main \/ e[2] \in New(Members).val THEN New(e)
                                              ELSE [val |-> None, ver |-> 0]]

Order ==
  /\ pending # <<>>
  /\ pending' = Tail(pending)
  /\ config' = IF Acceptable(Head(pending)) THEN Applied(Head(pending)) ELSE config
  /\ UNCHANGED <<joined, peers, main, spec, run, events>>

-----------------------------------------------------------------------------
(* Steps of both controllers.                                               *)

(* A reconcile ends: done, with an error, or because the operator stops.    *)
End(c) == run' = [run EXCEPT ![c] = Idle]

CallFails(c) ==
  /\ run[c] # Idle /\ Event /\ End(c)
  /\ UNCHANGED <<channel, main, spec>>

(* Mutant: an update without a difference is submitted.                     *)
ProposeAlways(c, read, write) ==
  run' = [run EXCEPT ![c] =
    [pc |-> "submit", update |-> [by |-> c, read |-> read, write |-> write]]]

(* Without a difference between what was read and what is asked for there   *)
(* is nothing to submit.                                                    *)
Propose(c, read, write) ==
  IF write = <<>> THEN End(c)
  ELSE run' = [run EXCEPT ![c] =
         [pc |-> "submit", update |-> [by |-> c, read |-> read, write |-> write]]]

(* SaveChannel: the update is checked by the orderer and taken, or refused; *)
(* the answer may get lost.                                                 *)
SaveChannel(c) ==
  /\ At(c, "submit")
  /\ \/ ~Acceptable(run[c].update) /\ UNCHANGED pending
     \/ /\ Acceptable(run[c].update) /\ Len(pending) < MaxPending
        /\ pending' = Append(pending, run[c].update)
  /\ End(c)
  /\ UNCHANGED <<joined, config, peers, main, spec, events>>

-----------------------------------------------------------------------------
(* The controller of the main channel.                                      *)

InMaintenance == Val(State) = "maintenance"
Switching(s)  == ~InMaintenance /\ s.state = "maintenance"

(* What a main channel asks of an element; it knows of no anchor peers.     *)
Wants(s, e) ==
  CASE e = Members      -> s.members
    [] e = Application  -> s.application
    [] e = Acls         -> s.acls
    [] e = Channel      -> s.channel
    [] e = Setting      -> s.settings
    [] e = Capabilities -> s.capabilities
    [] e = State        -> s.state
    [] OTHER            -> IF e[1] = "group" /\ e[2] \in s.members THEN s.certs ELSE None

(* ACLs that are asked for are set, and those asked for no longer stay.     *)
Differs(s, e) == IF e = Acls THEN ~ (s.acls \subseteq Val(Acls)) ELSE Wants(s, e) # Val(e)
Written(s, e) == IF e = Acls THEN Val(Acls) \cup s.acls ELSE Wants(s, e)
Added(s)      == {Group(o) : o \in s.members \ Val(Members)}
Staying(s)    == {Group(o) : o \in s.members \cap Val(Members)}

(* Mutants: the application section is updated while the state is switched, *)
(* or organizations that stay are set anew.                                 *)
ApplicationChangesAlways(s) == {e \in OfApplication : Differs(s, e)} \cup Added(s)

ApplicationChangesAll(s) ==
  IF InMaintenance \/ Switching(s) THEN {}
  ELSE ApplicationChangesAlways(s)
         \cup {Anchor(o) : o \in {o \in s.members \cap Val(Members) : Val(Anchor(o)) # None}}

(* updateApplicationChannelConfigTx, unless the state is or is going to be  *)
(* maintenance: organizations are removed, and added with the certificates  *)
(* asked for; those that stay are left alone, their certificates too.       *)
ApplicationChanges(s) ==
  IF InMaintenance \/ Switching(s) THEN {}
  ELSE {e \in OfApplication : Differs(s, e)} \cup Added(s)

(* updateChannelConfigTx, unless the state is going to be maintenance.      *)
ChannelChanges(s) == {e \in {Channel} : ~Switching(s) /\ Differs(s, e)}

(* updateOrdererChannelConfigTx, whatever the state.  Of orderer            *)
(* organizations that stay the endpoints and revocation lists are set.      *)
OrdererChanges(s) == {e \in {Setting, State} : Differs(s, e)}

(* All orderer capabilities that are asked for are removed, which is an     *)
(* error for one that is not set, and then added: nothing ever changes.     *)
CapabilityMissing(s) == ~ (s.capabilities \subseteq Val(Capabilities))

(* A change in the application section rests on the section's members, and  *)
(* a change of these on whatever stays in it.                               *)
updateChannelConfig(s) ==
  LET changes == ApplicationChanges(s) \cup ChannelChanges(s) \cup OrdererChanges(s)
      rest    == IF Members \in changes THEN OfApplication \cup Staying(s)
                 ELSE {e \in {Members} : changes \cap OfApplication # {}}
  IN
  IF CapabilityMissing(s) THEN End(Main)
  ELSE Propose(Main, [e \in changes \cup rest |-> Ver(e)], [e \in changes |-> Written(s, e)])

(* The finalizer is removed from a main channel that is to be deleted, and  *)
(* the reconcile goes on; the one after the deletion ends in an error.  Any *)
(* error of the query counts as a channel that does not exist.              *)
QueryConfigBlock ==
  /\ run[Main] = Idle /\ main # "gone"
  /\ main' = IF main = "deleting" THEN "gone" ELSE main
  /\ \/ Served /\ updateChannelConfig(spec[Main]) /\ UNCHANGED events
     \/ ~Served /\ run' = [run EXCEPT ![Main] = Copy(Main)] /\ UNCHANGED events
     \/ Served /\ Event /\ run' = [run EXCEPT ![Main] = Copy(Main)]
  /\ UNCHANGED <<channel, spec>>

(* The configuration of a new genesis block.                                *)
mapToConfigTX(s) == [e \in Element |-> [val |-> Wants(s, e), ver |-> 0]]

(* createNewChannel and joinOrderers: every genesis block is another one;   *)
(* n of the orderers are reached, and those that have joined already are    *)
(* left as they are.                                                        *)
JoinOrderers ==
  /\ At(Main, "create")
  /\ \E n \in 0 .. Len(Orderers) :
       LET new    == 1 + Max({joined[o] : o \in Node})
           joins  == {o \in Node : joined[o] = 0 /\ \E i \in 1 .. n : Orderers[i] = o}
       IN
       /\ joined' = [o \in Node |-> IF o \in joins THEN new ELSE joined[o]]
       /\ config' = IF ~Served /\ 2 * Cardinality(joins) > Cardinality(Node)
                      THEN mapToConfigTX(run[Main].spec) ELSE config
       /\ \/ n = Len(Orderers) /\ run' = [run EXCEPT ![Main].pc = "created"] /\ UNCHANGED events
          \/ n < Len(Orderers) /\ Event /\ End(Main)
  /\ UNCHANGED <<pending, peers, main, spec>>

(* The query is repeated; it fails when no majority has joined one channel. *)
QueryAgain ==
  /\ At(Main, "created")
  /\ IF Served THEN updateChannelConfig(run[Main].spec) ELSE End(Main)
  /\ UNCHANGED <<channel, main, spec, events>>

-----------------------------------------------------------------------------
(* The controller of a follower channel.                                    *)

(* Mutant: organizations that are to have no other anchor peers are left    *)
(* alone once they have any.                                                *)
AnchorChangesOnce(o) == {e \in {Anchor(o)} : Val(e) = None}

AnchorChanges(o) == {e \in {Anchor(o)} : Val(e) # spec[o]}

(* The anchor peers are removed and those of the resource added, and the    *)
(* revocation list set.  The first ones change the organization's group,    *)
(* whose certificates are written as they were read.                        *)
SetAnchorPeers(o) ==
  LET change == AnchorChanges(o)
      grow   == {e \in {Group(o)} : change # {} /\ Val(Anchor(o)) = None}
  IN
  Propose(o, [e \in {Members, Group(o)} \cup change |-> Ver(e)],
             [e \in change \cup grow |-> IF e = Anchor(o) THEN spec[o] ELSE Val(e)])

(* JoinChannel fetches the genesis block from an orderer and the peers      *)
(* join; those that have joined are no error.  In maintenance the reconcile *)
(* fails then; for an organization that is no member it panics, which the   *)
(* controller runtime turns into another try.                               *)
JoinChannel(o) ==
  /\ run[o] = Idle /\ Served
  /\ peers' = peers \cup {o}
  /\ IF InMaintenance \/ o \notin Val(Members) THEN End(o) ELSE SetAnchorPeers(o)
  /\ UNCHANGED <<joined, config, pending, main, spec, events>>

-----------------------------------------------------------------------------
Reconcile(c) ==
  \/ SaveChannel(c)
  \/ c = Main /\ (QueryConfigBlock \/ JoinOrderers \/ QueryAgain)
  \/ c # Main /\ JoinChannel(c)

Next ==
  \/ \E c \in Controllers : Edit(c) \/ Reconcile(c) \/ CallFails(c)
  \/ Delete \/ Order

Spec == Init /\ [][Next]_vars

(* The workers go on and the orderers order.                                *)
FairSpec == Spec /\ WF_vars(Order) /\ \A c \in Controllers : WF_vars(Reconcile(c))

-----------------------------------------------------------------------------
(* Properties.                                                              *)

(* The variables stay in their ranges, updates are never empty, and none    *)
(* are taken before there is a channel.                                     *)
TypeOK ==
  /\ joined \in [Node -> Nat]
  /\ Served => /\ DOMAIN config = Element
               /\ Val(Members) \in SUBSET PeerOrgs /\ Val(State) \in {"normal", "maintenance"}
               /\ \A e \in {Application, Channel, Setting} : Val(e) \in Values
               /\ \A e \in {Acls, Capabilities} : Val(e) \in SUBSET Names
               /\ \A o \in PeerOrgs : /\ Val(Anchor(o)) \in Anchors \cup {None}
                                      /\ Val(Group(o)) \in Values \cup {None}
  /\ Len(pending) <= MaxPending /\ (pending # <<>> => Served)
  /\ peers \subseteq PeerOrgs
  /\ main \in {"there", "deleting", "gone"}
  /\ spec[Main] \in MainSpec /\ \A o \in PeerOrgs : spec[o] \in Anchors
  /\ \A c \in Controllers :
       /\ run[c].pc \in {"idle", "create", "created", "submit"}
       /\ run[c].pc = "submit" => run[c].update.write # <<>>
  /\ events \in 0 .. MaxEvents

(* While an organization stays, its anchor peers and revocation list change *)
(* only by an update of its own follower, and its certificates not at all:  *)
(* neither the main controller nor the followers, who write configurations  *)
(* computed from what they have read at any time before, undo what others   *)
(* wrote, also when an organization went and came back with other           *)
(* certificates in between (lines 1335-1364 of the main channel controller, *)
(* 261-345 of the follower's).                                              *)
AnchorsKept ==
  [][\A o \in PeerOrgs :
       Served /\ o \in Val(Members) /\ o \in Val(Members)' =>
         /\ Val(Anchor(o))' # Val(Anchor(o)) => Head(pending).by = o
         /\ Val(Group(o))' = Val(Group(o))]_vars

(* When the main channel stays, asks for the state "normal" that the        *)
(* channel is in and for no orderer capability that the channel lacks, the  *)
(* configuration holds in the end what all resources ask for - members,     *)
(* application and channel sections, orderer settings, every member's       *)
(* anchor peers - although updates overtake each other and are dropped by   *)
(* the orderers unnoticed (updateChannelConfig, lines 599-681; follower,    *)
(* lines 199-351).  What is never brought about is not claimed: ACLs and    *)
(* capabilities that are asked for no longer go on, and organizations that  *)
(* stay keep their certificates.                                            *)
InNormal ==
  /\ Served /\ main = "there"
  /\ spec[Main].state = "normal" /\ ~InMaintenance /\ ~CapabilityMissing(spec[Main])
AsAsked ==
  /\ \A e \in {Members, Application, Acls, Channel, Setting} : ~Differs(spec[Main], e)
  /\ \A o \in spec[Main].members : o \in peers /\ Val(Anchor(o)) = spec[o]
Converges == <>[]InNormal => <>[](Served /\ AsAsked)

(* A change of the consensus state asked for, alone or together with        *)
(* changes of the application section, takes place in the end: the update   *)
(* that switches it leaves that section alone, and on the way into          *)
(* maintenance the channel section too, or it would be refused every time   *)
(* (lines 621-637).  Orderer settings and, on the way back, the channel     *)
(* section must be in place before.                                         *)
OnlyStateDiffers ==
  LET s == spec[Main] IN
  /\ Served /\ main = "there" /\ ~Differs(s, Setting) /\ ~CapabilityMissing(s)
  /\ s.state = "maintenance" \/ ~Differs(s, Channel)
SwitchHappens == <>[]OnlyStateDiffers => <>[](Served /\ Val(State) = spec[Main].state)

=============================================================================
