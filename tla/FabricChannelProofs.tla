------------------------- MODULE FabricChannelProofs ---------------------------
(***************************************************************************)
(* What holds of a channel for any number of organizations, orderers, edits *)
(* and failed calls, and of updates that wait at the orderers for any time. *)
(*                                                                          *)
(* The invariant says what an update may hold, wherever it is, in a run or  *)
(* with the orderers: only a follower writes its organization's anchor      *)
(* peers, every element is written with values of its own, and an update    *)
(* that the orderers would still accept gives no member other certificates. *)
(***************************************************************************)
EXTENDS FabricChannel, FiniteSetTheorems, SequenceTheorems,
        WellFoundedInduction, TLAPS

(* The values of an element.                                                *)
Asked(e) ==
  IF e = Members THEN SUBSET PeerOrgs
  ELSE IF e \in {Application, Channel, Setting} THEN Values
  ELSE IF e \in {Acls, Capabilities} THEN SUBSET Names
  ELSE IF e = State THEN {"normal", "maintenance"}
  ELSE IF e[1] = "anchors" THEN Anchors \cup {None} ELSE Values \cup {None}

Value  == UNION {Asked(e) : e \in Element}
Reads  == UNION {[D -> Nat] : D \in SUBSET Element}
Writes == {w \in UNION {[D -> Value] : D \in SUBSET Element} :
             w # <<>> /\ \A e \in DOMAIN w : w[e] \in Asked(e)}

(* Anchor peers are the business of their follower.                         *)
Owned(by, w) == \A o \in PeerOrgs : Anchor(o) \in DOMAIN w => by = o
Updates == {u \in [by: Controllers, read: Reads, write: Writes] : Owned(u.by, u.write)}

Runs == {Idle} \cup [pc: {"create", "created"}, spec: MainSpec]
               \cup [pc: {"submit"}, update: Updates]

ConfigTyped ==
  /\ DOMAIN config = Element
  /\ \A e \in Element : Val(e) \in Asked(e) /\ Ver(e) \in Nat

Typed ==
  /\ joined \in [Node -> Nat]
  /\ Served => ConfigTyped
  /\ pending \in Seq(Updates) /\ Len(pending) <= MaxPending /\ (pending # <<>> => Served)
  /\ peers \subseteq PeerOrgs
  /\ main \in {"there", "deleting", "gone"}
  /\ DOMAIN spec = Controllers /\ spec[Main] \in MainSpec
  /\ \A o \in PeerOrgs : spec[o] \in Anchors
  /\ run \in [Controllers -> Runs]
  /\ \A c \in Controllers : At(c, "submit") => Served
  /\ events \in 0 .. MaxEvents

(* A group is written by updates that rest on the members, and as it is for *)
(* those that are members when the update is accepted.                      *)
KeepsCerts(u) ==
  \A o \in PeerOrgs : Group(o) \in DOMAIN u.write =>
    /\ Members \in DOMAIN u.read /\ u.read[Members] <= Ver(Members)
    /\ u.read[Members] = Ver(Members) /\ o \in Val(Members) => u.write[Group(o)] = Val(Group(o))

CertsSafe ==
  /\ \A c \in Controllers : At(c, "submit") => KeepsCerts(run[c].update)
  /\ \A i \in 1 .. Len(pending) : KeepsCerts(pending[i])

-----------------------------------------------------------------------------
(* Numbers.                                                                 *)

(* A finite set of numbers that is not empty has a largest one.             *)
LEMMA LargestIsMax ==
  ASSUME NEW S \in SUBSET Nat, IsFiniteSet(S), S # {}
  PROVE  Max(S) \in S /\ \A x \in S : x <= Max(S)
<1> DEFINE Unbounded == {T \in SUBSET S : T # {} /\ \A x \in T : \E y \in T : ~ (y <= x)}
<1>1. Unbounded = {}
  <2> SUFFICES ASSUME Unbounded # {} PROVE FALSE
    OBVIOUS
  <2>1. PICK T \in Unbounded : \A U \in Unbounded : ~ (<<U, T>> \in StrictSubsetOrdering(S))
    <3>1. Unbounded \subseteq FiniteSubsetsOf(S)
      BY FS_FiniteSubsetsOfFinite
    <3> HIDE DEF Unbounded
    <3> QED
      BY <3>1, FS_StrictSubsetOrderingWellFounded, WFMin
  <2>2. PICK x \in T : TRUE
    BY <2>1
  <2>3. T \ {x} \notin Unbounded
    BY <2>1, <2>2 DEF StrictSubsetOrdering
  <2>4. PICK y \in T : ~ (y <= x)
    BY <2>1, <2>2
  <2>5. PICK z \in T \ {x} : \A u \in T \ {x} : u <= z
    BY <2>1, <2>2, <2>3, <2>4
  <2>6. x <= z
    BY <2>1, <2>2, <2>4, <2>5
  <2> QED
    BY <2>1, <2>5, <2>6
<1>2. \E x \in S : \A y \in S : x >= y
  <2>1. PICK x \in S : \A y \in S : y <= x
    BY <1>1
  <2> QED
    BY <2>1
<1> HIDE DEF Unbounded
<1> QED
  BY <1>2 DEF Max

USE MainAssumption, AnchorsAssumption, RequestsAssumption, OrderersAssumption, ChannelBounds


-----------------------------------------------------------------------------
(* Elements, their values and updates of them.                              *)

LEMMA ElementFacts ==
  /\ Sections \subseteq Element /\ OfApplication \subseteq Sections
  /\ Members \in OfApplication
  /\ \A e \in Sections \ {Members} : e # Members
  /\ \A e \in Sections : e[2] = Main
  /\ \A o \in PeerOrgs :
       /\ Anchor(o) \in Element /\ Group(o) \in Element
       /\ Anchor(o) \notin Sections /\ Group(o) \notin Sections
       /\ Anchor(o)[2] = o /\ Group(o)[2] = o
       /\ \A p \in PeerOrgs : /\ Anchor(o) # Group(p) /\ (Anchor(o) = Anchor(p) => o = p)
                             /\ (Group(o) = Group(p) => o = p)
  /\ \A e \in Element \ Sections : \E o \in PeerOrgs : e = Group(o) \/ e = Anchor(o)
BY DEF Element, Sections, OfApplication, Members, Application, Acls, Channel, Setting,
       Capabilities, State, Anchor, Group

LEMMA AskedFacts ==
  /\ Asked(Members) = SUBSET PeerOrgs
  /\ \A e \in {Application, Channel, Setting} : Asked(e) = Values
  /\ \A e \in {Acls, Capabilities} : Asked(e) = SUBSET Names
  /\ Asked(State) = {"normal", "maintenance"}
  /\ \A o \in PeerOrgs : /\ Asked(Anchor(o)) = Anchors \cup {None}
                         /\ Asked(Group(o)) = Values \cup {None}
  /\ \A e \in Element : Asked(e) \subseteq Value
<1>1. \A e \in Element : Asked(e) \subseteq Value
  BY DEF Value
<1>2. \A o \in PeerOrgs : /\ Asked(Anchor(o)) = Anchors \cup {None}
                         /\ Asked(Group(o)) = Values \cup {None}
  BY DEF Asked, Members, Application, Acls, Channel, Setting, Capabilities, State, Anchor, Group
<1> QED
  BY <1>1, <1>2
  DEF Asked, Members, Application, Acls, Channel, Setting, Capabilities, State

LEMMA WantsFacts ==
  ASSUME NEW s \in MainSpec
  PROVE  \A e \in Element : Wants(s, e) \in Asked(e)
<1>1. /\ s.members \in SUBSET PeerOrgs /\ s.acls \in SUBSET Names /\ s.capabilities \in SUBSET Names
      /\ s.certs \in Values /\ s.application \in Values /\ s.channel \in Values
      /\ s.settings \in Values /\ s.state \in {"normal", "maintenance"}
  BY DEF MainSpec
<1>2. \A e \in Sections : Wants(s, e) \in Asked(e)
  BY <1>1 DEF Wants, Asked, Sections, OfApplication, Members, Application, Acls, Channel, Setting,
              Capabilities, State
<1>3. ASSUME NEW o \in PeerOrgs
      PROVE  Wants(s, Group(o)) \in Asked(Group(o)) /\ Wants(s, Anchor(o)) \in Asked(Anchor(o))
  <2>1. Wants(s, Anchor(o)) = None /\ Wants(s, Group(o)) \in {None, s.certs}
    BY DEF Wants, Members, Application, Acls, Channel, Setting, Capabilities, State, Anchor, Group
  <2> QED
    BY <1>1, <2>1, AskedFacts
<1> QED
  BY <1>2, <1>3, ElementFacts

(* What is written instead, ACLs that stay included, is of the same kind.   *)
LEMMA WrittenFacts ==
  ASSUME NEW s \in MainSpec, ConfigTyped
  PROVE  \A e \in Element : Written(s, e) \in Asked(e)
<1>1. Acls \in Element /\ s.acls \in SUBSET Names /\ Asked(Acls) = SUBSET Names
  BY ElementFacts, AskedFacts DEF MainSpec, Sections, OfApplication
<1>2. Val(Acls) \in SUBSET Names
  BY <1>1 DEF ConfigTyped
<1>3. Val(Acls) \cup s.acls \in Asked(Acls)
  BY <1>1, <1>2
<1> QED
  BY <1>3, WantsFacts DEF Written

(* An update is proposed by who may make it, with values that it may hold.  *)
LEMMA ProposeFacts ==
  ASSUME Typed, NEW c \in Controllers, NEW read \in Reads, NEW write, Propose(c, read, write),
         write = [e \in DOMAIN write |-> write[e]], DOMAIN write \in SUBSET Element,
         \A e \in DOMAIN write : write[e] \in Asked(e), Owned(c, write)
  PROVE  /\ run' \in [Controllers -> Runs]
         /\ \A d \in Controllers \ {c} : run'[d] = run[d]
         /\ run'[c].pc = "submit" => run'[c].update = [by |-> c, read |-> read, write |-> write]
<1>1. CASE write = <<>>
  <2>1. run' = [run EXCEPT ![c] = Idle] /\ Idle \in Runs /\ Idle.pc # "submit"
    BY <1>1 DEF Propose, End, Runs, Idle
  <2> QED
    BY <2>1 DEF Typed
<1>2. CASE write # <<>>
  <2>1. read \in Reads
    OBVIOUS
  <2>2. write \in [DOMAIN write -> Value]
    BY AskedFacts
  <2>3. write \in Writes
    BY <1>2, <2>2 DEF Writes
  <2> DEFINE u == [by |-> c, read |-> read, write |-> write]
  <2>4. u \in Updates
    BY <2>1, <2>3 DEF Updates
  <2>5. run' = [run EXCEPT ![c] = [pc |-> "submit", update |-> u]]
    BY <1>2 DEF Propose
  <2> HIDE DEF u
  <2>6. [pc |-> "submit", update |-> u] \in Runs
    BY <2>4 DEF Runs
  <2> QED
    BY <2>5, <2>6 DEF Typed, u
<1> QED
  BY <1>1, <1>2

(* What the orderers make of an update.                                     *)
LEMMA AppliedFacts ==
  ASSUME ConfigTyped, NEW u \in Updates, config' = Applied(u)
  PROVE  /\ Served' /\ ConfigTyped'
         /\ Members \notin DOMAIN u.write => config'[Members] = config[Members]
         /\ Members \in DOMAIN u.write => Ver(Members)' = Ver(Members) + 1
         /\ \A o \in PeerOrgs : o \in Val(Members)' =>
              /\ Val(Anchor(o))' # Val(Anchor(o)) => u.by = o
              /\ Val(Group(o))' = IF Group(o) \in DOMAIN u.write THEN u.write[Group(o)]
                                                               ELSE Val(Group(o))
<1> DEFINE New(e) == IF e \in DOMAIN u.write
                       THEN [val |-> u.write[e], ver |-> Ver(e) + 1] ELSE config[e]
           Stays(e) == e[2] = Main \/ e[2] \in New(Members).val
<1>1. config' = [e \in Element |-> IF Stays(e) THEN New(e) ELSE [val |-> None, ver |-> 0]]
  BY DEF Applied
<1>2. \A e \in Element : New(e).val \in Asked(e) /\ New(e).ver \in Nat
  BY DEF ConfigTyped, Updates, Writes, Val, Ver
<1>3. \A e \in Element : Stays(e) \/ e \notin Sections
  BY ElementFacts
<1>4. \A e \in Element : e \notin Sections => None \in Asked(e)
  BY ElementFacts, AskedFacts
<1>5. /\ Members \in Element /\ Stays(Members)
      /\ Members \notin DOMAIN u.write => New(Members) = config[Members]
      /\ Members \in DOMAIN u.write => New(Members).ver = Ver(Members) + 1
  BY ElementFacts
<1>6. ASSUME NEW o \in PeerOrgs, o \in New(Members).val
      PROVE  /\ Stays(Anchor(o)) /\ Stays(Group(o)) /\ Anchor(o) \in Element /\ Group(o) \in Element
             /\ Anchor(o) \in DOMAIN u.write \/ New(Anchor(o)).val = Val(Anchor(o))
             /\ New(Group(o)).val = IF Group(o) \in DOMAIN u.write THEN u.write[Group(o)]
                                                                ELSE Val(Group(o))
  <2>1. Stays(Anchor(o)) /\ Stays(Group(o)) /\ Anchor(o) \in Element /\ Group(o) \in Element
    BY <1>6, ElementFacts
  <2> QED
    BY <2>1 DEF Val
<1> HIDE DEF New, Stays
<1>7. Served'
  BY <1>1, <1>5 DEF Served
<1>8. ConfigTyped'
  BY <1>1, <1>2, <1>3, <1>4 DEF ConfigTyped, Val, Ver
<1>9. /\ config'[Members] = New(Members) /\ Val(Members)' = New(Members).val
       /\ Ver(Members)' = New(Members).ver
  BY <1>1, <1>5 DEF Val, Ver
<1>10. ASSUME NEW o \in PeerOrgs, o \in Val(Members)'
       PROVE  /\ Val(Anchor(o))' # Val(Anchor(o)) => u.by = o
              /\ Val(Group(o))' = IF Group(o) \in DOMAIN u.write THEN u.write[Group(o)]
                                                               ELSE Val(Group(o))
  <2>1. Val(Anchor(o))' = New(Anchor(o)).val /\ Val(Group(o))' = New(Group(o)).val
    BY <1>1, <1>6, <1>9, <1>10 DEF Val
  <2>2. o \in New(Members).val
    BY <1>9, <1>10
  <2>3. Val(Anchor(o))' # Val(Anchor(o)) => Anchor(o) \in DOMAIN u.write
    BY <1>6, <2>1, <2>2
  <2>4. Val(Group(o))' = IF Group(o) \in DOMAIN u.write THEN u.write[Group(o)] ELSE Val(Group(o))
    BY <1>6, <2>1, <2>2
  <2> QED
    BY <2>3, <2>4 DEF Updates, Owned
<1>11. Members \notin DOMAIN u.write => config'[Members] = config[Members]
  BY <1>5, <1>9
<1>12. Members \in DOMAIN u.write => Ver(Members)' = Ver(Members) + 1
  BY <1>5, <1>9
<1> QED
  BY <1>7, <1>8, <1>10, <1>11, <1>12

(* The main controller writes no anchor peers, and a group only with the    *)
(* members that it adds the organization to.                                *)
LEMMA UpdateFacts ==
  ASSUME Typed, Served, NEW s \in MainSpec, updateChannelConfig(s)
  PROVE  /\ run' \in [Controllers -> Runs] /\ \A d \in Controllers \ {Main} : run'[d] = run[d]
         /\ run'[Main].pc = "submit" => KeepsCerts(run'[Main].update)
<1> DEFINE changes == ApplicationChanges(s) \cup ChannelChanges(s) \cup OrdererChanges(s)
           rest    == IF Members \in changes THEN OfApplication \cup Staying(s)
                      ELSE {e \in {Members} : changes \cap OfApplication # {}}
           R       == changes \cup rest
           read    == [e \in R |-> Ver(e)]
           write   == [e \in changes |-> Written(s, e)]
<1>1. Main \in Controllers /\ ConfigTyped /\ Val(Members) \subseteq PeerOrgs /\ s.members \subseteq PeerOrgs
  BY ElementFacts, AskedFacts DEF Typed, ConfigTyped, Controllers, MainSpec
<1>2. changes \subseteq Sections \cup Added(s)
  BY DEF ApplicationChanges, ChannelChanges, OrdererChanges, Sections, OfApplication
<1>3. Added(s) \subseteq Element /\ Staying(s) \subseteq Element
  BY <1>1, ElementFacts DEF Added, Staying
<1>4. R \in SUBSET Element /\ changes \in SUBSET Element
  <2>1. changes \subseteq Element
    BY <1>2, <1>3, ElementFacts
  <2>2. rest \subseteq Element
    BY <1>3, ElementFacts
  <2> QED
    BY <2>1, <2>2
<1>5. ASSUME NEW o \in PeerOrgs, Group(o) \in changes
      PROVE  o \notin Val(Members) /\ Members \in changes
  <2>1. Group(o) \in Added(s) /\ Group(o) \in ApplicationChanges(s)
    <3>1. Group(o) \notin Sections
      BY ElementFacts
    <3>2. Group(o) \notin ChannelChanges(s) /\ Group(o) \notin OrdererChanges(s)
      BY <3>1 DEF ChannelChanges, OrdererChanges, Sections
    <3> QED
      BY <1>2, <1>5, <3>1, <3>2
  <2>2. o \in s.members \ Val(Members)
    BY <1>1, <2>1, ElementFacts DEF Added
  <2>3. Differs(s, Members)
    <3>1. Members # Acls /\ Wants(s, Members) = s.members
      BY DEF Wants, Members, Application, Acls, Channel, Setting, Capabilities, State
    <3> QED
      BY <2>2, <3>1 DEF Differs
  <2>4. Members \in ApplicationChanges(s)
    BY <2>1, <2>3, ElementFacts DEF ApplicationChanges
  <2> QED
    BY <2>2, <2>4
<1>6. CASE CapabilityMissing(s)
  <2>1. run' = [run EXCEPT ![Main] = Idle] /\ Idle \in Runs /\ Idle.pc # "submit"
    BY <1>6 DEF updateChannelConfig, End, Runs, Idle
  <2> QED
    BY <1>1, <2>1 DEF Typed
<1>7. CASE ~CapabilityMissing(s)
  <2>1. Propose(Main, read, write)
    BY <1>7 DEF updateChannelConfig
  <2>2. Members \in changes => Members \in R
    OBVIOUS
  <2> HIDE DEF changes, R
  <2>3. read \in Reads
    BY <1>1, <1>4 DEF ConfigTyped, Reads
  <2>4. \A e \in changes : write[e] \in Asked(e)
    BY <1>1, <1>4, WrittenFacts
  <2>5. Owned(Main, write)
    <3>1. \A o \in PeerOrgs : Anchor(o) \notin changes
      BY <1>1, <1>2, ElementFacts DEF Added
    <3> QED
      BY <3>1 DEF Owned
  <2>6. DOMAIN write = changes /\ write = [e \in changes |-> write[e]]
    OBVIOUS
  <2>7. KeepsCerts([by |-> Main, read |-> read, write |-> write])
    <3> SUFFICES ASSUME NEW o \in PeerOrgs, Group(o) \in changes
                 PROVE  /\ Members \in R /\ read[Members] <= Ver(Members)
                        /\ o \notin Val(Members)
      BY DEF KeepsCerts
    <3>1. Members \in R /\ o \notin Val(Members) /\ Ver(Members) \in Nat
      BY <1>1, <1>4, <1>5, <2>2 DEF ConfigTyped
    <3> QED
      BY <3>1
  <2> HIDE DEF read, write, rest
  <2>8. /\ run' \in [Controllers -> Runs]
        /\ \A d \in Controllers \ {Main} : run'[d] = run[d]
        /\ run'[Main].pc = "submit" => run'[Main].update = [by |-> Main, read |-> read, write |-> write]
    <3>1. Main \in Controllers
      BY <1>1
    <3> QED
      BY <1>4, <2>1, <2>3, <2>4, <2>5, <2>6, <3>1, ProposeFacts
  <2> QED
    BY <2>7, <2>8
<1> QED
  BY <1>6, <1>7

(* A follower writes its own anchor peers, and its own group as it is.      *)
LEMMA AnchorFacts ==
  ASSUME Typed, Served, NEW o \in PeerOrgs, SetAnchorPeers(o)
  PROVE  /\ run' \in [Controllers -> Runs] /\ \A d \in Controllers \ {o} : run'[d] = run[d]
         /\ run'[o].pc = "submit" => KeepsCerts(run'[o].update)
<1> DEFINE change == AnchorChanges(o)
           grow   == {e \in {Group(o)} : change # {} /\ Val(Anchor(o)) = None}
           R      == {Members, Group(o)} \cup change
           W      == change \cup grow
           read   == [e \in R |-> Ver(e)]
           write  == [e \in W |-> IF e = Anchor(o) THEN spec[o] ELSE Val(e)]
<1>1. change \subseteq {Anchor(o)} /\ grow \subseteq {Group(o)}
  BY DEF AnchorChanges
<1>2. Propose(o, read, write)
  BY DEF SetAnchorPeers
<1>3. /\ R \in SUBSET Element /\ W \in SUBSET Element /\ W \subseteq {Anchor(o), Group(o)}
      /\ Members \in R /\ o \in Controllers /\ ConfigTyped
  BY <1>1, ElementFacts DEF Controllers, Typed
<1> HIDE DEF change, grow, R, W
<1>4. read \in Reads
  BY <1>3 DEF ConfigTyped, Reads
<1>5. \A e \in W : write[e] \in Asked(e)
  BY <1>3, AskedFacts, ElementFacts DEF Typed, ConfigTyped
<1>6. Owned(o, write)
  BY <1>3, ElementFacts DEF Owned
<1>7. DOMAIN write = W /\ write = [e \in W |-> write[e]]
  OBVIOUS
<1>8. KeepsCerts([by |-> o, read |-> read, write |-> write])
  <2> SUFFICES ASSUME NEW p \in PeerOrgs, Group(p) \in W
               PROVE  /\ Members \in R /\ read[Members] <= Ver(Members)
                      /\ write[Group(p)] = Val(Group(p))
    BY DEF KeepsCerts
  <2>1. Ver(Members) \in Nat
    BY <1>3 DEF ConfigTyped
  <2> QED
    BY <1>3, <2>1, ElementFacts
<1> HIDE DEF read, write
<1>9. /\ run' \in [Controllers -> Runs]
      /\ \A d \in Controllers \ {o} : run'[d] = run[d]
      /\ run'[o].pc = "submit" => run'[o].update = [by |-> o, read |-> read, write |-> write]
  BY <1>2, <1>3, <1>4, <1>5, <1>6, <1>7, ProposeFacts
<1> QED
  BY <1>8, <1>9

(* The number of a new genesis block.                                       *)
LEMMA NewBlock ==
  ASSUME Typed, Node # {}
  PROVE  1 + Max({joined[o] : o \in Node}) \in Nat
<1> DEFINE S == {joined[o] : o \in Node}
<1>1. IsFiniteSet(Node)
  <2>1. Len(Orderers) \in Nat /\ DOMAIN Orderers = 1 .. Len(Orderers)
    OBVIOUS
  <2>2. IsFiniteSet(DOMAIN Orderers)
    BY <2>1, FS_Interval
  <2>3. [i \in DOMAIN Orderers |-> Orderers[i]] \in Surjection(DOMAIN Orderers, Node)
    BY DEF Surjection, Node, ToSet
  <2> QED
    BY <2>2, <2>3, FS_Surjection
<1>2. IsFiniteSet(S)
  <2>1. [o \in Node |-> joined[o]] \in Surjection(Node, S)
    BY DEF Surjection
  <2> QED
    BY <1>1, <2>1, FS_Surjection
<1>3. S \in SUBSET Nat /\ S # {}
  BY DEF Typed
<1> HIDE DEF S
<1>4. Max(S) \in Nat
  BY <1>2, <1>3, LargestIsMax
<1> QED
  BY <1>4 DEF S

LEMMA JoinFacts ==
  ASSUME Typed, JoinOrderers
  PROVE  /\ joined' \in [Node -> Nat]
         /\ Served => UNCHANGED config
         /\ Served' => ConfigTyped'
         /\ run' \in [Controllers -> Runs] /\ run'[Main].pc # "submit"
         /\ \A d \in Controllers \ {Main} : run'[d] = run[d]
         /\ events' \in 0 .. MaxEvents
<1>1. Main \in Controllers /\ run[Main] \in [pc: {"create", "created"}, spec: MainSpec]
  BY DEF JoinOrderers, At, Typed, Runs, Idle, Controllers
<1>2. PICK n \in 0 .. Len(Orderers) :
        LET new    == 1 + Max({joined[o] : o \in Node})
            joins  == {o \in Node : joined[o] = 0 /\ \E i \in 1 .. n : Orderers[i] = o}
        IN
        /\ joined' = [o \in Node |-> IF o \in joins THEN new ELSE joined[o]]
        /\ config' = IF ~Served /\ 2 * Cardinality(joins) > Cardinality(Node)
                       THEN mapToConfigTX(run[Main].spec) ELSE config
        /\ \/ n = Len(Orderers) /\ run' = [run EXCEPT ![Main].pc = "created"] /\ UNCHANGED events
           \/ n < Len(Orderers) /\ Event /\ End(Main)
  BY DEF JoinOrderers
<1>3. joined' \in [Node -> Nat]
  <2>1. PICK b : b = 1 + Max({joined[o] : o \in Node})
    OBVIOUS
  <2>2. Node # {} => b \in Nat
    BY <2>1, NewBlock
  <2>3. joined' = [o \in Node |-> IF joined[o] = 0 /\ \E i \in 1 .. n : Orderers[i] = o
                                    THEN b ELSE joined[o]]
    BY <1>2, <2>1
  <2> QED
    BY <2>2, <2>3 DEF Typed
<1>4. config' = config \/ (~Served /\ config' = mapToConfigTX(run[Main].spec))
  BY <1>2
<1>5. ASSUME config' = mapToConfigTX(run[Main].spec) PROVE ConfigTyped'
  <2>1. run[Main].spec \in MainSpec
    BY <1>1
  <2> QED
    BY <1>5, <2>1, WantsFacts DEF mapToConfigTX, ConfigTyped, Val, Ver
<1>6. ASSUME config' = config PROVE Served' => ConfigTyped'
  BY <1>6 DEF Typed, ConfigTyped, Served, Val, Ver
<1>7. \/ UNCHANGED events /\ run' = [run EXCEPT ![Main].pc = "created"]
      \/ Event /\ run' = [run EXCEPT ![Main] = Idle]
  BY <1>2 DEF End
<1>8. [run[Main] EXCEPT !.pc = "created"] \in Runs
  BY <1>1 DEF Runs
<1>9. run' \in [Controllers -> Runs] /\ run'[Main].pc # "submit"
      /\ \A d \in Controllers \ {Main} : run'[d] = run[d]
  <2>1. run \in [Controllers -> Runs] /\ Idle \in Runs /\ Idle.pc # "submit"
    BY DEF Typed, Runs, Idle
  <2>2. [run[Main] EXCEPT !.pc = "created"].pc = "created"
    BY <1>1
  <2> QED
    BY <1>1, <1>7, <1>8, <2>1, <2>2
<1>10. events' \in 0 .. MaxEvents
  BY <1>7 DEF Event, Typed
<1> QED
  BY <1>3, <1>4, <1>5, <1>6, <1>9, <1>10

-----------------------------------------------------------------------------
(* The invariant.                                                           *)

LEMMA InitTyped == Init => Typed
<1> SUFFICES ASSUME Init PROVE Typed
  OBVIOUS
<1>1. PICK s \in Starts : spec = [c \in Controllers |-> IF c = Main THEN s ELSE First(Anchors)]
  BY DEF Init
<1>2. s \in MainSpec /\ First(Anchors) \in Anchors
  BY DEF First
<1>3. /\ DOMAIN spec = Controllers /\ spec[Main] \in MainSpec
      /\ \A o \in PeerOrgs : spec[o] \in Anchors
  BY <1>1, <1>2 DEF Controllers
<1>4. /\ joined \in [Node -> Nat] /\ ~Served /\ pending = <<>> /\ peers = {} /\ main = "there"
      /\ run = [c \in Controllers |-> Idle] /\ events = 0
  BY DEF Init, Served
<1>5. run \in [Controllers -> Runs] /\ \A c \in Controllers : ~ At(c, "submit")
  BY <1>4 DEF Runs, At, Idle
<1>6. pending \in Seq(Updates) /\ Len(pending) <= MaxPending
  BY <1>4
<1> QED
  BY <1>3, <1>4, <1>5, <1>6 DEF Typed

LEMMA OrderFacts ==
  ASSUME Typed, CertsSafe, Order
  PROVE  /\ pending' \in Seq(Updates) /\ Len(pending') <= MaxPending
         /\ \A i \in 1 .. Len(pending') : i + 1 \in 1 .. Len(pending) /\ pending'[i] = pending[i + 1]
         /\ Served /\ Served' /\ ConfigTyped'
         /\ Ver(Members)' >= Ver(Members)
         /\ Ver(Members)' = Ver(Members) => Val(Members)' = Val(Members)
         /\ \A o \in PeerOrgs : o \in Val(Members)' =>
              /\ Val(Anchor(o))' # Val(Anchor(o)) => Head(pending).by = o
              /\ o \in Val(Members) => Val(Group(o))' = Val(Group(o))
<1>1. /\ pending \in Seq(Updates) /\ pending # <<>> /\ pending' = Tail(pending)
      /\ Len(pending) <= MaxPending /\ Served /\ ConfigTyped
  BY DEF Typed, Order
<1>2. /\ Head(pending) \in Updates /\ pending' \in Seq(Updates) /\ Len(pending') = Len(pending) - 1
      /\ Len(pending) \in Nat \ {0} /\ Head(pending) = pending[1]
      /\ \A i \in 1 .. Len(pending') : pending'[i] = pending[i + 1]
  BY <1>1
<1>3. KeepsCerts(Head(pending)) /\ Ver(Members) \in Nat
  <2>1. 1 \in 1 .. Len(pending) /\ Members \in Element
    BY <1>2, ElementFacts
  <2> QED
    BY <1>1, <1>2, <2>1 DEF CertsSafe, ConfigTyped
<1>4. CASE config' = config
  BY <1>1, <1>2, <1>3, <1>4 DEF ConfigTyped, Served, Val, Ver
<1>5. CASE Acceptable(Head(pending)) /\ config' = Applied(Head(pending))
  <2> DEFINE u == Head(pending)
  <2>1. /\ Served' /\ ConfigTyped'
        /\ Members \notin DOMAIN u.write => config'[Members] = config[Members]
        /\ Members \in DOMAIN u.write => Ver(Members)' = Ver(Members) + 1
        /\ \A o \in PeerOrgs : o \in Val(Members)' =>
             /\ Val(Anchor(o))' # Val(Anchor(o)) => u.by = o
             /\ Val(Group(o))' = IF Group(o) \in DOMAIN u.write THEN u.write[Group(o)]
                                                              ELSE Val(Group(o))
    BY <1>1, <1>2, <1>5, AppliedFacts
  <2>2. Ver(Members)' >= Ver(Members) /\ (Ver(Members)' = Ver(Members) => Val(Members)' = Val(Members))
    BY <1>3, <2>1 DEF Val, Ver
  <2>3. ASSUME NEW o \in PeerOrgs, o \in Val(Members), Group(o) \in DOMAIN u.write
        PROVE  u.write[Group(o)] = Val(Group(o))
    BY <1>3, <1>5, <2>3 DEF KeepsCerts, Acceptable
  <2> QED
    BY <1>1, <1>2, <2>1, <2>2, <2>3
<1> QED
  BY <1>4, <1>5 DEF Order

LEMMA StepTyped ==
  ASSUME Typed, CertsSafe, [Next]_vars
  PROVE  Typed'
<1>1. ASSUME UNCHANGED config PROVE (Served => ConfigTyped)' /\ Served' = Served
  BY <1>1 DEF Typed, Served, ConfigTyped, Val, Ver
<1>2. ASSUME NEW c \in Controllers, Edit(c) PROVE Typed'
  <2>1. PICK s \in (IF c = Main THEN Requests ELSE Anchors) : spec' = [spec EXCEPT ![c] = s]
    BY <1>2 DEF Edit
  <2>2. /\ DOMAIN spec' = Controllers /\ spec'[Main] \in MainSpec
        /\ \A o \in PeerOrgs : spec'[o] \in Anchors
    BY <2>1 DEF Typed, Controllers
  <2>3. UNCHANGED <<joined, config, pending, peers, run, main>> /\ events' \in 0 .. MaxEvents
    BY <1>2 DEF Edit, Manage, Event, channel, Typed
  <2> QED
    BY <1>1, <2>2, <2>3 DEF Typed, At
<1>3. ASSUME Delete PROVE Typed'
  BY <1>1, <1>3 DEF Delete, Manage, Event, channel, Typed, At
<1>4. ASSUME NEW c \in Controllers, CallFails(c) PROVE Typed'
  <2>1. run' = [run EXCEPT ![c] = Idle] /\ Idle \in Runs /\ Idle.pc # "submit"
    BY <1>4 DEF CallFails, End, Runs, Idle
  <2>2. run' \in [Controllers -> Runs]
        /\ \A d \in Controllers : run'[d].pc = "submit" => run[d].pc = "submit"
    BY <2>1 DEF Typed
  <2>3. UNCHANGED <<joined, config, pending, peers, main, spec>> /\ events' \in 0 .. MaxEvents
    BY <1>4 DEF CallFails, Event, channel, Typed
  <2> QED
    BY <1>1, <2>2, <2>3 DEF Typed, At
<1>5. ASSUME Order PROVE Typed'
  BY <1>5, OrderFacts DEF Order, Typed, At
<1>6. ASSUME NEW c \in Controllers, SaveChannel(c) PROVE Typed'
  <2>1. run' = [run EXCEPT ![c] = Idle] /\ Idle \in Runs /\ Idle.pc # "submit" /\ Served
    BY <1>6 DEF SaveChannel, End, Runs, Idle, Typed
  <2>2. run' \in [Controllers -> Runs]
        /\ \A d \in Controllers : run'[d].pc = "submit" => run[d].pc = "submit"
    BY <2>1 DEF Typed
  <2>3. run[c].update \in Updates
    BY <1>6 DEF SaveChannel, At, Typed, Runs, Idle
  <2>4. pending' \in Seq(Updates) /\ Len(pending') <= MaxPending
    <3>1. pending \in Seq(Updates) /\ Len(pending) \in Nat /\ Len(pending) <= MaxPending
      BY DEF Typed
    <3>2. CASE pending' = pending
      BY <3>1, <3>2
    <3>3. CASE Len(pending) < MaxPending /\ pending' = Append(pending, run[c].update)
      <4>1. Len(pending') = Len(pending) + 1 /\ pending' \in Seq(Updates)
        BY <2>3, <3>1, <3>3
      <4> QED
        BY <3>1, <3>3, <4>1
    <3> QED
      BY <1>6, <3>2, <3>3 DEF SaveChannel
  <2>5. UNCHANGED <<joined, config, peers, main, spec, events>>
    BY <1>6 DEF SaveChannel
  <2> QED
    BY <1>1, <2>1, <2>2, <2>4, <2>5 DEF Typed, At
<1>7. ASSUME QueryConfigBlock PROVE Typed'
  <2>1. /\ UNCHANGED <<joined, config, pending, peers, spec>>
        /\ main' \in {"there", "deleting", "gone"} /\ events' \in 0 .. MaxEvents
    BY <1>7 DEF QueryConfigBlock, channel, Event, Typed
  <2>2. spec[Main] \in MainSpec
    BY DEF Typed
  <2>3. /\ run' \in [Controllers -> Runs]
        /\ \A d \in Controllers : run'[d].pc = "submit" => Served
    <3>1. CASE Served /\ updateChannelConfig(spec[Main])
      BY <2>2, <3>1, UpdateFacts
    <3>2. CASE run' = [run EXCEPT ![Main] = Copy(Main)]
      <4>1. Copy(Main) \in Runs /\ Copy(Main).pc # "submit"
        BY <2>2 DEF Copy, Runs
      <4> QED
        BY <3>2, <4>1 DEF Typed, At
    <3> QED
      BY <1>7, <3>1, <3>2 DEF QueryConfigBlock
  <2> QED
    BY <1>1, <2>1, <2>3 DEF Typed, At
<1>8. ASSUME JoinOrderers PROVE Typed'
  <2>1. UNCHANGED <<pending, peers, main, spec>>
    BY <1>8 DEF JoinOrderers
  <2>2. Served => Served'
    BY <1>8, JoinFacts DEF Served
  <2>3. \A d \in Controllers : run'[d].pc = "submit" => Served'
    BY <1>8, <2>2, JoinFacts DEF Typed, At
  <2> QED
    BY <1>8, <2>1, <2>2, <2>3, JoinFacts DEF Typed, At
<1>9. ASSUME QueryAgain PROVE Typed'
  <2>1. UNCHANGED <<joined, config, pending, peers, main, spec, events>>
    BY <1>9 DEF QueryAgain, channel
  <2>2. run[Main].spec \in MainSpec
    BY <1>9 DEF QueryAgain, At, Typed, Runs, Idle, Controllers
  <2>3. /\ run' \in [Controllers -> Runs]
        /\ \A d \in Controllers : run'[d].pc = "submit" => Served
    <3>1. CASE Served /\ updateChannelConfig(run[Main].spec)
      BY <2>2, <3>1, UpdateFacts
    <3>2. CASE run' = [run EXCEPT ![Main] = Idle]
      BY <3>2 DEF Typed, At, Runs, Idle
    <3> QED
      BY <1>9, <3>1, <3>2 DEF QueryAgain, End
  <2> QED
    BY <1>1, <2>1, <2>3 DEF Typed, At
<1>10. ASSUME NEW o \in PeerOrgs, JoinChannel(o) PROVE Typed'
  <2>1. /\ UNCHANGED <<joined, config, pending, main, spec, events>> /\ Served
        /\ peers' \subseteq PeerOrgs
    BY <1>10 DEF JoinChannel, Typed
  <2>2. run' \in [Controllers -> Runs]
    <3>1. CASE SetAnchorPeers(o)
      BY <2>1, <3>1, AnchorFacts
    <3>2. CASE run' = [run EXCEPT ![o] = Idle]
      BY <3>2 DEF Typed, Runs
    <3> QED
      BY <1>10, <3>1, <3>2 DEF JoinChannel, End
  <2> QED
    BY <1>1, <2>1, <2>2 DEF Typed, At
<1>11. CASE UNCHANGED vars
  BY <1>1, <1>11 DEF vars, Typed, At
<1> QED
  BY <1>2, <1>3, <1>4, <1>5, <1>6, <1>7, <1>8, <1>9, <1>10, <1>11
  DEF Next, Reconcile, Controllers

(* An update that was safe stays so, and new ones are.                      *)
LEMMA StepCertsSafe ==
  ASSUME Typed, CertsSafe, [Next]_vars
  PROVE  CertsSafe'
<1> DEFINE Kept(d) == run'[d] = run[d] \/ run'[d].pc # "submit"
<1>1. ASSUME NEW u, UNCHANGED config, KeepsCerts(u)
      PROVE  KeepsCerts(u)'
  BY <1>1 DEF KeepsCerts, Val, Ver
<1>2. ASSUME UNCHANGED <<config, pending>>,
             \A d \in Controllers : Kept(d) \/ (run'[d].pc = "submit" => KeepsCerts(run'[d].update))
      PROVE  CertsSafe'
  BY <1>1, <1>2 DEF CertsSafe, At, KeepsCerts, Val, Ver
<1>3. ASSUME NEW c \in Controllers, run' = [run EXCEPT ![c] = Idle]
      PROVE  \A d \in Controllers : Kept(d)
  BY <1>3 DEF Typed, Idle
<1>4. ASSUME NEW c \in Controllers, Edit(c) PROVE CertsSafe'
  BY <1>2, <1>4 DEF Edit, Manage, channel
<1>5. ASSUME Delete PROVE CertsSafe'
  BY <1>2, <1>5 DEF Delete, Manage, channel
<1>6. ASSUME NEW c \in Controllers, CallFails(c) PROVE CertsSafe'
  BY <1>2, <1>3, <1>6 DEF CallFails, End, channel
<1>7. ASSUME Order PROVE CertsSafe'
  <2>1. ASSUME NEW u, KeepsCerts(u), u \in Updates PROVE KeepsCerts(u)'
    <3> SUFFICES ASSUME NEW o \in PeerOrgs, Group(o) \in DOMAIN u.write
                 PROVE  /\ Members \in DOMAIN u.read /\ u.read[Members] <= Ver(Members)'
                        /\ u.read[Members] = Ver(Members)' /\ o \in Val(Members)'
                             => u.write[Group(o)] = Val(Group(o))'
      BY DEF KeepsCerts
    <3>1. Members \in DOMAIN u.read /\ u.read[Members] <= Ver(Members)
      BY <2>1 DEF KeepsCerts
    <3>2. u.read[Members] \in Nat
      BY <2>1, <3>1 DEF Updates, Reads
    <3>3. Ver(Members) \in Nat /\ Ver(Members)' \in Nat
      BY <1>7, OrderFacts, ElementFacts DEF Typed, ConfigTyped
    <3>4. u.read[Members] <= Ver(Members)'
      BY <1>7, <3>1, <3>2, <3>3, OrderFacts
    <3>5. ASSUME u.read[Members] = Ver(Members)', o \in Val(Members)'
          PROVE  u.write[Group(o)] = Val(Group(o))'
      <4>1. Ver(Members)' = Ver(Members)
        BY <1>7, <3>1, <3>2, <3>3, <3>5, OrderFacts
      <4>2. o \in Val(Members)
        BY <1>7, <3>5, <4>1, OrderFacts
      <4>3. Val(Group(o))' = Val(Group(o))
        BY <1>7, <3>5, <4>2, OrderFacts
      <4> QED
        BY <2>1, <3>5, <4>1, <4>2, <4>3 DEF KeepsCerts
    <3> QED
      BY <3>1, <3>4, <3>5
  <2>2. \A d \in Controllers : At(d, "submit") => run[d].update \in Updates
    BY DEF Typed, At, Runs, Idle
  <2>3. UNCHANGED run
    BY <1>7 DEF Order
  <2>4. \A d \in Controllers : At(d, "submit")' => KeepsCerts(run[d].update)'
    <3> SUFFICES ASSUME NEW d \in Controllers, At(d, "submit")'
                 PROVE  KeepsCerts(run[d].update)'
      OBVIOUS
    <3>1. At(d, "submit")
      BY <2>3 DEF At
    <3>2. KeepsCerts(run[d].update) /\ run[d].update \in Updates
      BY <2>2, <3>1 DEF CertsSafe
    <3>3. PICK u \in Updates : u = run[d].update /\ KeepsCerts(u)
      BY <3>2
    <3>4. KeepsCerts(u)'
      BY <2>1, <3>3
    <3> QED
      BY <2>3, <3>3, <3>4 DEF KeepsCerts
  <2>5. ASSUME NEW i \in 1 .. Len(pending') PROVE KeepsCerts(pending[i])'
    <3>1. i + 1 \in 1 .. Len(pending) /\ pending'[i] = pending[i + 1]
      BY <1>7, OrderFacts
    <3>2. PICK u \in Updates : u = pending[i + 1] /\ KeepsCerts(u)
      BY <3>1 DEF CertsSafe, Typed
    <3>3. KeepsCerts(u)'
      BY <2>1, <3>2
    <3> QED
      BY <3>1, <3>2, <3>3 DEF KeepsCerts
  <2> QED
    BY <2>4, <2>5 DEF CertsSafe
<1>8. ASSUME NEW c \in Controllers, SaveChannel(c) PROVE CertsSafe'
  <2>1. UNCHANGED config /\ \A d \in Controllers : Kept(d)
    BY <1>3, <1>8 DEF SaveChannel, End
  <2>2. ASSUME NEW i \in 1 .. Len(pending') PROVE KeepsCerts(pending'[i])
    <3>1. pending \in Seq(Updates) /\ Len(pending) \in Nat /\ KeepsCerts(run[c].update)
      BY <1>8 DEF Typed, CertsSafe, SaveChannel
    <3>2. CASE pending' = pending
      BY <3>2 DEF CertsSafe
    <3>3. CASE pending' = Append(pending, run[c].update)
      <4>1. /\ i \in 1 .. Len(pending) + 1
            /\ pending'[i] = IF i = Len(pending) + 1 THEN run[c].update ELSE pending[i]
        BY <3>1, <3>3
      <4>2. i = Len(pending) + 1 \/ i \in 1 .. Len(pending)
        BY <3>1, <4>1
      <4> QED
        BY <3>1, <4>1, <4>2 DEF CertsSafe
    <3> QED
      BY <1>8, <3>2, <3>3 DEF SaveChannel
  <2>3. \A i \in 1 .. Len(pending') : KeepsCerts(pending[i])'
    BY <2>1, <2>2 DEF KeepsCerts, Val, Ver
  <2> QED
    BY <1>1, <2>1, <2>3 DEF CertsSafe, At, KeepsCerts, Val, Ver
<1>9. ASSUME QueryConfigBlock PROVE CertsSafe'
  <2>1. UNCHANGED <<config, pending>> /\ spec[Main] \in MainSpec /\ Main \in Controllers
    BY <1>9 DEF QueryConfigBlock, channel, Typed, Controllers
  <2>2. CASE Served /\ updateChannelConfig(spec[Main])
    BY <1>2, <2>1, <2>2, UpdateFacts
  <2>3. CASE run' = [run EXCEPT ![Main] = Copy(Main)]
    BY <1>2, <2>1, <2>3 DEF Copy, Typed
  <2> QED
    BY <1>9, <2>2, <2>3 DEF QueryConfigBlock
<1>10. ASSUME JoinOrderers PROVE CertsSafe'
  <2>1. UNCHANGED pending /\ run'[Main].pc # "submit"
        /\ \A d \in Controllers \ {Main} : run'[d] = run[d]
    BY <1>10, JoinFacts DEF JoinOrderers
  <2>2. CASE Served
    BY <1>2, <1>10, <2>1, <2>2, JoinFacts
  <2>3. CASE ~Served
    <3>1. pending = <<>> /\ \A d \in Controllers : ~ At(d, "submit")
      BY <2>3 DEF Typed
    <3>2. Len(pending') = 0 /\ \A d \in Controllers : ~ At(d, "submit")'
      BY <2>1, <3>1 DEF At
    <3> QED
      BY <3>2 DEF CertsSafe
  <2> QED
    BY <2>2, <2>3
<1>11. ASSUME QueryAgain PROVE CertsSafe'
  <2>1. UNCHANGED <<config, pending>> /\ Main \in Controllers /\ run[Main].spec \in MainSpec
    BY <1>11 DEF QueryAgain, channel, At, Typed, Runs, Idle, Controllers
  <2>2. CASE Served /\ updateChannelConfig(run[Main].spec)
    BY <1>2, <2>1, <2>2, UpdateFacts
  <2>3. CASE run' = [run EXCEPT ![Main] = Idle]
    BY <1>2, <1>3, <2>1, <2>3
  <2> QED
    BY <1>11, <2>2, <2>3 DEF QueryAgain, End
<1>12. ASSUME NEW o \in PeerOrgs, JoinChannel(o) PROVE CertsSafe'
  <2>1. UNCHANGED <<config, pending>> /\ Served /\ o \in Controllers
    BY <1>12 DEF JoinChannel, Controllers
  <2>2. CASE SetAnchorPeers(o)
    BY <1>2, <2>1, <2>2, AnchorFacts
  <2>3. CASE run' = [run EXCEPT ![o] = Idle]
    BY <1>2, <1>3, <2>1, <2>3
  <2> QED
    BY <1>12, <2>2, <2>3 DEF JoinChannel, End
<1>13. CASE UNCHANGED vars
  BY <1>2, <1>13 DEF vars
<1> QED
  BY <1>4, <1>5, <1>6, <1>7, <1>8, <1>9, <1>10, <1>11, <1>12, <1>13
  DEF Next, Reconcile, Controllers

-----------------------------------------------------------------------------
(* The theorems.                                                            *)

(* The invariant of channel and updates, wherever those are.                *)
THEOREM ChannelInvariant == Spec => [](Typed /\ CertsSafe)
<1>1. Init => Typed /\ CertsSafe
  BY InitTyped DEF Init, CertsSafe, At, Idle
<1>2. Typed /\ CertsSafe /\ [Next]_vars => Typed' /\ CertsSafe'
  BY StepTyped, StepCertsSafe
<1> QED
  BY <1>1, <1>2, PTL DEF Spec

(* The variables stay in their ranges, the configuration among them although *)
(* its updates are computed from old ones (updateChannelConfig, lines       *)
(* 599-681), updates are never empty and none is taken before the channel   *)
(* is served.                                                               *)
THEOREM ChannelTypes == Spec => []TypeOK
<1>1. Typed => TypeOK
  <2> SUFFICES ASSUME Typed PROVE TypeOK
    OBVIOUS
  <2>1. \A c \in Controllers : /\ run[c].pc \in {"idle", "create", "created", "submit"}
                               /\ run[c].pc = "submit" => run[c].update.write # <<>>
    BY DEF Typed, Runs, Idle, Updates, Writes
  <2>2. Served => /\ DOMAIN config = Element
                  /\ Val(Members) \in SUBSET PeerOrgs /\ Val(State) \in {"normal", "maintenance"}
                  /\ \A e \in {Application, Channel, Setting} : Val(e) \in Values
                  /\ \A e \in {Acls, Capabilities} : Val(e) \in SUBSET Names
                  /\ \A o \in PeerOrgs : /\ Val(Anchor(o)) \in Anchors \cup {None}
                                         /\ Val(Group(o)) \in Values \cup {None}
    <3>1. {Members, State, Application, Channel, Setting, Acls, Capabilities} \subseteq Element
      BY ElementFacts DEF Sections, OfApplication
    <3> QED
      BY <3>1, AskedFacts, ElementFacts DEF Typed, ConfigTyped
  <2> QED
    BY <2>1, <2>2 DEF Typed, TypeOK
<1> QED
  BY <1>1, ChannelInvariant, PTL

(* The anchor peers of an organization that stays change only by an update  *)
(* of its own follower, and its certificates not at all (main channel       *)
(* controller, lines 1335-1364, follower, 261-345).                         *)
THEOREM AnchorsAreKept == Spec => AnchorsKept
<1>1. Typed /\ CertsSafe /\ [Next]_vars =>
        [\A o \in PeerOrgs :
           Served /\ o \in Val(Members) /\ o \in Val(Members)' =>
             /\ Val(Anchor(o))' # Val(Anchor(o)) => Head(pending).by = o
             /\ Val(Group(o))' = Val(Group(o))]_vars
  <2> SUFFICES ASSUME Typed, CertsSafe, [Next]_vars, NEW o \in PeerOrgs, Served,
                      o \in Val(Members), o \in Val(Members)', config' # config
               PROVE  /\ Val(Anchor(o))' # Val(Anchor(o)) => Head(pending).by = o
                      /\ Val(Group(o))' = Val(Group(o))
    BY DEF Val
  <2>1. Order
    BY JoinFacts
    DEF Next, Reconcile, vars, channel, Edit, Delete, Manage, CallFails, SaveChannel,
        QueryConfigBlock, QueryAgain, JoinChannel
  <2> QED
    BY <2>1, OrderFacts
<1> QED
  BY <1>1, ChannelInvariant, PTL DEF Spec, AnchorsKept

=============================================================================
