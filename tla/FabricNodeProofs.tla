-------------------------- MODULE FabricNodeProofs ----------------------------
(***************************************************************************)
(* What a node's controller keeps for every length of the history and any   *)
(* number of edits, requests, faults and reconciles on an old copy.         *)
(*                                                                          *)
(* Copies tells how old copies relate to the resource; Floors which         *)
(* certificates a repair may bring back; Roots that an authority's          *)
(* revisions all have one root key; Repairs that what a repair goes back to *)
(* is complete.                                                             *)
(***************************************************************************)
EXTENDS FabricNode, FiniteSetTheorems, SequenceTheorems,
        WellFoundedInduction, TLAPS

Revisions == [status: Status, vals: Values \cup {None}, cert: Nat]

(* A release's revisions, of which one at most is deployed.                 *)
Single(h) == \A i, j \in Deployed(h) : i = j
History   == {h \in Seq(Revisions) : Single(h)}

RunTyped ==
  \/ run = Idle
  \/ run \in [pc: {"install", "decide"}, copy: Resources, skip: BOOLEAN]
  \/ run \in [pc: {"record"}, copy: Resources, renewed: BOOLEAN, shown: Nat]
  \/ run \in [pc: {"finalize"}, copy: Resources]

Typed ==
  /\ kind \in Kinds
  /\ res \in Resources /\ cache \in Resources /\ res.last <= res.asked + MaxAhead
  /\ history \in History /\ live \in Contents
  /\ due \in Nat /\ expired \in Nat /\ expired <= due
  /\ misread \in BOOLEAN /\ events \in 0 .. MaxEvents
  /\ RunTyped

(* A copy of the resource is of an earlier version or is the resource.      *)
Behind(c) == c.version <= res.version /\ (c.version = res.version => c = res)

(* What a stale copy may still say of the resource: while its controller is *)
(* at work on the node, or has not seen the deletion, it is the same one.   *)
Copies ==
  /\ Behind(cache)
  /\ run # Idle => Behind(run.copy)
  /\ At("finalize") => run.copy.version <= cache.version /\ run.copy.phase = "deleting"
  /\ cache.phase = "there" => res.phase # "gone" /\ cache.asked <= res.asked
  /\ At("install") \/ At("decide") => run.copy.asked <= res.asked
  /\ At("install") \/ At("decide") \/ At("record") =>
       res.phase # "gone" /\ (cache.phase # "there" => res.phase # "there")
  /\ cache.phase # "there" /\ res.phase = "there" => res.shown = 0

(* The certificates that a repair could bring back are not older than n.    *)
HistoryFloor(h, n) ==
  /\ \A i \in Deployed(h) : h[i].cert >= n
  /\ h # <<>> => h[Len(h)].cert >= n

PendingFloor(n) ==
  LatestIs({"pending-upgrade"}) => Len(history) > 1 /\ history[Len(history) - 1].cert >= n

Floor(n) == HistoryFloor(history, n) /\ PendingFloor(n) /\ live.cert >= n

Floors ==
  /\ At("install") => history = <<>>
  /\ At("decide") => history # <<>>
  /\ PendingFloor(0)
  /\ res.phase = "there" => Floor(res.shown)
  /\ At("record") => Floor(run.shown)
  /\ At("decide") => (run.skip => Floor(live.cert))

(* All revisions of an authority have its root key.                         *)
OneRoot(h, n) == \A i \in DOMAIN h : n \in {0, h[i].cert} /\ h[i].cert = h[1].cert
Roots ==
  kind = "ca" /\ ~misread => OneRoot(history, live.cert) /\ (history = <<>> => live.cert = 0)

IInv == Typed /\ Copies /\ Floors /\ Roots

USE NoneAssumption, HistoryAssumption, EventsBound, AheadBound DEF At, End, Calm, time, release

-----------------------------------------------------------------------------
(* Numbers.                                                                 *)

(* A finite set of numbers that is not empty has a largest one.             *)
LEMMA LargestIsMax ==
  ASSUME NEW S \in SUBSET Nat, IsFiniteSet(S), S # {}
  PROVE  Max(S) \in S /\ \A x \in S : x <= Max(S)
<1> DEFINE Unbounded == {T \in SUBSET S : T # {} /\ \A x \in T : \E y \in T : ~ (y <= x)}
<1>1. Unbounded = {}
  <2> SUFFICES ASSUME Unbounded # {} PROVE FALSE
    OBVIOUS
  <2>1. PICK T \in Unbounded : \A U \in Unbounded : ~ (<<U, T>> \in StrictSubsetOrdering(S))
    <3>1. Unbounded \subseteq FiniteSubsetsOf(S)
      BY FS_FiniteSubsetsOfFinite
    <3> HIDE DEF Unbounded
    <3> QED
      BY <3>1, FS_StrictSubsetOrderingWellFounded, WFMin
  <2>2. PICK x \in T : TRUE
    BY <2>1
  <2>3. T \ {x} \notin Unbounded
    BY <2>1, <2>2 DEF StrictSubsetOrdering
  <2>4. PICK y \in T : ~ (y <= x)
    BY <2>1, <2>2
  <2>5. PICK z \in T \ {x} : \A u \in T \ {x} : u <= z
    BY <2>1, <2>2, <2>3, <2>4
  <2>6. x <= z
    BY <2>1, <2>2, <2>4, <2>5
  <2> QED
    BY <2>1, <2>5, <2>6
<1>2. \E x \in S : \A y \in S : x >= y
  <2>1. PICK x \in S : \A y \in S : y <= x
    BY <1>1
  <2> QED
    BY <2>1
<1> HIDE DEF Unbounded
<1> QED
  BY <1>2 DEF Max

(* A set with one element at most has no other maximum.                     *)
LEMMA MaxOfOne ==
  ASSUME NEW n \in Nat
  PROVE  Max({n}) = n
<1>1. {n} \in SUBSET Nat /\ IsFiniteSet({n}) /\ {n} # {}
  BY FS_Singleton
<1> QED
  BY <1>1, LargestIsMax

LEMMA HistoryFacts ==
  ASSUME NEW h \in History
  PROVE  /\ h \in Seq(Revisions) /\ Len(h) \in Nat /\ DOMAIN h = 1 .. Len(h)
         /\ h # <<>> <=> Len(h) > 0
         /\ \A i \in 1 .. Len(h) : h[i] \in Revisions /\ h[i].cert \in Nat
         /\ Deployed(h) \subseteq 1 .. Len(h)
         /\ \A i, j \in Deployed(h) : i = j
<1>1. h \in Seq(Revisions) /\ Single(h)
  BY DEF History
<1>2. Len(h) \in Nat /\ DOMAIN h = 1 .. Len(h) /\ (h # <<>> <=> Len(h) > 0)
  BY <1>1
<1>3. \A i \in 1 .. Len(h) : h[i] \in Revisions
  BY <1>1, <1>2
<1>4. \A i \in 1 .. Len(h) : h[i].cert \in Nat
  BY <1>3 DEF Revisions
<1> QED
  BY <1>1, <1>2, <1>3, <1>4 DEF Deployed, Single

(* A certificate that is issued is newer than all there are.                *)
LEMMA NewCertIsNewer ==
  ASSUME Typed
  PROVE  /\ NewCert \in Nat /\ NewCert > live.cert /\ NewCert > due /\ NewCert > res.shown
         /\ \A i \in DOMAIN history : NewCert > history[i].cert
<1> DEFINE certs == {history[i].cert : i \in DOMAIN history}
           all   == {live.cert, due, res.shown} \cup certs
<1>1. DOMAIN history = 1 .. Len(history) /\ Len(history) \in Nat
      /\ \A i \in DOMAIN history : history[i].cert \in Nat
  BY HistoryFacts DEF Typed
<1>2. certs \in SUBSET Nat
  BY <1>1
<1>3. IsFiniteSet(certs)
  <2> DEFINE f == [i \in DOMAIN history |-> history[i].cert]
  <2>1. IsFiniteSet(DOMAIN history)
    BY <1>1, FS_Interval
  <2>2. f \in Surjection(DOMAIN history, certs)
    BY DEF Surjection
  <2> QED
    BY <2>1, <2>2, FS_Surjection
<1>4. live.cert \in Nat /\ due \in Nat /\ res.shown \in Nat
  BY DEF Typed, Contents, Resources
<1>5. all \in SUBSET Nat /\ all # {}
  BY <1>2, <1>4
<1>6. IsFiniteSet(all)
  <2>1. IsFiniteSet(certs \cup {live.cert})
    BY <1>3, FS_AddElement
  <2>2. IsFiniteSet((certs \cup {live.cert}) \cup {due})
    BY <2>1, FS_AddElement
  <2>3. IsFiniteSet(((certs \cup {live.cert}) \cup {due}) \cup {res.shown})
    BY <2>2, FS_AddElement
  <2>4. all = ((certs \cup {live.cert}) \cup {due}) \cup {res.shown}
    OBVIOUS
  <2> QED
    BY <2>3, <2>4
<1>7. Max(all) \in Nat /\ \A x \in all : x <= Max(all)
  <2> HIDE DEF all
  <2> QED
    BY <1>5, <1>6, LargestIsMax
<1>8. NewCert = 1 + Max(all)
  BY DEF NewCert
<1> HIDE DEF all
<1>9. /\ live.cert <= Max(all) /\ due <= Max(all) /\ res.shown <= Max(all)
      /\ \A i \in DOMAIN history : history[i].cert <= Max(all)
  BY <1>7 DEF all
<1> QED
  BY <1>1, <1>4, <1>7, <1>8, <1>9

-----------------------------------------------------------------------------
(* Histories.                                                               *)

LEMMA EmptyHistory ==
  /\ <<>> \in History /\ Deployed(<<>>) = {} /\ Superseded(<<>>) = <<>>
  /\ \A n \in Nat : HistoryFloor(<<>>, n)
<1>1. DOMAIN <<>> = {} /\ <<>> \in Seq(Revisions)
  OBVIOUS
<1>2. Deployed(<<>>) = {}
  BY <1>1 DEF Deployed
<1>3. Superseded(<<>>) = <<>>
  BY DEF Superseded
<1> QED
  BY <1>1, <1>2, <1>3 DEF History, Single, HistoryFloor

LEMMA SupersededFacts ==
  ASSUME NEW h \in History
  PROVE  /\ Superseded(h) \in History /\ Deployed(Superseded(h)) = {}
         /\ Len(Superseded(h)) = Len(h)
         /\ \A i \in 1 .. Len(h) : Superseded(h)[i].cert = h[i].cert
<1>1. Len(h) \in Nat /\ DOMAIN h = 1 .. Len(h) /\ \A i \in 1 .. Len(h) : h[i] \in Revisions
  BY HistoryFacts
<1> DEFINE s == Superseded(h)
<1>2. s = [i \in 1 .. Len(h) |-> [h[i] EXCEPT !.status = IF @ = "deployed" THEN "superseded" ELSE @]]
  BY <1>1 DEF Superseded
<1>3. \A i \in 1 .. Len(h) : s[i] \in Revisions /\ s[i].cert = h[i].cert /\ s[i].status # "deployed"
  BY <1>1, <1>2 DEF Revisions, Status
<1>4. s \in [1 .. Len(h) -> Revisions]
  BY <1>2, <1>3
<1>5. s \in Seq(Revisions) /\ Len(s) = Len(h) /\ DOMAIN s = 1 .. Len(h)
  BY <1>1, <1>4
<1>6. Deployed(s) = {}
  BY <1>3, <1>5 DEF Deployed
<1> QED
  BY <1>3, <1>5, <1>6 DEF History, Single

(* One more revision.                                                       *)
LEMMA Appended ==
  ASSUME NEW h \in History, NEW r \in Revisions,
         r.status = "deployed" => Deployed(h) = {}
  PROVE  /\ Append(h, r) \in History /\ Append(h, r) # <<>>
         /\ Len(Append(h, r)) = Len(h) + 1
         /\ Append(h, r)[Len(h) + 1] = r
         /\ \A i \in 1 .. Len(h) : Append(h, r)[i] = h[i]
         /\ Deployed(Append(h, r)) =
              Deployed(h) \cup (IF r.status = "deployed" THEN {Len(h) + 1} ELSE {})
<1> DEFINE a == Append(h, r)
<1>1. h \in Seq(Revisions) /\ Len(h) \in Nat /\ DOMAIN h = 1 .. Len(h)
      /\ \A i, j \in Deployed(h) : i = j
  BY HistoryFacts
<1>2. /\ a \in Seq(Revisions) /\ Len(a) = Len(h) + 1 /\ DOMAIN a = 1 .. Len(h) + 1
      /\ a[Len(h) + 1] = r /\ \A i \in 1 .. Len(h) : a[i] = h[i]
  BY <1>1
<1>3. a # <<>>
  BY <1>1, <1>2
<1>4. Deployed(a) = Deployed(h) \cup (IF r.status = "deployed" THEN {Len(h) + 1} ELSE {})
  <2>1. \A i \in 1 .. Len(h) + 1 : i \in 1 .. Len(h) \/ i = Len(h) + 1
    BY <1>1
  <2>2. Len(h) + 1 \notin 1 .. Len(h) /\ 1 .. Len(h) \subseteq 1 .. Len(h) + 1
    BY <1>1
  <2> HIDE DEF a
  <2> QED
    BY <1>1, <1>2, <2>1, <2>2 DEF Deployed
<1>5. Single(a)
  BY <1>1, <1>4 DEF Single
<1> QED
  BY <1>2, <1>3, <1>4, <1>5 DEF History

LEMMA RevisionFacts ==
  ASSUME NEW c \in Contents, NEW s \in Status
  PROVE  /\ Revision(s, c) \in Revisions
         /\ Revision(s, c).status = s /\ Revision(s, c).cert = c.cert
BY DEF Revision, Revisions, Contents

(* Helm drops old revisions only: never the last and never the deployed one. *)
LEMMA KeptFacts ==
  ASSUME history \in History, history # <<>>
  PROVE  /\ Kept \in History /\ Len(Kept) > 0
         /\ Kept[Len(Kept)] = history[Len(history)]
         /\ \A i \in 1 .. Len(Kept) : \E j \in 1 .. Len(history) : Kept[i] = history[j]
         /\ \A i \in Deployed(Kept) : \E j \in Deployed(history) : Kept[i] = history[j]
<1> DEFINE n == Len(history)
           d == Excess
           saved == {i \in Deployed(history) : i <= d}
<1>1. /\ history \in Seq(Revisions) /\ n \in Nat \ {0} /\ DOMAIN history = 1 .. n
      /\ \A i, j \in Deployed(history) : i = j
      /\ Deployed(history) \subseteq 1 .. n
  BY HistoryFacts
<1>2. d \in Nat /\ (d = 0 \/ d + 2 <= n)
  BY <1>1 DEF Excess
<1>3. CASE saved = {}
  <2>1. Kept = SubSeq(history, d + 1, n)
    BY <1>3 DEF Kept
  <2>2. /\ Kept \in Seq(Revisions) /\ Len(Kept) = n - d /\ DOMAIN Kept = 1 .. n - d
        /\ \A i \in 1 .. n - d : Kept[i] = history[d + i]
    <3>1. d + 1 \in 1 .. n + 1 /\ n \in (d + 1) - 1 .. n /\ n - (d + 1) + 1 = n - d
          /\ \A i \in 1 .. n - d : (d + 1) + i - 1 = d + i
      BY <1>1, <1>2
    <3> HIDE DEF d
    <3> QED
      BY <1>1, <2>1, <3>1, SubSeqProperties
  <2>3. /\ n - d > 0 /\ n - d \in Nat /\ d + (n - d) = n
        /\ \A i \in 1 .. n - d : d + i \in 1 .. n
    BY <1>1, <1>2
  <2>4. Deployed(Kept) = {i \in 1 .. n - d : d + i \in Deployed(history)}
    BY <1>1, <2>2, <2>3 DEF Deployed
  <2>5. Single(Kept)
    BY <1>1, <1>2, <2>3, <2>4 DEF Single
  <2> QED
    BY <1>1, <2>2, <2>3, <2>4, <2>5 DEF History
<1>4. CASE saved # {}
  <2>1. PICK q \in Deployed(history) : q <= d /\ saved = {q}
    BY <1>1, <1>4
  <2>2. q \in 1 .. n /\ Max(saved) = q
    BY <1>1, <2>1, MaxOfOne
  <2>3. Kept = <<history[q]>> \o SubSeq(history, d + 2, n)
    BY <1>4, <2>2 DEF Kept
  <2>4. d > 0 /\ d + 2 <= n /\ n - d - 1 \in Nat /\ n - d \in Nat /\ n - d > 1
        /\ n - d = 1 + (n - d - 1) /\ n = d + (n - d)
    BY <1>1, <1>2, <2>1, <2>2
  <2>5. /\ SubSeq(history, d + 2, n) \in Seq(Revisions)
        /\ Len(SubSeq(history, d + 2, n)) = n - d - 1
        /\ \A i \in 1 .. n - d - 1 : SubSeq(history, d + 2, n)[i] = history[d + 1 + i]
    BY <1>1, <1>2, <2>4
  <2>6. <<history[q]>> \in Seq(Revisions) /\ Len(<<history[q]>>) = 1
    BY <1>1, <2>2
  <2>7. /\ Kept \in Seq(Revisions) /\ Len(Kept) = n - d /\ DOMAIN Kept = 1 .. n - d
        /\ Kept[1] = history[q]
        /\ \A i \in 2 .. n - d : Kept[i] = SubSeq(history, d + 2, n)[i - 1]
    BY <2>3, <2>4, <2>5, <2>6
  <2>8. \A i \in 2 .. n - d : Kept[i] = history[d + i] /\ d + i \in 1 .. n /\ d + i > q
    BY <1>1, <1>2, <2>1, <2>2, <2>4, <2>5, <2>7
  <2>9. \A i \in 2 .. n - d : i \notin Deployed(Kept)
    BY <1>1, <1>2, <2>1, <2>2, <2>7, <2>8 DEF Deployed
  <2>10. Deployed(Kept) \subseteq {1}
    BY <2>4, <2>7, <2>9 DEF Deployed
  <2>11. Single(Kept)
    BY <2>10 DEF Single
  <2>12. \A i \in 1 .. n - d : \E j \in 1 .. n : Kept[i] = history[j]
    <3>1. \A i \in 1 .. n - d : i = 1 \/ i \in 2 .. n - d
      BY <2>4
    <3> QED
      BY <3>1, <2>2, <2>7, <2>8
  <2>13. Kept[n - d] = history[n]
    BY <2>4, <2>8
  <2>14. \A i \in Deployed(Kept) : Kept[i] = history[q]
    BY <2>7, <2>10
  <2> QED
    BY <2>1, <2>4, <2>7, <2>11, <2>12, <2>13, <2>14 DEF History
<1> QED
  BY <1>3, <1>4

-----------------------------------------------------------------------------
(* Helm operations.                                                         *)

(* The revisions after an operation are those before it and one of c.       *)
Added(h, c) ==
  /\ history' \in History /\ history' # <<>> /\ Len(history') = Len(h) + 1
  /\ \A i \in 1 .. Len(h) : history'[i].cert = h[i].cert
  /\ history'[Len(h) + 1].cert = c.cert

LEMMA SucceedsFacts ==
  ASSUME NEW h \in History, NEW c \in Contents, Succeeds(h, c)
  PROVE  /\ Added(h, c) /\ live' = c
         /\ \A n \in Nat : n <= c.cert => Floor(n)'
<1> DEFINE s == Superseded(h)
           r == Revision("deployed", c)
<1>1. s \in History /\ Deployed(s) = {} /\ Len(s) = Len(h) /\ Len(h) \in Nat
      /\ \A i \in 1 .. Len(h) : s[i].cert = h[i].cert
  BY SupersededFacts, HistoryFacts
<1>2. r \in Revisions /\ r.status = "deployed" /\ r.cert = c.cert
  BY RevisionFacts DEF Status
<1>3. history' = Append(s, r) /\ live' = c
  BY DEF Succeeds
<1> HIDE DEF s, r
<1>4. /\ history' \in History /\ history' # <<>> /\ Len(history') = Len(h) + 1
      /\ history'[Len(h) + 1] = r /\ \A i \in 1 .. Len(h) : history'[i] = s[i]
      /\ Deployed(history') = {Len(h) + 1}
  BY <1>1, <1>2, <1>3, Appended
<1>5. c.cert \in Nat
  BY DEF Contents
<1>6. ASSUME NEW n \in Nat, n <= c.cert PROVE Floor(n)'
  BY <1>2, <1>3, <1>4, <1>5, <1>6 DEF Floor, HistoryFloor, PendingFloor, LatestIs, Last
<1> QED
  BY <1>1, <1>2, <1>3, <1>4, <1>6 DEF Added

LEMMA CutOffFacts ==
  ASSUME NEW h \in History, NEW c \in Contents, NEW p \in Pending, live \in Contents,
         events \in 0 .. MaxEvents, CutOff(h, p, c)
  PROVE  /\ Added(h, c) /\ run' = Idle /\ events' \in 0 .. MaxEvents
         /\ live' \in Contents /\ live'.cert \in {live.cert, c.cert}
         /\ \A n \in Nat : /\ n <= c.cert /\ n <= live.cert /\ HistoryFloor(h, n)
                           /\ h = <<>> => p # "pending-upgrade"
                           => Floor(n)'
<1>1. run' = Idle /\ events' \in 0 .. MaxEvents
  BY DEF CutOff, Event
<1>2. live' \in Contents /\ live'.cert \in {live.cert, c.cert}
  BY DEF CutOff, Partly, Contents
<1>3. p \in Status /\ "failed" \in Status /\ p # "deployed" /\ c.cert \in Nat /\ live.cert \in Nat
  BY DEF Pending, Status, Contents
<1>4. Len(h) \in Nat /\ (h # <<>> <=> Len(h) > 0) /\ \A i \in 1 .. Len(h) : h[i].cert \in Nat
  BY HistoryFacts
<1>5. PICK g \in History, s \in {"failed", p} :
        /\ history' = Append(g, Revision(s, c))
        /\ Len(g) = Len(h) /\ \A i \in 1 .. Len(h) : g[i].cert = h[i].cert
        /\ g = h \/ Deployed(g) = {}
  <2>1. CASE \E s \in {"failed", p} : history' = Append(h, Revision(s, c))
    BY <2>1
  <2>2. CASE history' = Append(Superseded(h), Revision(p, c))
    BY <2>2, SupersededFacts
  <2> QED
    BY <2>1, <2>2 DEF CutOff
<1> DEFINE r == Revision(s, c)
<1>6. r \in Revisions /\ r.status = s /\ r.cert = c.cert /\ s # "deployed"
  BY <1>3, RevisionFacts
<1> HIDE DEF r
<1>7. /\ history' \in History /\ history' # <<>> /\ Len(history') = Len(h) + 1
      /\ history'[Len(h) + 1] = r /\ \A i \in 1 .. Len(h) : history'[i] = g[i]
      /\ Deployed(history') = Deployed(g)
  <2>1. history' = Append(g, r) /\ r.status # "deployed"
    BY <1>5, <1>6 DEF r
  <2>2. /\ Append(g, r) \in History /\ Append(g, r) # <<>>
        /\ Len(Append(g, r)) = Len(g) + 1 /\ Append(g, r)[Len(g) + 1] = r
        /\ \A i \in 1 .. Len(g) : Append(g, r)[i] = g[i]
        /\ Deployed(Append(g, r)) = Deployed(g) \cup (IF r.status = "deployed" THEN {Len(g) + 1} ELSE {})
    BY <1>6, <2>1, Appended
  <2> QED
    BY <1>5, <2>1, <2>2
<1>8. Added(h, c)
  BY <1>5, <1>6, <1>7 DEF Added
<1>9. ASSUME NEW n \in Nat, n <= c.cert, n <= live.cert, HistoryFloor(h, n),
             h = <<>> => p # "pending-upgrade"
      PROVE  Floor(n)'
  <2>1. live'.cert >= n
    BY <1>2, <1>9
  <2>2. \A i \in Deployed(history') : history'[i].cert >= n
    <3>1. CASE Deployed(g) = {}
      BY <1>7, <3>1
    <3>2. CASE g = h
      <4>1. Deployed(h) \subseteq 1 .. Len(h)
        BY HistoryFacts
      <4> QED
        BY <1>7, <1>9, <3>2, <4>1 DEF HistoryFloor
    <3> QED
      BY <1>5, <3>1, <3>2
  <2>3. history'[Len(history')].cert >= n
    BY <1>3, <1>6, <1>7, <1>9
  <2>4. PendingFloor(n)'
    <3> SUFFICES ASSUME LatestIs({"pending-upgrade"})'
                 PROVE  Len(history') > 1 /\ history'[Len(history') - 1].cert >= n
      BY DEF PendingFloor
    <3>1. s = "pending-upgrade"
      BY <1>4, <1>6, <1>7 DEF LatestIs, Last
    <3>2. h # <<>> /\ Len(h) > 0
      BY <1>4, <1>9, <3>1
    <3>3. history'[Len(h)].cert = h[Len(h)].cert /\ Len(history') - 1 = Len(h)
      BY <1>4, <1>5, <1>7, <3>2
    <3> QED
      BY <1>4, <1>7, <1>9, <3>2, <3>3 DEF HistoryFloor
  <2> QED
    BY <2>1, <2>2, <2>3, <2>4 DEF Floor, HistoryFloor
<1> QED
  BY <1>1, <1>2, <1>8, <1>9

(* What a repair goes back to.                                              *)
LEMMA RollbackFacts ==
  ASSUME Typed, PendingFloor(0), RollbackTargets # {}
  PROVE  /\ Content(history[Max(RollbackTargets)]) \in Contents
         /\ Content(history[Max(RollbackTargets)]).cert = history[Max(RollbackTargets)].cert
         /\ Max(RollbackTargets) \in DOMAIN history
         /\ \A n \in Nat : Floor(n) => history[Max(RollbackTargets)].cert >= n
<1>0. PICK t : t = Max(RollbackTargets)
  OBVIOUS
<1>1. /\ history \in History /\ Len(history) \in Nat /\ DOMAIN history = 1 .. Len(history)
      /\ \A i, j \in Deployed(history) : i = j
      /\ Deployed(history) \subseteq 1 .. Len(history)
      /\ \A i \in 1 .. Len(history) : history[i] \in Revisions
  BY HistoryFacts DEF Typed
<1>2. t \in 1 .. Len(history) /\ \A n \in Nat : Floor(n) => history[t].cert >= n
  <2>1. CASE LatestIs({"pending-upgrade"})
    <3>1. RollbackTargets = {Len(history) - 1} /\ Len(history) > 1 /\ Len(history) - 1 \in Nat
      BY <1>1, <2>1 DEF RollbackTargets, PendingFloor
    <3>2. t = Len(history) - 1
      BY <1>0, <3>1, MaxOfOne
    <3> QED
      BY <1>1, <2>1, <3>1, <3>2 DEF Floor, PendingFloor
  <2>2. CASE ~ LatestIs({"pending-upgrade"})
    <3>1. RollbackTargets \subseteq Deployed(history)
      BY <2>2 DEF RollbackTargets
    <3>2. PICK q \in Deployed(history) : RollbackTargets = {q}
      BY <1>1, <3>1
    <3>3. q \in Nat /\ q \in 1 .. Len(history)
      BY <1>1
    <3>4. t = q
      BY <1>0, <3>2, <3>3, MaxOfOne
    <3> QED
      BY <3>3, <3>4 DEF Floor, HistoryFloor
  <2> QED
    BY <2>1, <2>2
<1>3. history[t] \in Revisions
  BY <1>1, <1>2
<1>4. Content(history[t]) \in Contents /\ Content(history[t]).cert = history[t].cert
  BY <1>3 DEF Content, Contents, Revisions
<1> QED
  BY <1>0, <1>1, <1>2, <1>4

(* An upgrade has a history, of which it keeps the end.                     *)
LEMMA UpgradeFacts ==
  ASSUME Typed, ~Refused
  PROVE  /\ history # <<>> /\ Kept \in History /\ Kept # <<>>
         /\ \A n \in Nat : Floor(n) => HistoryFloor(Kept, n)
         /\ \A i \in 1 .. Len(Kept) : \E j \in 1 .. Len(history) : Kept[i] = history[j]
<1>1. history # <<>>
  <2>1. history = <<>> => Deployed(history) = {} /\ ~LatestIs({"failed"})
    BY EmptyHistory DEF LatestIs
  <2> QED
    BY <2>1 DEF Refused
<1>2. history \in History
  BY DEF Typed
<1>3. /\ Kept \in History /\ Len(Kept) > 0
      /\ Kept[Len(Kept)] = history[Len(history)]
      /\ \A i \in 1 .. Len(Kept) : \E j \in 1 .. Len(history) : Kept[i] = history[j]
      /\ \A i \in Deployed(Kept) : \E j \in Deployed(history) : Kept[i] = history[j]
  BY <1>1, <1>2, KeptFacts
<1>4. Kept # <<>>
  BY <1>3, HistoryFacts
<1>5. \A n \in Nat : Floor(n) => HistoryFloor(Kept, n)
  BY <1>1, <1>3 DEF Floor, HistoryFloor
<1> QED
  BY <1>1, <1>3, <1>4, <1>5

-----------------------------------------------------------------------------
(* Types.                                                                   *)

LEMMA RunFacts ==
  ASSUME Typed
  PROVE  /\ At("install") \/ At("decide") =>
              run \in [pc: {"install", "decide"}, copy: Resources, skip: BOOLEAN]
         /\ At("record") =>
              run \in [pc: {"record"}, copy: Resources, renewed: BOOLEAN, shown: Nat]
         /\ At("finalize") => run \in [pc: {"finalize"}, copy: Resources]
         /\ run # Idle => run.copy \in Resources /\ run.pc # "idle"
         /\ run = Idle => At("idle")
BY DEF Typed, RunTyped, Idle

LEMMA WrittenFacts ==
  ASSUME res \in Resources, NEW r \in Resources
  PROVE  /\ Written(r) \in Resources
         /\ Written(r) = res \/ Written(r).version = res.version + 1
         /\ Written(r).phase = r.phase /\ Written(r).vals = r.vals
         /\ Written(r).asked = r.asked /\ Written(r).last = r.last
         /\ Written(r).shown = r.shown
<1>1. CASE r = res
  BY <1>1 DEF Written
<1>2. CASE r # res
  <2>1. Written(r) = [r EXCEPT !.version = res.version + 1]
    BY <1>2 DEF Written
  <2> QED
    BY <2>1 DEF Resources
<1> QED
  BY <1>1, <1>2

LEMMA InitTyped == Init => Typed
<1> SUFFICES ASSUME Init PROVE Typed
  OBVIOUS
<1>1. PICK v \in Values : res = Created(v)
  BY DEF Init
<1>2. res \in Resources /\ cache \in Resources /\ res.last = 0 /\ res.asked = 0
  BY <1>1 DEF Init, Created, Resources
<1>3. history \in History /\ live \in Contents
  BY EmptyHistory DEF Init, Nothing, Contents
<1>4. events = 0 /\ run = Idle /\ kind \in Kinds
  BY DEF Init
<1>5. misread \in BOOLEAN
  BY DEF Init
<1>6. events \in 0 .. MaxEvents
  BY <1>4
<1>7. due = 0 /\ expired = 0
  BY DEF Init
<1> QED
  BY <1>2, <1>3, <1>4, <1>5, <1>6, <1>7 DEF Typed, RunTyped

(* What the administrators write is a resource.                             *)
LEMMA ManageFacts ==
  ASSUME Typed, Edit \/ Request \/ Delete \/ Create
  PROVE  /\ res' \in Resources /\ res'.last <= res'.asked + MaxAhead
         /\ res' = res \/ res'.version = res.version + 1
         /\ UNCHANGED <<kind, cache, history, live, due, expired, misread, run>>
         /\ events' \in 0 .. MaxEvents
         /\ \/ /\ res'.asked >= res.asked /\ res'.shown = res.shown
               /\ res.phase = "there" /\ res'.phase \in {"there", "deleting"}
            \/ res.phase = "gone" /\ res'.phase = "there" /\ res'.shown = 0
<1> USE DEF Typed, Manage, Event
<1>1. CASE Edit
  <2>1. PICK v \in Values : Manage([res EXCEPT !.vals = v])
    BY <1>1 DEF Edit
  <2>2. [res EXCEPT !.vals = v] \in Resources
    BY DEF Resources
  <2> QED
    BY <1>1, <2>1, <2>2, WrittenFacts DEF Edit, Resources
<1>2. CASE Request
  <2>1. [res EXCEPT !.asked = @ + 1] \in Resources
    BY DEF Resources
  <2> QED
    BY <1>2, <2>1, WrittenFacts DEF Request, Resources
<1>3. CASE Delete
  <2>1. [res EXCEPT !.phase = "deleting"] \in Resources
    BY DEF Resources
  <2> QED
    BY <1>3, <2>1, WrittenFacts DEF Delete, Resources
<1>4. CASE Create
  <2>1. PICK v \in Values : Manage(Created(v))
    BY <1>4 DEF Create
  <2>2. Created(v) \in Resources /\ Created(v).phase = "there" /\ Created(v).shown = 0
        /\ Created(v).last = 0 /\ Created(v).asked = 0
    BY DEF Created, Resources
  <2> QED
    BY <1>4, <2>1, <2>2, WrittenFacts DEF Create
<1> QED
  BY <1>1, <1>2, <1>3, <1>4

(* What the controller writes is a resource.                                *)
LEMMA WriteStatusFacts ==
  ASSUME Typed, WriteStatus
  PROVE  /\ res' \in Resources /\ res'.last <= res'.asked + MaxAhead
         /\ res' = res \/ res'.version = res.version + 1
         /\ res'.asked = res.asked /\ res'.phase = res.phase
         /\ res'.shown = res.shown \/ res'.shown = run.shown
         /\ run' = Idle
<1>1. CASE run.copy # res
  BY <1>1 DEF WriteStatus, Typed
<1>2. CASE run.copy = res
  <2>1. PICK n \in Covered : res' = Written([res EXCEPT !.last = n, !.shown = run.shown])
    BY <1>2 DEF WriteStatus
  <2>2. run.shown \in Nat /\ res.asked \in Nat /\ res.last \in Nat /\ res.last <= res.asked + MaxAhead
        /\ res \in Resources
    BY RunFacts DEF WriteStatus, Typed, Resources
  <2>3. n \in Nat /\ n <= res.asked + MaxAhead
    BY <2>2 DEF Covered
  <2>4. [res EXCEPT !.last = n, !.shown = run.shown] \in Resources
    BY <2>2, <2>3 DEF Resources
  <2> QED
    BY <2>1, <2>2, <2>3, <2>4, WrittenFacts DEF WriteStatus, Resources
<1> QED
  BY <1>1, <1>2

LEMMA RemoveFinalizerFacts ==
  ASSUME Typed, RemoveFinalizer
  PROVE  /\ res' \in Resources /\ res'.last <= res'.asked + MaxAhead
         /\ res' = res \/ res'.version = res.version + 1
         /\ res' # res => run.copy = res /\ res'.phase = "gone"
         /\ run' = Idle
<1>1. CASE run.copy # res
  BY <1>1 DEF RemoveFinalizer, Typed
<1>2. CASE run.copy = res
  <2>1. [res EXCEPT !.phase = "gone"] \in Resources
    BY DEF Typed, Resources
  <2> QED
    BY <1>2, <2>1, WrittenFacts DEF RemoveFinalizer, Typed, Resources
<1> QED
  BY <1>1, <1>2

-----------------------------------------------------------------------------
(* What each step of the controller does to the release.                    *)

(* The revisions after a step are revisions before it or of the root key.   *)
SameRoot ==
  OneRoot(history, live.cert) /\ (history = <<>> => live.cert = 0) =>
    /\ OneRoot(history', live'.cert) /\ (history' = <<>> => live'.cert = 0)
    /\ live'.cert # 0 /\ live.cert # 0 => live'.cert = live.cert

LEMMA SameRootAdded ==
  ASSUME Typed, NEW h \in History, NEW c \in Contents, Added(h, c),
         live'.cert \in {live.cert, c.cert},
         \A i \in 1 .. Len(h) : \E j \in 1 .. Len(history) : h[i] = history[j],
         OneRoot(history, live.cert), history = <<>> => live.cert = 0,
         history # <<>> => c.cert = history[1].cert
  PROVE  SameRoot
<1>1. /\ Len(history) \in Nat /\ DOMAIN history = 1 .. Len(history) /\ Len(h) \in Nat
      /\ (history # <<>> <=> Len(history) > 0)
  BY HistoryFacts DEF Typed
<1>2. /\ history' # <<>> /\ Len(history') = Len(h) + 1
      /\ DOMAIN history' = 1 .. Len(h) + 1
      /\ history'[Len(h) + 1].cert = c.cert
  BY <1>1, HistoryFacts DEF Added
<1>3. \A i \in 1 .. Len(h) : history'[i].cert = c.cert
  <2>1. \A i \in 1 .. Len(h) : history'[i].cert = h[i].cert
    BY DEF Added
  <2>2. \A j \in 1 .. Len(history) : history[j].cert = c.cert
    BY <1>1 DEF OneRoot
  <2> QED
    BY <2>1, <2>2
<1>4. \A i \in DOMAIN history' : history'[i].cert = c.cert
  <2>1. \A i \in DOMAIN history' : i \in 1 .. Len(h) \/ i = Len(h) + 1
    BY <1>1, <1>2
  <2> QED
    BY <1>2, <1>3, <2>1
<1>5. live.cert \in {0, c.cert}
  BY <1>1 DEF OneRoot
<1>6. 1 \in DOMAIN history'
  BY <1>1, <1>2
<1>7. OneRoot(history', live'.cert)
  BY <1>4, <1>5, <1>6 DEF OneRoot
<1> QED
  BY <1>2, <1>5, <1>7 DEF SameRoot

LEMMA BeginFacts ==
  ASSUME Typed, PendingFloor(0), Begin
  PROVE  /\ history' \in History /\ live' \in Contents
         /\ run' = [pc |-> IF history = <<>> THEN "install" ELSE "decide", copy |-> cache,
                    skip |-> LatestIs({"pending-upgrade"})]
         /\ run = Idle /\ cache.phase = "there"
         /\ UNCHANGED <<kind, res, cache, due, expired, misread, events>>
         /\ \A n \in Nat : Floor(n) => Floor(n)'
         /\ history = <<>> <=> history' = <<>>
         /\ LatestIs({"pending-upgrade"}) => Floor(live.cert)'
         /\ SameRoot
<1> DEFINE t == Max(RollbackTargets)
           c == Content(history[t])
<1>1. /\ run = Idle /\ cache.phase = "there"
      /\ UNCHANGED <<kind, res, cache, due, expired, misread, events>>
      /\ run' = [pc |-> IF history = <<>> THEN "install" ELSE "decide", copy |-> cache,
                 skip |-> LatestIs({"pending-upgrade"})]
  BY DEF Begin, Decide
<1>2. CASE RollbackTargets = {}
  <2>1. UNCHANGED <<history, live>>
    BY <1>2 DEF Begin
  <2>2. ~ LatestIs({"pending-upgrade"})
    BY <1>2 DEF RollbackTargets
  <2>3. \A n \in Nat : Floor(n) => Floor(n)'
    BY <2>1 DEF Floor, PendingFloor, LatestIs
  <2>4. SameRoot
    BY <2>1 DEF SameRoot
  <2> QED
    BY <1>1, <2>1, <2>2, <2>3, <2>4 DEF Typed
<1>3. CASE RollbackTargets # {}
  <2>1. /\ c \in Contents /\ c.cert = history[t].cert /\ t \in DOMAIN history
        /\ \A n \in Nat : Floor(n) => c.cert >= n
    BY <1>3, RollbackFacts
  <2>2. Succeeds(history, c)
    BY <1>3 DEF Begin
  <2> HIDE DEF c
  <2>3. Added(history, c) /\ live' = c /\ \A n \in Nat : n <= c.cert => Floor(n)'
    BY <2>1, <2>2, SucceedsFacts DEF Typed
  <2>4. c.cert \in Nat
    BY <2>1 DEF Contents
  <2>5. Floor(live.cert)'
    BY <2>3, <2>4 DEF Floor, PendingFloor
  <2>6. \A n \in Nat : Floor(n) => Floor(n)'
    BY <2>1, <2>3, <2>4
  <2>7. history # <<>> /\ history' # <<>>
    BY <2>1, <2>3, HistoryFacts, EmptyHistory DEF Added, Typed
  <2>8. DOMAIN history = 1 .. Len(history) /\ history \in History
    BY HistoryFacts DEF Typed
  <2>9. SameRoot
    <3>1. CASE OneRoot(history, live.cert)
      <4>1. c.cert = history[1].cert
        BY <2>1, <3>1 DEF OneRoot
      <4> QED
        BY <2>1, <2>3, <2>7, <2>8, <3>1, <4>1, SameRootAdded
    <3>2. CASE ~ OneRoot(history, live.cert)
      BY <3>2 DEF SameRoot
    <3> QED
      BY <3>1, <3>2
  <2> QED
    BY <1>1, <2>1, <2>3, <2>5, <2>6, <2>7, <2>9 DEF Added
<1> QED
  BY <1>2, <1>3

LEMMA RollbackCutOffFacts ==
  ASSUME Typed, PendingFloor(0), RollbackCutOff
  PROVE  /\ history' \in History /\ live' \in Contents /\ run' = Idle /\ history' # <<>>
         /\ UNCHANGED <<kind, res, cache, due, expired, misread>>
         /\ events' \in 0 .. MaxEvents
         /\ \A n \in Nat : Floor(n) => Floor(n)'
         /\ SameRoot
<1> DEFINE t == Max(RollbackTargets)
           c == Content(history[t])
<1>1. RollbackTargets # {} /\ CutOff(history, "pending-rollback", c)
      /\ UNCHANGED <<kind, res, cache, due, expired, misread>>
  BY DEF RollbackCutOff
<1>2. /\ c \in Contents /\ c.cert = history[t].cert /\ t \in DOMAIN history
      /\ \A n \in Nat : Floor(n) => c.cert >= n
  BY <1>1, RollbackFacts
<1>3. history \in History /\ DOMAIN history = 1 .. Len(history) /\ live \in Contents
      /\ events \in 0 .. MaxEvents /\ "pending-rollback" \in Pending
  BY HistoryFacts DEF Typed, Pending
<1> HIDE DEF c
<1>4. /\ Added(history, c) /\ run' = Idle /\ events' \in 0 .. MaxEvents
      /\ live' \in Contents /\ live'.cert \in {live.cert, c.cert}
      /\ \A n \in Nat : n <= c.cert /\ n <= live.cert /\ HistoryFloor(history, n) => Floor(n)'
  BY <1>1, <1>2, <1>3, CutOffFacts
<1>5. c.cert \in Nat /\ live.cert \in Nat
  BY <1>2, <1>3 DEF Contents
<1>6. \A n \in Nat : Floor(n) => Floor(n)'
  <2> SUFFICES ASSUME NEW n \in Nat, Floor(n) PROVE Floor(n)'
    OBVIOUS
  <2>1. n <= c.cert
    BY <1>2, <1>5
  <2>2. n <= live.cert /\ HistoryFloor(history, n)
    BY <1>5 DEF Floor
  <2> QED
    BY <1>4, <2>1, <2>2
<1>7. SameRoot
  <2>1. CASE OneRoot(history, live.cert)
    <3>1. c.cert = history[1].cert
      BY <1>2, <2>1 DEF OneRoot
    <3>2. history # <<>>
      BY <1>2, <1>3, HistoryFacts
    <3> QED
      BY <1>2, <1>3, <1>4, <2>1, <3>1, <3>2, SameRootAdded
  <2>2. CASE ~ OneRoot(history, live.cert)
    BY <2>2 DEF SameRoot
  <2> QED
    BY <2>1, <2>2
<1> QED
  BY <1>1, <1>4, <1>6, <1>7 DEF Added

LEMMA InstallFacts ==
  ASSUME Typed, history = <<>>, Install
  PROVE  /\ history' \in History /\ live' \in Contents /\ run' = Idle /\ history' # <<>>
         /\ UNCHANGED <<kind, res, cache, due, expired, misread>>
         /\ events' \in 0 .. MaxEvents
         /\ \A n \in Nat : Floor(n) => Floor(n)'
         /\ SameRoot
<1> DEFINE c == [vals |-> run.copy.vals, cert |-> NewCert]
<1>1. c \in Contents /\ c.cert = NewCert
  <2>1. run.copy \in Resources
    BY RunFacts DEF Install
  <2> QED
    BY <2>1, NewCertIsNewer DEF Contents, Resources
<1>2. /\ \/ Succeeds(<<>>, c) /\ UNCHANGED events /\ run' = Idle
         \/ CutOff(<<>>, "pending-install", c)
      /\ UNCHANGED <<kind, res, cache, due, expired, misread>>
  BY DEF Install
<1>3. live.cert \in Nat /\ c.cert \in Nat /\ live.cert < c.cert /\ live \in Contents
      /\ events \in 0 .. MaxEvents
  BY <1>1, NewCertIsNewer DEF Typed, Contents
<1> HIDE DEF c
<1>4. /\ Added(<<>>, c) /\ live' \in Contents /\ live'.cert \in {live.cert, c.cert}
      /\ run' = Idle /\ events' \in 0 .. MaxEvents
      /\ \A n \in Nat : n <= c.cert /\ n <= live.cert => Floor(n)'
  <2>1. CASE Succeeds(<<>>, c) /\ UNCHANGED events /\ run' = Idle
    BY <1>1, <1>3, <2>1, SucceedsFacts, EmptyHistory
  <2>2. CASE CutOff(<<>>, "pending-install", c)
    <3>1. "pending-install" \in Pending
      BY DEF Pending
    <3> QED
      BY <1>1, <1>3, <2>2, <3>1, CutOffFacts, EmptyHistory
  <2> QED
    BY <1>2, <2>1, <2>2
<1>5. \A n \in Nat : Floor(n) => Floor(n)'
  <2> SUFFICES ASSUME NEW n \in Nat, Floor(n) PROVE Floor(n)'
    OBVIOUS
  <2>1. n <= live.cert /\ n <= c.cert
    BY <1>3 DEF Floor
  <2> QED
    BY <1>4, <2>1
<1>6. SameRoot
  <2>1. CASE OneRoot(history, live.cert) /\ live.cert = 0
    <3>1. Len(<<>>) = 0 /\ <<>> \in History
      BY EmptyHistory
    <3> QED
      BY <1>1, <1>4, <2>1, <3>1, SameRootAdded
  <2>2. CASE ~ (OneRoot(history, live.cert) /\ live.cert = 0)
    BY <2>2 DEF SameRoot
  <2> QED
    BY <2>1, <2>2
<1> QED
  BY <1>2, <1>4, <1>5, <1>6 DEF Added

(* An upgrade with the certificate that is live, or with a newer one.       *)
LEMMA UpgradeStep ==
  ASSUME Typed, ~Refused, NEW c \in Contents, c.cert >= live.cert,
         Succeeds(Kept, c) \/ CutOff(Kept, "pending-upgrade", c)
  PROVE  /\ history' \in History /\ live' \in Contents /\ history' # <<>>
         /\ \A n \in Nat : Floor(n) => Floor(n)'
         /\ Succeeds(Kept, c) => live' = c /\ \A n \in Nat : n <= c.cert => Floor(n)'
         /\ CutOff(Kept, "pending-upgrade", c) => run' = Idle /\ events' \in 0 .. MaxEvents
         /\ c.cert = live.cert /\ live.cert > 0 => SameRoot
<1>1. /\ history # <<>> /\ Kept \in History /\ Kept # <<>>
      /\ \A n \in Nat : Floor(n) => HistoryFloor(Kept, n)
      /\ \A i \in 1 .. Len(Kept) : \E j \in 1 .. Len(history) : Kept[i] = history[j]
  BY UpgradeFacts
<1>2. live \in Contents /\ events \in 0 .. MaxEvents /\ "pending-upgrade" \in Pending
      /\ live.cert \in Nat /\ c.cert \in Nat
  BY DEF Typed, Pending, Contents
<1>3. Succeeds(Kept, c) => Added(Kept, c) /\ live' = c /\ \A n \in Nat : n <= c.cert => Floor(n)'
  BY <1>1, SucceedsFacts
<1>4. CutOff(Kept, "pending-upgrade", c) =>
        /\ Added(Kept, c) /\ run' = Idle /\ events' \in 0 .. MaxEvents
        /\ live' \in Contents /\ live'.cert \in {live.cert, c.cert}
        /\ \A n \in Nat : n <= c.cert /\ n <= live.cert /\ HistoryFloor(Kept, n) => Floor(n)'
  BY <1>1, <1>2, CutOffFacts
<1>5. Added(Kept, c) /\ live' \in Contents /\ live'.cert \in {live.cert, c.cert}
  BY <1>3, <1>4
<1>6. ASSUME NEW n \in Nat, Floor(n) PROVE Floor(n)'
  <2>1. n <= live.cert /\ n <= c.cert /\ HistoryFloor(Kept, n)
    BY <1>1, <1>2, <1>6 DEF Floor
  <2> QED
    BY <1>3, <1>4, <2>1
<1>7. ASSUME c.cert = live.cert, live.cert > 0 PROVE SameRoot
  <2>1. CASE OneRoot(history, live.cert)
    <3>1. 1 \in DOMAIN history
      BY <1>1, HistoryFacts DEF Typed
    <3>2. c.cert = history[1].cert
      BY <1>2, <1>7, <2>1, <3>1 DEF OneRoot
    <3> QED
      BY <1>1, <1>5, <2>1, <3>2, SameRootAdded
  <2>2. CASE ~ OneRoot(history, live.cert)
    BY <2>2 DEF SameRoot
  <2> QED
    BY <2>1, <2>2
<1> QED
  BY <1>3, <1>4, <1>5, <1>6, <1>7 DEF Added

(* After an upgrade the reconcile is over or has an outcome to record.      *)
Recording(renewed) ==
  \E c \in {res, cache, run.copy} :
    run' = [pc |-> "record", copy |-> c, renewed |-> renewed,
            shown |-> IF kind = "ca" THEN live.cert ELSE live'.cert]

Upgraded(renewed) ==
  /\ run' = Idle \/ Recording(renewed)
  /\ At("decide")
  /\ history' \in History /\ live' \in Contents /\ history' # <<>>
  /\ UNCHANGED <<kind, res, cache, due, expired>>
  /\ misread' \in BOOLEAN /\ events' \in 0 .. MaxEvents
  /\ \A n \in Nat : Floor(n) => Floor(n)'
  /\ run' # Idle => Floor(run.shown)'
  /\ kind = "ca" /\ ~misread' => SameRoot /\ ~misread

LEMMA CopyFacts ==
  ASSUME Typed, At("decide")
  PROVE  Copy \in {cache, run.copy} /\ Copy \in Resources /\ run.copy \in Resources
BY RunFacts DEF Copy, Typed

LEMMA UpgradeChartFacts ==
  ASSUME Typed, Floors, UpgradeChart
  PROVE  Upgraded(FALSE)
<1> DEFINE c == Config(Copy)
           d == [vals |-> Copy.vals, cert |-> NewCert]
<1>1. /\ At("decide") /\ Copy \in {cache, run.copy} /\ Copy \in Resources
      /\ live.cert \in Nat /\ live.cert > 0 /\ live \in Contents
      /\ UNCHANGED <<kind, res, cache, due, expired>>
      /\ history # <<>> /\ history \in History
  BY CopyFacts DEF UpgradeChart, Readable, Typed, Contents, Floors
<1>2. c \in Contents /\ c.cert = live.cert /\ d \in Contents /\ d.cert > live.cert
      /\ d.cert \in Nat
  BY <1>1, NewCertIsNewer DEF Config, Contents, Resources
<1>3. events \in 0 .. MaxEvents /\ misread \in BOOLEAN
  BY DEF Typed
<1>4. CASE run.skip /\ UNCHANGED <<release, misread, events>> /\ Record(Copy, FALSE)
  <2>1. Recording(FALSE) /\ run'.shown = live.cert
    BY <1>1, <1>4 DEF Record, Recording
  <2>2. \A n \in Nat : Floor(n) => Floor(n)'
    BY <1>4 DEF Floor, PendingFloor, LatestIs
  <2>3. Floor(live.cert)
    BY <1>1, <1>4 DEF Floors
  <2>4. Floor(run.shown)'
    BY <1>1, <1>4, <2>1, <2>3 DEF Floor, PendingFloor, LatestIs
  <2>5. SameRoot
    BY <1>1, <1>4 DEF SameRoot
  <2> QED
    BY <1>1, <1>3, <1>4, <2>1, <2>2, <2>4, <2>5 DEF Upgraded
<1>5. CASE ~Refused /\ Succeeds(Kept, c) /\ Record(Copy, FALSE) /\ UNCHANGED <<misread, events>>
  <2> HIDE DEF c
  <2>1. /\ history' \in History /\ live' \in Contents /\ history' # <<>> /\ live' = c
        /\ \A n \in Nat : Floor(n) => Floor(n)'
        /\ \A n \in Nat : n <= c.cert => Floor(n)'
        /\ SameRoot
    BY <1>1, <1>2, <1>5, UpgradeStep
  <2>2. Recording(FALSE) /\ run'.shown = live.cert
    BY <1>1, <1>2, <1>5, <2>1 DEF Record, Recording
  <2>3. Floor(run.shown)'
    BY <1>1, <1>2, <2>1, <2>2 DEF Floor, PendingFloor, LatestIs
  <2> QED
    BY <1>1, <1>3, <1>5, <2>1, <2>2, <2>3 DEF Upgraded
<1>6. CASE ~Refused /\ Event /\ misread' = TRUE /\ Succeeds(Kept, d) /\ Record(Copy, FALSE)
  <2> HIDE DEF d
  <2>1. /\ history' \in History /\ live' \in Contents /\ history' # <<>> /\ live' = d
        /\ \A n \in Nat : Floor(n) => Floor(n)'
        /\ \A n \in Nat : n <= d.cert => Floor(n)'
    BY <1>1, <1>2, <1>6, UpgradeStep
  <2>2. Recording(FALSE) /\ run'.shown \in {live.cert, d.cert}
    BY <1>1, <1>2, <1>6, <2>1 DEF Record, Recording
  <2>3. Floor(run.shown)'
    BY <1>1, <1>2, <2>1, <2>2 DEF Floor, PendingFloor, LatestIs
  <2>4. events' \in 0 .. MaxEvents
    BY <1>3, <1>6 DEF Event
  <2> QED
    BY <1>1, <1>6, <2>1, <2>2, <2>3, <2>4 DEF Upgraded
<1>7. CASE ~Refused /\ CutOff(Kept, "pending-upgrade", c) /\ UNCHANGED misread
  <2> HIDE DEF c
  <2>1. /\ history' \in History /\ live' \in Contents /\ history' # <<>>
        /\ \A n \in Nat : Floor(n) => Floor(n)'
        /\ run' = Idle /\ events' \in 0 .. MaxEvents /\ SameRoot
    BY <1>1, <1>2, <1>7, UpgradeStep
  <2> QED
    BY <1>1, <1>3, <1>7, <2>1 DEF Upgraded
<1> QED
  BY <1>4, <1>5, <1>6, <1>7 DEF UpgradeChart

LEMMA UpdateCertsFacts ==
  ASSUME Typed, Floors, UpdateCerts
  PROVE  Upgraded(TRUE) /\ Renews
<1>1. /\ At("decide") /\ Renews /\ ~Refused /\ kind # "ca"
      /\ live.cert \in Nat /\ live \in Contents
      /\ UNCHANGED <<kind, res, cache, due, expired, misread>>
      /\ run.copy \in Resources /\ res \in Resources
      /\ events \in 0 .. MaxEvents /\ misread \in BOOLEAN
  BY CopyFacts DEF UpdateCerts, Renews, Typed, Contents
<1>2. PICK copy \in {res, run.copy} :
        LET c == [vals |-> copy.vals, cert |-> NewCert] IN
        \/ Succeeds(Kept, c) /\ Record(copy, TRUE) /\ (IF copy = res THEN Calm ELSE Event)
        \/ CutOff(Kept, "pending-upgrade", c)
  BY DEF UpdateCerts
<1> DEFINE d == [vals |-> copy.vals, cert |-> NewCert]
<1>3. d \in Contents /\ d.cert > live.cert /\ d.cert \in Nat
  BY <1>1, NewCertIsNewer DEF Contents, Resources
<1>4. \/ Succeeds(Kept, d) /\ Record(copy, TRUE) /\ (IF copy = res THEN Calm ELSE Event)
      \/ CutOff(Kept, "pending-upgrade", d)
  BY <1>2
<1> HIDE DEF d
<1>5. CASE Succeeds(Kept, d) /\ Record(copy, TRUE) /\ (IF copy = res THEN Calm ELSE Event)
  <2>1. /\ history' \in History /\ live' \in Contents /\ history' # <<>> /\ live' = d
        /\ \A n \in Nat : Floor(n) => Floor(n)'
        /\ \A n \in Nat : n <= d.cert => Floor(n)'
    BY <1>1, <1>3, <1>5, UpgradeStep
  <2>2. Recording(TRUE) /\ run'.shown = d.cert
    BY <1>1, <1>5, <2>1 DEF Record, Recording
  <2>3. Floor(run.shown)'
    BY <1>3, <2>1, <2>2 DEF Floor, PendingFloor, LatestIs
  <2>4. events' \in 0 .. MaxEvents
    BY <1>1, <1>5 DEF Event
  <2> QED
    BY <1>1, <2>1, <2>2, <2>3, <2>4 DEF Upgraded
<1>6. CASE CutOff(Kept, "pending-upgrade", d)
  <2>1. /\ history' \in History /\ live' \in Contents /\ history' # <<>>
        /\ \A n \in Nat : Floor(n) => Floor(n)'
        /\ run' = Idle /\ events' \in 0 .. MaxEvents
    BY <1>1, <1>3, <1>6, UpgradeStep
  <2> QED
    BY <1>1, <2>1 DEF Upgraded
<1> QED
  BY <1>1, <1>4, <1>5, <1>6

LEMMA FinalizeFacts ==
  ASSUME Typed, Finalize
  PROVE  /\ history' \in History /\ live' \in Contents /\ events' \in 0 .. MaxEvents
         /\ run = Idle /\ cache.phase = "deleting" /\ run' = [pc |-> "finalize", copy |-> cache]
         /\ UNCHANGED <<kind, res, cache, due, expired, misread>>
         /\ Floor(0)' /\ SameRoot
<1>1. /\ run = Idle /\ cache.phase = "deleting" /\ run' = [pc |-> "finalize", copy |-> cache]
      /\ UNCHANGED <<kind, res, cache, due, expired, misread>>
  BY DEF Finalize
<1>2. Nothing \in Contents /\ Nothing.cert = 0
  BY DEF Nothing, Contents
<1>3. CASE history' = <<>> /\ live' = Nothing /\ Calm
  <2>1. Floor(0)'
    BY <1>2, <1>3, EmptyHistory DEF Floor, PendingFloor, LatestIs
  <2>2. SameRoot
    BY <1>2, <1>3, EmptyHistory DEF SameRoot, OneRoot
  <2> QED
    BY <1>1, <1>2, <1>3, <2>1, <2>2, EmptyHistory DEF Typed
<1>4. CASE /\ Event /\ history # <<>> /\ live' \in {live, Nothing}
           /\ history' = [history EXCEPT ![Len(history)].status = "uninstalling"]
  <2>0. PICK n : n = Len(history)
    OBVIOUS
  <2>1. /\ history \in Seq(Revisions) /\ n \in Nat \ {0} /\ DOMAIN history = 1 .. n
        /\ \A i \in 1 .. n : history[i] \in Revisions /\ history[i].cert \in Nat
        /\ \A i, j \in Deployed(history) : i = j
    BY <1>4, <2>0, HistoryFacts DEF Typed
  <2>2. PICK r : r = [history[n] EXCEPT !.status = "uninstalling"]
    OBVIOUS
  <2>3. r \in Revisions /\ r.cert = history[n].cert /\ r.status = "uninstalling"
    <3>1. history[n] \in Revisions
      BY <2>1
    <3> QED
      BY <2>2, <3>1 DEF Revisions, Status
  <2>11. history' = [history EXCEPT ![n] = r]
    BY <1>4, <2>0, <2>2
  <2>4. /\ history' \in Seq(Revisions) /\ Len(history') = n /\ DOMAIN history' = 1 .. n
        /\ \A i \in 1 .. n : history'[i].cert = history[i].cert
        /\ history'[n].status = "uninstalling"
        /\ \A i \in 1 .. n : i # n => history'[i] = history[i]
    BY <2>1, <2>3, <2>11
  <2>5. Deployed(history') \subseteq Deployed(history)
    BY <2>1, <2>4 DEF Deployed
  <2>6. history' \in History
    BY <2>1, <2>4, <2>5 DEF History, Single
  <2>7. live' \in Contents /\ live'.cert \in {0, live.cert} /\ live.cert \in Nat
    BY <1>2, <1>4 DEF Typed, Contents
  <2>8. Floor(0)'
    <3>1. \A i \in 1 .. n : history'[i].cert >= 0
      BY <2>1, <2>4
    <3>2. Deployed(history') \subseteq 1 .. n /\ n \in 1 .. n
      BY <2>1, <2>4 DEF Deployed
    <3>3. ~ LatestIs({"pending-upgrade"})'
      BY <2>4 DEF LatestIs, Last
    <3> QED
      BY <2>4, <2>7, <3>1, <3>2, <3>3 DEF Floor, HistoryFloor, PendingFloor
  <2>9. SameRoot
    <3>1. history' # <<>>
      BY <2>1, <2>4
    <3>2. 1 \in 1 .. n
      BY <2>1
    <3> QED
      BY <2>1, <2>4, <2>7, <3>1, <3>2 DEF SameRoot, OneRoot
  <2>10. events' \in 0 .. MaxEvents
    BY <1>4 DEF Event, Typed
  <2> QED
    BY <1>1, <2>6, <2>7, <2>8, <2>9, <2>10
<1> QED
  BY <1>1, <1>3, <1>4 DEF Finalize

-----------------------------------------------------------------------------
(* The invariant is kept.                                                   *)

LEMMA AgeFacts ==
  ASSUME Typed, Age
  PROVE  /\ UNCHANGED <<kind, res, cache, history, live, misread, run>>
         /\ due' \in Nat /\ expired' \in Nat /\ expired' <= due' /\ events' \in 0 .. MaxEvents
BY DEF Age, Event, Typed, Contents

LEMMA StepTyped ==
  ASSUME IInv, [Next]_vars
  PROVE  Typed'
<1> USE DEF IInv
<1>1. ASSUME Edit \/ Request \/ Delete \/ Create PROVE Typed'
  BY <1>1, ManageFacts DEF Typed, RunTyped
<1>2. ASSUME Age PROVE Typed'
  BY <1>2, AgeFacts DEF Typed, RunTyped
<1>3. ASSUME Sync PROVE Typed'
  BY <1>3 DEF Sync, Typed, RunTyped
<1>4. ASSUME Begin PROVE Typed'
  <2>1. run' \in [pc: {"install", "decide"}, copy: Resources, skip: BOOLEAN]
    <3>1. LatestIs({"pending-upgrade"}) \in BOOLEAN
      BY DEF LatestIs
    <3> QED
      BY <1>4, <3>1, BeginFacts DEF Typed, Floors
  <2> QED
    BY <1>4, <2>1, BeginFacts DEF Typed, RunTyped, Floors
<1>5. ASSUME RollbackCutOff PROVE Typed'
  BY <1>5, RollbackCutOffFacts DEF Typed, RunTyped, Floors
<1>6. ASSUME Install PROVE Typed'
  <2>1. history = <<>>
    BY <1>6 DEF Install, Floors
  <2> QED
    BY <1>6, <2>1, InstallFacts DEF Typed, RunTyped
<1>7. ASSUME NEW b \in BOOLEAN, Upgraded(b) PROVE Typed'
  <2>1. CASE run' = Idle
    BY <1>7, <2>1 DEF Upgraded, Typed, RunTyped
  <2>2. CASE Recording(b)
    <3>1. PICK c \in {res, cache, run.copy} :
            run' = [pc |-> "record", copy |-> c, renewed |-> b,
                    shown |-> IF kind = "ca" THEN live.cert ELSE live'.cert]
      BY <2>2 DEF Recording
    <3>2. c \in Resources
      BY <1>7, RunFacts DEF Upgraded, Typed
    <3>3. live.cert \in Nat /\ live'.cert \in Nat
      BY <1>7 DEF Upgraded, Typed, Contents
    <3>4. run' \in [pc: {"record"}, copy: Resources, renewed: BOOLEAN, shown: Nat]
      BY <3>1, <3>2, <3>3
    <3> QED
      BY <1>7, <3>4 DEF Upgraded, Typed, RunTyped
  <2> QED
    BY <1>7, <2>1, <2>2 DEF Upgraded
<1>8. ASSUME WriteStatus PROVE Typed'
  BY <1>8, WriteStatusFacts DEF WriteStatus, Typed, RunTyped
<1>9. ASSUME Finalize PROVE Typed'
  <2>1. run' \in [pc: {"finalize"}, copy: Resources]
    BY <1>9, FinalizeFacts DEF Typed
  <2> QED
    BY <1>9, <2>1, FinalizeFacts DEF Typed, RunTyped
<1>10. ASSUME RemoveFinalizer PROVE Typed'
  BY <1>10, RemoveFinalizerFacts DEF RemoveFinalizer, Typed, RunTyped
<1>11. ASSUME CallFails PROVE Typed'
  BY <1>11 DEF CallFails, Event, Typed, RunTyped
<1>12. ASSUME Fails PROVE Typed'
  BY <1>12 DEF Fails, Typed, RunTyped
<1>13. CASE UNCHANGED vars
  BY <1>13 DEF vars, Typed, RunTyped
<1> QED
  BY <1>1, <1>2, <1>3, <1>4, <1>5, <1>6, <1>7, <1>8, <1>9, <1>10, <1>11, <1>12, <1>13,
     UpgradeChartFacts, UpdateCertsFacts DEF Next, Reconcile

(* Old copies.  A deleted resource is not created again before the cache    *)
(* has seen its deletion.                                                   *)
LEMMA StepCopies ==
  ASSUME IInv, [Next]_vars
  PROVE  Copies'
<1> USE DEF IInv
<1>0. /\ res \in Resources /\ cache \in Resources /\ res.version \in Nat /\ cache.version \in Nat
      /\ run # Idle => run.copy \in Resources /\ run.copy.version \in Nat
  BY RunFacts DEF Typed, Resources
<1>1. ASSUME Edit \/ Request \/ Delete \/ Create PROVE Copies'
  <2>1. /\ res' = res \/ res'.version = res.version + 1
        /\ UNCHANGED <<cache, run>>
        /\ \/ /\ res'.asked >= res.asked /\ res'.shown = res.shown
              /\ res.phase = "there" /\ res'.phase \in {"there", "deleting"}
           \/ res.phase = "gone" /\ res'.phase = "there" /\ res'.shown = 0
    BY <1>1, ManageFacts
  <2>2. res.asked \in Nat /\ cache.asked \in Nat /\ (run # Idle => run.copy.asked \in Nat)
    BY <1>0 DEF Resources
  <2>3. res'.asked \in Nat
    BY <1>1, ManageFacts DEF Resources
  <2>4. /\ Behind(cache)'
        /\ (run # Idle => Behind(run.copy))'
    BY <1>0, <2>1 DEF Copies, Behind
  <2>5. /\ (cache.phase = "there" => res.phase # "gone" /\ cache.asked <= res.asked)'
        /\ (cache.phase # "there" /\ res.phase = "there" => res.shown = 0)'
    BY <2>1, <2>2, <2>3 DEF Copies
  <2>6. (At("install") \/ At("decide") => run.copy.asked <= res.asked)'
    BY <2>1, <2>2, <2>3 DEF Copies, Idle
  <2>7. (At("install") \/ At("decide") \/ At("record") =>
           res.phase # "gone" /\ (cache.phase # "there" => res.phase # "there"))'
    BY <2>1 DEF Copies
  <2> QED
    BY <2>1, <2>4, <2>5, <2>6, <2>7 DEF Copies
<1>2. ASSUME UNCHANGED <<res, cache>>, run' = Idle PROVE Copies'
  BY <1>2 DEF Copies, Behind, Idle
<1>3. ASSUME UNCHANGED <<res, cache, run>> PROVE Copies'
  BY <1>3 DEF Copies, Behind
<1>4. ASSUME Sync PROVE Copies'
  <2>1. cache' = res /\ res' = res /\ run' = run /\ res.asked \in Nat
    BY <1>0, <1>4 DEF Sync, Resources
  <2>2. At("finalize") => run # Idle /\ run.copy.version <= res.version
    BY DEF Copies, Behind, Idle
  <2> QED
    BY <1>0, <2>1, <2>2 DEF Copies, Behind
<1>5. ASSUME Begin PROVE Copies'
  <2>1. UNCHANGED <<res, cache>> /\ cache.phase = "there" /\ run'.copy = cache
        /\ run'.pc \in {"install", "decide"}
    BY <1>5, BeginFacts DEF Floors
  <2> QED
    BY <2>1 DEF Copies, Behind
<1>6. ASSUME NEW b \in BOOLEAN, Upgraded(b), run' # Idle PROVE Copies'
  <2>1. /\ UNCHANGED <<res, cache>> /\ run'.pc = "record" /\ At("decide")
        /\ run'.copy \in {res, cache, run.copy}
    BY <1>6 DEF Upgraded, Recording
  <2>2. Behind(res) /\ Behind(cache) /\ Behind(run.copy)
    BY <1>0, <2>1 DEF Copies, Behind, Idle
  <2>3. Behind(run'.copy)
    BY <2>1, <2>2
  <2> QED
    BY <2>1, <2>3 DEF Copies, Behind
<1>7. ASSUME WriteStatus PROVE Copies'
  <2>1. /\ res' = res \/ res'.version = res.version + 1
        /\ res'.asked = res.asked /\ res'.phase = res.phase
        /\ run' = Idle /\ At("record") /\ UNCHANGED cache
    BY <1>7, WriteStatusFacts DEF WriteStatus
  <2> QED
    BY <1>0, <2>1 DEF Copies, Behind, Idle
<1>8. ASSUME Finalize PROVE Copies'
  <2>1. /\ UNCHANGED <<res, cache>> /\ cache.phase = "deleting"
        /\ run' = [pc |-> "finalize", copy |-> cache]
    BY <1>8, FinalizeFacts
  <2> QED
    BY <1>0, <2>1 DEF Copies, Behind
<1>9. ASSUME RemoveFinalizer PROVE Copies'
  <2>1. /\ res' = res \/ res'.version = res.version + 1
        /\ res' # res => run.copy = res /\ res'.phase = "gone"
        /\ run' = Idle /\ At("finalize") /\ UNCHANGED cache
    BY <1>9, RemoveFinalizerFacts DEF RemoveFinalizer
  <2>2. CASE res' = res
    BY <1>2, <2>1, <2>2
  <2>3. CASE res' # res
    <3>1. cache.version = res.version /\ cache.phase = "deleting"
      BY <1>0, <2>1, <2>3 DEF Copies, Behind
    <3> QED
      BY <1>0, <2>1, <2>3, <3>1 DEF Copies, Behind, Idle
  <2> QED
    BY <2>2, <2>3
<1>10. ASSUME Install \/ RollbackCutOff \/ Fails \/ CallFails PROVE UNCHANGED <<res, cache>> /\ run' = Idle
  <2>1. Install => history = <<>>
    BY DEF Install, Floors
  <2> QED
    BY <1>10, <2>1, InstallFacts, RollbackCutOffFacts DEF Fails, CallFails, Floors
<1>11. ASSUME Age \/ UNCHANGED vars PROVE UNCHANGED <<res, cache, run>>
  BY <1>11 DEF Age, vars
<1>12. ASSUME UpgradeChart \/ UpdateCerts PROVE \E b \in BOOLEAN : Upgraded(b)
  BY <1>12, UpgradeChartFacts, UpdateCertsFacts
<1>13. ASSUME NEW b \in BOOLEAN, Upgraded(b) PROVE Copies'
  BY <1>2, <1>6, <1>13 DEF Upgraded
<1> QED
  BY <1>1, <1>2, <1>3, <1>4, <1>5, <1>7, <1>8, <1>9, <1>10, <1>11, <1>12, <1>13
  DEF Next, Reconcile

LEMMA StepFloors ==
  ASSUME IInv, [Next]_vars
  PROVE  Floors'
<1> USE DEF IInv
<1> DEFINE Keeps == \A n \in Nat : Floor(n) => Floor(n)'
<1>1. Floor(0) /\ res.shown \in Nat /\ (At("record") => run.shown \in Nat)
  <2>1. \A i \in 1 .. Len(history) : history[i].cert >= 0
    BY HistoryFacts DEF Typed
  <2>2. Deployed(history) \subseteq 1 .. Len(history) /\ Len(history) \in Nat
        /\ (history # <<>> => Len(history) > 0)
    BY HistoryFacts DEF Typed
  <2>3. HistoryFloor(history, 0)
    BY <2>1, <2>2 DEF HistoryFloor
  <2>4. live.cert >= 0 /\ PendingFloor(0)
    BY DEF Typed, Contents, Floors
  <2> QED
    BY <2>3, <2>4, RunFacts DEF Floor, Typed, Resources
<1>2. ASSUME UNCHANGED <<history, live>> PROVE Keeps
  BY <1>2 DEF Floor, PendingFloor, LatestIs
<1>3. ASSUME Floor(0)' PROVE PendingFloor(0)'
  BY <1>3 DEF Floor
<1>4. ASSUME NEW n \in Nat, Floor(n)', n = res'.shown PROVE Floor(res.shown)'
  BY <1>4 DEF Floor, PendingFloor, LatestIs
<1>5. ASSUME Keeps, res'.shown \in {res.shown, 0}, res.phase = "there" PROVE Floor(res.shown)'
  <2>1. PICK n : n = res'.shown
    OBVIOUS
  <2>2. n \in Nat /\ Floor(n)
    BY <1>1, <1>5, <2>1 DEF Floors
  <2> QED
    BY <1>4, <1>5, <2>1, <2>2
<1>6. ASSUME Keeps PROVE Floor(0)' /\ PendingFloor(0)'
  BY <1>1, <1>3, <1>6
<1> HIDE DEF Keeps
<1>7. ASSUME Keeps, UNCHANGED res, run' = Idle PROVE Floors'
  <2>1. (res.phase = "there" => Floor(res.shown))'
    BY <1>5, <1>7
  <2> QED
    BY <1>6, <1>7, <2>1 DEF Floors, Idle
<1>8. ASSUME Install \/ RollbackCutOff \/ Fails \/ CallFails
      PROVE  Keeps /\ UNCHANGED res /\ run' = Idle
  <2>1. Install => history = <<>>
    BY DEF Install, Floors
  <2>2. PendingFloor(0)
    BY DEF Floors
  <2>3. CASE Install \/ RollbackCutOff
    BY <2>1, <2>2, <2>3, InstallFacts, RollbackCutOffFacts DEF Keeps
  <2>4. CASE Fails \/ CallFails
    BY <1>2, <2>4 DEF Fails, CallFails
  <2> QED
    BY <1>8, <2>3, <2>4
<1>9. ASSUME Edit \/ Request \/ Delete \/ Create PROVE Floors'
  <2>1. /\ UNCHANGED <<history, live, run>>
        /\ \/ res'.shown = res.shown /\ res.phase = "there"
           \/ res.phase = "gone" /\ res'.phase = "there" /\ res'.shown = 0
    BY <1>9, ManageFacts
  <2>2. Keeps
    BY <1>2, <2>1
  <2>3. Floor(res.shown)'
    <3>1. CASE res.phase = "there" /\ res'.shown = res.shown
      BY <1>5, <2>2, <3>1
    <3>2. CASE res'.shown = 0
      BY <1>4, <1>6, <2>2, <3>2
    <3> QED
      BY <2>1, <3>1, <3>2
  <2>4. (At("record") => Floor(run.shown))'
    BY <2>1 DEF Floors, Floor, PendingFloor, LatestIs
  <2>5. (At("decide") => (run.skip => Floor(live.cert)))'
    BY <2>1 DEF Floors, Floor, PendingFloor, LatestIs
  <2>6. (At("install") => history = <<>>)' /\ (At("decide") => history # <<>>)'
    BY <2>1 DEF Floors
  <2> QED
    BY <1>6, <2>2, <2>3, <2>4, <2>5, <2>6 DEF Floors
<1>10. ASSUME UNCHANGED <<res, history, live, run>> PROVE Floors'
  BY <1>10 DEF Floors, Floor, PendingFloor, LatestIs
<1>11. ASSUME Begin PROVE Floors'
  <2>1. PendingFloor(0)
    BY DEF Floors
  <2>2. Keeps /\ UNCHANGED res
    BY <1>11, <2>1, BeginFacts DEF Keeps
  <2>3. run' = [pc |-> IF history = <<>> THEN "install" ELSE "decide", copy |-> cache,
                skip |-> LatestIs({"pending-upgrade"})]
    BY <1>11, <2>1, BeginFacts
  <2>4. /\ history = <<>> <=> history' = <<>>
        /\ LatestIs({"pending-upgrade"}) => Floor(live.cert)'
    BY <1>11, <2>1, BeginFacts
  <2>5. (res.phase = "there" => Floor(res.shown))'
    BY <1>5, <2>2
  <2>6. (At("install") => history = <<>>)' /\ (At("decide") => history # <<>>)'
        /\ (~ At("record"))'
    BY <2>3, <2>4
  <2>7. (At("decide") => (run.skip => Floor(live.cert)))'
    BY <2>3, <2>4
  <2> QED
    BY <1>6, <2>2, <2>5, <2>6, <2>7 DEF Floors
<1>12. ASSUME NEW b \in BOOLEAN, Upgraded(b) PROVE Floors'
  <2>1. Keeps /\ UNCHANGED res
    BY <1>12 DEF Upgraded, Keeps
  <2>2. CASE run' = Idle
    BY <1>7, <2>1, <2>2
  <2>3. CASE Recording(b) /\ run' # Idle
    <3>1. run'.pc = "record"
      BY <2>3 DEF Recording
    <3>2. Floor(run.shown)'
      BY <1>12, <2>3 DEF Upgraded
    <3>3. (res.phase = "there" => Floor(res.shown))'
      BY <1>5, <2>1
    <3> QED
      BY <1>6, <2>1, <3>1, <3>2, <3>3 DEF Floors
  <2> QED
    BY <1>12, <2>2, <2>3 DEF Upgraded
<1>13. ASSUME WriteStatus PROVE Floors'
  <2>1. /\ At("record") /\ UNCHANGED <<history, live>> /\ run' = Idle
        /\ res'.phase = res.phase
        /\ res'.shown = res.shown \/ res'.shown = run.shown
    BY <1>13, WriteStatusFacts DEF WriteStatus
  <2>2. Keeps
    BY <1>2, <2>1
  <2>3. ASSUME res'.phase = "there" PROVE Floor(res.shown)'
    <3>1. PICK n : n = res'.shown
      OBVIOUS
    <3>2. n \in Nat /\ Floor(n)
      BY <1>1, <2>1, <2>3, <3>1 DEF Floors
    <3>3. Floor(n)'
      BY <2>2, <3>2 DEF Keeps
    <3> QED
      BY <1>4, <3>1, <3>2, <3>3
  <2> QED
    BY <1>6, <2>1, <2>2, <2>3 DEF Floors, Idle
<1>14. ASSUME Finalize PROVE Floors'
  <2>1. /\ run' = [pc |-> "finalize", copy |-> cache] /\ UNCHANGED res
        /\ Floor(0)' /\ cache.phase = "deleting"
    BY <1>14, FinalizeFacts
  <2>2. ASSUME res'.phase = "there" PROVE Floor(res.shown)'
    <3>1. res'.shown = 0
      BY <2>1, <2>2 DEF Copies
    <3> QED
      BY <1>4, <2>1, <3>1
  <2> QED
    BY <1>3, <2>1, <2>2 DEF Floors
<1>15. ASSUME RemoveFinalizer PROVE Floors'
  <2>1. /\ UNCHANGED <<history, live>> /\ run' = Idle
        /\ res' # res => res'.phase = "gone"
    BY <1>15, RemoveFinalizerFacts DEF RemoveFinalizer
  <2>2. Keeps
    BY <1>2, <2>1
  <2>3. (res.phase = "there" => Floor(res.shown))'
    BY <1>5, <2>1, <2>2
  <2> QED
    BY <1>6, <2>1, <2>2, <2>3 DEF Floors, Idle
<1>16. ASSUME Age \/ Sync \/ UNCHANGED vars PROVE UNCHANGED <<res, history, live, run>>
  BY <1>16 DEF Age, Sync, vars
<1>17. ASSUME UpgradeChart \/ UpdateCerts PROVE \E b \in BOOLEAN : Upgraded(b)
  BY <1>17, UpgradeChartFacts, UpdateCertsFacts
<1> QED
  BY <1>7, <1>8, <1>9, <1>10, <1>11, <1>12, <1>13, <1>14, <1>15, <1>16, <1>17
  DEF Next, Reconcile

(* While every secret can be read, no step brings another root key.         *)
LEMMA StepSameRoot ==
  ASSUME IInv, [Next]_vars
  PROVE  kind' = kind /\ (kind = "ca" /\ ~misread' => SameRoot /\ ~misread)
<1> USE DEF IInv
<1> DEFINE Goal == kind' = kind /\ (kind = "ca" /\ ~misread' => SameRoot /\ ~misread)
<1>1. ASSUME UNCHANGED <<kind, misread, history, live>> PROVE Goal
  BY <1>1 DEF SameRoot
<1>2. ASSUME Edit \/ Request \/ Delete \/ Create PROVE Goal
  BY <1>1, <1>2, ManageFacts
<1>3. ASSUME \/ Age \/ Sync \/ WriteStatus \/ RemoveFinalizer \/ Fails \/ CallFails
             \/ UNCHANGED vars
      PROVE  UNCHANGED <<kind, misread, history, live>>
  BY <1>3 DEF Age, Sync, WriteStatus, RemoveFinalizer, Fails, CallFails, vars
<1>4. ASSUME UNCHANGED <<kind, misread>>, SameRoot PROVE Goal
  BY <1>4
<1>5. ASSUME Begin \/ RollbackCutOff \/ Install \/ Finalize
      PROVE  UNCHANGED <<kind, misread>> /\ SameRoot
  <2>1. PendingFloor(0) /\ (Install => history = <<>>)
    BY DEF Install, Floors
  <2> QED
    BY <1>5, <2>1, BeginFacts, RollbackCutOffFacts, InstallFacts, FinalizeFacts
<1>6. ASSUME UpgradeChart \/ UpdateCerts PROVE Goal
  BY <1>6, UpgradeChartFacts, UpdateCertsFacts DEF Upgraded
<1> HIDE DEF Goal
<1>7. Goal
  BY <1>1, <1>2, <1>3, <1>4, <1>5, <1>6 DEF Next, Reconcile
<1> QED
  BY <1>7 DEF Goal

LEMMA InitIInv == Init => IInv
<1> SUFFICES ASSUME Init PROVE IInv
  OBVIOUS
<1>1. Typed
  BY InitTyped
<1>2. /\ cache = res /\ run = Idle /\ history = <<>> /\ live = Nothing /\ res.shown = 0
      /\ res.phase = "there" /\ res.asked \in Nat /\ res.version \in Nat
  <2>1. PICK v \in Values : res = Created(v)
    BY DEF Init
  <2> QED
    BY <2>1 DEF Init, Created
<1>3. Copies
  BY <1>2 DEF Copies, Behind, Idle
<1>4. Floor(0) /\ PendingFloor(0)
  BY <1>2, EmptyHistory DEF Floor, PendingFloor, LatestIs, Nothing
<1>5. Floors
  BY <1>2, <1>4 DEF Floors, Idle
<1>6. Roots
  BY <1>2 DEF Roots, OneRoot, Nothing
<1> QED
  BY <1>1, <1>3, <1>5, <1>6 DEF IInv

-----------------------------------------------------------------------------
(* What the controller can go back to.                                      *)

(* A revision with a certificate and values: it can be brought back.        *)
Solid(r)    == r.cert > 0 /\ r.vals # None
AllSolid(h) == \A i \in 1 .. Len(h) : Solid(h[i])

(* Only a release whose secrets can be read is upgraded or rolled back, and *)
(* being cut off does not take them away.                                   *)
Repairs ==
  /\ AllSolid(history)
  /\ LatestIs({"pending-upgrade", "pending-rollback"}) => Readable

LEMMA SolidAppended ==
  ASSUME NEW h \in History, NEW c \in Contents, NEW s \in Status, AllSolid(h), Solid(c),
         \/ history' = Append(h, Revision(s, c))
         \/ history' = Append(Superseded(h), Revision(s, c))
  PROVE  AllSolid(history') /\ (\A S : LatestIs(S)' => s \in S)
<1> DEFINE r == Revision(s, c)
<1>1. r.status = s /\ Solid(r)
  BY DEF Revision, Solid
<1>2. /\ h \in Seq(Revisions) /\ Len(h) \in Nat /\ DOMAIN h = 1 .. Len(h)
  BY HistoryFacts
<1>3. Superseded(h) \in Seq(Revisions) /\ Len(Superseded(h)) = Len(h)
  BY SupersededFacts, HistoryFacts
<1>4. AllSolid(Superseded(h))
  <2> SUFFICES ASSUME NEW i \in 1 .. Len(h) PROVE Solid(Superseded(h)[i])
    BY <1>3 DEF AllSolid
  <2>1. Superseded(h)[i] = [h[i] EXCEPT !.status = IF @ = "deployed" THEN "superseded" ELSE @]
    BY <1>2 DEF Superseded
  <2>2. h[i] \in Revisions /\ Solid(h[i])
    BY HistoryFacts DEF AllSolid
  <2> QED
    BY <2>1, <2>2 DEF Solid, Revisions
<1>5. r \in Revisions
  BY RevisionFacts
<1> HIDE DEF r
<1>6. PICK g \in Seq(Revisions) : history' = Append(g, r) /\ AllSolid(g)
  BY <1>2, <1>3, <1>4 DEF r
<1>7. /\ Len(history') = Len(g) + 1 /\ Len(g) \in Nat /\ history'[Len(g) + 1] = r
      /\ \A i \in 1 .. Len(g) : history'[i] = g[i]
  BY <1>5, <1>6
<1>8. \A i \in 1 .. Len(history') : i \in 1 .. Len(g) \/ i = Len(g) + 1
  BY <1>7
<1>9. AllSolid(history')
  BY <1>1, <1>6, <1>7, <1>8 DEF AllSolid
<1>10. \A S : LatestIs(S)' => s \in S
  BY <1>1, <1>7 DEF LatestIs, Last
<1> QED
  BY <1>9, <1>10

LEMMA SolidSucceeds ==
  ASSUME NEW h \in History, NEW c \in Contents, AllSolid(h), Solid(c), Succeeds(h, c),
         UNCHANGED kind
  PROVE  Repairs'
<1>1. history' = Append(Superseded(h), Revision("deployed", c)) /\ live' = c
  BY DEF Succeeds
<1>2. AllSolid(history')
  BY <1>1, SolidAppended DEF Status
<1>3. Readable'
  BY <1>1 DEF Readable, Solid
<1> QED
  BY <1>2, <1>3 DEF Repairs, AllSolid

LEMMA SolidCutOff ==
  ASSUME NEW h \in History, NEW c \in Contents, NEW p \in Pending, live \in Contents,
         AllSolid(h), Solid(c), CutOff(h, p, c), UNCHANGED kind,
         p = "pending-install" \/ Readable
  PROVE  Repairs'
<1>1. PICK s \in {"failed", p} :
        \/ history' = Append(h, Revision(s, c))
        \/ history' = Append(Superseded(h), Revision(s, c))
  BY DEF CutOff
<1>2. s \in Status
  BY DEF Pending, Status
<1>3. AllSolid(history') /\ (\A S : LatestIs(S)' => s \in S)
  BY <1>1, <1>2, SolidAppended
<1>4. Readable => Readable'
  BY DEF CutOff, Partly, Readable, Solid, Contents
<1>5. LatestIs({"pending-upgrade", "pending-rollback"})' => s \in {"pending-upgrade", "pending-rollback"}
  BY <1>3
<1>6. LatestIs({"pending-upgrade", "pending-rollback"})' => Readable'
  BY <1>4, <1>5
<1> QED
  BY <1>3, <1>6 DEF Repairs, AllSolid

(* What is installed or upgraded to is solid, what is kept stays so.        *)
LEMMA SolidContents ==
  ASSUME Typed, NEW r \in Resources, NEW n \in Nat, n > 0
  PROVE  [vals |-> r.vals, cert |-> n] \in Contents /\ Solid([vals |-> r.vals, cert |-> n])
BY DEF Resources, Contents, Solid

LEMMA KeptSolid ==
  ASSUME Typed, ~Refused, AllSolid(history)
  PROVE  Kept \in History /\ AllSolid(Kept)
BY UpgradeFacts DEF AllSolid

(* A rollback is to a solid revision, of a release that can be read.        *)
LEMMA TargetSolid ==
  ASSUME Typed, PendingFloor(0), Repairs, RollbackTargets # {}
  PROVE  /\ Content(history[Max(RollbackTargets)]) \in Contents
         /\ Solid(Content(history[Max(RollbackTargets)]))
         /\ Readable /\ history # <<>>
<1>1. PICK t : t = Max(RollbackTargets)
  OBVIOUS
<1>2. t \in DOMAIN history /\ Content(history[t]) \in Contents
  BY <1>1, RollbackFacts
<1>3. Solid(history[t])
  BY <1>2, HistoryFacts DEF Typed, Repairs, AllSolid
<1>4. Solid(Content(history[t]))
  BY <1>3 DEF Solid, Content
<1>5. LatestIs({"pending-upgrade", "pending-rollback"})
  BY DEF RollbackTargets, LatestIs
<1> QED
  BY <1>1, <1>2, <1>4, <1>5 DEF Repairs, LatestIs

LEMMA StepRepairs ==
  ASSUME IInv, Repairs, [Next]_vars
  PROVE  Repairs'
<1> USE DEF IInv
<1>1. /\ history \in History /\ live \in Contents /\ live.cert \in Nat /\ AllSolid(history)
      /\ PendingFloor(0)
  BY DEF Typed, Contents, Repairs, Floors
<1>2. ASSUME UNCHANGED <<kind, history, live>> PROVE Repairs'
  BY <1>2 DEF Repairs, AllSolid, LatestIs, Readable
<1>3. ASSUME \/ Edit \/ Request \/ Delete \/ Create \/ Age \/ Sync \/ WriteStatus
             \/ RemoveFinalizer \/ Fails \/ CallFails \/ UNCHANGED vars
      PROVE  UNCHANGED <<kind, history, live>>
  BY <1>3, ManageFacts
  DEF Age, Sync, WriteStatus, RemoveFinalizer, Fails, CallFails, vars
<1>4. ASSUME Begin PROVE Repairs'
  <2>1. CASE RollbackTargets = {}
    BY <1>2, <1>4, <2>1 DEF Begin
  <2>2. CASE RollbackTargets # {}
    BY <1>1, <1>4, <2>2, TargetSolid, SolidSucceeds DEF Begin
  <2> QED
    BY <2>1, <2>2
<1>5. ASSUME RollbackCutOff PROVE Repairs'
  <2>1. "pending-rollback" \in Pending
    BY DEF Pending
  <2> QED
    BY <1>1, <1>5, <2>1, TargetSolid, SolidCutOff DEF RollbackCutOff
<1>6. ASSUME Install PROVE Repairs'
  <2> DEFINE c == [vals |-> run.copy.vals, cert |-> NewCert]
  <2>1. run.copy \in Resources /\ NewCert \in Nat /\ NewCert > 0
    BY <1>1, <1>6, RunFacts, NewCertIsNewer DEF Install
  <2>2. c \in Contents /\ Solid(c)
    BY <2>1, SolidContents
  <2>3. Succeeds(<<>>, c) \/ CutOff(<<>>, "pending-install", c)
    BY <1>6 DEF Install
  <2>4. UNCHANGED kind /\ "pending-install" \in Pending /\ <<>> \in History /\ AllSolid(<<>>)
    BY <1>6, EmptyHistory DEF Install, Pending, AllSolid
  <2> HIDE DEF c
  <2> QED
    BY <1>1, <2>2, <2>3, <2>4, SolidSucceeds, SolidCutOff
<1>7. ASSUME ~Refused, Readable, UNCHANGED kind, NEW r \in Resources, NEW n \in Nat, n > 0,
             \/ Succeeds(Kept, [vals |-> r.vals, cert |-> n])
             \/ CutOff(Kept, "pending-upgrade", [vals |-> r.vals, cert |-> n])
      PROVE  Repairs'
  <2>1. "pending-upgrade" \in Pending /\ Kept \in History /\ AllSolid(Kept)
    BY <1>1, <1>7, KeptSolid DEF Pending
  <2>2. /\ [vals |-> r.vals, cert |-> n] \in Contents
        /\ Solid([vals |-> r.vals, cert |-> n])
    BY <1>7, SolidContents
  <2> QED
    BY <1>1, <1>7, <2>1, <2>2, SolidSucceeds, SolidCutOff
<1>8. NewCert \in Nat /\ NewCert > 0
  BY <1>1, NewCertIsNewer
<1>9. ASSUME UpgradeChart PROVE Repairs'
  <2>1. /\ Readable /\ UNCHANGED kind /\ Copy \in Resources
        /\ live.cert > 0 /\ Config(Copy) = [vals |-> Copy.vals, cert |-> live.cert]
    BY <1>9, CopyFacts DEF UpgradeChart, Readable, Config
  <2>2. CASE UNCHANGED <<history, live>>
    BY <1>2, <2>1, <2>2
  <2>3. CASE ~Refused /\ \/ Succeeds(Kept, Config(Copy))
                         \/ CutOff(Kept, "pending-upgrade", Config(Copy))
    BY <1>1, <1>7, <2>1, <2>3
  <2>4. CASE ~Refused /\ Succeeds(Kept, [vals |-> Copy.vals, cert |-> NewCert])
    BY <1>7, <1>8, <2>1, <2>4
  <2> QED
    BY <1>9, <2>2, <2>3, <2>4 DEF UpgradeChart
<1>10. ASSUME UpdateCerts PROVE Repairs'
  <2>1. Readable /\ ~Refused /\ UNCHANGED kind /\ At("decide")
    BY <1>10 DEF UpdateCerts
  <2>2. PICK copy \in {res, run.copy} :
          \/ Succeeds(Kept, [vals |-> copy.vals, cert |-> NewCert])
          \/ CutOff(Kept, "pending-upgrade", [vals |-> copy.vals, cert |-> NewCert])
    BY <1>10 DEF UpdateCerts
  <2>3. copy \in Resources
    BY <2>1, CopyFacts DEF Typed
  <2> QED
    BY <1>7, <1>8, <2>1, <2>2, <2>3
<1>11. ASSUME Finalize PROVE Repairs'
  <2>1. CASE history' = <<>>
    BY <2>1 DEF Repairs, AllSolid, LatestIs
  <2>2. CASE /\ history # <<>>
             /\ history' = [history EXCEPT ![Len(history)].status = "uninstalling"]
    <3>0. PICK n : n = Len(history)
      OBVIOUS
    <3>1. /\ history \in Seq(Revisions) /\ n \in Nat \ {0} /\ DOMAIN history = 1 .. n
          /\ \A i \in 1 .. n : history[i] \in Revisions /\ Solid(history[i])
      BY <1>1, <2>2, <3>0, HistoryFacts DEF AllSolid
    <3>2. PICK r : r = [history[n] EXCEPT !.status = "uninstalling"]
      OBVIOUS
    <3>3. r \in Revisions /\ Solid(r) /\ r.status = "uninstalling"
      <4>1. history[n] \in Revisions /\ Solid(history[n])
        BY <3>1
      <4> QED
        BY <3>2, <4>1 DEF Revisions, Status, Solid
    <3>4. history' = [history EXCEPT ![n] = r]
      BY <2>2, <3>0, <3>2
    <3>5. /\ Len(history') = n /\ history'[n] = r
          /\ \A i \in 1 .. n : i # n => history'[i] = history[i]
      BY <3>1, <3>3, <3>4
    <3>6. AllSolid(history')
      BY <3>1, <3>3, <3>5 DEF AllSolid
    <3>7. ~ LatestIs({"pending-upgrade", "pending-rollback"})'
      BY <3>3, <3>5 DEF LatestIs, Last
    <3> QED
      BY <3>6, <3>7 DEF Repairs, AllSolid
  <2> QED
    BY <1>11, <2>1, <2>2 DEF Finalize
<1> QED
  BY <1>2, <1>3, <1>4, <1>5, <1>6, <1>9, <1>10, <1>11 DEF Next, Reconcile

(* No step but an uninstallation leads out of Stuck.                        *)
LEMMA StepStuck ==
  ASSUME IInv, Repairs, [Next]_vars, Stuck, ~Finalize
  PROVE  Stuck'
<1> USE DEF IInv
<1>0. expired \in Nat
  BY DEF Typed
<1>1. history # <<>>
  BY DEF Stuck, LatestIs
<1>2. RollbackTargets = {}
  <2> SUFFICES ASSUME RollbackTargets # {} PROVE FALSE
    OBVIOUS
  <2>1. Readable
    BY TargetSolid DEF Floors
  <2>2. ~ LatestIs({"pending-install"})
        /\ ~ (LatestIs({"pending-rollback", "uninstalling"}) /\ Deployed(history) = {})
    BY DEF RollbackTargets, LatestIs
  <2> QED
    BY <2>1, <2>2 DEF Stuck
<1>3. ASSUME UNCHANGED <<kind, history, live>>, expired' \in Nat, expired' >= expired
      PROVE  Stuck'
  <2>1. RollbackTargets' = RollbackTargets
    BY <1>3 DEF RollbackTargets, LatestIs
  <2>2. live.cert \in Nat /\ expired \in Nat
    BY DEF Typed, Contents
  <2>3. live.cert <= expired => live'.cert <= expired'
    BY <1>3, <2>2
  <2> QED
    BY <1>3, <2>1, <2>2 DEF Stuck, LatestIs, Readable
<1>4. ASSUME \/ Edit \/ Request \/ Delete \/ Create \/ Sync \/ WriteStatus
             \/ RemoveFinalizer \/ Fails \/ CallFails \/ UNCHANGED vars
      PROVE  UNCHANGED <<kind, history, live, expired>>
  BY <1>4, ManageFacts
  DEF Sync, WriteStatus, RemoveFinalizer, Fails, CallFails, vars
<1>5. ASSUME Age
      PROVE  UNCHANGED <<kind, history, live>> /\ expired' \in Nat /\ expired' >= expired
  BY <1>5 DEF Age, Typed
<1>6. ASSUME Begin PROVE Stuck'
  <2>1. UNCHANGED <<kind, history, live, expired>>
    BY <1>2, <1>6 DEF Begin
  <2> QED
    BY <1>0, <1>3, <2>1
<1>7. ASSUME RollbackCutOff \/ Install PROVE FALSE
  BY <1>1, <1>2, <1>7 DEF RollbackCutOff, Install, Floors
<1>8. ASSUME Readable, Refused => FALSE, kind = "orderer" => live.cert > expired PROVE FALSE
  <2>1. live.cert \in Nat /\ expired \in Nat
    BY DEF Typed, Contents
  <2>2. ~ LatestIs({"pending-install"}) /\ ~ LatestIs({"pending-rollback"})
    BY <1>8 DEF Refused, Pending, LatestIs
  <2>3. ~ (LatestIs({"uninstalling"}) /\ Deployed(history) = {})
    BY <1>8 DEF Refused, LatestIs
  <2>4. ~ (LatestIs({"pending-rollback", "uninstalling"}) /\ Deployed(history) = {})
    BY <2>2, <2>3 DEF LatestIs
  <2> QED
    BY <1>8, <2>1, <2>2, <2>4 DEF Stuck
<1>9. ASSUME UpgradeChart PROVE Stuck'
  <2>1. /\ Readable /\ ~Renews /\ UNCHANGED <<kind, expired>>
        /\ (run.skip /\ UNCHANGED <<history, live>>) \/ ~Refused
    BY <1>9 DEF UpgradeChart
  <2>2. kind = "orderer" => live.cert > expired
    <3>1. live.cert \in Nat /\ expired \in Nat /\ due \in Nat /\ expired <= due
      BY DEF Typed, Contents
    <3> QED
      BY <2>1, <3>1 DEF Renews
  <2> QED
    BY <1>0, <1>3, <1>8, <2>1, <2>2
<1>10. ASSUME UpdateCerts PROVE FALSE
  BY <1>8, <1>10 DEF UpdateCerts
<1> QED
  BY <1>0, <1>3, <1>4, <1>5, <1>6, <1>7, <1>9, <1>10 DEF Next, Reconcile

-----------------------------------------------------------------------------
(* The theorems.                                                            *)

(* The invariant of the reconcile: whatever is edited, cut off or read from *)
(* an old copy, Typed, Copies, Floors and Roots hold.                       *)
THEOREM NodeInvariant == Spec => []IInv
<1>1. Init => IInv
  BY InitIInv
<1>2. IInv /\ [Next]_vars => IInv'
  <2> SUFFICES ASSUME IInv, [Next]_vars PROVE IInv'
    OBVIOUS
  <2>1. Roots'
    BY StepSameRoot DEF IInv, Roots, SameRoot
  <2> QED
    BY <2>1, StepTyped, StepCopies, StepFloors DEF IInv
<1> QED
  BY <1>1, <1>2, PTL DEF Spec

(* The variables stay in their ranges, never are two revisions deployed,    *)
(* and the status covers at most one request that was not made yet (Helm's  *)
(* upgrades and rollbacks, orderer controller, lines 158-250).              *)
THEOREM NodeTypes == Spec => []TypeOK
<1>1. IInv => TypeOK
  <2> SUFFICES ASSUME IInv PROVE TypeOK
    OBVIOUS
  <2>1. Typed
    BY DEF IInv
  <2>2. /\ DOMAIN history = 1 .. Len(history)
        /\ \A i \in 1 .. Len(history) : history[i] \in Revisions
        /\ \A i, j \in Deployed(history) : i = j
    BY <2>1, HistoryFacts DEF Typed
  <2>3. \A i \in DOMAIN history :
          history[i].status \in Status /\ Content(history[i]) \in Contents
    BY <2>2 DEF Revisions, Content, Contents
  <2>4. Cardinality(Deployed(history)) <= 1
    <3>1. CASE Deployed(history) = {}
      BY <3>1, FS_EmptySet
    <3>2. CASE Deployed(history) # {}
      <4>1. PICK i : Deployed(history) = {i}
        BY <2>2, <3>2
      <4>2. Cardinality(Deployed(history)) = 1
        BY <4>1, FS_Singleton
      <4> QED
        BY <4>2
    <3> QED
      BY <3>1, <3>2
  <2> QED
    BY <2>1, <2>3, <2>4 DEF Typed, TypeOK
<1> QED
  BY <1>1, NodeInvariant, PTL

(* The certificate that the status shows is never taken back by a repair:   *)
(* the revisions that one could bring back are as new (orderer controller,  *)
(* lines 158-191).                                                          *)
THEOREM ShownStaysLive == Spec => []RenewalIsNotUndone
<1>1. IInv => RenewalIsNotUndone
  BY DEF IInv, Typed, Resources, Contents, Floors, Floor, RenewalIsNotUndone
<1> QED
  BY <1>1, NodeInvariant, PTL

(* Only a request that is not covered or a certificate that is about to     *)
(* expire has the certificate renewed, however old the controller's copy is *)
(* (peer controller, lines 205-226).                                        *)
THEOREM RenewalHasReason == Spec => NoNeedlessRenewal
<1>1. IInv /\ [Next]_vars =>
        [Renewed' /\ ~Renewed => res.asked > res.last \/ live.cert <= due]_vars
  <2> SUFFICES ASSUME IInv, [Next]_vars, Renewed', ~Renewed
               PROVE  res.asked > res.last \/ live.cert <= due
    OBVIOUS
  <2> USE DEF IInv
  <2>1. ASSUME UpdateCerts PROVE res.asked > res.last \/ live.cert <= due
    <3>1. At("decide") /\ Renews /\ run.copy.asked <= res.asked
      BY <2>1 DEF UpdateCerts, Copies
    <3>2. run.copy.asked \in Nat /\ res.asked \in Nat /\ res.last \in Nat
      BY <3>1, RunFacts, CopyFacts DEF Typed, Resources
    <3> QED
      BY <3>1, <3>2 DEF Renews, RenewalRequested
  <2>2. ASSUME run' = Idle PROVE FALSE
    BY <2>2 DEF Renewed, Idle
  <2>3. ASSUME UNCHANGED run PROVE FALSE
    BY <2>3 DEF Renewed
  <2>4. ASSUME UpgradeChart PROVE FALSE
    <3>1. run' = Idle \/ Recording(FALSE)
      BY <2>4, UpgradeChartFacts DEF Upgraded
    <3> QED
      BY <2>2, <3>1 DEF Recording, Renewed
  <2>5. ASSUME Begin \/ Finalize PROVE FALSE
    <3>1. run'.pc # "record"
      BY <2>5 DEF Begin, Decide, Finalize
    <3> QED
      BY <3>1 DEF Renewed
  <2>6. ASSUME \/ Install \/ RollbackCutOff \/ Fails \/ CallFails \/ WriteStatus
               \/ RemoveFinalizer
        PROVE  run' = Idle
    BY <2>6 DEF Install, RollbackCutOff, CutOff, Fails, CallFails, WriteStatus, RemoveFinalizer
  <2>7. ASSUME Edit \/ Request \/ Delete \/ Create \/ Age \/ Sync \/ UNCHANGED vars
        PROVE  UNCHANGED run
    BY <2>7, ManageFacts DEF Age, Sync, vars
  <2> QED
    BY <2>1, <2>2, <2>3, <2>4, <2>5, <2>6, <2>7 DEF Next, Reconcile
<1> QED
  BY <1>1, NodeInvariant, PTL DEF Spec, NoNeedlessRenewal

(* An authority keeps its root key through edits, repairs and restarts, as  *)
(* long as every secret that is there can be read (GetConfig of the         *)
(* authority, lines 491-505).                                               *)
THEOREM RootStays == Spec => RootKept
<1>1. IInv /\ [Next]_vars =>
        [kind = "ca" /\ ~misread' /\ live.cert # 0 /\ live'.cert # 0 => live'.cert = live.cert]_vars
  BY StepSameRoot DEF IInv, Roots, SameRoot
<1> QED
  BY <1>1, NodeInvariant, PTL DEF Spec, RootKept

(* A node that is in a state of Stuck stays in Stuck until its release is   *)
(* uninstalled: no edit, request, repair or reconcile gets it out, so that  *)
(* what Settles excepts is not a state that the controller was about to     *)
(* leave (orderer controller, lines 158-250).                               *)
THEOREM StuckIsForGood == Spec => [][Stuck => Stuck' \/ Finalize]_vars
<1>1. Init => Repairs
  BY EmptyHistory DEF Init, Repairs, AllSolid, LatestIs
<1>2. IInv /\ Repairs /\ [Next]_vars => Repairs'
  BY StepRepairs
<1>3. IInv /\ Repairs /\ [Next]_vars => [Stuck => Stuck' \/ Finalize]_vars
  BY StepStuck
<1> QED
  BY <1>1, <1>2, <1>3, NodeInvariant, PTL DEF Spec

=============================================================================
