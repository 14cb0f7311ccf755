-------------------------- MODULE CTILedgerProofs --------------------------
(***************************************************************************)
(* TypeOK, agreement of the peers, immutability of stored objects, the     *)
(* implementation of CTIStore and the truth of what clients are told, for  *)
(* any number of peers, requests, keys and documents.                      *)
(***************************************************************************)
EXTENDS CTILedger, TLAPS

(* A Create that reports no error was given a well-typed document with an   *)
(* id that the simulating peer holds no object under; its simulation is     *)
(* well-formed and writes only the key it read as free.                     *)
LEMMA CreateSound ==
  ASSUME NEW ws \in WorldState, NEW type \in StixType, NEW d \in Docs,
         CreateError(ws, type, d) = "none"
  PROVE  /\ d.id \in Key
         /\ ws[d.id] = Free
         /\ Marshalled(d) \in Object
         /\ IsSimulation(CreateSimulation(ws, d))
<1>1. d \in Document
  BY DocsAssumption
<1>2. d.type = type /\ ~assetExists(ws, d.id) /\ ~putAssetFails(d.id)
  BY DEF CreateError
<1>3. d.id \in Key
  BY <1>1, <1>2 DEF Document, putAssetFails
<1>4. Marshalled(d) \in Object
  BY <1>1, <1>2, <1>3 DEF Document, Marshalled, Object
<1>5. ws[d.id].val = Nil /\ ws[d.id].ver \in Nat
  BY <1>2, <1>3 DEF assetExists, GetState, WorldState, Entry, Free
<1>6. IsSimulation(CreateSimulation(ws, d))
  BY <1>3, <1>4, <1>5 DEF IsSimulation, CreateSimulation, None, GetState
<1>7. ws[d.id] = Free
  BY <1>3, <1>5, NilAssumption DEF WorldState, Entry
<1>. QED BY <1>3, <1>4, <1>6, <1>7

LEMMA GetAllSound ==
  ASSUME NEW ws \in WorldState
  PROVE  IsSimulation(GetAllSimulation(ws))
BY DEF IsSimulation, GetAllSimulation, None, WorldState, Entry, Free

(* Whatever a peer answers is built from objects it stores.                 *)
LEMMA ReadShown ==
  ASSUME NEW ws \in WorldState, NEW type \in StixType, NEW k \in Key, ReadFinds(ws, k)
  PROVE  ReadResult(ws, type, k) \in Shown
<1>1. ws[k].val \in Object
  BY DEF ReadFinds, GetState, WorldState, Entry, Free
<1>. QED BY <1>1 DEF ReadResult, GetState, Object, Shown

LEMMA ApplyType ==
  ASSUME NEW ws \in WorldState, NEW writes, NEW n \in Nat \ {0},
         DOMAIN writes \subseteq Key, writes \in [DOMAIN writes -> Object]
  PROVE  Apply(ws, writes, n) \in WorldState
BY DEF Apply, WorldState, Entry


-----------------------------------------------------------------------------
(* Each step acts on one request, on the chain or on one peer.  The four    *)
(* lemmas below say what it leaves well-typed; every invariant after them   *)
(* splits Next the same way.                                                *)

CallStep(r, p) ==
  \/ \E error \in Failure : Fail(r, error)
  \/ \E type \in StixType, d \in Docs :
       /\ CreateError(world[p], type, d) = "none"
       /\ Endorse(r, CreateSimulation(world[p], d), {})
  \/ \E kind \in {"read", "listed"} : \E payload \in SUBSET Shown : Answer(r, kind, payload)
  \/ \E payload \in SUBSET Shown : Endorse(r, GetAllSimulation(world[p]), payload)

LEMMA ListShown ==
  ASSUME NEW ws \in WorldState
  PROVE  GetAllObjects(ws) \in SUBSET Shown
<1>1. \A k \in Key : ws[k].ver # 0 => ws[k].val \in Object
  BY DEF WorldState, Entry, Free
<1>. QED BY <1>1 DEF GetAllObjects, Present, Object, Shown

LEMMA CallIsCallStep ==
  ASSUME TypeOK, NEW r \in Request, NEW p \in Peer, CallChaincode(r, p)
  PROVE  /\ status[r] = "new"
         /\ CallStep(r, p)
         /\ UNCHANGED <<chain, flags, world>>
<1>w. world[p] \in WorldState
  BY DEF TypeOK
<1>c. ASSUME NEW type \in StixType, NEW d \in Docs, Create(type, r, p, d)
      PROVE  status[r] = "new" /\ CallStep(r, p) /\ UNCHANGED <<chain, flags, world>>
  BY <1>c DEF Create, CallStep, CreateError, Failure
<1>r. ASSUME NEW type \in StixType, NEW k \in Key, Read(type, r, p, k)
      PROVE  status[r] = "new" /\ CallStep(r, p) /\ UNCHANGED <<chain, flags, world>>
  <2>1. CASE ~ReadFinds(world[p], k)
    BY <1>r, <2>1 DEF Read, CallStep, Failure
  <2>2. CASE ReadFinds(world[p], k)
    <3>1. {ReadResult(world[p], type, k)} \in SUBSET Shown
      BY <2>2, <1>w, ReadShown
    <3>. QED BY <1>r, <2>2, <3>1 DEF Read, CallStep
  <2>. QED BY <2>1, <2>2
<1>l. GetAllObjects(world[p]) \in SUBSET Shown
  BY <1>w, ListShown
<1>1. CASE EvaluateGetAll(r, p)
  BY <1>1, <1>l DEF EvaluateGetAll, CallStep
<1>2. CASE SubmitGetAll(r, p)
  BY <1>2, <1>l DEF SubmitGetAll, CallStep
<1>. QED
  BY <1>c, <1>r, <1>1, <1>2, AskedAssumption
  DEF CallChaincode, CreateIndicator, CreateRelationship, CreateSighting, CreateBundle,
      ReadIndicator, ReadRelationship, ReadSighting, ReadBundle, StixType

(* An endorsed result and a payload are well-typed.                         *)
LEMMA CallType ==
  ASSUME TypeOK, NEW r \in Request, NEW p \in Peer, CallChaincode(r, p)
  PROVE  TypeOK'
<1>. USE CallIsCallStep DEF TypeOK
<1>w. world[p] \in WorldState
  OBVIOUS
<1>1. ASSUME NEW error \in Failure, Fail(r, error)
      PROVE  TypeOK'
  BY <1>1 DEF Fail, Status
<1>2. ASSUME NEW kind \in {"read", "listed"}, NEW payload \in SUBSET Shown,
             Answer(r, kind, payload)
      PROVE  TypeOK'
  BY <1>2 DEF Answer, Status
<1>3. ASSUME NEW t, IsSimulation(t), NEW payload \in SUBSET Shown, Endorse(r, t, payload)
      PROVE  TypeOK'
  BY <1>3 DEF Endorse, Status, Endorsed
<1>4. \A type \in StixType, d \in Docs : CreateError(world[p], type, d) = "none"
        => IsSimulation(CreateSimulation(world[p], d))
  BY <1>w, CreateSound
<1>5. IsSimulation(GetAllSimulation(world[p]))
  BY <1>w, GetAllSound
<1>6. CallStep(r, p)
  OBVIOUS
<1>. QED
  BY <1>1, <1>2, <1>3, <1>4, <1>5, <1>6 DEF CallStep

LEMMA CommitType ==
  ASSUME TypeOK, NEW p \in Peer, CommitBlock(p)
  PROVE  TypeOK'
<1>. DEFINE n == Height(p) + 1
            code == Validate(tx[chain[n]], Duplicate(n), world[p])
<1>. USE DEF TypeOK
<1>1. n \in Nat \ {0} /\ n \in 1 .. Len(chain) /\ chain[n] \in Request
  BY DEF CommitBlock, Height
<1>2. code \in Code
  BY DEF Validate, Code
<1>3. flags' \in [Peer -> Seq(Code)]
  BY <1>2 DEF CommitBlock
<1>4. IsSimulation(tx[chain[n]])
  BY <1>1
<1>5. Apply(world[p], tx[chain[n]].writes, n) \in WorldState
  BY <1>1, <1>4, ApplyType DEF IsSimulation
<1>6. world' \in [Peer -> WorldState]
  BY <1>5 DEF CommitBlock
<1>. QED BY <1>3, <1>6 DEF CommitBlock

LEMMA TypeStep ==
  ASSUME TypeOK, [Next]_vars
  PROVE  TypeOK'
<1>1. ASSUME NEW r \in Request, NEW p \in Peer, CallChaincode(r, p)
      PROVE  TypeOK'
  BY <1>1, CallType
<1>2. ASSUME NEW r \in Request, NEW p \in Peer, CommitStatus(r, p)
      PROVE  TypeOK'
  BY <1>2 DEF CommitStatus, TypeOK, Status, Endorsed, Sent
<1>3. ASSUME NEW r \in Request, Broadcast(r)
      PROVE  TypeOK'
  BY <1>3 DEF Broadcast, TypeOK, Status, Endorsed, Sent
<1>4. ASSUME NEW r \in Request, Order(r)
      PROVE  TypeOK'
  BY <1>4 DEF Order, TypeOK
<1>5. ASSUME NEW r \in Request, Timeout(r)
      PROVE  TypeOK'
  BY <1>5 DEF Timeout, TypeOK, Status, Endorsed, Sent
<1>6. ASSUME NEW p \in Peer, CommitBlock(p)
      PROVE  TypeOK'
  BY <1>6, CommitType
<1>7. CASE UNCHANGED vars
  BY <1>7 DEF vars, TypeOK
<1>. QED BY <1>1, <1>2, <1>3, <1>4, <1>5, <1>6, <1>7 DEF Next

LEMMA InitType == Init => TypeOK
<1>. SUFFICES ASSUME Init PROVE TypeOK
  OBVIOUS
<1>1. IsSimulation(NoTx)
  BY DEF IsSimulation, NoTx, None
<1>2. [k \in Key |-> Free] \in WorldState
  BY DEF WorldState, Entry
<1>3. status \in [Request -> Status]
  BY DEF Init, Status
<1>4. <<>> \in Seq(Request) /\ <<>> \in Seq(Code)
  OBVIOUS
<1>. QED BY <1>1, <1>2, <1>3, <1>4 DEF Init, TypeOK

(* Every variable keeps its type: in particular a world state maps each key *)
(* either to Free or to a positive version of an object.                    *)
THEOREM TypeCorrect == Spec => []TypeOK
<1>1. Init => TypeOK
  BY InitType
<1>2. TypeOK /\ [Next]_vars => TypeOK'
  BY TypeStep
<1>. QED BY <1>1, <1>2, PTL DEF Spec

-----------------------------------------------------------------------------
(* Past states.                                                             *)

LEMMA AsOfNow ==
  ASSUME NEW ws \in WorldState, NEW n \in Nat, \A k \in Key : ws[k].ver <= n
  PROVE  AsOf(ws, n) = ws
BY DEF AsOf, WorldState

(* A state that only gained objects, all of them at version n, shows the    *)
(* same past below n.                                                       *)
LEMMA AsOfGrown ==
  ASSUME NEW ws \in WorldState, NEW wt \in WorldState, NEW n \in Nat, NEW m \in 0 .. n - 1,
         \A k \in Key : wt[k] = ws[k] \/ (ws[k] = Free /\ wt[k].ver = n)
  PROVE  AsOf(wt, m) = AsOf(ws, m)
<1>1. ASSUME NEW k \in Key
      PROVE  (IF wt[k].ver <= m THEN wt[k] ELSE Free) = (IF ws[k].ver <= m THEN ws[k] ELSE Free)
  BY <1>1 DEF Free
<1>. QED BY <1>1 DEF AsOf

(* A valid transaction changes only keys that its state held nothing under. *)
LEMMA ReplayGrows ==
  ASSUME NEW t, IsSimulation(t), NEW duplicate \in BOOLEAN, WritesOneFree(t),
         NEW ws \in WorldState, NEW n \in Nat \ {0}
  PROVE  /\ Replay(t, duplicate, n, ws) \in WorldState
         /\ \A k \in Key : \/ Replay(t, duplicate, n, ws)[k] = ws[k]
                           \/ ws[k] = Free /\ Replay(t, duplicate, n, ws)[k].ver = n
<1>2. CASE Validate(t, duplicate, ws) # "VALID"
  BY <1>2 DEF Replay
<1>3. CASE Validate(t, duplicate, ws) = "VALID"
  <2>1. Replay(t, duplicate, n, ws) = Apply(ws, t.writes, n)
    BY <1>3 DEF Replay
  <2>2. Replay(t, duplicate, n, ws) \in WorldState
    BY <2>1, ApplyType DEF IsSimulation
  <2>3. ASSUME NEW k \in Key, k \in DOMAIN t.writes
        PROVE  ws[k] = Free
    <3>1. k \in DOMAIN t.reads /\ t.reads[k] = 0
      BY <2>3 DEF WritesOneFree
    <3>2. Current(t.reads, ws)
      BY <1>3 DEF Validate
    <3>3. ws[k].ver = 0
      BY <3>1, <3>2 DEF Current, GetState
    <3>. QED BY <3>3 DEF WorldState, Entry
  <2>. QED BY <2>1, <2>2, <2>3 DEF Apply
<1>. QED BY <1>2, <1>3

(* What is ordered stays in place with its simulation result.               *)
LEMMA HistoryKept ==
  ASSUME TypeOK, OnlySentOrdered, [Next]_vars
  PROVE  \A i \in 1 .. Len(chain) :
           /\ i \in 1 .. Len(chain')
           /\ chain'[i] = chain[i]
           /\ tx'[chain[i]] = tx[chain[i]]
           /\ status'[chain[i]] \in Sent
<1>. DEFINE Kept == \A i \in 1 .. Len(chain) :
                      /\ i \in 1 .. Len(chain')
                      /\ chain'[i] = chain[i]
                      /\ tx'[chain[i]] = tx[chain[i]]
                      /\ status'[chain[i]] \in Sent
<1>o. \A i \in 1 .. Len(chain) : chain[i] \in Request /\ status[chain[i]] \in Sent
  BY DEF TypeOK, OnlySentOrdered
<1>1. ASSUME NEW r \in Request, NEW p \in Peer, CallChaincode(r, p)
      PROVE  Kept
  <2>1. status[r] = "new" /\ CallStep(r, p) /\ chain' = chain
    BY <1>1, CallIsCallStep
  <2>2. \A s \in Request \ {r} : tx'[s] = tx[s] /\ status'[s] = status[s]
    BY <2>1 DEF CallStep, Fail, Endorse, Answer, TypeOK
  <2>3. \A i \in 1 .. Len(chain) : chain[i] # r
    BY <1>o, <2>1 DEF Sent
  <2>. QED BY <1>o, <2>1, <2>2, <2>3
<1>s. ASSUME UNCHANGED <<chain, tx>>, \A s \in Request : status[s] \in Sent => status'[s] \in Sent
      PROVE  Kept
  BY <1>o, <1>s
<1>2. ASSUME NEW r \in Request, NEW p \in Peer, CommitStatus(r, p)
      PROVE  Kept
  BY <1>2, <1>s DEF CommitStatus, TypeOK, Sent
<1>3. ASSUME NEW r \in Request, Broadcast(r) \/ Timeout(r)
      PROVE  Kept
  BY <1>3, <1>s DEF Broadcast, Timeout, TypeOK, Sent
<1>4. ASSUME NEW r \in Request, Order(r)
      PROVE  Kept
  BY <1>o, <1>4 DEF Order, TypeOK
<1>5. ASSUME NEW p \in Peer, CommitBlock(p)
      PROVE  Kept
  BY <1>5, <1>s DEF CommitBlock
<1>6. CASE UNCHANGED vars
  BY <1>6, <1>s DEF vars
<1>. QED
  BY <1>1, <1>2, <1>3, <1>4, <1>5, <1>6 DEF Next

-----------------------------------------------------------------------------
(* The inductive invariant.                                                 *)

(* Committing a block extends the peer's past by one replayed block.        *)
LEMMA CommitExtends ==
  ASSUME IInv, NEW p \in Peer, CommitBlock(p),
         NEW n, n = Height(p) + 1,
         NEW t, t = tx[chain[n]], NEW dup, dup = Duplicate(n)
  PROVE  /\ n \in 1 .. Len(chain) /\ n \in Nat \ {0}
         /\ flags' = [flags EXCEPT ![p] = Append(@, Validate(t, dup, world[p]))]
         /\ Height(p)' = n
         /\ \A q \in Peer \ {p} : Height(q)' = Height(q) /\ world'[q] = world[q]
         /\ world'[p] = Replay(t, dup, n, world[p])
         /\ \A m \in 0 .. n - 1 : AsOf(world'[p], m) = AsOf(world[p], m)
         /\ AsOf(world'[p], n - 1) = world[p]
         /\ AsOf(world'[p], n) = world'[p]
         /\ \A k \in Key : world'[p][k].ver <= n
<1>. USE DEF IInv
<1>1. n \in 1 .. Len(chain) /\ n \in Nat \ {0}
  BY DEF CommitBlock, Height, TypeOK
<1>2. /\ world' = [world EXCEPT ![p] = Replay(t, dup, n, world[p])]
      /\ flags' = [flags EXCEPT ![p] = Append(@, Validate(t, dup, world[p]))]
  BY DEF CommitBlock, Replay, TypeOK
<1>3. /\ Height(p)' = n
      /\ \A q \in Peer \ {p} : Height(q)' = Height(q) /\ world'[q] = world[q]
      /\ world'[p] = Replay(t, dup, n, world[p])
  BY <1>2 DEF Height, TypeOK
<1>w. world[p] \in WorldState
  BY DEF TypeOK
<1>t. IsSimulation(t) /\ dup \in BOOLEAN /\ WritesOneFree(t)
  BY <1>1 DEF TypeOK, WritesReadFree, Duplicate
<1>4. /\ world'[p] \in WorldState
      /\ \A k \in Key : world'[p][k] = world[p][k] \/ (world[p][k] = Free /\ world'[p][k].ver = n)
  BY <1>w, <1>t, <1>1, <1>3, ReplayGrows
<1>5. \A k \in Key : world[p][k].ver \in Nat /\ world[p][k].ver <= n - 1
  <2>1. Height(p) \in Nat /\ Height(p) = n - 1
    BY DEF Height, TypeOK
  <2>2. ASSUME NEW k \in Key
        PROVE  world[p][k].ver \in Nat /\ world[p][k].ver <= Height(p)
    BY <1>w DEF VersionsBounded, WorldState, Entry, Free
  <2>. QED BY <2>1, <2>2
<1>6. \A k \in Key : world'[p][k].ver <= n
  BY <1>1, <1>4, <1>5
<1>7. \A m \in 0 .. n - 1 : AsOf(world'[p], m) = AsOf(world[p], m)
  BY <1>w, <1>1, <1>4, AsOfGrown
<1>8. AsOf(world[p], n - 1) = world[p]
  BY <1>w, <1>1, <1>5, AsOfNow
<1>9. AsOf(world'[p], n) = world'[p]
  BY <1>1, <1>4, <1>6, AsOfNow
<1>. QED BY <1>1, <1>2, <1>3, <1>6, <1>7, <1>8, <1>9

(* A committed block only adds, and at most one object.                     *)
LEMMA CommitGrows ==
  ASSUME IInv, NEW p \in Peer, CommitBlock(p)
  PROVE  /\ world'[p] \in WorldState
         /\ \A k \in Key : world'[p][k] = world[p][k] \/ world[p][k] = Free
         /\ \A k, l \in Key : world'[p][k] # world[p][k] /\ world'[p][l] # world[p][l] => k = l
<1>. SUFFICES ASSUME NEW n, n = Height(p) + 1,
                     NEW t, t = tx[chain[n]],
                     NEW dup, dup = Duplicate(n)
              PROVE  /\ world'[p] \in WorldState
                     /\ \A k \in Key : world'[p][k] = world[p][k] \/ world[p][k] = Free
                     /\ \A k, l \in Key :
                          world'[p][k] # world[p][k] /\ world'[p][l] # world[p][l] => k = l
  OBVIOUS
<1>1. n \in 1 .. Len(chain) /\ n \in Nat \ {0} /\ world'[p] = Replay(t, dup, n, world[p])
  BY CommitExtends
<1>2. /\ world[p] \in WorldState
      /\ IsSimulation(t) /\ dup \in BOOLEAN /\ WritesOneFree(t)
  BY <1>1 DEF IInv, TypeOK, WritesReadFree, Duplicate
<1>3. \A k, l \in Key :
        world'[p][k] # world[p][k] /\ world'[p][l] # world[p][l] => k = l
  BY <1>1, <1>2 DEF Replay, Apply, WritesOneFree
<1>. QED BY <1>1, <1>2, <1>3, ReplayGrows

(* A step that commits no block leaves every replayed past as it is.        *)
LEMMA OtherStepKeeps ==
  ASSUME IInv, [Next]_vars, UNCHANGED <<flags, world>>
  PROVE  /\ HeightBounded'
         /\ VersionsBounded'
         /\ Replayed'
         /\ Agreement'
<1>. USE DEF IInv
<1>1. \A i \in 1 .. Len(chain) : /\ i \in 1 .. Len(chain')
                                 /\ chain'[i] = chain[i]
                                 /\ tx'[chain[i]] = tx[chain[i]]
  BY HistoryKept
<1>2. \A p \in Peer : Height(p)' = Height(p) /\ Height(p) \in Nat /\ Height(p) <= Len(chain)
  BY DEF Height, TypeOK, HeightBounded
<1>3. HeightBounded'
  <2>1. Len(chain) \in Nat /\ Len(chain') \in Nat
    BY TypeStep DEF TypeOK
  <2>2. Len(chain) <= Len(chain')
    BY <1>1, <2>1
  <2>. QED BY <1>2, <2>1, <2>2 DEF HeightBounded
<1>4. VersionsBounded'
  BY <1>2 DEF VersionsBounded
<1>5. Agreement'
  BY <1>2 DEF Agreement, AsOf
<1>6. Replayed'
  <2>1. \A n \in 1 .. Len(chain) : Duplicate(n)' = Duplicate(n)
    BY <1>1 DEF Duplicate
  <2>. QED BY <1>1, <1>2, <2>1 DEF Replayed
<1>. QED BY <1>3, <1>4, <1>5, <1>6

(* Only a Create writes, and CreateSound says what it read.                 *)
LEMMA WritesReadFreeStep ==
  ASSUME TypeOK, WritesReadFree, [Next]_vars
  PROVE  WritesReadFree'
<1>1. ASSUME NEW r \in Request, NEW p \in Peer, CallChaincode(r, p)
      PROVE  WritesReadFree'
  <2>w. world[p] \in WorldState /\ DOMAIN tx = Request
    BY DEF TypeOK
  <2>0. CallStep(r, p)
    BY <1>1, CallIsCallStep
  <2>1. ASSUME UNCHANGED tx
        PROVE  WritesReadFree'
    BY <2>1 DEF WritesReadFree
  <2>2. ASSUME NEW t, NEW payload, Endorse(r, t, payload), WritesOneFree(t)
        PROVE  WritesReadFree'
    BY <2>w, <2>2 DEF WritesReadFree, Endorse
  <2>3. ASSUME NEW type \in StixType, NEW d \in Docs,
               CreateError(world[p], type, d) = "none"
        PROVE  WritesOneFree(CreateSimulation(world[p], d))
    <3>1. d.id \in Key /\ world[p][d.id] = Free
      BY <2>w, <2>3, CreateSound
    <3>. QED BY <3>1 DEF CreateSimulation, GetState, Free, WritesOneFree
  <2>4. WritesOneFree(GetAllSimulation(world[p]))
    BY DEF GetAllSimulation, None, WritesOneFree
  <2>. QED BY <2>0, <2>1, <2>2, <2>3, <2>4 DEF CallStep, Fail, Answer
<1>2. CASE UNCHANGED tx
  BY <1>2 DEF WritesReadFree
<1>. QED
  BY <1>1, <1>2 DEF Next, vars, CommitStatus, Broadcast, Order, Timeout, CommitBlock

LEMMA OnlySentOrderedStep ==
  ASSUME TypeOK, OnlySentOrdered, [Next]_vars
  PROVE  OnlySentOrdered'
<1>1. ASSUME NEW r \in Request, Order(r)
      PROVE  OnlySentOrdered'
  BY <1>1 DEF Order, OnlySentOrdered, TypeOK
<1>2. ASSUME chain' = chain
      PROVE  OnlySentOrdered'
  BY <1>2, HistoryKept DEF OnlySentOrdered
<1>3. (\E r \in Request : Order(r)) \/ chain' = chain
  BY CallIsCallStep DEF Next, vars, CommitStatus, Broadcast, Timeout, CommitBlock
<1>. QED BY <1>1, <1>2, <1>3

(* A peer that commits a block agrees with every other peer again: with one *)
(* that is ahead, because that one's past replays the same block on the     *)
(* same state; with one that is behind, because no key was overwritten.     *)
LEMMA CommitKeeps ==
  ASSUME IInv, NEW p \in Peer, CommitBlock(p)
  PROVE  /\ HeightBounded'
         /\ VersionsBounded'
         /\ Replayed'
         /\ Agreement'
<1>. SUFFICES ASSUME NEW n, n = Height(p) + 1,
                     NEW t, t = tx[chain[n]],
                     NEW dup, dup = Duplicate(n),
                     NEW wp, wp = Replay(t, dup, n, world[p])
              PROVE  HeightBounded' /\ VersionsBounded' /\ Replayed' /\ Agreement'
  OBVIOUS
<1>1. /\ n \in 1 .. Len(chain) /\ n \in Nat \ {0}
      /\ flags' = [flags EXCEPT ![p] = Append(@, Validate(t, dup, world[p]))]
      /\ Height(p)' = n
      /\ \A q \in Peer \ {p} : Height(q)' = Height(q) /\ world'[q] = world[q]
      /\ world'[p] = wp
      /\ \A m \in 0 .. n - 1 : AsOf(wp, m) = AsOf(world[p], m)
      /\ AsOf(wp, n - 1) = world[p]
      /\ AsOf(wp, n) = wp
      /\ \A k \in Key : wp[k].ver <= n
  BY CommitExtends
<1>2. UNCHANGED <<chain, tx>> /\ \A i \in 1 .. Len(chain) : Duplicate(i)' = Duplicate(i)
  BY DEF CommitBlock, Duplicate
<1>3. \A q \in Peer : /\ Height(q) \in Nat /\ Height(q) <= Len(chain)
                      /\ flags[q] \in Seq(Code)
                      /\ \A i \in 1 .. Height(q) : flags'[q][i] = flags[q][i]
  BY <1>1 DEF IInv, TypeOK, Height, HeightBounded
<1>4. flags'[p][n] = Validate(t, dup, world[p])
  BY <1>1, <1>3 DEF Height, IInv, TypeOK
<1>5. HeightBounded'
  BY <1>1, <1>2, <1>3 DEF HeightBounded
<1>6. VersionsBounded'
  BY <1>1 DEF VersionsBounded, IInv
<1>7. Replayed'
  <2>1. ASSUME NEW q \in Peer, NEW m \in 1 .. Height(q)
        PROVE  /\ flags[q][m] = Validate(tx[chain[m]], Duplicate(m), AsOf(world[q], m - 1))
               /\ AsOf(world[q], m) = Replay(tx[chain[m]], Duplicate(m), m, AsOf(world[q], m - 1))
    BY <2>1 DEF IInv, Replayed
  <2>2. ASSUME NEW q \in Peer, NEW m \in 1 .. Height(q)'
        PROVE  /\ flags'[q][m] = Validate(tx[chain[m]], Duplicate(m), AsOf(world'[q], m - 1))
               /\ AsOf(world'[q], m) = Replay(tx[chain[m]], Duplicate(m), m, AsOf(world'[q], m - 1))
    <3>1. CASE q # p
      BY <1>1, <1>3, <2>1, <2>2, <3>1
    <3>2. CASE q = p /\ m = n
      BY <1>1, <1>4, <3>2
    <3>3. CASE q = p /\ m # n
      <4>1. m \in 1 .. Height(p) /\ m \in 0 .. n - 1 /\ m - 1 \in 0 .. n - 1
        BY <1>1, <1>3, <2>2, <3>3
      <4>2. AsOf(wp, m) = AsOf(world[p], m) /\ AsOf(wp, m - 1) = AsOf(world[p], m - 1)
        BY <1>1, <4>1
      <4>3. flags'[p][m] = flags[p][m]
        BY <1>3, <4>1
      <4>4. world'[p] = wp
        BY <1>1
      <4>. QED BY <2>1, <3>3, <4>1, <4>2, <4>3, <4>4
    <3>. QED BY <3>1, <3>2, <3>3
  <2>3. \A q \in Peer : \A m \in 1 .. Height(q)' : m \in 1 .. Len(chain)
    BY <1>1, <1>3
  <2>. QED BY <1>2, <2>2, <2>3 DEF Replayed
<1>8. Agreement'
  (* Seen from a peer that already committed block n.                       *)
  <2>1. ASSUME NEW q \in Peer, q # p, n <= Height(q)
        PROVE  /\ wp = AsOf(world[q], n)
               /\ \A i \in 1 .. n : flags'[p][i] = flags[q][i]
    <3>1. Height(p) <= Height(q) /\ n \in 1 .. Height(q) /\ Height(p) = n - 1
      BY <1>1, <1>3, <2>1
    <3>2. /\ world[p] = AsOf(world[q], n - 1)
          /\ \A i \in 1 .. Height(p) : flags[p][i] = flags[q][i]
      BY <3>1 DEF IInv, Agreement
    <3>3. /\ flags[q][n] = Validate(t, dup, AsOf(world[q], n - 1))
          /\ AsOf(world[q], n) = Replay(t, dup, n, AsOf(world[q], n - 1))
      BY <3>1 DEF IInv, Replayed
    <3>4. wp = AsOf(world[q], n)
      BY <3>2, <3>3
    <3>5. ASSUME NEW i \in 1 .. n
          PROVE  flags'[p][i] = flags[q][i]
      <4>1. CASE i = n
        BY <1>4, <3>2, <3>3, <4>1
      <4>2. CASE i # n
        <5>1. i \in 1 .. Height(p)
          BY <1>1, <3>1, <4>2
        <5>. QED BY <1>3, <3>2, <5>1
      <4>. QED BY <4>1, <4>2
    <3>. QED BY <3>4, <3>5
  <2>2. ASSUME NEW q \in Peer, q # p, Height(q) <= n
        PROVE  /\ world[q] = AsOf(wp, Height(q))
               /\ \A i \in 1 .. Height(q) : flags[q][i] = flags'[p][i]
    <3>1. CASE Height(q) <= Height(p)
      <4>1. /\ world[q] = AsOf(world[p], Height(q))
            /\ \A i \in 1 .. Height(q) : flags[q][i] = flags[p][i]
        BY <3>1 DEF IInv, Agreement
      <4>2. Height(q) \in 0 .. n - 1 /\ \A i \in 1 .. Height(q) : i \in 1 .. Height(p)
        BY <1>3, <3>1
      <4>3. AsOf(wp, Height(q)) = AsOf(world[p], Height(q))
        BY <1>1, <4>2
      <4>4. \A i \in 1 .. Height(q) : flags'[p][i] = flags[p][i]
        BY <1>3, <4>2
      <4>. QED BY <4>1, <4>3, <4>4
    <3>2. CASE Height(q) = n
      <4>1. world[q] \in WorldState /\ \A k \in Key : world[q][k].ver <= n
        BY <3>2 DEF IInv, TypeOK, VersionsBounded
      <4>2. AsOf(world[q], n) = world[q]
        BY <1>1, <4>1, AsOfNow
      <4>. QED BY <1>1, <1>3, <2>1, <2>2, <3>2, <4>2
    <3>3. Height(q) <= Height(p) \/ Height(q) = n
      BY <1>1, <1>3, <2>2
    <3>. QED BY <3>1, <3>2, <3>3
  <2>3. ASSUME NEW q \in Peer, NEW s \in Peer, q # p, s # p, Height(q) <= Height(s)
        PROVE  /\ world[q] = AsOf(world[s], Height(q))
               /\ \A i \in 1 .. Height(q) : flags[q][i] = flags[s][i]
    BY <2>3 DEF IInv, Agreement
  <2>4. ASSUME NEW q \in Peer, NEW s \in Peer, Height(q)' <= Height(s)'
        PROVE  /\ world'[q] = AsOf(world'[s], Height(q)')
               /\ \A i \in 1 .. Height(q)' : flags'[q][i] = flags'[s][i]
    <3>1. CASE q = p /\ s = p
      BY <1>1, <3>1
    <3>2. CASE q = p /\ s # p
      <4>1. /\ n <= Height(s) /\ Height(p)' = n
            /\ world'[p] = wp /\ world'[s] = world[s]
        BY <1>1, <2>4, <3>2
      <4>2. \A i \in 1 .. n : i \in 1 .. Height(s)
        BY <1>1, <1>3, <4>1
      <4>. QED BY <1>3, <2>1, <3>2, <4>1, <4>2
    <3>3. CASE q # p /\ s = p
      <4>1. /\ Height(q) <= n /\ Height(q)' = Height(q)
            /\ world'[p] = wp /\ world'[q] = world[q]
        BY <1>1, <2>4, <3>3
      <4>. QED BY <1>3, <2>2, <3>3, <4>1
    <3>4. CASE q # p /\ s # p
      BY <1>1, <1>3, <2>3, <2>4, <3>4
    <3>. QED BY <3>1, <3>2, <3>3, <3>4
  <2>. QED BY <2>4 DEF Agreement
<1>. QED BY <1>5, <1>6, <1>7, <1>8

(* The peers agree on every common prefix of the chain.                     *)
THEOREM Invariant == Spec => []IInv
<1>1. Init => IInv
  <2>. SUFFICES ASSUME Init PROVE IInv
    OBVIOUS
  <2>1. TypeOK
    BY InitType
  <2>2. OnlySentOrdered /\ HeightBounded /\ Replayed
    BY DEF Init, OnlySentOrdered, HeightBounded, Replayed, Height
  <2>3. WritesReadFree
    BY DEF Init, WritesReadFree, WritesOneFree, NoTx, None
  <2>4. VersionsBounded
    BY DEF Init, VersionsBounded, Free, Height
  <2>5. Agreement
    BY DEF Init, Agreement, AsOf, Free, Height
  <2>. QED BY <2>1, <2>2, <2>3, <2>4, <2>5 DEF IInv
<1>2. IInv /\ [Next]_vars => IInv'
  <2>. SUFFICES ASSUME IInv, [Next]_vars PROVE IInv'
    OBVIOUS
  <2>1. TypeOK' /\ WritesReadFree' /\ OnlySentOrdered'
    BY TypeStep, WritesReadFreeStep, OnlySentOrderedStep DEF IInv
  <2>2. (\E p \in Peer : CommitBlock(p)) \/ UNCHANGED <<flags, world>>
    BY CallIsCallStep DEF IInv, Next, vars, CommitStatus, Broadcast, Order, Timeout
  <2>3. HeightBounded' /\ VersionsBounded' /\ Replayed' /\ Agreement'
    BY <2>2, CommitKeeps, OtherStepKeeps
  <2>. QED BY <2>1, <2>3 DEF IInv
<1>. QED BY <1>1, <1>2, PTL DEF Spec

(* Peers never disagree on a common prefix of the chain.                    *)
THEOREM PeersAgree == Spec => []Agreement
BY Invariant, PTL DEF IInv

(* No transaction ever replaces an object, whatever raced with it.          *)
THEOREM ObjectsImmutable == Spec => Immutable
<1>. DEFINE Kept == \A p \in Peer, k \in Key :
                      k \in Present(world[p]) => world'[p][k] = world[p][k]
<1>1. IInv /\ [Next]_vars => [Kept]_world
  <2>. SUFFICES ASSUME IInv, [Next]_vars PROVE Kept \/ UNCHANGED world
    OBVIOUS
  <2>1. ASSUME NEW p \in Peer, CommitBlock(p)
        PROVE  Kept
    <3>1. \A q \in Peer \ {p} : world'[q] = world[q]
      BY <2>1 DEF CommitBlock, IInv, TypeOK
    <3>2. \A k \in Key : world'[p][k] = world[p][k] \/ world[p][k] = Free
      BY <2>1, CommitGrows
    <3>. QED BY <3>1, <3>2 DEF Present, Free
  <2>2. (\E p \in Peer : CommitBlock(p)) \/ UNCHANGED world
    BY CallIsCallStep DEF IInv, Next, vars, CommitStatus, Broadcast, Order, Timeout
  <2>. QED BY <2>1, <2>2
<1>. QED BY <1>1, Invariant, PTL DEF Spec, Immutable

-----------------------------------------------------------------------------
(* CTILedger implements the write-once store CTIStore: the first peer that  *)
(* applies an object accepts it, every later one catches up.                *)

(* Peers that hold an object under one id hold the same.                    *)
SameUnder(w, k) ==
  \A p, q \in Peer : w[p][k].ver # 0 /\ w[q][k].ver # 0 => w[p][k] = w[q][k]

LEMMA EntryOfPresent ==
  ASSUME TypeOK, NEW p \in Peer, NEW k \in Key
  PROVE  /\ world[p][k] \in Entry
         /\ world[p][k].ver # 0 <=> world[p][k].val # Nil
         /\ world[p][k].ver # 0 => world[p][k].val \in Object
         /\ world[p][k].ver \in Nat
<1>1. world[p][k] \in Entry
  BY DEF TypeOK, WorldState
<1>. QED BY <1>1, NilAssumption DEF Entry, Free

(* The part of Agreement that compares the two peers' entries of one key.   *)
LEMMA BehindIsPrefix ==
  ASSUME IInv, NEW p \in Peer, NEW q \in Peer, NEW k \in Key,
         Height(p) <= Height(q), world[p][k].ver # 0
  PROVE  world[p][k] = world[q][k]
<1>1. world[p] = AsOf(world[q], Height(p))
  BY DEF IInv, Agreement
<1>2. world[p][k] = IF world[q][k].ver <= Height(p) THEN world[q][k] ELSE Free
  BY <1>1 DEF AsOf
<1>. QED BY <1>2 DEF Free

LEMMA PeersHoldTheSame ==
  ASSUME IInv
  PROVE  \A k \in Key : SameUnder(world, k)
<1>. SUFFICES ASSUME NEW k \in Key, NEW p \in Peer, NEW q \in Peer,
                     world[p][k].ver # 0, world[q][k].ver # 0
              PROVE  world[p][k] = world[q][k]
  BY DEF SameUnder
<1>1. Height(p) \in Nat /\ Height(q) \in Nat
  BY DEF IInv, TypeOK, Height
<1>2. Height(p) <= Height(q) \/ Height(q) <= Height(p)
  BY <1>1
<1>. QED BY <1>2, BehindIsPrefix

LEMMA AcceptedIs ==
  ASSUME NEW w, NEW k \in Key, SameUnder(w, k)
  PROVE  /\ \A p \in Peer : w[p][k].ver # 0 => AcceptedIn(w, k) = w[p][k].val
         /\ (\A p \in Peer : w[p][k].ver = 0) => AcceptedIn(w, k) = Nil
<1>1. ASSUME NEW p \in Peer, w[p][k].ver # 0
      PROVE  AcceptedIn(w, k) = w[p][k].val
  <2>. DEFINE c == CHOOSE q \in Peer : k \in Present(w[q])
  <2>1. \E q \in Peer : k \in Present(w[q])
    BY <1>1 DEF Present
  <2>2. c \in Peer /\ w[c][k].ver # 0
    BY <2>1 DEF Present
  <2>3. w[c][k] = w[p][k]
    BY <1>1, <2>2 DEF SameUnder
  <2>. QED BY <2>1, <2>3 DEF AcceptedIn
<1>2. (\A p \in Peer : w[p][k].ver = 0) => AcceptedIn(w, k) = Nil
  BY DEF AcceptedIn, Present
<1>. QED BY <1>1, <1>2

-----------------------------------------------------------------------------
(* One peer gains the object under one id: that object is the accepted one  *)
(* afterwards, it was the accepted one before unless there was none, and no *)
(* other id is touched.                                                     *)
LEMMA OneEntryGained ==
  ASSUME NEW w \in [Peer -> WorldState], NEW w2 \in [Peer -> WorldState],
         NEW p \in Peer, NEW k \in Key,
         \A l \in Key : SameUnder(w, l) /\ SameUnder(w2, l),
         \A q \in Peer \ {p} : w2[q] = w[q],
         \A l \in Key \ {k} : w2[p][l] = w[p][l],
         w[p][k] = Free, w2[p][k].ver # 0
  PROVE  /\ AcceptedIn(w2, k) = w2[p][k].val
         /\ AcceptedIn(w, k) \in {Nil, w2[p][k].val}
         /\ \A l \in Key \ {k} : AcceptedIn(w2, l) = AcceptedIn(w, l)
<1>1. AcceptedIn(w2, k) = w2[p][k].val
  BY AcceptedIs
<1>2. AcceptedIn(w, k) \in {Nil, w2[p][k].val}
  <2>1. CASE \A q \in Peer : w[q][k].ver = 0
    BY <2>1, AcceptedIs
  <2>2. CASE \E q \in Peer : w[q][k].ver # 0
    <3>1. PICK q \in Peer : w[q][k].ver # 0
      BY <2>2
    <3>2. q # p
      BY <3>1 DEF Free
    <3>3. w2[q][k] = w[q][k] /\ w2[q][k] = w2[p][k]
      BY <3>1, <3>2 DEF SameUnder
    <3>4. AcceptedIn(w, k) = w[q][k].val
      BY <3>1, AcceptedIs
    <3>. QED BY <3>3, <3>4
  <2>. QED BY <2>1, <2>2
<1>3. ASSUME NEW l \in Key \ {k}
      PROVE  AcceptedIn(w2, l) = AcceptedIn(w, l)
  <2>1. \A q \in Peer : w2[q][l] = w[q][l]
    OBVIOUS
  <2>2. CASE \A q \in Peer : w[q][l].ver = 0
    BY <2>1, <2>2, AcceptedIs
  <2>3. CASE \E q \in Peer : w[q][l].ver # 0
    <3>1. PICK q \in Peer : w[q][l].ver # 0
      BY <2>3
    <3>2. AcceptedIn(w, l) = w[q][l].val
      BY <3>1, AcceptedIs
    <3>3. AcceptedIn(w2, l) = w2[q][l].val
      BY <2>1, <3>1, AcceptedIs
    <3>. QED BY <2>1, <3>2, <3>3
  <2>. QED BY <2>2, <2>3
<1>. QED BY <1>1, <1>2, <1>3

(* A commit that changes an entry accepts an object or catches up with one. *)
LEMMA CommitIsStoreStep ==
  ASSUME IInv, IInv', NEW p \in Peer, CommitBlock(p)
  PROVE  Store!StoreNext \/ UNCHANGED Store!storeVars
<1>1. world \in [Peer -> WorldState] /\ world' \in [Peer -> WorldState]
  BY DEF IInv, TypeOK
<1>2. /\ \A q \in Peer \ {p} : world'[q] = world[q]
      /\ world'[p] \in WorldState
      /\ \A k \in Key : world'[p][k] = world[p][k] \/ world[p][k] = Free
      /\ \A k, l \in Key : world'[p][k] # world[p][k] /\ world'[p][l] # world[p][l] => k = l
  BY <1>1, CommitGrows DEF CommitBlock
<1>3. \A k \in Key : SameUnder(world, k)
  BY PeersHoldTheSame
<1>4. \A k \in Key : SameUnder(world', k)
  <2>1. (IInv => \A k \in Key : SameUnder(world, k))'
    BY PeersHoldTheSame, PTL
  <2>. QED BY <2>1
<1>5. CASE \A k \in Key : world'[p][k] = world[p][k]
  <2>1. world' = world
    BY <1>1, <1>2, <1>5 DEF WorldState
  <2>. QED BY <2>1 DEF Store!storeVars, Accepted
<1>6. CASE \E k \in Key : world'[p][k] # world[p][k]
  <2>1. PICK k \in Key : world'[p][k] # world[p][k]
    BY <1>6
  <2>2. world[p][k] = Free /\ world'[p][k] # Free
    BY <1>2, <2>1
  <2>a. world'[p][k].ver # 0 /\ world'[p][k].val \in Object
    <3>1. world'[p][k] \in Entry
      BY <1>2 DEF WorldState
    <3>. QED BY <2>2, <3>1 DEF Entry
  <2>3. PICK o \in Object : world'[p][k].val = o
    BY <2>a
  <2>4. \A l \in Key \ {k} : world'[p][l] = world[p][l]
    BY <1>2, <2>1
  <2>5. /\ AcceptedIn(world', k) = o
        /\ AcceptedIn(world, k) \in {Nil, o}
        /\ \A l \in Key \ {k} : AcceptedIn(world', l) = AcceptedIn(world, l)
    BY <1>1, <1>2, <1>3, <1>4, <2>2, <2>a, <2>3, <2>4, OneEntryGained
  <2>6. [q \in Peer |-> [l \in Key |-> world'[q][l].val]]
          = [[q \in Peer |-> [l \in Key |-> world[q][l].val]] EXCEPT ![p][k] = o]
    <3>1. /\ world'[p][k].val = o
          /\ \A l \in Key \ {k} : world'[p][l].val = world[p][l].val
          /\ \A q \in Peer \ {p} : world'[q] = world[q]
      BY <1>2, <2>3, <2>4
    <3>. QED BY <3>1
  <2>7. world[p][k].val = Nil
    BY <2>2 DEF Free
  <2>8. CASE AcceptedIn(world, k) = Nil
    <3>1. [l \in Key |-> AcceptedIn(world', l)]
            = [[l \in Key |-> AcceptedIn(world, l)] EXCEPT ![k] = o]
      BY <2>5
    <3>2. Store!Accept(p, k)
      BY <2>3, <2>6, <2>8, <3>1 DEF Store!Accept, Accepted
    <3>. QED BY <2>3, <3>2 DEF Store!StoreNext
  <2>9. CASE AcceptedIn(world, k) = o
    <3>1. [l \in Key |-> AcceptedIn(world', l)] = [l \in Key |-> AcceptedIn(world, l)]
      BY <2>5, <2>9
    <3>2. o # Nil
      BY <2>3, NilAssumption
    <3>3. Store!CatchUp(p, k)
      BY <2>6, <2>7, <2>9, <3>1, <3>2 DEF Store!CatchUp, Accepted
    <3>. QED BY <3>3 DEF Store!StoreNext
  <2>. QED BY <2>5, <2>8, <2>9
<1>. QED BY <1>5, <1>6

-----------------------------------------------------------------------------
(* The channel's ledger is a write-once store of STIX objects: the creates, *)
(* races, retries and lagging peers of CTILedger show a client nothing that *)
(* the store of CTIStore could not have shown it.                           *)
THEOREM LedgerImplementsStore == Spec => ImplementsStore
<1>1. Init => Store!StoreInit
  <2>. SUFFICES ASSUME Init PROVE Store!StoreInit
    OBVIOUS
  <2>1. \A p \in Peer, k \in Key : world[p][k] = Free
    BY DEF Init
  <2>2. \A k \in Key : AcceptedIn(world, k) = Nil
    BY <2>1 DEF AcceptedIn, Present, Free
  <2>. QED BY <2>1, <2>2 DEF Store!StoreInit, Accepted, Free
<1>2. IInv /\ IInv' /\ [Next]_vars => [Store!StoreNext]_(Store!storeVars)
  <2>. SUFFICES ASSUME IInv, IInv', [Next]_vars
                PROVE  Store!StoreNext \/ UNCHANGED Store!storeVars
    OBVIOUS
  <2>1. (\E p \in Peer : CommitBlock(p)) \/ UNCHANGED world
    BY CallIsCallStep DEF IInv, Next, vars, CommitStatus, Broadcast, Order, Timeout
  <2>2. UNCHANGED world => UNCHANGED Store!storeVars
    BY DEF Store!storeVars, Accepted
  <2>. QED BY <2>1, <2>2, CommitIsStoreStep
<1>. QED BY <1>1, <1>2, Invariant, PTL DEF Spec, ImplementsStore, Store!StoreSpec

-----------------------------------------------------------------------------
(* What clients are told is true: the objects and lists they are shown, and *)
(* whether their transactions are reported as committed or invalid.         *)
(*                                                                          *)
(* Told ties every answer to the state of some peer at some height, and     *)
(* every endorsed result to the function that made it; Reported ties every  *)
(* commit status to the block that decided it.  Both are about the past,    *)
(* which IInv shows nothing ever changes.                                   *)

(* A state that a peer was in.                                              *)
Past(p, n) == AsOf(world[p], n)

(* The result and the payload of a GetAllObjects made on such a state.      *)
ListedOn(r, p, n) == answer[r] = GetAllObjects(Past(p, n))

(* The result of a Create.                                                  *)
Created(r) ==
  \E k \in Key, o \in Object :
    /\ o.id = k /\ answer[r] = {}
    /\ tx[r] = [reads |-> [j \in {k} |-> 0], range |-> None, writes |-> [j \in {k} |-> o]]

ListedOnce(r) ==
  \E p \in Peer : \E n \in 0 .. Height(p) :
    ListedOn(r, p, n) /\ tx[r] = GetAllSimulation(Past(p, n))

ShownOnce(r) ==
  \E p \in Peer, k \in Key, type \in StixType :
    world[p][k].ver # 0 /\ answer[r] = {ReadResult(world[p], type, k)}

ToldOf(r) ==
  /\ status[r] \in Endorsed => Created(r) \/ ListedOnce(r)
  /\ status[r] = "listed" => \E p \in Peer : \E n \in 0 .. Height(p) : ListedOn(r, p, n)
  /\ status[r] = "read" => ShownOnce(r)
  /\ status[r] \in {"new"} \cup Failure => answer[r] = {}

Told == \A r \in Request : ToldOf(r)

(* An object is stored under its own id.                                    *)
IdsMatch == \A p \in Peer, k \in Key : world[p][k].ver # 0 => world[p][k].val.id = k

(* A commit status was read off the first block that holds the transaction. *)
DecidedAt(r, p, i) ==
  /\ i \in 1 .. Height(p) /\ chain[i] = r /\ ~Duplicate(i)
  /\ status[r] = IF flags[p][i] = "VALID" THEN "committed" ELSE "invalid"

Reported ==
  \A r \in Request : status[r] \in {"committed", "invalid"} =>
    \E p \in Peer : \E i \in Nat : DecidedAt(r, p, i)

AnswersInv == IInv /\ Told /\ IdsMatch /\ Reported

-----------------------------------------------------------------------------
(* The past stays.                                                          *)

LEMMA PastTypes ==
  ASSUME IInv, NEW p \in Peer
  PROVE  /\ Height(p) \in Nat /\ Height(p) <= Len(chain) /\ Len(chain) \in Nat
         /\ world[p] \in WorldState
         /\ Past(p, Height(p)) = world[p]
         /\ \A n \in Nat : Past(p, n) \in WorldState
<1>1. Height(p) \in Nat /\ Height(p) <= Len(chain) /\ Len(chain) \in Nat /\ world[p] \in WorldState
  BY DEF IInv, TypeOK, Height, HeightBounded
<1>2. \A k \in Key : world[p][k].ver <= Height(p)
  BY DEF IInv, VersionsBounded
<1>3. AsOf(world[p], Height(p)) = world[p]
  BY <1>1, <1>2, AsOfNow
<1>4. \A n \in Nat : AsOf(world[p], n) \in WorldState
  BY <1>1 DEF AsOf, WorldState, Entry
<1>. QED BY <1>1, <1>3, <1>4 DEF Past

(* What a step leaves of the past: every peer keeps it.                     *)
LEMMA PastStays ==
  ASSUME IInv, [Next]_vars, NEW p \in Peer
  PROVE  /\ \A n \in 0 .. Height(p) : n \in 0 .. Height(p)' /\ Past(p, n)' = Past(p, n)
         /\ \A k \in Key : world[p][k].ver # 0 => world'[p][k] = world[p][k]
         /\ \A i \in 1 .. Height(p) : i \in 1 .. Height(p)' /\ flags'[p][i] = flags[p][i]
<1>1. Height(p) \in Nat
  BY PastTypes
<1>2. CASE UNCHANGED <<flags, world>>
  BY <1>1, <1>2 DEF Past, AsOf, Height
<1>3. ASSUME NEW q \in Peer, CommitBlock(q), q # p
      PROVE  world'[p] = world[p] /\ flags'[p] = flags[p]
  BY <1>3 DEF CommitBlock, IInv, TypeOK
<1>4. CASE CommitBlock(p)
  <2>1. /\ Height(p)' = Height(p) + 1
        /\ \A m \in 0 .. Height(p) : AsOf(world'[p], m) = AsOf(world[p], m)
    <3>. SUFFICES ASSUME NEW n, n = Height(p) + 1,
                         NEW t, t = tx[chain[n]],
                         NEW dup, dup = Duplicate(n)
                  PROVE  /\ Height(p)' = n
                         /\ \A m \in 0 .. n - 1 : AsOf(world'[p], m) = AsOf(world[p], m)
      BY <1>1
    <3>. QED BY <1>4, CommitExtends
  <2>2. \A k \in Key : world[p][k].ver # 0 => world'[p][k] = world[p][k]
    BY <1>4, CommitGrows DEF Free
  <2>3. \A i \in 1 .. Height(p) : flags'[p][i] = flags[p][i]
    <3>1. \E code : flags' = [flags EXCEPT ![p] = Append(@, code)]
      BY <1>4, CommitExtends
    <3>. QED BY <3>1 DEF IInv, TypeOK, Height
  <2>. QED BY <1>1, <2>1, <2>2, <2>3 DEF Past
<1>5. (\E q \in Peer : CommitBlock(q)) \/ UNCHANGED <<flags, world>>
  BY CallIsCallStep DEF IInv, Next, vars, CommitStatus, Broadcast, Order, Timeout
<1>. QED BY <1>1, <1>2, <1>3, <1>4, <1>5 DEF Past, AsOf, Height

(* A request whose result and payload stay is still told the truth.         *)
LEMMA ToldStays ==
  ASSUME IInv, [Next]_vars, NEW r \in Request, ToldOf(r),
         tx'[r] = tx[r], answer'[r] = answer[r],
         \/ status'[r] = status[r]
         \/ status[r] \in Endorsed /\ status'[r] \in Endorsed
  PROVE  ToldOf(r)'
<1>1. Created(r) => Created(r)'
  BY DEF Created
<1>2. ASSUME NEW p \in Peer, NEW n \in 0 .. Height(p), ListedOn(r, p, n)
      PROVE  n \in 0 .. Height(p)' /\ ListedOn(r, p, n)' /\ Past(p, n)' = Past(p, n)
  BY <1>2, PastStays DEF ListedOn
<1>3. ListedOnce(r) => ListedOnce(r)'
  BY <1>2 DEF ListedOnce
<1>4. ShownOnce(r) => ShownOnce(r)'
  BY PastStays DEF ShownOnce, ReadResult, GetState
<1>. QED BY <1>1, <1>2, <1>3, <1>4 DEF ToldOf, Endorsed, Sent, Failure

-----------------------------------------------------------------------------
(* Answers.                                                                 *)

(* What a call answers is true of the peer that it was made on.             *)
LEMMA CallTold ==
  ASSUME IInv, [Next]_vars, Told, NEW r \in Request, NEW p \in Peer, CallChaincode(r, p)
  PROVE  Told'
<1>1. status[r] = "new" /\ answer[r] = {} /\ UNCHANGED <<chain, flags, world>>
  BY CallIsCallStep DEF IInv, Told, ToldOf
<1>2. /\ world[p] \in WorldState /\ Past(p, Height(p)) = world[p]
      /\ Height(p) \in 0 .. Height(p)
  BY PastTypes
<1>3. Height(p)' = Height(p) /\ Past(p, Height(p))' = world[p]
  BY <1>1, <1>2 DEF Height, Past, AsOf
<1>t. status \in [Request -> Status] /\ DOMAIN tx = Request /\ answer \in [Request -> SUBSET Shown]
  BY DEF IInv, TypeOK
<1>4. ASSUME NEW error \in Failure, Fail(r, error)
      PROVE  ToldOf(r)' /\ \A s \in Request \ {r} : status'[s] = status[s]
                                                   /\ UNCHANGED <<tx, answer>>
  BY <1>1, <1>4, <1>t DEF Fail, ToldOf, Failure, Endorsed, Sent
<1>5. ASSUME NEW type \in StixType, NEW d \in Docs, Create(type, r, p, d)
      PROVE  ToldOf(r)' /\ \A s \in Request \ {r} : /\ status'[s] = status[s] /\ tx'[s] = tx[s]
                                                    /\ answer'[s] = answer[s]
  <2>1. CASE CreateError(world[p], type, d) # "none"
    BY <1>4, <1>5, <2>1 DEF Create, CreateError, Failure
  <2>2. CASE CreateError(world[p], type, d) = "none"
    <3>1. /\ status' = [status EXCEPT ![r] = "endorsed"]
          /\ tx' = [tx EXCEPT ![r] = CreateSimulation(world[p], d)]
          /\ answer' = [answer EXCEPT ![r] = {}]
      BY <1>5, <2>2 DEF Create, Endorse
    <3>2. d.id \in Key /\ world[p][d.id] = Free /\ Marshalled(d) \in Object
      BY <1>2, <2>2, CreateSound
    <3>3. /\ Marshalled(d).id = d.id
          /\ CreateSimulation(world[p], d) =
               [reads |-> [j \in {d.id} |-> 0], range |-> None,
                writes |-> [j \in {d.id} |-> Marshalled(d)]]
      BY <3>2 DEF Marshalled, CreateSimulation, GetState, Free
    <3>4. tx'[r] = CreateSimulation(world[p], d) /\ answer'[r] = {} /\ status'[r] = "endorsed"
      BY <1>t, <3>1
    <3>5. Created(r)'
      BY <3>2, <3>3, <3>4 DEF Created
    <3>. QED BY <1>t, <3>1, <3>4, <3>5 DEF ToldOf, Failure
  <2>. QED BY <2>1, <2>2
<1>6. ASSUME NEW type \in StixType, NEW k \in Key, Read(type, r, p, k)
      PROVE  ToldOf(r)' /\ \A s \in Request \ {r} : /\ status'[s] = status[s] /\ tx'[s] = tx[s]
                                                    /\ answer'[s] = answer[s]
  <2>1. CASE ~ReadFinds(world[p], k)
    BY <1>4, <1>6, <2>1 DEF Read, Failure
  <2>2. CASE ReadFinds(world[p], k)
    <3>1. /\ status' = [status EXCEPT ![r] = "read"] /\ UNCHANGED tx
          /\ answer' = [answer EXCEPT ![r] = {ReadResult(world[p], type, k)}]
      BY <1>6, <2>2 DEF Read, Answer
    <3>2. world[p][k].ver # 0
      BY <1>2, <2>2 DEF ReadFinds, GetState, WorldState, Entry, Free
    <3>3. answer'[r] = {ReadResult(world[p], type, k)} /\ status'[r] = "read"
      BY <1>t, <3>1
    <3>4. ShownOnce(r)'
      BY <1>1, <3>2, <3>3 DEF ShownOnce, ReadResult, GetState
    <3>. QED BY <1>t, <3>1, <3>3, <3>4 DEF ToldOf, Endorsed, Sent, Failure
  <2>. QED BY <2>1, <2>2
<1>7. ASSUME EvaluateGetAll(r, p)
      PROVE  ToldOf(r)' /\ \A s \in Request \ {r} : /\ status'[s] = status[s] /\ tx'[s] = tx[s]
                                                    /\ answer'[s] = answer[s]
  <2>1. /\ status' = [status EXCEPT ![r] = "listed"] /\ UNCHANGED tx
        /\ answer' = [answer EXCEPT ![r] = GetAllObjects(world[p])]
    BY <1>7 DEF EvaluateGetAll, Answer
  <2>2. status'[r] = "listed" /\ ListedOn(r, p, Height(p))'
    BY <1>t, <1>3, <2>1 DEF ListedOn
  <2>3. ToldOf(r)'
    BY <1>2, <1>3, <2>2 DEF ToldOf, Endorsed, Sent, Failure
  <2>. QED BY <1>t, <2>1, <2>3
<1>8. ASSUME SubmitGetAll(r, p)
      PROVE  ToldOf(r)' /\ \A s \in Request \ {r} : /\ status'[s] = status[s] /\ tx'[s] = tx[s]
                                                    /\ answer'[s] = answer[s]
  <2>1. /\ status' = [status EXCEPT ![r] = "endorsed"]
        /\ tx' = [tx EXCEPT ![r] = GetAllSimulation(world[p])]
        /\ answer' = [answer EXCEPT ![r] = GetAllObjects(world[p])]
    BY <1>8 DEF SubmitGetAll, Endorse
  <2>2. /\ status'[r] = "endorsed" /\ ListedOn(r, p, Height(p))'
        /\ tx'[r] = GetAllSimulation(Past(p, Height(p))')
    BY <1>t, <1>3, <2>1 DEF ListedOn
  <2>3. ListedOnce(r)'
    BY <1>2, <1>3, <2>2 DEF ListedOnce
  <2>4. ToldOf(r)'
    BY <2>2, <2>3 DEF ToldOf, Failure
  <2>. QED BY <1>t, <2>1, <2>4
<1>9. ToldOf(r)' /\ \A s \in Request \ {r} : /\ status'[s] = status[s] /\ tx'[s] = tx[s]
                                             /\ answer'[s] = answer[s]
  BY <1>5, <1>6, <1>7, <1>8, AskedAssumption
  DEF CallChaincode, CreateIndicator, CreateRelationship, CreateSighting, CreateBundle,
      ReadIndicator, ReadRelationship, ReadSighting, ReadBundle, StixType
<1>. QED BY <1>9, ToldStays DEF Told

LEMMA NextTold ==
  ASSUME IInv, Told, [Next]_vars
  PROVE  Told'
<1>1. ASSUME UNCHANGED <<tx, answer>>,
             \A r \in Request : \/ status'[r] = status[r]
                                \/ status[r] \in Endorsed /\ status'[r] \in Endorsed
      PROVE  Told'
  BY <1>1, ToldStays DEF Told
<1>2. ASSUME NEW r \in Request, NEW p \in Peer, CommitStatus(r, p) PROVE Told'
  BY <1>1, <1>2 DEF CommitStatus, Endorsed, Sent, IInv, TypeOK
<1>3. ASSUME NEW r \in Request, Broadcast(r) \/ Order(r) \/ Timeout(r) PROVE Told'
  BY <1>1, <1>3 DEF Broadcast, Order, Timeout, Endorsed, Sent, IInv, TypeOK
<1>4. ASSUME NEW p \in Peer, CommitBlock(p) PROVE Told'
  BY <1>1, <1>4 DEF CommitBlock
<1>5. CASE UNCHANGED vars
  BY <1>1, <1>5 DEF vars
<1>. QED BY <1>2, <1>3, <1>4, <1>5, CallTold DEF Next

(* What is written under an id has that id.                                 *)
LEMMA NextIdsMatch ==
  ASSUME IInv, Told, IdsMatch, [Next]_vars
  PROVE  IdsMatch'
<1>1. CASE UNCHANGED world
  BY <1>1 DEF IdsMatch
<1>2. ASSUME NEW p \in Peer, CommitBlock(p) PROVE IdsMatch'
  <2>. SUFFICES ASSUME NEW n, n = Height(p) + 1,
                       NEW t, t = tx[chain[n]],
                       NEW dup, dup = Duplicate(n),
                       NEW k \in Key, world'[p][k].ver # 0, world'[p][k] # world[p][k]
                PROVE  world'[p][k].val.id = k
    <3>1. \A q \in Peer \ {p} : world'[q] = world[q]
      BY <1>2 DEF CommitBlock, IInv, TypeOK
    <3>. QED BY <3>1 DEF IdsMatch
  <2>1. world'[p] = Replay(t, dup, n, world[p]) /\ n \in 1 .. Len(chain)
    BY <1>2, CommitExtends
  <2>2. k \in DOMAIN t.writes /\ world'[p][k].val = t.writes[k]
    BY <2>1 DEF Replay, Apply, IInv, TypeOK, WorldState
  <2>3. chain[n] \in Request /\ status[chain[n]] \in Endorsed
    BY <2>1 DEF IInv, TypeOK, OnlySentOrdered, Endorsed
  <2>4. Created(chain[n])
    <3>1. ASSUME ListedOnce(chain[n]) PROVE FALSE
      BY <2>2, <3>1 DEF ListedOnce, GetAllSimulation, None
    <3>. QED BY <2>3, <3>1 DEF Told, ToldOf
  <2>. QED BY <2>2, <2>4 DEF Created
<1>3. (\E p \in Peer : CommitBlock(p)) \/ UNCHANGED world
  BY CallIsCallStep DEF IInv, Next, vars, CommitStatus, Broadcast, Order, Timeout
<1>. QED BY <1>1, <1>2, <1>3

-----------------------------------------------------------------------------
(* Commit status.                                                           *)

LEMMA NextReported ==
  ASSUME IInv, Reported, [Next]_vars
  PROVE  Reported'
<1>1. ASSUME NEW p \in Peer, NEW i \in 1 .. Height(p)
      PROVE  /\ i \in 1 .. Height(p)' /\ flags'[p][i] = flags[p][i]
             /\ chain'[i] = chain[i] /\ Duplicate(i)' = Duplicate(i)
  <2>1. i \in 1 .. Len(chain) /\ \A j \in 1 .. i - 1 : j \in 1 .. Len(chain)
    BY PastTypes
  <2>2. \A j \in 1 .. Len(chain) : chain'[j] = chain[j]
    BY HistoryKept DEF IInv
  <2>. QED BY <2>1, <2>2, PastStays DEF Duplicate
<1>2. ASSUME NEW r \in Request, NEW p \in Peer, NEW i \in Nat, DecidedAt(r, p, i),
             status'[r] = status[r]
      PROVE  DecidedAt(r, p, i)'
  BY <1>1, <1>2 DEF DecidedAt
<1>3. ASSUME NEW r \in Request, status'[r] \in {"committed", "invalid"}, status'[r] # status[r]
      PROVE  \E p \in Peer : \E i \in Nat : DecidedAt(r, p, i)'
  <2>1. ASSUME NEW s \in Request, NEW p \in Peer, CommitStatus(s, p)
        PROVE  \E q \in Peer : \E i \in Nat : DecidedAt(r, q, i)'
    <3>1. PICK i \in 1 .. Height(p) :
            /\ chain[i] = s /\ ~Duplicate(i)
            /\ status' = [status EXCEPT ![s] =
                            IF flags[p][i] = "VALID" THEN "committed" ELSE "invalid"]
      BY <2>1 DEF CommitStatus
    <3>2. s = r /\ status'[r] = IF flags[p][i] = "VALID" THEN "committed" ELSE "invalid"
      BY <1>3, <3>1 DEF IInv, TypeOK
    <3>3. i \in Nat
      BY PastTypes
    <3>4. DecidedAt(r, p, i)'
      BY <1>1, <3>1, <3>2 DEF DecidedAt
    <3>. QED BY <3>3, <3>4
  <2>2. ASSUME NEW s \in Request, NEW p \in Peer, CallChaincode(s, p) PROVE FALSE
    BY <1>3, <2>2, CallIsCallStep
       DEF CallStep, Fail, Answer, Endorse, Failure, IInv, TypeOK
  <2>3. ASSUME NEW s \in Request, Broadcast(s) \/ Order(s) \/ Timeout(s) PROVE FALSE
    BY <1>3, <2>3 DEF Broadcast, Order, Timeout, IInv, TypeOK
  <2>. QED BY <1>3, <2>1, <2>2, <2>3 DEF Next, vars, CommitBlock
<1>. QED BY <1>2, <1>3 DEF Reported

(* Every answer and every commit status is about the past of some peer, for *)
(* any peers, requests, ids and documents and any chain.                    *)
THEOREM AnswersInvariant == Spec => []AnswersInv
<1>1. Init => Told /\ IdsMatch /\ Reported
  <2>. SUFFICES ASSUME Init PROVE Told /\ IdsMatch /\ Reported
    OBVIOUS
  <2>1. Told
    BY DEF Init, Told, ToldOf, Endorsed, Sent
  <2>2. IdsMatch
    BY DEF Init, IdsMatch, Free
  <2>3. Reported
    BY DEF Init, Reported
  <2>. QED BY <2>1, <2>2, <2>3
<1>2. IInv /\ Told /\ IdsMatch /\ Reported /\ [Next]_vars => (Told /\ IdsMatch /\ Reported)'
  BY NextTold, NextIdsMatch, NextReported
<1>. QED BY <1>1, <1>2, Invariant, PTL DEF Spec, AnswersInv

-----------------------------------------------------------------------------
(* What clients are shown.                                                  *)

(* Past states of peers are ordered by their heights.                       *)
LEMMA PastNested ==
  ASSUME IInv, NEW p \in Peer, NEW q \in Peer, NEW n \in 0 .. Height(p),
         NEW m \in 0 .. Height(q), n <= m
  PROVE  GetAllObjects(Past(p, n)) \subseteq GetAllObjects(Past(q, m))
<1>1. ASSUME NEW k \in Key, Past(p, n)[k].ver # 0
      PROVE  Past(q, m)[k] = Past(p, n)[k]
  <2>1. world[p][k].ver <= n /\ Past(p, n)[k] = world[p][k] /\ world[p][k].ver # 0
    BY <1>1 DEF Past, AsOf, Free
  <2>2. Height(p) \in Nat /\ Height(q) \in Nat /\ world[p][k].ver \in Nat
    BY PastTypes, EntryOfPresent DEF IInv
  <2>3. world[q][k] = world[p][k]
    <3>1. CASE Height(p) <= Height(q)
      BY <2>1, <3>1, BehindIsPrefix
    <3>2. CASE Height(q) <= Height(p)
      <4>1. world[q] = AsOf(world[p], Height(q))
        BY <3>2 DEF IInv, Agreement
      <4>2. world[p][k].ver <= Height(q)
        BY <2>1, <2>2
      <4>. QED BY <4>1, <4>2 DEF AsOf
    <3>. QED BY <2>2, <3>1, <3>2
  <2>. QED BY <2>1, <2>2, <2>3 DEF Past, AsOf
<1>. QED BY <1>1 DEF GetAllObjects, Present

(* A list is what GetAllObjects answered, submitted or evaluated.           *)
LEMMA ListIsPast ==
  ASSUME AnswersInv, NEW r \in Lists
  PROVE  \E p \in Peer : \E n \in 0 .. Height(p) :
           ListedOn(r, p, n) /\ (status[r] \in Endorsed => tx[r] = GetAllSimulation(Past(p, n)))
<1>1. r \in Request /\ ToldOf(r)
  BY DEF Lists, AnswersInv, Told
<1>2. CASE status[r] = "listed"
  BY <1>1, <1>2 DEF ToldOf, Endorsed, Sent
<1>3. CASE status[r] \in Endorsed /\ DOMAIN tx[r].writes = {}
  <2>1. ASSUME Created(r) PROVE FALSE
    <3>1. PICK k \in Key, o \in Object :
            tx[r] = [reads |-> [j \in {k} |-> 0], range |-> None, writes |-> [j \in {k} |-> o]]
      BY <2>1 DEF Created
    <3>2. DOMAIN tx[r].writes = {k}
      BY <3>1
    <3>. QED BY <1>3, <3>2
  <2>. QED BY <1>1, <1>3, <2>1 DEF ToldOf, ListedOnce
<1>. QED BY <1>2, <1>3 DEF Lists

(* Any two lists of all objects are ordered by inclusion, whichever peers   *)
(* made them and whenever (GetAllObjects of cti_stix_chaincode.go).         *)
THEOREM ListsAreNested == Spec => []SnapshotsNested
<1>1. AnswersInv => SnapshotsNested
  <2>. SUFFICES ASSUME AnswersInv, NEW r \in Lists, NEW s \in Lists
                PROVE  answer[r] \subseteq answer[s] \/ answer[s] \subseteq answer[r]
    BY DEF SnapshotsNested
  <2>1. PICK p \in Peer : \E n \in 0 .. Height(p) : ListedOn(r, p, n)
    BY ListIsPast
  <2>2. PICK n \in 0 .. Height(p) : ListedOn(r, p, n)
    BY <2>1
  <2>3. PICK q \in Peer : \E m \in 0 .. Height(q) : ListedOn(s, q, m)
    BY ListIsPast
  <2>4. PICK m \in 0 .. Height(q) : ListedOn(s, q, m)
    BY <2>3
  <2>5. n <= m \/ m <= n
    BY PastTypes DEF AnswersInv
  <2>. QED BY <2>2, <2>4, <2>5, PastNested DEF AnswersInv, ListedOn
<1>. QED BY <1>1, AnswersInvariant, PTL

(* A list that was submitted and found valid is what the ledger held right  *)
(* before its own block, on whatever peer it was computed.                  *)
THEOREM ValidListsAreExact == Spec => []SubmittedListExact
<1>1. AnswersInv => SubmittedListExact
  <2>. SUFFICES ASSUME AnswersInv, NEW p \in Peer, NEW i \in 1 .. Height(p),
                       flags[p][i] = "VALID", chain[i] \in Lists
                PROVE  answer[chain[i]] = GetAllObjects(AsOf(world[p], i - 1))
    BY DEF SubmittedListExact
  <2>. DEFINE r == chain[i]
  <2>1. i \in 1 .. Len(chain) /\ i - 1 \in Nat
    BY PastTypes DEF AnswersInv
  <2>2. status[r] \in Endorsed
    BY <2>1 DEF AnswersInv, IInv, OnlySentOrdered, Endorsed
  <2>3. PICK q \in Peer : \E n \in 0 .. Height(q) :
          ListedOn(r, q, n) /\ tx[r] = GetAllSimulation(Past(q, n))
    BY <2>2, ListIsPast
  <2>4. PICK n \in 0 .. Height(q) :
          ListedOn(r, q, n) /\ tx[r] = GetAllSimulation(Past(q, n))
    BY <2>3
  <2>5. Past(q, n) \in WorldState /\ Past(p, i - 1) \in WorldState
    BY <2>1, PastTypes DEF AnswersInv
  <2>6. Current(tx[r].range, Past(p, i - 1))
    <3>1. "VALID" = Validate(tx[r], Duplicate(i), Past(p, i - 1))
      BY DEF AnswersInv, IInv, Replayed, Past
    <3>. QED BY <3>1 DEF Validate
  <2>7. \A k \in Key : Past(q, n)[k].ver = Past(p, i - 1)[k].ver
    <3>1. tx[r].range = [k \in Key |-> Past(q, n)[k].ver]
      BY <2>4 DEF GetAllSimulation
    <3>2. \A k \in DOMAIN tx[r].range : tx[r].range[k] = GetState(Past(p, i - 1), k).ver
      BY <2>6 DEF Current
    <3>. QED BY <3>1, <3>2 DEF GetState
  <2>8. ASSUME NEW k \in Key PROVE Past(q, n)[k] = Past(p, i - 1)[k]
    <3>1. CASE Past(q, n)[k].ver = 0
      BY <2>5, <2>7, <3>1 DEF WorldState, Entry
    <3>2. CASE Past(q, n)[k].ver # 0
      <4>1. /\ Past(q, n)[k] = world[q][k] /\ world[q][k].ver # 0
            /\ Past(p, i - 1)[k] = world[p][k] /\ world[p][k].ver # 0
        BY <2>7, <3>2 DEF Past, AsOf, Free
      <4>. QED BY <4>1, PeersHoldTheSame DEF SameUnder, AnswersInv
    <3>. QED BY <3>1, <3>2
  <2>9. Past(q, n) = Past(p, i - 1)
    BY <2>5, <2>8 DEF WorldState
  <2>. QED BY <2>4, <2>9 DEF ListedOn, Past
<1>. QED BY <1>1, AnswersInvariant, PTL

(* An object that a client was shown, by a list or by a Read function, is   *)
(* the one every peer holds under its id, now and later.                    *)
THEOREM ShownStaysTrue == Spec => []AnswersStayTrue
<1>1. AnswersInv => AnswersStayTrue
  <2>. SUFFICES ASSUME AnswersInv, NEW r \in Request, NEW o \in answer[r], NEW p \in Peer,
                       o.id \in Present(world[p])
                PROVE  /\ [world[p][o.id].val EXCEPT !.body = o.body] = o
                       /\ o.body \in {world[p][o.id].val.body, Blank}
    BY DEF AnswersStayTrue
  <2>1. o.id \in Key /\ world[p][o.id].ver # 0
    BY DEF Present
  <2>2. ASSUME NEW q \in Peer, NEW k \in Key, world[q][k].ver # 0, o.id = world[q][k].val.id
        PROVE  world[p][o.id].val = world[q][k].val /\ world[q][k].val \in Object
    <3>1. o.id = k
      BY <2>2 DEF AnswersInv, IdsMatch
    <3>2. world[p][k] = world[q][k]
      BY <2>1, <2>2, <3>1, PeersHoldTheSame DEF SameUnder, AnswersInv
    <3>. QED BY <2>2, <3>1, <3>2, EntryOfPresent DEF AnswersInv, IInv
  <2>3. ASSUME NEW q \in Peer, NEW n \in 0 .. Height(q), ListedOn(r, q, n)
        PROVE  \E k \in Key : world[q][k].ver # 0 /\ o = world[q][k].val
    <3>1. PICK k \in Key : Past(q, n)[k].ver # 0 /\ o = Past(q, n)[k].val
      BY <2>3 DEF ListedOn, GetAllObjects, Present
    <3>. QED BY <3>1 DEF Past, AsOf, Free
  <2>4. CASE \E q \in Peer, k \in Key : world[q][k].ver # 0 /\ o = world[q][k].val
    <3>1. world[p][o.id].val = o /\ o \in Object
      BY <2>2, <2>4
    <3>. QED BY <3>1 DEF Object
  <2>5. CASE ShownOnce(r)
    <3>1. PICK q \in Peer, k \in Key, type \in StixType :
            world[q][k].ver # 0 /\ answer[r] = {ReadResult(world[q], type, k)}
      BY <2>5 DEF ShownOnce
    <3>. DEFINE stored == world[q][k].val
    <3>2. stored \in Object
      BY <3>1, EntryOfPresent DEF AnswersInv, IInv
    <3>3. o = [stored EXCEPT !.body = IF stored.type = type THEN @ ELSE Blank]
      BY <3>1 DEF ReadResult, GetState
    <3>4. /\ o.id = stored.id
          /\ o.body = IF stored.type = type THEN stored.body ELSE Blank
          /\ o = [stored EXCEPT !.body = o.body]
      BY <3>2, <3>3 DEF Object
    <3>5. world[p][o.id].val = stored
      BY <2>2, <3>1, <3>4
    <3>. QED BY <3>4, <3>5
  <2>6. ToldOf(r)
    BY DEF AnswersInv, Told
  <2>7. ASSUME Created(r) PROVE FALSE
    BY <2>7 DEF Created
  <2>8. status[r] \in Status
    BY DEF AnswersInv, IInv, TypeOK
  <2>. QED BY <2>3, <2>4, <2>5, <2>6, <2>7, <2>8 DEF ToldOf, ListedOnce, Status
<1>. QED BY <1>1, AnswersInvariant, PTL

-----------------------------------------------------------------------------
(* What clients are told of their transactions.                             *)

(* A transaction is decided in one block, the same way on every peer.       *)
LEMMA DecidedOnce ==
  ASSUME IInv, NEW p \in Peer, NEW q \in Peer, NEW i \in 1 .. Height(p),
         NEW j \in 1 .. Height(q), chain[i] = chain[j], ~Duplicate(i)
  PROVE  /\ i \in 1 .. Height(q) /\ flags[q][i] = flags[p][i]
         /\ ~Duplicate(j) => i = j
<1>1. Height(p) \in Nat /\ Height(q) \in Nat
  BY PastTypes
<1>2. i <= j
  <2>1. ~(j < i)
    <3>1. j < i => j \in 1 .. i - 1
      BY <1>1
    <3>. QED BY <3>1 DEF Duplicate
  <2>. QED BY <1>1, <2>1
<1>3. i \in 1 .. Height(q)
  BY <1>1, <1>2
<1>4. flags[q][i] = flags[p][i]
  BY <1>1, <1>3 DEF IInv, Agreement
<1>5. ~Duplicate(j) => i = j
  <2>1. i < j => i \in 1 .. j - 1
    BY <1>1
  <2>. QED BY <1>1, <1>2, <2>1 DEF Duplicate
<1>. QED BY <1>3, <1>4, <1>5

(* A valid block is no duplicate, and the peer still shows what it wrote.   *)
LEMMA ValidIsApplied ==
  ASSUME IInv, NEW p \in Peer, NEW i \in 1 .. Height(p), flags[p][i] = "VALID"
  PROVE  /\ ~Duplicate(i)
         /\ \A k \in DOMAIN tx[chain[i]].writes : world[p][k].val = tx[chain[i]].writes[k]
<1>. DEFINE t == tx[chain[i]]
<1>1. i \in 1 .. Len(chain) /\ i \in Nat \ {0}
  BY PastTypes
<1>2. /\ "VALID" = Validate(t, Duplicate(i), AsOf(world[p], i - 1))
      /\ AsOf(world[p], i) = Replay(t, Duplicate(i), i, AsOf(world[p], i - 1))
  BY DEF IInv, Replayed
<1>3. ~Duplicate(i)
  BY <1>2 DEF Validate
<1>4. AsOf(world[p], i) = Apply(AsOf(world[p], i - 1), t.writes, i)
  BY <1>2 DEF Replay
<1>5. DOMAIN t.writes \subseteq Key
  BY <1>1 DEF IInv, TypeOK, IsSimulation
<1>6. ASSUME NEW k \in DOMAIN t.writes PROVE world[p][k].val = t.writes[k]
  <2>1. AsOf(world[p], i)[k] = [ver |-> i, val |-> t.writes[k]]
    BY <1>4, <1>5, <1>6 DEF Apply
  <2>2. AsOf(world[p], i)[k].ver # 0
    BY <1>1, <2>1
  <2>3. AsOf(world[p], i)[k] = world[p][k]
    BY <1>5, <2>2 DEF AsOf, Free
  <2>. QED BY <2>1, <2>3
<1>. QED BY <1>3, <1>6

(* A create reported as committed is on every peer that reached its block,  *)
(* one reported as invalid on none, also when it was ordered twice.         *)
THEOREM ReportsAreTrue == Spec => []ReportIsTrue
<1>1. AnswersInv => ReportIsTrue
  <2>. SUFFICES ASSUME AnswersInv, NEW r \in Request, NEW p \in Peer
                PROVE  /\ status[r] = "invalid" => ~Written(p, r)
                       /\ status[r] = "committed" /\ (\E i \in 1 .. Height(p) : chain[i] = r)
                            => /\ Written(p, r)
                               /\ \A k \in DOMAIN tx[r].writes : world[p][k].val = tx[r].writes[k]
    BY DEF ReportIsTrue
  <2>1. ASSUME status[r] = "invalid", Written(p, r) PROVE FALSE
    <3>1. PICK i \in 1 .. Height(p) : chain[i] = r /\ flags[p][i] = "VALID"
      BY <2>1 DEF Written
    <3>2. PICK q \in Peer : \E j \in Nat : DecidedAt(r, q, j)
      BY <2>1 DEF AnswersInv, Reported
    <3>3. PICK j \in Nat : DecidedAt(r, q, j)
      BY <3>2
    <3>4. j \in 1 .. Height(q) /\ chain[j] = r /\ ~Duplicate(j) /\ flags[q][j] # "VALID"
      BY <2>1, <3>3 DEF DecidedAt
    <3>5. ~Duplicate(i)
      BY <3>1, ValidIsApplied DEF AnswersInv
    <3>. QED BY <3>1, <3>4, <3>5, DecidedOnce DEF AnswersInv
  <2>2. ASSUME status[r] = "committed", NEW i \in 1 .. Height(p), chain[i] = r
        PROVE  /\ Written(p, r)
               /\ \A k \in DOMAIN tx[r].writes : world[p][k].val = tx[r].writes[k]
    <3>2. PICK q \in Peer : \E j \in Nat : DecidedAt(r, q, j)
      BY <2>2 DEF AnswersInv, Reported
    <3>3. PICK j \in Nat : DecidedAt(r, q, j)
      BY <3>2
    <3>4. j \in 1 .. Height(q) /\ chain[j] = r /\ ~Duplicate(j) /\ flags[q][j] = "VALID"
      BY <2>2, <3>3 DEF DecidedAt
    <3>5. j \in 1 .. Height(p) /\ flags[p][j] = "VALID"
      BY <2>2, <3>4, DecidedOnce DEF AnswersInv
    <3>. QED BY <3>4, <3>5, ValidIsApplied DEF Written, AnswersInv
  <2>. QED BY <2>1, <2>2
<1>. QED BY <1>1, AnswersInvariant, PTL

(* A create that validation rejected lost to another create of the same id: *)
(* some peer holds an object under it (assetExists, then PutState).         *)
THEOREM RejectedIsTaken == Spec => []RejectedMeansTaken
<1>1. AnswersInv => RejectedMeansTaken
  <2>. SUFFICES ASSUME AnswersInv, NEW r \in Request, status[r] = "invalid"
                PROVE  \E p \in Peer : DOMAIN tx[r].writes \subseteq Present(world[p])
    BY DEF RejectedMeansTaken
  <2>1. PICK p \in Peer : \E i \in Nat : DecidedAt(r, p, i)
    BY DEF AnswersInv, Reported
  <2>2. PICK i \in Nat : DecidedAt(r, p, i)
    BY <2>1
  <2>3. i \in 1 .. Height(p) /\ chain[i] = r /\ ~Duplicate(i) /\ flags[p][i] # "VALID"
    BY <2>2 DEF DecidedAt
  <2>4. CASE ListedOnce(r)
    <3>1. tx[r].writes = None
      BY <2>4 DEF ListedOnce, GetAllSimulation
    <3>2. DOMAIN tx[r].writes = {}
      BY <3>1 DEF None
    <3>. QED BY <3>2
  <2>5. CASE Created(r)
    <3>1. PICK k \in Key, o \in Object :
            tx[r] = [reads |-> [j \in {k} |-> 0], range |-> None, writes |-> [j \in {k} |-> o]]
      BY <2>5 DEF Created
    <3>2. tx[r].reads = [j \in {k} |-> 0] /\ tx[r].range = None /\ DOMAIN tx[r].writes = {k}
      BY <3>1
    <3>. DEFINE W == Past(p, i - 1)
    <3>3. flags[p][i] = Validate(tx[r], Duplicate(i), W)
      BY <2>3 DEF AnswersInv, IInv, Replayed, Past
    <3>4. Current(tx[r].range, W)
      BY <3>2 DEF Current, None
    <3>5. ~Current(tx[r].reads, W)
      BY <2>3, <3>3, <3>4 DEF Validate
    <3>6. W[k].ver # 0
      BY <3>2, <3>5 DEF Current, GetState
    <3>7. world[p][k].ver # 0
      BY <3>6 DEF Past, AsOf, Free
    <3>. QED BY <3>2, <3>7 DEF Present
  <2>6. status[r] \in Endorsed
    BY DEF Endorsed, Sent
  <2>. QED BY <2>4, <2>5, <2>6 DEF AnswersInv, Told, ToldOf
<1>. QED BY <1>1, AnswersInvariant, PTL

=============================================================================
