----------------------------- MODULE CTILedger -----------------------------
(***************************************************************************)
(* The STIX chaincode running on a Fabric channel.                         *)
(*                                                                         *)
(* A client calls a chaincode function in a request.  A peer simulates the *)
(* function on its own world state, which may lag behind the others'; the  *)
(* client sends the endorsed result to the ordering service, which puts it *)
(* into the one chain of the channel (a client that re-sends an envelope   *)
(* gets it ordered twice); every peer validates the chain block by block   *)
(* and applies the results whose reads are still current.  Two requests    *)
(* for the same id therefore both pass the "already exists" check of the   *)
(* chaincode, and only validation decides between them.                    *)
(*                                                                         *)
(* A block holds one transaction: Fabric validates those of one block in   *)
(* order against the writes of the valid ones before, so larger blocks     *)
(* only hide intermediate states.                                          *)
(***************************************************************************)
EXTENDS CTIContract, Sequences

CONSTANTS
  Peer,     (* the peers that run the chaincode and hold the ledger        *)
  Request,  (* the calls clients make, retries included                    *)
  Docs,     (* the JSON documents clients pass to the Create functions     *)
  Asked,    (* bound: the ids clients pass to the Read functions           *)
  MaxChain  (* bound: transactions ordered in a run                        *)

ASSUME DocsAssumption  == Docs \subseteq Document
ASSUME AskedAssumption == Asked \subseteq Key
ASSUME ChainAssumption == MaxChain \in Nat

VARIABLES
  status, (* where each request stands                                     *)
  tx,     (* the simulation result endorsed for it                         *)
  answer, (* the objects in the payload it got                            *)
  chain,  (* the requests whose transaction was ordered, in order          *)
  flags,  (* per peer, the validation code of each block it committed      *)
  world   (* per peer, its world state                                     *)

vars == <<status, tx, answer, chain, flags, world>>

Failure  == {"parse", "type", "exists", "put", "missing"}
Sent     == {"sent", "timedout", "committed", "invalid"}
Endorsed == Sent \cup {"endorsed"}
Status   == Endorsed \cup {"new", "read", "listed"} \cup Failure
Code     == {"VALID", "MVCC_READ_CONFLICT", "PHANTOM_READ_CONFLICT", "DUPLICATE_TXID"}

NoTx == [reads |-> None, range |-> None, writes |-> None]

Init ==
  /\ status = [r \in Request |-> "new"]
  /\ tx     = [r \in Request |-> NoTx]
  /\ answer = [r \in Request |-> {}]
  /\ chain  = <<>>
  /\ flags  = [p \in Peer |-> <<>>]
  /\ world  = [p \in Peer |-> [k \in Key |-> Free]]

Height(p) == Len(flags[p])

-----------------------------------------------------------------------------
(* Calls: one peer simulates a chaincode function.                          *)

(* The function returned an error: there is nothing to order.               *)
Fail(r, error) ==
  /\ status' = [status EXCEPT ![r] = error]
  /\ UNCHANGED <<tx, answer>>

Endorse(r, simulation, payload) ==
  /\ status' = [status EXCEPT ![r] = "endorsed"]
  /\ tx'     = [tx EXCEPT ![r] = simulation]
  /\ answer' = [answer EXCEPT ![r] = payload]

(* An evaluated call: the client keeps the payload and orders nothing.      *)
Answer(r, kind, payload) ==
  /\ status' = [status EXCEPT ![r] = kind]
  /\ answer' = [answer EXCEPT ![r] = payload]
  /\ UNCHANGED tx

Create(type, r, p, d) ==
  LET error == CreateError(world[p], type, d)
  IN  /\ status[r] = "new"
      /\ \/ error # "none" /\ Fail(r, error)
         \/ error = "none" /\ Endorse(r, CreateSimulation(world[p], d), {})
      /\ UNCHANGED <<chain, flags, world>>

CreateIndicator(r, p, d)    == Create("indicator", r, p, d)
CreateRelationship(r, p, d) == Create("relationship", r, p, d)
CreateSighting(r, p, d)     == Create("sighting", r, p, d)
CreateBundle(r, p, d)       == Create("bundle", r, p, d)

Read(type, r, p, k) ==
  /\ status[r] = "new"
  /\ \/ ~ReadFinds(world[p], k) /\ Fail(r, "missing")
     \/ ReadFinds(world[p], k) /\ Answer(r, "read", {ReadResult(world[p], type, k)})
  /\ UNCHANGED <<chain, flags, world>>

ReadIndicator(r, p, k)    == Read("indicator", r, p, k)
ReadRelationship(r, p, k) == Read("relationship", r, p, k)
ReadSighting(r, p, k)     == Read("sighting", r, p, k)
ReadBundle(r, p, k)       == Read("bundle", r, p, k)

(* GetAllObjects, evaluated on one peer.                                    *)
EvaluateGetAll(r, p) ==
  /\ status[r] = "new"
  /\ Answer(r, "listed", GetAllObjects(world[p]))
  /\ UNCHANGED <<chain, flags, world>>

(* GetAllObjects, submitted: ordered and validated like a write.            *)
SubmitGetAll(r, p) ==
  /\ status[r] = "new"
  /\ Endorse(r, GetAllSimulation(world[p]), GetAllObjects(world[p]))
  /\ UNCHANGED <<chain, flags, world>>

-----------------------------------------------------------------------------
(* Ordering and commit.                                                     *)

(* The client sends the endorsed envelope; it may be lost or late.          *)
Broadcast(r) ==
  /\ status[r] = "endorsed"
  /\ status' = [status EXCEPT ![r] = "sent"]
  /\ UNCHANGED <<tx, answer, chain, flags, world>>

(* The ordering service takes an envelope that was sent, however late and   *)
(* however often the client sent it.                                        *)
Order(r) ==
  /\ status[r] \in Sent
  /\ Len(chain) < MaxChain
  /\ chain' = Append(chain, r)
  /\ UNCHANGED <<status, tx, answer, flags, world>>

(* Validation of a transaction against the state a peer reached before it.  *)
Duplicate(i)       == \E j \in 1 .. i - 1 : chain[j] = chain[i]
Current(reads, ws) == \A k \in DOMAIN reads : reads[k] = GetState(ws, k).ver

Validate(t, duplicate, ws) ==
  IF duplicate                     THEN "DUPLICATE_TXID"
  ELSE IF ~Current(t.reads, ws)    THEN "MVCC_READ_CONFLICT"
  ELSE IF ~Current(t.range, ws)    THEN "PHANTOM_READ_CONFLICT"
  ELSE "VALID"

Apply(ws, writes, n) ==
  [k \in Key |-> IF k \in DOMAIN writes
                   THEN [ver |-> n, val |-> writes[k]] ELSE ws[k]]

CommitBlock(p) ==
  LET n    == Height(p) + 1
      code == Validate(tx[chain[n]], Duplicate(n), world[p])
  IN  /\ n <= Len(chain)
      /\ flags' = [flags EXCEPT ![p] = Append(@, code)]
      /\ world' = [world EXCEPT ![p] =
                     IF code = "VALID" THEN Apply(@, tx[chain[n]].writes, n) ELSE @]
      /\ UNCHANGED <<status, tx, answer, chain>>

(* A peer tells the client how its transaction fared: the first block that  *)
(* holds it counts, a later copy is only a duplicate.                       *)
CommitStatus(r, p) ==
  /\ status[r] = "sent"
  /\ \E i \in 1 .. Height(p) :
       /\ chain[i] = r /\ ~Duplicate(i)
       /\ status' = [status EXCEPT ![r] =
                       IF flags[p][i] = "VALID" THEN "committed" ELSE "invalid"]
  /\ UNCHANGED <<tx, answer, chain, flags, world>>

(* The client stops waiting; its transaction may still commit.              *)
Timeout(r) ==
  /\ status[r] = "sent"
  /\ status' = [status EXCEPT ![r] = "timedout"]
  /\ UNCHANGED <<tx, answer, chain, flags, world>>

-----------------------------------------------------------------------------
CallChaincode(r, p) ==
  \/ \E d \in Docs : \/ CreateIndicator(r, p, d)
                     \/ CreateRelationship(r, p, d)
                     \/ CreateSighting(r, p, d)
                     \/ CreateBundle(r, p, d)
  \/ \E k \in Asked : \/ ReadIndicator(r, p, k)
                      \/ ReadRelationship(r, p, k)
                      \/ ReadSighting(r, p, k)
                      \/ ReadBundle(r, p, k)
  \/ EvaluateGetAll(r, p)
  \/ SubmitGetAll(r, p)

Next ==
  \/ \E r \in Request, p \in Peer : CallChaincode(r, p) \/ CommitStatus(r, p)
  \/ \E r \in Request : Broadcast(r) \/ Order(r) \/ Timeout(r)
  \/ \E p \in Peer : CommitBlock(p)

Spec == Init /\ [][Next]_vars

-----------------------------------------------------------------------------
(* Properties.                                                              *)

TypeOK ==
  /\ status \in [Request -> Status]
  /\ DOMAIN tx = Request /\ \A r \in Request : IsSimulation(tx[r])
  /\ answer \in [Request -> SUBSET Shown]
  /\ chain \in Seq(Request)
  /\ flags \in [Peer -> Seq(Code)]
  /\ world \in [Peer -> WorldState]

(* The state a peer had after its first n blocks: what it wrote since is    *)
(* left out.  It is the past state only because no key is written twice.    *)
AsOf(ws, n) == [k \in Key |-> IF ws[k].ver <= n THEN ws[k] ELSE Free]

(* No transaction replaces an object: between an assetExists that said "no" *)
(* on some peer and the commit of its PutState any number of other creates  *)
(* of the same id may commit, and every one but the first must be rejected. *)
Immutable ==
  [][\A p \in Peer, k \in Key :
       k \in Present(world[p]) => world'[p][k] = world[p][k]]_world

(* Peers that simulate and commit at their own pace never disagree: a peer  *)
(* that is behind shows what the one ahead showed at that height, and both  *)
(* gave every block the same validation code.                               *)
Agreement ==
  \A p, q \in Peer : Height(p) <= Height(q) =>
    /\ world[p] = AsOf(world[q], Height(p))
    /\ \A i \in 1 .. Height(p) : flags[p][i] = flags[q][i]

(* Two lists of all objects, whichever peers answered them and whenever,    *)
(* are ordered by inclusion: no client sees an object the other misses and  *)
(* misses one the other sees.                                               *)
Lists == {r \in Request :
            status[r] = "listed" \/ (status[r] \in Endorsed /\ DOMAIN tx[r].writes = {})}

SnapshotsNested ==
  \A r, s \in Lists : answer[r] \subseteq answer[s] \/ answer[s] \subseteq answer[r]

(* A list that was submitted and found valid is exact: it holds what the    *)
(* ledger held right before its own block, although it was computed on a    *)
(* peer that may have been several blocks behind.                           *)
SubmittedListExact ==
  \A p \in Peer : \A i \in 1 .. Height(p) :
    LET r == chain[i]
    IN  flags[p][i] = "VALID" /\ r \in Lists
          => answer[r] = GetAllObjects(AsOf(world[p], i - 1))

(* An object a client was shown stays true: no peer, ahead or behind, holds *)
(* another object under its id (a read through the function of another type *)
(* still shows the type and version that are stored).                       *)
AnswersStayTrue ==
  \A r \in Request : \A o \in answer[r] : \A p \in Peer :
    o.id \in Present(world[p]) =>
      /\ [world[p][o.id].val EXCEPT !.body = o.body] = o
      /\ o.body \in {world[p][o.id].val.body, Blank}

(* What a client is told is what every peer does: a create reported as      *)
(* committed is in the world state of every peer that reached its block,    *)
(* one reported as invalid is in none, also when the envelope was ordered   *)
(* twice.                                                                   *)
Written(p, r) ==
  \E i \in 1 .. Height(p) : chain[i] = r /\ flags[p][i] = "VALID"

ReportIsTrue ==
  \A r \in Request, p \in Peer :
    /\ status[r] = "invalid" => ~Written(p, r)
    /\ status[r] = "committed" /\ (\E i \in 1 .. Height(p) : chain[i] = r)
         => /\ Written(p, r)
            /\ \A k \in DOMAIN tx[r].writes : world[p][k].val = tx[r].writes[k]

(* A create that validation rejects lost to another create of the same id:  *)
(* calling again cannot succeed, so a client need not retry.  (Only the     *)
(* id's own version is read; creates of other ids never interfere.)         *)
RejectedMeansTaken ==
  \A r \in Request : status[r] = "invalid" =>
    \E p \in Peer : DOMAIN tx[r].writes \subseteq Present(world[p])

(* The ledger implements the write-once store: an object is accepted when   *)
(* the first peer applies it.                                               *)
AcceptedIn(w, k) ==
  IF \E p \in Peer : k \in Present(w[p])
    THEN w[CHOOSE p \in Peer : k \in Present(w[p])][k].val
    ELSE Nil

Accepted(k) == AcceptedIn(world, k)

Store == INSTANCE CTIStore WITH
           store <- [k \in Key |-> Accepted(k)],
           view  <- [p \in Peer |-> [k \in Key |-> world[p][k].val]]

ImplementsStore == Store!StoreSpec

-----------------------------------------------------------------------------
(* The inductive invariant behind Immutable and Agreement.                  *)

OnlySentOrdered == \A i \in 1 .. Len(chain) : status[chain[i]] \in Sent
HeightBounded   == \A p \in Peer : Height(p) <= Len(chain)

(* A simulation writes at most one key, and only one it read as free.       *)
WritesOneFree(t) ==
  \A k \in DOMAIN t.writes :
    /\ k \in DOMAIN t.reads /\ t.reads[k] = 0
    /\ DOMAIN t.writes = {k}

WritesReadFree == \A r \in Request : WritesOneFree(tx[r])

VersionsBounded == \A p \in Peer, k \in Key : world[p][k].ver <= Height(p)

(* The state that committing t as block n on state ws yields.               *)
Replay(t, duplicate, n, ws) ==
  IF Validate(t, duplicate, ws) = "VALID" THEN Apply(ws, t.writes, n) ELSE ws

(* Each peer's past can be replayed from what its present state still shows.*)
Replayed ==
  \A p \in Peer : \A n \in 1 .. Height(p) :
    /\ flags[p][n] = Validate(tx[chain[n]], Duplicate(n), AsOf(world[p], n - 1))
    /\ AsOf(world[p], n) = Replay(tx[chain[n]], Duplicate(n), n, AsOf(world[p], n - 1))

IInv ==
  /\ TypeOK
  /\ OnlySentOrdered
  /\ HeightBounded
  /\ WritesReadFree
  /\ VersionsBounded
  /\ Replayed
  /\ Agreement

=============================================================================
