---------------------------- MODULE CTIExchange ----------------------------
(***************************************************************************)
(* Exchange of encrypted CTI through IPFS, Vault and Fabric, as the Caliper *)
(* workloads do it.  A sender encrypts a file under a fresh key, adds it to *)
(* IPFS, writes the key to Vault and publishes the metadata on the ledger;  *)
(* a receiver goes the way back.  Caliper starts a call of                  *)
(* submitTransaction at the pace of its rate control without waiting for    *)
(* earlier calls: every call runs from one await to the next, and           *)
(* this.txIndex is shared by all of them.  A round has a workload object of *)
(* its own, whose txIndex starts at 0 again.                                *)
(*                                                                          *)
(* mixed is TRUE for workloads 5_1 and 5_2 (senders and receivers count in  *)
(* one txIndex, Vault names are caliper-key-<txIndex>), FALSE for 2_1 with  *)
(* 2_2 (names end in a random suffix).  IPFS, Vault and the metadata        *)
(* chaincode are external; so is whoever put the seed entry on the ledger   *)
(* whose UUID the receivers are configured with.                            *)
(***************************************************************************)
EXTENDS Naturals

CONSTANTS
  Sender, Receiver, (* calls of submitTransaction that create, that read    *)
  MaxTime,          (* bound: values of Date.now() in a run                 *)
  MaxIndex,         (* bound: calls in a round                              *)
  Old,              (* who encrypted the seed entry                         *)
  Nil

ASSUME CallAssumption == Old \notin Sender \cup Receiver /\ Sender \cap Receiver = {}
ASSUME NilAssumption == Nil \notin Sender \cup {Old}
ASSUME BoundAssumption == MaxTime \in Nat /\ MaxIndex \in Nat \ {0}

Calls == Sender \cup Receiver

(* A key is named by the call that generated it, and so is what was         *)
(* encrypted under it; IPFS names a blob by its content.  The file is the   *)
(* same for all senders, the seed entry holds another.                      *)
Key == Sender \cup {Old}
plain(key) == IF key = Old THEN "old" ELSE "sample"

VARIABLES
  mixed,    (* which of the two families of workloads is run                *)
  txIndex,  (* this.txIndex of the workload object of the current round     *)
  now,      (* Date.now()                                                   *)
  pc,       (* where each call waits                                        *)
  name,     (* vaultKeyName of a sender                                     *)
  uuid,     (* uuid of a sender                                             *)
  seen,     (* the metadata a receiver has parsed                           *)
  result,   (* what a receiver decrypted and verified                       *)
  ipfs,     (* the blobs IPFS holds                                         *)
  vault,    (* Vault: path -> key last written there                        *)
  ledger,   (* the published metadata, by UUID                              *)
  recent,   (* history: the UUIDs published in the current round            *)
  before    (* history: for a sender, recent as it was when it began        *)

stores == <<ipfs, vault, ledger, recent>>
vars == <<mixed, txIndex, now, pc, name, uuid, seen, result, stores, before>>

-----------------------------------------------------------------------------
(* vaultKeyName, made when the answer from IPFS has arrived.                *)
Names == (1 .. MaxIndex) \X (Sender \cup {Nil})

(* Mutants: no random suffix; no index.                                     *)
vaultKeyNameIndexed(s) == <<txIndex, Nil>>
vaultKeyNameSuffix(s)  == <<1, IF mixed THEN Nil ELSE s>>
vaultKeyName(s)        == <<txIndex, IF mixed THEN Nil ELSE s>>

(* Keys are written under kv-v2/data/<name>; the metadata holds the name.   *)
Path        == [mount: {"kv-v2/data", ""}, name: Names]
DataPath(n) == [mount |-> "kv-v2/data", name |-> n]
BarePath(n) == [mount |-> "", name |-> n]

(* What each metadata entry tells.                                          *)
Metadata(cid, path, of) == [CID |-> cid, VaultKey |-> path, SHA256Hash |-> plain(of)]

(* Time and index; the seed's UUID is none that a sender can make.          *)
Uuid == (0 .. MaxTime) \X (0 .. MaxIndex)
Seed == <<0, 0>>

(* The seed's key is under the name that a sender with index 1 would use;   *)
(* its entry may give that name or the whole path.                          *)
Init ==
  /\ mixed \in BOOLEAN
  /\ txIndex = 0 /\ now = 0
  /\ pc = [c \in Calls |-> "idle"]
  /\ name = [s \in Sender |-> Nil] /\ uuid = [s \in Sender |-> Nil]
  /\ seen = [r \in Receiver |-> Nil]
  /\ result = [r \in Receiver |-> Nil]
  /\ ipfs = {Old}
  /\ vault = [p \in Path |-> IF p = DataPath(<<1, Nil>>) THEN Old ELSE Nil]
  /\ \E path \in {BarePath(<<1, Nil>>), DataPath(<<1, Nil>>)} :
       ledger = [u \in {Seed} |-> Metadata(Old, path, Old)]
  /\ recent = {} /\ before = [s \in Sender |-> {}]

Goto(c, where) == pc' = [pc EXCEPT ![c] = where]

-----------------------------------------------------------------------------
(* Sending.                                                                 *)

(* Steps 1 and 2 and the request to IPFS.                                   *)
StartSend(s) ==
  /\ pc[s] = "idle" /\ txIndex < MaxIndex
  /\ txIndex' = txIndex + 1
  /\ before' = [before EXCEPT ![s] = recent]
  /\ Goto(s, "ipfs")
  /\ UNCHANGED <<mixed, now, name, uuid, seen, result, stores>>

(* Step 3: the blob is stored; the name is made and the key sent to Vault.  *)
Added(s) ==
  /\ pc[s] = "ipfs"
  /\ ipfs' = ipfs \cup {s}
  /\ name' = [name EXCEPT ![s] = vaultKeyName(s)]
  /\ Goto(s, "vault")
  /\ UNCHANGED <<mixed, txIndex, now, uuid, seen, result, vault, ledger, recent, before>>

(* Step 4: the key is stored; uuid is made of time and index, and the       *)
(* metadata sent to Fabric.                                                 *)
Stored(s) == [vault EXCEPT ![DataPath(name[s])] = s]

KeyWritten(s) ==
  /\ pc[s] = "vault"
  /\ vault' = Stored(s)
  /\ uuid' = [uuid EXCEPT ![s] = <<now, txIndex>>]
  /\ Goto(s, "fabric")
  /\ UNCHANGED <<mixed, txIndex, now, name, seen, result, ipfs, ledger, recent, before>>

(* Step 5: the chaincode writes the entry; it refuses a UUID it has.        *)
Publish(s) ==
  /\ uuid[s] \notin DOMAIN ledger
  /\ ledger' = [u \in DOMAIN ledger \cup {uuid[s]} |->
       IF u = uuid[s] THEN Metadata(s, BarePath(name[s]), s) ELSE ledger[u]]
  /\ recent' = recent \cup {uuid[s]}

Published(s) ==
  /\ pc[s] = "fabric" /\ Publish(s)
  /\ Goto(s, "done")
  /\ UNCHANGED <<mixed, txIndex, now, name, uuid, seen, result, ipfs, vault, before>>

(* A request fails or is refused, or its answer is lost after it was        *)
(* served: the call logs or throws and ends; nothing is taken back.         *)
(* Mutant: an error from Vault is logged and the call goes on.              *)
SendFailsUnchecked(s) ==
  /\ \/ pc[s] = "ipfs" /\ Goto(s, "failed") /\ ipfs' \in {ipfs, ipfs \cup {s}}
                       /\ UNCHANGED uuid
     \/ pc[s] = "vault" /\ Goto(s, "fabric") /\ UNCHANGED ipfs
                        /\ uuid' = [uuid EXCEPT ![s] = <<now, txIndex>>]
  /\ UNCHANGED <<mixed, txIndex, now, name, seen, result, vault, ledger, recent, before>>

SendFails(s) ==
  /\ Goto(s, "failed")
  /\ \/ pc[s] = "ipfs" /\ ipfs' \in {ipfs, ipfs \cup {s}}
                       /\ UNCHANGED <<vault, ledger, recent>>
     \/ pc[s] = "vault" /\ vault' \in {vault, Stored(s)}
                        /\ UNCHANGED <<ipfs, ledger, recent>>
     \/ pc[s] = "fabric" /\ (Publish(s) \/ UNCHANGED <<ledger, recent>>)
                         /\ UNCHANGED <<ipfs, vault>>
  /\ UNCHANGED <<mixed, txIndex, now, name, uuid, seen, result, before>>

-----------------------------------------------------------------------------
(* Receiving.                                                               *)

(* The query for the configured UUID; a mixed workload counts this call too. *)
StartReceive(r) ==
  /\ pc[r] = "idle" /\ txIndex < MaxIndex
  /\ txIndex' = IF mixed THEN txIndex + 1 ELSE txIndex
  /\ Goto(r, "query")
  /\ UNCHANGED <<mixed, now, name, uuid, seen, result, stores, before>>

(* The receivers' UUID is that of any entry published before they start.    *)
GotMetadata(r, u) ==
  /\ pc[r] = "query" /\ u \in DOMAIN ledger
  /\ seen' = [seen EXCEPT ![r] = ledger[u]]
  /\ Goto(r, "fetch")
  /\ UNCHANGED <<mixed, txIndex, now, name, uuid, result, stores, before>>

GotBlob(r) ==
  /\ pc[r] = "fetch" /\ seen[r].CID \in ipfs
  /\ Goto(r, "key")
  /\ UNCHANGED <<mixed, txIndex, now, name, uuid, seen, result, stores, before>>

(* Decryption under the key that Vault returned: the tag tells a wrong key, *)
(* the hash a wrong text.                                                   *)
(* Mutant: neither is checked.                                              *)
RecoveredUnchecked(md, key) == IF key = md.CID THEN plain(key) ELSE "garbage"

Recovered(md, key) ==
  IF key = md.CID /\ plain(key) = md.SHA256Hash THEN plain(key) ELSE Nil

(* The key is asked for at the metadata's VaultKey, as it stands.           *)
GotKey(r) ==
  LET key  == vault[seen[r].VaultKey]
      text == Recovered(seen[r], key)
  IN  /\ pc[r] = "key" /\ key # Nil
      /\ result' = [result EXCEPT ![r] = text]
      /\ Goto(r, IF text = Nil THEN "failed" ELSE "done")
      /\ UNCHANGED <<mixed, txIndex, now, name, uuid, seen, stores, before>>

(* A request fails or finds nothing.                                        *)
ReceiveFails(r) ==
  /\ pc[r] \in {"query", "fetch", "key"}
  /\ Goto(r, "failed")
  /\ UNCHANGED <<mixed, txIndex, now, name, uuid, seen, result, stores, before>>

-----------------------------------------------------------------------------
(* The next round starts when all calls of the last one have ended.         *)
NewRound ==
  /\ \A c \in Calls : pc[c] \in {"idle", "done", "failed"}
  /\ txIndex # 0
  /\ txIndex' = 0 /\ recent' = {}
  /\ UNCHANGED <<mixed, now, pc, name, uuid, seen, result, ipfs, vault, ledger, before>>

Tick ==
  /\ now < MaxTime
  /\ now' = now + 1
  /\ UNCHANGED <<mixed, txIndex, pc, name, uuid, seen, result, stores, before>>

Next ==
  \/ \E s \in Sender : \/ StartSend(s) \/ Added(s) \/ KeyWritten(s) \/ Published(s)
                       \/ SendFails(s)
  \/ \E r \in Receiver : \/ StartReceive(r) \/ GotBlob(r) \/ GotKey(r) \/ ReceiveFails(r)
                         \/ \E u \in Uuid : GotMetadata(r, u)
  \/ NewRound
  \/ Tick

Spec == Init /\ [][Next]_vars

-----------------------------------------------------------------------------
(* Properties.                                                              *)

Entries == {ledger[u] : u \in DOMAIN ledger}

TypeOK ==
  /\ mixed \in BOOLEAN
  /\ txIndex \in 0 .. MaxIndex /\ now \in 0 .. MaxTime
  /\ pc \in [Calls -> {"idle", "ipfs", "vault", "fabric", "query", "fetch", "key",
                       "done", "failed"}]
  /\ name \in [Sender -> Names \cup {Nil}]
  /\ uuid \in [Sender -> Uuid \cup {Nil}]
  /\ seen \in [Receiver -> Entries \cup {Nil}]
  /\ result \in [Receiver -> {"old", "sample", Nil}]
  /\ ipfs \subseteq Key
  /\ vault \in [Path -> Key \cup {Nil}]
  /\ DOMAIN ledger \subseteq Uuid
  /\ recent \subseteq DOMAIN ledger
  /\ before \in [Sender -> SUBSET DOMAIN ledger]

(* Whatever step of whatever sender fails, metadata is published only of    *)
(* content that IPFS holds and with a name under which Vault holds a key:   *)
(* failures leave orphans in IPFS and Vault, never on the ledger.           *)
PublishedIsComplete ==
  \A md \in Entries : md.CID \in ipfs /\ vault[DataPath(md.VaultKey.name)] # Nil

(* In workload 2_1 the key under an entry's name stays the one its content  *)
(* was encrypted with, while other senders run: nobody writes that name     *)
(* again.                                                                   *)
KeysKept ==
  ~mixed => \A md \in Entries : vault[DataPath(md.VaultKey.name)] = md.CID

(* An entry loses its key only in the mixed workloads, and there only to a  *)
(* call that overlapped with the one that published it, or to a call of     *)
(* another round: the shared txIndex, read after the answer of IPFS and set *)
(* back with every round, keeps calls apart that follow each other.         *)
ReplacedByOverlap ==
  \A u \in DOMAIN ledger :
    LET key == vault[DataPath(ledger[u].VaultKey.name)]
    IN  \/ key = ledger[u].CID
        \/ mixed /\ key \in Sender /\ u \notin before[key]

(* "Fetch AES key from Vault": a receiver of what a sender published gets   *)
(* a key.                                                                   *)
KeyIsFound ==
  \A r \in Receiver :
    pc[r] = "key" /\ seen[r].CID # Old => vault[seen[r].VaultKey] # Nil

=============================================================================
