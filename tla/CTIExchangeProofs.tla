------------------------ MODULE CTIExchangeProofs ---------------------------
(***************************************************************************)
(* What the exchange of encrypted CTI keeps for every number of senders and *)
(* receivers, whatever fails and in whatever order their calls advance.     *)
(*                                                                          *)
(* Every invariant that the run exchange checks follows from IInv.  It adds *)
(* to them what a sender has secured before its next request (Prepared),    *)
(* that without mixed workloads a name in Vault tells whose it is           *)
(* (OwnNames, OwnEntries), so that no other sender ever writes there, and   *)
(* that the indices in the names of one round grow from a call to those     *)
(* that begin after it has published (Ordered, Written).                    *)
(***************************************************************************)
EXTENDS CTIExchange, TLAPS

(* A call of a sender that waits has counted itself in the current round.   *)
Counted == \A s \in Sender : pc[s] \in {"ipfs", "vault", "fabric"} => txIndex > 0

(* What a sender has secured when it asks Vault, and when it asks Fabric.   *)
Prepared ==
  \A s \in Sender :
    /\ pc[s] \in {"vault", "fabric"} => s \in ipfs /\ name[s] \in Names
    /\ pc[s] = "fabric" => vault[DataPath(name[s])] \in Sender /\ uuid[s] \in Uuid

Entry == [CID: Key, VaultKey: Path, SHA256Hash: {"old", "sample"}]

(* Every published entry is complete: the form of PublishedIsComplete that  *)
(* a step preserves.                                                        *)
LedgerOK ==
  \A u \in DOMAIN ledger :
    /\ ledger[u] \in Entry
    /\ ledger[u].CID \in ipfs
    /\ vault[DataPath(ledger[u].VaultKey.name)] # Nil

(* The random suffix of a name: nobody's for the seed entry.                *)
Suffix(cid) == IF cid = Old THEN Nil ELSE cid

OwnNames ==
  ~mixed => \A s \in Sender :
    /\ pc[s] \in {"vault", "fabric"} => name[s][2] = s
    /\ pc[s] = "fabric" => vault[DataPath(name[s])] = s

OwnEntries ==
  ~mixed => \A u \in DOMAIN ledger :
    /\ ledger[u].VaultKey.name[2] = Suffix(ledger[u].CID)
    /\ vault[DataPath(ledger[u].VaultKey.name)] = ledger[u].CID

(* Only a call that has made its name has a key in Vault.                   *)
Written == \A p \in Path, s \in Sender : vault[p] = s => pc[s] \notin {"idle", "ipfs"}

(* The index in the name of an entry's key.                                 *)
Index(u) == ledger[u].VaultKey.name[1]

(* What is published in a round has indices that the round has reached, and *)
(* a name that is about to be written to has a greater index than all that  *)
(* was published when its call began.                                       *)
Ordered ==
  /\ \A u \in recent : Index(u) <= txIndex
  /\ \A s \in Sender :
       /\ pc[s] \in {"vault", "fabric"} => name[s][1] <= txIndex
       /\ pc[s] = "ipfs" => \A u \in before[s] : Index(u) < txIndex
       /\ pc[s] = "vault" => \A u \in before[s] : Index(u) < name[s][1]

Base == TypeOK /\ Counted
Complete == Base /\ Prepared /\ LedgerOK
IInv ==
  /\ Complete /\ OwnNames /\ OwnEntries
  /\ Written /\ Ordered /\ ReplacedByOverlap

USE DEF Calls, Key, Entries, stores

-----------------------------------------------------------------------------
(* Helpers.                                                                 *)

(* A name made during a round is one of Names.                              *)
LEMMA NameMade ==
  ASSUME TypeOK, txIndex > 0, NEW s \in Sender
  PROVE  vaultKeyName(s) \in Names
BY BoundAssumption DEF TypeOK, vaultKeyName, Names

(* Keys are written at a path that Vault has.                               *)
LEMMA DataPathInPath ==
  ASSUME NEW n \in Names
  PROVE  DataPath(n) \in Path /\ BarePath(n) \in Path
BY DEF DataPath, BarePath, Path

(* Different names give different paths.                                    *)
LEMMA DataPathInjective ==
  ASSUME NEW m, NEW n, DataPath(m) = DataPath(n)
  PROVE  m = n
BY DEF DataPath

(* A sender's key is neither the seed's nor no key.                         *)
LEMMA SenderKeys ==
  ASSUME NEW s \in Sender
  PROVE  s # Nil /\ s # Old /\ s \notin Receiver /\ Old # Nil
BY NilAssumption, CallAssumption

(* Both forms of a path hold the name that they were made from.             *)
LEMMA PathNames ==
  ASSUME NEW n
  PROVE  DataPath(n).name = n /\ BarePath(n).name = n
BY DEF DataPath, BarePath

(* A sender's request to Fabric is served, with or without an answer, or    *)
(* nothing is published.                                                    *)
Publishing(s) == pc[s] = "fabric" /\ Publish(s) /\ (Published(s) \/ SendFails(s))
Failing(s) == SendFails(s) /\ UNCHANGED <<ledger, recent>>

LEMMA SendCases ==
  ASSUME NEW s \in Sender, Published(s) \/ SendFails(s)
  PROVE  Publishing(s) \/ Failing(s)
BY DEF Published, SendFails, Publishing, Failing

(* What a published entry becomes part of.                                  *)
LEMMA PublishedEntry ==
  ASSUME NEW s \in Sender, Publishing(s)
  PROVE  /\ uuid[s] \notin DOMAIN ledger
         /\ DOMAIN ledger' = DOMAIN ledger \cup {uuid[s]}
         /\ \A u \in DOMAIN ledger : ledger'[u] = ledger[u]
         /\ ledger'[uuid[s]] = Metadata(s, BarePath(name[s]), s)
         /\ recent' = recent \cup {uuid[s]}
         /\ UNCHANGED <<mixed, txIndex, now, name, uuid, seen, result, ipfs, vault, before>>
<1>1. UNCHANGED <<mixed, txIndex, now, name, uuid, seen, result, ipfs, vault, before>>
  BY DEF Publishing, Published, SendFails
<1> QED
  BY <1>1 DEF Publishing, Publish

(* The publishing call ends.                                                *)
LEMMA PublishedEnds ==
  ASSUME TypeOK, NEW s \in Sender, Publishing(s)
  PROVE  /\ pc' \in [Calls -> {"idle", "ipfs", "vault", "fabric", "query", "fetch", "key",
                               "done", "failed"}]
         /\ pc'[s] \in {"done", "failed"}
         /\ \A c \in Calls \ {s} : pc'[c] = pc[c]
BY DEF Publishing, Published, SendFails, Goto, TypeOK

-----------------------------------------------------------------------------
(* Types.                                                                   *)

LEMMA InitBase == Init => Base
<1> SUFFICES ASSUME Init PROVE Base
  OBVIOUS
<1>1. Seed \in Uuid
  BY BoundAssumption DEF Seed, Uuid
<1>2. DOMAIN ledger = {Seed}
  BY DEF Init
<1>3. vault \in [Path -> Key \cup {Nil}]
  BY DEF Init
<1>4. pc = [c \in Calls |-> "idle"]
  BY DEF Init
<1>5. Counted
  BY <1>4 DEF Counted
<1>6. txIndex \in 0 .. MaxIndex /\ now \in 0 .. MaxTime
  BY BoundAssumption DEF Init
<1> QED
  BY <1>1, <1>2, <1>3, <1>4, <1>5, <1>6 DEF Init, Base, TypeOK

(* A step on the way of a sender.                                           *)
LEMMA SendBase ==
  ASSUME Base, NEW s \in Sender,
         StartSend(s) \/ Added(s) \/ KeyWritten(s) \/ Failing(s)
  PROVE  Base'
<1>1. CASE StartSend(s)
  BY <1>1, BoundAssumption DEF StartSend, Goto, Base, TypeOK, Counted
<1>2. CASE Added(s)
  <2>1. vaultKeyName(s) \in Names
    BY <1>2, NameMade DEF Added, Base, Counted
  <2> QED
    BY <1>2, <2>1 DEF Added, Goto, Base, TypeOK, Counted
<1>3. CASE KeyWritten(s)
  <2>1. vault' \in [Path -> Key \cup {Nil}]
    BY <1>3 DEF KeyWritten, Stored, Base, TypeOK
  <2>2. uuid' \in [Sender -> Uuid \cup {Nil}]
    BY <1>3 DEF KeyWritten, Base, TypeOK, Uuid
  <2> QED
    BY <1>3, <2>1, <2>2 DEF KeyWritten, Goto, Base, TypeOK, Counted
<1>4. CASE Failing(s)
  <2>1. ipfs' \subseteq Key /\ vault' \in [Path -> Key \cup {Nil}]
    BY <1>4 DEF Failing, SendFails, Stored, Base, TypeOK
  <2> QED
    BY <1>4, <2>1 DEF Failing, SendFails, Goto, Base, TypeOK, Counted
<1> QED
  BY <1>1, <1>2, <1>3, <1>4

LEMMA PublishedBase ==
  ASSUME Complete, NEW s \in Sender, Publishing(s)
  PROVE  Base'
<1> USE DEF Complete
<1>a. uuid[s] \in Uuid
  BY DEF Publishing, Prepared
<1>b. /\ DOMAIN ledger' = DOMAIN ledger \cup {uuid[s]}
      /\ recent' = recent \cup {uuid[s]}
      /\ UNCHANGED <<seen, before>>
  BY PublishedEntry
<1>1. DOMAIN ledger' \subseteq Uuid
  BY <1>a, <1>b DEF Base, TypeOK
<1>2. \A u \in DOMAIN ledger : u \in DOMAIN ledger' /\ ledger'[u] = ledger[u]
  BY PublishedEntry
<1>3. seen' \in [Receiver -> Entries' \cup {Nil}]
  BY <1>2, <1>b DEF Base, TypeOK
<1>4. Counted'
  BY PublishedEntry, PublishedEnds DEF Base, Counted
<1>5. recent' \subseteq DOMAIN ledger' /\ before' \in [Sender -> SUBSET DOMAIN ledger']
  BY <1>b DEF Base, TypeOK
<1> QED
  BY <1>1, <1>3, <1>4, <1>5, PublishedEntry, PublishedEnds DEF Base, TypeOK

(* A step on the way of a receiver.                                         *)
LEMMA ReceiveBase ==
  ASSUME Base, NEW r \in Receiver,
         StartReceive(r) \/ GotBlob(r) \/ GotKey(r) \/ ReceiveFails(r)
           \/ \E u \in Uuid : GotMetadata(r, u)
  PROVE  Base'
<1> USE CallAssumption
<1>1. CASE StartReceive(r)
  BY <1>1, BoundAssumption DEF StartReceive, Goto, Base, TypeOK, Counted
<1>2. CASE GotBlob(r)
  BY <1>2 DEF GotBlob, Goto, Base, TypeOK, Counted
<1>3. CASE GotKey(r)
  <2>1. Recovered(seen[r], vault[seen[r].VaultKey]) \in {"old", "sample", Nil}
    BY DEF Recovered, plain
  <2> QED
    BY <1>3, <2>1 DEF GotKey, Goto, Base, TypeOK, Counted
<1>4. CASE ReceiveFails(r)
  BY <1>4 DEF ReceiveFails, Goto, Base, TypeOK, Counted
<1>5. ASSUME NEW u \in Uuid, GotMetadata(r, u) PROVE Base'
  BY <1>5 DEF GotMetadata, Goto, Base, TypeOK, Counted
<1> QED
  BY <1>1, <1>2, <1>3, <1>4, <1>5

LEMMA RoundBase ==
  ASSUME Base, NewRound \/ Tick
  PROVE  Base'
<1>1. CASE NewRound
  BY <1>1, BoundAssumption DEF NewRound, Base, TypeOK, Counted
<1>2. CASE Tick
  BY <1>2, BoundAssumption DEF Tick, Base, TypeOK, Counted
<1> QED
  BY <1>1, <1>2

(* Every step.                                                              *)
LEMMA NextBase == Complete /\ [Next]_vars => Base'
<1> SUFFICES ASSUME Complete, [Next]_vars PROVE Base'
  OBVIOUS
<1> USE DEF Complete
<1>1. CASE UNCHANGED vars
  BY <1>1 DEF vars, Base, TypeOK, Counted
<1>2. CASE Next
  BY <1>2, SendCases, SendBase, PublishedBase, ReceiveBase, RoundBase DEF Next
<1> QED
  BY <1>1, <1>2

-----------------------------------------------------------------------------
(* Only senders write, and only what is listed here.                        *)

(* The steps that touch neither a store nor a sender that has begun.        *)
LEMMA Harmless ==
  ASSUME Base, [Next]_vars,
         \A s \in Sender : ~ (Added(s) \/ KeyWritten(s) \/ Publishing(s) \/ Failing(s))
  PROVE  /\ UNCHANGED <<mixed, name, uuid, ipfs, vault, ledger>>
         /\ \A s \in Sender : pc'[s] \in {"vault", "fabric"} => pc'[s] = pc[s]
<1> USE CallAssumption
<1>1. CASE UNCHANGED vars
  BY <1>1 DEF vars
<1>2. CASE Next
  <2>1. ASSUME NEW s \in Sender, StartSend(s)
        PROVE  /\ UNCHANGED <<mixed, name, uuid, ipfs, vault, ledger>>
               /\ \A t \in Sender : pc'[t] \in {"vault", "fabric"} => pc'[t] = pc[t]
    BY <2>1 DEF StartSend, Goto, Base, TypeOK
  <2>2. ASSUME NEW r \in Receiver,
               StartReceive(r) \/ GotBlob(r) \/ GotKey(r) \/ ReceiveFails(r)
                 \/ \E u \in Uuid : GotMetadata(r, u)
        PROVE  /\ UNCHANGED <<mixed, name, uuid, ipfs, vault, ledger>>
               /\ \A t \in Sender : pc'[t] = pc[t]
    BY <2>2 DEF StartReceive, GotBlob, GotKey, ReceiveFails, GotMetadata, Goto, Base, TypeOK
  <2>3. CASE NewRound \/ Tick
    BY <2>3 DEF NewRound, Tick
  <2> QED
    BY <1>2, <2>1, <2>2, <2>3, SendCases DEF Next
<1> QED
  BY <1>1, <1>2

(* Nothing that IPFS, Vault or the ledger holds disappears; a key may be    *)
(* replaced, by the key of the sender that writes.                          *)
LEMMA StoresGrow ==
  ASSUME Base, [Next]_vars
  PROVE  /\ ipfs \subseteq ipfs'
         /\ \A p \in Path : vault[p] # Nil => vault'[p] # Nil
         /\ \A p \in Path : vault[p] \in Sender => vault'[p] \in Sender
         /\ \A u \in DOMAIN ledger : u \in DOMAIN ledger' /\ ledger'[u] = ledger[u]
<1>1. ASSUME NEW s \in Sender, Added(s) \/ Failing(s) \/ KeyWritten(s)
      PROVE  /\ ipfs \subseteq ipfs'
             /\ \A p \in Path : vault[p] # Nil => vault'[p] # Nil
             /\ \A p \in Path : vault[p] \in Sender => vault'[p] \in Sender
             /\ ledger' = ledger
  BY <1>1, SenderKeys
     DEF Added, Failing, SendFails, KeyWritten, Stored, Base, TypeOK
<1>2. ASSUME NEW s \in Sender, Publishing(s)
      PROVE  /\ UNCHANGED <<ipfs, vault>>
             /\ \A u \in DOMAIN ledger : u \in DOMAIN ledger' /\ ledger'[u] = ledger[u]
  BY <1>2, PublishedEntry
<1> QED
  BY <1>1, <1>2, Harmless

-----------------------------------------------------------------------------
(* Completeness.                                                            *)

LEMMA InitComplete == Init => Complete
<1> SUFFICES ASSUME Init PROVE Complete
  OBVIOUS
<1>1. <<1, Nil>> \in Names
  BY BoundAssumption DEF Names
<1>2. vault[DataPath(<<1, Nil>>)] = Old
  BY <1>1, DataPathInPath DEF Init
<1>3. PICK path \in {BarePath(<<1, Nil>>), DataPath(<<1, Nil>>)} :
        ledger = [u \in {Seed} |-> Metadata(Old, path, Old)]
  BY DEF Init
<1>4. path \in Path /\ path.name = <<1, Nil>>
  BY <1>1, <1>3, DataPathInPath, PathNames
<1>5. Metadata(Old, path, Old) \in Entry
  BY <1>4 DEF Metadata, Entry, plain
<1>6. LedgerOK
  BY <1>2, <1>3, <1>4, <1>5, SenderKeys, NilAssumption DEF LedgerOK, Metadata, Init
<1>7. Prepared
  BY DEF Prepared, Init
<1> QED
  BY <1>6, <1>7, InitBase DEF Complete

(* What is prepared stays so while others go on.                            *)
LEMMA NextPrepared ==
  ASSUME Complete, [Next]_vars
  PROVE  Prepared'
<1> USE DEF Complete
<1>1. \A t \in Sender : pc[t] \in {"vault", "fabric"} => DataPath(name[t]) \in Path
  BY DataPathInPath DEF Prepared
<1>2. ASSUME NEW s \in Sender, Added(s) PROVE Prepared'
  BY <1>2, NameMade DEF Added, Goto, Base, TypeOK, Counted, Prepared
<1>3. ASSUME NEW s \in Sender, KeyWritten(s) PROVE Prepared'
  <2>1. DataPath(name[s]) \in Path /\ vault'[DataPath(name[s])] = s
    BY <1>1, <1>3 DEF KeyWritten, Stored, Base, TypeOK
  <2>2. uuid'[s] \in Uuid /\ \A t \in Sender \ {s} : uuid'[t] = uuid[t]
    BY <1>3 DEF KeyWritten, Base, TypeOK, Uuid
  <2>3. pc'[s] = "fabric" /\ \A t \in Sender \ {s} : pc'[t] = pc[t]
    BY <1>3 DEF KeyWritten, Goto, Base, TypeOK
  <2>4. \A t \in Sender : pc[t] = "fabric" => vault'[DataPath(name[t])] \in Sender
    BY <1>1, StoresGrow DEF Prepared
  <2> QED
    BY <1>1, <1>3, <2>1, <2>2, <2>3, <2>4 DEF KeyWritten, Prepared
<1>4. ASSUME NEW s \in Sender, Publishing(s) PROVE Prepared'
  BY <1>4, PublishedEntry, PublishedEnds DEF Base, Prepared
<1>5. ASSUME NEW s \in Sender, Failing(s) PROVE Prepared'
  <2>1. \A t \in Sender : pc'[t] \in {"vault", "fabric"} => pc'[t] = pc[t]
    BY <1>5 DEF Failing, SendFails, Goto, Base, TypeOK
  <2>2. UNCHANGED <<name, uuid>>
    BY <1>5 DEF Failing, SendFails
  <2>3. ipfs \subseteq ipfs'
    BY StoresGrow
  <2>4. \A t \in Sender : pc[t] = "fabric" => vault'[DataPath(name[t])] \in Sender
    BY <1>1, StoresGrow DEF Prepared
  <2> QED
    BY <2>1, <2>2, <2>3, <2>4 DEF Prepared
<1> QED
  BY <1>2, <1>3, <1>4, <1>5, Harmless DEF Prepared

LEMMA NextLedgerOK ==
  ASSUME Complete, [Next]_vars
  PROVE  LedgerOK'
<1> USE DEF Complete
<1>1. \A u \in DOMAIN ledger : DataPath(ledger[u].VaultKey.name) \in Path
  BY DataPathInPath DEF LedgerOK, Entry, Path
<1>s. /\ ipfs \subseteq ipfs'
      /\ \A p \in Path : vault[p] # Nil => vault'[p] # Nil
  BY StoresGrow
<1>2. ASSUME UNCHANGED ledger PROVE LedgerOK'
  BY <1>1, <1>2, <1>s DEF LedgerOK
<1>3. ASSUME NEW s \in Sender, Publishing(s) PROVE LedgerOK'
  <2>1. pc[s] = "fabric"
    BY <1>3 DEF Publishing
  <2>2. Metadata(s, BarePath(name[s]), s) \in Entry
    BY <2>1, DataPathInPath, SenderKeys DEF Prepared, Metadata, Entry, plain
  <2>3. /\ Metadata(s, BarePath(name[s]), s).CID = s
        /\ Metadata(s, BarePath(name[s]), s).VaultKey.name = name[s]
    BY PathNames DEF Metadata
  <2>4. s \in ipfs' /\ vault'[DataPath(name[s])] # Nil
    BY <1>3, <2>1, PublishedEntry, SenderKeys DEF Prepared
  <2>5. /\ DOMAIN ledger' = DOMAIN ledger \cup {uuid[s]}
        /\ \A u \in DOMAIN ledger : ledger'[u] = ledger[u]
        /\ ledger'[uuid[s]] = Metadata(s, BarePath(name[s]), s)
    BY <1>3, PublishedEntry
  <2> QED
    BY <1>1, <1>s, <2>2, <2>3, <2>4, <2>5 DEF LedgerOK
<1>4. ASSUME NEW s \in Sender, Added(s) \/ KeyWritten(s) \/ Failing(s)
      PROVE  ledger' = ledger
  BY <1>4 DEF Added, KeyWritten, Failing
<1> QED
  BY <1>2, <1>3, <1>4, Harmless

-----------------------------------------------------------------------------
(* Whose a name is.                                                         *)

(* A name made when workloads are not mixed ends in its sender's suffix.    *)
LEMMA OwnNameMade ==
  ASSUME ~mixed, NEW s \in Sender
  PROVE  vaultKeyName(s)[2] = s
BY DEF vaultKeyName

LEMMA InitOwn == Init => OwnNames /\ OwnEntries
<1> SUFFICES ASSUME Init PROVE OwnNames /\ OwnEntries
  OBVIOUS
<1>1. <<1, Nil>> \in Names
  BY BoundAssumption DEF Names
<1>2. vault[DataPath(<<1, Nil>>)] = Old
  BY <1>1, DataPathInPath DEF Init
<1>3. PICK path \in {BarePath(<<1, Nil>>), DataPath(<<1, Nil>>)} :
        ledger = [u \in {Seed} |-> Metadata(Old, path, Old)]
  BY DEF Init
<1>4. path.name = <<1, Nil>>
  BY <1>3, PathNames
<1>5. OwnEntries
  BY <1>2, <1>3, <1>4 DEF OwnEntries, Metadata, Suffix
<1>6. OwnNames
  BY DEF OwnNames, Init
<1> QED
  BY <1>5, <1>6

(* Two senders that have names have different paths.                        *)
LEMMA OwnPaths ==
  ASSUME OwnNames, ~mixed, NEW s \in Sender, NEW t \in Sender, s # t,
         pc[s] \in {"vault", "fabric"}, pc[t] \in {"vault", "fabric"}
  PROVE  DataPath(name[s]) # DataPath(name[t])
BY DataPathInjective DEF OwnNames

(* A sender that writes leaves alone every path but its own.                *)
LEMMA WritesOwn ==
  ASSUME Base, NEW s \in Sender, KeyWritten(s) \/ Failing(s), NEW p \in Path,
         p # DataPath(name[s])
  PROVE  vault'[p] = vault[p]
BY DEF KeyWritten, Failing, SendFails, Stored, Base, TypeOK

(* What it writes is its own key, and only when it has a name.              *)
LEMMA WritesKey ==
  ASSUME Complete, NEW s \in Sender, KeyWritten(s) \/ Failing(s)
  PROVE  \/ vault' = vault
         \/ pc[s] = "vault" /\ vault'[DataPath(name[s])] = s
<1>1. pc[s] = "vault" => DataPath(name[s]) \in Path
  BY DataPathInPath DEF Complete, Prepared
<1> QED
  BY <1>1 DEF KeyWritten, Failing, SendFails, Stored, Complete, Base, TypeOK

LEMMA NextOwnNames ==
  ASSUME Complete, OwnNames, [Next]_vars
  PROVE  OwnNames'
<1> USE DEF Complete
<1>1. ASSUME NEW s \in Sender, Added(s) PROVE OwnNames'
  BY <1>1, OwnNameMade DEF Added, Goto, Base, TypeOK, OwnNames
<1>2. ASSUME NEW s \in Sender, KeyWritten(s) \/ Failing(s) PROVE OwnNames'
  <2>1. \A t \in Sender : pc'[t] \in {"vault", "fabric"} =>
          \/ t # s /\ pc'[t] = pc[t]
          \/ pc[t] = "vault" /\ vault'[DataPath(name[t])] = t
    BY <1>2, DataPathInPath DEF KeyWritten, Failing, SendFails, Stored, Goto, Base, TypeOK, Prepared
  <2>2. UNCHANGED <<name, mixed>>
    BY <1>2 DEF KeyWritten, Failing, SendFails, Stored
  <2>3. ASSUME ~mixed, NEW t \in Sender, t # s, pc[t] = "fabric"
        PROVE  vault'[DataPath(name[t])] = t
    <3>1. DataPath(name[t]) \in Path /\ vault[DataPath(name[t])] = t
      BY <2>3, DataPathInPath DEF Prepared, OwnNames
    <3> QED
      BY <1>2, <2>3, <3>1, OwnPaths, WritesOwn, WritesKey
  <2> QED
    BY <2>1, <2>2, <2>3 DEF OwnNames
<1>3. ASSUME NEW s \in Sender, Publishing(s) PROVE OwnNames'
  BY <1>3, PublishedEntry, PublishedEnds DEF Base, OwnNames
<1> QED
  BY <1>1, <1>2, <1>3, Harmless DEF OwnNames

LEMMA NextOwnEntries ==
  ASSUME Complete, OwnNames, OwnEntries, [Next]_vars
  PROVE  OwnEntries'
<1> USE DEF Complete
<1>1. ASSUME NEW s \in Sender, KeyWritten(s) \/ Failing(s) PROVE OwnEntries'
  <2>1. UNCHANGED <<mixed, ledger>>
    BY <1>1 DEF KeyWritten, Failing, SendFails, Stored
  <2>2. ASSUME ~mixed, NEW u \in DOMAIN ledger
        PROVE  vault'[DataPath(ledger[u].VaultKey.name)] = ledger[u].CID
    <3> DEFINE n == ledger[u].VaultKey.name
    <3>1. /\ DataPath(n) \in Path
          /\ n[2] = Suffix(ledger[u].CID)
          /\ vault[DataPath(n)] = ledger[u].CID
      BY <2>2, DataPathInPath DEF LedgerOK, Entry, Path, OwnEntries
    <3>2. CASE vault' = vault
      BY <3>1, <3>2
    <3>3. CASE pc[s] = "vault" /\ vault'[DataPath(name[s])] = s
      <4>1. CASE DataPath(n) = DataPath(name[s])
        <5>1. Suffix(ledger[u].CID) = s
          BY <2>2, <3>1, <3>3, <4>1, DataPathInjective DEF OwnNames
        <5> QED
          BY <3>3, <4>1, <5>1, SenderKeys DEF Suffix
      <4>2. CASE DataPath(n) # DataPath(name[s])
        BY <1>1, <3>1, <4>2, WritesOwn
      <4> QED
        BY <4>1, <4>2
    <3> QED
      BY <1>1, <3>2, <3>3, WritesKey
  <2> QED
    BY <2>1, <2>2 DEF OwnEntries
<1>2. ASSUME NEW s \in Sender, Publishing(s) PROVE OwnEntries'
  <2>1. pc[s] = "fabric"
    BY <1>2 DEF Publishing
  <2>2. /\ Metadata(s, BarePath(name[s]), s).CID = s
        /\ Metadata(s, BarePath(name[s]), s).VaultKey.name = name[s]
    BY PathNames DEF Metadata
  <2>3. ~mixed => name[s][2] = Suffix(s) /\ vault[DataPath(name[s])] = s
    BY <2>1, SenderKeys DEF OwnNames, Suffix
  <2> QED
    BY <1>2, <2>2, <2>3, PublishedEntry DEF OwnEntries
<1>3. ASSUME NEW s \in Sender, Added(s) PROVE UNCHANGED <<mixed, vault, ledger>>
  BY <1>3 DEF Added
<1> QED
  BY <1>1, <1>2, <1>3, Harmless DEF OwnEntries

-----------------------------------------------------------------------------
(* Who may replace a key.                                                   *)

(* A sender's key comes to Vault only from the sender, after its name.      *)
LEMMA NextWritten ==
  ASSUME Complete, Written, [Next]_vars
  PROVE  Written'
<1> USE CallAssumption DEF Complete, Base, TypeOK
<1>1. ASSUME NEW s \in Sender,
             StartSend(s) \/ Added(s) \/ KeyWritten(s) \/ Publishing(s) \/ Failing(s)
      PROVE  Written'
  <2>1. CASE StartSend(s) \/ Added(s)
    BY <2>1 DEF StartSend, Added, Goto, Written
  <2>2. CASE KeyWritten(s) \/ Failing(s)
    <3>1. \A p \in Path : vault'[p] = vault[p] \/ vault'[p] = s
      BY <2>2 DEF KeyWritten, Failing, SendFails, Stored
    <3>2. pc'[s] \notin {"idle", "ipfs"} /\ \A t \in Sender \ {s} : pc'[t] = pc[t]
      BY <2>2 DEF KeyWritten, Failing, SendFails, Goto
    <3> QED
      BY <3>1, <3>2 DEF Written
  <2>3. CASE Publishing(s)
    BY <2>3, PublishedEntry, PublishedEnds DEF Written
  <2> QED
    BY <1>1, <2>1, <2>2, <2>3
<1>2. ASSUME NEW r \in Receiver,
             StartReceive(r) \/ GotBlob(r) \/ GotKey(r) \/ ReceiveFails(r)
               \/ \E u \in Uuid : GotMetadata(r, u)
      PROVE  vault' = vault /\ \A t \in Sender : pc'[t] = pc[t]
  BY <1>2 DEF StartReceive, GotBlob, GotKey, ReceiveFails, GotMetadata, Goto
<1>3. CASE NewRound \/ Tick \/ UNCHANGED vars
  BY <1>3 DEF NewRound, Tick, vars, Written
<1> QED
  BY <1>1, <1>2, <1>3, SendCases DEF Next, Written

(* The indices of published entries are numbers.                            *)
LEMMA IndexType ==
  ASSUME Complete
  PROVE  /\ \A u \in DOMAIN ledger : Index(u) \in Nat
         /\ \A s \in Sender : pc[s] \in {"vault", "fabric"} => name[s][1] \in Nat
         /\ txIndex \in Nat
<1>1. \A n \in Names : n[1] \in Nat
  BY BoundAssumption DEF Names
<1>2. \A u \in DOMAIN ledger : ledger[u].VaultKey.name \in Names
  BY DEF Complete, LedgerOK, Entry, Path
<1>3. \A s \in Sender : pc[s] \in {"vault", "fabric"} => name[s] \in Names
  BY DEF Complete, Prepared
<1> QED
  BY <1>1, <1>2, <1>3, BoundAssumption DEF Complete, Base, TypeOK, Index

(* What is on the ledger keeps its index.                                   *)
LEMMA IndexStays ==
  ASSUME Base, [Next]_vars, NEW u \in DOMAIN ledger
  PROVE  Index(u)' = Index(u)
BY StoresGrow DEF Index

LEMMA NextOrdered ==
  ASSUME Complete, Ordered, [Next]_vars
  PROVE  Ordered'
<1> USE CallAssumption, IndexType, IndexStays DEF Complete, Base, TypeOK
<1>1. ASSUME NEW s \in Sender, StartSend(s) PROVE Ordered'
  BY <1>1 DEF StartSend, Goto, Ordered
<1>2. ASSUME NEW s \in Sender, Added(s) PROVE Ordered'
  <2>1. vaultKeyName(s)[1] = txIndex
    BY DEF vaultKeyName
  <2> QED
    BY <1>2, <2>1 DEF Added, Goto, Ordered
<1>3. ASSUME NEW s \in Sender, KeyWritten(s) \/ Failing(s) PROVE Ordered'
  <2>1. UNCHANGED <<txIndex, name, ledger, recent, before>>
    BY <1>3 DEF KeyWritten, Failing, SendFails
  <2>2. \A t \in Sender : \/ pc'[t] = pc[t]
                          \/ pc'[t] \in {"done", "failed"}
                          \/ pc'[t] = "fabric" /\ pc[t] = "vault"
    BY <1>3 DEF KeyWritten, Failing, SendFails, Goto
  <2> QED
    BY <2>1, <2>2 DEF Ordered
<1>4. ASSUME NEW s \in Sender, Publishing(s) PROVE Ordered'
  <2>1. /\ recent' = recent \cup {uuid[s]}
        /\ ledger'[uuid[s]] = Metadata(s, BarePath(name[s]), s)
        /\ UNCHANGED <<txIndex, name, uuid, before>>
    BY <1>4, PublishedEntry
  <2>2. Index(uuid[s])' = name[s][1]
    BY <2>1, PathNames DEF Index, Metadata
  <2>3. name[s][1] <= txIndex
    BY <1>4 DEF Ordered, Publishing
  <2>4. \A t \in Sender : pc'[t] = pc[t] \/ pc'[t] \in {"done", "failed"}
    BY <1>4, PublishedEnds
  <2>5. \A u \in recent' : Index(u)' <= txIndex'
    BY <2>1, <2>2, <2>3 DEF Ordered, Index
  <2> QED
    BY <2>1, <2>4, <2>5 DEF Ordered
<1>5. ASSUME NEW r \in Receiver,
             StartReceive(r) \/ GotBlob(r) \/ GotKey(r) \/ ReceiveFails(r)
               \/ \E u \in Uuid : GotMetadata(r, u)
      PROVE  Ordered'
  <2>1. /\ UNCHANGED <<name, ledger, recent, before>>
        /\ \A t \in Sender : pc'[t] = pc[t]
        /\ txIndex' \in {txIndex, txIndex + 1}
    BY <1>5 DEF StartReceive, GotBlob, GotKey, ReceiveFails, GotMetadata, Goto
  <2> QED
    BY <2>1 DEF Ordered
<1>6. CASE NewRound
  BY <1>6 DEF NewRound, Ordered, Calls
<1>7. CASE Tick \/ UNCHANGED vars
  BY <1>7 DEF Tick, vars, Ordered
<1> QED
  BY <1>1, <1>2, <1>3, <1>4, <1>5, <1>6, <1>7, SendCases DEF Next

(* The key that a sender writes replaces none that was published when its   *)
(* call began.                                                              *)
LEMMA WriteKeepsEarlier ==
  ASSUME Complete, Ordered, NEW s \in Sender, pc[s] = "vault", NEW u \in DOMAIN ledger,
         DataPath(ledger[u].VaultKey.name) = DataPath(name[s])
  PROVE  u \notin before[s]
<1>1. Index(u) = name[s][1]
  BY DataPathInjective DEF Index
<1> QED
  BY <1>1, IndexType DEF Ordered

LEMMA NextReplaced ==
  ASSUME Complete, Written, Ordered, OwnEntries', ReplacedByOverlap, [Next]_vars
  PROVE  ReplacedByOverlap'
<1> USE CallAssumption DEF Complete, Base, TypeOK
<1> DEFINE path(u) == DataPath(ledger[u].VaultKey.name)
<1>1. \A u \in DOMAIN ledger : path(u) \in Path
  BY DataPathInPath DEF LedgerOK, Entry, Path
<1>2. CASE ~ mixed'
  BY <1>2 DEF OwnEntries, ReplacedByOverlap
<1>3. CASE mixed' /\ UNCHANGED <<vault, ledger, before>>
  <2>1. mixed
    BY <1>3 DEF Next, StartSend, Added, KeyWritten, Published, SendFails, StartReceive,
              GotMetadata, GotBlob, GotKey, ReceiveFails, NewRound, Tick, vars
  <2> QED
    BY <1>3, <2>1 DEF ReplacedByOverlap
<1>4. ASSUME NEW s \in Sender, StartSend(s) PROVE ReplacedByOverlap'
  <2>1. \A u \in DOMAIN ledger : vault[path(u)] # s
    BY <1>1, <1>4 DEF StartSend, Written
  <2> QED
    BY <1>4, <2>1 DEF StartSend, ReplacedByOverlap
<1>5. ASSUME NEW s \in Sender, KeyWritten(s) \/ Failing(s), mixed' PROVE ReplacedByOverlap'
  <2>1. UNCHANGED <<mixed, ledger, before>>
    BY <1>5 DEF KeyWritten, Failing, SendFails
  <2>2. ASSUME NEW u \in DOMAIN ledger, vault'[path(u)] # vault[path(u)]
        PROVE  vault'[path(u)] = s /\ u \notin before[s]
    <3>1. path(u) = DataPath(name[s])
      BY <1>1, <1>5, <2>2, WritesOwn
    <3>2. pc[s] = "vault" /\ vault'[DataPath(name[s])] = s
      BY <1>5, <2>2, WritesKey
    <3> QED
      BY <3>1, <3>2, WriteKeepsEarlier
  <2> QED
    BY <1>5, <2>1, <2>2 DEF ReplacedByOverlap
<1>6. ASSUME NEW s \in Sender, Publishing(s), mixed' PROVE ReplacedByOverlap'
  <2>1. /\ uuid[s] \notin DOMAIN ledger
        /\ DOMAIN ledger' = DOMAIN ledger \cup {uuid[s]}
        /\ \A u \in DOMAIN ledger : ledger'[u] = ledger[u]
        /\ ledger'[uuid[s]] = Metadata(s, BarePath(name[s]), s)
        /\ UNCHANGED <<mixed, vault, before>>
    BY <1>6, PublishedEntry
  <2>2. ledger'[uuid[s]].VaultKey.name = name[s]
    BY <2>1, PathNames DEF Metadata
  <2>3. vault'[DataPath(name[s])] \in Sender
    BY <1>6, <2>1 DEF Publishing, Prepared
  <2>4. \A t \in Sender : uuid[s] \notin before[t]
    BY <2>1
  <2> QED
    BY <1>6, <2>1, <2>2, <2>3, <2>4 DEF ReplacedByOverlap
<1>7. ASSUME NEW s \in Sender, Added(s) PROVE UNCHANGED <<vault, ledger, before>>
  BY <1>7 DEF Added
<1>8. ASSUME NEW r \in Receiver,
             StartReceive(r) \/ GotBlob(r) \/ GotKey(r) \/ ReceiveFails(r)
               \/ \E u \in Uuid : GotMetadata(r, u)
      PROVE  UNCHANGED <<vault, ledger, before>>
  BY <1>8 DEF StartReceive, GotBlob, GotKey, ReceiveFails, GotMetadata
<1>9. CASE NewRound \/ Tick \/ UNCHANGED vars
  BY <1>2, <1>3, <1>9 DEF NewRound, Tick, vars
<1> QED
  BY <1>2, <1>3, <1>4, <1>5, <1>6, <1>7, <1>8, <1>9, SendCases DEF Next

-----------------------------------------------------------------------------
(* The invariant.                                                           *)

(* Everything the exchange keeps, for any senders, receivers and bounds.    *)
THEOREM ExchangeInvariant == Spec => []IInv
<1>1. Init => IInv
  <2> SUFFICES ASSUME Init PROVE IInv
    OBVIOUS
  <2>1. Written
    BY CallAssumption, SenderKeys DEF Written, Init
  <2>2. Ordered
    BY CallAssumption DEF Ordered, Init
  <2>3. \A u \in DOMAIN ledger : vault[DataPath(ledger[u].VaultKey.name)] = ledger[u].CID
    <3>1. PICK path \in {BarePath(<<1, Nil>>), DataPath(<<1, Nil>>)} :
            ledger = [u \in {Seed} |-> Metadata(Old, path, Old)]
      BY DEF Init
    <3>2. <<1, Nil>> \in Names
      BY BoundAssumption DEF Names
    <3> QED
      BY <3>1, <3>2, PathNames, DataPathInPath DEF Init, Metadata
  <2> QED
    BY <2>1, <2>2, <2>3, InitBase, InitComplete, InitOwn DEF IInv, ReplacedByOverlap
<1>2. IInv /\ [Next]_vars => IInv'
  <2> SUFFICES ASSUME IInv, [Next]_vars PROVE IInv'
    OBVIOUS
  <2>1. Complete'
    BY NextBase, NextPrepared, NextLedgerOK DEF IInv, Complete
  <2>2. OwnNames' /\ OwnEntries'
    BY NextOwnNames, NextOwnEntries DEF IInv
  <2> QED
    BY <2>1, <2>2, NextWritten, NextOrdered, NextReplaced DEF IInv
<1> QED
  BY <1>1, <1>2, PTL DEF Spec

(* The variables stay in their ranges.                                      *)
THEOREM ExchangeTypes == Spec => []TypeOK
<1>1. IInv => TypeOK
  BY DEF IInv, Complete, Base
<1> QED
  BY <1>1, ExchangeInvariant, PTL

(* Metadata is published only of content that IPFS holds and with a name    *)
(* under which Vault holds a key, whatever request of whatever sender fails *)
(* or loses its answer (steps 3 to 5 of the sending workloads).             *)
THEOREM OnlyCompleteIsPublished == Spec => []PublishedIsComplete
<1>1. IInv => PublishedIsComplete
  BY DEF IInv, Complete, LedgerOK, PublishedIsComplete
<1> QED
  BY <1>1, ExchangeInvariant, PTL

(* With names that end in a random suffix (workload 2_1) no published key   *)
(* is ever replaced, however many senders run at once and in whatever round. *)
THEOREM PublishedKeysStay == Spec => []KeysKept
<1>1. IInv => KeysKept
  BY DEF IInv, OwnEntries, KeysKept
<1> QED
  BY <1>1, ExchangeInvariant, PTL

(* In the mixed workloads (5_1 and 5_2) a published key is replaced only by *)
(* a call that overlapped with the one that published it or by a call of    *)
(* another round, for any number of calls and rounds: names made of the     *)
(* shared txIndex do keep apart calls that follow each other.               *)
THEOREM OnlyOverlapReplaces == Spec => []ReplacedByOverlap
<1>1. IInv => ReplacedByOverlap
  BY DEF IInv
<1> QED
  BY <1>1, ExchangeInvariant, PTL

=============================================================================
