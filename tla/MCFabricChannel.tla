--------------------------- MODULE MCFabricChannel ---------------------------
(* Finite instances of FabricChannel.                                       *)
EXTENDS FabricChannel

CONSTANTS n1, n2, n3, v1, v2, m1, m2

Nodes == <<n1, n2, n3>>

(* Members, settings and state are edited at will, the rest one at a time,  *)
(* the channel and the orderers' capabilities together with the state.      *)
Base == [members |-> PeerOrgs, certs |-> v1, application |-> v1, acls |-> {m1}, channel |-> v1,
         settings |-> v1, capabilities |-> {m1}, state |-> "normal"]
Some == SUBSET PeerOrgs \ {{}}

Plain   == {[Base EXCEPT !.members = m] : m \in Some}
Freely  == {[Base EXCEPT !.members = m, !.settings = v, !.state = s] :
              m \in Some, v \in Values, s \in {"normal", "maintenance"}}
Within  == {[Base EXCEPT !.members = m, !.application = v2, !.acls = {m2}, !.certs = v2] : m \in Some}
Across  == {[s EXCEPT !.state = t] :
              s \in {[Base EXCEPT !.channel = v2], [Base EXCEPT !.capabilities = Names]},
              t \in {"normal", "maintenance"}}
AllOfThem == Freely \cup Within \cup Across

=============================================================================
