------------------------ MODULE MCChaincodeLifecycle ------------------------
(* Finite instances of ChaincodeLifecycle.                                  *)
EXTENDS ChaincodeLifecycle, TLC

CONSTANTS o1, o2, k1, k2

Setup(orgs, packages, coordinated, maxEdits, maxFails) ==
  [orgs |-> orgs, packages |-> packages, coordinated |-> coordinated,
   maxEdits |-> maxEdits, maxFails |-> maxFails]

(* One organization that approves what it likes, edited twice without       *)
(* faults or once with.                                                     *)
Edited == Setup({o1}, {k1, k2}, {Committer}, 2, 0)
Faulty == Setup({o1}, {k1, k2}, {Committer}, 1, 2)
(* Two that coordinate; three edits move all resources on by one sequence.  *)
(* The same with a fault, and one with its committer that goes through both *)
(* sequences with two faults.                                               *)
Pair   == Setup({o1, o2}, {k1}, {o1, o2, Committer}, 3, 0)
Flaky  == Setup({o1, o2}, {k1}, {o1, o2, Committer}, 0, 1)
Alone  == Setup({o1}, {k1}, {o1, Committer}, 2, 2)

Setting == {Edited, Faulty, Pair, Flaky, Alone}
Early   == {Setup({o1, o2}, {k1}, {}, 1, 0)}
Changed == {Setup({o1, o2}, {k1}, {o1, o2, Committer}, 1, 0)}

=============================================================================
