---------------------------- MODULE MCClientPool ----------------------------
(* Instances of ClientPool for TLC. *)
EXTENDS ClientPool, TLC

\* A slot whose connections expire every second, and two that keep theirs.
PoolConfigs ==
    { [conn |-> 1, autoexpire |-> 1, scavengettl |-> 1],
      [conn |-> 2, autoexpire |-> 0, scavengettl |-> 2] }

\* Conversation ids are only compared.
ConvSymmetry == Permutations(Convs)
=============================================================================
