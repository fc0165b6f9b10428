--------------------------- MODULE MCRelayTransfer ---------------------------
(* Small instances of RelayTransfer. *)
EXTENDS RelayTransfer, TLC

CONSTANTS w1, w2

MCOneWorker == {w1}
MCTwoWorkers == {w1, w2}
MCNoneReliable == {}
MCLastReliable == {RingSize - 1}

WorkerSymmetry == Permutations(Workers)
=============================================================================
