--------------------------- MODULE AutoDeliveryMC ---------------------------
(***************************************************************************)
(* Batches for model checking: a finding with more fixes than one pull     *)
(* request takes, and a batch with a cluster fix, a source fix and one     *)
(* companion.                                                              *)
(***************************************************************************)
EXTENDS AutoDelivery

CONSTANTS f1, f2

File(f, l) == [tie |-> f, layer |-> l]

MCFiles == 1..3

MCBatches ==
  { <<File(f1, "cluster"), File(f1, "cluster"), File(f1, "cluster")>>,
    <<File(f1, "cluster"), File(NoFinding, "cluster"), File(f2, "source")>> }
=============================================================================
