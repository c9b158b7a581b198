--------------------------- MODULE MCStoreReaders ---------------------------
(***************************************************************************)
(* An instance of StoreReaders with three lots.  A lot may be created      *)
(* between two pages, before or after the cursor; two transactions about   *)
(* lot 2 may have others between them.  The one about lot 3 has an actor   *)
(* that is not UTF-8.                                                      *)
(***************************************************************************)
EXTENDS StoreReaders, TLC

CONSTANTS t1, t2, t3, t4

MCTx == {t1, t2, t3, t4}
MCBadText == {t4}
MCLotOf == t1 :> 2 @@ t2 :> 2 @@ t3 :> 1 @@ t4 :> 3
=============================================================================
