----------------------------- MODULE MC_Claims ------------------------------
(***************************************************************************)
(* Small instances of TreasuryClaims for TLC.  NumDReps is 2 or 3: the     *)
(* guided receiver, the expiry receiver and an ordinary one; a run names   *)
(* the receivers whose address files exist.                                *)
(***************************************************************************)
EXTENDS TreasuryPool, TLC

CONSTANTS c1, c2, v1, o1, o2, t1, t2

OneCreator == {c1}
TwoCreators == {c1, c2}
OneVoter == {v1}
OneObserver == {o1}
TwoObservers == {o1, o2}
OneTx == {t1}
TwoTxs == {t1, t2}
OrdinaryOnly == {3}
Lanes == {1, 2}
YesOnly == {"yes"}
YesOrNo == {"yes", "no"}

\* Nothing in the specification orders transactions, creators or observers.
TxSymmetry == Permutations(Txs)
Symmetry == TxSymmetry \cup Permutations(Creators) \cup Permutations(Observers)
=============================================================================
