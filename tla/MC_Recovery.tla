---------------------------- MODULE MC_Recovery -----------------------------
(* Small instances of TreasuryRecovery for TLC. *)
EXTENDS TreasuryRecovery, TLC

CONSTANTS c1, v1, o1, t1, t2

OneCreator == {c1}
OneVoter == {v1}
OneObserver == {o1}
TwoTxs == {t1, t2}
Lanes == {1, 2}
YesOrNo == {"yes", "no"}

TxSymmetry == Permutations(Txs)
=============================================================================
