----------------------------- MODULE MC_PParam ------------------------------
(* A small instance of PParamTracking for TLC. *)
EXTENDS PParamTracking

CONSTANTS u1, u2, c1, c2, o1, o2

TwoUpdates == {u1, u2}
TwoCreators == {c1, c2}
OneCreator == {c1}
OneObserver == {o1}
TwoObservers == {o1, o2}
=============================================================================
