---------------------------- MODULE MCChainReader ---------------------------
(* Two wallets, both registered or one of them, for TLC. *)
EXTENDS ReaderRefinement

CONSTANTS w1, w2

TwoWallets == {w1, w2}

SomeRegistered == {w \in [TwoWallets -> {0, 11, 12}] : w[w1] = 11 /\ w[w2] \in {0, 12}}
=============================================================================
