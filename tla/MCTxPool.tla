------------------------------ MODULE MCTxPool ------------------------------
(***************************************************************************)
(* An instance of TxPool: two accounts, one of them with an owner here.    *)
(***************************************************************************)
EXTENDS TxPool

CONSTANTS a, b

Tx(from, nonce, price) == [from |-> from, nonce |-> nonce, price |-> price]
MCTxs == {Tx(a, 0, 1), Tx(a, 0, 2), Tx(a, 1, 1), Tx(a, 2, 2), Tx(b, 0, 2)}
MCMined == {Tx(a, 0, 2), Tx(a, 1, 1)}
=============================================================================
