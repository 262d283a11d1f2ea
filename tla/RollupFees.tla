----------------------------- MODULE RollupFees -----------------------------
(***************************************************************************)
(* The fee arithmetic of a rollup transaction: the L1 data fee, the price  *)
(* a message pays per unit of gas, and the tip that reaches the coinbase.  *)
(* Constant-level only: there is no state here.                            *)
(***************************************************************************)
EXTENDS Integers

TxDataZeroGas == 4
TxDataNonZeroGasEIP2028 == 16
RefundQuotientEIP3529 == 5

Lower(a, b) == IF a <= b THEN a ELSE b

\* RollupGasData.DataGas: before Regolith 68 bytes of signature are charged on
\* top of the transaction's own bytes.
DataGas(zeroes, ones, regolith) ==
    zeroes * TxDataZeroGas
        + (IF regolith THEN ones ELSE ones + 68) * TxDataNonZeroGasEIP2028

\* L1Cost; l1 holds the three slots of the L1Block predeploy.
L1Cost(dataGas, l1) ==
    ((dataGas + l1.overhead) * l1.baseFee * l1.scalar) \div 1000000

\* AsMessage: the price per gas the sender is charged, tip included.
EffectiveGasPrice(tipCap, feeCap, baseFee) == Lower(tipCap + baseFee, feeCap)

\* innerTransitionDb: the part of that price credited to the coinbase.
TipUncapped(tipCap, feeCap, baseFee) == tipCap                      \* mutant
EffectiveTip(tipCap, feeCap, baseFee) == Lower(tipCap, feeCap - baseFee)
=============================================================================
