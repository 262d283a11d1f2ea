---------------------------- MODULE HeaderRules ----------------------------
(***************************************************************************)
(* The header of a block that op-geth prepares on top of a parent, and the *)
(* checks it makes on a header it receives (worker.prepareWork, the beacon *)
(* engine's verifyHeader and eip1559.go), after London and on an Optimism  *)
(* chain.  A header keeps the fields these rules read:                     *)
(*   [number, time, gasLimit, gasUsed, baseFee].                           *)
(* A gas limit, a gas amount and a base fee are small naturals here: the   *)
(* code computes the base fee with big integers, so nothing wraps.         *)
(***************************************************************************)
EXTENDS Naturals

CONSTANTS ElasticityMultiplier,      \* config.ElasticityMultiplier()
          BaseFeeChangeDenominator   \* config.BaseFeeChangeDenominator()

ASSUME FeeParamsAssumption ==
  /\ ElasticityMultiplier \in Nat \ {0}
  /\ BaseFeeChangeDenominator \in Nat \ {0}

Header == [number : Nat, time : Nat, gasLimit : Nat, gasUsed : Nat, baseFee : Nat]

GasTarget(h) == h.gasLimit \div ElasticityMultiplier

\* What gasUsed lies away from the target moves the fee by.
FeeDelta(h, gasDelta) ==
  ((gasDelta * h.baseFee) \div GasTarget(h)) \div BaseFeeChangeDenominator

CalcBaseFeeNoFloor(h) ==                                      \* mutant
  CASE h.gasUsed = GasTarget(h) -> h.baseFee
    [] h.gasUsed > GasTarget(h) ->
         h.baseFee + FeeDelta(h, h.gasUsed - GasTarget(h))
    [] h.gasUsed < GasTarget(h) ->
         h.baseFee - FeeDelta(h, GasTarget(h) - h.gasUsed)
CalcBaseFee(h) ==
  CASE h.gasUsed = GasTarget(h) -> h.baseFee
    [] h.gasUsed > GasTarget(h) ->
         LET num == FeeDelta(h, h.gasUsed - GasTarget(h))
         IN  h.baseFee + (IF num > 1 THEN num ELSE 1)
    [] h.gasUsed < GasTarget(h) ->
         LET num == FeeDelta(h, GasTarget(h) - h.gasUsed)
         IN  IF h.baseFee > num THEN h.baseFee - num ELSE 0

\* The gas limit may change freely on an Optimism chain.
VerifyEip1559Header(parent, h) == h.baseFee = CalcBaseFee(parent)

verifyHeader(parent, h) ==
  /\ h.time > parent.time
  /\ h.gasUsed <= h.gasLimit
  /\ h.number = parent.number + 1
  /\ VerifyEip1559Header(parent, h)

\* The checks of prepareWork for a forced timestamp.
PrepareOK(parent, timestamp) == parent.time < timestamp

\* The header prepareWork returns, before any transaction; the gas limit
\* comes from the payload attributes, which must give one on Optimism.
prepareWork(parent, timestamp, gasLimit) ==
  [number   |-> parent.number + 1,
   time     |-> timestamp,
   gasLimit |-> gasLimit,
   gasUsed  |-> 0,
   baseFee  |-> CalcBaseFee(parent)]

=============================================================================
