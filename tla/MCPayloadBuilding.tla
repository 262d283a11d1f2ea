------------------------ MODULE MCPayloadBuilding ------------------------
(***************************************************************************)
(* Instance of PayloadBuilding for TLC.  Genesis is at its gas target, and *)
(* the blocks built on it are below or above theirs; the base fee is 1,    *)
(* where the rise of the fee rounds down to zero.                          *)
(***************************************************************************)
EXTENDS PayloadBuilding

MCGasLimits == {2}
MCForcedGas == {0}
MCPoolGas == {2}
MCGenesis == [number |-> 0, time |-> 0, gasLimit |-> 2, gasUsed |-> 1, baseFee |-> 1]

=============================================================================
