-------------------------- MODULE MCWalletTransfer ---------------------------
EXTENDS WalletTransfer

\* Each chain's entry point, as the README lists it.
MCEntryPoints == [c \in Chains |-> "ep"]
\* As CHAIN_DATA has it: Goerli's is another one than the factory's.
MCChainData == [c \in Chains |-> IF c = "goerli" THEN "other" ELSE "ep"]
=============================================================================
