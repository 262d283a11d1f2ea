---------------------------- MODULE MCWalletList -----------------------------
EXTENDS WalletList

MCStored == <<"w1">>
=============================================================================
