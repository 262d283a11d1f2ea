-------------------------- MODULE MCBlockExecution ---------------------------
(***************************************************************************)
(* Small blocks for BlockExecution: an L1 attributes transaction, user     *)
(* deposits that succeed, fail and create contracts, and a pool with       *)
(* transactions that run out of gas limit, nonce, funds or intrinsic gas.  *)
(***************************************************************************)
EXTENDS BlockExecution, TLC

MCAccounts == {"depositor", "alice", "bob", "coinbase", "basefee", "l1fee"}

L1A == [baseFee |-> 1, overhead |-> 0, scalar |-> 10000]
L1B == [baseFee |-> 2, overhead |-> 100, scalar |-> 10000]
MCL1Params == {L1A, L1B}

MCGenesis ==
    [bal |-> [a \in MCAccounts |-> IF a = "alice" THEN 90 ELSE IF a = "bob" THEN 60 ELSE 0],
     nonce |-> [a \in MCAccounts |-> IF a = "bob" THEN 1 ELSE 0],
     l1 |-> L1A, created |-> {}]

Deposit(from, to, gas, value, mint) ==
    [kind |-> "deposit", from |-> from, to |-> to, nonce |-> 0, gas |-> gas,
     intrinsic |-> gas - 1, value |-> value, mint |-> mint, tipCap |-> 0, feeCap |-> 0,
     zeroes |-> 0, ones |-> 0, oversized |-> FALSE]

Normal(from, to, nonce, gas, value, tip, cap) ==
    [kind |-> "normal", from |-> from, to |-> to, nonce |-> nonce, gas |-> gas,
     intrinsic |-> gas - 1, value |-> value, mint |-> 0, tipCap |-> tip, feeCap |-> cap,
     zeroes |-> 0, ones |-> 60, oversized |-> FALSE]

L1Attrs == [Deposit("depositor", "bob", 3, 0, 0) EXCEPT !.intrinsic = 3]
SysAttrs == [L1Attrs EXCEPT !.kind = "system"]     \* before Regolith
DepMint == Deposit("alice", "bob", 4, 3, 5)
DepPoor == Deposit("alice", "bob", 4, 200, 5)       \* value above the balance
DepMake == Deposit("bob", Creation, 4, 0, 0)
DepHuge == Deposit("bob", "alice", 40, 0, 7)        \* above the block's gas

Alice0 == Normal("alice", "bob", 0, 6, 4, 1, 4)
Alice1 == Normal("alice", "bob", 1, 4, 0, 2, 3)
Alice2 == [Normal("alice", Creation, 2, 5, 0, 1, 3) EXCEPT !.oversized = TRUE]
Bob1 == [Normal("bob", "alice", 1, 6, 0, 0, 2) EXCEPT !.intrinsic = 7]
Bob2 == Normal("bob", Creation, 2, 3, 1, 0, 2)
BobLow == Normal("bob", "alice", 1, 6, 0, 0, 1)     \* below the base fee
CoinTx == Normal("coinbase", "bob", 0, 2, 0, 0, 3)  \* may lack funds

MCMessages == {L1Attrs, SysAttrs, DepMint, DepPoor, DepMake, DepHuge,
               Alice0, Alice1, Alice2, Bob1, Bob2, BobLow, CoinTx}

MCForcedLists == {<<L1Attrs, DepMint>>, <<L1Attrs, DepPoor, DepMake>>,
                  <<L1Attrs, DepMake, Bob2>>, <<L1Attrs, DepHuge>>,
                  <<L1Attrs, BobLow>>, <<SysAttrs>>}

PoolWith(alice, bob, coin) ==
    [a \in MCAccounts |-> IF a = "alice" THEN alice ELSE IF a = "bob" THEN bob
                          ELSE IF a = "coinbase" THEN coin ELSE <<>>]
MCPoolStates == {PoolWith(<<Alice0, Alice1>>, <<Bob1>>, <<CoinTx>>),
                 PoolWith(<<Alice0, Alice2>>, <<Bob2, BobLow>>, <<>>)}
=============================================================================
