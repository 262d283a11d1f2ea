--------------------------- MODULE StateTransition ---------------------------
(***************************************************************************)
(* One message applied to the world state: TransitionDb and what it calls, *)
(* on a post-Bedrock, post-London rollup.  A message is applied in the     *)
(* steps of the code (mint and snapshot, preCheck/buyGas, intrinsic gas,   *)
(* EVM, refundGas, fee payment); the outcome is left in "result" for the   *)
(* caller (see BlockExecution).  Calls made through RPC only (IsFake,      *)
(* NoBaseFee, tracing) are not messages of a block and are left out.       *)
(*                                                                         *)
(* The EVM is external to this module: an execution is any effect          *)
(* [ok, left, refund, dest, l1] -- succeeded or not, the gas left, the     *)
(* refund counter, where the transferred value ends up, and the new L1     *)
(* attributes if the L1Block predeploy was updated.                        *)
(***************************************************************************)
EXTENDS RollupFees, Sequences, FiniteSets

CONSTANTS
    Accounts,           \* addresses with a balance and a nonce
    Contracts,          \* those of them that hold code
    Payees,             \* where the value a message transfers may end up
    Depositor,          \* the only sender L1Block accepts new attributes from
    Coinbase, BaseFeeRecipient, L1FeeRecipient,
    Creation,           \* a message's "to" when it creates a contract
    NoL1,               \* no L1 attributes (cache empty, or not updated)
    L1Params,           \* L1 attributes: [baseFee, overhead, scalar]
    Messages,           \* the messages that may be applied
    NoMsg,
    Regolith,           \* is the Regolith fork active?
    BaseFee,            \* of the block
    GasLimit,           \* of the block
    MaxRefund           \* bound on the EVM's refund counter

Kinds == {"normal", "deposit", "system"}

MessageFields ==
    [kind: Kinds, from: Accounts, to: Accounts \cup {Creation}, nonce: Nat,
     gas: Nat, intrinsic: Nat, value: Nat, mint: Nat, tipCap: Nat, feeCap: Nat,
     zeroes: Nat, ones: Nat, oversized: BOOLEAN]

\* The gas price of a deposit is 0 (DepositTx.gasPrice, gasTipCap, gasFeeCap),
\* and only a deposit mints.
ASSUME MessagesAssumption ==
    /\ Messages \subseteq MessageFields
    /\ NoMsg \notin Messages
    /\ \A m \in Messages :
         /\ m.kind # "normal" => m.tipCap = 0 /\ m.feeCap = 0
         /\ m.kind = "normal" => m.mint = 0

ASSUME NumbersAssumption ==
    /\ Regolith \in BOOLEAN
    /\ BaseFee \in Nat
    /\ GasLimit \in Nat
    /\ MaxRefund \in Nat

ASSUME L1Assumption ==
    /\ L1Params \subseteq [baseFee: Nat, overhead: Nat, scalar: Nat]
    /\ NoL1 \notin L1Params

ASSUME AccountsAssumption ==
    /\ IsFiniteSet(Accounts)                \* addresses have 160 bits
    /\ {Depositor, Coinbase, BaseFeeRecipient, L1FeeRecipient} \subseteq Accounts
    /\ Contracts \subseteq Accounts
    /\ Payees \subseteq Accounts
    /\ Creation \notin Accounts

VARIABLES
    world,      \* StateDB: [bal, nonce, l1, created]
    snap,       \* the snapshot TransitionDb takes after the mint
    gp,         \* GasPool: gas still available in the block
    st,         \* StateTransition: [gas, initialGas], and StateDB's refund counter
    msg,        \* the message being applied
    cache,      \* L1 attributes cached by the closure of NewL1CostFunc
    pc,         \* the step of the transition that comes next
    result      \* [err, used, ok] of the transition

stVars == <<world, snap, gp, st, msg, cache, pc, result>>

Errors == {"none", "GasLimitReached", "NonceTooLow", "NonceTooHigh", "Other"}
NoResult == [err |-> "none", used |-> 0, ok |-> FALSE]

Worlds == [bal: [Accounts -> Int], nonce: [Accounts -> Nat], l1: L1Params,
           created: SUBSET (Accounts \X Nat)]

IsDepositTx(m) == m.kind \in {"deposit", "system"}
IsSystemTx(m) == m.kind = "system"

AddBalance(w, a, amount) == [w EXCEPT !.bal[a] = @ + amount]
IncNonce(w, a) == [w EXCEPT !.nonce[a] = @ + 1]

GasPrice(m) == EffectiveGasPrice(m.tipCap, m.feeCap, BaseFee)

\* The closure returned by NewL1CostFunc: the attributes are read from the
\* state once and then served from the cache; deposits pay nothing.
L1Attributes == IF cache = NoL1 THEN world.l1 ELSE cache
HasL1Cost(m) == ~IsDepositTx(m) /\ DataGas(m.zeroes, m.ones, Regolith) # 0
L1CostFunc(m) ==
    IF HasL1Cost(m)
    THEN L1Cost(DataGas(m.zeroes, m.ones, Regolith), L1Attributes)
    ELSE 0
FillCache(m) == cache' = IF HasL1Cost(m) THEN L1Attributes ELSE cache

\* GasPool: SubGas where it succeeds, and AddGas.
SubGasUnchecked(amount) == gp' = gp - amount                        \* mutant
SubGas(amount) == gp >= amount /\ gp' = gp - amount
AddGasDropped(amount) == UNCHANGED gp                               \* mutant
AddGas(amount) == gp' = gp + amount

Finish(err, used, ok) ==
    /\ result' = [err |-> err, used |-> used, ok |-> ok]
    /\ pc' = "result"
-----------------------------------------------------------------------------
\* The mint is credited before the snapshot, so that a failed deposit keeps it.
SnapshotBeforeMint == snap' = world                                 \* mutant
SnapshotMinted == snap' = world'

\* TransitionDb up to the call of innerTransitionDb.
TransitionDb(m) ==
    /\ pc = "idle"
    /\ msg' = m
    /\ world' = AddBalance(world, m.from, m.mint)
    /\ SnapshotMinted
    /\ st' = [gas |-> 0, initialGas |-> 0, refund |-> 0]
    /\ result' = NoResult
    /\ pc' = "preCheck"

\* preCheck of a deposit: gas is free, but it is taken from the block's pool,
\* except for system transactions, which Regolith no longer supports.
PreCheckDeposit ==
    /\ pc = "preCheck"
    /\ IsDepositTx(msg)
    /\ st' = [gas |-> msg.gas, initialGas |-> msg.gas, refund |-> 0]
    /\ \/ /\ IsSystemTx(msg) /\ Regolith
          /\ Finish("Other", 0, FALSE)
          /\ UNCHANGED gp
       \/ /\ IsSystemTx(msg) /\ ~Regolith
          /\ pc' = "intrinsic"
          /\ UNCHANGED <<gp, result>>
       \/ /\ ~IsSystemTx(msg) /\ gp < msg.gas
          /\ Finish("GasLimitReached", 0, FALSE)
          /\ UNCHANGED gp
       \/ /\ ~IsSystemTx(msg)
          /\ SubGas(msg.gas)
          /\ pc' = "intrinsic"
          /\ UNCHANGED result
    /\ UNCHANGED <<world, snap, msg, cache>>

NonceError(m) ==
    IF world.nonce[m.from] < m.nonce THEN "NonceTooHigh"
    ELSE IF world.nonce[m.from] > m.nonce THEN "NonceTooLow" ELSE "none"

\* What the sender must hold: buyGas checks against the fee cap, not the price.
BalanceCheck(m) == m.gas * m.feeCap + m.value + L1CostFunc(m)

FeeFieldsOk(m) == m.from \notin Contracts /\ m.tipCap <= m.feeCap /\ BaseFee <= m.feeCap

\* preCheck of an ordinary message, refused before the gas pool is touched.
\* The L1 cost is computed (and cached) only once the fee fields are checked.
PreCheckRefused ==
    /\ pc = "preCheck"
    /\ ~IsDepositTx(msg)
    /\ \/ /\ NonceError(msg) # "none"
          /\ Finish(NonceError(msg), 0, FALSE)
          /\ UNCHANGED cache
       \/ /\ NonceError(msg) = "none" /\ ~FeeFieldsOk(msg)
          /\ Finish("Other", 0, FALSE)
          /\ UNCHANGED cache
       \/ /\ NonceError(msg) = "none" /\ FeeFieldsOk(msg)
          /\ \/ /\ world.bal[msg.from] < BalanceCheck(msg)
                /\ Finish("Other", 0, FALSE)
             \/ /\ world.bal[msg.from] >= BalanceCheck(msg) /\ gp < msg.gas
                /\ Finish("GasLimitReached", 0, FALSE)
          /\ FillCache(msg)
    /\ UNCHANGED <<world, snap, gp, st, msg>>

\* preCheck of an ordinary message, ending in a successful buyGas.
BuyGas ==
    /\ pc = "preCheck"
    /\ ~IsDepositTx(msg)
    /\ NonceError(msg) = "none"
    /\ FeeFieldsOk(msg)
    /\ world.bal[msg.from] >= BalanceCheck(msg)
    /\ SubGas(msg.gas)
    /\ st' = [gas |-> msg.gas, initialGas |-> msg.gas, refund |-> 0]
    /\ world' = AddBalance(world, msg.from, -(msg.gas * GasPrice(msg) + L1CostFunc(msg)))
    /\ FillCache(msg)
    /\ pc' = "intrinsic"
    /\ UNCHANGED <<snap, msg, result>>

\* Clauses 4 to 6 of innerTransitionDb and the init code size.
PreparedOk(m) ==
    /\ st.gas >= m.intrinsic
    /\ m.value > 0 => world.bal[m.from] >= m.value
    /\ ~m.oversized

IntrinsicGas ==
    /\ pc = "intrinsic"
    /\ \/ /\ ~PreparedOk(msg)
          /\ Finish("Other", 0, FALSE)
          /\ UNCHANGED st
       \/ /\ PreparedOk(msg)
          /\ st' = [st EXCEPT !.gas = @ - msg.intrinsic]
          /\ pc' = "evm"
          /\ UNCHANGED result
    /\ UNCHANGED <<world, snap, gp, msg, cache>>

\* What the EVM may do with a message and the gas it is given.  A reverted
\* execution has no effect but the gas it burnt; dest matters only if there is
\* value to transfer; L1Block takes new attributes from the depositor only.
Effects(m, gas) ==
    {e \in [ok: BOOLEAN, left: 0..gas, refund: 0..MaxRefund, dest: Payees \cup {m.from},
            l1: L1Params \cup {NoL1}] :
        /\ ~e.ok => e.refund = 0 /\ e.dest = m.from /\ e.l1 = NoL1
        /\ m.value = 0 => e.dest = m.from
        /\ e.l1 # NoL1 => m.from = Depositor}

Executed(w, m, e) ==
    LET called == IncNonce(w, m.from)
        paid == AddBalance(AddBalance(called, m.from, -m.value), e.dest, m.value)
        deployed == IF m.to = Creation
                    THEN [paid EXCEPT !.created = @ \cup {<<m.from, w.nonce[m.from]>>}]
                    ELSE paid
    IN  IF ~e.ok THEN called
        ELSE IF e.l1 = NoL1 THEN deployed ELSE [deployed EXCEPT !.l1 = e.l1]

\* "Record deposits as using all their gas (matches the gas pool)"; a system
\* transaction, which before Regolith takes none from the pool, uses none.
DepositGasUsed(m) == IF IsSystemTx(m) /\ ~Regolith THEN 0 ELSE m.gas

\* evm.Create or SetNonce and evm.Call.  Before Regolith a deposit is done
\* here, without a refund.
Evm(e) ==
    /\ pc = "evm"
    /\ e \in Effects(msg, st.gas)
    /\ world' = Executed(world, msg, e)
    /\ \/ /\ IsDepositTx(msg) /\ ~Regolith
          /\ Finish("none", DepositGasUsed(msg), e.ok)
          /\ UNCHANGED <<st, gp>>
       \/ /\ ~IsDepositTx(msg) \/ Regolith
          /\ st' = [st EXCEPT !.gas = e.left, !.refund = e.refund]
          /\ result' = [err |-> "none", used |-> 0, ok |-> e.ok]
          /\ pc' = "refund"
          /\ UNCHANGED gp
    /\ UNCHANGED <<snap, msg, cache>>

gasUsed == st.initialGas - st.gas

\* refundGas: the refund counter counts up to a fifth of the gas used; what
\* is left is paid back and returned to the pool.  A deposit (Regolith) is done
\* then, its price being 0.
RefundGas ==
    /\ pc = "refund"
    /\ LET left == st.gas + Lower(gasUsed \div RefundQuotientEIP3529, st.refund)
       IN  /\ st' = [st EXCEPT !.gas = left]
           /\ world' = AddBalance(world, msg.from, left * GasPrice(msg))
           /\ AddGas(left)
           /\ \/ IsDepositTx(msg) /\ Finish("none", st.initialGas - left, result.ok)
              \/ ~IsDepositTx(msg) /\ pc' = "fees" /\ UNCHANGED result
    /\ UNCHANGED <<snap, msg, cache>>

\* The tip to the coinbase, the base fee and the L1 fee to their recipients.
PayFees ==
    /\ pc = "fees"
    /\ LET tipped == AddBalance(world, Coinbase,
                         gasUsed * EffectiveTip(msg.tipCap, msg.feeCap, BaseFee))
           burnt == AddBalance(tipped, BaseFeeRecipient, gasUsed * BaseFee)
       IN  world' = AddBalance(burnt, L1FeeRecipient, L1CostFunc(msg))
    /\ FillCache(msg)
    /\ Finish("none", gasUsed, result.ok)
    /\ UNCHANGED <<snap, gp, st, msg>>

\* The state a failed deposit leaves: the mint, and a new nonce.
FailedKeepsNonce(m) == snap                                         \* mutant
FailedDepositState(m) == IncNonce(snap, m.from)

\* The tail of TransitionDb: a deposit that failed for any reason but the gas
\* limit is included all the same.
FailedDeposit ==
    /\ pc = "result"
    /\ IsDepositTx(msg)
    /\ result.err \notin {"none", "GasLimitReached"}
    /\ world' = FailedDepositState(msg)
    /\ Finish("none", DepositGasUsed(msg), FALSE)
    /\ UNCHANGED <<snap, gp, st, msg, cache>>
=============================================================================
