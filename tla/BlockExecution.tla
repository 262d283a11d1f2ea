--------------------------- MODULE BlockExecution ----------------------------
(***************************************************************************)
(* A block built by the sequencer's worker (generateWork) and re-executed  *)
(* by a verifier (StateProcessor.Process, BlockValidator.ValidateState).   *)
(* Both apply messages with StateTransition, in two different harnesses:   *)
(*   - the sequencer makes a new L1 cost closure for every transaction,    *)
(*     skips the pool transactions that fail and rolls the state back;     *)
(*   - the verifier uses one closure for the whole block and gives up on   *)
(*     the first error.                                                    *)
(* The price order of the pool is abstracted to any order that respects    *)
(* nonces and puts local accounts first; the timeout that interrupts       *)
(* fillTransactions may strike between any two transactions.               *)
(***************************************************************************)
EXTENDS StateTransition, Functions

CONSTANTS
    Genesis,        \* the parent state
    ForcedLists,    \* payload attribute transactions: sequences of messages
    PoolStates,     \* TxPool.Pending: functions from accounts to sequences
    Locals,         \* accounts the pool treats as local
    TxGas,          \* params.TxGas: less gas than this ends the filling
    NoEffect, Unsealed

\* The pool takes no deposits and files transactions under their sender.
SentBy(a) == {m \in Messages : m.from = a /\ m.kind = "normal"}

ASSUME BlockAssumption ==
    /\ Genesis \in Worlds
    /\ ForcedLists \subseteq Seq(Messages)
    /\ \A pending \in PoolStates :
         /\ pending \in [Accounts -> Seq(Messages)]
         /\ \A a \in Accounts : pending[a] \in Seq(SentBy(a))
    /\ TxGas \in Nat
    /\ Locals \subseteq Accounts

\* The L1 attributes of a block are set before any message is charged by them:
\* only deposits come before a transaction of the depositor, whose key nobody
\* holds (the order op-node gives the payload attributes).  The closure of
\* NewL1CostFunc, which reads them once, relies on it.
ASSUME AttributesAssumption ==
    /\ \A l \in ForcedLists : \A i, j \in 1..Len(l) :
         i <= j /\ l[j].from = Depositor => IsDepositTx(l[i])
    /\ \A pending \in PoolStates : pending[Depositor] = <<>>

VARIABLES
    role,       \* who executes: "sequencer", then "verifier"
    forced,     \* forced transactions still to be included
    pool,       \* TransactionsByPriceAndNonce: what is left of each account
    outer,      \* the snapshot taken by commitTransaction
    effect,     \* what the EVM did with the current message
    usedGas,    \* header.GasUsed so far
    receipts,   \* receipts so far
    block,      \* the transactions of the block, with their EVM effects
    sealed      \* the header fields ValidateState compares

blkVars == <<role, forced, pool, outer, effect, usedGas, receipts, block, sealed>>
vars == <<stVars, blkVars>>

Terminal == {"buildFailed", "accepted", "rejected"}

\* NewTransactionsByPriceAndNonce and Shift drop an account whose next
\* transaction cannot pay the base fee (NewTxWithMinerFee fails).
Wrap(q) == IF q # <<>> /\ Head(q).feeCap < BaseFee THEN <<>> ELSE q

Init ==
    /\ world = Genesis /\ snap = Genesis /\ outer = Genesis
    /\ gp = GasLimit
    /\ st = [gas |-> 0, initialGas |-> 0, refund |-> 0]
    /\ msg = NoMsg /\ cache = NoL1 /\ pc = "idle" /\ result = NoResult
    /\ role = "sequencer"
    /\ forced \in ForcedLists
    /\ \E pending \in PoolStates : pool = [a \in Accounts |-> Wrap(pending[a])]
    /\ effect = NoEffect /\ usedGas = 0
    /\ receipts = <<>> /\ block = <<>> /\ sealed = Unsealed
-----------------------------------------------------------------------------
\* commitTransaction: snapshot, then ApplyTransaction with a fresh L1 closure.
CommitTransaction(m) ==
    /\ TransitionDb(m)
    /\ outer' = world
    /\ cache' = NoL1
    /\ effect' = NoEffect
    /\ UNCHANGED <<gp, role, forced, pool, usedGas, receipts, block, sealed>>

\* generateWork: the transactions of the payload attributes come first.
PickForced ==
    /\ role = "sequencer"
    /\ forced # <<>>
    /\ CommitTransaction(Head(forced))

PoolDrained(A) == \A a \in A : pool[a] = <<>>

\* fillTransactions and commitTransactions: locals before remotes.
PickPool(a) ==
    /\ role = "sequencer"
    /\ forced = <<>>
    /\ gp >= TxGas
    /\ pool[a] # <<>>
    /\ a \in Locals \/ PoolDrained(Locals)
    /\ CommitTransaction(Head(pool[a]))

\* Process: the next transaction of the block, one closure for all of them.
ProcessNext ==
    /\ role = "verifier"
    /\ Len(receipts) < Len(block)
    /\ TransitionDb(block[Len(receipts) + 1].msg)
    /\ effect' = NoEffect
    /\ UNCHANGED <<gp, cache, role, forced, pool, outer, usedGas, receipts, block, sealed>>

\* The EVM is deterministic: on re-execution it does what it did before.
Execute(e) ==
    /\ role = "verifier" => e = block[Len(receipts) + 1].effect
    /\ Evm(e)
    /\ effect' = e
    /\ UNCHANGED <<role, forced, pool, outer, usedGas, receipts, block, sealed>>

\* The steps of StateTransition that concern neither block nor pool.
Transition ==
    /\ PreCheckDeposit \/ PreCheckRefused \/ BuyGas \/ IntrinsicGas
        \/ RefundGas \/ PayFees \/ FailedDeposit
    /\ UNCHANGED blkVars

\* applyTransaction: the nonce a receipt derives the contract address from, the
\* deposit's own nonce being read before the transition (TransitionDb moves no
\* nonce before its snapshot, so it is the one in snap).
ReceiptNonceFromTx(m) == m.nonce                                    \* mutant
ReceiptNonce(m) ==
    IF IsDepositTx(m) /\ Regolith THEN snap.nonce[m.from] ELSE m.nonce

Receipt(m) ==
    [msg |-> m, gasUsed |-> result.used, cumulative |-> usedGas + result.used,
     ok |-> result.ok, nonce |-> ReceiptNonce(m)]

\* TransactionsByPriceAndNonce: Shift and Pop.
ShiftNothing(m) == UNCHANGED pool                                   \* mutant
ShiftSender(m) == pool' = [pool EXCEPT ![m.from] = Wrap(Tail(@))]
PopSender(m) == pool' = [pool EXCEPT ![m.from] = <<>>]

\* applyTransaction succeeded: used gas and receipt are recorded, the sequencer
\* appends to the block and moves on.
Included ==
    /\ pc = "result"
    /\ result.err = "none"
    /\ usedGas' = usedGas + result.used
    /\ receipts' = Append(receipts, Receipt(msg))
    /\ \/ /\ role = "verifier"
          /\ UNCHANGED <<forced, pool, block>>
       \/ /\ role = "sequencer"
          /\ block' = Append(block, [msg |-> msg, effect |-> effect])
          /\ \/ forced # <<>> /\ forced' = Tail(forced) /\ UNCHANGED pool
             \/ forced = <<>> /\ ShiftSender(msg) /\ UNCHANGED forced
    /\ pc' = "idle"
    /\ UNCHANGED <<world, snap, gp, st, msg, cache, result, role, outer, effect, sealed>>

Unincludable == pc = "result" /\ result.err # "none" /\
                (IsDepositTx(msg) => result.err = "GasLimitReached")

\* commitTransaction: the state is rolled back, the gas pool is not.
KeepState == UNCHANGED world                                        \* mutant
RevertToSnapshot == world' = outer

\* commitTransactions: a failed transaction is skipped, or its sender is.
SkipPoolTx ==
    /\ Unincludable
    /\ role = "sequencer"
    /\ forced = <<>>
    /\ RevertToSnapshot
    /\ IF result.err \in {"GasLimitReached", "NonceTooHigh"}
       THEN PopSender(msg) ELSE ShiftSender(msg)
    /\ pc' = "idle"
    /\ UNCHANGED <<snap, gp, st, msg, cache, result, role, forced, outer, effect,
                   usedGas, receipts, block, sealed>>

\* generateWork gives up on a payload whose forced transaction fails, Process
\* on a block any of whose transactions fails.
GiveUp ==
    /\ Unincludable
    /\ role = "sequencer" => forced # <<>>
    /\ \/ role = "sequencer" /\ RevertToSnapshot /\ pc' = "buildFailed"
       \/ role = "verifier" /\ UNCHANGED world /\ pc' = "rejected"
    /\ UNCHANGED <<snap, gp, st, msg, cache, result, blkVars>>
-----------------------------------------------------------------------------
\* FinalizeAndAssemble, once the pool is drained, the gas is spent or the time
\* is up.  The verifier starts from the parent state with a full gas pool.
Seal ==
    /\ role = "sequencer"
    /\ pc = "idle"
    /\ forced = <<>>
    /\ sealed' = [world |-> world, usedGas |-> usedGas, receipts |-> receipts]
    /\ role' = "verifier"
    /\ world' = Genesis
    /\ gp' = GasLimit
    /\ cache' = NoL1
    /\ usedGas' = 0
    /\ receipts' = <<>>
    /\ pc' = IF usedGas > GasLimit THEN "rejected" ELSE "idle"
    /\ UNCHANGED <<snap, st, msg, result, forced, pool, outer, effect, block>>

\* ValidateState: used gas, receipts and state root against the header.
ValidateState ==
    /\ role = "verifier"
    /\ pc = "idle"
    /\ Len(receipts) = Len(block)
    /\ pc' = IF sealed = [world |-> world, usedGas |-> usedGas, receipts |-> receipts]
             THEN "accepted" ELSE "rejected"
    /\ UNCHANGED <<world, snap, gp, st, msg, cache, result, blkVars>>

Finished == pc \in Terminal /\ UNCHANGED vars

Next ==
    \/ PickForced
    \/ \E a \in Accounts : PickPool(a)
    \/ ProcessNext
    \/ Transition
    \/ pc = "evm" /\ \E e \in Effects(msg, st.gas) : Execute(e)
    \/ Included \/ SkipPoolTx \/ GiveUp
    \/ Seal \/ ValidateState
    \/ Finished

Spec == Init /\ [][Next]_vars /\ WF_vars(Next)
-----------------------------------------------------------------------------
EffectValues == [ok: BOOLEAN, left: Nat, refund: Nat, dest: Accounts, l1: L1Params \cup {NoL1}]
                    \cup {NoEffect}
Receipts == [msg: Messages, gasUsed: Nat, cumulative: Nat, ok: BOOLEAN, nonce: Nat]
Headers == [world: Worlds, usedGas: Nat, receipts: Seq(Receipts)]

\* Every variable holds a value of the kind the code gives it; in particular
\* gas counters (uint64 in the code) never go below zero.
TypeOK ==
    /\ world \in Worlds /\ snap \in Worlds /\ outer \in Worlds
    /\ gp \in Nat
    /\ st \in [gas: Nat, initialGas: Nat, refund: Nat]
    /\ msg \in Messages \cup {NoMsg}
    /\ cache \in L1Params \cup {NoL1}
    /\ pc \in {"idle", "preCheck", "intrinsic", "evm", "refund", "fees", "result"} \cup Terminal
    /\ result \in [err: Errors, used: Nat, ok: BOOLEAN]
    /\ role \in {"sequencer", "verifier"}
    /\ forced \in Seq(Messages)
    /\ pool \in [Accounts -> Seq(Messages)]
    /\ \A a \in Accounts : pool[a] \in Seq(SentBy(a))
    /\ usedGas \in Nat
    /\ effect \in EffectValues
    /\ receipts \in Seq(Receipts)
    /\ block \in Seq([msg: Messages, effect: EffectValues])
    /\ sealed \in Headers \cup {Unsealed}

\* After Regolith a block has no system transaction (op-node sends none; one
\* that is sent fails with ErrSystemTxNotSupported).
NoRegolithSystemTx ==
    Regolith => \A i \in 1..Len(receipts) : ~IsSystemTx(receipts[i].msg)

\* The gas that receipts say was used is the gas that left the pool.  The
\* verifier's pool is exact; the sequencer's may hold less, never more, since
\* a pool transaction that fails after buyGas is rolled back but its gas is
\* not returned (commitTransaction restores the state only).
GasAccounted ==
    pc = "idle" /\ NoRegolithSystemTx =>
        /\ gp + usedGas <= GasLimit
        /\ role = "verifier" => gp + usedGas = GasLimit

\* "Record deposits as using all their gas (matches the gas pool)", taken
\* without exception: between the transactions of a block that is re-executed,
\* recorded gas and gas pool add up.  (It fails for a system transaction after
\* Regolith, which preCheck refuses before it takes its gas from the pool.)
RecordedGasMatchesPool ==
    pc = "idle" /\ role = "verifier" => gp + usedGas = GasLimit

Supply(w) == SumFunction(w.bal)
Minted == SumFunction([i \in 1..Len(receipts) |-> receipts[i].msg.mint])

\* Between transactions the total balance is the parent's plus what the
\* included deposits minted: fees paid are fees received (tip, base fee, L1
\* fee), refunds are exact, failed deposits keep their mint and nothing else,
\* and skipped transactions leave no trace.
SupplyConserved == pc = "idle" => Supply(world) = Supply(Genesis) + Minted

\* An account's nonce moves by one for each of its transactions in the block,
\* whether it succeeded, reverted, or was a deposit that failed before the EVM.
NoncesCountInclusions ==
    pc = "idle" => \A a \in Accounts :
        world.nonce[a] = Genesis.nonce[a]
            + Cardinality({i \in 1..Len(receipts) : receipts[i].msg.from = a})

\* "If the transaction created a contract, store the creation address in the
\* receipt": the address derived from the receipt's nonce holds the contract.
ContractAddressRecorded ==
    pc = "idle" => \A i \in 1..Len(receipts) :
        LET r == receipts[i]
        IN  r.ok /\ r.msg.to = Creation => <<r.msg.from, r.nonce>> \in world.created

\* What the sequencer seals, a verifier accepts: re-execution reaches the same
\* gas, receipts and state, although the verifier's L1 closure lives for the
\* block and it never sees the transactions the sequencer skipped.
SealedBlockAccepted ==
    pc = "rejected" => Regolith /\ \E i \in 1..Len(block) : IsSystemTx(block[i].msg)

\* Building and re-executing a block comes to an end: every transaction popped
\* from the pool or the forced list shrinks it, whatever its fate.
BlockDone == <>(pc \in Terminal)
-----------------------------------------------------------------------------
Busy == pc \in {"preCheck", "intrinsic", "evm", "refund", "fees", "result"}

\* Gas taken from the pool for the current message and not yet recorded.
Held ==
    IF pc \in {"intrinsic", "evm"} THEN (IF IsSystemTx(msg) THEN 0 ELSE msg.gas)
    ELSE IF pc = "refund" THEN msg.gas
    ELSE IF pc = "fees" THEN gasUsed
    ELSE IF pc # "result" THEN 0
    ELSE IF result.err = "none" THEN result.used
    ELSE IF result.err = "Other" /\ msg.kind = "deposit" THEN msg.gas ELSE 0

\* GasAccounted, strengthened to every step of a transition: what the pool,
\* the receipts and the message in progress hold adds up to the block's gas.
GasLedger ==
    NoRegolithSystemTx /\ pc \notin Terminal
        /\ ~(pc = "result" /\ IsSystemTx(msg) /\ Regolith) =>
        /\ gp + usedGas + Held <= GasLimit
        /\ role = "verifier" /\ ~(pc = "result" /\ result.err # "none" /\ ~IsDepositTx(msg)) =>
              gp + usedGas + Held = GasLimit

GasStages ==
    /\ Busy => msg \in Messages
    /\ pc \in {"intrinsic", "evm", "refund"} => st.initialGas = msg.gas
    /\ pc \in {"intrinsic", "evm", "refund", "fees"} => st.gas <= st.initialGas
    /\ pc \in {"intrinsic", "evm"} /\ IsSystemTx(msg) => ~Regolith
    /\ pc \in {"refund", "fees"} => ~IsSystemTx(msg)
    /\ Busy /\ role = "sequencer" /\ forced = <<>> =>
          msg.kind = "normal" /\ pool[msg.from] # <<>>
    /\ pc = "result" /\ IsDepositTx(msg) => result.err \notin {"NonceTooLow", "NonceTooHigh"}

\* The inductive invariant behind TypeOK and GasAccounted.
GasInv == TypeOK /\ GasStages /\ GasLedger
=============================================================================
