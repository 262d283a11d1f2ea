------------------------ MODULE BlockExecutionProofs -------------------------
(***************************************************************************)
(* Proofs about BlockExecution, for all messages, pools, blocks and gas    *)
(* limits: the gas of a block, and what it does to the state (balances add *)
(* up, nonces count inclusions, and receipts point at the contracts they   *)
(* created).                                                               *)
(*                                                                         *)
(* The argument: Outcome is one message applied in one step, a function of *)
(* the snapshot, the message, the EVM's effect and the L1 cost.  Stages    *)
(* says how far a transition in progress has come towards Outcome, so that *)
(* an included message has had exactly that effect.  The ledgers follow    *)
(* from what Outcome does to balances, nonces and contracts.               *)
(***************************************************************************)
EXTENDS BlockExecution, FiniteSetTheorems, WellFoundedInduction, TLAPS

\* Adding to a balance or counting up a nonce keeps a world a world.
LEMMA AddBalanceType ==
    ASSUME NEW w \in Worlds, NEW a \in Accounts, NEW x \in Int
    PROVE  AddBalance(w, a, x) \in Worlds
  BY DEF AddBalance, Worlds

LEMMA IncNonceType ==
    ASSUME NEW w \in Worlds, NEW a \in Accounts
    PROVE  IncNonce(w, a) \in Worlds
  BY DEF IncNonce, Worlds

\* The fields of a message have the types of MessageFields.
LEMMA MessageType ==
    ASSUME NEW m \in Messages
    PROVE  /\ m \in MessageFields
           /\ m.from \in Accounts /\ m.gas \in Nat /\ m.intrinsic \in Nat
           /\ m.value \in Nat /\ m.mint \in Nat /\ m.tipCap \in Nat /\ m.feeCap \in Nat
           /\ m.zeroes \in Nat /\ m.ones \in Nat /\ m.nonce \in Nat
           /\ m.kind \in Kinds /\ m.oversized \in BOOLEAN
  BY MessagesAssumption DEF MessageFields

LEMMA FeeTypes ==
    ASSUME NEW m \in Messages, TypeOK
    PROVE  /\ GasPrice(m) \in Int
           /\ EffectiveTip(m.tipCap, m.feeCap, BaseFee) \in Int
           /\ L1CostFunc(m) \in Int
           /\ L1Attributes \in L1Params
  <1>1. GasPrice(m) \in Int
    BY MessageType, NumbersAssumption DEF GasPrice, EffectiveGasPrice, Lower
  <1>2. EffectiveTip(m.tipCap, m.feeCap, BaseFee) \in Int
    BY MessageType, NumbersAssumption DEF EffectiveTip, Lower
  <1>3. L1Attributes \in L1Params
    BY DEF L1Attributes, TypeOK, Worlds
  <1>4. L1CostFunc(m) \in Int
    <2>1. DataGas(m.zeroes, m.ones, Regolith) \in Nat
      BY MessageType, NumbersAssumption
         DEF DataGas, TxDataZeroGas, TxDataNonZeroGasEIP2028
    <2>2. /\ L1Attributes.baseFee \in Nat
          /\ L1Attributes.overhead \in Nat
          /\ L1Attributes.scalar \in Nat
      BY <1>3, L1Assumption
    <2>3. L1Cost(DataGas(m.zeroes, m.ones, Regolith), L1Attributes) \in Int
      BY <2>1, <2>2 DEF L1Cost
    <2> QED
      BY <2>3 DEF L1CostFunc
  <1> QED
    BY <1>1, <1>2, <1>3, <1>4

\* The EVM keeps a world a world.
LEMMA ExecutedType ==
    ASSUME NEW w \in Worlds, NEW m \in Messages, NEW g \in Nat, NEW e \in Effects(m, g)
    PROVE  /\ Executed(w, m, e) \in Worlds
           /\ e.left \in Nat /\ e.left <= g /\ e.refund \in Nat /\ e.ok \in BOOLEAN
           /\ e \in EffectValues
  <1>1. /\ e.left \in 0..g /\ e.refund \in 0..MaxRefund /\ e.ok \in BOOLEAN
        /\ e.dest \in Accounts /\ e.l1 \in L1Params \cup {NoL1}
        /\ e = [ok |-> e.ok, left |-> e.left, refund |-> e.refund, dest |-> e.dest, l1 |-> e.l1]
    BY MessageType, AccountsAssumption DEF Effects
  <1>2. e \in EffectValues
    BY <1>1, NumbersAssumption DEF EffectValues
  <1> DEFINE called == IncNonce(w, m.from)
             taken == AddBalance(called, m.from, -m.value)
             paid == AddBalance(taken, e.dest, m.value)
             deployed == IF m.to = Creation
                         THEN [paid EXCEPT !.created = @ \cup {<<m.from, w.nonce[m.from]>>}]
                         ELSE paid
  <1>3. called \in Worlds
    BY IncNonceType, MessageType
  <1>4. paid \in Worlds
    <2>1. m.from \in Accounts /\ m.value \in Int /\ -m.value \in Int
      BY MessageType
    <2>2. taken \in Worlds
      BY Zenon, <1>3, <2>1, AddBalanceType
    <2> QED BY Zenon, <1>1, <2>1, <2>2, AddBalanceType
  <1>5. <<m.from, w.nonce[m.from]>> \in Accounts \X Nat
    BY MessageType DEF Worlds
  <1>6. deployed \in Worlds
    <2> HIDE DEF called, paid
    <2> QED BY <1>4, <1>5 DEF Worlds
  <1>7. CASE e.l1 = NoL1
    BY <1>1, <1>2, <1>3, <1>6, <1>7, NumbersAssumption DEF Executed
  <1>8. CASE e.l1 # NoL1
    <2>1. e.l1 \in L1Params
      BY <1>1, <1>8
    <2>2. [deployed EXCEPT !.l1 = e.l1] \in Worlds
      <3> HIDE DEF deployed
      <3> QED BY <1>6, <2>1 DEF Worlds
    <2> QED
      BY <1>1, <1>2, <1>3, <1>8, <2>2, NumbersAssumption DEF Executed
  <1> QED
    BY <1>7, <1>8

\* The initial state satisfies the inductive invariant.
LEMMA GasInvInit == Init => GasInv
  <1> SUFFICES ASSUME Init PROVE GasInv
    OBVIOUS
  <1>1. /\ pool \in [Accounts -> Seq(Messages)]
        /\ \A a \in Accounts : pool[a] \in Seq(SentBy(a))
    <2>1. PICK pending \in PoolStates : pool = [a \in Accounts |-> Wrap(pending[a])]
      BY DEF Init
    <2>2. \A a \in Accounts : pending[a] \in Seq(Messages) /\ pending[a] \in Seq(SentBy(a))
      BY BlockAssumption
    <2>3. \A a \in Accounts :
             Wrap(pending[a]) \in Seq(Messages) /\ Wrap(pending[a]) \in Seq(SentBy(a))
      BY <2>2 DEF Wrap
    <2> QED BY <2>1, <2>3
  <1>2. TypeOK
    BY <1>1, BlockAssumption, NumbersAssumption
       DEF Init, TypeOK, NoResult, Errors, EffectValues, Terminal, Headers
  <1>3. GasStages
    BY DEF Init, GasStages, Busy
  <1>4. GasLedger
    BY NumbersAssumption DEF Init, GasLedger, Held
  <1> QED BY <1>2, <1>3, <1>4 DEF GasInv

-----------------------------------------------------------------------------
\* Starting a message, by the sequencer or by the verifier.
LEMMA StartStep ==
    ASSUME GasInv, NEW m \in Messages, TransitionDb(m), gp' = gp,
           outer' \in Worlds, cache' \in L1Params \cup {NoL1}, effect' \in EffectValues,
           UNCHANGED <<role, forced, pool, usedGas, receipts, block, sealed>>,
           role = "sequencer" /\ forced = <<>> => m.kind = "normal" /\ pool[m.from] # <<>>
    PROVE  GasInv'
  <1>1. world' \in Worlds
    BY AddBalanceType, MessageType DEF GasInv, TypeOK, TransitionDb, SnapshotMinted
  <1>2. TypeOK'
    BY <1>1 DEF GasInv, TypeOK, TransitionDb, SnapshotMinted, NoResult, Errors
  <1>3. GasStages'
    BY DEF GasStages, TransitionDb, SnapshotMinted
  <1>4. GasLedger'
    BY DEF GasInv, GasLedger, Held, TransitionDb, SnapshotMinted, NoRegolithSystemTx, Terminal
  <1> QED BY <1>2, <1>3, <1>4 DEF GasInv

LEMMA PickStep ==
    ASSUME GasInv, PickForced \/ (\E a \in Accounts : PickPool(a))
    PROVE  GasInv'
  <1>1. \E m \in Messages :
            /\ CommitTransaction(m)
            /\ role = "sequencer" /\ forced = <<>> => m.kind = "normal" /\ pool[m.from] # <<>>
    <2>1. CASE PickForced
      BY <2>1 DEF PickForced, GasInv, TypeOK
    <2>2. CASE \E a \in Accounts : PickPool(a)
      <3>1. PICK a \in Accounts : PickPool(a)
        BY <2>2
      <3>2. Head(pool[a]) \in SentBy(a)
        BY <3>1 DEF PickPool, GasInv, TypeOK
      <3>3. /\ Head(pool[a]) \in Messages /\ Head(pool[a]).from = a
            /\ Head(pool[a]).kind = "normal"
        BY <3>2 DEF SentBy
      <3> QED BY <3>1, <3>3 DEF PickPool
    <2> QED BY <2>1, <2>2
  <1>2. PICK m \in Messages :
            /\ CommitTransaction(m)
            /\ role = "sequencer" /\ forced = <<>> => m.kind = "normal" /\ pool[m.from] # <<>>
    BY <1>1
  <1> QED
    BY <1>2, StartStep DEF CommitTransaction, GasInv, TypeOK, EffectValues

LEMMA ProcessNextStep ==
    ASSUME GasInv, ProcessNext
    PROVE  GasInv'
  <1>1. block[Len(receipts) + 1] \in [msg: Messages, effect: EffectValues]
    <2>1. /\ block \in Seq([msg: Messages, effect: EffectValues])
          /\ Len(receipts) \in Nat /\ Len(receipts) < Len(block)
      BY DEF ProcessNext, GasInv, TypeOK
    <2>2. Len(receipts) + 1 \in 1..Len(block)
      BY <2>1
    <2>3. \A i \in 1..Len(block) : block[i] \in [msg: Messages, effect: EffectValues]
      <3> DEFINE T == [msg: Messages, effect: EffectValues]
      <3>1. block \in Seq(T) BY <2>1
      <3> HIDE DEF T
      <3>2. \A i \in 1..Len(block) : block[i] \in T BY <3>1
      <3> QED BY <3>2 DEF T
    <2> QED BY <2>2, <2>3
  <1>2. block[Len(receipts) + 1].msg \in Messages
    BY <1>1
  <1> QED
    BY Zenon, <1>2, StartStep DEF ProcessNext, GasInv, TypeOK, EffectValues

\* What Finish leaves behind.
LEMMA FinishType ==
    ASSUME NEW err \in Errors, NEW used \in Nat, NEW ok \in BOOLEAN, Finish(err, used, ok)
    PROVE  /\ result' \in [err: Errors, used: Nat, ok: BOOLEAN]
           /\ result'.err = err /\ result'.used = used /\ result'.ok = ok
           /\ pc' = "result"
  BY DEF Finish

\* What the steps inside a transition leave alone.
LEMMA BlockUnchanged ==
    ASSUME UNCHANGED blkVars
    PROVE  /\ UNCHANGED <<role, forced, pool, outer, effect, usedGas, receipts, block, sealed>>
           /\ NoRegolithSystemTx' <=> NoRegolithSystemTx
  BY DEF blkVars, NoRegolithSystemTx

\* The types of the counters, for the steps that only do arithmetic on them.
LEMMA Counters ==
    ASSUME GasInv
    PROVE  /\ gp \in Nat /\ usedGas \in Nat /\ GasLimit \in Nat
           /\ st.gas \in Nat /\ st.initialGas \in Nat /\ st.refund \in Nat
           /\ st = [gas |-> st.gas, initialGas |-> st.initialGas, refund |-> st.refund]
           /\ result.used \in Nat /\ result.err \in Errors /\ result.ok \in BOOLEAN
           /\ Busy => /\ msg \in Messages /\ msg.gas \in Nat /\ msg.intrinsic \in Nat
                      /\ msg.kind \in Kinds /\ msg.from \in Accounts
  BY MessageType, NumbersAssumption DEF GasInv, GasStages, TypeOK

\* A sum stays under its bound when one of its terms shrinks.
LEMMA SmallerTerm ==
    ASSUME NEW a \in Nat, NEW b \in Nat, NEW h \in Nat, NEW h2 \in Nat, NEW l \in Nat,
           a + b + h <= l, h2 <= h
    PROVE  a + b + h2 <= l
  OBVIOUS

\* preCheck of a deposit: its gas moves from the pool to the message.
LEMMA PreCheckDepositStep ==
    ASSUME GasInv, PreCheckDeposit, UNCHANGED blkVars
    PROVE  GasInv'
  <1>1. msg \in Messages /\ msg.gas \in Nat /\ msg.kind \in Kinds /\ gp \in Nat
    BY Zenon, Counters DEF PreCheckDeposit, SubGas, Busy
  <1>2. /\ gp' \in Nat /\ pc' \in {"result", "intrinsic"}
        /\ st' \in [gas: Nat, initialGas: Nat, refund: Nat]
        /\ result' \in [err: Errors, used: Nat, ok: BOOLEAN]
    <2>1. result \in [err: Errors, used: Nat, ok: BOOLEAN]
      BY DEF GasInv, TypeOK
    <2>2. gp' \in Nat /\ pc' \in {"result", "intrinsic"}
      BY <1>1 DEF PreCheckDeposit, SubGas, Finish
    <2>3. result' \in [err: Errors, used: Nat, ok: BOOLEAN]
      <3>1. result' = result \/ \E err \in Errors : Finish(err, 0, FALSE)
        BY Zenon DEF PreCheckDeposit, SubGas, Errors
      <3>2. CASE result' = result
        BY <2>1, <3>2
      <3>3. CASE \E err \in Errors : Finish(err, 0, FALSE)
        BY Zenon, <3>3, FinishType
      <3> QED BY Zenon, <3>1, <3>2, <3>3
    <2> QED BY Zenon, <1>1, <2>2, <2>3 DEF PreCheckDeposit, SubGas
  <1>3. TypeOK'
    BY Zenon, <1>2, BlockUnchanged DEF PreCheckDeposit, SubGas, GasInv, TypeOK
  <1>4. GasStages'
    BY <1>1, BlockUnchanged DEF GasInv, PreCheckDeposit, SubGas, Finish, GasStages, Busy, IsSystemTx
  <1>5. GasLedger'
    <2>1. Held = 0 /\ pc \notin Terminal /\ pc # "result"
      BY Zenon DEF PreCheckDeposit, SubGas, Held, Terminal
    <2>2. CASE IsSystemTx(msg) /\ Regolith
      BY <2>2, Counters DEF PreCheckDeposit, SubGas, Finish, GasLedger, IsSystemTx
    <2>3. CASE ~(IsSystemTx(msg) /\ Regolith)
      <3>1. gp' + Held' = gp
        BY <1>1, <2>3 DEF PreCheckDeposit, SubGas, Finish, Held, IsSystemTx
      <3>2. Held' \in Nat
        BY <1>1, <2>3 DEF PreCheckDeposit, SubGas, Finish, Held, IsSystemTx
      <3> QED
        BY <1>1, <1>2, <2>1, <3>1, <3>2, Counters, BlockUnchanged DEF GasInv, GasLedger
    <2> QED BY <2>2, <2>3
  <1> QED BY <1>3, <1>4, <1>5 DEF GasInv

\* preCheck of an ordinary message that is refused: the pool is untouched.
LEMMA PreCheckRefusedStep ==
    ASSUME GasInv, PreCheckRefused, UNCHANGED blkVars
    PROVE  GasInv'
  <1>1. msg \in Messages /\ gp \in Nat /\ msg.kind \in Kinds
    BY Zenon, Counters DEF PreCheckRefused, Busy
  <1>2. cache' \in L1Params \cup {NoL1}
    <2>1. cache \in L1Params \cup {NoL1} /\ L1Attributes \in L1Params
      BY Zenon, <1>1, FeeTypes DEF GasInv, TypeOK
    <2> QED BY Zenon, <2>1 DEF PreCheckRefused, FillCache
  <1>3. /\ pc' = "result"
        /\ result' \in [err: Errors, used: Nat, ok: BOOLEAN]
        /\ result'.err # "none"
    <2>1. NonceError(msg) \in Errors
      BY DEF NonceError, Errors
    <2>2. \E err \in Errors \ {"none"} : Finish(err, 0, FALSE)
      BY Zenon, <2>1 DEF PreCheckRefused, Errors
    <2> QED BY Zenon, <2>2, FinishType
  <1>4. TypeOK'
    BY Zenon, <1>2, <1>3, BlockUnchanged DEF PreCheckRefused, GasInv, TypeOK
  <1>5. GasStages'
    BY Zenon, <1>1, <1>3, BlockUnchanged DEF GasInv, PreCheckRefused, GasStages, Busy, IsDepositTx
  <1>6. GasLedger'
    <2>1. Held = 0 /\ pc \notin Terminal /\ pc # "result"
      BY Zenon DEF PreCheckRefused, Held, Terminal
    <2>2. Held' = 0 /\ gp' = gp /\ msg' = msg
      BY Zenon, <1>3 DEF PreCheckRefused, Held, IsDepositTx
    <2> QED
      BY Zenon, <1>3, <2>1, <2>2, Counters, BlockUnchanged DEF GasInv, GasLedger, PreCheckRefused, IsDepositTx
  <1> QED BY <1>4, <1>5, <1>6 DEF GasInv

\* buyGas: the gas of the message moves from the pool to the message.
LEMMA BuyGasStep ==
    ASSUME GasInv, BuyGas, UNCHANGED blkVars
    PROVE  GasInv'
  <1>1. msg \in Messages /\ msg.gas \in Nat /\ msg.kind \in Kinds /\ msg.from \in Accounts
    BY Zenon, Counters DEF BuyGas, SubGas, Busy
  <1>2. -(msg.gas * GasPrice(msg) + L1CostFunc(msg)) \in Int
    <2>1. GasPrice(msg) \in Int /\ L1CostFunc(msg) \in Int
      BY Zenon, <1>1, FeeTypes DEF GasInv
    <2> QED BY <1>1, <2>1
  <1>3. world' \in Worlds
    BY Zenon, <1>1, <1>2, AddBalanceType DEF BuyGas, SubGas, GasInv, TypeOK
  <1>4. cache' \in L1Params \cup {NoL1}
    BY Zenon, <1>1, FeeTypes DEF BuyGas, SubGas, FillCache, GasInv, TypeOK
  <1>5. gp' \in Nat /\ st' \in [gas: Nat, initialGas: Nat, refund: Nat]
    BY <1>1, Counters DEF BuyGas, SubGas
  <1>6. TypeOK'
    BY Zenon, <1>3, <1>4, <1>5, BlockUnchanged DEF BuyGas, SubGas, GasInv, TypeOK
  <1>7. GasStages'
    <2>1. /\ pc = "preCheck" /\ pc' = "intrinsic" /\ msg' = msg /\ ~IsDepositTx(msg)
          /\ st'.gas = msg.gas /\ st'.initialGas = msg.gas
      BY Zenon DEF BuyGas
    <2>2. GasStages /\ UNCHANGED <<role, forced, pool>>
      BY Zenon, BlockUnchanged DEF GasInv
    <2>3. ~IsSystemTx(msg)
      BY Zenon, <2>1 DEF IsDepositTx, IsSystemTx
    <2>4. role = "sequencer" /\ forced = <<>> => msg.kind = "normal" /\ pool[msg.from] # <<>>
      BY Zenon, <2>1, <2>2 DEF GasStages, Busy
    <2>5. st'.gas <= st'.initialGas
      BY <1>1, <2>1
    <2> QED BY Zenon, <1>1, <2>1, <2>2, <2>3, <2>4, <2>5 DEF GasStages
  <1>8. GasLedger'
    <2>1. Held = 0 /\ pc \notin Terminal /\ pc # "result"
      BY Zenon DEF BuyGas, SubGas, Held, Terminal
    <2>2. Held' = msg.gas /\ gp' = gp - msg.gas
      BY Zenon DEF BuyGas, SubGas, Held, IsDepositTx, IsSystemTx
    <2> QED
      BY <1>1, <2>1, <2>2, Counters, BlockUnchanged DEF GasInv, GasLedger
  <1> QED BY <1>6, <1>7, <1>8 DEF GasInv

LEMMA IntrinsicGasStep ==
    ASSUME GasInv, IntrinsicGas, UNCHANGED blkVars
    PROVE  GasInv'
  <1>1. /\ msg \in Messages /\ msg.gas \in Nat /\ msg.intrinsic \in Nat /\ msg.kind \in Kinds
        /\ st.gas \in Nat /\ st.initialGas \in Nat /\ st.refund \in Nat
        /\ st = [gas |-> st.gas, initialGas |-> st.initialGas, refund |-> st.refund]
    BY Zenon, Counters DEF IntrinsicGas, Busy
  <1>2. CASE ~PreparedOk(msg)
    <2>1. Finish("Other", 0, FALSE) /\ UNCHANGED <<st, world, snap, gp, msg, cache>>
      BY Zenon, <1>2 DEF IntrinsicGas
    <2>2. TypeOK'
      BY Zenon, <2>1, BlockUnchanged DEF Finish, Errors, GasInv, TypeOK
    <2>3. GasStages'
      BY <1>1, <2>1, BlockUnchanged DEF IntrinsicGas, GasInv, Finish, GasStages, Busy
    <2>4. GasLedger'
      <3>1. Held' = Held \/ ~IsDepositTx(msg)
        BY <1>1, <2>1 DEF IntrinsicGas, Finish, Held, IsDepositTx, IsSystemTx, Kinds
      <3>2. Held' \in Nat /\ Held \in Nat /\ Held' <= Held
        BY <1>1, <2>1 DEF IntrinsicGas, Finish, Held, IsDepositTx, IsSystemTx, Kinds
      <3>3. pc \notin Terminal /\ pc # "result"
        BY Zenon DEF IntrinsicGas, Terminal
      <3>4. /\ gp' = gp /\ usedGas' = usedGas /\ role' = role /\ msg' = msg
            /\ pc' = "result" /\ result'.err = "Other"
            /\ gp \in Nat /\ usedGas \in Nat /\ GasLimit \in Nat
        BY Zenon, <2>1, Counters, BlockUnchanged DEF Finish
      <3>5. GasLedger /\ (NoRegolithSystemTx' <=> NoRegolithSystemTx)
        BY Zenon, BlockUnchanged DEF GasInv
      <3>6. NoRegolithSystemTx' => gp + usedGas + Held <= GasLimit
        BY Zenon, <3>3, <3>5 DEF GasLedger
      <3>7. NoRegolithSystemTx' /\ role = "verifier" => gp + usedGas + Held = GasLimit
        BY Zenon, <3>3, <3>5 DEF GasLedger
      <3>8. NoRegolithSystemTx' => gp' + usedGas' + Held' <= GasLimit
        <4>1. NoRegolithSystemTx' => gp + usedGas + Held' <= GasLimit
          BY <3>2, <3>4, <3>6, SmallerTerm, Zenon
        <4> QED BY Zenon, <3>4, <4>1
      <3>9. NoRegolithSystemTx' /\ role' = "verifier" /\ IsDepositTx(msg) =>
               gp' + usedGas' + Held' = GasLimit
        BY Zenon, <3>1, <3>2, <3>4, <3>7
      <3> QED
        BY Zenon, <3>4, <3>8, <3>9 DEF GasLedger
    <2> QED BY <2>2, <2>3, <2>4 DEF GasInv
  <1>3. CASE PreparedOk(msg)
    <2>1. /\ st' = [st EXCEPT !.gas = @ - msg.intrinsic] /\ pc' = "evm" /\ pc = "intrinsic"
          /\ UNCHANGED <<result, world, snap, gp, msg, cache>>
      BY <1>3 DEF IntrinsicGas
    <2>2. /\ st' \in [gas: Nat, initialGas: Nat, refund: Nat]
          /\ st'.initialGas = st.initialGas /\ st'.gas <= st.gas
      BY <1>1, <1>3, <2>1 DEF PreparedOk
    <2>3. TypeOK'
      BY Zenon, <2>1, <2>2, BlockUnchanged DEF GasInv, TypeOK
    <2>4. GasStages'
      BY <1>1, <2>1, <2>2, BlockUnchanged DEF GasInv, GasStages, Busy
    <2>5. GasLedger'
      BY <2>1, BlockUnchanged DEF GasInv, GasLedger, Held, Terminal
    <2> QED BY <2>3, <2>4, <2>5 DEF GasInv
  <1> QED BY <1>2, <1>3

\* The EVM hands back at most the gas it was given.
LEMMA ExecuteStep ==
    ASSUME GasInv, NEW e, Execute(e)
    PROVE  GasInv'
  <1>1. /\ msg \in Messages /\ msg.gas \in Nat /\ msg.kind \in Kinds
        /\ st.gas \in Nat /\ st.initialGas \in Nat
        /\ st = [gas |-> st.gas, initialGas |-> st.initialGas, refund |-> st.refund]
        /\ pc = "evm" /\ st.gas <= st.initialGas /\ st.initialGas = msg.gas
        /\ IsSystemTx(msg) => ~Regolith
    BY Zenon, Counters DEF Execute, Evm, DepositGasUsed, Busy, GasInv, GasStages
  <1>2. /\ world' \in Worlds /\ effect' \in EffectValues
        /\ e.left \in Nat /\ e.left <= st.gas /\ e.refund \in Nat /\ e.ok \in BOOLEAN
    BY Zenon, <1>1, ExecutedType DEF Execute, Evm, DepositGasUsed, GasInv, TypeOK
  <1>3. /\ UNCHANGED <<snap, gp, msg, cache, role, forced, pool, outer, usedGas, receipts, block, sealed>>
        /\ NoRegolithSystemTx' <=> NoRegolithSystemTx
    BY DEF Execute, Evm, DepositGasUsed, NoRegolithSystemTx
  <1>4. CASE IsDepositTx(msg) /\ ~Regolith
    <2>1. Finish("none", IF IsSystemTx(msg) THEN 0 ELSE msg.gas, e.ok) /\ UNCHANGED st
      BY <1>4 DEF Execute, Evm, DepositGasUsed
    <2>2. TypeOK'
      BY Zenon, <1>1, <1>2, <1>3, <2>1 DEF Finish, Errors, GasInv, TypeOK
    <2>3. GasStages'
      BY Zenon, <1>1, <1>3, <2>1, BlockUnchanged DEF GasInv, Finish, GasStages, Busy
    <2>4. Held' = Held
      BY Zenon, <1>1, <1>3, <2>1 DEF Finish, Held
    <2>5. GasLedger'
      BY Zenon, <1>1, <1>3, <1>4, <2>1, <2>4 DEF Finish, GasInv, GasLedger, Terminal
    <2> QED BY <2>2, <2>3, <2>5 DEF GasInv
  <1>5. CASE ~(IsDepositTx(msg) /\ ~Regolith)
    <2>1. /\ st' = [st EXCEPT !.gas = e.left, !.refund = e.refund]
          /\ result' = [err |-> "none", used |-> 0, ok |-> e.ok]
          /\ pc' = "refund"
      BY <1>5 DEF Execute, Evm, DepositGasUsed
    <2>2. /\ st' \in [gas: Nat, initialGas: Nat, refund: Nat]
          /\ st'.initialGas = st.initialGas /\ st'.gas <= st'.initialGas
      <3>1. st' = [gas |-> e.left, initialGas |-> st.initialGas, refund |-> e.refund]
        BY Zenon, <1>1, <2>1
      <3>2. e.left <= st.initialGas
        BY <1>1, <1>2
      <3> QED BY Zenon, <1>1, <1>2, <3>1, <3>2
    <2>3. ~IsSystemTx(msg)
      BY Zenon, <1>1, <1>5 DEF IsDepositTx, IsSystemTx
    <2>4. TypeOK'
      BY Zenon, <1>2, <1>3, <2>1, <2>2 DEF Errors, GasInv, TypeOK
    <2>5. GasStages'
      BY Zenon, <1>1, <1>3, <2>1, <2>2, <2>3, BlockUnchanged DEF GasInv, GasStages, Busy
    <2>6. Held' = Held
      BY <1>1, <1>3, <2>1, <2>3 DEF Held
    <2>7. GasLedger'
      BY <1>1, <1>3, <2>1, <2>6 DEF GasInv, GasLedger, Terminal
    <2> QED BY <2>4, <2>5, <2>7 DEF GasInv
  <1> QED BY <1>4, <1>5

\* refundGas: what is left goes back to the pool, the rest is the gas used.
LEMMA RefundGasStep ==
    ASSUME GasInv, RefundGas, UNCHANGED blkVars
    PROVE  GasInv'
  <1> DEFINE left == st.gas + Lower(gasUsed \div RefundQuotientEIP3529, st.refund)
  <1>1. /\ msg \in Messages /\ msg.from \in Accounts /\ msg.gas \in Nat
        /\ st.gas \in Nat /\ st.initialGas \in Nat /\ st.refund \in Nat /\ gp \in Nat
        /\ st = [gas |-> st.gas, initialGas |-> st.initialGas, refund |-> st.refund]
        /\ pc = "refund" /\ st.gas <= st.initialGas /\ st.initialGas = msg.gas
        /\ result.ok \in BOOLEAN /\ ~IsSystemTx(msg)
    BY Zenon, Counters DEF RefundGas, AddGas, Busy, GasInv, GasStages
  <1>2. left \in Nat /\ left <= st.initialGas
    BY <1>1 DEF gasUsed, Lower, RefundQuotientEIP3529
  <1>3. /\ st' = [st EXCEPT !.gas = left]
        /\ world' = AddBalance(world, msg.from, left * GasPrice(msg))
        /\ gp' = gp + left
        /\ UNCHANGED <<snap, msg, cache>>
    BY DEF RefundGas, AddGas
  <1> HIDE DEF left
  <1>4. world' \in Worlds
    <2>1. left * GasPrice(msg) \in Int
      BY <1>1, <1>2, FeeTypes DEF GasInv
    <2> QED BY Zenon, <1>1, <1>3, <2>1, AddBalanceType DEF GasInv, TypeOK
  <1>5. /\ st' = [gas |-> left, initialGas |-> st.initialGas, refund |-> st.refund]
        /\ gp' \in Nat /\ gasUsed' = st.initialGas - left /\ gasUsed' \in Nat
    BY <1>1, <1>2, <1>3 DEF gasUsed
  <1>6. CASE IsDepositTx(msg)
    <2>1. Finish("none", st.initialGas - left, result.ok)
      BY <1>6 DEF RefundGas, AddGas, left
    <2>2. /\ result' \in [err: Errors, used: Nat, ok: BOOLEAN] /\ pc' = "result"
          /\ result'.err = "none" /\ result'.used = st.initialGas - left
      <3>1. st.initialGas - left \in Nat
        BY <1>1, <1>2
      <3> QED BY <1>1, <2>1, <3>1, FinishType DEF Errors
    <2>3. TypeOK'
      BY Zenon, <1>1, <1>2, <1>3, <1>4, <1>5, <2>2, BlockUnchanged DEF GasInv, TypeOK
    <2>4. GasStages'
      BY <1>1, <1>3, <2>2, BlockUnchanged DEF GasInv, GasStages, Busy
    <2>5. Held = st.initialGas /\ Held' = st.initialGas - left
      BY Zenon, <1>1, <2>2 DEF Held
    <2>6. GasLedger'
      BY <1>1, <1>2, <1>3, <1>6, <2>2, <2>5, Counters, BlockUnchanged
         DEF GasInv, GasLedger, Terminal
    <2> QED BY <2>3, <2>4, <2>6 DEF GasInv
  <1>7. CASE ~IsDepositTx(msg)
    <2>1. pc' = "fees" /\ UNCHANGED result
      BY <1>7 DEF RefundGas, AddGas
    <2>2. TypeOK'
      BY Zenon, <1>1, <1>2, <1>3, <1>4, <1>5, <2>1, BlockUnchanged DEF GasInv, TypeOK
    <2>3. GasStages'
      BY Zenon, <1>1, <1>2, <1>3, <1>5, <2>1, BlockUnchanged DEF GasInv, GasStages, Busy
    <2>4. Held = st.initialGas /\ Held' = st.initialGas - left
      BY Zenon, <1>1, <1>5, <2>1 DEF Held
    <2>5. GasLedger'
      BY <1>1, <1>2, <1>3, <2>1, <2>4, Counters, BlockUnchanged
         DEF GasInv, GasLedger, Terminal
    <2> QED BY <2>2, <2>3, <2>5 DEF GasInv
  <1> QED BY <1>6, <1>7

\* Paying the fees moves balances and records the gas used.
LEMMA PayFeesStep ==
    ASSUME GasInv, PayFees, UNCHANGED blkVars
    PROVE  GasInv'
  <1>1. /\ msg \in Messages /\ st.gas \in Nat /\ st.initialGas \in Nat
        /\ st.gas <= st.initialGas /\ pc = "fees" /\ result.ok \in BOOLEAN /\ ~IsSystemTx(msg)
    BY Zenon, Counters DEF PayFees, Busy, GasInv, GasStages
  <1>2. gasUsed \in Nat
    BY <1>1 DEF gasUsed
  <1>3. world' \in Worlds /\ cache' \in L1Params \cup {NoL1}
    <2>1. /\ EffectiveTip(msg.tipCap, msg.feeCap, BaseFee) \in Int /\ L1CostFunc(msg) \in Int
          /\ L1Attributes \in L1Params /\ BaseFee \in Int
      BY <1>1, FeeTypes, NumbersAssumption DEF GasInv
    <2>2. /\ gasUsed * EffectiveTip(msg.tipCap, msg.feeCap, BaseFee) \in Int
          /\ gasUsed * BaseFee \in Int
      BY <1>2, <2>1
    <2> DEFINE tipped == AddBalance(world, Coinbase,
                            gasUsed * EffectiveTip(msg.tipCap, msg.feeCap, BaseFee))
               burnt == AddBalance(tipped, BaseFeeRecipient, gasUsed * BaseFee)
    <2>3. tipped \in Worlds
      BY Zenon, <2>2, AddBalanceType, AccountsAssumption DEF GasInv, TypeOK
    <2>4. burnt \in Worlds
      <3> HIDE DEF tipped
      <3> QED BY Zenon, <2>2, <2>3, AddBalanceType, AccountsAssumption
    <2>5. world' = AddBalance(burnt, L1FeeRecipient, L1CostFunc(msg))
      BY Zenon DEF PayFees
    <2>6. world' \in Worlds
      <3> HIDE DEF burnt
      <3> QED BY Zenon, <2>1, <2>4, <2>5, AddBalanceType, AccountsAssumption
    <2> QED BY Zenon, <2>1, <2>6 DEF PayFees, FillCache, GasInv, TypeOK
  <1>4. /\ result' \in [err: Errors, used: Nat, ok: BOOLEAN] /\ pc' = "result"
        /\ result'.err = "none" /\ result'.used = gasUsed
    BY <1>1, <1>2, FinishType DEF PayFees, Errors
  <1>5. TypeOK'
    BY <1>3, <1>4, BlockUnchanged DEF PayFees, GasInv, TypeOK
  <1>6. GasStages'
    BY Zenon, <1>1, <1>4, BlockUnchanged DEF GasInv, PayFees, GasStages, Busy
  <1>7. Held = gasUsed /\ Held' = gasUsed /\ gp' = gp /\ msg' = msg
    BY Zenon, <1>1, <1>4 DEF Held, PayFees
  <1>8. GasLedger'
    BY Zenon, <1>1, <1>4, <1>7, BlockUnchanged DEF GasInv, GasLedger, Terminal
  <1> QED BY <1>5, <1>6, <1>8 DEF GasInv

\* A failed deposit is recorded as using the gas that was taken for it.
LEMMA FailedDepositStep ==
    ASSUME GasInv, FailedDeposit, UNCHANGED blkVars
    PROVE  GasInv'
  <1>1. /\ msg \in Messages /\ msg.gas \in Nat /\ msg.kind \in Kinds /\ msg.from \in Accounts
        /\ pc = "result" /\ result.err \in Errors
    BY Zenon, Counters DEF FailedDeposit, FailedDepositState, DepositGasUsed, Busy
  <1>2. world' \in Worlds
    BY Zenon, <1>1, IncNonceType DEF FailedDeposit, FailedDepositState, DepositGasUsed, GasInv, TypeOK
  <1> DEFINE used == IF IsSystemTx(msg) /\ ~Regolith THEN 0 ELSE msg.gas
  <1>3. /\ result' \in [err: Errors, used: Nat, ok: BOOLEAN] /\ pc' = "result"
        /\ result'.err = "none" /\ result'.used = used
    BY Zenon, <1>1, FinishType DEF FailedDeposit, FailedDepositState, DepositGasUsed, Errors
  <1>4. UNCHANGED <<snap, gp, st, msg, cache>>
    BY Zenon DEF FailedDeposit, FailedDepositState, DepositGasUsed
  <1>5. TypeOK'
    BY Zenon, <1>2, <1>3, <1>4, BlockUnchanged DEF GasInv, TypeOK
  <1>6. GasStages'
    BY Zenon, <1>1, <1>3, <1>4, BlockUnchanged DEF GasInv, GasStages, Busy
  <1>7. GasLedger'
    <2>1. CASE IsSystemTx(msg) /\ Regolith
      BY Zenon, <1>3, <1>4, <2>1 DEF GasLedger
    <2>2. CASE ~(IsSystemTx(msg) /\ Regolith)
      <3>1. result.err = "Other"
        BY Zenon, <1>1 DEF FailedDeposit, FailedDepositState, DepositGasUsed, Errors, GasInv, GasStages
      <3>2. Held' = Held
        BY Zenon, <1>1, <1>3, <1>4, <2>2, <3>1 DEF Held, FailedDeposit, FailedDepositState, DepositGasUsed, IsDepositTx, IsSystemTx, Kinds
      <3> QED
        BY Zenon, <1>1, <1>3, <1>4, <2>2, <3>2, Counters, BlockUnchanged
           DEF GasInv, GasLedger, Terminal, FailedDeposit, FailedDepositState, DepositGasUsed, IsDepositTx
    <2> QED BY <2>1, <2>2
  <1> QED BY <1>5, <1>6, <1>7 DEF GasInv

-----------------------------------------------------------------------------
\* What is left of the pool is still filed under its senders.
PoolOK == /\ pool \in [Accounts -> Seq(Messages)]
          /\ \A a \in Accounts : pool[a] \in Seq(SentBy(a))

LEMMA WrapTailType ==
    ASSUME NEW S, NEW q \in Seq(S), q # <<>>
    PROVE  Wrap(Tail(q)) \in Seq(S)
  <1>1. Tail(q) \in Seq(S)
    OBVIOUS
  <1>2. <<>> \in Seq(S)
    OBVIOUS
  <1> QED BY Zenon, <1>1, <1>2 DEF Wrap

LEMMA ShiftType ==
    ASSUME NEW m \in Messages, PoolOK, pool[m.from] # <<>>, ShiftSender(m)
    PROVE  PoolOK'
  <1>1. m.from \in Accounts
    BY Zenon, MessageType
  <1>2. /\ pool[m.from] \in Seq(Messages) /\ pool[m.from] \in Seq(SentBy(m.from))
    BY Zenon, <1>1 DEF PoolOK
  <1>3. /\ Wrap(Tail(pool[m.from])) \in Seq(Messages)
        /\ Wrap(Tail(pool[m.from])) \in Seq(SentBy(m.from))
    BY Zenon, <1>2, WrapTailType
  <1> QED BY Zenon, <1>1, <1>3 DEF ShiftSender, PoolOK

LEMMA PopType ==
    ASSUME NEW m \in Messages, PoolOK, PopSender(m)
    PROVE  PoolOK'
  BY MessageType DEF PopSender, PoolOK

\* Appending a receipt: the used gas grows by what the message held.
LEMMA IncludedStep ==
    ASSUME GasInv, Included
    PROVE  GasInv'
  <1>1. /\ msg \in Messages /\ msg.from \in Accounts /\ msg.nonce \in Nat
        /\ result.used \in Nat /\ result.ok \in BOOLEAN
        /\ pc = "result" /\ result.err = "none"
    BY Zenon, Counters, MessageType DEF Included, Busy
  <1>2. Receipt(msg) \in Receipts /\ Receipt(msg).msg = msg
    <2>1. ReceiptNonce(msg) \in Nat
      BY Zenon, <1>1 DEF ReceiptNonce, GasInv, TypeOK, Worlds
    <2> QED BY <1>1, <2>1, Counters DEF Receipt, Receipts
  <1>3. receipts' \in Seq(Receipts)
    <2>1. receipts \in Seq(Receipts) /\ receipts' = Append(receipts, Receipt(msg))
      BY Zenon DEF Included, GasInv, TypeOK
    <2> QED BY <1>2, <2>1
  <1>4. /\ block' \in Seq([msg: Messages, effect: EffectValues])
        /\ forced' \in Seq(Messages)
        /\ PoolOK'
    <2> DEFINE B == [msg: Messages, effect: EffectValues]
    <2>1. /\ block \in Seq(B) /\ forced \in Seq(Messages) /\ PoolOK
          /\ [msg |-> msg, effect |-> effect] \in B /\ role \in {"sequencer", "verifier"}
      BY Zenon, <1>1 DEF GasInv, TypeOK, PoolOK
    <2> HIDE DEF B
    <2>2. CASE role = "verifier"
      <3>1. UNCHANGED <<forced, pool, block>>
        BY Zenon, <2>2 DEF Included
      <3>2. PoolOK'
        BY Zenon, <2>1, <3>1 DEF PoolOK
      <3> QED BY Zenon, <2>1, <3>1, <3>2 DEF B
    <2>3. CASE role = "sequencer"
      <3>1. block' \in Seq(B)
        <4>1. block' = Append(block, [msg |-> msg, effect |-> effect])
          BY Zenon, <2>3 DEF Included
        <4> QED BY <2>1, <4>1
      <3>2. CASE forced # <<>>
        <4>1. forced' = Tail(forced) /\ pool' = pool
          BY Zenon, <2>3, <3>2 DEF Included
        <4>2. forced' \in Seq(Messages)
          BY <2>1, <3>2, <4>1
        <4> QED BY Zenon, <2>1, <3>1, <4>1, <4>2 DEF B, PoolOK
      <3>3. CASE forced = <<>>
        <4>1. pool[msg.from] # <<>> /\ ShiftSender(msg) /\ forced' = forced
          BY Zenon, <1>1, <2>3, <3>3 DEF Included, GasInv, GasStages, Busy
        <4>2. PoolOK'
          BY Zenon, <1>1, <2>1, <4>1, ShiftType
        <4> QED BY Zenon, <2>1, <3>1, <4>1, <4>2 DEF B
      <3> QED BY Zenon, <3>2, <3>3
    <2> QED BY Zenon, <2>1, <2>2, <2>3
  <1>5. TypeOK'
    <2>1. /\ UNCHANGED <<world, snap, gp, st, msg, cache, result, role, outer, effect, sealed>>
          /\ pc' = "idle" /\ usedGas' = usedGas + result.used
      BY Zenon DEF Included
    <2>2. usedGas' \in Nat
      BY <1>1, <2>1, Counters
    <2> QED BY Zenon, <1>3, <1>4, <2>1, <2>2 DEF GasInv, TypeOK, PoolOK
  <1>6. GasStages'
    BY Zenon DEF Included, GasStages, Busy
  <1>7. GasLedger'
    <2>1. Held = result.used /\ Held' = 0 /\ gp' = gp /\ usedGas' = usedGas + result.used
      BY Zenon, <1>1 DEF Included, Held
    <2>2. NoRegolithSystemTx' => NoRegolithSystemTx /\ ~(IsSystemTx(msg) /\ Regolith)
      <3>1. /\ receipts \in Seq(Receipts) /\ receipts' = Append(receipts, Receipt(msg))
        BY Zenon DEF Included, GasInv, TypeOK
      <3>2. /\ Len(receipts') = Len(receipts) + 1
            /\ \A i \in 1..Len(receipts) : receipts'[i] = receipts[i]
            /\ receipts'[Len(receipts) + 1] = Receipt(msg)
            /\ Len(receipts) \in Nat
        BY <3>1, <1>2
      <3>3. SUFFICES ASSUME NoRegolithSystemTx', Regolith
                     PROVE  ~IsSystemTx(msg) /\ \A i \in 1..Len(receipts) : ~IsSystemTx(receipts[i].msg)
        BY Zenon DEF NoRegolithSystemTx
      <3>4. \A i \in 1..Len(receipts') : ~IsSystemTx(receipts'[i].msg)
        BY Zenon, <3>3 DEF NoRegolithSystemTx, IsSystemTx
      <3>5. ~IsSystemTx(msg)
        <4>1. Len(receipts) + 1 \in 1..Len(receipts')
          BY <3>2
        <4>2. ~IsSystemTx(receipts'[Len(receipts) + 1].msg)
          BY Zenon, <3>4, <4>1
        <4> QED BY Zenon, <1>2, <3>2, <4>2
      <3>6. \A i \in 1..Len(receipts) : ~IsSystemTx(receipts[i].msg)
        BY <3>2, <3>4
      <3> QED BY Zenon, <3>5, <3>6
    <2>3. GasLedger /\ pc \notin Terminal /\ pc' = "idle" /\ role' = role
      BY Zenon, <1>1 DEF Included, GasInv, Terminal
    <2>4. gp \in Nat /\ usedGas \in Nat /\ GasLimit \in Nat
      BY Zenon, Counters
    <2> QED
      BY <1>1, <2>1, <2>2, <2>3, <2>4 DEF GasLedger
  <1> QED BY Zenon, <1>5, <1>6, <1>7 DEF GasInv

\* Skipping a pool transaction never makes more gas available.
LEMMA SkipPoolTxStep ==
    ASSUME GasInv, SkipPoolTx
    PROVE  GasInv'
  <1>1. /\ msg \in Messages /\ msg.from \in Accounts /\ msg.gas \in Nat /\ pc = "result"
        /\ role = "sequencer"
    BY Zenon, Counters DEF SkipPoolTx, RevertToSnapshot, Unincludable, Busy
  <1>2. PoolOK'
    <2>1. PoolOK /\ pool[msg.from] # <<>>
      BY Zenon, <1>1 DEF SkipPoolTx, RevertToSnapshot, GasInv, TypeOK, GasStages, Busy, PoolOK
    <2> QED BY Zenon, <1>1, <2>1, ShiftType, PopType DEF SkipPoolTx, RevertToSnapshot
  <1>3. TypeOK'
    BY Zenon, <1>2 DEF SkipPoolTx, RevertToSnapshot, GasInv, TypeOK, PoolOK
  <1>4. GasStages'
    BY Zenon DEF SkipPoolTx, RevertToSnapshot, GasStages, Busy
  <1>5. GasLedger'
    <2>1. Held' = 0 /\ Held \in Nat /\ gp' = gp /\ usedGas' = usedGas
      BY Zenon, <1>1, Counters DEF SkipPoolTx, RevertToSnapshot, Held
    <2>2. NoRegolithSystemTx' => NoRegolithSystemTx
      BY Zenon DEF SkipPoolTx, RevertToSnapshot, NoRegolithSystemTx
    <2>3. ~IsSystemTx(msg)
      BY Zenon, <1>1 DEF SkipPoolTx, RevertToSnapshot, GasInv, GasStages, Busy, IsSystemTx
    <2>4. pc' = "idle" /\ pc \notin Terminal /\ pc = "result" /\ role' = "sequencer"
      BY Zenon DEF SkipPoolTx, Unincludable, Terminal
    <2>5. gp \in Nat /\ usedGas \in Nat /\ Held' = 0
      BY Zenon, <2>1, Counters
    <2>6. NoRegolithSystemTx' => gp + usedGas + Held <= GasLimit
      BY Zenon, <2>2, <2>3, <2>4 DEF GasInv, GasLedger
    <2>7. gp + usedGas + Held <= GasLimit => gp' + usedGas' + Held' <= GasLimit
      <3>1. Held \in Nat /\ gp' = gp /\ usedGas' = usedGas /\ GasLimit \in Nat
        BY Zenon, <2>1, NumbersAssumption
      <3> QED BY <2>5, <3>1
    <2>8. role' # "verifier"
      BY <2>4
    <2> QED BY Zenon, <2>6, <2>7, <2>8 DEF GasLedger
  <1> QED BY <1>3, <1>4, <1>5 DEF GasInv

\* A state outside any transition: nothing is held.
LEMMA SealStep ==
    ASSUME GasInv, Seal
    PROVE  GasInv'
  <1>1. pc' \in {"idle", "rejected"}
    BY Zenon DEF Seal
  <1>2. TypeOK'
    <2>1. sealed' \in Headers
      BY Zenon DEF Seal, GasInv, TypeOK, Headers
    <2>2. world' \in Worlds /\ gp' \in Nat /\ receipts' \in Seq(Receipts) /\ usedGas' \in Nat
      BY BlockAssumption, NumbersAssumption DEF Seal
    <2> QED BY Zenon, <1>1, <2>1, <2>2 DEF Seal, GasInv, TypeOK, Terminal
  <1>3. GasStages'
    BY Zenon, <1>1 DEF GasStages, Busy
  <1>4. GasLedger'
    <2>1. Held' = 0
      BY Zenon, <1>1 DEF Held
    <2>2. gp' = GasLimit /\ usedGas' = 0 /\ GasLimit \in Nat
      BY Zenon, NumbersAssumption DEF Seal
    <2> QED BY <2>1, <2>2 DEF GasLedger
  <1> QED BY <1>2, <1>3, <1>4 DEF GasInv

LEMMA EndStep ==
    ASSUME GasInv, GiveUp \/ ValidateState
    PROVE  GasInv'
  <1>1. pc' \in Terminal /\ world' \in Worlds
        /\ UNCHANGED <<snap, gp, st, msg, cache, result, blkVars>>
    BY Zenon DEF GiveUp, RevertToSnapshot, ValidateState, Terminal, GasInv, TypeOK
  <1>2. TypeOK'
    BY Zenon, <1>1, BlockUnchanged DEF GasInv, TypeOK
  <1>3. GasStages'
    BY Zenon, <1>1 DEF GasStages, Busy, Terminal
  <1>4. GasLedger'
    BY Zenon, <1>1 DEF GasLedger
  <1> QED BY Zenon, <1>2, <1>3, <1>4 DEF GasInv

LEMMA StutterStep ==
    ASSUME GasInv, UNCHANGED vars
    PROVE  GasInv'
  <1>1. UNCHANGED stVars /\ UNCHANGED blkVars
    BY Zenon DEF vars
  <1>2. TypeOK'
    BY Zenon, <1>1 DEF stVars, blkVars, GasInv, TypeOK
  <1>3. GasStages'
    BY Zenon, <1>1 DEF stVars, blkVars, GasInv, GasStages, Busy
  <1>4. GasLedger'
    <2>1. Held' = Held /\ (NoRegolithSystemTx' <=> NoRegolithSystemTx)
      BY Zenon, <1>1 DEF stVars, blkVars, Held, gasUsed, NoRegolithSystemTx
    <2> QED BY Zenon, <1>1, <2>1 DEF stVars, blkVars, GasInv, GasLedger
  <1> QED BY Zenon, <1>2, <1>3, <1>4 DEF GasInv

\* Every step of a block's execution keeps the invariant.
LEMMA GasInvNext == GasInv /\ [Next]_vars => GasInv'
  <1> SUFFICES ASSUME GasInv, [Next]_vars PROVE GasInv'
    OBVIOUS
  <1>1. CASE PickForced \/ \E a \in Accounts : PickPool(a)
    BY <1>1, PickStep
  <1>2. CASE ProcessNext
    BY <1>2, ProcessNextStep
  <1>3. CASE Transition
    BY Zenon, <1>3, PreCheckDepositStep, PreCheckRefusedStep, BuyGasStep, IntrinsicGasStep,
       RefundGasStep, PayFeesStep, FailedDepositStep DEF Transition
  <1>4. CASE \E e \in Effects(msg, st.gas) : Execute(e)
    BY Zenon, <1>4, ExecuteStep
  <1>5. CASE Included
    BY <1>5, IncludedStep
  <1>6. CASE SkipPoolTx
    BY <1>6, SkipPoolTxStep
  <1>7. CASE GiveUp \/ ValidateState
    BY Zenon, <1>7, EndStep
  <1>8. CASE Seal
    BY <1>8, SealStep
  <1>9. CASE UNCHANGED vars
    BY Zenon, <1>9, StutterStep
  <1> QED
    BY Zenon, <1>1, <1>2, <1>3, <1>4, <1>5, <1>6, <1>7, <1>8, <1>9 DEF Next, Finished

\* The inductive invariant holds in every reachable state.
THEOREM GasInvariant == Spec => []GasInv
  BY GasInvInit, GasInvNext, PTL DEF Spec

\* No gas counter underflows and every variable keeps its type, for every set
\* of messages and every block gas limit (gp, st and usedGas are uint64).
THEOREM TypeCorrect == Spec => []TypeOK
  <1>1. GasInv => TypeOK
    BY DEF GasInv
  <1> QED BY <1>1, GasInvariant, PTL

\* The gas recorded in the receipts is the gas that left the pool: exactly for
\* a verifier (Process), at most for the sequencer (commitTransactions).
THEOREM GasIsAccounted == Spec => []GasAccounted
  <1>1. GasInv => GasAccounted
    <2> SUFFICES ASSUME GasInv, pc = "idle", NoRegolithSystemTx
                 PROVE  /\ gp + usedGas <= GasLimit
                        /\ role = "verifier" => gp + usedGas = GasLimit
      BY Zenon DEF GasAccounted
    <2>1. Held = 0 /\ pc \notin Terminal
      BY Zenon DEF Held, Terminal
    <2> QED BY <2>1, Counters DEF GasInv, GasLedger
  <1> QED BY <1>1, GasInvariant, PTL

-----------------------------------------------------------------------------
\* A message applied in one step, from the snapshot s taken after the mint, at
\* the L1 cost c: what buyGas leaves, ...
CostAt(m, l1) ==
    IF HasL1Cost(m) THEN L1Cost(DataGas(m.zeroes, m.ones, Regolith), l1) ELSE 0

Charge(m, c) == m.gas * GasPrice(m) + c
Bought(s, m, c) == IF IsDepositTx(m) THEN s ELSE AddBalance(s, m.from, -Charge(m, c))

\* ... the checks of preCheck and innerTransitionDb, ...
Checks(s, m, c) ==
    ~IsDepositTx(m) =>
        /\ m.nonce = s.nonce[m.from]
        /\ FeeFieldsOk(m)
        /\ s.bal[m.from] >= m.gas * m.feeCap + m.value + c

Prepared(s, m, c) ==
    /\ m.gas >= m.intrinsic
    /\ m.value > 0 => Bought(s, m, c).bal[m.from] >= m.value
    /\ ~m.oversized

\* ... a deposit that fails and is included all the same, ...
Unsupported(m) == IsSystemTx(m) /\ Regolith
Fails(s, m, c) == IsDepositTx(m) /\ (Unsupported(m) \/ ~Prepared(s, m, c))

\* ... the state after the EVM, the refund and the fees.
LeftOver(m, e) == e.left + Lower((m.gas - e.left) \div RefundQuotientEIP3529, e.refund)
Spent(m, e) == m.gas - LeftOver(m, e)

Ran(s, m, e, c) == Executed(Bought(s, m, c), m, e)
Refunded(s, m, e, c) == AddBalance(Ran(s, m, e, c), m.from, LeftOver(m, e) * GasPrice(m))
Tipped(s, m, e, c) ==
    AddBalance(Refunded(s, m, e, c), Coinbase,
               Spent(m, e) * EffectiveTip(m.tipCap, m.feeCap, BaseFee))
Burnt(s, m, e, c) == AddBalance(Tipped(s, m, e, c), BaseFeeRecipient, Spent(m, e) * BaseFee)
Settled(s, m, e, c) == AddBalance(Burnt(s, m, e, c), L1FeeRecipient, c)

Outcome(s, m, e, c) ==
    IF Fails(s, m, c)
    THEN [world |-> IncNonce(s, m.from), used |-> DepositGasUsed(m), ok |-> FALSE]
    ELSE IF ~IsDepositTx(m)
    THEN [world |-> Settled(s, m, e, c), used |-> Spent(m, e), ok |-> e.ok]
    ELSE IF Regolith
    THEN [world |-> Refunded(s, m, e, c), used |-> Spent(m, e), ok |-> e.ok]
    ELSE [world |-> Ran(s, m, e, c), used |-> DepositGasUsed(m), ok |-> e.ok]

\* A message that may be included with this effect.
Includable(s, m, e, c) ==
    /\ Checks(s, m, c)
    /\ \/ Fails(s, m, c)
       \/ Prepared(s, m, c) /\ e \in Effects(m, m.gas - m.intrinsic)

-----------------------------------------------------------------------------
\* How far the message in progress has come towards its Outcome.  The L1 cost
\* is fixed once buyGas has filled the cache.
Priced == HasL1Cost(msg) => cache # NoL1
cost == L1CostFunc(msg)

Through == Priced /\ Checks(snap, msg, cost) /\ ~Unsupported(msg)

AtIntrinsic ==
    Through /\ world = Bought(snap, msg, cost) /\ st.gas = msg.gas

AtEvm ==
    /\ Through /\ Prepared(snap, msg, cost)
    /\ world = Bought(snap, msg, cost) /\ st.gas = msg.gas - msg.intrinsic

Executing ==
    /\ Through /\ Prepared(snap, msg, cost)
    /\ effect \in Effects(msg, msg.gas - msg.intrinsic) /\ result.ok = effect.ok

AtRefund ==
    /\ Executing
    /\ world = Ran(snap, msg, effect, cost)
    /\ st.gas = effect.left /\ st.refund = effect.refund
    /\ IsDepositTx(msg) => Regolith

AtFees ==
    /\ Executing
    /\ world = Refunded(snap, msg, effect, cost)
    /\ st.gas = LeftOver(msg, effect) /\ st.initialGas = msg.gas
    /\ ~IsDepositTx(msg)

Applied ==
    LET o == Outcome(snap, msg, effect, cost)
    IN  /\ Priced /\ Includable(snap, msg, effect, cost)
        /\ world = o.world /\ result.used = o.used /\ result.ok = o.ok

Stages ==
    /\ pc = "preCheck" => world = snap
    /\ pc = "intrinsic" => AtIntrinsic
    /\ pc = "evm" => AtEvm
    /\ pc = "refund" => AtRefund
    /\ pc = "fees" => AtFees
    /\ pc = "result" /\ result.err = "none" => Applied
    /\ pc = "result" /\ result.err = "Other" /\ IsDepositTx(msg) => Fails(snap, msg, cost)

-----------------------------------------------------------------------------
\* The L1 cost stays what it was once the cache is filled.
LEMMA CostStable ==
    ASSUME Priced, msg' = msg, cache' = cache
    PROVE  cost' = cost /\ Priced'
  BY Zenon DEF Priced, cost, L1CostFunc, L1Attributes, HasL1Cost

\* buyGas fills the cache with the attributes it charges by.
LEMMA CostFilled ==
    ASSUME GasInv, msg \in Messages, msg' = msg, FillCache(msg)
    PROVE  cost' = cost /\ Priced'
  <1>1. L1Attributes \in L1Params /\ NoL1 \notin L1Params
    BY Zenon, FeeTypes, L1Assumption DEF GasInv
  <1>2. cache' = IF HasL1Cost(msg) THEN L1Attributes ELSE cache
    BY Zenon DEF FillCache
  <1>3. CASE HasL1Cost(msg)
    <2>1. cache' = L1Attributes /\ cache' # NoL1
      BY Zenon, <1>1, <1>2, <1>3
    <2>2. L1Attributes' = L1Attributes
      BY Zenon, <2>1 DEF L1Attributes
    <2> QED BY Zenon, <2>1, <2>2 DEF Priced, cost, L1CostFunc, HasL1Cost
  <1>4. CASE ~HasL1Cost(msg)
    BY Zenon, <1>4 DEF Priced, cost, L1CostFunc, HasL1Cost
  <1> QED BY Zenon, <1>3, <1>4

\* The facts about the message in progress the steps use.
LEMMA InProgress ==
    ASSUME GasInv, Busy
    PROVE  /\ msg \in Messages /\ msg.gas \in Nat /\ msg.intrinsic \in Nat /\ msg.from \in Accounts
           /\ msg.nonce \in Nat /\ msg.mint \in Nat
           /\ cost \in Int /\ world \in Worlds /\ snap \in Worlds
           /\ world.nonce[msg.from] \in Nat
  BY Zenon, Counters, MessageType, FeeTypes DEF GasInv, TypeOK, cost, Worlds

\* preCheck of a deposit: nothing is charged.
LEMMA PreCheckDepositStages ==
    ASSUME GasInv, Stages, PreCheckDeposit
    PROVE  Stages'
  <1>1. /\ world = snap /\ IsDepositTx(msg) /\ UNCHANGED <<world, snap, msg, cache>>
        /\ st'.gas = msg.gas
    BY Zenon DEF PreCheckDeposit, Stages
  <1>2. ~HasL1Cost(msg)
    BY Zenon, <1>1 DEF HasL1Cost
  <1>3. cost' = cost /\ Priced'
    BY Zenon, <1>1, <1>2, CostStable DEF Priced
  <1>4. CASE pc' = "intrinsic"
    <2>1. ~Unsupported(msg)
      BY Zenon, <1>4 DEF PreCheckDeposit, Finish, Unsupported
    <2>2. AtIntrinsic'
      BY Zenon, <1>1, <1>3, <2>1 DEF AtIntrinsic, Through, Checks, Bought, Unsupported, IsDepositTx, IsSystemTx
    <2> QED BY Zenon, <1>4, <2>2 DEF Stages
  <1>5. CASE pc' = "result"
    <2>1. result'.err # "none"
      BY <1>5 DEF PreCheckDeposit, Finish
    <2>2. result'.err = "Other" => Unsupported(msg)
      BY <1>5 DEF PreCheckDeposit, Finish, Unsupported
    <2>3. Unsupported(msg) => Fails(snap, msg, cost)'
      BY Zenon, <1>1 DEF Fails, Unsupported, IsDepositTx, IsSystemTx
    <2> QED BY Zenon, <1>5, <2>1, <2>2, <2>3 DEF Stages
  <1> QED BY Zenon, <1>4, <1>5 DEF PreCheckDeposit, Finish

\* A refused message is no deposit.
LEMMA PreCheckRefusedStages ==
    ASSUME GasInv, Stages, PreCheckRefused
    PROVE  Stages'
  <1>1. pc' = "result" /\ result'.err # "none" /\ ~IsDepositTx(msg) /\ msg' = msg
    <2>1. PICK err : err # "none" /\ result' = [err |-> err, used |-> 0, ok |-> FALSE]
      BY Zenon DEF PreCheckRefused, Finish
    <2>2. result'.err # "none"
      BY <2>1
    <2> QED BY Zenon, <2>2 DEF PreCheckRefused, Finish
  <1> QED BY Zenon, <1>1 DEF Stages, IsDepositTx

\* buyGas: the charge is fixed, the checks have passed.
LEMMA BuyGasStages ==
    ASSUME GasInv, Stages, BuyGas
    PROVE  Stages'
  <1>1. /\ world = snap /\ ~IsDepositTx(msg) /\ pc' = "intrinsic" /\ st'.gas = msg.gas
        /\ snap' = snap /\ msg' = msg /\ Busy
    BY Zenon DEF BuyGas, Stages, Busy
  <1>2. cost' = cost /\ Priced'
    BY Zenon, <1>1, InProgress, CostFilled DEF BuyGas
  <1>3. Checks(snap, msg, cost)
    <2>1. msg.nonce = snap.nonce[msg.from]
      <3>1. /\ world.nonce[msg.from] \in Nat /\ msg.nonce \in Nat
            /\ ~(world.nonce[msg.from] < msg.nonce) /\ ~(world.nonce[msg.from] > msg.nonce)
        BY Zenon, <1>1, InProgress DEF BuyGas, NonceError
      <3>2. world.nonce[msg.from] = msg.nonce
        BY <3>1
      <3> QED BY Zenon, <1>1, <3>2
    <2> QED BY Zenon, <1>1, <2>1 DEF BuyGas, Checks, BalanceCheck, cost
  <1>4. Checks(snap, msg, cost)' /\ ~Unsupported(msg)'
    <2>1. Checks(snap, msg, cost)'
      BY Zenon, <1>1, <1>2, <1>3 DEF Checks, IsDepositTx, FeeFieldsOk
    <2> QED BY Zenon, <1>1, <2>1 DEF Unsupported, IsDepositTx, IsSystemTx
  <1>5. world' = Bought(snap, msg, cost)
    BY Zenon, <1>1 DEF BuyGas, Bought, Charge, cost
  <1>6. Bought(snap, msg, cost)' = Bought(snap, msg, cost)
    BY Zenon, <1>1, <1>2 DEF Bought, Charge, IsDepositTx, GasPrice, AddBalance
  <1>7. AtIntrinsic'
    BY Zenon, <1>1, <1>2, <1>4, <1>5, <1>6 DEF AtIntrinsic, Through
  <1> QED BY Zenon, <1>1, <1>7 DEF Stages

\* The checks of innerTransitionDb are those of Prepared.
LEMMA IntrinsicGasStages ==
    ASSUME GasInv, Stages, IntrinsicGas
    PROVE  Stages'
  <1>1. AtIntrinsic /\ UNCHANGED <<world, snap, msg, cache>> /\ Busy
    BY Zenon DEF IntrinsicGas, Stages, Busy
  <1>2. cost' = cost /\ Priced'
    BY Zenon, <1>1, CostStable DEF AtIntrinsic, Through
  <1>3. PreparedOk(msg) <=> Prepared(snap, msg, cost)
    BY Zenon, <1>1 DEF PreparedOk, Prepared, AtIntrinsic
  <1>4. CASE PreparedOk(msg)
    <2>1. pc' = "evm" /\ st'.gas = msg.gas - msg.intrinsic
      BY Zenon, <1>1, <1>4, Counters DEF IntrinsicGas, AtIntrinsic
    <2>2. AtEvm'
      BY Zenon, <1>1, <1>2, <1>3, <1>4, <2>1 DEF AtEvm, AtIntrinsic, Through
    <2> QED BY Zenon, <2>1, <2>2 DEF Stages
  <1>5. CASE ~PreparedOk(msg)
    <2>1. pc' = "result" /\ result'.err = "Other"
      BY <1>5 DEF IntrinsicGas, Finish
    <2>2. IsDepositTx(msg) => Fails(snap, msg, cost)
      BY Zenon, <1>3, <1>5 DEF Fails
    <2> QED BY Zenon, <1>1, <1>2, <2>1, <2>2 DEF Stages
  <1> QED BY Zenon, <1>4, <1>5

\* A message is applied once the state and the result are those of its Outcome.
LEMMA AppliedIs ==
    ASSUME NEW e, NEW c, NEW o, o = Outcome(snap, msg, e, c), Includable(snap, msg, e, c),
           snap' = snap, msg' = msg, effect' = e, cost' = c, Priced',
           world' = o.world, result'.used = o.used, result'.ok = o.ok
    PROVE  Applied'
  BY Zenon DEF Applied

\* The EVM: the state is Ran's; before Regolith a deposit is done.
LEMMA ExecuteStages ==
    ASSUME GasInv, Stages, NEW e, Execute(e)
    PROVE  Stages'
  <1>1. /\ AtEvm /\ Busy /\ UNCHANGED <<snap, msg, cache>> /\ effect' = e
        /\ e \in Effects(msg, msg.gas - msg.intrinsic)
        /\ world' = Executed(world, msg, e)
    BY Zenon DEF Execute, Evm, Stages, Busy, AtEvm
  <1>2. cost' = cost /\ Priced'
    BY Zenon, <1>1, CostStable DEF AtEvm, Through
  <1>3. Prepared(snap, msg, cost) /\ Checks(snap, msg, cost) /\ ~Unsupported(msg)
    BY Zenon, <1>1 DEF AtEvm, Through
  <1>4. world' = Ran(snap, msg, e, cost)
    BY Zenon, <1>1 DEF AtEvm, Ran
  <1>5. Includable(snap, msg, e, cost) /\ ~Fails(snap, msg, cost)
    BY Zenon, <1>1, <1>3 DEF Includable, Fails
  <1>6. CASE IsDepositTx(msg) /\ ~Regolith
    <2>1. /\ pc' = "result" /\ result'.err = "none"
          /\ result'.used = DepositGasUsed(msg) /\ result'.ok = e.ok
      BY <1>6 DEF Execute, Evm, Finish
    <2>2. Outcome(snap, msg, e, cost) =
              [world |-> Ran(snap, msg, e, cost), used |-> DepositGasUsed(msg), ok |-> e.ok]
      BY Zenon, <1>5, <1>6 DEF Outcome
    <2>3. Applied'
      <3>1. PICK o : o = Outcome(snap, msg, e, cost)
        BY Zenon
      <3>2. world' = o.world /\ result'.used = o.used /\ result'.ok = o.ok
        <4>1. PICK w, u : w = Ran(snap, msg, e, cost) /\ u = DepositGasUsed(msg)
          BY Zenon
        <4>2. o = [world |-> w, used |-> u, ok |-> e.ok]
          BY Zenon, <2>2, <3>1, <4>1
        <4>3. o.world = w /\ o.used = u /\ o.ok = e.ok
          BY <4>2
        <4> QED BY Zenon, <1>4, <2>1, <4>1, <4>3
      <3>3. snap' = snap /\ msg' = msg /\ effect' = e
        BY Zenon, <1>1
      <3> QED BY Zenon, <1>2, <1>5, <3>1, <3>2, <3>3, AppliedIs
    <2> QED BY Zenon, <2>1, <2>3 DEF Stages
  <1>7. CASE ~(IsDepositTx(msg) /\ ~Regolith)
    <2>1. /\ st' = [st EXCEPT !.gas = e.left, !.refund = e.refund]
          /\ result' = [err |-> "none", used |-> 0, ok |-> e.ok]
          /\ pc' = "refund"
      BY Zenon, <1>7 DEF Execute, Evm
    <2>2. st'.gas = e.left /\ st'.refund = e.refund /\ result'.ok = e.ok
      BY <2>1, Counters
    <2>3. Executing'
      BY Zenon, <1>1, <1>2, <1>3, <2>2 DEF Executing, Through
    <2>4. AtRefund'
      BY Zenon, <1>1, <1>2, <1>4, <1>7, <2>2, <2>3 DEF AtRefund
    <2> QED BY <2>1, <2>4 DEF Stages
  <1> QED BY Zenon, <1>6, <1>7

\* refundGas: the state is Refunded's; after Regolith a deposit is done.
LEMMA RefundGasStages ==
    ASSUME GasInv, Stages, RefundGas, effect' = effect
    PROVE  Stages'
  <1>1. AtRefund /\ Busy /\ UNCHANGED <<snap, msg, cache>> /\ pc = "refund"
    BY Zenon DEF RefundGas, Stages, Busy
  <1>2. cost' = cost /\ Priced' /\ Executing
    BY Zenon, <1>1, CostStable DEF AtRefund, Executing, Through
  <1> DEFINE left == st.gas + Lower(gasUsed \div RefundQuotientEIP3529, st.refund)
  <1>3. left = LeftOver(msg, effect) /\ st.initialGas = msg.gas
    BY Zenon, <1>1 DEF AtRefund, LeftOver, gasUsed, GasInv, GasStages
  <1>4. /\ st' = [st EXCEPT !.gas = left]
        /\ world' = AddBalance(world, msg.from, left * GasPrice(msg))
    BY Zenon DEF RefundGas
  <1>5. world' = Refunded(snap, msg, effect, cost)
    <2> HIDE DEF left
    <2> QED BY <1>1, <1>3, <1>4 DEF AtRefund, Refunded
  <1>6. /\ Prepared(snap, msg, cost) /\ effect \in Effects(msg, msg.gas - msg.intrinsic)
        /\ Checks(snap, msg, cost) /\ ~Unsupported(msg)
    BY Zenon, <1>2 DEF Executing, Through
  <1>7. CASE IsDepositTx(msg)
    <2>1. Finish("none", st.initialGas - left, result.ok)
      BY <1>7 DEF RefundGas
    <2>2. /\ pc' = "result" /\ result'.err = "none"
          /\ result'.used = Spent(msg, effect) /\ result'.ok = effect.ok
      <3> HIDE DEF left
      <3> QED BY Zenon, <1>2, <1>3, <2>1 DEF Finish, Spent, Executing
    <2>3. Includable(snap, msg, effect, cost) /\ ~Fails(snap, msg, cost)
      BY Zenon, <1>6 DEF Includable, Fails
    <2>4. Outcome(snap, msg, effect, cost) =
              [world |-> Refunded(snap, msg, effect, cost), used |-> Spent(msg, effect),
               ok |-> effect.ok]
      BY Zenon, <1>1, <1>7, <2>3 DEF Outcome, AtRefund
    <2>5. Applied'
      <3>1. PICK o : o = Outcome(snap, msg, effect, cost)
        BY Zenon
      <3>2. world' = o.world /\ result'.used = o.used /\ result'.ok = o.ok
        <4>1. PICK w, u : w = Refunded(snap, msg, effect, cost) /\ u = Spent(msg, effect)
          BY Zenon
        <4>2. o = [world |-> w, used |-> u, ok |-> effect.ok]
          BY Zenon, <2>4, <3>1, <4>1
        <4>3. o.world = w /\ o.used = u /\ o.ok = effect.ok
          BY <4>2
        <4> QED BY Zenon, <1>5, <2>2, <4>1, <4>3
      <3>3. snap' = snap /\ msg' = msg
        BY Zenon, <1>1
      <3> QED BY Zenon, <1>2, <2>3, <3>1, <3>2, <3>3, AppliedIs
    <2> QED BY Zenon, <2>2, <2>5 DEF Stages
  <1>8. CASE ~IsDepositTx(msg)
    <2>1. pc' = "fees" /\ UNCHANGED result
      BY Zenon, <1>8 DEF RefundGas
    <2>2. st'.gas = LeftOver(msg, effect) /\ st'.initialGas = msg.gas
      <3> HIDE DEF left
      <3> QED BY <1>3, <1>4, Counters
    <2>3. Executing'
      BY Zenon, <1>1, <1>2, <1>6, <2>1 DEF Executing, Through
    <2>4. AtFees'
      BY Zenon, <1>1, <1>2, <1>5, <1>8, <2>2, <2>3 DEF AtFees
    <2> QED BY Zenon, <2>1, <2>4 DEF Stages
  <1> QED BY Zenon, <1>7, <1>8

\* The fees: the state is Settled's, and the message is done.
LEMMA PayFeesStages ==
    ASSUME GasInv, Stages, PayFees, effect' = effect
    PROVE  Stages'
  <1>1. AtFees /\ Busy /\ UNCHANGED <<snap, msg>>
    BY Zenon DEF PayFees, Stages, Busy
  <1>2. cost' = cost /\ Priced'
    BY Zenon, <1>1, InProgress, CostFilled DEF PayFees
  <1>3. /\ Prepared(snap, msg, cost) /\ effect \in Effects(msg, msg.gas - msg.intrinsic)
        /\ Checks(snap, msg, cost) /\ result.ok = effect.ok /\ ~IsDepositTx(msg)
    BY Zenon, <1>1 DEF AtFees, Executing, Through
  <1>4. gasUsed = Spent(msg, effect)
    BY Zenon, <1>1 DEF AtFees, gasUsed, Spent
  <1>5. world' = Settled(snap, msg, effect, cost)
    BY Zenon, <1>1, <1>4 DEF PayFees, AtFees, Settled, Burnt, Tipped, cost
  <1>6. /\ pc' = "result" /\ result'.err = "none"
        /\ result'.used = Spent(msg, effect) /\ result'.ok = effect.ok
    BY Zenon, <1>3, <1>4 DEF PayFees, Finish
  <1>7. Includable(snap, msg, effect, cost) /\ ~Fails(snap, msg, cost)
    BY Zenon, <1>3 DEF Includable, Fails
  <1>8. Outcome(snap, msg, effect, cost) =
            [world |-> Settled(snap, msg, effect, cost), used |-> Spent(msg, effect),
             ok |-> effect.ok]
    BY Zenon, <1>3, <1>7 DEF Outcome
  <1>9. Applied'
    <2>1. PICK o : o = Outcome(snap, msg, effect, cost)
      OBVIOUS
    <2>2. world' = o.world /\ result'.used = o.used /\ result'.ok = o.ok
      <3>1. PICK w, u : w = Settled(snap, msg, effect, cost) /\ u = Spent(msg, effect)
        BY Zenon
      <3>2. o = [world |-> w, used |-> u, ok |-> effect.ok]
        BY Zenon, <1>8, <2>1, <3>1
      <3>3. o.world = w /\ o.used = u /\ o.ok = effect.ok
        BY <3>2
      <3> QED BY Zenon, <1>5, <1>6, <3>1, <3>3
    <2>3. snap' = snap /\ msg' = msg
      BY Zenon, <1>1
    <2> QED BY Zenon, <1>2, <1>7, <2>1, <2>2, <2>3, AppliedIs
  <1> QED BY Zenon, <1>6, <1>9 DEF Stages

\* A failed deposit is included with its mint and its nonce.
LEMMA FailedDepositStages ==
    ASSUME GasInv, Stages, FailedDeposit, effect' = effect
    PROVE  Stages'
  <1>1. /\ pc = "result" /\ IsDepositTx(msg) /\ Busy /\ UNCHANGED <<snap, msg, cache>>
        /\ result.err \notin {"none", "GasLimitReached"}
        /\ world' = IncNonce(snap, msg.from)
        /\ pc' = "result" /\ result'.err = "none"
        /\ result'.used = DepositGasUsed(msg) /\ result'.ok = FALSE
    BY Zenon DEF FailedDeposit, FailedDepositState, Finish, Busy
  <1>2. result.err = "Other"
    <2>1. result.err \in Errors
      BY Zenon, Counters
    <2>2. result.err \notin {"NonceTooLow", "NonceTooHigh"}
      BY Zenon, <1>1 DEF GasInv, GasStages
    <2> QED BY Zenon, <1>1, <2>1, <2>2 DEF Errors
  <1>3. Fails(snap, msg, cost)
    <2>1. Stages => (pc = "result" /\ result.err = "Other" /\ IsDepositTx(msg)
                        => Fails(snap, msg, cost))
      BY Zenon DEF Stages
    <2> QED BY Zenon, <1>1, <1>2, <2>1
  <1>4. Priced /\ Checks(snap, msg, cost)
    BY Zenon, <1>1 DEF Priced, HasL1Cost, Checks
  <1>5. cost' = cost /\ Priced'
    BY Zenon, <1>1, <1>4, CostStable
  <1>6. Includable(snap, msg, effect, cost)
    BY Zenon, <1>3, <1>4 DEF Includable
  <1> DEFINE o == Outcome(snap, msg, effect, cost)
  <1>7. o.world = IncNonce(snap, msg.from) /\ o.used = DepositGasUsed(msg) /\ o.ok = FALSE
    BY Zenon, <1>3 DEF Outcome
  <1>8. Applied'
    <2>1. o' = o
      BY Zenon, <1>1, <1>5
    <2>2. world' = o.world /\ result'.used = o.used /\ result'.ok = o.ok
      <3> HIDE DEF o
      <3> QED BY Zenon, <1>1, <1>7
    <2> QED BY Zenon, <1>1, <1>5, <1>6, <2>1, <2>2 DEF Applied
  <1> QED BY Zenon, <1>1, <1>8 DEF Stages

\* Starting a message.
LEMMA StartStages ==
    ASSUME NEW m, TransitionDb(m)
    PROVE  Stages'
  BY Zenon DEF TransitionDb, SnapshotMinted, Stages

\* Every step keeps Stages.
LEMMA StagesNext ==
    ASSUME GasInv, Stages, [Next]_vars
    PROVE  Stages'
  <1>1. CASE PickForced \/ (\E a \in Accounts : PickPool(a)) \/ ProcessNext
    BY Zenon, <1>1, StartStages DEF PickForced, PickPool, ProcessNext, CommitTransaction
  <1>2. CASE Transition
    <2>1. effect' = effect
      BY Zenon, <1>2 DEF Transition, blkVars
    <2> QED BY Zenon, <1>2, <2>1, PreCheckDepositStages, PreCheckRefusedStages, BuyGasStages,
               IntrinsicGasStages, RefundGasStages, PayFeesStages, FailedDepositStages
            DEF Transition
  <1>3. CASE \E e \in Effects(msg, st.gas) : Execute(e)
    BY Zenon, <1>3, ExecuteStages
  <1>4. CASE Included \/ SkipPoolTx \/ GiveUp \/ Seal \/ ValidateState
    <2>1. pc' \in {"idle"} \cup Terminal
      BY Zenon, <1>4 DEF Included, SkipPoolTx, GiveUp, Seal, ValidateState, Terminal
    <2> QED BY Zenon, <2>1 DEF Stages, Terminal
  <1>5. CASE UNCHANGED vars
    <2>1. UNCHANGED <<world, snap, msg, cache, pc, result, st, effect>>
      BY Zenon, <1>5 DEF vars, stVars, blkVars
    <2>2. cost' = cost /\ (Priced' <=> Priced)
      BY Zenon, <2>1 DEF cost, Priced, L1CostFunc, L1Attributes, HasL1Cost
    <2> QED BY Zenon, <2>1, <2>2
            DEF Stages, AtIntrinsic, AtEvm, AtRefund, AtFees, Applied, Executing, Through
  <1> QED BY Zenon, <1>1, <1>2, <1>3, <1>4, <1>5 DEF Next, Finished

\* No message is in progress at the start.
LEMMA StagesInit == Init => Stages
  BY Zenon DEF Init, Stages

-----------------------------------------------------------------------------
(* Ledgers.                                                                *)

\* A non-empty set of subsets of a finite set has a smallest member (the form
\* in which induction over finite sets is used here).
LEMMA MinimalSubset ==
    ASSUME NEW S, IsFiniteSet(S), NEW T, T \subseteq SUBSET S, T # {}
    PROVE  \E x \in T : \A y \in T : y \subseteq x => y = x
  <1>1. IsWellFoundedOn(StrictSubsetOrdering(S), SUBSET S)
    BY Zenon, FS_StrictSubsetOrderingWellFounded, FS_FiniteSubsetsOfFinite
  <1>2. PICK x \in T : \A y \in T : ~ (<<y, x>> \in StrictSubsetOrdering(S))
    BY <1>1, WFMin
  <1>3. ASSUME NEW y \in T, y \subseteq x, y # x PROVE FALSE
    <2>1. <<y, x>> \in StrictSubsetOrdering(S)
      BY <1>3 DEF StrictSubsetOrdering
    <2> QED BY <2>1, <1>2
  <1> QED BY <1>2, <1>3

Pick(s) == CHOOSE x \in s : TRUE

\* h adds up f over the subsets of S, taking elements in the order of Pick.
Adds(h, f, S) ==
    h = [s \in SUBSET S |-> IF s = {} THEN 0 ELSE f[Pick(s)] + h[s \ {Pick(s)}]]

\* SumFunction is the value at the whole domain of any h that Adds.
LEMMA SumIs ==
    ASSUME NEW f
    PROVE  SumFunction(f) = (CHOOSE h : Adds(h, f, DOMAIN f))[DOMAIN f]
  BY DEF SumFunction, SumFunctionOnSet, FoldFunctionOnSet, MapThenFoldSet, Adds, Pick

\* What Adds says of one set.
LEMMA AddsEquation ==
    ASSUME NEW h, NEW f, NEW S, Adds(h, f, S), NEW s \in SUBSET S
    PROVE  h[s] = IF s = {} THEN 0 ELSE f[Pick(s)] + h[s \ {Pick(s)}]
  BY Zenon DEF Adds

\* f is an integer on S; f and g are equal on it; h and k agree at u; and any
\* value of f may be the last added.
IntOn(f, S) == \A x \in S : f[x] \in Int
EqualOn(f, g, S) == \A x \in S : f[x] = g[x]
Agree(h, k, u) == h[u] = k[u]
AnyLast(h, f, S) ==
    /\ \A s \in SUBSET S : h[s] \in Int
    /\ \A s \in SUBSET S, x \in S : x \in s => h[s] = f[x] + h[s \ {x}]

\* A non-empty set has its Pick in it.
LEMMA PickIn ==
    ASSUME NEW s, s # {}
    PROVE  Pick(s) \in s
  BY DEF Pick

\* Sums of functions that agree where they are added up are equal.
LEMMA AddsAgree ==
    ASSUME NEW f, NEW g, NEW S, NEW T, IsFiniteSet(S), NEW h, NEW k,
           Adds(h, f, S), Adds(k, g, T),
           NEW u \in SUBSET (S \cap T), EqualOn(f, g, u)
    PROVE  Agree(h, k, u)
  <1> SUFFICES ASSUME h[u] # k[u] PROVE FALSE
    BY Zenon DEF Agree
  <1> DEFINE B == {s \in SUBSET u : h[s] # k[s]}
  <1>1. IsFiniteSet(u)
    BY FS_Subset
  <1>2. PICK s \in B : \A y \in B : y \subseteq s => y = s
    <2>1. u \in B /\ B \subseteq SUBSET u
      OBVIOUS
    <2> HIDE DEF B
    <2> QED BY <1>1, <2>1, MinimalSubset
  <1>3. CASE s = {}
    <2>1. h[s] = 0 /\ k[s] = 0
      BY Zenon, <1>3, AddsEquation
    <2> QED BY <2>1
  <1>4. CASE s # {}
    <2> DEFINE t == s \ {Pick(s)}
    <2>1. Pick(s) \in s /\ t \subseteq s /\ t # s
      BY <1>4, PickIn
    <2>2. h[t] = k[t]
      BY <1>2, <2>1
    <2>3. s \in SUBSET S /\ s \in SUBSET T
      BY <1>2
    <2>4. h[s] = f[Pick(s)] + h[t] /\ k[s] = g[Pick(s)] + k[t]
      <3> HIDE DEF B
      <3>1. h[s] = IF s = {} THEN 0 ELSE f[Pick(s)] + h[s \ {Pick(s)}]
        BY Zenon, <2>3, AddsEquation
      <3>2. k[s] = IF s = {} THEN 0 ELSE g[Pick(s)] + k[s \ {Pick(s)}]
        BY Zenon, <2>3, AddsEquation
      <3> QED BY <1>4, <3>1, <3>2
    <2>5. f[Pick(s)] = g[Pick(s)]
      BY Zenon, <1>2, <2>1 DEF EqualOn
    <2> QED BY <1>2, <2>2, <2>4, <2>5
  <1> QED BY <1>3, <1>4

\* Every function on a finite set can be added up.
LEMMA AddsExists ==
    ASSUME NEW f, NEW S, IsFiniteSet(S)
    PROVE  \E h : Adds(h, f, S)
  <1> SUFFICES ASSUME ~ \E h : Adds(h, f, S) PROVE FALSE
    OBVIOUS
  <1> DEFINE B == {T \in SUBSET S : ~ \E h : Adds(h, f, T)}
  <1>1. PICK T \in B : \A U \in B : U \subseteq T => U = T
    <2>1. S \in B /\ B \subseteq SUBSET S
      OBVIOUS
    <2> HIDE DEF B
    <2> QED BY <2>1, MinimalSubset
  <1> DEFINE Of(U) == CHOOSE h : Adds(h, f, U)
             Rest(s) == IF s = {} THEN 0 ELSE f[Pick(s)] + Of(s \ {Pick(s)})[s \ {Pick(s)}]
             h == [s \in SUBSET T |-> Rest(s)]
  <1>2. \A U \in SUBSET T : U # T => Adds(Of(U), f, U)
    BY <1>1
  <1>3. \A s \in SUBSET T : s # T => h[s] = Of(s)[s]
    <2> SUFFICES ASSUME NEW s \in SUBSET T, s # T PROVE h[s] = Of(s)[s]
      BY Zenon
    <2>1. Adds(Of(s), f, s)
      BY <1>2
    <2>2. CASE s = {}
      <3>1. Of(s)[s] = 0
        BY Zenon, <2>1, <2>2, AddsEquation
      <3> QED BY <2>2, <3>1
    <2>3. CASE s # {}
      <3> DEFINE t == s \ {Pick(s)}
      <3>1. Pick(s) \in s /\ t \in SUBSET T /\ t # T /\ t \in SUBSET (s \cap t)
        BY <2>3, PickIn
      <3>2. Adds(Of(t), f, t)
        BY Zenon, <1>2, <3>1
      <3>3. IsFiniteSet(s)
        BY <1>1, FS_Subset
      <3>4. Of(s)[t] = Of(t)[t]
        <4> HIDE DEF Of, t
        <4>1. EqualOn(f, f, t)
          BY Zenon DEF EqualOn
        <4>2. Agree(Of(s), Of(t), t)
          BY Zenon, <2>1, <3>1, <3>2, <3>3, <4>1, AddsAgree
        <4> QED BY Zenon, <4>2 DEF Agree
      <3>5. Of(s)[s] = f[Pick(s)] + Of(s)[t]
        <4> HIDE DEF Of
        <4> QED BY <2>1, <2>3, AddsEquation
      <3> QED BY <2>3, <3>4, <3>5
    <2> QED BY <2>2, <2>3
  <1>4. ASSUME NEW s \in SUBSET T, s # {} PROVE h[s] = f[Pick(s)] + h[s \ {Pick(s)}]
    <2>1. s \ {Pick(s)} \in SUBSET T /\ s \ {Pick(s)} # T
      BY <1>4, PickIn
    <2>2. h[s \ {Pick(s)}] = Of(s \ {Pick(s)})[s \ {Pick(s)}]
      BY Zenon, <1>3, <2>1
    <2> QED BY <1>4, <2>2
  <1>5. \A s \in SUBSET T : h[s] = IF s = {} THEN 0 ELSE f[Pick(s)] + h[s \ {Pick(s)}]
    <2>1. {} \in SUBSET T => h[{}] = 0
      OBVIOUS
    <2> HIDE DEF h
    <2> QED BY Zenon, <1>4, <2>1
  <1>6. h = [s \in SUBSET T |-> h[s]]
    OBVIOUS
  <1> HIDE DEF h
  <1>7. Adds(h, f, T)
    BY Zenon, <1>5, <1>6 DEF Adds
  <1> QED BY <1>1, <1>7

\* The order in which elements are added up does not matter.
LEMMA AddsAnyOrder ==
    ASSUME NEW f, NEW S, IsFiniteSet(S), IntOn(f, S), NEW h, Adds(h, f, S)
    PROVE  AnyLast(h, f, S)
  <1>0. \A x \in S : f[x] \in Int
    BY Zenon DEF IntOn
  <1>1. \A s \in SUBSET S : h[s] \in Int
    <2> SUFFICES ASSUME NEW u \in SUBSET S, h[u] \notin Int PROVE FALSE
      OBVIOUS
    <2> DEFINE B == {s \in SUBSET S : h[s] \notin Int}
    <2>1. PICK s \in B : \A y \in B : y \subseteq s => y = s
      <3>1. u \in B /\ B \subseteq SUBSET S
        OBVIOUS
      <3> HIDE DEF B
      <3> QED BY <3>1, MinimalSubset
    <2>2. h[s] = IF s = {} THEN 0 ELSE f[Pick(s)] + h[s \ {Pick(s)}]
      <3>1. s \in SUBSET S
        BY <2>1
      <3> HIDE DEF B
      <3> QED BY Zenon, <3>1, AddsEquation
    <2>3. CASE s = {}
      BY <2>1, <2>2, <2>3
    <2>4. CASE s # {}
      <3>1. Pick(s) \in s
        BY <2>4, PickIn
      <3>2. h[s \ {Pick(s)}] \in Int
        <4>1. s \ {Pick(s)} \notin B /\ s \ {Pick(s)} \in SUBSET S
          BY <2>1, <3>1
        <4> QED BY Zenon, <4>1
      <3>3. f[Pick(s)] \in Int
        BY <1>0, <2>1, <3>1
      <3> QED BY <2>1, <2>2, <2>4, <3>2, <3>3
    <2> QED BY <2>3, <2>4
  <1>2. ASSUME NEW u \in SUBSET S, NEW a \in S, a \in u, h[u] # f[a] + h[u \ {a}] PROVE FALSE
    <2> DEFINE B == {s \in SUBSET S : \E x \in s : h[s] # f[x] + h[s \ {x}]}
    <2>1. PICK s \in B : \A y \in B : y \subseteq s => y = s
      <3>1. u \in B /\ B \subseteq SUBSET S
        BY Zenon, <1>2
      <3> HIDE DEF B
      <3> QED BY <3>1, MinimalSubset
    <2>2. PICK x \in s : h[s] # f[x] + h[s \ {x}]
      BY <2>1
    <2> DEFINE p == Pick(s)
               t == s \ {x, p}
    <2>3. p \in s /\ s \in SUBSET S /\ x \in S /\ p \in S
      BY <2>1, <2>2, PickIn
    <2>4. h[s] = f[p] + h[s \ {p}]
      <3>1. s # {} /\ s \in SUBSET S
        BY <2>3
      <3> HIDE DEF B
      <3> QED BY Zenon, <3>1, AddsEquation
    <2>5. p # x
      BY Zenon, <2>2, <2>4
    <2>6. s \ {p} \notin B /\ s \ {x} \notin B
      BY Zenon, <2>1, <2>2, <2>3
    <2>7. /\ h[s \ {p}] = f[x] + h[(s \ {p}) \ {x}]
          /\ h[s \ {x}] = f[p] + h[(s \ {x}) \ {p}]
      BY Zenon, <2>2, <2>3, <2>5, <2>6
    <2>8. (s \ {p}) \ {x} = t /\ (s \ {x}) \ {p} = t /\ t \in SUBSET S
      BY <2>3
    <2>9. f[p] \in Int /\ f[x] \in Int /\ h[t] \in Int
      BY <1>0, <1>1, <2>3, <2>8
    <2> HIDE DEF p, t
    <2>10. h[s] = f[p] + (f[x] + h[t]) /\ h[s \ {x}] = f[p] + h[t]
      BY Zenon, <2>4, <2>7, <2>8
    <2> QED BY <2>2, <2>9, <2>10
  <1> QED BY Zenon, <1>1, <1>2 DEF AnyLast

\* Adding an element to the domain adds its value to the sum.
LEMMA SumAdd ==
    ASSUME NEW f, NEW g, NEW a, IsFiniteSet(DOMAIN f), a \notin DOMAIN f,
           DOMAIN g = DOMAIN f \cup {a}, \A x \in DOMAIN g : g[x] \in Int,
           \A x \in DOMAIN f : g[x] = f[x]
    PROVE  SumFunction(g) = SumFunction(f) + g[a] /\ SumFunction(f) \in Int
  <1> DEFINE F == DOMAIN f
             G == DOMAIN g
  <1>1. IsFiniteSet(G)
    BY FS_AddElement
  <1>2. PICK h : Adds(h, f, F) /\ SumFunction(f) = h[F]
    BY Zenon, AddsExists, SumIs
  <1>3. PICK k : Adds(k, g, G) /\ SumFunction(g) = k[G]
    BY Zenon, <1>1, AddsExists, SumIs
  <1>4. G \ {a} = F /\ a \in G /\ F \subseteq G /\ IsFiniteSet(F)
    BY Zenon
  <1>5. IntOn(g, G) /\ EqualOn(f, g, F)
    BY Zenon DEF IntOn, EqualOn
  <1>6. AnyLast(k, g, G) /\ Agree(h, k, F)
    <2>1. F \in SUBSET (F \cap G)
      BY Zenon, <1>4
    <2> HIDE DEF F, G
    <2>2. AnyLast(k, g, G)
      BY Zenon, <1>1, <1>3, <1>5, AddsAnyOrder
    <2>3. Agree(h, k, F)
      BY Zenon, <1>2, <1>3, <1>4, <1>5, <2>1, AddsAgree
    <2> QED BY Zenon, <2>2, <2>3
  <1>8. k[G] = g[a] + k[F] /\ k[F] \in Int
    <2> HIDE DEF F, G
    <2> QED BY Zenon, <1>4, <1>6 DEF AnyLast
  <1>7. g[a] \in Int
    OBVIOUS
  <1> QED BY <1>2, <1>3, <1>6, <1>7, <1>8 DEF Agree

\* Changing one value changes the sum by the difference.
LEMMA SumUpdate ==
    ASSUME NEW A, IsFiniteSet(A), NEW f \in [A -> Int], NEW a \in A, NEW d \in Int
    PROVE  SumFunction([f EXCEPT ![a] = @ + d]) = SumFunction(f) + d
  <1> DEFINE g == [f EXCEPT ![a] = @ + d]
             r == [x \in A \ {a} |-> f[x]]
  <1>1. IsFiniteSet(A \ {a})
    BY FS_Subset
  <1>2. SumFunction(f) = SumFunction(r) + f[a] /\ SumFunction(r) \in Int
    <2>1. /\ DOMAIN r = A \ {a} /\ DOMAIN f = (A \ {a}) \cup {a}
          /\ \A x \in DOMAIN f : f[x] \in Int
          /\ \A x \in DOMAIN r : f[x] = r[x]
      OBVIOUS
    <2> HIDE DEF r
    <2> QED BY <1>1, <2>1, SumAdd
  <1>3. SumFunction(g) = SumFunction(r) + g[a]
    <2>1. /\ DOMAIN r = A \ {a} /\ DOMAIN g = (A \ {a}) \cup {a}
          /\ \A x \in DOMAIN g : g[x] \in Int
          /\ \A x \in DOMAIN r : g[x] = r[x]
      OBVIOUS
    <2> HIDE DEF r, g
    <2> QED BY <1>1, <2>1, SumAdd
  <1>4. g[a] = f[a] + d /\ f[a] \in Int
    OBVIOUS
  <1> HIDE DEF g, r
  <1>5. SumFunction(g) = SumFunction(f) + d
    BY <1>2, <1>3, <1>4
  <1> QED BY <1>5 DEF g

\* A finite sum of integers is an integer.
LEMMA SumType ==
    ASSUME NEW A, IsFiniteSet(A), NEW f \in [A -> Int]
    PROVE  SumFunction(f) \in Int
  <1>1. PICK h : Adds(h, f, A) /\ SumFunction(f) = h[A]
    BY Zenon, AddsExists, SumIs
  <1>2. IntOn(f, A)
    BY DEF IntOn
  <1>3. AnyLast(h, f, A)
    BY Zenon, <1>1, <1>2, AddsAnyOrder
  <1> QED BY Zenon, <1>1, <1>3 DEF AnyLast

\* w is what an execution of m that ended with ok makes of s, money aside.
Advanced(s, m, ok, w) ==
    /\ w \in Worlds
    /\ w.nonce = [s.nonce EXCEPT ![m.from] = @ + 1]
    /\ s.created \subseteq w.created
    /\ ok /\ m.to = Creation => <<m.from, s.nonce[m.from]>> \in w.created
    /\ m.from # Depositor => w.l1 = s.l1

\* w is s with x more money.
Credited(s, x, w) ==
    /\ w \in Worlds /\ w.nonce = s.nonce /\ w.created = s.created /\ w.l1 = s.l1
    /\ Supply(w) = Supply(s) + x

\* What receipts rs say about a state w: its balances, its nonces and, after
\* Regolith, the contracts it holds.
Inclusions(rs, a) == {i \in 1..Len(rs) : rs[i].msg.from = a}
MintedBy(rs) == SumFunction([i \in 1..Len(rs) |-> rs[i].msg.mint])

Recorded(rs, w) ==
    /\ Supply(w) = Supply(Genesis) + MintedBy(rs)
    /\ \A a \in Accounts : w.nonce[a] = Genesis.nonce[a] + Cardinality(Inclusions(rs, a))
    /\ Regolith => \A i \in 1..Len(rs) :
          rs[i].ok /\ rs[i].msg.to = Creation => <<rs[i].msg.from, rs[i].nonce>> \in w.created

\* The state before the message in progress is recorded; it is the one that
\* commitTransaction reverts to.
Ledger ==
    /\ pc = "idle" => Recorded(receipts, world)
    /\ Busy => \E w \in Worlds :
          /\ Recorded(receipts, w)
          /\ snap = AddBalance(w, msg.from, msg.mint)
          /\ role = "sequencer" => outer = w

\* The inductive invariant behind the ledgers.
LedgerInv == GasInv /\ Stages /\ Ledger
-----------------------------------------------------------------------------
\* What the two updates of a state do to each of its fields.
LEMMA AddBalanceFields ==
    ASSUME NEW w \in Worlds, NEW a \in Accounts, NEW x \in Int
    PROVE  /\ AddBalance(w, a, x) \in Worlds
           /\ AddBalance(w, a, x).bal = [w.bal EXCEPT ![a] = @ + x]
           /\ AddBalance(w, a, x).nonce = w.nonce
           /\ AddBalance(w, a, x).l1 = w.l1
           /\ AddBalance(w, a, x).created = w.created
           /\ Supply(AddBalance(w, a, x)) = Supply(w) + x
  <1>1. /\ AddBalance(w, a, x).bal = [w.bal EXCEPT ![a] = @ + x]
        /\ AddBalance(w, a, x).nonce = w.nonce
        /\ AddBalance(w, a, x).l1 = w.l1
        /\ AddBalance(w, a, x).created = w.created
    BY DEF AddBalance, Worlds
  <1>2. Supply(AddBalance(w, a, x)) = Supply(w) + x
    <2>1. w.bal \in [Accounts -> Int] /\ IsFiniteSet(Accounts)
      BY AccountsAssumption DEF Worlds
    <2> QED BY <1>1, <2>1, SumUpdate DEF Supply
  <1> QED BY <1>1, <1>2, AddBalanceType

\* Counting up a nonce touches nothing but that nonce.
LEMMA IncNonceFields ==
    ASSUME NEW w \in Worlds, NEW a \in Accounts
    PROVE  /\ IncNonce(w, a) \in Worlds
           /\ IncNonce(w, a).bal = w.bal
           /\ IncNonce(w, a).nonce = [w.nonce EXCEPT ![a] = @ + 1]
           /\ IncNonce(w, a).l1 = w.l1
           /\ IncNonce(w, a).created = w.created
           /\ Supply(IncNonce(w, a)) = Supply(w)
  <1>1. /\ IncNonce(w, a).bal = w.bal
        /\ IncNonce(w, a).nonce = [w.nonce EXCEPT ![a] = @ + 1]
        /\ IncNonce(w, a).l1 = w.l1
        /\ IncNonce(w, a).created = w.created
    BY DEF IncNonce, Worlds
  <1> QED BY <1>1, IncNonceType DEF Supply

\* The supply of a state is an integer.
LEMMA SupplyType ==
    ASSUME NEW w \in Worlds
    PROVE  Supply(w) \in Int
  <1>1. w.bal \in [Accounts -> Int] /\ IsFiniteSet(Accounts)
    BY Zenon, AccountsAssumption DEF Worlds
  <1> QED BY <1>1, SumType DEF Supply

\* The EVM moves the value, counts up the nonce and records a new contract
\* under the sender's nonce; it makes no money and sets the L1 attributes only
\* for the depositor.
LEMMA ExecutedFields ==
    ASSUME NEW w \in Worlds, NEW m \in Messages, NEW g \in Nat, NEW e \in Effects(m, g)
    PROVE  /\ Executed(w, m, e) \in Worlds
           /\ Executed(w, m, e).nonce = [w.nonce EXCEPT ![m.from] = @ + 1]
           /\ w.created \subseteq Executed(w, m, e).created
           /\ e.ok /\ m.to = Creation =>
                 <<m.from, w.nonce[m.from]>> \in Executed(w, m, e).created
           /\ m.from # Depositor => Executed(w, m, e).l1 = w.l1
           /\ Supply(Executed(w, m, e)) = Supply(w)
  <1>1. /\ m.from \in Accounts /\ m.value \in Int /\ -m.value \in Int /\ e.dest \in Accounts
        /\ e.l1 # NoL1 => m.from = Depositor
        /\ e.ok \in BOOLEAN /\ e.l1 \in L1Params \cup {NoL1}
    BY MessageType, AccountsAssumption DEF Effects
  <1> DEFINE called == IncNonce(w, m.from)
             owed == -m.value
             taken == AddBalance(called, m.from, owed)
             paid == AddBalance(taken, e.dest, m.value)
             made == [paid EXCEPT !.created = @ \cup {<<m.from, w.nonce[m.from]>>}]
             deployed == IF m.to = Creation THEN made ELSE paid
             final == IF e.l1 = NoL1 THEN deployed ELSE [deployed EXCEPT !.l1 = e.l1]
  <1>2. /\ called \in Worlds /\ called.nonce = [w.nonce EXCEPT ![m.from] = @ + 1]
        /\ called.created = w.created /\ called.l1 = w.l1 /\ Supply(called) = Supply(w)
    BY Zenon, <1>1, IncNonceFields
  <1>3. /\ taken \in Worlds /\ taken.nonce = called.nonce
        /\ taken.created = w.created /\ taken.l1 = w.l1 /\ Supply(taken) = Supply(w) + owed
    <2>1. owed \in Int
      BY <1>1
    <2>3. called \in Worlds /\ m.from \in Accounts
      <3> HIDE DEF called
      <3> QED BY Zenon, <1>1, <1>2
    <2> HIDE DEF called, owed
    <2>2. /\ taken \in Worlds /\ taken.nonce = called.nonce
          /\ taken.created = called.created /\ taken.l1 = called.l1
          /\ Supply(taken) = Supply(called) + owed
      BY Zenon, <2>1, <2>3, AddBalanceFields
    <2> HIDE DEF taken
    <2> QED BY <1>2, <2>2
  <1>4. /\ paid \in Worlds /\ paid.nonce = called.nonce
        /\ paid.created = w.created /\ paid.l1 = w.l1 /\ Supply(paid) = Supply(w)
    <2>1. Supply(paid) = Supply(taken) + m.value /\ Supply(w) \in Int
      <3> HIDE DEF taken
      <3> QED BY Zenon, <1>1, <1>3, AddBalanceFields, SupplyType
    <2>2. Supply(paid) = Supply(w)
      <3> HIDE DEF taken, paid
      <3> QED BY <1>1, <1>3, <2>1
    <2> HIDE DEF taken
    <2> QED BY Zenon, <1>1, <1>3, <2>2, AddBalanceFields
  <1>5. /\ made.nonce = called.nonce /\ made.bal = paid.bal /\ made.l1 = w.l1
        /\ made.created = w.created \cup {<<m.from, w.nonce[m.from]>>}
        /\ DOMAIN made = DOMAIN paid
    <2> HIDE DEF paid, called
    <2> QED BY Zenon, <1>4 DEF Worlds
  <1>6. /\ deployed.nonce = called.nonce /\ deployed.bal = paid.bal /\ deployed.l1 = w.l1
        /\ w.created \subseteq deployed.created
        /\ m.to = Creation => <<m.from, w.nonce[m.from]>> \in deployed.created
        /\ DOMAIN deployed = DOMAIN paid
    <2> HIDE DEF paid, called, made
    <2> QED BY <1>4, <1>5
  <1>7. /\ final.nonce = called.nonce /\ final.bal = paid.bal
        /\ w.created \subseteq final.created
        /\ m.to = Creation => <<m.from, w.nonce[m.from]>> \in final.created
        /\ m.from # Depositor => final.l1 = w.l1
    <2>1. DOMAIN paid = {"bal", "nonce", "l1", "created"}
      <3> HIDE DEF paid
      <3> QED BY Zenon, <1>4 DEF Worlds
    <2> HIDE DEF deployed, paid, called
    <2> QED BY <1>1, <1>6, <2>1
  <1>8. Supply(final) = Supply(w)
    <2> HIDE DEF final, paid, called
    <2> QED BY <1>4, <1>7 DEF Supply
  <1>9. Executed(w, m, e) = IF ~e.ok THEN called ELSE final
    BY DEF Executed
  <1>10. Executed(w, m, e) \in Worlds
    BY ExecutedType
  <1> HIDE DEF final, called
  <1> QED BY <1>2, <1>7, <1>8, <1>9, <1>10

\* The price of gas is what the coinbase and the base fee recipient get; a
\* deposit pays nothing.
LEMMA PriceSplit ==
    ASSUME NEW m \in Messages
    PROVE  /\ GasPrice(m) \in Int /\ EffectiveTip(m.tipCap, m.feeCap, BaseFee) \in Int
           /\ GasPrice(m) = EffectiveTip(m.tipCap, m.feeCap, BaseFee) + BaseFee
           /\ IsDepositTx(m) => GasPrice(m) = 0
  <1>1. /\ m.tipCap \in Nat /\ m.feeCap \in Nat /\ BaseFee \in Nat
        /\ IsDepositTx(m) => m.tipCap = 0 /\ m.feeCap = 0
    BY MessageType, NumbersAssumption, MessagesAssumption DEF IsDepositTx
  <1> QED BY <1>1 DEF GasPrice, EffectiveGasPrice, EffectiveTip, Lower

\* refundGas gives back no more than the message bought.
LEMMA LeftOverType ==
    ASSUME NEW m \in Messages, NEW g \in Nat, g <= m.gas, NEW e \in Effects(m, g)
    PROVE  /\ LeftOver(m, e) \in Nat /\ LeftOver(m, e) <= m.gas
           /\ Spent(m, e) \in Nat /\ m.gas = LeftOver(m, e) + Spent(m, e)
  <1>1. /\ m.gas \in Nat /\ e.left \in Nat /\ e.left <= m.gas /\ e.refund \in Nat
    BY MessageType, NumbersAssumption DEF Effects
  <1> DEFINE q == (m.gas - e.left) \div 5
  <1>2. q \in Nat /\ q <= m.gas - e.left
    BY <1>1
  <1> HIDE DEF q
  <1>3. LeftOver(m, e) = e.left + Lower(q, e.refund)
    BY DEF LeftOver, q, RefundQuotientEIP3529
  <1> QED BY <1>1, <1>2, <1>3 DEF Lower, Spent

\* buyGas takes the charge from the sender and nothing else.
LEMMA BoughtFields ==
    ASSUME NEW s \in Worlds, NEW m \in Messages, NEW c \in Int
    PROVE  /\ Bought(s, m, c) \in Worlds /\ Bought(s, m, c).nonce = s.nonce
           /\ Bought(s, m, c).created = s.created /\ Bought(s, m, c).l1 = s.l1
           /\ IsDepositTx(m) => Bought(s, m, c) = s
           /\ ~IsDepositTx(m) =>
                 Supply(Bought(s, m, c)) = Supply(s) + (-Charge(m, c))
  <1> DEFINE x == -Charge(m, c)
  <1>1. x \in Int /\ m.from \in Accounts
    <2>1. m.gas \in Nat /\ GasPrice(m) \in Int /\ m.from \in Accounts
      BY MessageType, PriceSplit
    <2>2. m.gas * GasPrice(m) \in Int
      BY <2>1
    <2> QED BY <2>1, <2>2 DEF Charge
  <1>2. Bought(s, m, c) = IF IsDepositTx(m) THEN s ELSE AddBalance(s, m.from, x)
    BY DEF Bought
  <1>3. CASE IsDepositTx(m)
    BY Zenon, <1>2, <1>3
  <1>4. CASE ~IsDepositTx(m)
    <2> HIDE DEF x
    <2> DEFINE b == AddBalance(s, m.from, x)
    <2>1. Bought(s, m, c) = b
      BY <1>2, <1>4
    <2>2. /\ b \in Worlds /\ b.nonce = s.nonce /\ b.created = s.created /\ b.l1 = s.l1
          /\ Supply(b) = Supply(s) + x
      BY Zenon, <1>1, AddBalanceFields
    <2> HIDE DEF b
    <2> QED BY Zenon, <1>4, <2>1, <2>2 DEF x
  <1> QED BY Zenon, <1>3, <1>4

\* The state after the EVM ran on a message that was let through.
LEMMA RanFields ==
    ASSUME NEW s \in Worlds, NEW m \in Messages, NEW c \in Int, m.gas >= m.intrinsic,
           NEW e \in Effects(m, m.gas - m.intrinsic)
    PROVE  /\ Advanced(s, m, e.ok, Ran(s, m, e, c))
           /\ IsDepositTx(m) => Supply(Ran(s, m, e, c)) = Supply(s)
           /\ ~IsDepositTx(m) =>
                 Supply(Ran(s, m, e, c)) = Supply(s) + (-Charge(m, c))
  <1>1. m.gas - m.intrinsic \in Nat
    BY MessageType
  <1> DEFINE b == Bought(s, m, c)
             g == m.gas - m.intrinsic
  <1>2. /\ b \in Worlds /\ b.nonce = s.nonce /\ b.created = s.created /\ b.l1 = s.l1
        /\ IsDepositTx(m) => Supply(b) = Supply(s)
        /\ ~IsDepositTx(m) => Supply(b) = Supply(s) + (-Charge(m, c))
    BY Zenon, BoughtFields
  <1>3. Ran(s, m, e, c) = Executed(b, m, e)
    BY DEF Ran
  <1>4. g \in Nat /\ e \in Effects(m, g)
    BY Zenon, <1>1
  <1> HIDE DEF b, g
  <1>5. /\ Executed(b, m, e) \in Worlds
        /\ Executed(b, m, e).nonce = [b.nonce EXCEPT ![m.from] = @ + 1]
        /\ b.created \subseteq Executed(b, m, e).created
        /\ e.ok /\ m.to = Creation =>
              <<m.from, b.nonce[m.from]>> \in Executed(b, m, e).created
        /\ m.from # Depositor => Executed(b, m, e).l1 = b.l1
        /\ Supply(Executed(b, m, e)) = Supply(b)
    BY <1>2, <1>4, ExecutedFields
  <1>6. Advanced(s, m, e.ok, Ran(s, m, e, c))
    BY Zenon, <1>2, <1>3, <1>5 DEF Advanced
  <1> QED BY Zenon, <1>2, <1>3, <1>5, <1>6

\* What refundGas and the fee payments do to the state the EVM leaves.
LEMMA RefundedFields ==
    ASSUME NEW s \in Worlds, NEW m \in Messages, NEW c \in Int, m.gas >= m.intrinsic,
           NEW e \in Effects(m, m.gas - m.intrinsic), NEW r \in Worlds, r = Ran(s, m, e, c)
    PROVE  Credited(r, LeftOver(m, e) * GasPrice(m), Refunded(s, m, e, c))
  <1> DEFINE x == LeftOver(m, e) * GasPrice(m)
             g == m.gas - m.intrinsic
  <1>1. m.from \in Accounts /\ g \in Nat /\ g <= m.gas /\ GasPrice(m) \in Int
    BY MessageType, PriceSplit
  <1>2. LeftOver(m, e) \in Nat
    <2> HIDE DEF g
    <2>1. e \in Effects(m, g)
      BY DEF g
    <2> QED BY Zenon, <1>1, <2>1, LeftOverType
  <1>3. x \in Int
    BY <1>1, <1>2
  <1>4. Refunded(s, m, e, c) = AddBalance(r, m.from, x)
    BY DEF Refunded
  <1>5. x = LeftOver(m, e) * GasPrice(m)
    OBVIOUS
  <1> HIDE DEF x, g
  <1>6. LET v == AddBalance(r, m.from, x)
        IN  /\ v \in Worlds /\ v.nonce = r.nonce /\ v.created = r.created /\ v.l1 = r.l1
            /\ Supply(v) = Supply(r) + x
    BY Zenon, <1>1, <1>3, AddBalanceFields
  <1> QED BY Zenon, <1>4, <1>5, <1>6 DEF Credited

\* Three credits one after the other.
LEMMA ThreeCredits ==
    ASSUME NEW r \in Worlds, NEW x \in Int, NEW y \in Int, NEW z \in Int,
           NEW i \in Accounts, NEW j \in Accounts, NEW k \in Accounts, NEW v,
           v = AddBalance(AddBalance(AddBalance(r, i, x), j, y), k, z)
    PROVE  /\ v \in Worlds /\ v.nonce = r.nonce /\ v.created = r.created /\ v.l1 = r.l1
           /\ Supply(v) = Supply(r) + x + y + z
  <1> DEFINE t == AddBalance(r, i, x)
             b == AddBalance(t, j, y)
             u == AddBalance(b, k, z)
  <1>1. /\ t \in Worlds /\ t.nonce = r.nonce /\ t.created = r.created /\ t.l1 = r.l1
        /\ Supply(t) = Supply(r) + x
    BY Zenon, AddBalanceFields
  <1>2. v = u
    BY Zenon
  <1> HIDE DEF t
  <1>3. /\ b \in Worlds /\ b.nonce = t.nonce /\ b.created = t.created /\ b.l1 = t.l1
        /\ Supply(b) = Supply(t) + y
    BY Zenon, <1>1, AddBalanceFields
  <1> HIDE DEF b
  <1>4. /\ u \in Worlds /\ u.nonce = b.nonce /\ u.created = b.created /\ u.l1 = b.l1
        /\ Supply(u) = Supply(b) + z
    BY Zenon, <1>3, AddBalanceFields
  <1> HIDE DEF u
  <1>5. Supply(r) \in Int
    BY SupplyType
  <1> QED BY <1>1, <1>2, <1>3, <1>4, <1>5

\* Tip, base fee and L1 fee hand out what the sender was charged and not
\* refunded.
LEMMA SettledFields ==
    ASSUME NEW s \in Worlds, NEW m \in Messages, NEW c \in Int, m.gas >= m.intrinsic,
           NEW e \in Effects(m, m.gas - m.intrinsic),
           NEW r \in Worlds, r = Refunded(s, m, e, c)
    PROVE  Credited(r, Spent(m, e) * GasPrice(m) + c, Settled(s, m, e, c))
  <1> DEFINE tip == EffectiveTip(m.tipCap, m.feeCap, BaseFee)
             x == Spent(m, e) * tip
             y == Spent(m, e) * BaseFee
             g == m.gas - m.intrinsic
             v == Settled(s, m, e, c)
  <1>1. g \in Nat /\ g <= m.gas /\ e \in Effects(m, g)
    BY MessageType
  <1>2. Spent(m, e) \in Nat
    <2> HIDE DEF g
    <2> QED BY Zenon, <1>1, LeftOverType
  <1>3. tip \in Int /\ BaseFee \in Int /\ GasPrice(m) = tip + BaseFee
    BY PriceSplit, NumbersAssumption
  <1>4. x \in Int /\ y \in Int
    <2> HIDE DEF tip
    <2> QED BY <1>2, <1>3
  <1>9. Spent(m, e) * GasPrice(m) = x + y
    <2> HIDE DEF tip
    <2> QED BY <1>2, <1>3
  <1>5. v = AddBalance(AddBalance(AddBalance(r, Coinbase, x), BaseFeeRecipient, y),
                       L1FeeRecipient, c)
    BY Zenon DEF Settled, Burnt, Tipped
  <1>6. /\ Coinbase \in Accounts /\ BaseFeeRecipient \in Accounts /\ L1FeeRecipient \in Accounts
    BY AccountsAssumption
  <1> HIDE DEF tip, x, y, g, v
  <1>7. /\ v \in Worlds /\ v.nonce = r.nonce /\ v.created = r.created /\ v.l1 = r.l1
        /\ Supply(v) = Supply(r) + x + y + c
    BY <1>4, <1>5, <1>6, ThreeCredits
  <1>8. Supply(v) = Supply(r) + (Spent(m, e) * GasPrice(m) + c)
    <2>1. Supply(r) \in Int
      BY SupplyType
    <2> QED BY <1>4, <1>9, <1>7, <2>1
  <1> QED BY Zenon, <1>7, <1>8 DEF Credited, v

\* The refund, the tip, the base fee and the L1 fee add up to what was bought:
\* an included message moves the nonce by one and makes or destroys no money.
LEMMA OutcomeFields ==
    ASSUME NEW s \in Worlds, NEW m \in Messages, NEW c \in Int, NEW e, Includable(s, m, e, c),
           NEW o, o = Outcome(s, m, e, c)
    PROVE  Advanced(s, m, o.ok, o.world) /\ Supply(o.world) = Supply(s)
  <1>0. m.from \in Accounts /\ m.gas \in Nat /\ m.intrinsic \in Nat
    BY Zenon, MessageType
  <1>1. CASE Fails(s, m, c)
    <2>1. o.world = IncNonce(s, m.from) /\ o.ok = FALSE
      BY Zenon, <1>1 DEF Outcome
    <2> DEFINE w == IncNonce(s, m.from)
    <2>2. /\ w \in Worlds /\ w.nonce = [s.nonce EXCEPT ![m.from] = @ + 1]
          /\ w.created = s.created /\ w.l1 = s.l1 /\ Supply(w) = Supply(s)
      BY Zenon, <1>0, IncNonceFields
    <2> HIDE DEF w
    <2>3. o.world = w
      BY Zenon, <2>1 DEF w
    <2> QED BY Zenon, <2>1, <2>2, <2>3 DEF Advanced
  <1>2. CASE ~Fails(s, m, c)
    <2> DEFINE r == Ran(s, m, e, c)
               f == Refunded(s, m, e, c)
               v == Settled(s, m, e, c)
               p == GasPrice(m)
    <2>1. /\ e \in Effects(m, m.gas - m.intrinsic) /\ m.gas >= m.intrinsic
      BY Zenon, <1>2 DEF Includable, Prepared
    <2>2. /\ Advanced(s, m, e.ok, r)
          /\ IsDepositTx(m) => Supply(r) = Supply(s)
          /\ ~IsDepositTx(m) => Supply(r) = Supply(s) + (-Charge(m, c))
      BY Zenon, <2>1, RanFields
    <2>3. Credited(r, LeftOver(m, e) * p, f)
      <3>1. r \in Worlds
        BY Zenon, <2>2 DEF Advanced
      <3> QED BY Zenon, <2>1, <3>1, RefundedFields
    <2>4. Credited(f, Spent(m, e) * p + c, v)
      <3>1. f \in Worlds
        BY Zenon, <2>3 DEF Credited
      <3> QED BY Zenon, <2>1, <3>1, SettledFields
    <2>5. /\ LeftOver(m, e) \in Nat /\ Spent(m, e) \in Nat
          /\ m.gas = LeftOver(m, e) + Spent(m, e)
      <3> DEFINE g == m.gas - m.intrinsic
      <3>1. g \in Nat /\ g <= m.gas /\ e \in Effects(m, g)
        BY <1>0, <2>1
      <3> HIDE DEF g
      <3> QED BY Zenon, <3>1, LeftOverType
    <2>6. p \in Int /\ (IsDepositTx(m) => p = 0) /\ Supply(s) \in Int /\ Supply(r) \in Int
      BY Zenon, <2>2, PriceSplit, SupplyType DEF Advanced
    <2>7. /\ o.ok = e.ok
          /\ o.world = IF ~IsDepositTx(m) THEN v ELSE IF Regolith THEN f ELSE r
      BY Zenon, <1>2 DEF Outcome
    <2> HIDE DEF r, f, v, p
    <2>8. CASE ~IsDepositTx(m)
      <3>1. Supply(v) = Supply(s)
        <4>1. Charge(m, c) = LeftOver(m, e) * p + Spent(m, e) * p + c
          BY <2>5, <2>6 DEF Charge, p
        <4>2. LeftOver(m, e) * p \in Int /\ Spent(m, e) * p \in Int
          BY <2>5, <2>6
        <4>3. /\ Supply(f) = Supply(r) + LeftOver(m, e) * p
              /\ Supply(v) = Supply(f) + (Spent(m, e) * p + c)
          BY Zenon, <2>3, <2>4 DEF Credited
        <4>4. Supply(r) = Supply(s) + (-Charge(m, c))
          BY Zenon, <2>2, <2>8
        <4> QED BY <2>6, <4>1, <4>2, <4>3, <4>4
      <3>2. o.world = v /\ o.ok = e.ok
        BY Zenon, <2>7, <2>8
      <3>3. Advanced(s, m, e.ok, v)
        BY Zenon, <2>2, <2>3, <2>4 DEF Advanced, Credited
      <3> QED BY Zenon, <3>1, <3>2, <3>3
    <2>9. CASE IsDepositTx(m) /\ Regolith
      <3>1. Supply(f) = Supply(s)
        <4>1. LeftOver(m, e) * p = 0
          BY <2>5, <2>6, <2>9
        <4>2. Supply(f) = Supply(r) + LeftOver(m, e) * p
          BY Zenon, <2>3 DEF Credited
        <4>3. Supply(r) = Supply(s)
          BY Zenon, <2>2, <2>9
        <4> QED BY <2>6, <4>1, <4>2, <4>3
      <3>2. o.world = f /\ o.ok = e.ok
        BY Zenon, <2>7, <2>9
      <3>3. Advanced(s, m, e.ok, f)
        BY Zenon, <2>2, <2>3 DEF Advanced, Credited
      <3> QED BY <3>1, <3>2, <3>3
    <2>10. CASE IsDepositTx(m) /\ ~Regolith
      <3>1. o.world = r /\ o.ok = e.ok
        BY Zenon, <2>7, <2>10
      <3> QED BY Zenon, <2>2, <2>10, <3>1
    <2> QED BY Zenon, <2>8, <2>9, <2>10
  <1> QED BY Zenon, <1>1, <1>2

-----------------------------------------------------------------------------
\* An empty block leaves the parent state.
LEMMA RecordedEmpty == Recorded(<<>>, Genesis)
  <1>1. Genesis \in Worlds
    BY Zenon, BlockAssumption
  <1> DEFINE f == [i \in 1..Len(<<>>) |-> <<>>[i].msg.mint]
  <1>2. DOMAIN f = {}
    OBVIOUS
  <1>3. SumFunction(f) = 0
    <2>1. PICK h : Adds(h, f, {}) /\ SumFunction(f) = h[{}]
      <3> HIDE DEF f
      <3> QED BY Zenon, <1>2, FS_EmptySet, AddsExists, SumIs
    <2> HIDE DEF f
    <2> QED BY Zenon, <2>1, AddsEquation
  <1>4. MintedBy(<<>>) = 0
    BY Zenon, <1>3 DEF MintedBy
  <1>5. \A a \in Accounts : Inclusions(<<>>, a) = {}
    BY DEF Inclusions
  <1>6. Cardinality({}) = 0
    BY Zenon, FS_EmptySet
  <1>7. \A a \in Accounts : Genesis.nonce[a] \in Nat
    BY Zenon, <1>1 DEF Worlds
  <1>8. Supply(Genesis) \in Int
    BY <1>1, SupplyType
  <1>9. Supply(Genesis) = Supply(Genesis) + MintedBy(<<>>)
    BY <1>4, <1>8
  <1>10. ASSUME NEW a \in Accounts
         PROVE  Genesis.nonce[a] = Genesis.nonce[a] + Cardinality(Inclusions(<<>>, a))
    <2>1. Cardinality(Inclusions(<<>>, a)) = 0
      BY Zenon, <1>5, <1>6
    <2>2. Genesis.nonce[a] \in Nat
      BY Zenon, <1>7
    <2> QED BY <2>1, <2>2
  <1>11. 1..Len(<<>>) = {}
    OBVIOUS
  <1> QED BY Zenon, <1>9, <1>10, <1>11 DEF Recorded

\* A natural is an integer.
LEMMA NatInt == \A k \in Nat : k \in Int
    OBVIOUS

\* One more place.
LEMMA OneMore ==
    ASSUME NEW k \in Nat
    PROVE  1..(k + 1) = (1..k) \cup {k + 1} /\ k + 1 \notin 1..k
    OBVIOUS

\* The places of a sequence are finitely many.
LEMMA PlacesFinite ==
    ASSUME NEW k \in Nat
    PROVE  IsFiniteSet(1..k)
    BY FS_Interval

\* A new receipt: one more inclusion of its sender, its mint on top.
LEMMA RecordedNext ==
    ASSUME NEW rs \in Seq(Receipts), NEW r \in Receipts,
           NEW w \in Worlds, Recorded(rs, w),
           NEW v \in Worlds, Supply(v) = Supply(w) + r.msg.mint,
           v.nonce = [w.nonce EXCEPT ![r.msg.from] = @ + 1],
           w.created \subseteq v.created,
           Regolith /\ r.ok /\ r.msg.to = Creation => <<r.msg.from, r.nonce>> \in v.created
    PROVE  Recorded(Append(rs, r), v)
  <1> DEFINE n == Len(rs)
             rs2 == Append(rs, r)
  <1>1. r.msg \in Messages /\ r.msg.from \in Accounts /\ r.msg.mint \in Nat
    <2>1. r.msg \in Messages
      BY Zenon DEF Receipts
    <2> QED BY Zenon, <2>1, MessageType
  <1>2. /\ n \in Nat /\ Len(rs2) = n + 1
        /\ \A i \in 1..n : rs2[i] = rs[i] /\ rs[i] \in Receipts
        /\ rs2[n + 1] = r
    <2> HIDE DEF Receipts
    <2> QED OBVIOUS
  <1> HIDE DEF n, rs2
  <1>3. n = Len(rs)
    BY Zenon DEF n
  <1>4. Supply(v) = Supply(Genesis) + MintedBy(rs2)
    <2> DEFINE f == [i \in 1..Len(rs) |-> rs[i].msg.mint]
               g == [i \in 1..Len(rs2) |-> rs2[i].msg.mint]
               a == n + 1
    <2>1. \A i \in 1..n : rs[i].msg.mint \in Int
      <3>1. \A x \in Receipts : x.msg \in Messages
        BY Zenon DEF Receipts
      <3>2. \A x \in Receipts : x.msg.mint \in Int
        BY <3>1, MessageType
      <3> QED BY Zenon, <1>2, <3>2
    <2>2. DOMAIN f = 1..n /\ DOMAIN g = DOMAIN f \cup {a} /\ a \notin DOMAIN f /\ g[a] = r.msg.mint
      <3>1. 1..a = (1..n) \cup {a} /\ a \notin 1..n
        BY Zenon, <1>2, OneMore
      <3>2. DOMAIN f = 1..n /\ DOMAIN g = 1..a
        BY Zenon, <1>2, <1>3
      <3>3. g[a] = r.msg.mint
        BY Zenon, <1>2, <3>1
      <3> QED BY Zenon, <3>1, <3>2, <3>3
    <2>4. \A x \in DOMAIN f : g[x] = f[x]
      BY Zenon, <1>2, <1>3, <2>2
    <2>3. \A x \in DOMAIN g : g[x] \in Int
      <3>1. \A x \in DOMAIN f : f[x] \in Int
        BY Zenon, <1>3, <2>1
      <3>2. g[a] \in Int
        BY Zenon, <1>1, <2>2, NatInt
      <3> QED BY Zenon, <2>2, <2>4, <3>1, <3>2
    <2>5. IsFiniteSet(DOMAIN f)
      BY Zenon, <1>2, <2>2, PlacesFinite
    <2>6. MintedBy(rs) = SumFunction(f) /\ MintedBy(rs2) = SumFunction(g)
      BY Zenon DEF MintedBy
    <2> HIDE DEF f, g, a
    <2>7. SumFunction(g) = SumFunction(f) + r.msg.mint /\ SumFunction(f) \in Int
      <3>1. g[a] = r.msg.mint
        BY Zenon, <2>2
      <3>2. SumFunction(g) = SumFunction(f) + g[a] /\ SumFunction(f) \in Int
        BY Zenon, <2>2, <2>3, <2>4, <2>5, SumAdd
      <3> QED BY Zenon, <3>1, <3>2
    <2>8. Supply(Genesis) \in Int /\ Supply(w) = Supply(Genesis) + MintedBy(rs)
      BY Zenon, BlockAssumption, SupplyType DEF Recorded
    <2> QED BY <1>1, <2>6, <2>7, <2>8
  <1>5. ASSUME NEW a \in Accounts
        PROVE  v.nonce[a] = Genesis.nonce[a] + Cardinality(Inclusions(rs2, a))
    <2> DEFINE I == Inclusions(rs, a)
               J == Inclusions(rs2, a)
    <2>1. I = {i \in 1..n : rs[i].msg.from = a} /\ J = {i \in 1..(n + 1) : rs2[i].msg.from = a}
      BY Zenon, <1>2, <1>3 DEF Inclusions
    <2>2. J = IF a = r.msg.from THEN I \cup {n + 1} ELSE I
      BY <1>2, <2>1
    <2>3. IsFiniteSet(I) /\ n + 1 \notin I
      <3>1. I \subseteq 1..n /\ n + 1 \notin I
        BY <1>2, <2>1
      <3>2. IsFiniteSet(1..n)
        BY <1>2, FS_Interval
      <3> HIDE DEF I
      <3> QED BY Zenon, <3>1, <3>2, FS_Subset
    <2>4. /\ w.nonce[a] = Genesis.nonce[a] + Cardinality(I)
          /\ Genesis.nonce[a] \in Nat /\ w.nonce \in [Accounts -> Nat]
      <3>1. Genesis.nonce \in [Accounts -> Nat] /\ w.nonce \in [Accounts -> Nat]
        BY Zenon, BlockAssumption DEF Worlds
      <3>2. w.nonce[a] = Genesis.nonce[a] + Cardinality(I)
        BY Zenon DEF Recorded
      <3> QED BY Zenon, <3>1, <3>2
    <2> HIDE DEF I, J
    <2>5. Cardinality(I) \in Nat
      BY Zenon, <2>3, FS_CardinalityType
    <2>6. Cardinality(J) = IF a = r.msg.from THEN Cardinality(I) + 1 ELSE Cardinality(I)
      BY Zenon, <2>2, <2>3, FS_AddElement
    <2>7. v.nonce[a] = IF a = r.msg.from THEN w.nonce[a] + 1 ELSE w.nonce[a]
      BY Zenon, <1>1, <2>4
    <2>8. v.nonce[a] = Genesis.nonce[a] + Cardinality(J)
      <3>1. CASE a = r.msg.from
        <4>1. v.nonce[a] = w.nonce[a] + 1 /\ Cardinality(J) = Cardinality(I) + 1
          BY Zenon, <2>6, <2>7, <3>1
        <4>2. w.nonce[a] + 1 = Genesis.nonce[a] + (Cardinality(I) + 1)
          <5>1. \A y \in Nat, c \in Nat : (y + c) + 1 = y + (c + 1)
            OBVIOUS
          <5>2. (Genesis.nonce[a] + Cardinality(I)) + 1 = Genesis.nonce[a] + (Cardinality(I) + 1)
            BY Zenon, <2>4, <2>5, <5>1
          <5> QED BY Zenon, <2>4, <5>2
        <4> QED BY Zenon, <4>1, <4>2
      <3>2. CASE a # r.msg.from
        <4>1. v.nonce[a] = w.nonce[a] /\ Cardinality(J) = Cardinality(I)
          BY Zenon, <2>6, <2>7, <3>2
        <4> QED BY Zenon, <2>4, <4>1
      <3> QED BY Zenon, <3>1, <3>2
    <2> QED BY Zenon, <2>8 DEF J
  <1>6. ASSUME Regolith, NEW i \in 1..Len(rs2), rs2[i].ok, rs2[i].msg.to = Creation
        PROVE  <<rs2[i].msg.from, rs2[i].nonce>> \in v.created
    <2>1. CASE i = n + 1
      BY Zenon, <1>2, <1>6, <2>1
    <2>2. CASE i # n + 1
      <3>1. i \in 1..Len(rs) /\ rs2[i] = rs[i]
        BY <1>2, <1>3, <2>2
      <3>2. <<rs[i].msg.from, rs[i].nonce>> \in w.created
        BY Zenon, <1>6, <3>1 DEF Recorded
      <3> QED BY Zenon, <3>1, <3>2
    <2> QED BY <2>1, <2>2
  <1>7. Recorded(rs2, v)
    BY Zenon, <1>4, <1>5, <1>6 DEF Recorded
  <1> QED BY <1>7 DEF rs2

\* The mint that TransitionDb credits before its snapshot.
LEMMA MintFields ==
    ASSUME NEW w \in Worlds, NEW m \in Messages, NEW s, s = AddBalance(w, m.from, m.mint)
    PROVE  /\ s \in Worlds /\ s.nonce = w.nonce /\ s.l1 = w.l1 /\ s.created = w.created
           /\ Supply(s) = Supply(w) + m.mint
  <1> DEFINE a == m.from
             x == m.mint
  <1>1. a \in Accounts /\ x \in Int
    BY MessageType
  <1> HIDE DEF a, x
  <1>2. s = AddBalance(w, a, x)
    BY Zenon DEF a, x
  <1>3. /\ s \in Worlds /\ s.nonce = w.nonce /\ s.l1 = w.l1 /\ s.created = w.created
    <2>1. /\ AddBalance(w, a, x) \in Worlds
          /\ AddBalance(w, a, x).nonce = w.nonce
          /\ AddBalance(w, a, x).l1 = w.l1
          /\ AddBalance(w, a, x).created = w.created
      BY Zenon, <1>1, AddBalanceFields
    <2> QED BY Zenon, <1>2, <2>1
  <1>4. Supply(AddBalance(w, a, x)) = Supply(w) + x
    BY Zenon, <1>1, AddBalanceFields
  <1> QED BY <1>2, <1>3, <1>4 DEF x

\* Starting a message from a recorded state.
LEMMA StartLedger ==
    ASSUME GasInv, Ledger, NEW m \in Messages, TransitionDb(m), receipts' = receipts,
           role' = role, role = "sequencer" => outer' = world
    PROVE  Ledger'
  <1>1. /\ Recorded(receipts, world) /\ world \in Worlds /\ pc' = "preCheck" /\ msg' = m
        /\ snap' = AddBalance(world, m.from, m.mint)
    BY Zenon DEF TransitionDb, SnapshotMinted, Ledger, GasInv, TypeOK
  <1>2. /\ Recorded(receipts, world)
        /\ snap' = AddBalance(world, msg'.from, msg'.mint)
        /\ role' = "sequencer" => outer' = world
    BY Zenon, <1>1
  <1>3. \E w \in Worlds : /\ Recorded(receipts', w)
                          /\ snap' = AddBalance(w, msg'.from, msg'.mint)
                          /\ role' = "sequencer" => outer' = w
    BY Zenon, <1>1, <1>2
  <1> QED BY Zenon, <1>1, <1>3 DEF Ledger

\* A step in the middle of a message.
LEMMA MiddleLedger ==
    ASSUME Ledger, Busy, Busy', UNCHANGED <<receipts, snap, msg, outer, role>>
    PROVE  Ledger'
  BY Zenon DEF Ledger, Busy

\* Between messages the world is recorded.
LEMMA IdleLedger ==
    ASSUME pc' \in {"idle"} \cup Terminal, pc' = "idle" => Recorded(receipts', world')
    PROVE  Ledger'
  BY Zenon DEF Ledger, Busy, Terminal

\* OutcomeFields for the message in progress.
LEMMA AppliedFields ==
    ASSUME snap \in Worlds, msg \in Messages, cost \in Int, Includable(snap, msg, effect, cost),
           NEW o, o = Outcome(snap, msg, effect, cost)
    PROVE  Advanced(snap, msg, o.ok, o.world) /\ Supply(o.world) = Supply(snap)
  BY OutcomeFields

\* The receipt of an included message records the state the message leaves.
LEMMA IncludedLedger ==
    ASSUME LedgerInv, Included
    PROVE  Ledger'
  <1>1. /\ pc = "result" /\ result.err = "none" /\ Busy /\ pc' = "idle" /\ world' = world
        /\ receipts' = Append(receipts, Receipt(msg))
    BY Zenon DEF Included, Busy
  <1>2. /\ msg \in Messages /\ msg.from \in Accounts /\ msg.mint \in Nat /\ msg.nonce \in Nat
        /\ cost \in Int /\ snap \in Worlds /\ world \in Worlds /\ receipts \in Seq(Receipts)
    BY <1>1, InProgress DEF LedgerInv, GasInv, TypeOK
  <1>3. PICK w \in Worlds : Recorded(receipts, w) /\ snap = AddBalance(w, msg.from, msg.mint)
    BY <1>1 DEF LedgerInv, Ledger
  <1>4. Applied
    BY Zenon, <1>1 DEF LedgerInv, Stages
  <1>5. PICK o : o = Outcome(snap, msg, effect, cost)
    BY Zenon
  <1>6. /\ Includable(snap, msg, effect, cost)
        /\ world = o.world /\ result.used = o.used /\ result.ok = o.ok
    BY Zenon, <1>4, <1>5 DEF Applied
  <1>7. Advanced(snap, msg, o.ok, o.world) /\ Supply(o.world) = Supply(snap)
    BY Zenon, <1>2, <1>5, <1>6, AppliedFields
  <1>8. /\ snap.nonce = w.nonce /\ snap.created = w.created
        /\ Supply(snap) = Supply(w) + msg.mint
    BY <1>2, <1>3, MintFields
  <1> DEFINE r == Receipt(msg)
  <1>9. /\ r \in Receipts /\ r.msg = msg /\ r.ok = result.ok /\ r.nonce = ReceiptNonce(msg)
    <2>1. usedGas \in Nat /\ result.used \in Nat /\ result.ok \in BOOLEAN
      BY Zenon, Counters DEF LedgerInv
    <2>2. ReceiptNonce(msg) \in Nat
      BY Zenon, <1>2 DEF ReceiptNonce, Worlds
    <2> QED BY <1>2, <2>1, <2>2 DEF Receipt, Receipts
  <1>10. Regolith => r.nonce = snap.nonce[msg.from]
    <2>1. Checks(snap, msg, cost)
      BY Zenon, <1>6 DEF Includable
    <2> QED BY Zenon, <1>9, <2>1 DEF ReceiptNonce, Checks
  <1> HIDE DEF r
  <1>11. Recorded(Append(receipts, r), world)
    <2>1. /\ Supply(world) = Supply(w) + r.msg.mint
          /\ world.nonce = [w.nonce EXCEPT ![r.msg.from] = @ + 1]
          /\ w.created \subseteq world.created
          /\ Regolith /\ r.ok /\ r.msg.to = Creation => <<r.msg.from, r.nonce>> \in world.created
      BY Zenon, <1>6, <1>7, <1>8, <1>9, <1>10 DEF Advanced
    <2> QED BY Zenon, <1>2, <1>3, <1>9, <2>1, RecordedNext
  <1> QED BY Zenon, <1>1, <1>11, IdleLedger DEF r

\* The parent state is recorded by no receipts.
LEMMA LedgerInvInit == Init => LedgerInv
  <1> SUFFICES ASSUME Init PROVE LedgerInv
    OBVIOUS
  <1>1. GasInv
    BY GasInvInit
  <1>2. pc = "idle" /\ receipts = <<>> /\ world = Genesis
    BY Zenon DEF Init
  <1>3. Stages
    BY StagesInit
  <1>4. Ledger
    BY Zenon, <1>2, RecordedEmpty DEF Ledger, Busy
  <1> QED BY <1>1, <1>3, <1>4 DEF LedgerInv

\* Every step keeps the ledgers, one case per action.
LEMMA LedgerInvNext == LedgerInv /\ [Next]_vars => LedgerInv'
  <1> SUFFICES ASSUME LedgerInv, [Next]_vars PROVE LedgerInv'
    BY Zenon
  <1>1. GasInv /\ Stages /\ Ledger /\ GasInv' /\ Stages'
    BY Zenon, GasInvNext, StagesNext DEF LedgerInv
  <1>2. CASE PickForced \/ \E a \in Accounts : PickPool(a)
    <2>1. PICK m \in Messages : CommitTransaction(m) /\ role = "sequencer"
      <3>1. CASE PickForced
        <4>1. Head(forced) \in Messages
          <5>1. forced \in Seq(Messages)
            BY Zenon, <1>1 DEF GasInv, TypeOK
          <5>2. forced # <<>>
            BY Zenon, <3>1 DEF PickForced
          <5> QED BY <5>1, <5>2
        <4> QED BY Zenon, <3>1, <4>1 DEF PickForced
      <3>2. CASE \E a \in Accounts : PickPool(a)
        <4>1. PICK a \in Accounts : PickPool(a)
          BY Zenon, <3>2
        <4>2. pool[a] \in Seq(Messages) /\ pool[a] # <<>>
          BY Zenon, <1>1, <4>1 DEF PickPool, GasInv, TypeOK
        <4>3. Head(pool[a]) \in Messages
          BY <4>2
        <4> QED BY Zenon, <4>1, <4>3 DEF PickPool
      <3> QED BY Zenon, <1>2, <3>1, <3>2
    <2>2. TransitionDb(m) /\ receipts' = receipts /\ role' = role /\ outer' = world
      BY Zenon, <2>1 DEF CommitTransaction
    <2>3. Ledger'
      BY Zenon, <1>1, <2>2, StartLedger
    <2> QED BY <1>1, <2>3 DEF LedgerInv
  <1>3. CASE ProcessNext
    <2> DEFINE m == block[Len(receipts) + 1].msg
    <2>1. /\ TransitionDb(m) /\ receipts' = receipts /\ role' = role /\ role = "verifier"
          /\ Len(receipts) < Len(block)
      BY Zenon, <1>3 DEF ProcessNext
    <2>2. m \in Messages
      <3>1. /\ receipts \in Seq(Receipts)
            /\ block \in Seq([msg: Messages, effect: EffectValues])
        BY Zenon, <1>1 DEF GasInv, TypeOK
      <3>2. Len(receipts) + 1 \in 1..Len(block)
        <4> HIDE DEF Receipts
        <4> QED BY <2>1, <3>1
      <3>3. block[Len(receipts) + 1] \in [msg: Messages, effect: EffectValues]
        <4> DEFINE E == [msg: Messages, effect: EffectValues]
        <4> HIDE DEF E
        <4>1. block \in Seq(E)
          BY Zenon, <3>1 DEF E
        <4>2. block[Len(receipts) + 1] \in E
          BY <3>2, <4>1
        <4> QED BY Zenon, <4>2 DEF E
      <3> QED BY Zenon, <3>3
    <2> HIDE DEF m
    <2>3. Ledger'
      BY Zenon, <1>1, <2>1, <2>2, StartLedger
    <2> QED BY Zenon, <1>1, <2>3 DEF LedgerInv
  <1>4. CASE Transition
    <2>1. Busy /\ Busy' /\ UNCHANGED <<receipts, snap, msg, outer, role>>
      BY Zenon, <1>4 DEF Transition, PreCheckDeposit, PreCheckRefused, BuyGas, IntrinsicGas, RefundGas,
                  PayFees, FailedDeposit, Finish, Busy, blkVars
    <2> QED BY Zenon, <1>1, <2>1, MiddleLedger DEF LedgerInv
  <1>5. CASE \E e \in Effects(msg, st.gas) : Execute(e)
    <2>1. Busy /\ Busy' /\ UNCHANGED <<receipts, snap, msg, outer, role>>
      BY <1>5 DEF Execute, Evm, Finish, Busy
    <2> QED BY <1>1, <2>1, MiddleLedger DEF LedgerInv
  <1>6. CASE Included
    BY Zenon, <1>1, <1>6, IncludedLedger DEF LedgerInv
  <1>7. CASE SkipPoolTx
    <2>1. /\ pc' = "idle" /\ receipts' = receipts /\ world' = outer /\ Busy /\ role = "sequencer"
      BY Zenon, <1>7 DEF SkipPoolTx, RevertToSnapshot, Unincludable, Busy
    <2>2. Recorded(receipts, outer)
      BY Zenon, <1>1, <2>1 DEF Ledger
    <2> QED BY Zenon, <1>1, <2>1, <2>2, IdleLedger DEF LedgerInv
  <1>8. CASE GiveUp \/ ValidateState
    <2>1. pc' \in Terminal
      BY Zenon, <1>8 DEF GiveUp, ValidateState, Terminal
    <2> QED BY Zenon, <1>1, <2>1, IdleLedger DEF LedgerInv, Terminal
  <1>9. CASE Seal
    <2>1. pc' \in {"idle"} \cup Terminal /\ receipts' = <<>> /\ world' = Genesis
      BY Zenon, <1>9 DEF Seal, Terminal
    <2> QED BY Zenon, <1>1, <2>1, RecordedEmpty, IdleLedger DEF LedgerInv
  <1>10. CASE UNCHANGED vars
    BY Zenon, <1>1, <1>10 DEF LedgerInv, Ledger, Busy, vars, stVars, blkVars
  <1> QED BY Zenon, <1>2, <1>3, <1>4, <1>5, <1>6, <1>7, <1>8, <1>9, <1>10 DEF Next, Finished

\* LedgerInv holds throughout building and re-executing a block.
THEOREM LedgerInvariant == Spec => []LedgerInv
  BY LedgerInvInit, LedgerInvNext, PTL DEF Spec

\* Balances are conserved up to the mints of the included deposits.
THEOREM SupplyIsConserved == Spec => []SupplyConserved
  <1>1. LedgerInv => SupplyConserved
    BY Zenon DEF LedgerInv, Ledger, Recorded, SupplyConserved, Minted, MintedBy
  <1> QED BY <1>1, LedgerInvariant, PTL

\* Nonces count the transactions included.
THEOREM NoncesCount == Spec => []NoncesCountInclusions
  <1>1. LedgerInv => NoncesCountInclusions
    BY Zenon DEF LedgerInv, Ledger, Recorded, NoncesCountInclusions, Inclusions
  <1> QED BY <1>1, LedgerInvariant, PTL

\* After Regolith a receipt of a creation that succeeded has the nonce from which
\* the address of the contract was derived.
THEOREM AddressesRecorded == ASSUME Regolith PROVE Spec => []ContractAddressRecorded
  <1>1. LedgerInv => ContractAddressRecorded
    BY Zenon DEF LedgerInv, Ledger, Recorded, ContractAddressRecorded
  <1> QED BY <1>1, LedgerInvariant, PTL
=============================================================================
