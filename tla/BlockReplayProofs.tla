-------------------------- MODULE BlockReplayProofs --------------------------
(***************************************************************************)
(* A verifier accepts the block that the sequencer seals, for all messages,*)
(* pools and blocks.                                                       *)
(*                                                                         *)
(* The argument: Outcome (BlockExecutionProofs) is a function, so that both*)
(* come to the same states, receipts and gas, once their L1 cost closures  *)
(* and their gas pools are known to agree.  Order says in which order the  *)
(* block has its messages; Replay says, of the sequencer, that what it has *)
(* included would be replayed and, of the verifier, how far it is.         *)
(***************************************************************************)
EXTENDS BlockExecutionProofs

\* A block without the transaction type that Regolith dropped.
Clean == ~(Regolith /\ \E i \in 1..Len(block) : IsSystemTx(block[i].msg))

\* The receipts of the block: those the header is made from, once it is sealed.
Rs == IF role = "sequencer" THEN receipts ELSE sealed.receipts
Used(rs, i) == IF i = 0 THEN 0 ELSE rs[i].cumulative
NonceOf(s, m) == IF IsDepositTx(m) /\ Regolith THEN s.nonce[m.from] ELSE m.nonce

\* Applied to state v when gas u has been used, transaction t fits into the
\* block, leaves state w and has receipt r.
Replays(v, w, t, r, u) ==
    LET m == t.msg
        s == AddBalance(v, m.from, m.mint)
        c == CostAt(m, s.l1)
        o == Outcome(s, m, t.effect, c)
    IN  /\ Includable(s, m, t.effect, c)
        /\ w = o.world
        /\ r = [msg |-> m, gasUsed |-> o.used, cumulative |-> u + o.used, ok |-> o.ok,
                nonce |-> NonceOf(s, m)]
        /\ ~IsSystemTx(m) => u + m.gas <= GasLimit

\* The states ws between the transactions of a block.
Chain(b, rs, ws) ==
    /\ ws \in [Nat -> Worlds] /\ ws[0] = Genesis
    /\ \A i \in 1..Len(b) : Replays(ws[i - 1], ws[i], b[i], rs[i], Used(rs, i - 1))

At(ws) ==
    /\ Chain(block, Rs, ws)
    /\ pc = "idle" => world = ws[Len(receipts)]
    /\ Busy => snap = AddBalance(ws[Len(receipts)], msg.from, msg.mint)
    /\ Busy /\ role = "sequencer" => outer = ws[Len(receipts)]
    /\ role = "verifier" => sealed.world = ws[Len(block)]

\* Where the two executions are in the block.
Position ==
    /\ Rs \in Seq(Receipts) /\ Len(Rs) = Len(block) /\ Len(receipts) <= Len(block)
    /\ \A i \in 1..Len(receipts) : receipts[i] = Rs[i]
    /\ usedGas = Used(Rs, Len(receipts))
    /\ role = "sequencer" => Len(receipts) = Len(block)
    /\ role = "verifier" => sealed \in Headers /\ sealed.usedGas = Used(Rs, Len(block))
    /\ role = "verifier" /\ Busy =>
          Len(receipts) < Len(block) /\ msg = block[Len(receipts) + 1].msg

\* Once preCheck has passed, the message's gas fits into the block.
Passed ==
    \/ pc \in {"intrinsic", "evm", "refund", "fees"}
    \/ pc = "result" /\ result.err = "none"
    \/ pc = "result" /\ result.err = "Other" /\ IsDepositTx(msg)
Room == Passed /\ ~IsSystemTx(msg) => usedGas + msg.gas <= GasLimit

\* On re-execution no message of the block is refused, and the EVM does what it
\* did before.
Accepted ==
    role = "verifier" =>
        /\ pc = "result" => Passed
        /\ pc \in {"refund", "fees"} => effect = block[Len(receipts) + 1].effect
        /\ pc = "result" /\ result.err = "none" =>
              Fails(snap, msg, cost) \/ effect = block[Len(receipts) + 1].effect

\* The L1 cost closure never serves stale attributes.
Fresh ==
    /\ Busy => cache \in {NoL1, snap.l1}
    /\ role = "verifier" /\ pc = "idle" => cache \in {NoL1, world.l1}
    /\ role = "verifier" /\ cache # NoL1 =>
          \A j \in (Len(receipts) + 1)..Len(block) : block[j].msg.from # Depositor

\* Only deposits come before a transaction of the depositor.
Order ==
    /\ \A i, j \in 1..Len(block) :
          i <= j /\ block[j].msg.from = Depositor => IsDepositTx(block[i].msg)
    /\ \A i, j \in 1..Len(forced) :
          i <= j /\ forced[j].from = Depositor => IsDepositTx(forced[i])
    /\ \A i \in 1..Len(block), j \in 1..Len(forced) :
          forced[j].from = Depositor => IsDepositTx(block[i].msg)
    /\ pool[Depositor] = <<>>
    /\ role = "sequencer" /\ Busy /\ forced # <<>> => msg = Head(forced)

Body == Position /\ Room /\ Accepted /\ Fresh /\ \E ws \in [Nat -> Worlds] : At(ws)

\* A clean block is never rejected, and until the end its re-execution follows
\* the sequencer's.
Replay == Clean => pc # "rejected" /\ (pc \notin Terminal => Body)

\* The sequences of a block, with their types.
Txs == [msg: Messages, effect: EffectValues]

LEMMA Typed ==
    ASSUME GasInv
    PROVE  /\ receipts \in Seq(Receipts) /\ block \in Seq(Txs) /\ forced \in Seq(Messages)
           /\ pool \in [Accounts -> Seq(Messages)] /\ role \in {"sequencer", "verifier"}
           /\ world \in Worlds /\ snap \in Worlds /\ usedGas \in Nat
  BY Zenon DEF GasInv, TypeOK, Txs

LEMMA ElementOf ==
    ASSUME NEW S, NEW q \in Seq(S), NEW i \in 1..Len(q)
    PROVE  q[i] \in S
  OBVIOUS

LEMMA LengthOf ==
    ASSUME NEW S, NEW q \in Seq(S)
    PROVE  Len(q) \in Nat
  OBVIOUS

LEMMA HeadOf ==
    ASSUME NEW S, NEW q \in Seq(S), q # <<>>
    PROVE  Head(q) \in S
  OBVIOUS

\* One more element at the end.
LEMMA Appended ==
    ASSUME NEW S, NEW q \in Seq(S), NEW x \in S, NEW q2, q2 = Append(q, x)
    PROVE  /\ q2 \in Seq(S) /\ Len(q2) = Len(q) + 1 /\ q2[Len(q) + 1] = x
           /\ \A i \in 1..Len(q) : i \in 1..Len(q2) /\ q2[i] = q[i]
  OBVIOUS

-----------------------------------------------------------------------------
\* Only the depositor's messages move the L1 attributes.
KeepsL1(w, v) == "l1" \in DOMAIN w => "l1" \in DOMAIN v /\ v.l1 = w.l1

LEMMA UpdatesKeepL1 ==
    ASSUME NEW w, NEW a, NEW x
    PROVE  KeepsL1(w, AddBalance(w, a, x)) /\ KeepsL1(w, IncNonce(w, a))
  BY DEF KeepsL1, AddBalance, IncNonce

LEMMA ExecutedKeepsL1 ==
    ASSUME NEW w, NEW m, m.from # Depositor, NEW g, NEW e \in Effects(m, g)
    PROVE  KeepsL1(w, Executed(w, m, e))
  <1> DEFINE called == IncNonce(w, m.from)
             taken == AddBalance(called, m.from, -m.value)
             paid == AddBalance(taken, e.dest, m.value)
             made == [paid EXCEPT !.created = @ \cup {<<m.from, w.nonce[m.from]>>}]
             deployed == IF m.to = Creation THEN made ELSE paid
  <1>1. e.l1 = NoL1
    BY DEF Effects
  <1>2. Executed(w, m, e) = IF ~e.ok THEN called ELSE deployed
    BY <1>1 DEF Executed
  <1>3. KeepsL1(w, called)
    BY UpdatesKeepL1
  <1>4. KeepsL1(called, taken)
    BY UpdatesKeepL1
  <1>5. KeepsL1(taken, paid)
    BY UpdatesKeepL1
  <1> HIDE DEF called, taken, paid
  <1>6. KeepsL1(paid, deployed)
    BY DEF KeepsL1
  <1> HIDE DEF deployed
  <1> QED BY Zenon, <1>2, <1>3, <1>4, <1>5, <1>6 DEF KeepsL1

LEMMA OutcomeKeepsL1 ==
    ASSUME NEW s, NEW m, NEW e, NEW c, Includable(s, m, e, c), m.from # Depositor
    PROVE  KeepsL1(s, Outcome(s, m, e, c).world)
  <1> DEFINE w == Outcome(s, m, e, c).world
  <1>1. CASE Fails(s, m, c)
    <2>1. w = IncNonce(s, m.from)
      BY <1>1 DEF Outcome
    <2> QED BY <2>1, UpdatesKeepL1
  <1>2. CASE ~Fails(s, m, c)
    <2>1. KeepsL1(s, Bought(s, m, c))
      BY UpdatesKeepL1 DEF Bought, KeepsL1
    <2>2. KeepsL1(Bought(s, m, c), Ran(s, m, e, c))
      BY <1>2, ExecutedKeepsL1 DEF Includable, Ran
    <2>3. KeepsL1(Ran(s, m, e, c), Refunded(s, m, e, c))
      BY UpdatesKeepL1 DEF Refunded
    <2>4. KeepsL1(Refunded(s, m, e, c), Tipped(s, m, e, c))
      BY UpdatesKeepL1 DEF Tipped
    <2>5. KeepsL1(Tipped(s, m, e, c), Burnt(s, m, e, c))
      BY UpdatesKeepL1 DEF Burnt
    <2>6. KeepsL1(Burnt(s, m, e, c), Settled(s, m, e, c))
      BY UpdatesKeepL1 DEF Settled
    <2>7. w \in {Ran(s, m, e, c), Refunded(s, m, e, c), Settled(s, m, e, c)}
      BY <1>2 DEF Outcome
    <2> HIDE DEF w
    <2>8. KeepsL1(s, Ran(s, m, e, c)) /\ KeepsL1(s, Refunded(s, m, e, c))
      BY Zenon, <2>1, <2>2, <2>3 DEF KeepsL1
    <2>9. KeepsL1(s, Settled(s, m, e, c))
      BY Zenon, <2>4, <2>5, <2>6, <2>8 DEF KeepsL1
    <2>10. KeepsL1(s, w)
      BY Zenon, <2>7, <2>8, <2>9
    <2> QED BY <2>10 DEF w
  <1> QED BY <1>1, <1>2

-----------------------------------------------------------------------------
\* Order holds from the start: the payload attributes are ordered, the pool
\* holds nothing of the depositor's.
LEMMA OrderInit == Init => Order
  <1> SUFFICES ASSUME Init PROVE Order
    OBVIOUS
  <1>1. PICK pending \in PoolStates : pool = [a \in Accounts |-> Wrap(pending[a])]
    BY DEF Init
  <1>2. pool[Depositor] = <<>>
    <2>1. pending[Depositor] = <<>> /\ Depositor \in Accounts
      BY AttributesAssumption, AccountsAssumption
    <2> QED BY <1>1, <2>1 DEF Wrap
  <1>3. block = <<>> /\ ~Busy /\ forced \in ForcedLists
    BY DEF Init, Busy
  <1>4. Len(block) = 0
    BY <1>3
  <1> QED BY <1>2, <1>3, <1>4, AttributesAssumption DEF Order

\* Only Included and the steps that start a message or touch the pool matter.
LEMMA OrderKept ==
    ASSUME Order, UNCHANGED <<block, forced>>, pool'[Depositor] = pool[Depositor],
           role' = "sequencer" /\ Busy' /\ forced' # <<>> => msg' = Head(forced)
    PROVE  Order'
  BY DEF Order

\* A message from the pool is not the depositor's.
LEMMA OtherSender ==
    ASSUME GasInv, Order, Busy, role = "sequencer", forced = <<>>
    PROVE  msg.from \in Accounts /\ msg.from # Depositor
  BY Zenon, Counters DEF GasInv, GasStages, Order

\* Including a message keeps the block in order.
LEMMA IncludedOrder ==
    ASSUME GasInv, Order, Included
    PROVE  Order'
  <1>1. pc = "result" /\ Busy /\ ~Busy' /\ role' = role
    BY DEF Included, Busy
  <1>2. CASE role = "verifier"
    BY <1>1, <1>2, OrderKept DEF Included
  <1>3. CASE role = "sequencer" /\ forced = <<>>
    <2> DEFINE t == [msg |-> msg, effect |-> effect]
    <2>1. msg.from \in Accounts /\ msg.from # Depositor
      BY <1>1, <1>3, OtherSender
    <2>2. /\ block' = Append(block, t) /\ forced' = forced /\ ShiftSender(msg)
          /\ t.msg = msg
      BY <1>3 DEF Included
    <2>3. pool'[Depositor] = <<>>
      BY <2>1, <2>2 DEF ShiftSender, GasInv, TypeOK, Order
    <2>4. block \in Seq([msg: Messages, effect: EffectValues])
      BY Zenon DEF GasInv, TypeOK
    <2> HIDE DEF t
    <2>5. /\ Len(block) \in Nat /\ Len(block') = Len(block) + 1
          /\ \A i \in 1..Len(block) : block'[i] = block[i]
          /\ block'[Len(block) + 1] = t
      BY <2>2, <2>4
    <2>6. \A i, j \in 1..Len(block') :
             i <= j /\ block'[j].msg.from = Depositor => IsDepositTx(block'[i].msg)
      <3> SUFFICES ASSUME NEW i \in 1..Len(block'), NEW j \in 1..Len(block'),
                          i <= j, block'[j].msg.from = Depositor
                   PROVE  IsDepositTx(block'[i].msg)
        OBVIOUS
      <3>1. j # Len(block) + 1
        BY <2>1, <2>2, <2>5
      <3>2. j \in 1..Len(block) /\ i \in 1..Len(block)
        BY <2>5, <3>1
      <3>3. block'[j] = block[j] /\ block'[i] = block[i]
        BY <2>5, <3>2
      <3>4. IsDepositTx(block[i].msg)
        BY <3>2, <3>3 DEF Order
      <3> QED BY <3>3, <3>4
    <2>7. Len(forced') = 0
      BY <1>3, <2>2
    <2> QED BY <1>1, <2>3, <2>6, <2>7 DEF Order
  <1>4. CASE role = "sequencer" /\ forced # <<>>
    <2> DEFINE t == [msg |-> msg, effect |-> effect]
    <2>1. /\ block' = Append(block, t) /\ forced' = Tail(forced) /\ pool' = pool
          /\ t.msg = msg
      BY <1>4 DEF Included
    <2>2. msg = Head(forced)
      BY <1>1, <1>4 DEF Order
    <2>3. /\ block \in Seq([msg: Messages, effect: EffectValues])
          /\ forced \in Seq(Messages)
      BY Zenon DEF GasInv, TypeOK
    <2> HIDE DEF t
    <2>4. /\ Len(block) \in Nat /\ Len(block') = Len(block) + 1
          /\ \A i \in 1..Len(block) : block'[i] = block[i]
          /\ block'[Len(block) + 1] = t
      BY <2>1, <2>3
    <2>5. /\ Len(forced) \in Nat \ {0} /\ Len(forced') = Len(forced) - 1
          /\ \A i \in 1..Len(forced') : forced'[i] = forced[i + 1]
          /\ forced[1] = msg
      BY <1>4, <2>1, <2>2, <2>3
    <2>6. /\ \A i, j \in 1..Len(block) :
                i <= j /\ block[j].msg.from = Depositor => IsDepositTx(block[i].msg)
          /\ \A i, j \in 1..Len(forced) :
                i <= j /\ forced[j].from = Depositor => IsDepositTx(forced[i])
          /\ \A i \in 1..Len(block), j \in 1..Len(forced) :
                forced[j].from = Depositor => IsDepositTx(block[i].msg)
      BY DEF Order
    <2>7. \A i, j \in 1..Len(block') :
             i <= j /\ block'[j].msg.from = Depositor => IsDepositTx(block'[i].msg)
      <3> SUFFICES ASSUME NEW i \in 1..Len(block'), NEW j \in 1..Len(block'),
                          i <= j, block'[j].msg.from = Depositor
                   PROVE  IsDepositTx(block'[i].msg)
        OBVIOUS
      <3>1. CASE j = Len(block) + 1
        <4>1. forced[1].from = Depositor /\ 1 \in 1..Len(forced)
          BY <2>1, <2>4, <2>5, <3>1
        <4>2. CASE i = j
          BY <2>1, <2>4, <2>5, <2>6, <3>1, <4>1, <4>2
        <4>3. CASE i # j
          <5>1. i \in 1..Len(block)
            BY <2>4, <3>1, <4>3
          <5>2. IsDepositTx(block[i].msg) /\ block'[i] = block[i]
            BY Zenon, <2>4, <2>6, <4>1, <5>1
          <5> QED BY <5>2
        <4> QED BY <4>2, <4>3
      <3>2. CASE j # Len(block) + 1
        <4>1. j \in 1..Len(block) /\ i \in 1..Len(block)
          BY <2>4, <3>2
        <4>2. block'[j] = block[j] /\ block'[i] = block[i]
          BY <2>4, <4>1
        <4>3. IsDepositTx(block[i].msg)
          BY Zenon, <2>6, <4>1, <4>2
        <4> QED BY <4>2, <4>3
      <3> QED BY <3>1, <3>2
    <2>8. \A i, j \in 1..Len(forced') :
             i <= j /\ forced'[j].from = Depositor => IsDepositTx(forced'[i])
      <3> SUFFICES ASSUME NEW i \in 1..Len(forced'), NEW j \in 1..Len(forced'),
                          i <= j, forced'[j].from = Depositor
                   PROVE  IsDepositTx(forced'[i])
        OBVIOUS
      <3>1. i + 1 \in 1..Len(forced) /\ j + 1 \in 1..Len(forced) /\ i + 1 <= j + 1
        BY <2>5
      <3>2. forced'[i] = forced[i + 1] /\ forced'[j] = forced[j + 1]
        BY <2>5
      <3>3. IsDepositTx(forced[i + 1])
        BY Zenon, <2>6, <3>1, <3>2
      <3> QED BY <3>2, <3>3
    <2>9. \A i \in 1..Len(block'), j \in 1..Len(forced') :
             forced'[j].from = Depositor => IsDepositTx(block'[i].msg)
      <3> SUFFICES ASSUME NEW i \in 1..Len(block'), NEW j \in 1..Len(forced'),
                          forced'[j].from = Depositor
                   PROVE  IsDepositTx(block'[i].msg)
        OBVIOUS
      <3>1. j + 1 \in 1..Len(forced) /\ 1 \in 1..Len(forced) /\ 1 <= j + 1
        BY <2>5
      <3>2. forced[j + 1].from = Depositor
        BY Zenon, <2>5
      <3>3. CASE i = Len(block) + 1
        <4>1. IsDepositTx(forced[1])
          BY <2>6, <3>1, <3>2
        <4> QED BY Zenon, <2>1, <2>4, <2>5, <3>3, <4>1
      <3>4. CASE i # Len(block) + 1
        <4>1. i \in 1..Len(block)
          BY <2>4, <3>4
        <4>2. IsDepositTx(block[i].msg) /\ block'[i] = block[i]
          BY Zenon, <2>4, <2>6, <3>1, <3>2, <4>1
        <4> QED BY <4>2
      <3> QED BY <3>3, <3>4
    <2> QED BY Zenon, <1>1, <2>1, <2>7, <2>8, <2>9 DEF Order
  <1> QED BY Zenon, <1>2, <1>3, <1>4 DEF GasInv, TypeOK

\* Every step keeps the order.
LEMMA OrderNext ==
    ASSUME GasInv, Order, [Next]_vars
    PROVE  Order'
  <1>1. CASE PickForced
    <2>1. UNCHANGED <<block, forced, pool>> /\ msg' = Head(forced)
      BY <1>1 DEF PickForced, CommitTransaction, TransitionDb
    <2> QED BY <2>1, OrderKept
  <1>2. CASE \E a \in Accounts : PickPool(a)
    BY <1>2, OrderKept DEF PickPool, CommitTransaction
  <1>3. CASE ProcessNext
    BY <1>3, OrderKept DEF ProcessNext
  <1>4. CASE Transition \/ \E e \in Effects(msg, st.gas) : Execute(e)
    <2>1. UNCHANGED <<block, forced, pool, msg, role>> /\ Busy
      BY Zenon, <1>4 DEF Transition, PreCheckDeposit, PreCheckRefused, BuyGas, IntrinsicGas, RefundGas,
                  PayFees, FailedDeposit, Execute, Evm, Finish, Busy, blkVars
    <2>2. role = "sequencer" /\ forced # <<>> => msg = Head(forced)
      BY <2>1 DEF Order
    <2> QED BY <2>1, <2>2, OrderKept
  <1>5. CASE Included
    BY <1>5, IncludedOrder
  <1>6. CASE SkipPoolTx
    <2>1. /\ Busy /\ ~Busy' /\ role = "sequencer" /\ forced = <<>> /\ UNCHANGED <<block, forced>>
          /\ PopSender(msg) \/ ShiftSender(msg)
      BY <1>6 DEF SkipPoolTx, Unincludable, Busy
    <2>2. msg.from \in Accounts /\ msg.from # Depositor
      BY <2>1, OtherSender
    <2>3. pool'[Depositor] = pool[Depositor]
      <3>1. pool \in [Accounts -> Seq(Messages)] /\ Depositor \in Accounts
        BY Zenon, AccountsAssumption DEF GasInv, TypeOK
      <3> QED BY <2>1, <2>2, <3>1 DEF PopSender, ShiftSender
    <2> QED BY <2>1, <2>3, OrderKept
  <1>7. CASE GiveUp \/ Seal \/ ValidateState
    <2>1. UNCHANGED <<block, forced, pool>> /\ ~Busy'
      BY Zenon, <1>7 DEF GiveUp, Seal, ValidateState, Busy, blkVars
    <2> QED BY <2>1, OrderKept
  <1>8. CASE UNCHANGED vars
    BY Zenon, <1>8 DEF Order, Busy, vars, stVars, blkVars
  <1> QED BY Zenon, <1>1, <1>2, <1>3, <1>4, <1>5, <1>6, <1>7, <1>8 DEF Next, Finished

\* The closure charges by the attributes of the state the message starts from.
LEMMA FreshAttributes ==
    ASSUME GasInv, Busy, Fresh, world = snap \/ cache # NoL1
    PROVE  L1Attributes = snap.l1 /\ snap.l1 # NoL1
  <1>1. snap.l1 \in L1Params /\ NoL1 \notin L1Params
    BY Zenon, L1Assumption DEF GasInv, TypeOK, Worlds
  <1>2. cache \in {NoL1, snap.l1}
    BY DEF Fresh
  <1> QED BY <1>1, <1>2 DEF L1Attributes

\* The L1 cost of the message in progress is that of the state it starts from.
LEMMA CostKnown ==
    ASSUME GasInv, Busy, Fresh, world = snap \/ Priced
    PROVE  cost = CostAt(msg, snap.l1)
  <1>1. CASE HasL1Cost(msg)
    <2>1. L1Attributes = snap.l1
      BY <1>1, FreshAttributes DEF Priced
    <2> QED BY <1>1, <2>1 DEF cost, L1CostFunc, CostAt
  <1>2. CASE ~HasL1Cost(msg)
    BY <1>2 DEF cost, L1CostFunc, CostAt
  <1> QED BY <1>1, <1>2

\* A transaction more.
LEMMA ChainNext ==
    ASSUME NEW T, NEW R, NEW b \in Seq(T), NEW rs \in Seq(R), Len(rs) = Len(b), NEW ws, Chain(b, rs, ws),
           NEW w \in Worlds, NEW t \in T, NEW r \in R, Replays(ws[Len(b)], w, t, r, Used(rs, Len(b)))
    PROVE  Chain(Append(b, t), Append(rs, r), [ws EXCEPT ![Len(b) + 1] = w])
  <1> DEFINE n == Len(b)
             b2 == Append(b, t)
             rs2 == Append(rs, r)
             ws2 == [ws EXCEPT ![n + 1] = w]
  <1>1. /\ n \in Nat /\ Len(b2) = n + 1 /\ b2[n + 1] = t /\ rs2[n + 1] = r
        /\ \A i \in 1..n : b2[i] = b[i] /\ rs2[i] = rs[i]
    OBVIOUS
  <1>2. /\ ws \in [Nat -> Worlds] /\ ws[0] = Genesis
        /\ \A i \in 1..n : Replays(ws[i - 1], ws[i], b[i], rs[i], Used(rs, i - 1))
    BY Zenon DEF Chain
  <1>3. /\ ws2 \in [Nat -> Worlds] /\ ws2[n + 1] = w
        /\ \A i \in 0..n : ws2[i] = ws[i]
    BY <1>1, <1>2
  <1>4. Replays(ws[n], w, t, r, Used(rs, n))
    OBVIOUS
  <1> HIDE DEF n, b2, rs2, ws2
  <1>5. \A i \in 0..n : Used(rs2, i) = Used(rs, i)
    BY <1>1 DEF Used
  <1>6. ASSUME NEW i \in 1..(n + 1)
        PROVE  Replays(ws2[i - 1], ws2[i], b2[i], rs2[i], Used(rs2, i - 1))
    <2>1. i - 1 \in 0..n /\ ws2[i - 1] = ws[i - 1] /\ Used(rs2, i - 1) = Used(rs, i - 1)
      BY <1>1, <1>3, <1>5
    <2>2. CASE i = n + 1
      <3>1. i - 1 = n
        BY <1>1, <2>2
      <3> QED BY Zenon, <1>1, <1>3, <1>4, <2>1, <2>2, <3>1
    <2>3. CASE i # n + 1
      <3>1. i \in 1..n /\ i \in 0..n
        BY <1>1, <2>3
      <3>2. ws2[i] = ws[i] /\ b2[i] = b[i] /\ rs2[i] = rs[i]
        BY Zenon, <1>1, <1>3, <3>1
      <3> QED BY Zenon, <1>2, <2>1, <3>1, <3>2
    <2> QED BY Zenon, <2>2, <2>3
  <1>7. ws2[0] = Genesis
    BY <1>1, <1>2, <1>3
  <1>8. Chain(b2, rs2, ws2)
    BY Zenon, <1>1, <1>3, <1>6, <1>7 DEF Chain
  <1> QED BY <1>8 DEF b2, rs2, ws2, n

LEMMA ReplayedMsg ==
    ASSUME NEW v, NEW w, NEW t, NEW r, NEW u, Replays(v, w, t, r, u)
    PROVE  r.msg = t.msg
  <1>1. PICK g, c, k, n : r = [msg |-> t.msg, gasUsed |-> g, cumulative |-> c, ok |-> k, nonce |-> n]
    BY Zenon DEF Replays
  <1> QED BY <1>1

\* The receipts so far are those of transactions of the block.
LEMMA CleanReceipts ==
    ASSUME Clean, Position, NEW ws, At(ws)
    PROVE  NoRegolithSystemTx
  <1> SUFFICES ASSUME Regolith, NEW i \in 1..Len(receipts)
               PROVE  ~IsSystemTx(receipts[i].msg)
    BY DEF NoRegolithSystemTx
  <1>1. i \in 1..Len(block) /\ receipts[i] = Rs[i]
    BY DEF Position
  <1>2. Replays(ws[i - 1], ws[i], block[i], Rs[i], Used(Rs, i - 1))
    BY Zenon, <1>1 DEF At, Chain
  <1>3. Rs[i].msg = block[i].msg
    BY <1>2, ReplayedMsg
  <1> QED BY <1>1, <1>3 DEF Clean

\* The message the verifier is at, as the sequencer left it.
LEMMA AtVerifier ==
    ASSUME GasInv, Position, role = "verifier", Busy, NEW ws, At(ws)
    PROVE  /\ Includable(snap, msg, block[Len(receipts) + 1].effect, CostAt(msg, snap.l1))
           /\ ~IsSystemTx(msg) => usedGas + msg.gas <= GasLimit
           /\ Len(receipts) \in Nat
           /\ Len(receipts) + 1 \in 1..Len(block)
  <1> DEFINE i == Len(receipts) + 1
  <1>1. i \in 1..Len(block) /\ i - 1 = Len(receipts) /\ msg = block[i].msg /\ Len(receipts) \in Nat
    <2>1. receipts \in Seq(Receipts) /\ block \in Seq([msg: Messages, effect: EffectValues])
      BY Zenon DEF GasInv, TypeOK
    <2>2. Len(receipts) \in Nat /\ Len(block) \in Nat
      <3> HIDE DEF Receipts
      <3> QED BY <2>1
    <2>3. Len(receipts) < Len(block) /\ msg = block[i].msg
      BY Zenon DEF Position
    <2> QED BY <2>2, <2>3
  <1> HIDE DEF i
  <1>2. Replays(ws[i - 1], ws[i], block[i], Rs[i], Used(Rs, i - 1))
    BY Zenon, <1>1 DEF At, Chain
  <1>3. snap = AddBalance(ws[i - 1], block[i].msg.from, block[i].msg.mint)
    BY Zenon, <1>1 DEF At
  <1>4. usedGas = Used(Rs, i - 1)
    BY <1>1 DEF Position
  <1>5. /\ Includable(snap, msg, block[i].effect, CostAt(msg, snap.l1))
        /\ ~IsSystemTx(msg) => usedGas + msg.gas <= GasLimit
    BY Zenon, <1>1, <1>2, <1>3, <1>4 DEF Replays
  <1> QED BY Zenon, <1>1, <1>5 DEF i

-----------------------------------------------------------------------------
\* A step in the middle of a message.
LEMMA MiddleBody ==
    ASSUME Body, Busy, Busy', Room', Accepted', Fresh',
           UNCHANGED <<receipts, block, role, usedGas, sealed, snap, msg, outer>>
    PROVE  Body'
  <1>1. PICK ws \in [Nat -> Worlds] : At(ws)
    BY DEF Body
  <1>2. Rs' = Rs /\ pc' # "idle"
    BY DEF Rs, Busy
  <1>3. At(ws)'
    BY Zenon, <1>1, <1>2 DEF At
  <1>4. Position'
    BY Zenon, <1>2 DEF Body, Position
  <1> QED BY <1>3, <1>4 DEF Body

\* The gas of a message that has passed preCheck is within what the pool had.
LEMMA MiddleRoom ==
    ASSUME GasInv, GasInv', Body, Clean, Busy, UNCHANGED <<receipts, msg, usedGas>>,
           Passed' /\ ~IsSystemTx(msg) => Passed \/ pc' = "intrinsic"
    PROVE  Room'
  <1>1. PICK ws \in [Nat -> Worlds] : At(ws)
    BY DEF Body
  <1>2. NoRegolithSystemTx'
    BY <1>1, CleanReceipts DEF Body, NoRegolithSystemTx
  <1> SUFFICES ASSUME Passed', ~IsSystemTx(msg)
               PROVE  usedGas + msg.gas <= GasLimit
    BY DEF Room, IsSystemTx
  <1>3. CASE Passed
    BY <1>3 DEF Body, Room
  <1>4. CASE pc' = "intrinsic"
    <2>1. Held' = msg.gas
      BY <1>4 DEF Held, IsSystemTx
    <2>2. (gp + usedGas + Held <= GasLimit)'
      BY Zenon, <1>2, <1>4 DEF GasInv, GasLedger, Terminal
    <2>3. gp' \in Nat /\ usedGas \in Nat /\ GasLimit \in Nat /\ msg.gas \in Nat
      <3>1. gp' \in Nat
        BY Zenon DEF GasInv, TypeOK
      <3> QED BY <3>1, Counters
    <2> QED BY <2>1, <2>2, <2>3
  <1> QED BY <1>3, <1>4

\* Filling the cache keeps it fresh.
LEMMA FilledFresh ==
    ASSUME GasInv, Order, Body, Busy, Busy', UNCHANGED <<receipts, block, role, snap, msg>>,
           FillCache(msg), world = snap \/ Priced
    PROVE  Fresh'
  <1>1. cache' = IF HasL1Cost(msg) THEN L1Attributes ELSE cache
    BY DEF FillCache
  <1>2. Fresh /\ Position
    BY DEF Body
  <1>3. CASE ~HasL1Cost(msg)
    BY Zenon, <1>1, <1>2, <1>3 DEF Fresh, Busy
  <1>4. CASE HasL1Cost(msg)
    <2>1. cache' = snap.l1
      BY Zenon, <1>1, <1>2, <1>4, FreshAttributes DEF Priced
    <2>2. ASSUME role = "verifier", NEW j \in (Len(receipts) + 1)..Len(block)
          PROVE  block[j].msg.from # Depositor
      <3>1. PICK ws \in [Nat -> Worlds] : At(ws)
        BY DEF Body
      <3>2. Len(receipts) \in Nat /\ Len(receipts) + 1 \in 1..Len(block)
        BY Zenon, <1>2, <2>2, <3>1, AtVerifier
      <3>3. ~IsDepositTx(block[Len(receipts) + 1].msg)
        BY Zenon, <1>2, <1>4, <2>2 DEF HasL1Cost, Position
      <3>4. j \in 1..Len(block) /\ Len(receipts) + 1 <= j
        BY <3>2
      <3> QED BY Zenon, <3>2, <3>3, <3>4 DEF Order
    <2>3. pc' # "idle"
      BY DEF Busy
    <2> QED BY Zenon, <2>1, <2>2, <2>3 DEF Fresh
  <1> QED BY <1>3, <1>4

\* A step that leaves the cache alone keeps it fresh.
LEMMA KeptFresh ==
    ASSUME Body, Busy, Busy', UNCHANGED <<receipts, block, role, snap, msg, cache>>
    PROVE  Fresh'
  BY Zenon DEF Body, Fresh, Busy

\* preCheck lets the verifier's deposit pass: its gas is there.
LEMMA PreCheckDepositBody ==
    ASSUME GasInv, GasInv', Stages, Order, Body, Clean, PreCheckDeposit, UNCHANGED blkVars
    PROVE  Body'
  <1>1. /\ pc = "preCheck" /\ Busy /\ Busy' /\ IsDepositTx(msg)
        /\ UNCHANGED <<receipts, block, role, usedGas, sealed, snap, msg, outer, cache, effect>>
    BY Zenon DEF PreCheckDeposit, Finish, Busy, blkVars
  <1>2. Passed' /\ ~IsSystemTx(msg) => pc' = "intrinsic"
    BY <1>1 DEF PreCheckDeposit, Finish, Passed
  <1>3. Room'
    BY Zenon, <1>1, <1>2, MiddleRoom
  <1>4. Fresh'
    BY <1>1, KeptFresh
  <1>5. Accepted'
    <2> SUFFICES ASSUME role = "verifier" PROVE Accepted'
      BY Zenon, <1>1 DEF Accepted
    <2>1. CASE pc' = "intrinsic"
      BY <2>1 DEF Accepted
    <2>2. CASE pc' # "intrinsic"
      <3>1. PICK ws \in [Nat -> Worlds] : At(ws)
        BY DEF Body
      <3>2. ~IsSystemTx(msg) => usedGas + msg.gas <= GasLimit
        BY Zenon, <1>1, <3>1, AtVerifier DEF Body
      <3>3. NoRegolithSystemTx
        BY <3>1, CleanReceipts DEF Body
      <3>4. gp + usedGas = GasLimit
        <4>1. gp + usedGas + Held = GasLimit /\ Held = 0
          BY Zenon, <1>1, <3>3 DEF GasInv, GasLedger, Held, Terminal
        <4> QED BY <4>1, Counters
      <3>5. ~IsSystemTx(msg) => ~(gp < msg.gas)
        BY <1>1, <3>2, <3>4, Counters
      <3>6. pc' = "result" /\ result'.err = "Other"
        BY <2>2, <3>5 DEF PreCheckDeposit, Finish
      <3> QED BY Zenon, <1>1, <3>6 DEF Accepted, Passed
    <2> QED BY <2>1, <2>2
  <1> QED BY Zenon, <1>1, <1>3, <1>4, <1>5, MiddleBody

\* preCheck refuses no message of the verifier's block.
LEMMA PreCheckRefusedBody ==
    ASSUME GasInv, GasInv', Stages, Order, Body, Clean, PreCheckRefused, UNCHANGED blkVars
    PROVE  Body'
  <1>1. /\ pc = "preCheck" /\ pc' = "result" /\ Busy /\ Busy' /\ ~IsDepositTx(msg)
        /\ UNCHANGED <<receipts, block, role, usedGas, sealed, snap, msg, outer, effect>>
        /\ world = snap
    BY Zenon DEF PreCheckRefused, Finish, Busy, blkVars, Stages
  <1>2. ~Passed'
    BY <1>1 DEF PreCheckRefused, Finish, Passed
  <1>3. Room'
    BY <1>2 DEF Room
  <1>4. Fresh'
    <2>1. CASE UNCHANGED cache
      BY <1>1, <2>1, KeptFresh
    <2>2. CASE FillCache(msg)
      BY <1>1, <2>2, FilledFresh
    <2> QED BY Zenon, <2>1, <2>2 DEF PreCheckRefused
  <1>5. role # "verifier"
    <2> SUFFICES ASSUME role = "verifier" PROVE FALSE
      OBVIOUS
    <2>1. PICK ws \in [Nat -> Worlds] : At(ws)
      BY DEF Body
    <2>2. /\ Includable(snap, msg, block[Len(receipts) + 1].effect, CostAt(msg, snap.l1))
          /\ ~IsSystemTx(msg) => usedGas + msg.gas <= GasLimit
      BY Zenon, <1>1, <2>1, AtVerifier DEF Body
    <2>3. cost = CostAt(msg, snap.l1)
      BY Zenon, <1>1, CostKnown DEF Body
    <2>4. /\ msg.nonce = world.nonce[msg.from] /\ FeeFieldsOk(msg)
          /\ world.bal[msg.from] >= msg.gas * msg.feeCap + msg.value + cost
      BY Zenon, <1>1, <2>2, <2>3 DEF Includable, Checks
    <2>5. NonceError(msg) = "none"
      BY <1>1, <2>4, InProgress DEF NonceError
    <2>6. world.bal[msg.from] >= BalanceCheck(msg)
      BY Zenon, <2>4 DEF BalanceCheck, cost
    <2>7. NoRegolithSystemTx
      BY <2>1, CleanReceipts DEF Body
    <2>8. gp + usedGas = GasLimit
      <3>1. gp + usedGas + Held = GasLimit /\ Held = 0
        BY <1>1, <2>7 DEF GasInv, GasLedger, Held, Terminal
      <3> QED BY <3>1, Counters
    <2>9. ~(gp < msg.gas)
      BY <1>1, <2>2, <2>8, Counters DEF IsSystemTx, IsDepositTx
    <2>10. world.bal[msg.from] < BalanceCheck(msg)
      BY Zenon, <2>4, <2>5, <2>9 DEF PreCheckRefused
    <2>11. world.bal[msg.from] \in Int /\ BalanceCheck(msg) \in Int
      <3>1. /\ world \in Worlds /\ msg \in Messages /\ msg.from \in Accounts
            /\ msg.gas \in Nat /\ msg.feeCap \in Nat /\ msg.value \in Nat /\ L1CostFunc(msg) \in Int
        BY Zenon, <1>1, InProgress, MessageType DEF cost
      <3>2. msg.gas * msg.feeCap \in Int
        BY <3>1
      <3>3. BalanceCheck(msg) \in Int
        BY <3>1, <3>2 DEF BalanceCheck
      <3> QED BY Zenon, <3>1, <3>3 DEF Worlds
    <2> QED BY <2>6, <2>10, <2>11
  <1>6. Accepted'
    BY Zenon, <1>1, <1>5 DEF Accepted
  <1> QED BY <1>1, <1>3, <1>4, <1>6, MiddleBody

\* buyGas: the cache is filled from the state the message starts from.
LEMMA BuyGasBody ==
    ASSUME GasInv, GasInv', Stages, Order, Body, Clean, BuyGas, UNCHANGED blkVars
    PROVE  Body'
  <1>1. /\ pc = "preCheck" /\ pc' = "intrinsic" /\ Busy /\ Busy' /\ world = snap /\ FillCache(msg)
        /\ UNCHANGED <<receipts, block, role, usedGas, sealed, snap, msg, outer, effect>>
    BY Zenon DEF BuyGas, Busy, blkVars, Stages
  <1>2. Room'
    BY <1>1, MiddleRoom
  <1>3. Fresh'
    BY <1>1, FilledFresh
  <1>4. Accepted'
    BY Zenon, <1>1 DEF Accepted
  <1> QED BY Zenon, <1>1, <1>2, <1>3, <1>4, MiddleBody

\* Only a deposit fails the checks of innerTransitionDb on re-execution.
LEMMA IntrinsicGasBody ==
    ASSUME GasInv, GasInv', Stages, Order, Body, Clean, IntrinsicGas, UNCHANGED blkVars
    PROVE  Body'
  <1>1. /\ pc = "intrinsic" /\ Busy /\ Busy' /\ AtIntrinsic
        /\ UNCHANGED <<receipts, block, role, usedGas, sealed, snap, msg, outer, effect, cache>>
    BY DEF IntrinsicGas, Finish, Busy, blkVars, Stages
  <1>2. Passed
    BY Zenon, <1>1 DEF Passed
  <1>3. Room'
    BY Zenon, <1>1, <1>2, MiddleRoom
  <1>4. Fresh'
    BY Zenon, <1>1, KeptFresh
  <1>5. Accepted'
    <2> SUFFICES ASSUME role = "verifier" PROVE Accepted'
      BY Zenon, <1>1 DEF Accepted
    <2>1. CASE PreparedOk(msg)
      BY <2>1 DEF IntrinsicGas, Accepted
    <2>2. CASE ~PreparedOk(msg)
      <3>1. pc' = "result" /\ result'.err = "Other"
        BY <2>2 DEF IntrinsicGas, Finish
      <3>2. PICK ws \in [Nat -> Worlds] : At(ws)
        BY DEF Body
      <3>3. Includable(snap, msg, block[Len(receipts) + 1].effect, CostAt(msg, snap.l1))
        BY Zenon, <1>1, <3>2, AtVerifier DEF Body
      <3>4. cost = CostAt(msg, snap.l1)
        BY Zenon, <1>1, CostKnown DEF Body, AtIntrinsic, Through
      <3>5. PreparedOk(msg) <=> Prepared(snap, msg, cost)
        BY Zenon, <1>1 DEF PreparedOk, Prepared, AtIntrinsic
      <3>6. IsDepositTx(msg)
        BY Zenon, <2>2, <3>3, <3>4, <3>5 DEF Includable, Fails
      <3> QED BY Zenon, <1>1, <3>1, <3>6 DEF Accepted, Passed
    <2> QED BY <2>1, <2>2
  <1> QED BY Zenon, <1>1, <1>3, <1>4, <1>5, MiddleBody

\* The EVM does for the verifier what it did for the sequencer.
LEMMA ExecuteBody ==
    ASSUME GasInv, GasInv', Stages, Order, Body, Clean, NEW e, Execute(e)
    PROVE  Body'
  <1>1. /\ pc = "evm" /\ Busy /\ Busy' /\ effect' = e
        /\ UNCHANGED <<receipts, block, role, usedGas, sealed, snap, msg, outer, cache>>
        /\ pc' \in {"refund", "result"} /\ (pc' = "result" => result'.err = "none")
        /\ role = "verifier" => e = block[Len(receipts) + 1].effect
    BY DEF Execute, Evm, Finish, Busy
  <1>2. Passed
    BY Zenon, <1>1 DEF Passed
  <1>3. Room'
    BY Zenon, <1>1, <1>2, MiddleRoom
  <1>4. Fresh'
    BY Zenon, <1>1, KeptFresh
  <1>5. Accepted'
    BY Zenon, <1>1 DEF Accepted, Passed
  <1> QED BY Zenon, <1>1, <1>3, <1>4, <1>5, MiddleBody

\* refundGas changes nothing the two executions differ in.
LEMMA RefundGasBody ==
    ASSUME GasInv, GasInv', Stages, Order, Body, Clean, RefundGas, UNCHANGED blkVars
    PROVE  Body'
  <1>1. /\ pc = "refund" /\ Busy /\ Busy'
        /\ UNCHANGED <<receipts, block, role, usedGas, sealed, snap, msg, outer, effect, cache>>
        /\ pc' \in {"fees", "result"} /\ (pc' = "result" => result'.err = "none")
    BY DEF RefundGas, Finish, Busy, blkVars
  <1>2. Passed
    BY Zenon, <1>1 DEF Passed
  <1>3. Room'
    BY Zenon, <1>1, <1>2, MiddleRoom
  <1>4. Fresh'
    BY Zenon, <1>1, KeptFresh
  <1>5. Accepted'
    BY Zenon, <1>1 DEF Body, Accepted, Passed
  <1> QED BY Zenon, <1>1, <1>3, <1>4, <1>5, MiddleBody

\* The fees are paid by the cached attributes, which are fresh.
LEMMA PayFeesBody ==
    ASSUME GasInv, GasInv', Stages, Order, Body, Clean, PayFees, UNCHANGED blkVars
    PROVE  Body'
  <1>1. /\ pc = "fees" /\ Busy /\ Busy' /\ FillCache(msg) /\ Priced
        /\ UNCHANGED <<receipts, block, role, usedGas, sealed, snap, msg, outer, effect>>
        /\ pc' = "result" /\ result'.err = "none"
    BY Zenon DEF PayFees, Finish, Busy, blkVars, Stages, AtFees, Executing, Through
  <1>2. Passed
    BY <1>1 DEF Passed
  <1>3. Room'
    BY <1>1, <1>2, MiddleRoom
  <1>4. Fresh'
    BY Zenon, <1>1, FilledFresh
  <1>5. Accepted'
    BY Zenon, <1>1 DEF Body, Accepted, Passed
  <1> QED BY Zenon, <1>1, <1>3, <1>4, <1>5, MiddleBody

\* A deposit that failed for the sequencer fails for the verifier.
LEMMA FailedDepositBody ==
    ASSUME GasInv, GasInv', Stages, Order, Body, Clean, FailedDeposit, UNCHANGED blkVars
    PROVE  Body'
  <1>1. /\ pc = "result" /\ Busy /\ Busy' /\ IsDepositTx(msg)
        /\ UNCHANGED <<receipts, block, role, usedGas, sealed, snap, msg, outer, effect, cache>>
        /\ pc' = "result" /\ result'.err = "none"
        /\ result.err \notin {"none", "GasLimitReached"}
    BY Zenon DEF FailedDeposit, Finish, Busy, blkVars
  <1>2. result.err = "Other"
    <2>1. result.err \in Errors
      BY Counters
    <2>2. result.err \notin {"NonceTooLow", "NonceTooHigh"}
      BY Zenon, <1>1 DEF GasInv, GasStages
    <2> QED BY Zenon, <1>1, <2>1, <2>2 DEF Errors
  <1>3. Passed
    BY Zenon, <1>1, <1>2 DEF Passed
  <1>4. Room'
    BY Zenon, <1>1, <1>3, MiddleRoom
  <1>5. Fresh'
    BY Zenon, <1>1, KeptFresh
  <1>6. Fails(snap, msg, cost)'
    <2>1. Fails(snap, msg, cost)
      BY Zenon, <1>1, <1>2 DEF Stages
    <2>2. Priced
      BY Zenon, <1>1 DEF Priced, HasL1Cost
    <2>3. cost' = cost
      BY Zenon, <1>1, <2>2, CostStable
    <2> QED BY Zenon, <1>1, <2>1, <2>3
  <1>7. Accepted'
    BY Zenon, <1>1, <1>6 DEF Accepted, Passed
  <1> QED BY Zenon, <1>1, <1>4, <1>5, <1>7, MiddleBody

\* Starting the next message of either side.
LEMMA StartBody ==
    ASSUME GasInv, Body, NEW m \in Messages, TransitionDb(m),
           UNCHANGED <<receipts, block, role, usedGas, sealed>>,
           role = "sequencer" => outer' = world /\ cache' = NoL1,
           role = "verifier" => /\ cache' = cache /\ Len(receipts) < Len(block)
                                /\ m = block[Len(receipts) + 1].msg
    PROVE  Body'
  <1>1. /\ pc = "idle" /\ pc' = "preCheck" /\ msg' = m /\ snap' = AddBalance(world, m.from, m.mint)
        /\ ~Busy /\ Rs' = Rs
    BY Zenon DEF TransitionDb, SnapshotMinted, Busy, Rs
  <1>2. PICK ws \in [Nat -> Worlds] : At(ws)
    BY Zenon DEF Body
  <1>3. world = ws[Len(receipts)] /\ role \in {"sequencer", "verifier"}
    BY Zenon, <1>1, <1>2, Typed DEF At
  <1>4. At(ws)'
    BY Zenon, <1>1, <1>2, <1>3 DEF At
  <1>5. Position'
    BY Zenon, <1>1, <1>3 DEF Body, Position
  <1>6. Room' /\ Accepted'
    BY Zenon, <1>1 DEF Room, Accepted, Passed
  <1>7. Fresh'
    <2>1. CASE role = "sequencer"
      BY Zenon, <1>1, <2>1 DEF Fresh
    <2>2. CASE role = "verifier"
      <3>1. snap'.l1 = world.l1
        <4>1. world \in Worlds
          BY Zenon DEF GasInv, TypeOK
        <4>2. "l1" \in DOMAIN world
          BY Zenon, <4>1 DEF Worlds
        <4> QED BY Zenon, <1>1, <4>2, UpdatesKeepL1 DEF KeepsL1
      <3> QED BY Zenon, <1>1, <2>2, <3>1 DEF Body, Fresh
    <2> QED BY Zenon, <1>3, <2>1, <2>2
  <1> QED BY Zenon, <1>4, <1>5, <1>6, <1>7 DEF Body

\* Between messages nothing but the position matters.
LEMMA IdleRest ==
    ASSUME pc' = "idle", role' = "sequencer" \/ Fresh'
    PROVE  Room' /\ Accepted' /\ Fresh'
  <1>1. ~Passed' /\ ~Busy'
    BY DEF Passed, Busy
  <1> QED BY Zenon, <1>1 DEF Room, Accepted, Fresh

\* The sequencer adds a transaction that can be replayed.
LEMMA SequencerIncluded ==
    ASSUME GasInv, Stages, Body, Included, role = "sequencer"
    PROVE  Body'
  <1> DEFINE t == [msg |-> msg, effect |-> effect]
             r == Receipt(msg)
             n == Len(receipts)
             o == Outcome(snap, msg, effect, cost)
  <1>1. /\ pc = "result" /\ result.err = "none" /\ Busy /\ pc' = "idle" /\ role' = role
        /\ world' = world /\ usedGas' = usedGas + result.used
        /\ receipts' = Append(receipts, r) /\ block' = Append(block, t)
    BY Zenon DEF Included, Busy
  <1>2. /\ msg \in Messages /\ cost \in Int /\ world \in Worlds /\ snap \in Worlds
        /\ effect \in EffectValues /\ usedGas \in Nat
        /\ result.used \in Nat /\ result.ok \in BOOLEAN /\ msg.nonce \in Nat
        /\ receipts \in Seq(Receipts) /\ block \in Seq([msg: Messages, effect: EffectValues])
    BY Zenon, <1>1, InProgress, Counters DEF GasInv, TypeOK
  <1>3. PICK ws \in [Nat -> Worlds] : At(ws)
    BY DEF Body
  <1>4. /\ Priced /\ Includable(snap, msg, effect, cost)
        /\ world = o.world /\ result.used = o.used /\ result.ok = o.ok
    BY Zenon, <1>1 DEF Stages, Applied
  <1>5. cost = CostAt(msg, snap.l1)
    BY Zenon, <1>1, <1>4, CostKnown DEF Body
  <1>6. /\ Len(block) = n /\ Rs = receipts /\ Rs' = receipts' /\ usedGas = Used(receipts, n)
        /\ snap = AddBalance(ws[n], msg.from, msg.mint) /\ Chain(block, receipts, ws)
    BY Zenon, <1>1, <1>3 DEF Body, Position, At, Rs
  <1>7. ~IsSystemTx(msg) => usedGas + msg.gas <= GasLimit
    BY Zenon, <1>1 DEF Body, Room, Passed
  <1>8. r = [msg |-> msg, gasUsed |-> o.used, cumulative |-> usedGas + o.used, ok |-> o.ok,
             nonce |-> NonceOf(snap, msg)]
    <2> HIDE DEF o
    <2> QED BY Zenon, <1>4 DEF Receipt, ReceiptNonce, NonceOf
  <1>9. Replays(ws[n], world, t, r, Used(receipts, n))
    <2>1. t.msg = msg /\ t.effect = effect
      BY Zenon
    <2> HIDE DEF t, r
    <2>2. /\ Includable(snap, msg, effect, CostAt(msg, snap.l1))
          /\ o = Outcome(snap, msg, effect, CostAt(msg, snap.l1))
      BY Zenon, <1>4, <1>5
    <2> HIDE DEF o
    <2> QED BY Zenon, <1>4, <1>6, <1>7, <1>8, <2>1, <2>2 DEF Replays
  <1>10. /\ t \in [msg: Messages, effect: EffectValues] /\ r \in Receipts
         /\ r.cumulative = usedGas + result.used
    <2>1. NonceOf(snap, msg) \in Nat
      BY Zenon, <1>2, MessageType DEF NonceOf, Worlds
    <2>2. r.cumulative = usedGas + result.used
      BY Zenon DEF Receipt
    <2>3. ReceiptNonce(msg) = NonceOf(snap, msg)
      BY Zenon DEF ReceiptNonce, NonceOf
    <2> QED BY <1>2, <2>1, <2>2, <2>3 DEF Receipt, Receipts
  <1> HIDE DEF t, r, o
  <1> PICK ws2 : ws2 = [ws EXCEPT ![n + 1] = world]
    BY Zenon
  <1>11. Chain(block', receipts', ws2)
    <2>1. Replays(ws[Len(block)], world, t, r, Used(receipts, Len(block)))
      BY Zenon, <1>6, <1>9
    <2>2. Chain(Append(block, t), Append(receipts, r), [ws EXCEPT ![Len(block) + 1] = world])
      <3> DEFINE T == [msg: Messages, effect: EffectValues]
      <3>1. block \in Seq(T) /\ t \in T
        BY Zenon, <1>2, <1>10
      <3> HIDE DEF T, n
      <3> QED BY Zenon, <1>2, <1>6, <1>10, <2>1, <3>1, ChainNext DEF n
    <2> QED BY Zenon, <1>1, <1>6, <2>2
  <1>12. /\ n \in Nat /\ Len(receipts') = n + 1 /\ Len(block') = n + 1
         /\ receipts'[n + 1] = r /\ receipts' \in Seq(Receipts)
    <2> DEFINE T == [msg: Messages, effect: EffectValues]
    <2>1. block \in Seq(T) /\ t \in T
      BY <1>2, <1>10
    <2> HIDE DEF T, Receipts
    <2> QED BY <1>1, <1>2, <1>6, <1>10, <2>1
  <1>13. ws2 \in [Nat -> Worlds] /\ ws2[n + 1] = world
    BY <1>2, <1>12
  <1>14. usedGas' = Used(receipts', n + 1)
    BY <1>1, <1>10, <1>12 DEF Used
  <1>15. Position'
    <2>1. role' = "sequencer" /\ Rs' = receipts'
      BY Zenon, <1>1, <1>6
    <2>2. Len(receipts') <= Len(block')
      BY <1>12
    <2> QED BY Zenon, <1>12, <1>14, <2>1, <2>2 DEF Position
  <1>16. At(ws2)'
    BY Zenon, <1>1, <1>6, <1>11, <1>12, <1>13 DEF At, Busy
  <1>17. Room' /\ Accepted' /\ Fresh'
    <2>1. pc' = "idle" /\ role' = "sequencer"
      BY Zenon, <1>1
    <2> QED BY Zenon, <2>1, IdleRest
  <1> QED BY Zenon, <1>13, <1>15, <1>16, <1>17 DEF Body

\* What an included deposit leaves does not depend on the effect if it failed.
LEMMA SameOutcome ==
    ASSUME NEW s, NEW m, NEW c, NEW e, NEW f, Fails(s, m, c) \/ e = f
    PROVE  Outcome(s, m, e, c) = Outcome(s, m, f, c)
  BY Zenon DEF Outcome

\* The verifier reaches the sequencer's next state and receipt.
LEMMA VerifierIncluded ==
    ASSUME GasInv, Stages, Body, Included, role = "verifier"
    PROVE  Body'
  <1> DEFINE r == Receipt(msg)
             n == Len(receipts)
             f == block[n + 1].effect
             o == Outcome(snap, msg, effect, cost)
  <1>1. /\ pc = "result" /\ result.err = "none" /\ Busy /\ pc' = "idle"
        /\ world' = world /\ usedGas' = usedGas + result.used /\ receipts' = Append(receipts, r)
        /\ UNCHANGED <<block, role, sealed, cache>>
    BY Zenon DEF Included, Busy
  <1>2. /\ msg \in Messages /\ cost \in Int /\ world \in Worlds /\ snap \in Worlds
        /\ usedGas \in Nat /\ result.used \in Nat
        /\ receipts \in Seq(Receipts)
    BY Zenon, <1>1, InProgress, Counters, Typed
  <1>3. PICK ws \in [Nat -> Worlds] : At(ws)
    BY DEF Body
  <1>4. /\ Priced /\ Includable(snap, msg, effect, cost)
        /\ world = o.world /\ result.used = o.used /\ result.ok = o.ok
    BY Zenon, <1>1 DEF Stages, Applied
  <1>5. cost = CostAt(msg, snap.l1)
    BY Zenon, <1>1, <1>4, CostKnown DEF Body
  <1>6. /\ n \in Nat /\ n + 1 \in 1..Len(block) /\ Len(Rs) = Len(block) /\ Rs \in Seq(Receipts)
        /\ \A i \in 1..n : receipts[i] = Rs[i]
        /\ usedGas = Used(Rs, n) /\ msg = block[n + 1].msg
    BY Zenon, <1>1, <1>3, AtVerifier DEF Body, Position
  <1>7. o = Outcome(snap, msg, f, CostAt(msg, snap.l1))
    <2>1. Fails(snap, msg, cost) \/ effect = f
      BY Zenon, <1>1 DEF Body, Accepted
    <2> HIDE DEF f
    <2> QED BY Zenon, <1>5, <2>1, SameOutcome
  <1>8. r = [msg |-> msg, gasUsed |-> o.used, cumulative |-> usedGas + o.used, ok |-> o.ok,
             nonce |-> NonceOf(snap, msg)]
    <2> HIDE DEF o
    <2> QED BY Zenon, <1>4 DEF Receipt, ReceiptNonce, NonceOf
  <1>9. world = ws[n + 1] /\ r = Rs[n + 1]
    <2>1. Replays(ws[(n + 1) - 1], ws[n + 1], block[n + 1], Rs[n + 1], Used(Rs, (n + 1) - 1))
      BY Zenon, <1>3, <1>6 DEF At, Chain
    <2>2. (n + 1) - 1 = n
      BY <1>6
    <2>3. snap = AddBalance(ws[n], block[n + 1].msg.from, block[n + 1].msg.mint)
      <3>1. snap = AddBalance(ws[n], msg.from, msg.mint)
        BY Zenon, <1>1, <1>3 DEF At
      <3> QED BY Zenon, <1>6, <3>1
    <2> HIDE DEF o, r, n
    <2>4. Replays(ws[n], ws[n + 1], block[n + 1], Rs[n + 1], Used(Rs, n))
      BY Zenon, <2>1, <2>2
    <2> DEFINE p == Outcome(snap, block[n + 1].msg, block[n + 1].effect,
                            CostAt(block[n + 1].msg, snap.l1))
    <2>5. o = p
      BY Zenon, <1>6, <1>7 DEF n
    <2>6. /\ ws[n + 1] = p.world
          /\ Rs[n + 1] = [msg |-> block[n + 1].msg, gasUsed |-> p.used,
                          cumulative |-> Used(Rs, n) + p.used, ok |-> p.ok,
                          nonce |-> NonceOf(snap, block[n + 1].msg)]
      BY Zenon, <2>3, <2>4 DEF Replays
    <2> HIDE DEF p
    <2> QED BY Zenon, <1>4, <1>6, <1>8, <2>5, <2>6 DEF n
  <1>10. r.cumulative = usedGas + result.used
    BY Zenon DEF Receipt
  <1> HIDE DEF r, o, f
  <1>11. /\ Len(receipts') = n + 1 /\ receipts'[n + 1] = r
         /\ \A i \in 1..n : receipts'[i] = receipts[i]
    <2>1. r \in Receipts
      BY Zenon, <1>6, <1>9, ElementOf
    <2> HIDE DEF Receipts
    <2> QED BY <1>1, <1>2, <2>1, Appended
  <1> HIDE DEF n
  <1>12. \A i \in 1..(n + 1) : receipts'[i] = Rs[i]
    <2> TAKE i \in 1..(n + 1)
    <2>1. CASE i = n + 1
      BY Zenon, <1>9, <1>11, <2>1
    <2>2. CASE i # n + 1
      <3>1. i \in 1..n
        BY <1>6, <2>2
      <3> QED BY Zenon, <1>6, <1>11, <3>1
    <2> QED BY Zenon, <2>1, <2>2
  <1>13. Rs' = Rs /\ usedGas' = Used(Rs, n + 1)
    BY <1>1, <1>6, <1>9, <1>10 DEF Rs, Used
  <1>14. Position'
    <2>1. n + 1 <= Len(block) /\ role' = "verifier" /\ ~Busy' /\ Len(receipts') = n + 1
      <3>1. ~Busy'
        BY <1>1 DEF Busy
      <3>2. n + 1 <= Len(block)
        BY <1>6
      <3> QED BY Zenon, <1>1, <1>11, <3>1, <3>2
    <2>2. sealed \in Headers /\ sealed.usedGas = Used(Rs, Len(block))
      BY Zenon DEF Body, Position
    <2> QED BY Zenon, <1>1, <1>6, <1>12, <1>13, <2>1, <2>2 DEF Position
  <1>15. At(ws)'
    <2>1. Chain(block, Rs, ws) /\ sealed.world = ws[Len(block)]
      BY Zenon, <1>3 DEF At
    <2>2. ~Busy'
      BY <1>1 DEF Busy
    <2>3. world' = ws[Len(receipts')]
      BY Zenon, <1>1, <1>9, <1>11
    <2>4. Chain(block, Rs, ws)'
      BY Zenon, <1>1, <1>13, <2>1
    <2> QED BY Zenon, <1>1, <2>1, <2>2, <2>3, <2>4 DEF At
  <1>16. Fresh'
    <2>1. cache # NoL1 => cache = world.l1
      <3> SUFFICES ASSUME cache # NoL1 PROVE cache = world.l1
        OBVIOUS
      <3>1. cache = snap.l1
        BY Zenon, <1>1 DEF Body, Fresh
      <3>2. n + 1 \in (n + 1)..Len(block)
        BY <1>6
      <3>3. msg.from # Depositor
        BY Zenon, <1>6, <3>2 DEF Body, Fresh, n
      <3>4. KeepsL1(snap, o.world)
        BY Zenon, <1>4, <3>3, OutcomeKeepsL1 DEF o
      <3>5. "l1" \in DOMAIN snap
        BY Zenon, <1>2 DEF Worlds
      <3>6. o.world.l1 = snap.l1
        BY Zenon, <3>4, <3>5 DEF KeepsL1
      <3> QED BY Zenon, <1>4, <3>1, <3>6
    <2>2. ASSUME cache # NoL1, NEW j \in (n + 2)..Len(block)
          PROVE  block[j].msg.from # Depositor
      <3>1. j \in (n + 1)..Len(block)
        BY <1>6
      <3> QED BY Zenon, <2>2, <3>1 DEF Body, Fresh, n
    <2>3. Len(receipts') + 1 = n + 2
      BY <1>6, <1>11
    <2> QED BY Zenon, <1>1, <2>1, <2>2, <2>3 DEF Fresh, Busy
  <1>17. Room' /\ Accepted'
    BY Zenon, <1>1, <1>16, IdleRest
  <1> QED BY Zenon, <1>14, <1>15, <1>16, <1>17 DEF Body

\* commitTransaction rolls back to the state before the transaction it skips.
LEMMA SkipPoolTxBody ==
    ASSUME GasInv, Body, SkipPoolTx
    PROVE  Body'
  <1>1. /\ Busy /\ role = "sequencer" /\ pc' = "idle" /\ world' = outer
        /\ UNCHANGED <<receipts, block, role, usedGas, sealed>>
    BY Zenon DEF SkipPoolTx, Unincludable, RevertToSnapshot, Busy
  <1>2. PICK ws \in [Nat -> Worlds] : At(ws)
    BY DEF Body
  <1>3. Rs' = Rs /\ ~Busy'
    BY Zenon, <1>1 DEF Rs, Busy
  <1>4. At(ws)'
    BY Zenon, <1>1, <1>2, <1>3 DEF At
  <1>5. Position'
    BY Zenon, <1>1, <1>3 DEF Body, Position
  <1>6. Room' /\ Accepted' /\ Fresh'
    <2>1. pc' = "idle" /\ role' = "sequencer"
      BY <1>1
    <2> QED BY Zenon, <2>1, IdleRest
  <1> QED BY Zenon, <1>4, <1>5, <1>6 DEF Body

\* The header is made from what the sequencer reached; the verifier starts over.
LEMMA SealBody ==
    ASSUME GasInv, Body, Clean, Seal
    PROVE  pc' = "idle" /\ Body'
  <1>1. /\ pc = "idle" /\ role = "sequencer" /\ role' = "verifier" /\ world' = Genesis
        /\ sealed' = [world |-> world, usedGas |-> usedGas, receipts |-> receipts]
        /\ cache' = NoL1 /\ usedGas' = 0 /\ receipts' = <<>> /\ block' = block
        /\ pc' = IF usedGas > GasLimit THEN "rejected" ELSE "idle"
    BY Zenon DEF Seal
  <1>2. PICK ws \in [Nat -> Worlds] : At(ws)
    BY DEF Body
  <1>3. pc' = "idle"
    <2>1. NoRegolithSystemTx
      BY Zenon, <1>2, CleanReceipts DEF Body
    <2>2. gp + usedGas + Held <= GasLimit /\ Held = 0
      BY Zenon, <1>1, <2>1 DEF GasInv, GasLedger, Held, Terminal
    <2>3. usedGas <= GasLimit
      BY <2>2, Counters
    <2> QED BY <1>1, <2>3, Counters
  <1>4. /\ Rs = receipts /\ Rs' = receipts /\ Len(receipts') = 0 /\ ~Busy'
        /\ sealed'.world = world /\ sealed'.usedGas = usedGas
    BY Zenon, <1>1, <1>3 DEF Rs, Busy
  <1>5. /\ Rs \in Seq(Receipts) /\ Len(receipts) = Len(block) /\ usedGas = Used(receipts, Len(block))
        /\ Len(block) \in Nat
    <2>1. block \in Seq([msg: Messages, effect: EffectValues])
      BY Zenon DEF GasInv, TypeOK
    <2>2. Len(block) \in Nat
      BY <2>1
    <2> QED BY Zenon, <1>1, <1>4, <2>2 DEF Body, Position
  <1>6. sealed' \in Headers
    BY Zenon, <1>1, <1>4, <1>5, Counters DEF Headers, GasInv, TypeOK
  <1>7. Position'
    <2>1. Used(Rs', 0) = 0 /\ 1..Len(receipts') = {}
      BY <1>4 DEF Used
    <2> QED BY <1>1, <1>4, <1>5, <1>6, <2>1 DEF Position
  <1>8. At(ws)'
    <2>1. Chain(block, receipts, ws) /\ world = ws[Len(block)] /\ ws[0] = Genesis
      BY Zenon, <1>1, <1>2, <1>4, <1>5 DEF At, Chain
    <2> QED BY Zenon, <1>1, <1>4, <2>1 DEF At
  <1>9. Fresh'
    BY Zenon, <1>1, <1>3, <1>4 DEF Fresh
  <1>10. Room' /\ Accepted'
    BY Zenon, <1>3, <1>9, IdleRest
  <1> QED BY Zenon, <1>3, <1>7, <1>8, <1>9, <1>10 DEF Body

\* At the end of the block the verifier has what the header says.
LEMMA ValidateStateAccepts ==
    ASSUME GasInv, Body, ValidateState
    PROVE  pc' = "accepted"
  <1>1. /\ pc = "idle" /\ role = "verifier" /\ Len(receipts) = Len(block)
        /\ pc' = IF sealed = [world |-> world, usedGas |-> usedGas, receipts |-> receipts]
                 THEN "accepted" ELSE "rejected"
    BY Zenon DEF ValidateState
  <1>2. PICK ws \in [Nat -> Worlds] : At(ws)
    BY DEF Body
  <1>3. Rs = sealed.receipts /\ sealed \in Headers
    BY Zenon, <1>1 DEF Body, Position, Rs
  <1>4. sealed.world = world /\ sealed.usedGas = usedGas
    BY Zenon, <1>1, <1>2 DEF Body, Position, At
  <1>5. sealed.receipts = receipts
    <2>1. receipts \in Seq(Receipts) /\ Rs \in Seq(Receipts) /\ Len(Rs) = Len(receipts)
      BY Zenon, <1>1 DEF Body, Position, GasInv, TypeOK
    <2>2. \A i \in 1..Len(receipts) : receipts[i] = Rs[i]
      BY Zenon DEF Body, Position
    <2>3. Rs = receipts
      <3> HIDE DEF Receipts
      <3> QED BY <2>1, <2>2
    <2> QED BY <1>3, <2>3
  <1>6. sealed = [world |-> sealed.world, usedGas |-> sealed.usedGas, receipts |-> sealed.receipts]
    BY Zenon, <1>3 DEF Headers
  <1> QED BY Zenon, <1>1, <1>4, <1>5, <1>6

\* The inductive invariant: with GasInv and Stages, what Order and Replay say.
ReplayInv == GasInv /\ Stages /\ Order /\ Replay

\* The sequencer starts at the parent state with an empty block.
LEMMA ReplayInvInit == Init => ReplayInv
  <1> SUFFICES ASSUME Init PROVE ReplayInv
    OBVIOUS
  <1>1. GasInv /\ Stages /\ Order
    BY GasInvInit, OrderInit, StagesInit
  <1>2. /\ pc = "idle" /\ receipts = <<>> /\ block = <<>> /\ world = Genesis /\ usedGas = 0
        /\ role = "sequencer"
    BY Zenon DEF Init
  <1>3. Len(receipts) = 0 /\ Len(block) = 0 /\ Rs = receipts /\ ~Busy
    BY Zenon, <1>2 DEF Rs, Busy
  <1> PICK ws : ws = [i \in Nat |-> Genesis]
    BY Zenon
  <1>4. ws \in [Nat -> Worlds] /\ ws[0] = Genesis
    BY Zenon, BlockAssumption
  <1>5. At(ws)
    BY <1>2, <1>3, <1>4 DEF At, Chain
  <1>6. Position
    <2>1. Rs \in Seq(Receipts)
      BY Zenon, <1>1, <1>3, Typed
    <2> QED BY <1>2, <1>3, <2>1 DEF Position, Used
  <1>7. Room /\ Accepted /\ Fresh
    BY Zenon, <1>2, <1>3 DEF Room, Accepted, Fresh, Passed
  <1> QED BY Zenon, <1>1, <1>2, <1>4, <1>5, <1>6, <1>7 DEF ReplayInv, Replay, Body

\* Only Included adds to the block.
LEMMA BlockGrows ==
    ASSUME [Next]_vars, block' # block
    PROVE  Busy /\ block' = Append(block, [msg |-> msg, effect |-> effect])
  <1>1. CASE PickForced
    BY Zenon, <1>1 DEF PickForced, CommitTransaction
  <1>2. CASE \E a \in Accounts : PickPool(a)
    BY Zenon, <1>2 DEF PickPool, CommitTransaction
  <1>3. CASE ProcessNext
    BY Zenon, <1>3 DEF ProcessNext
  <1>4. CASE Transition
    BY Zenon, <1>4 DEF Transition, blkVars
  <1>5. CASE \E e \in Effects(msg, st.gas) : Execute(e)
    BY Zenon, <1>5 DEF Execute
  <1>6. CASE Included
    BY Zenon, <1>6 DEF Included, Busy
  <1>7. CASE SkipPoolTx \/ Seal
    BY Zenon, <1>7 DEF SkipPoolTx, Seal
  <1>8. CASE GiveUp \/ ValidateState
    BY Zenon, <1>8 DEF GiveUp, ValidateState, blkVars
  <1>9. CASE UNCHANGED vars
    BY Zenon, <1>9 DEF vars, blkVars
  <1> QED BY Zenon, <1>1, <1>2, <1>3, <1>4, <1>5, <1>6, <1>7, <1>8, <1>9 DEF Next, Finished

\* Every step keeps ReplayInv, one case per action.
LEMMA ReplayInvNext == ReplayInv /\ [Next]_vars => ReplayInv'
  <1> SUFFICES ASSUME ReplayInv, [Next]_vars PROVE ReplayInv'
    OBVIOUS
  <1>1. GasInv /\ Stages /\ Order /\ GasInv' /\ Stages' /\ Order'
    BY GasInvNext, StagesNext, OrderNext DEF ReplayInv
  <1> SUFFICES ASSUME Clean' PROVE pc' # "rejected" /\ (pc' \notin Terminal => Body')
    BY Zenon, <1>1 DEF ReplayInv, Replay
  <1>2. Clean
    <2>1. CASE block' = block
      BY <2>1 DEF Clean
    <2>2. CASE block' # block
      <3>1. block' = Append(block, [msg |-> msg, effect |-> effect])
        BY Zenon, <2>2, BlockGrows
      <3>2. block \in Seq(Txs) /\ [msg |-> msg, effect |-> effect] \in Txs
        <4>1. Busy /\ effect \in EffectValues
          BY Zenon, <1>1, <2>2, BlockGrows DEF GasInv, TypeOK
        <4>2. msg \in Messages
          BY Zenon, <1>1, <4>1, InProgress
        <4> QED BY Zenon, <1>1, <4>1, <4>2, Typed DEF Txs
      <3>3. \A i \in 1..Len(block) : i \in 1..Len(block') /\ block'[i] = block[i]
        BY <3>1, <3>2, Appended
      <3> QED BY Zenon, <3>3 DEF Clean
    <2> QED BY <2>1, <2>2
  <1>3. pc \notin Terminal => Body
    BY Zenon, <1>2 DEF ReplayInv, Replay
  <1>4. CASE PickForced \/ \E a \in Accounts : PickPool(a)
    <2>1. PICK m \in Messages : CommitTransaction(m) /\ role = "sequencer"
      <3>1. CASE PickForced
        <4>1. Head(forced) \in Messages
          <5>1. forced # <<>>
            BY Zenon, <3>1 DEF PickForced
          <5> QED BY Zenon, <1>1, <5>1, Typed, HeadOf
        <4> QED BY Zenon, <3>1, <4>1 DEF PickForced
      <3>2. CASE \E a \in Accounts : PickPool(a)
        <4>1. PICK a \in Accounts : PickPool(a)
          BY <3>2
        <4>2. pool[a] \in Seq(Messages) /\ pool[a] # <<>>
          BY Zenon, <1>1, <4>1, Typed DEF PickPool
        <4>3. Head(pool[a]) \in Messages
          BY Zenon, <4>2, HeadOf
        <4> QED BY Zenon, <4>1, <4>3 DEF PickPool
      <3> QED BY Zenon, <1>4, <3>1, <3>2
    <2>2. /\ TransitionDb(m) /\ UNCHANGED <<receipts, block, role, usedGas, sealed>>
          /\ outer' = world /\ cache' = NoL1
      BY Zenon, <2>1 DEF CommitTransaction
    <2>3. pc = "idle" /\ pc' = "preCheck"
      BY Zenon, <2>2 DEF TransitionDb
    <2>4. Body'
      BY Zenon, <1>1, <1>3, <2>1, <2>2, <2>3, StartBody DEF Terminal
    <2> QED BY <2>3, <2>4
  <1>5. CASE ProcessNext
    <2> DEFINE m == block[Len(receipts) + 1].msg
    <2>1. /\ TransitionDb(m) /\ UNCHANGED <<receipts, block, role, usedGas, sealed, cache>>
          /\ role = "verifier" /\ Len(receipts) < Len(block)
      BY Zenon, <1>5 DEF ProcessNext
    <2>2. m \in Messages
      <3>1. Len(receipts) \in Nat /\ Len(block) \in Nat /\ block \in Seq(Txs)
        BY Zenon, <1>1, Typed, LengthOf
      <3>2. Len(receipts) + 1 \in 1..Len(block)
        BY <2>1, <3>1
      <3>3. block[Len(receipts) + 1] \in Txs
        BY Zenon, <3>1, <3>2, ElementOf
      <3> QED BY Zenon, <3>3 DEF Txs
    <2>3. pc = "idle" /\ pc' = "preCheck" /\ m = block[Len(receipts) + 1].msg
      BY Zenon, <2>1 DEF TransitionDb
    <2> HIDE DEF m
    <2>4. Body'
      BY Zenon, <1>1, <1>3, <2>1, <2>2, <2>3, StartBody DEF Terminal
    <2> QED BY Zenon, <2>3, <2>4
  <1>6. CASE Transition
    <2>1. /\ pc \notin Terminal /\ pc' \notin Terminal /\ UNCHANGED blkVars
      BY Zenon, <1>6 DEF Transition, PreCheckDeposit, PreCheckRefused, BuyGas, IntrinsicGas, RefundGas,
                  PayFees, FailedDeposit, Finish, Terminal
    <2>2. Body'
      BY Zenon, <1>1, <1>2, <1>3, <1>6, <2>1, PreCheckDepositBody, PreCheckRefusedBody, BuyGasBody,
         IntrinsicGasBody, RefundGasBody, PayFeesBody, FailedDepositBody DEF Transition
    <2> QED BY Zenon, <2>1, <2>2 DEF Terminal
  <1>7. CASE pc = "evm" /\ \E e \in Effects(msg, st.gas) : Execute(e)
    <2>1. pc' \notin Terminal /\ pc \notin Terminal
      BY <1>7 DEF Execute, Evm, Finish, Terminal
    <2>2. Body'
      BY Zenon, <1>1, <1>2, <1>3, <1>7, <2>1, ExecuteBody
    <2> QED BY <2>1, <2>2 DEF Terminal
  <1>8. CASE Included
    <2>1. pc = "result" /\ pc' = "idle" /\ role \in {"sequencer", "verifier"}
      BY Zenon, <1>1, <1>8, Typed DEF Included
    <2>2. Body'
      BY Zenon, <1>1, <1>3, <1>8, <2>1, SequencerIncluded, VerifierIncluded DEF Terminal
    <2> QED BY <2>1, <2>2
  <1>9. CASE SkipPoolTx
    <2>1. pc = "result" /\ pc' = "idle"
      BY Zenon, <1>9 DEF SkipPoolTx, Unincludable
    <2> QED BY Zenon, <1>1, <1>3, <1>9, <2>1, SkipPoolTxBody DEF Terminal
  <1>10. CASE GiveUp
    <2>1. pc = "result" /\ Unincludable /\ pc' \in Terminal
      BY Zenon, <1>10 DEF GiveUp, Unincludable, Terminal
    <2>2. role # "verifier"
      BY Zenon, <1>3, <2>1 DEF Unincludable, Body, Accepted, Passed, Terminal
    <2>3. pc' # "rejected"
      BY Zenon, <1>10, <2>2 DEF GiveUp
    <2> QED BY Zenon, <2>1, <2>3
  <1>11. CASE Seal
    <2>1. pc = "idle"
      BY Zenon, <1>11 DEF Seal
    <2>2. pc' = "idle" /\ Body'
      BY Zenon, <1>1, <1>2, <1>3, <1>11, <2>1, SealBody DEF Terminal
    <2> QED BY <2>2
  <1>12. CASE ValidateState
    <2>1. pc = "idle"
      BY Zenon, <1>12 DEF ValidateState
    <2>2. pc' = "accepted"
      BY Zenon, <1>1, <1>3, <1>12, <2>1, ValidateStateAccepts DEF Terminal
    <2> QED BY <2>2 DEF Terminal
  <1>13. CASE UNCHANGED vars
    <2>1. /\ UNCHANGED <<world, snap, msg, cache, pc, result>>
          /\ UNCHANGED <<role, outer, effect, usedGas, receipts, block, sealed>>
      BY Zenon, <1>13 DEF vars, stVars, blkVars
    <2>2. Rs' = Rs /\ (Busy' <=> Busy) /\ (Passed' <=> Passed) /\ cost' = cost
      BY Zenon, <2>1 DEF Rs, Busy, Passed, cost, L1CostFunc, L1Attributes, HasL1Cost
    <2>3. pc \notin Terminal => Body'
      <3> SUFFICES ASSUME pc \notin Terminal PROVE Body'
        BY Zenon
      <3>1. PICK ws \in [Nat -> Worlds] : At(ws)
        BY Zenon, <1>3 DEF Body
      <3>2. At(ws)'
        BY Zenon, <2>1, <2>2, <3>1 DEF At
      <3>3. Position' /\ Room' /\ Accepted' /\ Fresh'
        BY Zenon, <1>3, <2>1, <2>2 DEF Body, Position, Room, Accepted, Fresh
      <3> QED BY Zenon, <3>2, <3>3 DEF Body
    <2>4. pc # "rejected"
      BY <1>2 DEF ReplayInv, Replay
    <2> QED BY Zenon, <2>1, <2>3, <2>4
  <1> QED BY Zenon, <1>4, <1>5, <1>6, <1>7, <1>8, <1>9, <1>10, <1>11, <1>12, <1>13 DEF Next, Finished

\* A verifier accepts what the sequencer seals.
THEOREM ReplayAccepted == Spec => []SealedBlockAccepted
  <1>1. ReplayInv => SealedBlockAccepted
    BY Zenon DEF ReplayInv, Replay, Clean, SealedBlockAccepted
  <1> QED BY <1>1, ReplayInvInit, ReplayInvNext, PTL DEF Spec
=============================================================================
