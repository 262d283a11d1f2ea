----------------------- MODULE PayloadBuildingProofs -----------------------
(***************************************************************************)
(* Proofs about PayloadBuilding for every bound, gas limit and queue size. *)
(***************************************************************************)
EXTENDS PayloadBuilding, TLAPS, SequenceTheorems

----------------------------------------------------------------------------
\* The base fee rule

\* A quotient of naturals is a natural.
LEMMA DivNat == ASSUME NEW x \in Nat, NEW y \in Nat, y > 0 PROVE x \div y \in Nat
  OBVIOUS

LEMMA FeeDeltaNat ==
  ASSUME NEW h \in Header, GasTarget(h) > 0, NEW d \in Nat
  PROVE  FeeDelta(h, d) \in Nat
<1>1. GasTarget(h) \in Nat
  BY FeeParamsAssumption, DivNat DEF GasTarget, Header
<1>2. d * h.baseFee \in Nat
  BY DEF Header
<1>3. (d * h.baseFee) \div GasTarget(h) \in Nat
  BY <1>1, <1>2, DivNat
<1>. QED
  BY <1>3, FeeParamsAssumption, DivNat DEF FeeDelta

\* The base fee after h: a natural that lies on the side of h's base fee on
\* which its gas lies of the target (CalcBaseFee).
LEMMA BaseFeeRule ==
  ASSUME NEW h \in Header, GasTarget(h) > 0
  PROVE  /\ CalcBaseFee(h) \in Nat
         /\ h.gasUsed > GasTarget(h) => CalcBaseFee(h) > h.baseFee
         /\ h.gasUsed < GasTarget(h) => CalcBaseFee(h) <= h.baseFee
         /\ h.gasUsed = GasTarget(h) => CalcBaseFee(h) = h.baseFee
<1>1. GasTarget(h) \in Nat /\ h.gasUsed \in Nat /\ h.baseFee \in Nat
  BY FeeParamsAssumption, DivNat DEF GasTarget, Header
<1>2. CASE h.gasUsed = GasTarget(h)
  BY <1>1, <1>2 DEF CalcBaseFee
<1>3. CASE h.gasUsed > GasTarget(h)
  <2>1. h.gasUsed - GasTarget(h) \in Nat
    BY <1>1, <1>3
  <2>2. FeeDelta(h, h.gasUsed - GasTarget(h)) \in Nat
    BY <2>1, FeeDeltaNat
  <2>. QED
    BY <1>1, <1>3, <2>2 DEF CalcBaseFee
<1>4. CASE h.gasUsed < GasTarget(h)
  <2>1. GasTarget(h) - h.gasUsed \in Nat
    BY <1>1, <1>4
  <2>2. FeeDelta(h, GasTarget(h) - h.gasUsed) \in Nat
    BY <2>1, FeeDeltaNat
  <2>. QED
    BY <1>1, <1>4, <2>2 DEF CalcBaseFee
<1>. QED
  BY <1>1, <1>2, <1>3, <1>4

----------------------------------------------------------------------------
\* The blocks that are built

\* A block built for arguments that can be built is a header the chain's own
\* rules accept on top of its parent, with a gas target above zero.
LEMMA SealedVerifies ==
  ASSUME chain \in Seq(Header), ChainInv, NEW a \in Args, WorkOK(a),
         a.gasLimit \in GasLimits, NEW g \in Nat, g <= a.gasLimit
  PROVE  /\ Sealed(a, g) \in Header
         /\ Sealed(a, g).gasUsed = g
         /\ Sealed(a, g).gasLimit = a.gasLimit
         /\ GasTarget(Sealed(a, g)) > 0
         /\ verifyHeader(chain[a.parent], Sealed(a, g))
<1>. DEFINE parent == chain[a.parent]
            h == [number |-> parent.number + 1, time |-> a.timestamp,
                  gasLimit |-> a.gasLimit, gasUsed |-> g,
                  baseFee |-> CalcBaseFee(parent)]
<1>1. parent \in Header /\ GasTarget(parent) > 0
  <2>1. a.parent \in 1..Len(chain)
    BY DEF WorkOK
  <2>. QED
    BY <2>1 DEF ChainInv
<1>2. CalcBaseFee(parent) \in Nat
  BY <1>1, BaseFeeRule
<1>3. Sealed(a, g) = h
  BY DEF Sealed, prepareWork
<1>4. h \in Header
  <2>. HIDE DEF parent
  <2>1. parent.number + 1 \in Nat
    BY <1>1 DEF Header
  <2>2. a.timestamp \in Nat /\ a.gasLimit \in Nat
    BY DEF Args
  <2>. QED
    BY <1>2, <2>1, <2>2 DEF Header
<1>5. GasTarget(h) > 0
  BY TargetAssumption DEF GasTarget
<1>6. verifyHeader(parent, h)
  BY <1>1 DEF verifyHeader, VerifyEip1559Header, WorkOK, PrepareOK, Header
<1>. QED
  BY <1>3, <1>4, <1>5, <1>6

LEMMA EmptyIsFull == ASSUME NEW a PROVE EmptyBlock(a) \in FullBlocks(a)
  BY DEF FullBlocks

LEMMA EmptyVerifies ==
  ASSUME chain \in Seq(Header), ChainInv, NEW a \in Args, WorkOK(a),
         a.gasLimit \in GasLimits
  PROVE  /\ EmptyBlock(a) \in Envelope
         /\ EmptyBlock(a).fees = 0
         /\ EmptyBlock(a).header = Sealed(a, a.forcedGas)
         /\ verifyHeader(chain[a.parent], EmptyBlock(a).header)
<1>1. a.forcedGas \in Nat /\ a.forcedGas <= a.gasLimit
  BY DEF Args, WorkOK
<1>2. /\ Sealed(a, a.forcedGas) \in Header
      /\ verifyHeader(chain[a.parent], Sealed(a, a.forcedGas))
  BY <1>1, SealedVerifies
<1>. QED
  BY <1>2 DEF EmptyBlock, Envelope

LEMMA FullShape ==
  ASSUME chain \in Seq(Header), ChainInv, NEW a \in Args, WorkOK(a),
         a.gasLimit \in GasLimits, NEW b \in FullBlocks(a)
  PROVE  /\ b \in Envelope
         /\ b.header.gasUsed \in Nat
         /\ b.header.gasUsed <= a.gasLimit
         /\ b.header = Sealed(a, b.header.gasUsed)
<1>1. PICK g \in Nat, f \in Nat :
        g <= a.gasLimit /\ b = [header |-> Sealed(a, g), fees |-> f]
  BY PayloadAssumption DEF FullBlocks, EmptyBlock, Args, WorkOK
<1>2. Sealed(a, g) \in Header /\ Sealed(a, g).gasUsed = g
  BY <1>1, SealedVerifies
<1>. QED
  BY <1>1, <1>2 DEF Envelope

----------------------------------------------------------------------------
\* The inductive invariant

LEMMA RequestArgs ==
  ASSUME chain \in Seq(Header), NEW a \in Requests
  PROVE  a \in Args /\ a.gasLimit \in GasLimits
<1>1. PICK n \in 1..Len(chain), d \in 0..1, t \in BOOLEAN, g \in ForcedGas, l \in GasLimits :
        a = [parent |-> n, timestamp |-> chain[n].time + d, noTxPool |-> t,
             forcedGas |-> g, gasLimit |-> l]
  BY DEF Requests
<1>2. chain[n] \in Header
  OBVIOUS
<1>3. chain[n].time \in Nat
  BY Zenon, <1>2 DEF Header
<1>4. chain[n].time + d \in Nat /\ n \in Nat \ {0} /\ g \in Nat /\ l \in Nat
  BY <1>3, PayloadAssumption
<1>. QED
  BY <1>1, <1>4 DEF Args

LEMMA InitInv == Init => Inv
<1>. SUFFICES ASSUME Init PROVE Inv
  OBVIOUS
<1>1. TypeOK
  BY PayloadAssumption DEF Init, TypeOK, BuilderStates
<1>2. QueueInv
  BY PayloadAssumption DEF Init, QueueInv
<1>3. ChainInv
  BY TargetAssumption DEF Init, ChainInv
<1>4. PayloadInv
  BY DEF Init, PayloadInv, Pids
<1>. QED
  BY <1>1, <1>2, <1>3, <1>4 DEF Inv

\* The blocks of some arguments depend on nothing but their parent.
LEMMA BlocksStay ==
  ASSUME NEW a, chain'[a.parent] = chain[a.parent]
  PROVE  EmptyBlock(a)' = EmptyBlock(a) /\ FullBlocks(a)' = FullBlocks(a)
<1>1. \A g : Sealed(a, g)' = Sealed(a, g)
  BY DEF Sealed
<1>2. EmptyBlock(a)' = EmptyBlock(a)
  BY <1>1 DEF EmptyBlock
<1>. QED
  BY <1>1, <1>2 DEF FullBlocks

\* A payload that a step does not touch stays well built.
LEMMA BuiltStays ==
  ASSUME NEW i, Built(i),
         payload'[i] = payload[i], builder'[i] = builder[i],
         candidate'[i] = candidate[i], delivered'[i] = delivered[i],
         DOMAIN chain \subseteq DOMAIN chain',
         chain'[payload[i].args.parent] = chain[payload[i].args.parent]
  PROVE  Built(i)'
<1>. PICK a : a = payload[i].args
  OBVIOUS
<1>1. EmptyBlock(a)' = EmptyBlock(a) /\ FullBlocks(a)' = FullBlocks(a)
  BY BlocksStay
<1>2. WorkOK(a)' 
  BY DEF Built, WorkOK
<1>. QED
  BY <1>1, <1>2 DEF Built

\* put keeps the latest payloads, newest first.
LEMMA PutQueue ==
  ASSUME TypeOK, QueueInv, count < MaxPayloads, NEW q, q = put(queue, count + 1)
  PROVE  /\ q \in Seq(Pids)
         /\ Len(q) = IF count + 1 < MaxTrackedPayloads THEN count + 1 ELSE MaxTrackedPayloads
         /\ q[1] = count + 1
         /\ \A k \in 2..Len(q) : k - 1 \in 1..Len(queue) /\ q[k] = queue[k - 1]
<1>. DEFINE rest == IF Len(queue) < MaxTrackedPayloads THEN queue
                    ELSE SubSeq(queue, 1, MaxTrackedPayloads - 1)
<1>1. queue \in Seq(Pids) /\ count \in Nat /\ MaxTrackedPayloads \in Nat \ {0}
  BY PayloadAssumption DEF TypeOK
<1>2. count + 1 \in Pids
  BY <1>1, PayloadAssumption DEF Pids
<1>3. Len(queue) = IF count < MaxTrackedPayloads THEN count ELSE MaxTrackedPayloads
  BY DEF QueueInv
<1>4. /\ rest \in Seq(Pids)
      /\ Len(rest) = IF Len(queue) < MaxTrackedPayloads THEN Len(queue)
                     ELSE MaxTrackedPayloads - 1
      /\ \A k \in 1..Len(rest) : k \in 1..Len(queue) /\ rest[k] = queue[k]
  <2>1. CASE Len(queue) < MaxTrackedPayloads
    BY <1>1, <2>1
  <2>2. CASE ~(Len(queue) < MaxTrackedPayloads)
    <3>1. MaxTrackedPayloads - 1 <= Len(queue) /\ MaxTrackedPayloads - 1 \in Nat
      BY <1>1, <1>3, <2>2
    <3>. QED
      BY <1>1, <2>2, <3>1
  <2>. QED
    BY <2>1, <2>2
<1>5. q = <<count + 1>> \o rest
  BY DEF put
<1>. HIDE DEF rest
<1>6. /\ q \in Seq(Pids)
      /\ Len(q) = 1 + Len(rest)
      /\ q[1] = count + 1
      /\ \A k \in 2..Len(q) : q[k] = rest[k - 1] /\ k - 1 \in 1..Len(rest)
  <2>. DEFINE one == <<count + 1>>
  <2>1. one \in Seq(Pids) /\ Len(one) = 1 /\ one[1] = count + 1
    BY <1>2
  <2>. HIDE DEF one
  <2>2. /\ one \o rest \in Seq(Pids)
        /\ Len(one \o rest) = Len(one) + Len(rest)
        /\ \A k \in 1..(Len(one) + Len(rest)) :
             (one \o rest)[k] = IF k <= Len(one) THEN one[k] ELSE rest[k - Len(one)]
    <3>1. rest \in Seq(Pids) /\ one \in Seq(Pids)
      BY <1>4, <2>1
    <3>. QED
      BY <3>1, ConcatProperties
  <2>3. q = one \o rest
    BY <1>5 DEF one
  <2>4. Len(rest) \in Nat
    BY <1>4
  <2>5. Len(q) = 1 + Len(rest) /\ q \in Seq(Pids) /\ q[1] = count + 1
    <3>1. 1 \in 1..(Len(one) + Len(rest)) /\ 1 <= Len(one)
      BY <2>1, <2>4
    <3>2. (one \o rest)[1] = one[1]
      BY <2>2, <3>1
    <3>. QED
      BY Zenon, <2>1, <2>2, <2>3, <3>2
  <2>6. ASSUME NEW k \in 2..Len(q)
        PROVE  q[k] = rest[k - 1] /\ k - 1 \in 1..Len(rest)
    <3>1. k \in 1..(Len(one) + Len(rest)) /\ ~(k <= Len(one)) /\ k - 1 \in 1..Len(rest)
      BY <2>1, <2>4, <2>5
    <3>. QED
      BY <2>1, <2>2, <2>3, <3>1
  <2>. QED
    BY <2>5, <2>6
<1>7. Len(q) = IF count + 1 < MaxTrackedPayloads THEN count + 1 ELSE MaxTrackedPayloads
  BY <1>1, <1>3, <1>4, <1>6
<1>. QED
  BY <1>4, <1>6, <1>7

LEMMA BuildPayloadInv ==
  ASSUME Inv, NEW a \in Requests, BuildPayload(a)
  PROVE  Inv'
<1>. DEFINE i == count + 1
            p == [args |-> a, empty |-> EmptyBlock(a), full |-> NoBlock, stop |-> FALSE]
<1>1. TypeOK /\ QueueInv /\ ChainInv /\ PayloadInv
  BY DEF Inv
<1>2. a \in Args /\ a.gasLimit \in GasLimits /\ WorkOK(a)
  BY <1>1, RequestArgs DEF TypeOK, BuildPayload
<1>3. EmptyBlock(a) \in Envelope
  BY <1>1, <1>2, EmptyVerifies DEF TypeOK
<1>4. p \in Payload
  BY <1>2, <1>3 DEF Payload
<1>5. i \in Pids /\ count \in Nat /\ count < MaxPayloads
  BY <1>1, PayloadAssumption DEF TypeOK, BuildPayload, Pids
<1>6. /\ payload' = [payload EXCEPT ![i] = p]
      /\ count' = i
      /\ queue' = put(queue, i)
      /\ builder' = [builder EXCEPT ![i] = IF a.noTxPool THEN "done" ELSE "select"]
      /\ UNCHANGED <<chain, candidate, delivered>>
  BY DEF BuildPayload
<1>. HIDE DEF p
<1>7. /\ queue' \in Seq(Pids)
      /\ Len(queue') = IF count + 1 < MaxTrackedPayloads THEN count + 1 ELSE MaxTrackedPayloads
      /\ queue'[1] = count + 1
      /\ \A k \in 2..Len(queue') : k - 1 \in 1..Len(queue) /\ queue'[k] = queue[k - 1]
  BY <1>1, <1>5, <1>6, PutQueue
<1>8. TypeOK'
  <2>1. payload' \in [Pids -> Payload \cup {NoPayload}]
    BY <1>1, <1>4, <1>5, <1>6 DEF TypeOK
  <2>2. builder' \in [Pids -> BuilderStates]
    BY <1>1, <1>5, <1>6 DEF TypeOK, BuilderStates
  <2>3. count' \in 0..MaxPayloads
    BY <1>5, <1>6, PayloadAssumption
  <2>4. Len(queue') <= MaxTrackedPayloads
    BY <1>5, <1>7, PayloadAssumption
  <2>. QED
    BY <1>1, <1>6, <1>7, <2>1, <2>2, <2>3, <2>4 DEF TypeOK
<1>9. QueueInv'
  <2>1. \A k \in 1..Len(queue) : queue[k] \in 1..count /\ payload'[queue[k]] = payload[queue[k]]
    <3>. TAKE k \in 1..Len(queue)
    <3>1. queue[k] = count + 1 - k /\ Len(queue) <= count
      BY <1>1, <1>5, PayloadAssumption DEF QueueInv
    <3>2. queue[k] \in 1..count /\ queue[k] # i
      BY <1>1, <1>5, <3>1 DEF TypeOK
    <3>3. queue[k] \in Pids
      BY <1>1 DEF TypeOK
    <3>. QED
      BY <1>1, <1>6, <3>2, <3>3 DEF TypeOK
  <2>2. payload'[i] = p /\ p.args = a
    BY <1>1, <1>5, <1>6 DEF TypeOK, p
  <2>3. \A k \in 1..Len(queue) : payload[queue[k]].args # a
    BY <1>1 DEF BuildPayload, has, TypeOK
  <2>4. \A k \in 1..Len(queue') : queue'[k] = count' + 1 - k
    <3>. TAKE k \in 1..Len(queue')
    <3>1. CASE k = 1
      BY <1>5, <1>6, <1>7, <3>1
    <3>2. CASE k # 1
      <4>1. k \in 2..Len(queue')
        BY <1>7, <3>2
      <4>2. queue'[k] = queue[k - 1] /\ k - 1 \in 1..Len(queue)
        BY <1>7, <4>1
      <4>3. queue[k - 1] = count + 1 - (k - 1)
        BY <1>1, <4>2 DEF QueueInv
      <4>. QED
        BY <1>5, <1>6, <4>1, <4>2, <4>3
    <3>. QED
      BY <3>1, <3>2
  <2>5. ASSUME NEW j \in 1..Len(queue'), NEW k \in 1..Len(queue'), j # k
        PROVE  payload'[queue'[j]].args # payload'[queue'[k]].args
    <3>1. \A m \in 1..Len(queue') : m # 1 => m \in 2..Len(queue')
      BY <1>7
    <3>2. payload'[queue'[1]].args = a
      BY <1>7, <2>2
    <3>3. \A m \in 2..Len(queue') : payload'[queue'[m]].args # a
      <4>. TAKE m \in 2..Len(queue')
      <4>1. m - 1 \in 1..Len(queue) /\ queue'[m] = queue[m - 1]
        BY <1>7
      <4>. QED
        BY <2>1, <2>3, <4>1
    <3>4. CASE j # 1 /\ k # 1
      <4>1. /\ j - 1 \in 1..Len(queue) /\ queue'[j] = queue[j - 1]
            /\ k - 1 \in 1..Len(queue) /\ queue'[k] = queue[k - 1]
        BY <1>7, <3>1, <3>4
      <4>2. j - 1 # k - 1
        BY <2>5
      <4>3. payload[queue[j - 1]].args # payload[queue[k - 1]].args
        BY Zenon, <1>1, <4>1, <4>2 DEF QueueInv
      <4>. QED
        BY Zenon, <2>1, <4>1, <4>3
    <3>. QED
      BY <2>5, <3>1, <3>2, <3>3, <3>4
  <2>. QED
    BY <1>6, <1>7, <2>4, <2>5 DEF QueueInv
<1>10. ChainInv'
  BY <1>1, <1>6 DEF ChainInv
<1>11. PayloadInv'
  <2>. SUFFICES ASSUME NEW j \in Pids
                PROVE  (IF j <= count THEN Built(j)
                        ELSE payload[j] = NoPayload /\ builder[j] = "none" /\ delivered[j] = {})'
    BY DEF PayloadInv
  <2>1. CASE j = i
    <3>1. payload'[j] = p /\ builder'[j] # "update" /\ delivered'[j] = {}
      BY <1>1, <1>5, <1>6, <2>1 DEF TypeOK, PayloadInv
    <3>2. p.args = a /\ p.empty = EmptyBlock(a) /\ p.full = NoBlock
      BY DEF p
    <3>3. WorkOK(a)' /\ EmptyBlock(a)' = EmptyBlock(a)
      BY <1>2, <1>6 DEF WorkOK, EmptyBlock, Sealed
    <3>4. Built(j)'
      BY <1>2, <1>4, <3>1, <3>2, <3>3 DEF Built
    <3>. QED
      BY <1>5, <1>6, <2>1, <3>4
  <2>2. CASE j # i
    <3>1. /\ payload'[j] = payload[j] /\ builder'[j] = builder[j]
          /\ delivered'[j] = delivered[j] /\ candidate'[j] = candidate[j]
      BY <1>1, <1>6, <2>2 DEF TypeOK
    <3>2. j <= count' <=> j <= count
      BY <1>5, <1>6, <2>2 DEF Pids
    <3>3. Built(j) => Built(j)'
      BY <1>6, <3>1, BuiltStays
    <3>. QED
      BY <1>1, <3>1, <3>2, <3>3 DEF PayloadInv
  <2>. QED
    BY <2>1, <2>2
<1>. QED
  BY <1>8, <1>9, <1>10, <1>11 DEF Inv

\* What remains to be shown of a step that concerns one payload.
LEMMA OnePayload ==
  ASSUME Inv, TypeOK', NEW i \in Pids, i <= count, UNCHANGED <<chain, count, queue>>,
         \A j \in Pids : j # i => /\ payload'[j] = payload[j] /\ builder'[j] = builder[j]
                                 /\ candidate'[j] = candidate[j]
                                 /\ delivered'[j] = delivered[j],
         payload'[i].args = payload[i].args, Built(i)'
  PROVE  Inv'
<1>1. \A k \in 1..Len(queue) : payload'[queue[k]].args = payload[queue[k]].args
  <2>1. queue \in Seq(Pids)
    BY Zenon DEF Inv, TypeOK
  <2>2. \A k \in 1..Len(queue) : queue[k] \in Pids
    BY <2>1
  <2>. QED
    BY Zenon, <2>2
<1>2. QueueInv'
  <2>1. queue' = queue /\ count' = count
    OBVIOUS
  <2>2. \A j, k \in 1..Len(queue) :
          j # k => payload'[queue[j]].args # payload'[queue[k]].args
    BY <1>1 DEF Inv, QueueInv
  <2>3. /\ Len(queue) = IF count < MaxTrackedPayloads THEN count ELSE MaxTrackedPayloads
        /\ \A k \in 1..Len(queue) : queue[k] = count + 1 - k
    BY DEF Inv, QueueInv
  <2>4. /\ Len(queue') = IF count' < MaxTrackedPayloads THEN count' ELSE MaxTrackedPayloads
        /\ \A k \in 1..Len(queue') : queue'[k] = count' + 1 - k
    BY <2>1, <2>3
  <2>5. \A j, k \in 1..Len(queue') :
          j # k => payload'[queue'[j]].args # payload'[queue'[k]].args
    BY <2>1, <2>2
  <2>. QED
    BY Zenon, <2>4, <2>5 DEF QueueInv
<1>3. ChainInv'
  BY DEF Inv, ChainInv
<1>4. PayloadInv'
  <2>1. ASSUME NEW j \in Pids, j # i, j <= count
        PROVE  Built(j)'
    <3>1. Built(j)
      BY <2>1 DEF Inv, PayloadInv
    <3>. QED
      BY <2>1, <3>1, BuiltStays
  <2>. QED
    BY <2>1 DEF Inv, PayloadInv
<1>. QED
  BY <1>2, <1>3, <1>4 DEF Inv

\* A goroutine at work belongs to a payload that has been built.
LEMMA AtWork ==
  ASSUME Inv, NEW i \in Pids, builder[i] # "none"
  PROVE  i <= count /\ Built(i)
<1>1. count \in Nat /\ i \in Nat
  BY PayloadAssumption DEF Inv, TypeOK, Pids
<1>. QED
  BY <1>1 DEF Inv, PayloadInv

LEMMA BuildFullInv ==
  ASSUME Inv, NEW i \in Pids, BuildFull(i)
  PROVE  Inv'
<1>1. i <= count /\ Built(i)
  BY AtWork DEF BuildFull
<1>2. PICK a : a = payload[i].args
  OBVIOUS
<1>3. PICK b \in FullBlocks(a) : candidate' = [candidate EXCEPT ![i] = b]
  BY Zenon, <1>2 DEF BuildFull
<1>4. b \in Envelope
  <2>1. a \in Args /\ WorkOK(a) /\ a.gasLimit \in GasLimits
    BY Zenon, <1>1, <1>2 DEF Built, Payload
  <2>. QED
    BY <1>3, <2>1, FullShape DEF Inv, TypeOK
<1>5. TypeOK'
  BY <1>3, <1>4 DEF Inv, TypeOK, BuildFull, BuilderStates
<1>6. EmptyBlock(a)' = EmptyBlock(a) /\ FullBlocks(a)' = FullBlocks(a) /\ WorkOK(a)' = WorkOK(a)
  BY Zenon, BlocksStay DEF BuildFull, WorkOK
<1>7. candidate'[i] = b /\ builder'[i] = "update" /\ payload'[i] = payload[i]
      /\ delivered'[i] = delivered[i]
  BY <1>3 DEF BuildFull, Inv, TypeOK
<1>8. Built(i)'
  BY Zenon, <1>1, <1>2, <1>3, <1>6, <1>7 DEF Built
<1>9. \A j \in Pids : j # i => /\ payload'[j] = payload[j] /\ builder'[j] = builder[j]
                               /\ candidate'[j] = candidate[j]
                               /\ delivered'[j] = delivered[j]
  BY <1>3 DEF BuildFull, Inv, TypeOK
<1>. QED
  BY <1>1, <1>5, <1>7, <1>8, <1>9, OnePayload DEF BuildFull

LEMMA StopBuilderInv ==
  ASSUME Inv, NEW i \in Pids, StopBuilder(i)
  PROVE  Inv'
<1>1. i <= count /\ Built(i)
  BY AtWork DEF StopBuilder
<1>2. PICK a : a = payload[i].args
  OBVIOUS
<1>3. TypeOK'
  BY DEF Inv, TypeOK, StopBuilder, BuilderStates
<1>4. EmptyBlock(a)' = EmptyBlock(a) /\ FullBlocks(a)' = FullBlocks(a) /\ WorkOK(a)' = WorkOK(a)
  BY BlocksStay DEF StopBuilder, WorkOK
<1>5. builder'[i] = "done" /\ payload'[i] = payload[i] /\ delivered'[i] = delivered[i]
  BY DEF StopBuilder, Inv, TypeOK
<1>6. Built(i)'
  BY Zenon, <1>1, <1>2, <1>4, <1>5 DEF Built
<1>7. \A j \in Pids : j # i => /\ payload'[j] = payload[j] /\ builder'[j] = builder[j]
                               /\ candidate'[j] = candidate[j]
                               /\ delivered'[j] = delivered[j]
  BY DEF StopBuilder, Inv, TypeOK
<1>. QED
  BY <1>1, <1>3, <1>5, <1>6, <1>7, OnePayload DEF StopBuilder

\* update changes the full block only, and only before the payload is stopped.
LEMMA UpdateInv ==
  ASSUME Inv, NEW i \in Pids, Update(i)
  PROVE  Inv'
<1>. DEFINE p == payload[i]
            q == Updated(p, candidate[i])
<1>1. i <= count /\ Built(i)
  BY AtWork DEF Update
<1>2. PICK a : a = p.args
  OBVIOUS
<1>3. p \in Payload /\ candidate[i] \in FullBlocks(a) /\ candidate[i] \in Envelope
  <2>1. p \in Payload /\ candidate[i] \in FullBlocks(a)
    BY <1>1, <1>2 DEF Built, Update
  <2>2. a \in Args /\ WorkOK(a) /\ a.gasLimit \in GasLimits
    BY <1>1, <1>2 DEF Built, Payload
  <2>. QED
    BY Zenon, <2>1, <2>2, FullShape DEF Inv, TypeOK
<1>4. /\ q \in Payload /\ q.args = a /\ q.empty = p.empty /\ q.stop = p.stop
      /\ q.full # NoBlock => q.full \in FullBlocks(a)
      /\ p.stop => q = p
  BY <1>1, <1>2, <1>3 DEF Updated, Payload, Built
<1>5. /\ payload' = [payload EXCEPT ![i] = q]
      /\ payload'[i] = q /\ builder'[i] = "select" /\ delivered'[i] = delivered[i]
  BY DEF Update, Inv, TypeOK
<1>. HIDE DEF q
<1>6. TypeOK'
  <2>1. payload' \in [Pids -> Payload \cup {NoPayload}]
    BY <1>4, <1>5 DEF Inv, TypeOK
  <2>. QED
    BY <2>1 DEF Inv, TypeOK, Update, BuilderStates
<1>7. EmptyBlock(a)' = EmptyBlock(a) /\ FullBlocks(a)' = FullBlocks(a) /\ WorkOK(a)' = WorkOK(a)
  BY BlocksStay DEF Update, WorkOK
<1>8. delivered[i] \subseteq {Current(q)} /\ (delivered[i] # {} => q.stop)
  BY <1>1, <1>4 DEF Built
<1>9. Built(i)'
  BY Zenon, <1>1, <1>2, <1>4, <1>5, <1>7, <1>8 DEF Built
<1>10. \A j \in Pids : j # i => /\ payload'[j] = payload[j] /\ builder'[j] = builder[j]
                                /\ candidate'[j] = candidate[j]
                                /\ delivered'[j] = delivered[j]
  BY <1>5 DEF Update, Inv, TypeOK
<1>. QED
  BY <1>1, <1>2, <1>4, <1>5, <1>6, <1>9, <1>10, OnePayload DEF Update

\* A payload that is found has been built.
LEMMA FoundBuilt ==
  ASSUME Inv, NEW i \in Pids, Finds(queue, i)
  PROVE  i <= count /\ Built(i)
<1>1. PICK k \in 1..Len(queue) : queue[k] = i
  BY DEF Finds, Inv, TypeOK
<1>2. i = count + 1 - k /\ count \in Nat
  BY <1>1, PayloadAssumption DEF Inv, QueueInv, TypeOK
<1>3. i <= count
  BY <1>1, <1>2
<1>. QED
  BY Zenon, <1>3 DEF Inv, PayloadInv

LEMMA GetPayloadInv ==
  ASSUME Inv, NEW i \in Pids, GetPayload(i)
  PROVE  Inv'
<1>. DEFINE p == payload[i]
            q == [p EXCEPT !.stop = TRUE]
<1>1. i <= count /\ Built(i)
  BY FoundBuilt DEF GetPayload
<1>2. PICK a : a = p.args
  OBVIOUS
<1>3. p \in Payload
  BY <1>1 DEF Built
<1>4. /\ q \in Payload /\ q.args = a /\ q.empty = p.empty /\ q.full = p.full /\ q.stop
      /\ Current(q) = Current(p)
  BY Zenon, <1>2, <1>3 DEF Payload, Current
<1>5. Current(p) \in Envelope
  BY <1>3 DEF Payload, Current
<1>6. /\ payload' = [payload EXCEPT ![i] = q] /\ payload'[i] = q
      /\ delivered' = [delivered EXCEPT ![i] = delivered[i] \cup {Current(p)}]
      /\ UNCHANGED <<chain, count, builder, candidate, queue>>
  BY DEF GetPayload, Inv, TypeOK
<1>7. delivered'[i] = {Current(p)}
  BY <1>1, <1>6 DEF Built, Inv, TypeOK
<1>. HIDE DEF q
<1>8. TypeOK'
  <2>1. payload' \in [Pids -> Payload \cup {NoPayload}]
    BY <1>4, <1>6 DEF Inv, TypeOK
  <2>2. delivered' \in [Pids -> SUBSET Envelope]
    BY <1>5, <1>6 DEF Inv, TypeOK
  <2>. QED
    BY <1>6, <2>1, <2>2 DEF Inv, TypeOK
<1>9. EmptyBlock(a)' = EmptyBlock(a) /\ FullBlocks(a)' = FullBlocks(a) /\ WorkOK(a)' = WorkOK(a)
  BY <1>6, BlocksStay DEF WorkOK
<1>10. Built(i)'
  BY Zenon, <1>1, <1>2, <1>4, <1>6, <1>7, <1>9 DEF Built
<1>11. \A j \in Pids : j # i => /\ payload'[j] = payload[j] /\ builder'[j] = builder[j]
                                /\ candidate'[j] = candidate[j]
                                /\ delivered'[j] = delivered[j]
  BY <1>6 DEF Inv, TypeOK
<1>. QED
  BY Zenon, <1>1, <1>2, <1>4, <1>6, <1>8, <1>10, <1>11, OnePayload

\* A delivered block is one of the blocks of its payload's arguments.
LEMMA DeliveredBlock ==
  ASSUME Inv, NEW i \in Pids, NEW b \in delivered[i]
  PROVE  /\ i <= count /\ Built(i) /\ b = Current(payload[i])
         /\ b \in FullBlocks(payload[i].args)
         /\ b.header \in Header /\ GasTarget(b.header) > 0
<1>1. i <= count /\ Built(i)
  BY Zenon DEF Inv, PayloadInv
<1>2. b = Current(payload[i]) /\ b \in FullBlocks(payload[i].args)
  BY Zenon, <1>1, EmptyIsFull DEF Built, Current
<1>3. PICK a : a = payload[i].args
  BY Zenon
<1>4. a \in Args /\ WorkOK(a) /\ a.gasLimit \in GasLimits
  BY <1>1, <1>3 DEF Built, Payload
<1>5. chain \in Seq(Header) /\ ChainInv
  BY DEF Inv, TypeOK
<1>6. /\ b.header.gasUsed \in Nat /\ b.header.gasUsed <= a.gasLimit
      /\ b.header = Sealed(a, b.header.gasUsed)
  BY <1>2, <1>3, <1>4, <1>5, FullShape
<1>7. b.header \in Header /\ GasTarget(b.header) > 0
  BY <1>4, <1>5, <1>6, SealedVerifies
<1>. QED
  BY Zenon, <1>1, <1>2, <1>7

LEMMA ImportInv ==
  ASSUME Inv, NEW i \in Pids, NEW b \in delivered[i], Import(i, b)
  PROVE  Inv'
<1>. DEFINE h == b.header
<1>1. h \in Header /\ GasTarget(h) > 0
  BY DeliveredBlock
<1>. HIDE DEF h
<1>2. chain \in Seq(Header) /\ chain' = Append(chain, h)
  BY DEF Import, Inv, TypeOK, h
<1>3. /\ chain' \in Seq(Header) /\ Len(chain') = Len(chain) + 1 /\ Len(chain) \in Nat
      /\ chain'[Len(chain) + 1] = h
      /\ \A n \in 1..Len(chain) : chain'[n] = chain[n]
  BY <1>1, <1>2
<1>4. TypeOK'
  <2>1. chain' \in Seq(Header) /\ Len(chain') >= 1
    BY <1>3
  <2>. QED
    BY <2>1 DEF Import, Inv, TypeOK
<1>5. QueueInv'
  BY DEF Import, Inv, QueueInv
<1>6. ChainInv'
  <2>. SUFFICES ASSUME NEW n \in 1..Len(chain') PROVE GasTarget(chain'[n]) > 0
    BY DEF ChainInv, GasTarget
  <2>1. CASE n = Len(chain) + 1
    BY <1>1, <1>3, <2>1
  <2>2. CASE n # Len(chain) + 1
    <3>1. n \in 1..Len(chain)
      BY <1>3, <2>2
    <3>. QED
      BY <1>3, <3>1 DEF Inv, ChainInv
  <2>. QED
    BY <2>1, <2>2
<1>7. PayloadInv'
  <2>1. ASSUME NEW j \in Pids, j <= count
        PROVE  Built(j)'
    <3>1. Built(j)
      BY <2>1 DEF Inv, PayloadInv
    <3>2. DOMAIN chain = 1..Len(chain) /\ DOMAIN chain' = 1..(Len(chain) + 1)
      BY <1>2, <1>3
    <3>3. payload[j].args.parent \in 1..Len(chain)
      BY <3>1, <3>2 DEF Built, WorkOK
    <3>4. DOMAIN chain \subseteq DOMAIN chain'
      BY <1>3, <3>2
    <3>. QED
      BY <1>3, <3>1, <3>3, <3>4, BuiltStays DEF Import
  <2>. QED
    BY <2>1 DEF Inv, PayloadInv, Import
<1>. QED
  BY <1>4, <1>5, <1>6, <1>7 DEF Inv

\* Every step keeps the invariant.
LEMMA NextInv == Inv /\ [Next]_vars => Inv'
<1>. SUFFICES ASSUME Inv, [Next]_vars PROVE Inv'
  OBVIOUS
<1>1. ASSUME NEW a \in Requests, BuildPayload(a) PROVE Inv'
  BY <1>1, BuildPayloadInv
<1>2. ASSUME NEW i \in Pids, BuildFull(i) PROVE Inv'
  BY <1>2, BuildFullInv
<1>3. ASSUME NEW i \in Pids, Update(i) PROVE Inv'
  BY <1>3, UpdateInv
<1>4. ASSUME NEW i \in Pids, StopBuilder(i) PROVE Inv'
  BY <1>4, StopBuilderInv
<1>5. ASSUME NEW i \in Pids, GetPayload(i) PROVE Inv'
  BY <1>5, GetPayloadInv
<1>6. ASSUME NEW i \in Pids, NEW b \in delivered[i], Import(i, b) PROVE Inv'
  BY <1>6, ImportInv
<1>7. CASE UNCHANGED vars
  <2>1. TypeOK' /\ QueueInv' /\ ChainInv'
    BY <1>7 DEF vars, Inv, TypeOK, QueueInv, ChainInv
  <2>2. ASSUME NEW j \in Pids, Built(j) PROVE Built(j)'
    BY <1>7, <2>2, BuiltStays DEF vars
  <2>. QED
    BY <1>7, <2>1, <2>2 DEF vars, Inv, PayloadInv
<1>. QED
  BY <1>1, <1>2, <1>3, <1>4, <1>5, <1>6, <1>7 DEF Next

\* The invariant holds in every reachable state.
THEOREM Invariance == Spec => []Inv
<1>1. Init => Inv
  BY InitInv
<1>2. Inv /\ [Next]_vars => Inv'
  BY NextInv
<1>. QED
  BY <1>1, <1>2, PTL DEF Spec

\* The queue never outgrows its bound, and every block handed out, built or
\* imported is a header with its fees.
THEOREM TypeCorrect == Spec => []TypeOK
<1>1. Inv => TypeOK
  BY DEF Inv
<1>. QED
  BY <1>1, Invariance, PTL

\* The latest MaxTrackedPayloads payloads are found under their ids, for
\* every size of the queue and any number of payloads.
THEOREM KeepsPayloads == Spec => []PayloadKept
<1>1. Inv => PayloadKept
  <2>. SUFFICES ASSUME Inv, NEW i \in 1..count, count - i < MaxTrackedPayloads
                PROVE  Finds(queue, i)
    BY DEF PayloadKept
  <2>. DEFINE k == count + 1 - i
  <2>1. count \in Nat /\ MaxTrackedPayloads \in Nat \ {0} /\ i \in Nat
    BY PayloadAssumption DEF Inv, TypeOK
  <2>2. k \in 1..Len(queue) /\ DOMAIN queue = 1..Len(queue) /\ Len(queue) \in Nat
    BY <2>1 DEF Inv, QueueInv, TypeOK
  <2>3. queue[k] = count + 1 - k
    BY <2>2 DEF Inv, QueueInv
  <2>4. queue[k] = i
    BY <2>1, <2>3
  <2>5. ASSUME NEW j \in 1..(k - 1) PROVE payload[queue[j]].args # payload[i].args
    <3>1. j \in 1..Len(queue) /\ j # k
      BY <2>1, <2>2
    <3>. QED
      BY Zenon, <2>2, <2>4, <3>1 DEF Inv, QueueInv
  <2>. QED
    BY <2>2, <2>4, <2>5 DEF Finds
<1>. QED
  BY <1>1, Invariance, PTL

\* Along every chain the node builds and imports, the base fee moves to the
\* side of the gas target on which the parent's gas lies.
THEOREM BaseFeeMovement == Spec => BaseFeeMoves
<1>1. Inv /\ [Next]_vars => [BaseFeeStep]_vars
  <2>. SUFFICES ASSUME Inv, Next, chain' # chain PROVE BaseFeeStep
    BY DEF BaseFeeStep, vars
  <2>0. PICK i \in Pids : \E b \in delivered[i] : Import(i, b)
    BY Zenon DEF Next, BuildPayload, BuildFull, Update, StopBuilder, GetPayload
  <2>1. PICK b \in delivered[i] : Import(i, b)
    BY <2>0
  <2>. DEFINE h == b.header
              parent == chain[Len(chain)]
  <2>2. h \in Header
    BY DeliveredBlock
  <2>3. parent \in Header /\ GasTarget(parent) > 0 /\ Len(chain) \in Nat
    <3>1. chain \in Seq(Header) /\ Len(chain) \in 1..Len(chain)
      BY DEF Inv, TypeOK
    <3>. QED
      BY <3>1 DEF Inv, ChainInv
  <2>4. chain' = Append(chain, h) /\ h.baseFee = CalcBaseFee(parent)
    BY <2>1 DEF Import, verifyHeader, VerifyEip1559Header
  <2>5. chain'[Len(chain')] = h
    <3>. HIDE DEF h
    <3>. QED
      BY <2>2, <2>4 DEF Inv, TypeOK
  <2>6. /\ parent.gasUsed > GasTarget(parent) => CalcBaseFee(parent) > parent.baseFee
        /\ parent.gasUsed < GasTarget(parent) => CalcBaseFee(parent) <= parent.baseFee
        /\ parent.gasUsed = GasTarget(parent) => CalcBaseFee(parent) = parent.baseFee
    BY <2>3, BaseFeeRule
  <2>. QED
    BY <2>4, <2>5, <2>6 DEF BaseFeeStep
<1>. QED
  BY <1>1, Invariance, PTL DEF Spec, BaseFeeMoves

----------------------------------------------------------------------------
\* The refinement

\* The contract speaks of the same headers and the same rules.
LEMMA SameRules ==
  /\ Contract!Header = Header /\ Contract!Envelope = Envelope
  /\ \A parent, h : Contract!verifyHeader(parent, h) = verifyHeader(parent, h)
<1>1. Contract!Header = Header /\ Contract!Envelope = Envelope
  BY DEF Contract!Header, Header, Contract!Envelope, Envelope
<1>2. \A h : Contract!CalcBaseFee(h) = CalcBaseFee(h)
  BY DEF Contract!CalcBaseFee, CalcBaseFee, Contract!GasTarget, GasTarget,
         Contract!FeeDelta, FeeDelta
<1>. QED
  BY <1>1, <1>2 DEF Contract!verifyHeader, verifyHeader,
         Contract!VerifyEip1559Header, VerifyEip1559Header

LEMMA OfferedAt ==
  ASSUME NEW i \in Pids, Built(i)
  PROVE  Offered[i] = Current(payload[i])
  BY NoneAssumption DEF Offered, Built

LEMMA BuildPayloadRefines ==
  ASSUME Inv, NEW a \in Requests, BuildPayload(a)
  PROVE  Contract!Next
<1>. DEFINE i == count + 1
            b == EmptyBlock(a)
<1>1. i \in Pids /\ count \in Nat
  BY PayloadAssumption DEF Inv, TypeOK, BuildPayload, Pids
<1>2. payload[i] = NoPayload
  BY <1>1 DEF Inv, PayloadInv
<1>3. a \in Args /\ a.gasLimit \in GasLimits /\ WorkOK(a)
  BY RequestArgs DEF Inv, TypeOK, BuildPayload
<1>4. b \in Envelope /\ b.fees = 0 /\ verifyHeader(chain[a.parent], b.header)
  BY Zenon, <1>3, EmptyVerifies DEF Inv, TypeOK
<1>5. a.parent \in DOMAIN chain
  BY Zenon, <1>3 DEF WorkOK
<1>. HIDE DEF b
<1>6. Offered' = [Offered EXCEPT ![i] = b]
  <2>1. payload' = [payload EXCEPT ![i] =
          [args |-> a, empty |-> b, full |-> NoBlock, stop |-> FALSE]]
    BY DEF BuildPayload, b
  <2>2. DEFINE p == [args |-> a, empty |-> b, full |-> NoBlock, stop |-> FALSE]
  <2>3. p \in Payload /\ Current(p) = b
    BY Zenon, <1>3, <1>4 DEF Payload, Current
  <2>4. p # NoPayload
    BY Zenon, <2>3, NoneAssumption
  <2>. HIDE DEF p
  <2>5. payload'[i] = p /\ \A j \in Pids : j # i => payload'[j] = payload[j]
    BY <1>1, <2>1 DEF Inv, TypeOK, p
  <2>. QED
    BY Zenon, <1>1, <2>3, <2>4, <2>5 DEF Offered, Current
<1>7. Offered[i] = NoBlock /\ Offered'[i] = b
  BY <1>1, <1>2, <1>6 DEF Offered
<1>8. Contract!Offers(i, b)
  BY Zenon, <1>4, <1>6, SameRules DEF BuildPayload, Contract!Offers
<1>9. Contract!Open(i, Offered'[i])
  BY <1>4, <1>5, <1>7, <1>8, SameRules DEF Contract!Open
<1>. QED
  BY <1>1, <1>9 DEF Contract!Next

LEMMA UpdateRefines ==
  ASSUME Inv, NEW i \in Pids, Update(i)
  PROVE  Contract!Next \/ UNCHANGED Contract!vars
<1>. DEFINE p == payload[i]
            b == candidate[i]
            q == Updated(p, b)
            old == Current(p)
<1>1. i <= count /\ Built(i)
  BY AtWork DEF Update
<1>2. PICK a : a = p.args
  OBVIOUS
<1>3. /\ p \in Payload /\ b \in FullBlocks(a) /\ old \in FullBlocks(a)
      /\ a \in Args /\ WorkOK(a) /\ a.gasLimit \in GasLimits
  <2>1. p \in Payload /\ b \in FullBlocks(a) /\ a \in Args /\ WorkOK(a)
        /\ a.gasLimit \in GasLimits
    BY <1>1, <1>2 DEF Built, Update, Payload
  <2>2. old \in FullBlocks(a)
    BY <1>1, <1>2, EmptyIsFull DEF Built, Current
  <2>. QED
    BY <2>1, <2>2
<1>4. chain \in Seq(Header) /\ ChainInv
  BY DEF Inv, TypeOK
<1>5. /\ b \in Envelope /\ b.header.gasUsed \in Nat /\ b.header.gasUsed <= a.gasLimit
      /\ b.header = Sealed(a, b.header.gasUsed)
  BY Zenon, <1>3, <1>4, FullShape
<1>6. old \in Envelope /\ old.header = Sealed(a, old.header.gasUsed)
  BY <1>3, <1>4, FullShape
<1>7. b.header.gasLimit = a.gasLimit
  <2>. DEFINE g == b.header.gasUsed
  <2>. HIDE DEF g
  <2>1. g \in Nat /\ g <= a.gasLimit /\ b.header = Sealed(a, g)
    BY <1>5 DEF g
  <2>2. Sealed(a, g).gasLimit = a.gasLimit
    BY Zenon, <1>3, <1>4, <2>1, SealedVerifies
  <2>. QED
    BY <2>1, <2>2
<1>8. b.header = [old.header EXCEPT !.gasUsed = b.header.gasUsed]
  <2>. DEFINE g == b.header.gasUsed
              k == old.header.gasUsed
  <2>. HIDE DEF g, k
  <2>1. Sealed(a, g) = [Sealed(a, k) EXCEPT !.gasUsed = g]
    BY Zenon DEF Sealed, prepareWork
  <2>. QED
    BY <1>5, <1>6, <2>1 DEF g, k
<1>9. Offered[i] = old /\ Offered \in [Pids -> Envelope \cup {NoBlock}]
  <2>1. Offered[i] = old
    BY <1>1, OfferedAt
  <2>2. \A j \in Pids : payload[j] # NoPayload => Current(payload[j]) \in Envelope
    BY DEF Inv, TypeOK, Payload, Current
  <2>. QED
    BY <2>1, <2>2 DEF Offered
<1>10. q \in Payload
  BY <1>3, <1>5 DEF Updated, Payload
<1>11. Offered' = [Offered EXCEPT ![i] = Current(q)]
  <2>1. payload'[i] = q /\ \A j \in Pids : j # i => payload'[j] = payload[j]
    BY DEF Update, Inv, TypeOK
  <2>2. q # NoPayload
    BY <1>10, NoneAssumption
  <2>. HIDE DEF q
  <2>. QED
    BY Zenon, <2>1, <2>2 DEF Offered, Current
<1>12. CASE q = p
  <2>1. Offered' = Offered
    BY <1>9, <1>11, <1>12
  <2>. QED
    BY <2>1 DEF Update, Contract!vars
<1>13. CASE q # p
  <2>1. ~p.stop /\ (p.full = NoBlock \/ b.fees > p.full.fees) /\ q = [p EXCEPT !.full = b]
    BY <1>13 DEF Updated
  <2>2. Current(q) = b
    <3>1. q.full = b /\ b # NoBlock
      BY <1>3, <1>5, <2>1, NoneAssumption DEF Payload
    <3>. QED
      BY <3>1 DEF Current
  <2>3. b.fees >= old.fees
    <3>1. b.fees \in Nat /\ old.fees \in Nat
      BY Zenon, <1>5, <1>6 DEF Envelope
    <3>2. CASE p.full = NoBlock
      <4>1. old.fees = 0
        BY <1>1, <3>2 DEF Built, Current, EmptyBlock
      <4>. QED
        BY <3>1, <4>1
    <3>3. CASE p.full # NoBlock
      BY <2>1, <3>1, <3>3 DEF Current
    <3>. QED
      BY <3>2, <3>3
  <2>4. delivered[i] = {}
    BY <1>1, <2>1 DEF Built
  <2>5. Offered[i] # NoBlock
    BY <1>6, <1>9, NoneAssumption
  <2>6. Contract!Offers(i, b)
    BY Zenon, <1>5, <1>11, <2>2, SameRules DEF Update, Contract!Offers
  <2>7. Contract!Improve(i, b)
    BY <1>5, <1>7, <1>8, <1>9, <2>3, <2>4, <2>5, <2>6 DEF Contract!Improve
  <2>8. Offered'[i] = b
    BY <1>9, <1>11, <2>2
  <2>. QED
    BY <2>7, <2>8 DEF Contract!Next
<1>. QED
  BY <1>12, <1>13

LEMMA GetPayloadRefines ==
  ASSUME Inv, NEW i \in Pids, GetPayload(i)
  PROVE  Contract!Next
<1>. DEFINE p == payload[i]
            q == [p EXCEPT !.stop = TRUE]
<1>1. Built(i) /\ p \in Payload
  BY FoundBuilt DEF GetPayload, Built
<1>2. Offered[i] = Current(p) /\ Current(p) \in Envelope
  BY Zenon, <1>1, OfferedAt DEF Current, Payload
<1>3. q \in Payload /\ Current(q) = Current(p)
  BY Zenon, <1>1 DEF Payload, Current
<1>4. Offered' = Offered
  <2>1. payload'[i] = q /\ \A j \in Pids : j # i => payload'[j] = payload[j]
    BY DEF GetPayload, Inv, TypeOK
  <2>2. q # NoPayload /\ p # NoPayload
    BY Zenon, <1>1, <1>3, NoneAssumption
  <2>. HIDE DEF q
  <2>. QED
    BY Zenon, <1>3, <2>1, <2>2 DEF Offered, Current
<1>5. delivered' = [delivered EXCEPT ![i] = {Offered[i]}]
  <2>1. delivered[i] \cup {Current(p)} = {Offered[i]}
    BY Zenon, <1>1, <1>2 DEF Built
  <2>. QED
    BY Zenon, <2>1 DEF GetPayload
<1>6. Offered[i] # NoBlock
  BY <1>2, NoneAssumption
<1>. QED
  BY Zenon, <1>4, <1>5, <1>6 DEF GetPayload, Contract!Next, Contract!Deliver

\* The block building of the code implements its contract, whatever the
\* interleaving of goroutines, deliveries and imports.
THEOREM Refinement == Spec => RefinesContract
<1>1. Init => Contract!Init
  <2>. SUFFICES ASSUME Init PROVE Contract!Init
    OBVIOUS
  <2>1. chain \in Seq(Header) /\ Len(chain) = 1
    BY PayloadAssumption DEF Init
  <2>2. Offered = [i \in Pids |-> NoBlock]
    BY DEF Init, Offered
  <2>. QED
    BY <2>1, <2>2, SameRules DEF Init, Contract!Init
<1>2. Inv /\ [Next]_vars => [Contract!Next]_(Contract!vars)
  <2>. SUFFICES ASSUME Inv, [Next]_vars
                PROVE  Contract!Next \/ UNCHANGED Contract!vars
    OBVIOUS
  <2>1. ASSUME NEW a \in Requests, BuildPayload(a) PROVE Contract!Next
    BY <2>1, BuildPayloadRefines
  <2>2. ASSUME NEW i \in Pids, BuildFull(i) PROVE UNCHANGED Contract!vars
    BY <2>2 DEF BuildFull, Contract!vars, Offered, Current
  <2>3. ASSUME NEW i \in Pids, Update(i) PROVE Contract!Next \/ UNCHANGED Contract!vars
    BY <2>3, UpdateRefines
  <2>4. ASSUME NEW i \in Pids, StopBuilder(i) PROVE UNCHANGED Contract!vars
    BY <2>4 DEF StopBuilder, Contract!vars, Offered, Current
  <2>5. ASSUME NEW i \in Pids, GetPayload(i) PROVE Contract!Next
    BY <2>5, GetPayloadRefines
  <2>6. ASSUME NEW i \in Pids, NEW b \in delivered[i], Import(i, b) PROVE Contract!Next
    <3>1. UNCHANGED Offered
      BY Zenon, <2>6 DEF Import, Offered, Current
    <3>2. Contract!Extend(i, b)
      BY <2>6, <3>1, SameRules DEF Import, Contract!Extend
    <3>. QED
      BY <3>2 DEF Contract!Next
  <2>7. CASE UNCHANGED vars
    BY <2>7 DEF vars, Contract!vars, Offered, Current
  <2>. QED
    BY Zenon, <2>1, <2>2, <2>3, <2>4, <2>5, <2>6, <2>7 DEF Next
<1>. QED
  BY <1>1, <1>2, Invariance, PTL DEF Spec, RefinesContract, Contract!Spec

=============================================================================
