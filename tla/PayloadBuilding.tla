-------------------------- MODULE PayloadBuilding --------------------------
(***************************************************************************)
(* Block building for the consensus client: the payload part of            *)
(* forkchoiceUpdated, getPayload (eth/catalyst/api.go), the queue of       *)
(* payloads (catalyst/queue.go), and the Payload object with the goroutine *)
(* that keeps improving it (miner/payload_building.go).                    *)
(*                                                                         *)
(* A payload's id is a hash of its arguments, so the arguments stand for   *)
(* it.  The goroutine's select, the block it builds outside the payload's  *)
(* lock and the update under the lock are separate steps, so a delivery or *)
(* a timeout can come between any two of them.  The pool's content when a  *)
(* block is built is any gas and fees that fit into the block.             *)
(***************************************************************************)
EXTENDS HeaderRules, Sequences, FiniteSets

CONSTANTS
  MaxPayloads,          \* bound: payload objects ever built
  MaxHeight,            \* bound: blocks of the chain, genesis included
  MaxFees,              \* bound: fees of a block
  MaxTrackedPayloads,   \* maxTrackedPayloads, 10 in the code
  GasLimits,            \* gas limits the attributes may ask for
  ForcedGas,            \* gas of the forced transactions of the attributes
  PoolGas,              \* gas the pool's transactions may add
  Genesis,              \* header of the first block
  NoPayload, NoBlock

ASSUME PayloadAssumption ==
  /\ MaxPayloads \in Nat /\ MaxHeight \in Nat /\ MaxFees \in Nat
  /\ MaxTrackedPayloads \in Nat \ {0}
  /\ GasLimits \subseteq Nat /\ ForcedGas \subseteq Nat /\ PoolGas \subseteq Nat
  /\ Genesis \in Header
\* A gas target of zero would be divided by.
ASSUME TargetAssumption ==
  /\ GasTarget(Genesis) > 0
  /\ \A l \in GasLimits : l \div ElasticityMultiplier > 0

Pids == 1..MaxPayloads
Envelope == [header : Header, fees : Nat]

\* BuildPayloadArgs; parent is the position of the parent block in the chain.
Args == [parent : Nat \ {0}, timestamp : Nat, noTxPool : BOOLEAN,
         forcedGas : Nat, gasLimit : Nat]

VARIABLES
  chain,      \* headers of the chain, genesis first
  count,      \* payload objects built so far
  payload,    \* Payload objects: args, empty, full and stop
  builder,    \* where a payload's goroutine is
  candidate,  \* the block it has built and not yet handed to update
  queue,      \* payloadQueue: payloads, the latest first
  delivered   \* the envelopes Resolve has returned for a payload

vars == <<chain, count, payload, builder, candidate, queue, delivered>>

Payload == [args : Args, empty : Envelope, full : Envelope \cup {NoBlock},
            stop : BOOLEAN]

ASSUME NoneAssumption == NoBlock \notin Envelope /\ NoPayload \notin Payload

BuilderStates == {"none", "select", "update", "done"}

TypeOK ==
  /\ chain \in Seq(Header) /\ Len(chain) >= 1
  /\ count \in 0..MaxPayloads
  /\ payload \in [Pids -> Payload \cup {NoPayload}]
  /\ builder \in [Pids -> BuilderStates]
  /\ candidate \in [Pids -> Envelope \cup {NoBlock}]
  /\ queue \in Seq(Pids) /\ Len(queue) <= MaxTrackedPayloads
  /\ delivered \in [Pids -> SUBSET Envelope]

Init ==
  /\ chain = <<Genesis>>
  /\ count = 0
  /\ payload = [i \in Pids |-> NoPayload]
  /\ builder = [i \in Pids |-> "none"]
  /\ candidate = [i \in Pids |-> NoBlock]
  /\ queue = <<>>
  /\ delivered = [i \in Pids |-> {}]

----------------------------------------------------------------------------
\* The blocks of generateWork.  The forced transactions come first and must
\* fit; the pool's transactions fill what is left, if they are asked for.

WorkOK(a) ==
  /\ a.parent \in DOMAIN chain
  /\ PrepareOK(chain[a.parent], a.timestamp)
  /\ a.forcedGas <= a.gasLimit

Sealed(a, gasUsed) ==
  [prepareWork(chain[a.parent], a.timestamp, a.gasLimit) EXCEPT !.gasUsed = gasUsed]

EmptyBlock(a) == [header |-> Sealed(a, a.forcedGas), fees |-> 0]

\* The forced transactions pay no fees, those of the pool may.
FullBlocks(a) ==
  {EmptyBlock(a)} \cup
  {[header |-> Sealed(a, g), fees |-> f] :
     g \in {h \in {a.forcedGas + p : p \in PoolGas} : h <= a.gasLimit}, f \in 0..MaxFees}

\* The block Resolve returns.
Current(p) == IF p.full # NoBlock THEN p.full ELSE p.empty

----------------------------------------------------------------------------
\* payloadQueue

\* put shifts the items by one and drops the last of a full queue.
putUnbounded(q, i) == <<i>> \o q                               \* mutant
put(q, i) ==
  <<i>> \o (IF Len(q) < MaxTrackedPayloads THEN q
            ELSE SubSeq(q, 1, MaxTrackedPayloads - 1))

hasNever(q, a) == FALSE                                       \* mutant
has(q, a) == \E k \in DOMAIN q : payload[q[k]].args = a

\* i is the item get returns for its id: the first one that has it.
Finds(q, i) ==
  \E k \in DOMAIN q :
    /\ q[k] = i
    /\ \A j \in 1..(k - 1) : payload[q[j]].args # payload[i].args

----------------------------------------------------------------------------
\* The payload part of forkchoiceUpdated.  An id that is tracked is answered
\* without a change, and attributes that cannot be built are refused without
\* one.  forkchoiceLock is held throughout.
BuildPayload(a) ==
  LET i == count + 1 IN
  /\ count < MaxPayloads
  /\ ~has(queue, a)
  /\ WorkOK(a)
  /\ count' = i
  /\ payload' = [payload EXCEPT ![i] =
       [args |-> a, empty |-> EmptyBlock(a), full |-> NoBlock, stop |-> FALSE]]
  /\ builder' = [builder EXCEPT ![i] = IF a.noTxPool THEN "done" ELSE "select"]
  /\ queue' = put(queue, i)
  /\ UNCHANGED <<chain, candidate, delivered>>

\* The timer fires: a block is built from what the pool holds now.  A block
\* that cannot be built leaves the goroutine where it was.
BuildFull(i) ==
  /\ builder[i] = "select"
  /\ \E b \in FullBlocks(payload[i].args) :
       candidate' = [candidate EXCEPT ![i] = b]
  /\ builder' = [builder EXCEPT ![i] = "update"]
  /\ UNCHANGED <<chain, count, payload, queue, delivered>>

\* update: what it does to the payload.
UpdatedIgnoringStop(p, b) ==                                  \* mutant
  IF p.full = NoBlock \/ b.fees > p.full.fees
  THEN [p EXCEPT !.full = b] ELSE p
Updated(p, b) ==
  IF ~p.stop /\ (p.full = NoBlock \/ b.fees > p.full.fees)
  THEN [p EXCEPT !.full = b] ELSE p

Update(i) ==
  /\ builder[i] = "update"
  /\ payload' = [payload EXCEPT ![i] = Updated(@, candidate[i])]
  /\ builder' = [builder EXCEPT ![i] = "select"]
  /\ candidate' = [candidate EXCEPT ![i] = NoBlock]
  /\ UNCHANGED <<chain, count, queue, delivered>>

\* The goroutine ends: the payload has been delivered, or the endTimer, which
\* runs from the start, has fired.
StopOnDelivery(i) ==                                          \* mutant
  /\ builder[i] = "select"
  /\ payload[i].stop
  /\ builder' = [builder EXCEPT ![i] = "done"]
  /\ UNCHANGED <<chain, count, payload, candidate, queue, delivered>>
StopBuilder(i) ==
  /\ builder[i] = "select"
  /\ builder' = [builder EXCEPT ![i] = "done"]
  /\ UNCHANGED <<chain, count, payload, candidate, queue, delivered>>

\* getPayload: Resolve stops the work and returns the current block.
GetPayload(i) ==
  /\ Finds(queue, i)
  /\ payload' = [payload EXCEPT ![i].stop = TRUE]
  /\ delivered' = [delivered EXCEPT ![i] = @ \cup {Current(payload[i])}]
  /\ UNCHANGED <<chain, count, builder, candidate, queue>>

\* The consensus client returns a delivered block with newPayload and makes
\* it the head; the node verifies the header against its parent.
Import(i, b) ==
  /\ Len(chain) < MaxHeight
  /\ payload[i].args.parent = Len(chain)
  /\ verifyHeader(chain[Len(chain)], b.header)
  /\ chain' = Append(chain, b.header)
  /\ UNCHANGED <<count, payload, builder, candidate, queue, delivered>>

\* The attributes the consensus client sends.
Requests ==
  {[parent |-> n, timestamp |-> chain[n].time + d, noTxPool |-> t,
    forcedGas |-> g, gasLimit |-> l] :
     n \in 1..Len(chain), d \in 0..1, t \in BOOLEAN, g \in ForcedGas, l \in GasLimits}

Next ==
  \/ \E a \in Requests : BuildPayload(a)
  \/ \E i \in Pids :
       \/ BuildFull(i)
       \/ Update(i)
       \/ StopBuilder(i)
       \/ GetPayload(i)
       \/ \E b \in delivered[i] : Import(i, b)

Spec == Init /\ [][Next]_vars

\* The goroutine runs.  Its endTimer fires and then stays ready, and select,
\* which chooses at random among what is ready, does not for ever pass it by.
Fairness ==
  \A i \in Pids : WF_vars(Update(i)) /\ SF_vars(StopBuilder(i))

FairSpec == Spec /\ Fairness

----------------------------------------------------------------------------
\* Properties

\* The refinement mapping: the block a payload would be delivered as now.
Offered ==
  [i \in Pids |-> IF payload[i] = NoPayload THEN NoBlock ELSE Current(payload[i])]

\* The block building of the code does what its contract says: blocks that
\* verify, fees that only rise, and one block per delivered payload, however
\* late update comes after Resolve (payload_building.go:104-143).
Contract == INSTANCE PayloadContract WITH offer <- Offered

RefinesContract == Contract!Spec

\* A payload is found under its id until MaxTrackedPayloads newer ones have
\* been started (queue.go:61-86): neither an item pushed out early nor a
\* second payload with the same id hides it.
PayloadKept ==
  \A i \in 1..count : count - i < MaxTrackedPayloads => Finds(queue, i)

\* The inductive invariant behind RefinesContract and PayloadKept.  The queue
\* holds the latest payloads under different ids; a payload's blocks are
\* blocks of its arguments on its parent; it has been delivered only if it
\* is stopped, and then as its current block.
QueueInv ==
  /\ Len(queue) = IF count < MaxTrackedPayloads THEN count ELSE MaxTrackedPayloads
  /\ \A k \in 1..Len(queue) : queue[k] = count + 1 - k
  /\ \A j, k \in 1..Len(queue) :
       j # k => payload[queue[j]].args # payload[queue[k]].args

ChainInv == \A n \in 1..Len(chain) : GasTarget(chain[n]) > 0

Built(i) ==
  LET p == payload[i] IN
  /\ p \in Payload
  /\ WorkOK(p.args) /\ p.args.gasLimit \in GasLimits
  /\ p.empty = EmptyBlock(p.args)
  /\ p.full # NoBlock => p.full \in FullBlocks(p.args)
  /\ builder[i] = "update" => candidate[i] \in FullBlocks(p.args)
  /\ delivered[i] \subseteq {Current(p)}
  /\ delivered[i] # {} => p.stop

PayloadInv ==
  \A i \in Pids :
    IF i <= count THEN Built(i)
    ELSE payload[i] = NoPayload /\ builder[i] = "none" /\ delivered[i] = {}

Inv == TypeOK /\ QueueInv /\ ChainInv /\ PayloadInv

\* The base fee of a new block rises after a block above its gas target,
\* even from zero, never rises after one below it, and stays at the target
\* (eip1559.go:57-95).
BaseFeeStep ==
  LET parent == chain[Len(chain)]
      fee    == chain'[Len(chain')].baseFee
  IN  chain' # chain =>
        /\ parent.gasUsed > GasTarget(parent) => fee > parent.baseFee
        /\ parent.gasUsed < GasTarget(parent) => fee <= parent.baseFee
        /\ parent.gasUsed = GasTarget(parent) => fee = parent.baseFee

BaseFeeMoves == [][BaseFeeStep]_vars

\* The goroutine of every payload ends, whether the payload is delivered,
\* pushed out of the queue or forgotten (payload_building.go:195-216).
BuilderEnds ==
  \A i \in Pids : builder[i] = "select" ~> builder[i] = "done"

=============================================================================
