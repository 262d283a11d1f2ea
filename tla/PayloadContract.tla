-------------------------- MODULE PayloadContract --------------------------
(***************************************************************************)
(* What a sequencer's block building promises to the consensus client,     *)
(* without queues, goroutines or timers.  A payload is opened with a block *)
(* that the chain's own rules accept on top of a known block, is improved  *)
(* while nobody has been given it, and is delivered as one block: every    *)
(* later delivery is the same block.  The chain grows by delivered blocks  *)
(* only.                                                                   *)
(***************************************************************************)
EXTENDS HeaderRules, Sequences

CONSTANTS Pids,      \* payloads
          NoBlock    \* no block offered yet

Envelope == [header : Header, fees : Nat]

VARIABLES chain,      \* headers of the chain, genesis first
          offer,      \* the block a payload would be delivered as
          delivered   \* the blocks a payload has been delivered as

vars == <<chain, offer, delivered>>

Init ==
  /\ chain \in Seq(Header) /\ Len(chain) = 1
  /\ offer = [i \in Pids |-> NoBlock]
  /\ delivered = [i \in Pids |-> {}]

\* b is what payload i offers after the step.
Offers(i, b) ==
  /\ b \in Envelope
  /\ offer' = [offer EXCEPT ![i] = b]
  /\ UNCHANGED <<chain, delivered>>

Open(i, b) ==
  /\ offer[i] = NoBlock
  /\ Offers(i, b)
  /\ b.fees = 0
  /\ \E n \in DOMAIN chain : verifyHeader(chain[n], b.header)

\* A better block for the same payload differs in its transactions only:
\* their gas and their fees.
Improve(i, b) ==
  /\ offer[i] # NoBlock /\ delivered[i] = {}
  /\ Offers(i, b)
  /\ b.fees >= offer[i].fees
  /\ b.header.gasUsed <= b.header.gasLimit
  /\ b.header = [offer[i].header EXCEPT !.gasUsed = b.header.gasUsed]

Deliver(i) ==
  /\ offer[i] # NoBlock
  /\ delivered' = [delivered EXCEPT ![i] = {offer[i]}]
  /\ UNCHANGED <<chain, offer>>

Extend(i, b) ==
  /\ b \in delivered[i]
  /\ verifyHeader(chain[Len(chain)], b.header)
  /\ chain' = Append(chain, b.header)
  /\ UNCHANGED <<offer, delivered>>

Next ==
  \E i \in Pids :
    \/ Open(i, offer'[i])
    \/ Improve(i, offer'[i])
    \/ Deliver(i)
    \/ \E b \in delivered[i] : Extend(i, b)

Spec == Init /\ [][Next]_vars

=============================================================================
