------------------------------- MODULE TxPool -------------------------------
(***************************************************************************)
(* The transaction pool (core/txpool): what is executable and what waits   *)
(* for a lower nonce, the limits, the accounts that are exempt from them,  *)
(* the journal that carries their transactions over a restart, and the     *)
(* runs of runReorg that follow new heads.                                 *)
(*                                                                         *)
(* The lock pool.mu makes every action atomic.  Requests come in while a   *)
(* run waits for the lock, and are merged by scheduleReorgLoop.  A         *)
(* transaction is a sender, a nonce and a price; prices are at least       *)
(* PriceBump apart, and every transaction takes one slot.  A head is the   *)
(* sequence of transactions its chain includes, one to a block, and        *)
(* whether the balances cover more than the lowest price.                  *)
(***************************************************************************)
EXTENDS Naturals, Sequences, FiniteSetsExt

CONSTANTS
  Accounts,
  Txs,
  Own,                        \* the accounts whose owners submit here
  Mined,                      \* the transactions blocks may include
  GlobalSlots, GlobalQueue,   \* Config: the limits of all
  AccountSlots, AccountQueue, \* Config: the limits of an account
  ReinjectDepth,              \* 64 in the code
  MaxTurns,                   \* bound on reorganisations
  None

ASSUME PoolAssumption ==
  /\ Txs \subseteq [from: Accounts, nonce: Nat, price: Nat \ {0}]
  /\ IsFiniteSet(Txs)         \* nonces have 64 bits, prices 256
  /\ Own \subseteq Accounts /\ Mined \subseteq Txs
  /\ {GlobalSlots, GlobalQueue, AccountSlots, AccountQueue} \subseteq Nat \ {0}

\* A header, txpoolResetRequest, and what runReorg is given; None is nil.
Heads == [txs: Seq(Txs), poor: BOOLEAN]
Resets == [old: Heads, new: Heads]
Runs == [reset: {None} \cup Resets, dirty: SUBSET Accounts]

ASSUME NoneAssumption == None \notin Resets \cup Runs

VARIABLES
  pool,       \* struct TxPool
  chain,      \* the head of the chain
  request,    \* scheduleReorgLoop: reset, dirtyAccounts, launchNextRun
  run,        \* the run that waits for the lock
  turns

vars == <<pool, chain, request, run, turns>>

Prices == {t.price : t \in Txs}
Sent(S, a) == {t \in S : t.from = a}
Nonces(S) == {t.nonce : t \in S}

GetNonce(h, a) == Cardinality({i \in DOMAIN h.txs : h.txs[i].from = a})
Pays(h, t) == h.poor => t.price = Min(Prices)

Genesis == [txs |-> <<>>, poor |-> FALSE]
NoRequest == [reset |-> None, dirty |-> {}, launch |-> FALSE]

\* NewTxPool, before the journal is loaded.
EmptyPool(h, journal) ==
  [pending |-> [a \in Accounts |-> {}], queue |-> [a \in Accounts |-> {}],
   known |-> {}, remotes |-> {}, locals |-> {},
   nonces |-> [a \in Accounts |-> GetNonce(h, a)],
   changes |-> 0, gasPrice |-> Min(Prices), head |-> h, journal |-> journal]

Init ==
  /\ pool = EmptyPool(Genesis, {})
  /\ chain = Genesis
  /\ request = NoRequest /\ run = None
  /\ turns = 0

----------------------------------------------------------------------------
(* The lists of an account.                                                *)

\* list.Add: for a nonce the higher price stays.
Best(S) == {t \in S : \A u \in S : u.nonce = t.nonce => u.price <= t.price}

\* list.Cap: the n lowest nonces stay.
Cap(S, n) == {t \in S : Cardinality({u \in S : u.nonce < t.nonce}) < n}

\* list.Ready: the lowest nonces in a row, if they start no later than n.
Ready(S, n) ==
  {t \in S : /\ \E u \in S : u.nonce <= n
             /\ \A k \in Min(Nonces(S))..t.nonce : k \in Nonces(S)}

\* lookup.Remove.
Forget(p, D) == [p EXCEPT !.known = @ \ D, !.remotes = @ \ D]

\* enqueueTx for the transactions D.  One that is not better than what the
\* queue has for its nonce is not inserted; if it was known it stays known.
enqueueTx(p, D) ==
  LET queue == [a \in Accounts |-> Best(p.queue[a] \cup Sent(D, a))] IN
  Forget([p EXCEPT !.queue = queue],
         UNION {p.queue[a] \ queue[a] : a \in Accounts})

\* removeTx for the transactions D, in any order.  Lists remove by nonce; what
\* follows in pending goes back to the queue.
removeTx(p, D) ==
  LET hit(a)  == {t \in p.pending[a] : t.nonce \in Nonces(Sent(D, a))}
      rest(a) == {t \in p.pending[a] : \A u \in hit(a) : t.nonce < u.nonce}
      late(a) == Nonces(Sent(D, a)) \ Nonces(hit(a))
  IN  enqueueTx(
        Forget([p EXCEPT
                  !.pending = [a \in Accounts |-> rest(a)],
                  !.queue = [a \in Accounts |-> {t \in @[a] : t.nonce \notin late(a)}],
                  !.nonces = [a \in Accounts |-> Min({@[a]} \cup Nonces(hit(a)))]], D),
        UNION {p.pending[a] \ (rest(a) \cup hit(a)) : a \in Accounts})

----------------------------------------------------------------------------
(* add: the pools it may leave.                                            *)

validateTx(p, t, isLocal) ==
  /\ isLocal \/ t.price >= p.gasPrice
  /\ t.nonce >= GetNonce(p.head, t.from)
  /\ Pays(p.head, t)

\* By how much one more transaction would be over the limits.
Overflow(p) ==
  LET limit == GlobalSlots + GlobalQueue
      slots == Cardinality(p.known) + 1
  IN  IF slots > limit THEN slots - limit ELSE 0

Underpriced(p, t) == p.remotes # {} /\ \A r \in p.remotes : t.price <= r.price

\* Discard takes remote transactions from one of two heaps, which may hold one
\* of them twice: any remote may be among them.
Discards(p, isLocal) ==
  IF ~isLocal /\ Cardinality(p.remotes) < Overflow(p) THEN {}
  ELSE {D \in SUBSET p.remotes : /\ Cardinality(D) <= Overflow(p)
                                 /\ p.remotes # {} => D # {}}

makeRoom(p, t, isLocal) ==
  IF Overflow(p) = 0 THEN {p}
  ELSE IF (~isLocal /\ Underpriced(p, t)) \/ p.changes > GlobalSlots \div 4 THEN {}
  ELSE {removeTx([p EXCEPT !.changes = @ + Cardinality(D)], D) :
          D \in Discards(p, isLocal)}

journalTx(p, t) == IF t.from \in p.locals THEN [p EXCEPT !.journal = @ \cup {t}] ELSE p

\* lookup.Add.
Known(p, t, isLocal) ==
  [p EXCEPT !.known = @ \cup {t}, !.remotes = IF isLocal THEN @ ELSE @ \cup {t}]

\* A pending transaction of the same nonce is replaced.  The sender does not
\* become local.
replaceKeepsOld(p, t, isLocal) ==                               \* mutant
  LET list == Best(p.pending[t.from] \cup {t}) IN
  IF t \notin list THEN p
  ELSE journalTx(Known([p EXCEPT !.pending[t.from] = list], t, isLocal), t)
replace(p, t, isLocal) ==
  LET list == Best(p.pending[t.from] \cup {t}) IN
  IF t \notin list THEN p
  ELSE journalTx(Known(Forget([p EXCEPT !.pending[t.from] = list],
                              p.pending[t.from] \ list), t, isLocal), t)

\* Otherwise the transaction goes to the queue.  The first one of AddLocal
\* makes the sender local, and what it has sent before.
enqueueJournalsFirst(p, t, isLocal, local) ==                   \* mutant
  LET q == journalTx(Known(enqueueTx(p, {t}), t, isLocal), t) IN
  IF t \notin enqueueTx(p, {t}).queue[t.from] THEN p
  ELSE IF local THEN [q EXCEPT !.locals = @ \cup {t.from}, !.remotes = @ \ Sent(@, t.from)]
  ELSE q
enqueue(p, t, isLocal, local) ==
  LET q      == Known(enqueueTx(p, {t}), t, isLocal)
      marked == [q EXCEPT !.locals = @ \cup {t.from},
                          !.remotes = @ \ Sent(@, t.from)]
  IN  IF t \notin enqueueTx(p, {t}).queue[t.from] THEN p
      ELSE journalTx(IF local THEN marked ELSE q, t)

IsLocal(p, t, local) == local \/ t.from \in p.locals

\* The pools with room for a valid transaction; none if it is refused.
rooms(p, t, local) ==
  IF t \in p.known \/ ~validateTx(p, t, IsLocal(p, t, local)) THEN {}
  ELSE makeRoom(p, t, IsLocal(p, t, local))

insert(p, t, local) ==
  IF t.nonce \in Nonces(p.pending[t.from]) THEN replace(p, t, IsLocal(p, t, local))
  ELSE enqueue(p, t, IsLocal(p, t, local), local)

add(p, t, local) ==
  IF rooms(p, t, local) = {} THEN {p} ELSE {insert(q, t, local) : q \in rooms(p, t, local)}

----------------------------------------------------------------------------
(* runReorg: the pools a run may leave.                                    *)

\* The blocks a reorganisation leaves that are looked at, by their number.
Discarded(old, new) ==
  IF \/ Len(old.txs) > Len(new.txs) + ReinjectDepth
     \/ Len(new.txs) > Len(old.txs) + ReinjectDepth THEN {}
  ELSE DOMAIN old.txs

\* The state is that of the new head, with its nonces, and what the chain has
\* lost is added again, the newest first.
Reinject(P, t, new) ==
  IF t \in Range(new.txs) THEN P ELSE UNION {add(q, t, FALSE) : q \in P}

reset(p, old, new) ==
  MapThenFoldSet(LAMBDA t, P : Reinject(P, t, new),
                 {[p EXCEPT !.head = new,
                            !.nonces = [a \in Accounts |-> GetNonce(new, a)]]},
                 LAMBDA i : old.txs[i], Min, Discarded(old, new))

\* For the accounts A: nonces used and prices not to be paid leave the queue,
\* what is ready leaves it for pending, and the rest is cut to AccountQueue.
promoteExecutables(p, A) ==
  LET valid(a) == {t \in p.queue[a] : t.nonce >= GetNonce(p.head, a) /\ Pays(p.head, t)}
      ready(a) == Ready(valid(a), p.nonces[a])
      list(a)  == Best(p.pending[a] \cup ready(a))
      rest(a)  == valid(a) \ ready(a)
      kept(a)  == IF a \in p.locals THEN rest(a) ELSE Cap(rest(a), AccountQueue)
  IN  Forget([p EXCEPT
                !.pending = [a \in Accounts |-> IF a \in A THEN list(a) ELSE @[a]],
                !.queue = [a \in Accounts |-> IF a \in A THEN kept(a) ELSE @[a]],
                !.nonces = [a \in Accounts |->
                              IF a \in A /\ ready(a) \cap list(a) # {}
                              THEN Max(Nonces(ready(a) \cap list(a))) + 1 ELSE @[a]]],
             UNION {(p.queue[a] \ valid(a)) \cup ((p.pending[a] \cup ready(a)) \ list(a))
                      \cup (rest(a) \ kept(a)) : a \in A})

\* Nonces used and prices not to be paid leave pending; what follows them, or
\* follows a gap in front, goes back to the queue.
demoteUnexecutables(p) ==
  LET rest(a)  == {t \in p.pending[a] : t.nonce >= GetNonce(p.head, a)}
      drops(a) == {t \in rest(a) : ~Pays(p.head, t)}
      stay(a)  == {t \in rest(a) : \A d \in drops(a) : t.nonce < d.nonce}
      kept(a)  == IF GetNonce(p.head, a) \in Nonces(stay(a)) THEN stay(a) ELSE {}
  IN  enqueueTx(
        Forget([p EXCEPT !.pending = [a \in Accounts |-> kept(a)]],
               UNION {(p.pending[a] \ rest(a)) \cup drops(a) : a \in Accounts}),
        UNION {rest(a) \ (drops(a) \cup kept(a)) : a \in Accounts})

\* The next nonce of every account, from what is pending.
setAllSkipped(p) == p                                           \* mutant
setAll(p) ==
  [p EXCEPT !.nonces = [a \in Accounts |-> IF p.pending[a] = {} THEN GetNonce(p.head, a)
                                           ELSE Max(Nonces(p.pending[a])) + 1]]

All(lists) == UNION {lists[a] : a \in Accounts}

\* Over GlobalSlots, the longest lists that are not local are cut together,
\* one by one, but not below AccountSlots.
truncatePending(p) ==
  LET len(a) == Cardinality(p.pending[a])
      spam   == {a \in Accounts \ p.locals : len(a) > AccountSlots}
      cut(n) == [a \in Accounts |-> IF a \in spam THEN Cap(p.pending[a], n)
                                    ELSE p.pending[a]]
      levels == AccountSlots..Max({AccountSlots} \cup {len(a) : a \in spam})
      fits   == {n \in levels : Cardinality(All(cut(n))) <= GlobalSlots}
      lists  == cut(IF fits = {} THEN AccountSlots ELSE Max(fits))
      gone(a) == p.pending[a] \ lists[a]
  IN  Forget([p EXCEPT !.pending = lists,
                       !.nonces = [a \in Accounts |-> Min({@[a]} \cup Nonces(gone(a)))]],
             UNION {gone(a) : a \in Accounts})

\* Over GlobalQueue, the queues that are not local are dropped, the one with
\* the oldest heartbeat first (any), the last one from its highest nonce down.
truncateQueue(p) ==
  LET queued == Cardinality(All(p.queue))
      excess == IF queued > GlobalQueue THEN queued - GlobalQueue ELSE 0
      free   == UNION {p.queue[a] : a \in Accounts \ p.locals}
      part(D) == {a \in Accounts : Sent(D, a) \notin {{}, p.queue[a]}}
  IN  {removeTx(p, D) :
         D \in {S \in SUBSET free :
                  /\ Cardinality(S) = Min({excess, Cardinality(free)})
                  /\ Cardinality(part(S)) <= 1
                  /\ \A s \in S : \A t \in p.queue[s.from] \ S : t.nonce < s.nonce}}

\* A reset promotes every account, another run those with new transactions.
promoteDirty(r) == r.dirty                                      \* mutant
promoteAddrs(r) == IF r.reset = None THEN r.dirty ELSE Accounts

runReorg(p, r) ==
  LET fresh    == IF r.reset = None THEN {p} ELSE reset(p, r.reset.old, r.reset.new)
      promoted == {promoteExecutables(q, promoteAddrs(r)) : q \in fresh}
      valid    == IF r.reset = None THEN promoted
                  ELSE {setAll(q) : q \in {demoteUnexecutables(m) : m \in promoted}}
      cut      == {truncatePending(q) : q \in valid}
  IN  {[q EXCEPT !.changes = 0] : q \in UNION {truncateQueue(m) : m \in cut}}

----------------------------------------------------------------------------
(* The steps of the pool and of what surrounds it.                         *)

\* A request to scheduleReorgLoop launches a run; a reset promotes every
\* account, whichever are dirty.
Asked(r) == [r EXCEPT !.launch = TRUE, !.dirty = IF r.reset = None THEN @ ELSE {}]

\* addTxs: AddLocals and AddRemotes, for one transaction, with the request to
\* promote its sender, unless it was refused or replaced another one.
addTxs(t, local) ==
  /\ t \notin pool.known
  /\ \/ /\ rooms(pool, t, local) = {}
        /\ request' = Asked(request)
        /\ UNCHANGED pool
     \/ \E p \in rooms(pool, t, local) :
          LET new == t.nonce \notin Nonces(p.pending[t.from] \cup p.queue[t.from]) IN
          /\ pool' = insert(p, t, local)
          /\ request' = Asked([request EXCEPT !.dirty = IF new THEN @ \cup {t.from} ELSE @])
  /\ UNCHANGED <<chain, run, turns>>

AddLocal == \E t \in Txs : t.from \in Own /\ addTxs(t, TRUE)
AddRemote == \E t \in Txs : addTxs(t, FALSE)

\* SetGasPrice: a higher price drops remote transactions below it.
SetGasPrice(price) ==
  /\ price # pool.gasPrice
  /\ pool' = [removeTx(pool, {t \in pool.remotes : price > pool.gasPrice /\ t.price < price})
               EXCEPT !.gasPrice = price]
  /\ UNCHANGED <<chain, request, run, turns>>

\* The eviction ticker: a queue that is not local is past its Lifetime.
Evict(a) ==
  /\ a \notin pool.locals /\ pool.queue[a] # {}
  /\ pool' = removeTx(pool, pool.queue[a])
  /\ UNCHANGED <<chain, request, run, turns>>

local(p) == UNION {p.pending[a] \cup p.queue[a] : a \in p.locals}

\* The journal ticker: rotate.
Rotate ==
  /\ pool' = [pool EXCEPT !.journal = local(pool)]
  /\ UNCHANGED <<chain, request, run, turns>>

\* scheduleReorgLoop starts a run when none is active.
Launch ==
  /\ run = None /\ request.launch
  /\ run' = [reset |-> request.reset, dirty |-> request.dirty]
  /\ request' = NoRequest
  /\ UNCHANGED <<pool, chain, turns>>

RunReorg ==
  /\ run # None
  /\ pool' \in runReorg(pool, run)
  /\ run' = None
  /\ UNCHANGED <<chain, request, turns>>

\* The loop asks for a reset to the new head; a reset that waits only gets the
\* new head.
requestReset(h) ==
  /\ chain' = h
  /\ request' = Asked([request EXCEPT !.reset =
                         [old |-> IF @ = None THEN chain ELSE @.old, new |-> h]])
  /\ UNCHANGED <<pool, run>>

\* The chain grows by a block with a transaction that is next, from this pool
\* or from elsewhere; the deposits before it may pay for it.
Extend(t) ==
  /\ t.nonce = GetNonce(chain, t.from)
  /\ requestReset([chain EXCEPT !.txs = Append(@, t)])
  /\ UNCHANGED turns

\* The chain turns to a branch without its last blocks, or to another balance.
Turn ==
  /\ turns < MaxTurns
  /\ \E n \in 0..Len(chain.txs), poor \in BOOLEAN :
       LET h == [txs |-> SubSeq(chain.txs, 1, n), poor |-> poor] IN
       h # chain /\ requestReset(h)
  /\ turns' = turns + 1

\* The process ends and starts again at the head of the chain.  The journal is
\* loaded with AddLocals: for a nonce the highest price that is valid is left,
\* and its sender is local.  Then it is promoted and the journal rotated.
Restart ==
  LET empty  == EmptyPool(chain, pool.journal)
      loaded == {t \in pool.journal : validateTx(empty, t, TRUE)}
      best   == UNION {Best(Sent(loaded, a)) : a \in Accounts}
      full   == [empty EXCEPT !.queue = [a \in Accounts |-> Sent(best, a)], !.known = best,
                              !.locals = {t.from : t \in best}]
      ready  == promoteExecutables(full, full.locals)
  IN  /\ request' = NoRequest /\ run' = None
      /\ pool' = [ready EXCEPT !.journal = local(ready)]
      /\ UNCHANGED <<chain, turns>>

Next ==
  \/ AddLocal \/ AddRemote
  \/ \E price \in Prices : SetGasPrice(price)
  \/ \E a \in Accounts : Evict(a)
  \/ Rotate \/ Launch \/ RunReorg
  \/ \E t \in Mined : Extend(t)
  \/ Turn \/ Restart

Spec == Init /\ [][Next]_vars

\* Runs are launched, and end; the chain goes on including.
Fairness == WF_vars(Launch) /\ WF_run(run' = None) /\ WF_vars(\E t \in Mined : Extend(t))

FairSpec == Spec /\ Fairness

----------------------------------------------------------------------------
\* Every known transaction is in exactly one of pending and the queue, under a
\* nonce no other one of its sender has, and none of a local account is tracked
\* for eviction.
PoolInternals ==
  /\ pool.known = All(pool.pending) \cup All(pool.queue)
  /\ pool.remotes \subseteq pool.known
  /\ \A a \in Accounts :
       /\ pool.pending[a] \cap pool.queue[a] = {}
       /\ \A t, u \in pool.pending[a] \cup pool.queue[a] : t.nonce = u.nonce => t = u
       /\ pool.pending[a] \cup pool.queue[a] \subseteq Sent(Txs, a)
       /\ a \in pool.locals => Sent(pool.remotes, a) = {}

\* The step resets the pool and does not add again all that the chain has
\* lost: too deep, or refused.
Refuses(S) ==
  /\ run # None /\ run' = None /\ run.reset # None
  /\ \E t \in Range(run.reset.old.txs) \ Range(run.reset.new.txs) :
       t \in S /\ t.nonce \notin Nonces(Sent(pool'.known, t.from))

\* What is pending follows the nonce of the state without a gap, and the nonce
\* the pool gives out follows what is pending.  Only a reset that does not add
\* back what the chain has lost leaves it otherwise.
InLine(a) ==
  LET first == GetNonce(pool.head, a)
      next  == pool.nonces[a]
  IN  first <= next /\ Nonces(pool.pending[a]) = {n \in first..next : n < next}
PendingInLine ==
  [][\A a \in Accounts : InLine(a) /\ ~Refuses(Sent(Txs, a)) => InLine(a)']_vars

\* A transaction of a local account is dropped only when its nonce is used, it
\* cannot be paid, or a better one is there; not for its price, not to make
\* room, and not by a restart once it is in the journal, where every one that
\* comes while the account is local is put.
Settled(t) ==
  \/ t \in pool.known \/ t.nonce < GetNonce(pool.head, t.from) \/ ~Pays(pool.head, t)
  \/ \E u \in Sent(pool.known, t.from) : u.nonce = t.nonce /\ u.price > t.price
LocalsKept ==
  [][/\ \A t \in pool.known :
          t.from \in pool.locals /\ (t \notin pool.journal => ~Restart) => Settled(t)'
     /\ \A t \in pool'.known :
          t.from \in pool'.locals /\ (t \in pool.known => t \in pool.journal)
            => t \in pool'.journal]_vars

\* Queued transactions of an account whose lower nonces are all pending do not
\* stay there: they are promoted, by the request of their sender or at the
\* latest by the reset to a head that includes those before them.
Waiting(a) ==
  \E t \in pool.queue[a] : \A n \in GetNonce(pool.head, a)..t.nonce :
    n < t.nonce => n \in Nonces(pool.pending[a])
Promoted == \A a \in Accounts : Waiting(a) ~> ~Waiting(a)

=============================================================================
