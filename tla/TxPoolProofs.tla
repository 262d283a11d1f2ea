---------------------------- MODULE TxPoolProofs ----------------------------
(***************************************************************************)
(* The pool for any accounts, any finite set of transactions and any       *)
(* limits: its internal structures agree (PoolInternals), and no step      *)
(* loses what a local account has sent (LocalsKept).                       *)
(*                                                                         *)
(* PoolInternals is inductive with the types of the pool (Sound), but only *)
(* because of what each function does to all structures at once.  Three    *)
(* relations between pools say so:                                         *)
(*   Trimmed   the pool lost transactions that may go (removeTx,           *)
(*             promoteExecutables, demoteUnexecutables, truncatePending,   *)
(*             truncateQueue, makeRoom);                                   *)
(*   Inserted  the pool has one more, in the place of one that is not      *)
(*             better (the two branches of add);                           *)
(*   Follows   both, one after the other: what a run makes of the pool.    *)
(* Each keeps a pool Sound and loses no transaction of a local account.    *)
(* reset adds any number of transactions: the fold it is defined by is     *)
(* unrolled by induction on the set of blocks, as a smallest               *)
(* counterexample among its subsets (MinimalSubset).                       *)
(***************************************************************************)
EXTENDS TxPool, FiniteSetTheorems, TLAPS

Lists == [Accounts -> SUBSET Txs]
Both(p, a) == p.pending[a] \cup p.queue[a]

\* p has the fields of a pool.
Shape(p) ==
  /\ p = [pending |-> p.pending, queue |-> p.queue, known |-> p.known, remotes |-> p.remotes,
          locals |-> p.locals, nonces |-> p.nonces, changes |-> p.changes,
          gasPrice |-> p.gasPrice, head |-> p.head, journal |-> p.journal]
  /\ p.pending \in Lists /\ p.queue \in Lists
  /\ p.locals \subseteq Accounts /\ p.journal \subseteq Txs /\ p.head \in Heads

Unique(S) == \A t, u \in S : t.nonce = u.nonce => t = u

\* What PoolInternals says of the pool, of p.
Internals(p) ==
  /\ p.known = All(p.pending) \cup All(p.queue)
  /\ p.remotes \subseteq p.known
  /\ \A a \in Accounts :
       /\ p.pending[a] \cap p.queue[a] = {}
       /\ Unique(Both(p, a))
       /\ Both(p, a) \subseteq Sent(Txs, a)
       /\ a \in p.locals => Sent(p.remotes, a) = {}

Sound(p) == Shape(p) /\ Internals(p)

\* Types of a transaction's fields.
LEMMA TxType ==
  ASSUME NEW t \in Txs
  PROVE  t.from \in Accounts /\ t.nonce \in Nat /\ t.price \in Nat
  BY PoolAssumption

\* Nothing is replaced where no nonce is there twice.
LEMMA BestUnique ==
  ASSUME NEW S, S \subseteq Txs, Unique(S)
  PROVE  Best(S) = S
  BY TxType DEF Best, Unique

\* Best only removes.
LEMMA BestIn ==
  ASSUME NEW S, S \subseteq Txs
  PROVE  Best(S) \subseteq S
  BY DEF Best

\* Of an account's transactions Best leaves one for a nonce.
LEMMA BestOfOneAccount ==
  ASSUME NEW a, NEW S, S \subseteq Sent(Txs, a)
  PROVE  Unique(Best(S))
  <1> SUFFICES ASSUME NEW t \in Best(S), NEW u \in Best(S), t.nonce = u.nonce PROVE t = u
    BY DEF Unique
  <1>1. t \in Txs /\ u \in Txs /\ t.from = u.from
    BY DEF Best, Sent
  <1>2. t.price <= u.price /\ u.price <= t.price
    BY DEF Best
  <1>3. t.price = u.price
    BY <1>1, <1>2, TxType
  <1> QED BY <1>1, <1>3, PoolAssumption

\* lookup.Remove, field by field.
LEMMA ForgetFields ==
  ASSUME NEW p, Shape(p), NEW D, NEW q, q = Forget(p, D)
  PROVE  /\ Shape(q) /\ q.known = p.known \ D /\ q.remotes = p.remotes \ D
         /\ q.pending = p.pending /\ q.queue = p.queue /\ q.locals = p.locals
         /\ q.nonces = p.nonces /\ q.changes = p.changes /\ q.gasPrice = p.gasPrice
         /\ q.head = p.head /\ q.journal = p.journal
  BY Zenon DEF Shape, Forget

\* q is p without the transactions D, wherever the others are now.
Drops(p, q, D) ==
  /\ Shape(q)
  /\ q.known = p.known \ D /\ q.remotes = p.remotes \ D
  /\ q.locals = p.locals /\ q.head = p.head /\ q.journal = p.journal
  /\ \A a \in Accounts : Both(q, a) = Both(p, a) \ D /\ q.pending[a] \cap q.queue[a] = {}

\* A pool that only lost transactions is sound.
LEMMA DropsSound ==
  ASSUME NEW p, Sound(p), NEW q, NEW D, Drops(p, q, D)
  PROVE  Sound(q)
  <1>1. q.known = All(q.pending) \cup All(q.queue)
    <2>1. \A r : All(r.pending) \cup All(r.queue) = UNION {Both(r, a) : a \in Accounts}
      BY DEF All, Both
    <2>2. p.known = UNION {Both(p, a) : a \in Accounts}
      BY <2>1 DEF Sound, Internals
    <2>3. q.known = UNION {Both(q, a) : a \in Accounts}
      BY <2>2 DEF Drops
    <2> QED BY <2>1, <2>3
  <1>2. q.remotes \subseteq q.known
    BY DEF Drops, Sound, Internals
  <1>3. ASSUME NEW a \in Accounts
        PROVE  /\ q.pending[a] \cap q.queue[a] = {} /\ Unique(Both(q, a))
               /\ Both(q, a) \subseteq Sent(Txs, a)
               /\ a \in q.locals => Sent(q.remotes, a) = {}
    BY DEF Drops, Sound, Internals, Unique, Sent
  <1> QED BY Zenon, <1>1, <1>2, <1>3 DEF Sound, Internals, Drops

\* All but the lists, the nonces and what is known is the same.
SameRest(p, q) ==
  /\ Shape(q)
  /\ q.locals = p.locals /\ q.head = p.head /\ q.journal = p.journal /\ q.gasPrice = p.gasPrice

\* The lists and the nonces are set.
SetLists(p, P, Q, N) == [p EXCEPT !.pending = P, !.queue = Q, !.nonces = N]

\* Where the lists and the nonces are set, nothing else changes.
LEMMA ListsSet ==
  ASSUME NEW p, Shape(p), NEW P \in Lists, NEW Q \in Lists, NEW N, NEW q,
         q = SetLists(p, P, Q, N)
  PROVE  /\ Shape(q) /\ SameRest(p, q) /\ q.pending = P /\ q.queue = Q /\ q.nonces = N
         /\ q.known = p.known /\ q.remotes = p.remotes
  <1>1. PICK x1, x2, x3, x4, x5, x6, x7, x8, x9, x10 :
           p = [pending |-> x1, queue |-> x2, known |-> x3, remotes |-> x4,
                locals |-> x5, nonces |-> x6, changes |-> x7,
                gasPrice |-> x8, head |-> x9, journal |-> x10]
    BY DEF Shape
  <1>2. q = [pending |-> P, queue |-> Q, known |-> x3, remotes |-> x4,
             locals |-> x5, nonces |-> N, changes |-> x7,
             gasPrice |-> x8, head |-> x9, journal |-> x10]
    BY Zenon, <1>1 DEF SetLists
  <1> QED BY <1>1, <1>2 DEF Shape, SameRest

\* enqueueTx where nothing is replaced.
LEMMA EnqueueFresh ==
  ASSUME NEW p, Shape(p), NEW D, D \subseteq Txs, NEW q, q = enqueueTx(p, D),
         \A a \in Accounts : Unique(p.queue[a] \cup Sent(D, a))
  PROVE  /\ SameRest(p, q) /\ q.pending = p.pending
         /\ q.known = p.known /\ q.remotes = p.remotes /\ q.nonces = p.nonces
         /\ \A a \in Accounts : q.queue[a] = p.queue[a] \cup Sent(D, a)
  <1> DEFINE queue == [a \in Accounts |-> Best(p.queue[a] \cup Sent(D, a))]
             p1 == [p EXCEPT !.queue = queue]
             G == UNION {p.queue[a] \ queue[a] : a \in Accounts}
  <1>1. \A a \in Accounts : queue[a] = p.queue[a] \cup Sent(D, a)
    BY BestUnique DEF Shape, Lists, Sent
  <1>2. queue \in Lists
    BY <1>1 DEF Shape, Lists, Sent
  <1>3. G = {}
    BY Zenon, <1>1
  <1> HIDE DEF queue, G
  <1>4. /\ Shape(p1) /\ SameRest(p, p1) /\ p1.queue = queue /\ p1.pending = p.pending
        /\ p1.known = p.known /\ p1.remotes = p.remotes /\ p1.nonces = p.nonces
    BY <1>2 DEF Shape, SameRest
  <1>5. q = Forget(p1, G)
    BY DEF enqueueTx, queue, G
  <1> HIDE DEF p1
  <1>6. /\ Shape(q) /\ q.known = p1.known \ G /\ q.remotes = p1.remotes \ G
        /\ q.pending = p1.pending /\ q.queue = p1.queue /\ q.locals = p1.locals
        /\ q.nonces = p1.nonces /\ q.changes = p1.changes /\ q.gasPrice = p1.gasPrice
        /\ q.head = p1.head /\ q.journal = p1.journal
    BY <1>4, <1>5, ForgetFields
  <1>7. q.known = p.known /\ q.remotes = p.remotes
    BY <1>3, <1>4, <1>6
  <1>8. \A a \in Accounts : q.queue[a] = p.queue[a] \cup Sent(D, a)
    BY <1>1, <1>4, <1>6
  <1> QED BY <1>4, <1>6, <1>7, <1>8 DEF SameRest

\* A known transaction is in one of its sender's lists.
LEMMA KnownList ==
  ASSUME NEW p, Sound(p), NEW t \in p.known
  PROVE  t \in Txs /\ t.from \in Accounts /\ t \in Both(p, t.from)
  <1>1. PICK a \in Accounts : t \in Both(p, a)
    BY DEF Sound, Internals, All, Both
  <1>2. t \in Sent(Txs, a)
    BY <1>1 DEF Sound, Internals
  <1> QED BY <1>1, <1>2 DEF Sent

\* removeTx drops what it is given and nothing else.
LEMMA RemoveDrops ==
  ASSUME NEW p, Sound(p), NEW D, D \subseteq p.known
  PROVE  Drops(p, removeTx(p, D), D) /\ SameRest(p, removeTx(p, D))
  <1> DEFINE hit(a)  == {t \in p.pending[a] : t.nonce \in Nonces(Sent(D, a))}
             rest(a) == {t \in p.pending[a] : \A u \in hit(a) : t.nonce < u.nonce}
             late(a) == Nonces(Sent(D, a)) \ Nonces(hit(a))
             pending == [a \in Accounts |-> rest(a)]
             queue == [a \in Accounts |-> {t \in p.queue[a] : t.nonce \notin late(a)}]
             nonces == [a \in Accounts |-> Min({p.nonces[a]} \cup Nonces(hit(a)))]
             p1 == [p EXCEPT !.pending = pending, !.queue = queue, !.nonces = nonces]
             p2 == Forget(p1, D)
             M == UNION {p.pending[a] \ (rest(a) \cup hit(a)) : a \in Accounts}
             q == enqueueTx(p2, M)
  <1>1. removeTx(p, D) = q
    BY DEF removeTx
  <1>2. ASSUME NEW a \in Accounts
        PROVE  /\ Sent(D, a) \subseteq Both(p, a) /\ Unique(Both(p, a))
               /\ Both(p, a) \subseteq Sent(Txs, a) /\ p.pending[a] \cap p.queue[a] = {}
    BY KnownList DEF Sound, Internals, Sent
  <1>3. ASSUME NEW a \in Accounts
        PROVE  hit(a) = p.pending[a] \cap D
    <2>1. \A t \in p.pending[a] : t \in D => t \in Sent(D, a)
      BY Zenon, <1>2 DEF Both, Sent
    <2>2. \A t \in p.pending[a], d \in Sent(D, a) : t.nonce = d.nonce => t = d
      BY <1>2 DEF Both, Unique
    <2> QED BY <2>1, <2>2 DEF Nonces, Sent
  <1>4. ASSUME NEW a \in Accounts
        PROVE  queue[a] = p.queue[a] \ D
    <2>1. \A t \in p.queue[a] : t.nonce \in late(a) => t \in D
      BY <1>2 DEF Both, Unique, Nonces, Sent
    <2>2. \A t \in p.queue[a] : t \in D => t \in Sent(D, a)
      BY Zenon, <1>2 DEF Both, Sent
    <2>3. \A t \in p.queue[a], u \in hit(a) : t.nonce # u.nonce
      BY <1>2 DEF Both, Unique
    <2>4. \A t \in p.queue[a] : t \in D => t.nonce \in late(a)
      BY <2>2, <2>3 DEF Nonces
    <2> QED BY Zenon, <2>1, <2>4
  <1>5. ASSUME NEW a \in Accounts
        PROVE  /\ rest(a) \subseteq p.pending[a] \ D
               /\ Sent(M, a) = p.pending[a] \ (rest(a) \cup D)
    <2>1. \A t \in hit(a) : ~(t.nonce < t.nonce)
      <3>1. \A t \in hit(a) : t \in Txs
        BY Zenon, <1>2 DEF Both, Sent
      <3>2. \A n \in Nat : ~(n < n)
        OBVIOUS
      <3> QED BY <3>1, <3>2, TxType
    <2>2. rest(a) \cap hit(a) = {} /\ rest(a) \subseteq p.pending[a]
      BY <2>1
    <2>3. \A b \in Accounts : p.pending[b] \subseteq Sent(Txs, b)
      BY Zenon, <1>2 DEF Both
    <2> HIDE DEF hit, rest
    <2>4. Sent(M, a) = p.pending[a] \ (rest(a) \cup hit(a))
      BY <2>3 DEF Sent
    <2> QED BY <1>3, <2>2, <2>4
  <1>6. pending \in Lists /\ queue \in Lists
    BY DEF Sound, Shape, Lists
  <1> HIDE DEF pending, queue, nonces
  <1>7. /\ Shape(p1) /\ SameRest(p, p1) /\ p1.pending = pending /\ p1.queue = queue
        /\ p1.known = p.known /\ p1.remotes = p.remotes
    <2>1. Shape(p) /\ p1 = SetLists(p, pending, queue, nonces)
      BY DEF Sound, SetLists
    <2> HIDE DEF p1
    <2> QED BY <1>6, <2>1, ListsSet
  <1> HIDE DEF p1
  <1>8. /\ Shape(p2) /\ SameRest(p, p2) /\ p2.pending = pending /\ p2.queue = queue
        /\ p2.known = p.known \ D /\ p2.remotes = p.remotes \ D
    BY <1>7, ForgetFields DEF SameRest
  <1> HIDE DEF p2
  <1>9. M \subseteq Txs
    BY DEF Sound, Shape, Lists
  <1>10. \A a \in Accounts : pending[a] = rest(a)
    BY DEF pending
  <1> HIDE DEF M, hit, rest, late
  <1>11. \A a \in Accounts : Unique(p2.queue[a] \cup Sent(M, a))
    BY <1>2, <1>4, <1>5, <1>8 DEF Unique, Both
  <1>12. /\ SameRest(p2, q) /\ q.pending = pending
         /\ q.known = p.known \ D /\ q.remotes = p.remotes \ D
         /\ \A a \in Accounts : q.queue[a] = queue[a] \cup Sent(M, a)
    BY SMTT(30), <1>8, <1>9, <1>11, EnqueueFresh
  <1> HIDE DEF q
  <1>13. ASSUME NEW a \in Accounts
         PROVE  Both(q, a) = Both(p, a) \ D /\ q.pending[a] \cap q.queue[a] = {}
    <2>1. /\ q.pending[a] = rest(a) /\ rest(a) \subseteq p.pending[a] \ D
          /\ q.queue[a] = (p.queue[a] \ D) \cup (p.pending[a] \ (rest(a) \cup D))
          /\ p.pending[a] \cap p.queue[a] = {}
      BY <1>2, <1>4, <1>5, <1>10, <1>12
    <2> QED BY <2>1 DEF Both
  <1>14. Drops(p, q, D) /\ SameRest(p, q)
    BY <1>8, <1>12, <1>13 DEF Drops, SameRest
  <1> QED BY <1>1, <1>14

\* Transactions that may go: used up, not to be paid, or of no local account.
Expendable(p, t) ==
  \/ t.nonce < GetNonce(p.head, t.from) \/ ~Pays(p.head, t) \/ t.from \notin p.locals

\* q is p without some transactions that may go.
Trimmed(p, q) == \E D : Drops(p, q, D) /\ \A t \in D : Expendable(p, t)

\* Trimming keeps a pool sound ...
LEMMA TrimmedSound ==
  ASSUME NEW p, Sound(p), NEW q, Trimmed(p, q)
  PROVE  Sound(q)
  BY DropsSound DEF Trimmed

\* ... and may be repeated.
LEMMA TrimmedTwice ==
  ASSUME NEW p, NEW q, NEW r, Trimmed(p, q), Trimmed(q, r)
  PROVE  Trimmed(p, r)
  <1>1. PICK D : Drops(p, q, D) /\ \A t \in D : Expendable(p, t)
    BY DEF Trimmed
  <1>2. PICK E : Drops(q, r, E) /\ \A t \in E : Expendable(q, t)
    BY DEF Trimmed
  <1>3. \A t \in D \cup E : Expendable(p, t)
    BY <1>1, <1>2 DEF Expendable, Drops
  <1>4. Drops(p, r, D \cup E)
    BY <1>1, <1>2 DEF Drops
  <1> QED BY <1>3, <1>4 DEF Trimmed

\* A nonce of the state is a natural number.
LEMMA GetNonceType ==
  ASSUME NEW h \in Heads, NEW a
  PROVE  GetNonce(h, a) \in Nat
  <1>1. Len(h.txs) \in Nat /\ DOMAIN h.txs = 1..Len(h.txs)
    <2>1. h.txs \in Seq(Txs)
      BY DEF Heads
    <2> QED BY <2>1
  <1>2. IsFiniteSet(1..Len(h.txs))
    <2>1. Len(h.txs) \in Int /\ 1 \in Int
      BY <1>1
    <2> QED BY <2>1, FS_Interval
  <1>3. IsFiniteSet({i \in DOMAIN h.txs : h.txs[i].from = a})
    BY <1>1, <1>2, FS_Subset
  <1> QED BY <1>3, FS_CardinalityType DEF GetNonce

\* What g gives is in the account's lists, and all that D takes from b's is g[b].
Within(g, A, p) == \A a \in A : g[a] \subseteq Both(p, a)
Without(p, b, D, A, g) == Both(p, b) \ D = Both(p, b) \ (IF b \in A THEN g[b] ELSE {})

\* What is dropped of an account is what is dropped of its lists.
LEMMA Apart ==
  ASSUME NEW p, Sound(p), NEW A, A \subseteq Accounts, NEW g, Within(g, A, p),
         NEW b \in Accounts, NEW D, D = UNION {g[a] : a \in A}
  PROVE  Without(p, b, D, A, g)
  <1>1. \A a \in Accounts : Both(p, a) \subseteq Sent(Txs, a)
    BY DEF Sound, Internals
  <1>2. \A a \in A : g[a] \subseteq Both(p, a)
    BY Zenon DEF Within
  <1>3. \A a \in A : \A t \in g[a] : t \in Both(p, b) => a = b
    BY <1>1, <1>2 DEF Sent
  <1> QED BY <1>3 DEF Without

\* The lists are set to what is left without D.
LEMMA SetDrops ==
  ASSUME NEW p, Shape(p), NEW P \in Lists, NEW Q \in Lists, NEW N, NEW D, NEW q,
         q = Forget(SetLists(p, P, Q, N), D),
         \A a \in Accounts : P[a] \cup Q[a] = Both(p, a) \ D /\ P[a] \cap Q[a] = {}
  PROVE  Drops(p, q, D)
  <1>1. PICK r : r = SetLists(p, P, Q, N)
    OBVIOUS
  <1>2. /\ Shape(r) /\ SameRest(p, r) /\ r.pending = P /\ r.queue = Q /\ r.nonces = N
        /\ r.known = p.known /\ r.remotes = p.remotes
    BY <1>1, ListsSet
  <1>3. /\ Shape(q) /\ q.known = r.known \ D /\ q.remotes = r.remotes \ D
        /\ q.pending = r.pending /\ q.queue = r.queue /\ q.locals = r.locals
        /\ q.nonces = r.nonces /\ q.changes = r.changes /\ q.gasPrice = r.gasPrice
        /\ q.head = r.head /\ q.journal = r.journal
    BY <1>1, <1>2, ForgetFields
  <1>4. \A a \in Accounts : Both(q, a) = Both(p, a) \ D /\ q.pending[a] \cap q.queue[a] = {}
    BY Zenon, <1>2, <1>3 DEF Both
  <1> QED BY <1>2, <1>3, <1>4 DEF Drops, SameRest

----------------------------------------------------------------------------
(* The parts of a run that drop transactions.                              *)

\* promoteExecutables drops used nonces, prices that are not to be paid, and what
\* is over AccountQueue for accounts that are not local.
LEMMA PromoteTrims ==
  ASSUME NEW p, Sound(p), NEW A, A \subseteq Accounts
  PROVE  Trimmed(p, promoteExecutables(p, A))
  <1> DEFINE valid(a) == {t \in p.queue[a] : t.nonce >= GetNonce(p.head, a) /\ Pays(p.head, t)}
             ready(a) == Ready(valid(a), p.nonces[a])
             list(a)  == Best(p.pending[a] \cup ready(a))
             rest(a)  == valid(a) \ ready(a)
             kept(a)  == IF a \in p.locals THEN rest(a) ELSE Cap(rest(a), AccountQueue)
             P == [a \in Accounts |-> IF a \in A THEN list(a) ELSE p.pending[a]]
             Q == [a \in Accounts |-> IF a \in A THEN kept(a) ELSE p.queue[a]]
             N == [a \in Accounts |-> IF a \in A /\ ready(a) \cap list(a) # {}
                                      THEN Max(Nonces(ready(a) \cap list(a))) + 1 ELSE p.nonces[a]]
             G(a) == (p.queue[a] \ valid(a)) \cup ((p.pending[a] \cup ready(a)) \ list(a))
                       \cup (rest(a) \ kept(a))
             D == UNION {G(a) : a \in A}
             q == Forget(SetLists(p, P, Q, N), D)
  <1>1. promoteExecutables(p, A) = q
    BY DEF promoteExecutables, SetLists
  <1>2. ASSUME NEW a \in Accounts
        PROVE  /\ Unique(Both(p, a)) /\ p.pending[a] \cap p.queue[a] = {}
               /\ Both(p, a) \subseteq Sent(Txs, a) /\ Both(p, a) \subseteq Txs
    BY DEF Sound, Internals, Sent
  <1>3. \A a \in Accounts : valid(a) \subseteq p.queue[a]
    OBVIOUS
  <1>4. \A a \in Accounts : ready(a) \subseteq valid(a)
    BY DEF Ready
  <1>5. \A a \in Accounts : kept(a) \subseteq rest(a) /\ (a \in p.locals => kept(a) = rest(a))
    BY Zenon DEF Cap
  <1>6. ASSUME NEW a \in Accounts, NEW t \in p.queue[a] \ valid(a)
        PROVE  t.nonce < GetNonce(p.head, t.from) \/ ~Pays(p.head, t)
    <2>1. t \in Txs /\ t.from = a
      BY Zenon, <1>2 DEF Both, Sent
    <2>2. t.nonce \in Nat /\ GetNonce(p.head, a) \in Nat
      BY <2>1, TxType, GetNonceType DEF Sound, Shape
    <2>3. ~(t.nonce >= GetNonce(p.head, a)) \/ ~Pays(p.head, t)
      BY Zenon, <1>6
    <2>4. \A m, n \in Nat : ~(m >= n) => m < n
      OBVIOUS
    <2> QED BY <2>1, <2>2, <2>3, <2>4
  <1> HIDE DEF valid, ready
  <1>7. ASSUME NEW a \in Accounts
        PROVE  list(a) = p.pending[a] \cup ready(a)
    <2>1. p.pending[a] \cup ready(a) \subseteq Both(p, a)
      BY <1>3, <1>4 DEF Both
    <2>2. Unique(p.pending[a] \cup ready(a)) /\ p.pending[a] \cup ready(a) \subseteq Txs
      BY <1>2, <2>1 DEF Unique
    <2> QED BY <2>2, BestUnique
  <1> HIDE DEF list, kept
  <1>8. ASSUME NEW a \in Accounts
        PROVE  /\ G(a) = (p.queue[a] \ valid(a)) \cup (rest(a) \ kept(a))
               /\ G(a) \subseteq Both(p, a)
               /\ list(a) \cup kept(a) = Both(p, a) \ G(a)
               /\ list(a) \cap kept(a) = {}
               /\ list(a) \subseteq Txs /\ kept(a) \subseteq Txs
    BY Zenon, <1>2, <1>3, <1>4, <1>5, <1>7 DEF Both
  <1>9. \A t \in D : Expendable(p, t)
    <2> SUFFICES ASSUME NEW a \in A, NEW t \in G(a) PROVE Expendable(p, t)
      OBVIOUS
    <2>1. t.from = a
      BY Zenon, <1>2, <1>8 DEF Sent
    <2>2. CASE t \in p.queue[a] \ valid(a)
      BY <1>6, <2>2 DEF Expendable
    <2>3. CASE t \in rest(a) \ kept(a)
      BY <1>5, <2>1, <2>3 DEF Expendable
    <2> QED BY <1>8, <2>2, <2>3
  <1>10. P \in Lists /\ Q \in Lists
    BY Zenon, <1>8 DEF Lists, Sound, Shape
  <1>11. ASSUME NEW a \in Accounts
         PROVE  P[a] \cup Q[a] = Both(p, a) \ D /\ P[a] \cap Q[a] = {}
    <2> DEFINE g == [b \in A |-> G(b)]
    <2>1. D = UNION {g[b] : b \in A} /\ \A b \in A : g[b] \subseteq Both(p, b)
      BY Zenon, <1>8
    <2> HIDE DEF D, G
    <2>2. Both(p, a) \ D = Both(p, a) \ (IF a \in A THEN g[a] ELSE {})
      <3>1. Within(g, A, p)
        BY Zenon, <2>1 DEF Within
      <3> HIDE DEF g
      <3>2. A \subseteq Accounts
        BY Zenon
      <3>3. Without(p, a, D, A, g)
        BY Zenon, <2>1, <3>1, <3>2, Apart
      <3> QED BY Zenon, <3>3 DEF Without
    <2>3. CASE a \in A
      BY Zenon, <1>8, <2>2, <2>3
    <2>4. CASE a \notin A
      BY Zenon, <1>2, <2>2, <2>4 DEF Both
    <2> QED BY Zenon, <2>3, <2>4
  <1>12. q = Forget(SetLists(p, P, Q, N), D)
    BY Zenon
  <1> HIDE DEF P, Q, N, D, q
  <1>13. Drops(p, q, D)
    BY Zenon, <1>10, <1>11, <1>12, SetDrops DEF Sound
  <1> QED BY <1>1, <1>9, <1>13 DEF Trimmed

\* Nothing is dropped where only the nonces, the count of changes or the price
\* limit is set.
LEMMA OtherFields ==
  ASSUME NEW p, Sound(p), NEW x, NEW q,
         \/ q = [p EXCEPT !.nonces = x] \/ q = [p EXCEPT !.changes = x]
         \/ q = [p EXCEPT !.gasPrice = x] \/ q = p
  PROVE  /\ Trimmed(p, q) /\ q.remotes = p.remotes /\ q.pending = p.pending /\ q.queue = p.queue
         /\ q.known = p.known /\ Sound(q)
  <1>1. PICK x1, x2, x3, x4, x5, x6, x7, x8, x9, x10 :
           p = [pending |-> x1, queue |-> x2, known |-> x3, remotes |-> x4,
                locals |-> x5, nonces |-> x6, changes |-> x7,
                gasPrice |-> x8, head |-> x9, journal |-> x10]
    BY DEF Sound, Shape
  <1>2. PICK n, c, g :
           q = [pending |-> x1, queue |-> x2, known |-> x3, remotes |-> x4,
                locals |-> x5, nonces |-> n, changes |-> c,
                gasPrice |-> g, head |-> x9, journal |-> x10]
    BY <1>1
  <1>3. /\ Shape(q) /\ q.remotes = p.remotes /\ q.pending = p.pending /\ q.queue = p.queue
        /\ q.known = p.known /\ q.locals = p.locals /\ q.head = p.head /\ q.journal = p.journal
    BY <1>1, <1>2 DEF Sound, Shape
  <1>4. Drops(p, q, {})
    BY Zenon, <1>3 DEF Drops, Both, Sound, Internals
  <1> QED BY <1>3, <1>4, DropsSound DEF Trimmed

\* Setting pending is setting the lists.
LEMMA PendingSet ==
  ASSUME NEW p, Shape(p), NEW P, NEW N
  PROVE  /\ [p EXCEPT !.pending = P] = SetLists(p, P, p.queue, p.nonces)
         /\ [p EXCEPT !.pending = P, !.nonces = N] = SetLists(p, P, p.queue, N)
  <1>1. PICK x1, x2, x3, x4, x5, x6, x7, x8, x9, x10 :
           p = [pending |-> x1, queue |-> x2, known |-> x3, remotes |-> x4,
                locals |-> x5, nonces |-> x6, changes |-> x7,
                gasPrice |-> x8, head |-> x9, journal |-> x10]
    BY DEF Shape
  <1> QED BY Zenon, <1>1 DEF SetLists

\* demoteUnexecutables drops used nonces and prices that are not to be paid; the
\* rest goes to the queue, where no nonce is taken.
LEMMA DemoteTrims ==
  ASSUME NEW p, Sound(p)
  PROVE  Trimmed(p, demoteUnexecutables(p))
  <1> DEFINE rest(a)  == {t \in p.pending[a] : t.nonce >= GetNonce(p.head, a)}
             drops(a) == {t \in rest(a) : ~Pays(p.head, t)}
             stay(a)  == {t \in rest(a) : \A d \in drops(a) : t.nonce < d.nonce}
             kept(a)  == IF GetNonce(p.head, a) \in Nonces(stay(a)) THEN stay(a) ELSE {}
             G(a) == (p.pending[a] \ rest(a)) \cup drops(a)
             D == UNION {G(a) : a \in Accounts}
             M == UNION {rest(a) \ (drops(a) \cup kept(a)) : a \in Accounts}
             P == [a \in Accounts |-> kept(a)]
             p1 == Forget(SetLists(p, P, p.queue, p.nonces), D)
             q == enqueueTx(p1, M)
  <1>1. demoteUnexecutables(p) = q
    BY Zenon, PendingSet DEF demoteUnexecutables, Sound
  <1>2. ASSUME NEW a \in Accounts
        PROVE  /\ Unique(Both(p, a)) /\ p.pending[a] \cap p.queue[a] = {}
               /\ Both(p, a) \subseteq Sent(Txs, a) /\ Both(p, a) \subseteq Txs
    BY DEF Sound, Internals, Sent
  <1>3. ASSUME NEW a \in Accounts
        PROVE  /\ rest(a) \subseteq p.pending[a] /\ drops(a) \subseteq rest(a)
               /\ stay(a) \subseteq rest(a) /\ kept(a) \subseteq stay(a)
    BY Zenon
  <1>4. ASSUME NEW a \in Accounts
        PROVE  stay(a) \cap drops(a) = {}
    <2>1. \A t \in stay(a) : t.nonce \in Nat
      BY Zenon, <1>2, <1>3, TxType DEF Both
    <2>2. \A n \in Nat : ~(n < n)
      OBVIOUS
    <2> QED BY <2>1, <2>2
  <1>5. ASSUME NEW a \in Accounts, NEW t \in G(a)
        PROVE  t.nonce < GetNonce(p.head, t.from) \/ ~Pays(p.head, t)
    <2>1. t \in Txs /\ t.from = a
      BY Zenon, <1>2, <1>3 DEF Both, Sent
    <2>2. t.nonce \in Nat /\ GetNonce(p.head, a) \in Nat
      BY <2>1, TxType, GetNonceType DEF Sound, Shape
    <2>3. ~(t.nonce >= GetNonce(p.head, a)) \/ ~Pays(p.head, t)
      BY <1>5
    <2>4. \A m, n \in Nat : ~(m >= n) => m < n
      OBVIOUS
    <2> QED BY <2>1, <2>2, <2>3, <2>4
  <1> HIDE DEF rest, drops, stay, kept
  <1>6. \A t \in D : Expendable(p, t)
    BY <1>5 DEF Expendable
  <1>7. P \in Lists /\ p.queue \in Lists
    BY Zenon, <1>2, <1>3 DEF Lists, Sound, Shape, Both
  <1>8. ASSUME NEW a \in Accounts
        PROVE  /\ Both(p, a) \ D = Both(p, a) \ G(a)
               /\ Sent(M, a) = rest(a) \ (drops(a) \cup kept(a))
    <2> DEFINE g == [b \in Accounts |-> G(b)]
    <2>1. D = UNION {g[b] : b \in Accounts} /\ \A b \in Accounts : g[b] \subseteq Both(p, b)
      BY <1>3 DEF Both
    <2>2. g[a] = G(a)
      OBVIOUS
    <2>3. \A b \in Accounts : rest(b) \subseteq Sent(Txs, b)
      BY Zenon, <1>2, <1>3 DEF Both
    <2>4. Sent(M, a) = rest(a) \ (drops(a) \cup kept(a))
      BY <2>3 DEF Sent
    <2> HIDE DEF D, G, g, M
    <2>5. Both(p, a) \ D = Both(p, a) \ (IF a \in Accounts THEN g[a] ELSE {})
      <3>1. Within(g, Accounts, p) /\ Accounts \subseteq Accounts
        BY Zenon, <2>1 DEF Within
      <3>2. Without(p, a, D, Accounts, g)
        BY Zenon, <2>1, <3>1, Apart
      <3> QED BY Zenon, <3>2 DEF Without
    <2> QED BY <2>2, <2>4, <2>5
  <1>9. M \subseteq Txs
    BY Zenon, <1>2, <1>3 DEF Both
  <1>10. \A a \in Accounts : P[a] = kept(a)
    OBVIOUS
  <1> HIDE DEF P, M, D, p1
  <1>11. /\ Shape(p1) /\ SameRest(p, p1) /\ p1.pending = P /\ p1.queue = p.queue
         /\ p1.known = p.known \ D /\ p1.remotes = p.remotes \ D
    <2>1. PICK r : r = SetLists(p, P, p.queue, p.nonces)
      OBVIOUS
    <2>2. /\ Shape(r) /\ SameRest(p, r) /\ r.pending = P /\ r.queue = p.queue
          /\ r.nonces = p.nonces /\ r.known = p.known /\ r.remotes = p.remotes
      BY <1>7, <2>1, ListsSet DEF Sound
    <2>3. p1 = Forget(r, D)
      BY <2>1 DEF p1
    <2>4. /\ Shape(p1) /\ p1.known = r.known \ D /\ p1.remotes = r.remotes \ D
          /\ p1.pending = r.pending /\ p1.queue = r.queue /\ p1.locals = r.locals
          /\ p1.nonces = r.nonces /\ p1.changes = r.changes /\ p1.gasPrice = r.gasPrice
          /\ p1.head = r.head /\ p1.journal = r.journal
      BY <2>2, <2>3, ForgetFields
    <2> QED BY <2>2, <2>4 DEF SameRest
  <1>12. \A a \in Accounts : Unique(p1.queue[a] \cup Sent(M, a))
    BY <1>2, <1>3, <1>8, <1>11 DEF Unique, Both
  <1>13. /\ SameRest(p1, q) /\ q.pending = p1.pending
         /\ q.known = p1.known /\ q.remotes = p1.remotes /\ q.nonces = p1.nonces
         /\ \A a \in Accounts : q.queue[a] = p1.queue[a] \cup Sent(M, a)
    BY <1>9, <1>11, <1>12, EnqueueFresh
  <1> HIDE DEF q
  <1>14. ASSUME NEW a \in Accounts
         PROVE  Both(q, a) = Both(p, a) \ D /\ q.pending[a] \cap q.queue[a] = {}
    <2>1. /\ q.pending[a] = kept(a) /\ p.pending[a] \cap p.queue[a] = {}
          /\ q.queue[a] = p.queue[a] \cup (rest(a) \ (drops(a) \cup kept(a)))
      BY Zenon, <1>2, <1>8, <1>10, <1>11, <1>13
    <2>2. Both(p, a) \ D = (p.pending[a] \cup p.queue[a]) \ ((p.pending[a] \ rest(a)) \cup drops(a))
      BY Zenon, <1>8 DEF Both
    <2> QED BY Zenon, <1>3, <1>4, <2>1, <2>2 DEF Both
  <1>15. Drops(p, q, D)
    BY Zenon, <1>11, <1>13, <1>14 DEF Drops, SameRest
  <1> QED BY <1>1, <1>6, <1>15 DEF Trimmed

\* truncatePending drops transactions of accounts that are not local ...
LEMMA TruncatePendingTrims ==
  ASSUME NEW p, Sound(p)
  PROVE  Trimmed(p, truncatePending(p))
  <1> DEFINE len(a) == Cardinality(p.pending[a])
             spam   == {a \in Accounts \ p.locals : len(a) > AccountSlots}
             cut(n) == [a \in Accounts |-> IF a \in spam THEN Cap(p.pending[a], n)
                                           ELSE p.pending[a]]
             levels == AccountSlots..Max({AccountSlots} \cup {len(a) : a \in spam})
             fits   == {n \in levels : Cardinality(All(cut(n))) <= GlobalSlots}
             level  == IF fits = {} THEN AccountSlots ELSE Max(fits)
             lists  == cut(level)
             G(a) == p.pending[a] \ lists[a]
             D == UNION {G(a) : a \in Accounts}
             N == [a \in Accounts |-> Min({p.nonces[a]} \cup Nonces(G(a)))]
             q == Forget(SetLists(p, lists, p.queue, N), D)
  <1>1. truncatePending(p) = q
    <2>1. truncatePending(p) = Forget([p EXCEPT !.pending = lists, !.nonces = N], D)
      BY DEF truncatePending
    <2>2. Shape(p)
      BY DEF Sound
    <2> HIDE DEF lists, N, D
    <2>3. [p EXCEPT !.pending = lists, !.nonces = N] = SetLists(p, lists, p.queue, N)
      <3>1. PICK L, M : L = lists /\ M = N
        OBVIOUS
      <3>2. [p EXCEPT !.pending = L, !.nonces = M] = SetLists(p, L, p.queue, M)
        <4>1. PICK x1, x2, x3, x4, x5, x6, x7, x8, x9, x10 :
                 p = [pending |-> x1, queue |-> x2, known |-> x3, remotes |-> x4,
                      locals |-> x5, nonces |-> x6, changes |-> x7,
                      gasPrice |-> x8, head |-> x9, journal |-> x10]
          BY <2>2 DEF Shape
        <4> QED BY Zenon, <4>1 DEF SetLists
      <3> QED BY <3>1, <3>2
    <2> QED BY <2>1, <2>3
  <1> HIDE DEF level
  <1>2. ASSUME NEW a \in Accounts
        PROVE  lists[a] \subseteq p.pending[a] /\ (a \in p.locals => lists[a] = p.pending[a])
    BY DEF Cap
  <1> HIDE DEF lists
  <1>3. lists \in Lists /\ p.queue \in Lists
    <2>1. lists = [a \in Accounts |-> lists[a]]
      BY DEF lists
    <2> QED BY <1>2, <2>1 DEF Lists, Sound, Shape
  <1>4. ASSUME NEW a \in Accounts
        PROVE  /\ p.pending[a] \cap p.queue[a] = {} /\ Both(p, a) \subseteq Sent(Txs, a)
    BY DEF Sound, Internals
  <1>5. \A t \in D : Expendable(p, t)
    BY <1>2, <1>4 DEF Expendable, Both, Sent
  <1>6. ASSUME NEW a \in Accounts
        PROVE  lists[a] \cup p.queue[a] = Both(p, a) \ D /\ lists[a] \cap p.queue[a] = {}
    <2> DEFINE g == [b \in Accounts |-> G(b)]
    <2>1. D = UNION {g[b] : b \in Accounts} /\ \A b \in Accounts : g[b] \subseteq Both(p, b)
      BY DEF Both
    <2>2. g[a] = p.pending[a] \ lists[a]
      OBVIOUS
    <2> HIDE DEF D, g
    <2>3. Both(p, a) \ D = Both(p, a) \ (IF a \in Accounts THEN g[a] ELSE {})
      <3>1. Within(g, Accounts, p) /\ Accounts \subseteq Accounts
        BY Zenon, <2>1 DEF Within
      <3>2. Without(p, a, D, Accounts, g)
        BY Zenon, <2>1, <3>1, Apart
      <3> QED BY Zenon, <3>2 DEF Without
    <2> QED BY <1>2, <1>4, <2>2, <2>3 DEF Both
  <1>7. q = Forget(SetLists(p, lists, p.queue, N), D)
    BY Zenon
  <1> HIDE DEF D, N, q
  <1>8. Drops(p, q, D)
    BY Zenon, <1>3, <1>6, <1>7, SetDrops DEF Sound
  <1> QED BY <1>1, <1>5, <1>8 DEF Trimmed

\* ... and so does truncateQueue.
LEMMA TruncateQueueTrims ==
  ASSUME NEW p, Sound(p), NEW q \in truncateQueue(p)
  PROVE  Trimmed(p, q)
  <1>1. PICK D : /\ D \subseteq UNION {p.queue[a] : a \in Accounts \ p.locals}
                 /\ q = removeTx(p, D)
    BY Zenon DEF truncateQueue
  <1>2. \A t \in D : t.from \notin p.locals /\ t \in p.known
    <2> SUFFICES ASSUME NEW a \in Accounts \ p.locals, NEW t \in p.queue[a]
                 PROVE  t.from \notin p.locals /\ t \in p.known
      BY Zenon, <1>1
    <2>1. t \in Both(p, a)
      BY DEF Both
    <2>2. t.from = a
      BY <2>1 DEF Sound, Internals, Sent
    <2> QED BY <2>2 DEF Sound, Internals, All
  <1> QED BY Zenon, <1>1, <1>2, RemoveDrops DEF Trimmed, Expendable

\* Room is made at the cost of transactions that no local account has sent.
LEMMA MakeRoomTrims ==
  ASSUME NEW p, Sound(p), NEW t, NEW isLocal, NEW q \in makeRoom(p, t, isLocal)
  PROVE  Trimmed(p, q)
  <1>1. CASE q = p
    BY <1>1, OtherFields
  <1>2. CASE q # p
    <2>1. PICK D \in SUBSET p.remotes : q = removeTx([p EXCEPT !.changes = @ + Cardinality(D)], D)
      BY <1>2 DEF makeRoom, Discards
    <2>2. PICK r : r = [p EXCEPT !.changes = p.changes + Cardinality(D)]
      BY Zenon
    <2>3. Trimmed(p, r) /\ r.remotes = p.remotes /\ r.known = p.known /\ Sound(r)
      BY <2>2, OtherFields
    <2>4. D \subseteq r.known /\ \A d \in D : Expendable(r, d)
      <3>1. \A d \in r.remotes : d \in r.known /\ d.from \in Accounts
        BY Zenon, <2>3, KnownList DEF Sound, Internals
      <3>2. \A d \in r.remotes : d.from \notin r.locals
        BY <2>3, <3>1 DEF Sound, Internals, Sent
      <3> QED BY Zenon, <2>3, <3>1, <3>2 DEF Expendable
    <2>5. q = removeTx(r, D)
      BY <2>1, <2>2
    <2>6. Trimmed(r, q)
      BY Zenon, <2>3, <2>4, <2>5, RemoveDrops DEF Trimmed
    <2> QED BY <2>3, <2>6, TrimmedTwice
  <1> QED BY <1>1, <1>2

----------------------------------------------------------------------------
(* add.                                                                    *)

\* Of an account's list with one transaction more, that nonce is left with the
\* better one.
LEMMA BestInsert ==
  ASSUME NEW a, NEW S, S \subseteq Sent(Txs, a), Unique(S), NEW t \in Sent(Txs, a), t \notin S,
         t \in Best(S \cup {t})
  PROVE  /\ Best(S \cup {t}) = (S \ {o \in S : o.nonce = t.nonce}) \cup {t}
         /\ \A o \in S : o.nonce = t.nonce => o.price < t.price
  <1>1. \A o \in S \cup {t} : o \in Txs /\ o.from = a
    BY DEF Sent
  <1>2. \A o \in S : o.nonce = t.nonce => o.price < t.price
    <2> SUFFICES ASSUME NEW o \in S, o.nonce = t.nonce PROVE o.price < t.price
      OBVIOUS
    <2>1. o.price <= t.price
      BY DEF Best
    <2>2. o.price # t.price
      BY <1>1, PoolAssumption
    <2>3. o.price \in Nat /\ t.price \in Nat
      BY <1>1, TxType
    <2> QED BY <2>1, <2>2, <2>3
  <1>3. \A o \in S : o.nonce = t.nonce => o \notin Best(S \cup {t})
    <2>1. \A m, n \in Nat : m < n => ~(n <= m)
      OBVIOUS
    <2> QED BY <1>1, <1>2, <2>1, TxType DEF Best
  <1>4. \A o \in S : o.nonce # t.nonce => o \in Best(S \cup {t})
    BY <1>1, TxType DEF Best, Unique
  <1>5. Best(S \cup {t}) \subseteq S \cup {t}
    BY DEF Best
  <1> QED BY Zenon, <1>2, <1>3, <1>4, <1>5

\* lookup.Add, field by field.
LEMMA KnownFields ==
  ASSUME NEW p, Shape(p), NEW t, NEW isLocal \in BOOLEAN, NEW q, q = Known(p, t, isLocal)
  PROVE  /\ SameRest(p, q) /\ q.known = p.known \cup {t}
         /\ isLocal => q.remotes = p.remotes
         /\ ~isLocal => q.remotes = p.remotes \cup {t}
         /\ q.pending = p.pending /\ q.queue = p.queue
  BY Zenon DEF Known, Shape, SameRest

\* The sender of a transaction becomes local.
Marked(p, a) == [p EXCEPT !.locals = @ \cup {a}, !.remotes = @ \ Sent(@, a)]

\* locals.add and lookup.RemoteToLocals, field by field.
LEMMA MarkedFields ==
  ASSUME NEW p, Shape(p), NEW a \in Accounts, NEW q, q = Marked(p, a)
  PROVE  /\ Shape(q) /\ q.known = p.known /\ q.remotes = p.remotes \ Sent(p.remotes, a)
         /\ q.locals = p.locals \cup {a} /\ q.head = p.head /\ q.journal = p.journal
         /\ q.pending = p.pending /\ q.queue = p.queue
  <1>1. PICK x1, x2, x3, x4, x5, x6, x7, x8, x9, x10 :
           p = [pending |-> x1, queue |-> x2, known |-> x3, remotes |-> x4,
                locals |-> x5, nonces |-> x6, changes |-> x7,
                gasPrice |-> x8, head |-> x9, journal |-> x10]
    BY Zenon DEF Shape
  <1>2. q = [pending |-> x1, queue |-> x2, known |-> x3, remotes |-> x4 \ Sent(x4, a),
             locals |-> x5 \cup {a}, nonces |-> x6, changes |-> x7,
             gasPrice |-> x8, head |-> x9, journal |-> x10]
    BY Zenon, <1>1 DEF Marked
  <1>3. /\ x1 \in Lists /\ x2 \in Lists /\ x5 \subseteq Accounts /\ x10 \subseteq Txs
        /\ x9 \in Heads
    BY Zenon, <1>1 DEF Shape
  <1>4. x5 \cup {a} \subseteq Accounts
    BY <1>3
  <1>5. Shape(q)
    BY <1>2, <1>3, <1>4 DEF Shape
  <1> QED BY <1>1, <1>2, <1>5

\* journalTx, field by field.
Journaled(p, q, t) ==
  /\ Shape(q) /\ q.known = p.known /\ q.remotes = p.remotes
  /\ q.pending = p.pending /\ q.queue = p.queue /\ q.locals = p.locals /\ q.head = p.head
  /\ q.journal = IF t.from \in p.locals THEN p.journal \cup {t} ELSE p.journal
LEMMA JournalFields ==
  ASSUME NEW p, Shape(p), NEW t \in Txs, NEW q, q = journalTx(p, t)
  PROVE  Journaled(p, q, t)
  <1>1. CASE t.from \in p.locals
    BY Zenon, <1>1 DEF journalTx, Shape, Journaled
  <1>2. CASE t.from \notin p.locals
    BY <1>2 DEF journalTx, Journaled
  <1> QED BY Zenon, <1>1, <1>2

\* What t replaces, in the list it goes to.
Old(p, t) == {o \in Both(p, t.from) : o.nonce = t.nonce}

\* q is p with t, in the place of what t replaces.
Inserted(p, q, t) ==
  /\ Shape(q) /\ q.head = p.head /\ p.locals \subseteq q.locals
  /\ q.known = (p.known \ Old(p, t)) \cup {t}
  /\ q.remotes \subseteq (p.remotes \ Old(p, t)) \cup {t}
  /\ \A a \in q.locals : Sent(q.remotes, a) = {}
  /\ \A a \in Accounts :
       /\ Both(q, a) = IF a = t.from THEN (Both(p, a) \ Old(p, t)) \cup {t} ELSE Both(p, a)
       /\ q.pending[a] \cap q.queue[a] = {}
  /\ \A o \in Old(p, t) : o.price < t.price
  /\ q.journal = IF t.from \in q.locals THEN p.journal \cup {t} ELSE p.journal

\* A pool with one transaction more, in the place of what it replaces, is sound.
LEMMA InsertedSound ==
  ASSUME NEW p, Sound(p), NEW t \in Txs, NEW q, Inserted(p, q, t)
  PROVE  Sound(q)
  <1>1. \A r : All(r.pending) \cup All(r.queue) = UNION {Both(r, a) : a \in Accounts}
    BY DEF All, Both
  <1>2. ASSUME NEW a \in Accounts
        PROVE  Both(p, a) \subseteq Sent(Txs, a) /\ Unique(Both(p, a))
    BY Zenon DEF Sound, Internals
  <1>3. t.from \in Accounts
    BY TxType
  <1>4. q.known = UNION {Both(q, a) : a \in Accounts}
    <2>1. p.known = UNION {Both(p, a) : a \in Accounts}
      BY Zenon, <1>1 DEF Sound, Internals
    <2>2. \A a \in Accounts : a # t.from => Both(p, a) \cap Old(p, t) = {}
      BY <1>2, <1>3 DEF Old, Sent
    <2>3. \A a \in Accounts :
             Both(q, a) = IF a = t.from THEN (Both(p, a) \ Old(p, t)) \cup {t} ELSE Both(p, a)
      BY Zenon DEF Inserted
    <2>4. q.known = (p.known \ Old(p, t)) \cup {t}
      BY Zenon DEF Inserted
    <2>5. q.known \subseteq UNION {Both(q, a) : a \in Accounts}
      BY <1>3, <2>1, <2>3, <2>4
    <2>6. UNION {Both(q, a) : a \in Accounts} \subseteq q.known
      BY <1>3, <2>1, <2>2, <2>3, <2>4
    <2> QED BY Zenon, <2>5, <2>6
  <1>5. q.remotes \subseteq q.known
    BY Zenon DEF Inserted, Sound, Internals
  <1>6. ASSUME NEW a \in Accounts
        PROVE  Unique(Both(q, a)) /\ Both(q, a) \subseteq Sent(Txs, a)
    <2>1. CASE a = t.from
      <3>1. Both(q, a) = (Both(p, a) \ Old(p, t)) \cup {t}
        BY Zenon, <2>1 DEF Inserted
      <3>2. \A o \in Both(p, a) \ Old(p, t) : o.nonce # t.nonce
        BY Zenon, <2>1 DEF Old
      <3>3. Unique(Both(q, a))
        BY Zenon, <1>2, <3>1, <3>2 DEF Unique
      <3> QED BY Zenon, <1>2, <2>1, <3>1, <3>3 DEF Sent
    <2>2. CASE a # t.from
      <3>1. Both(q, a) = Both(p, a)
        BY Zenon, <2>2 DEF Inserted
      <3> QED BY <1>2, <3>1
    <2> QED BY Zenon, <2>1, <2>2
  <1> QED BY Zenon, <1>1, <1>4, <1>5, <1>6 DEF Sound, Internals, Inserted

\* A pending transaction is replaced where it is.
LEMMA ReplaceInserts ==
  ASSUME NEW p, Sound(p), NEW t \in Txs, t \notin p.known, NEW isLocal \in BOOLEAN,
         t.from \in p.locals => isLocal,
         t.nonce \in Nonces(p.pending[t.from]), NEW q, q = replace(p, t, isLocal), q # p
  PROVE  Inserted(p, q, t) /\ q.locals = p.locals
  <1> DEFINE a == t.from
             S == p.pending[a]
             list == Best(S \cup {t})
             P == [p.pending EXCEPT ![a] = list]
             O == S \ list
  <1>1. a \in Accounts /\ t \in Sent(Txs, a)
    BY Zenon, TxType DEF Sent
  <1>2. /\ Both(p, a) \subseteq Sent(Txs, a) /\ Unique(Both(p, a)) /\ S \cap p.queue[a] = {}
        /\ Both(p, a) \subseteq p.known
    <2>1. /\ Both(p, a) \subseteq Sent(Txs, a) /\ Unique(Both(p, a)) /\ S \cap p.queue[a] = {}
          /\ p.known = All(p.pending) \cup All(p.queue)
      BY Zenon, <1>1 DEF Sound, Internals
    <2>2. Both(p, a) \subseteq p.known
      BY Zenon, <1>1, <2>1 DEF All, Both
    <2> QED BY Zenon, <2>1, <2>2
  <1>3. t \in list
    BY DEF replace
  <1>4. S \subseteq Sent(Txs, a) /\ Unique(S) /\ t \notin S
    BY Zenon, <1>2 DEF Both, Unique
  <1>5. /\ list = (S \ {o \in S : o.nonce = t.nonce}) \cup {t}
        /\ \A o \in S : o.nonce = t.nonce => o.price < t.price
    BY Zenon, <1>1, <1>3, <1>4, BestInsert
  <1>6. PICK o \in S : o.nonce = t.nonce
    BY Zenon DEF Nonces
  <1>7. Old(p, t) = {o} /\ {u \in S : u.nonce = t.nonce} = {o}
    BY <1>2, <1>6 DEF Old, Both, Unique
  <1>8. O = {o}
    BY Zenon, <1>4, <1>5, <1>7
  <1>9. P \in Lists /\ P[a] = list /\ \A b \in Accounts : b # a => P[b] = p.pending[b]
    BY Zenon, <1>1, <1>4, <1>5 DEF Sound, Shape, Lists, Sent
  <1>10. PICK p1 : p1 = SetLists(p, P, p.queue, p.nonces)
    BY Zenon
  <1>11. p1 = [p EXCEPT !.pending[t.from] = list]
    <2>1. PICK x1, x2, x3, x4, x5, x6, x7, x8, x9, x10 :
             p = [pending |-> x1, queue |-> x2, known |-> x3, remotes |-> x4,
                  locals |-> x5, nonces |-> x6, changes |-> x7,
                  gasPrice |-> x8, head |-> x9, journal |-> x10]
      BY Zenon DEF Sound, Shape
    <2>2. PICK L : L = list
      BY Zenon
    <2>3. [p EXCEPT !.pending[t.from] = L]
             = [pending |-> [x1 EXCEPT ![a] = L], queue |-> x2, known |-> x3, remotes |-> x4,
                locals |-> x5, nonces |-> x6, changes |-> x7,
                gasPrice |-> x8, head |-> x9, journal |-> x10]
      BY <2>1
    <2>4. p1 = [pending |-> [x1 EXCEPT ![a] = L], queue |-> x2, known |-> x3, remotes |-> x4,
                locals |-> x5, nonces |-> x6, changes |-> x7,
                gasPrice |-> x8, head |-> x9, journal |-> x10]
      <3> HIDE DEF list
      <3> QED BY Zenon, <1>10, <2>1, <2>2 DEF SetLists
    <2> HIDE DEF list
    <2> QED BY <2>2, <2>3, <2>4
  <1>12. q = journalTx(Known(Forget(p1, O), t, isLocal), t)
    BY <1>3, <1>11 DEF replace
  <1> HIDE DEF P, list, O
  <1>13. /\ Shape(p1) /\ SameRest(p, p1) /\ p1.pending = P /\ p1.queue = p.queue
         /\ p1.nonces = p.nonces /\ p1.known = p.known /\ p1.remotes = p.remotes
    <2>1. Shape(p) /\ p.queue \in Lists
      BY Zenon DEF Sound, Shape
    <2> QED BY <1>9, <1>10, <2>1, ListsSet
  <1>14. PICK p2 : p2 = Forget(p1, O)
    BY Zenon
  <1>15. /\ Shape(p2) /\ p2.known = p1.known \ O /\ p2.remotes = p1.remotes \ O
         /\ p2.pending = p1.pending /\ p2.queue = p1.queue /\ p2.locals = p1.locals
         /\ p2.nonces = p1.nonces /\ p2.changes = p1.changes /\ p2.gasPrice = p1.gasPrice
         /\ p2.head = p1.head /\ p2.journal = p1.journal
    BY <1>13, <1>14, ForgetFields
  <1>16. PICK p3 : p3 = Known(p2, t, isLocal)
    BY Zenon
  <1>17. /\ SameRest(p2, p3) /\ p3.known = p2.known \cup {t}
         /\ isLocal => p3.remotes = p2.remotes
         /\ ~isLocal => p3.remotes = p2.remotes \cup {t}
         /\ p3.pending = p2.pending /\ p3.queue = p2.queue
    BY <1>15, <1>16, KnownFields
  <1>18. Shape(p3) /\ q = journalTx(p3, t)
    BY Zenon, <1>12, <1>14, <1>16, <1>17 DEF SameRest
  <1>19. /\ Shape(q) /\ q.known = p3.known /\ q.remotes = p3.remotes
         /\ q.pending = p3.pending /\ q.queue = p3.queue /\ q.locals = p3.locals /\ q.head = p3.head
         /\ q.journal = IF t.from \in p3.locals THEN p3.journal \cup {t} ELSE p3.journal
    BY Zenon, <1>18, JournalFields DEF Journaled
  <1>20. /\ q.pending = P /\ q.queue = p.queue /\ q.locals = p.locals /\ q.head = p.head
         /\ q.known = (p.known \ {o}) \cup {t}
         /\ isLocal => q.remotes = p.remotes \ {o}
         /\ ~isLocal => q.remotes = (p.remotes \ {o}) \cup {t}
         /\ q.journal = IF t.from \in q.locals THEN p.journal \cup {t} ELSE p.journal
    BY <1>8, <1>13, <1>15, <1>17, <1>19 DEF SameRest
  <1>21. ASSUME NEW b \in Accounts
         PROVE  /\ Both(q, b) = IF b = a THEN (Both(p, b) \ Old(p, t)) \cup {t} ELSE Both(p, b)
                /\ q.pending[b] \cap q.queue[b] = {}
    <2>1. CASE b = a
      <3>1. q.pending[b] = (S \ {o}) \cup {t} /\ q.queue[b] = p.queue[b]
        BY Zenon, <1>5, <1>7, <1>9, <1>20, <2>1
      <3>2. t \notin p.queue[a] /\ o \notin p.queue[a]
        BY Zenon, <1>2, <1>6 DEF Both
      <3> QED BY <1>2, <1>7, <2>1, <3>1, <3>2 DEF Both
    <2>2. CASE b # a
      BY Zenon, <1>9, <1>20, <2>2 DEF Both, Sound, Internals
    <2> QED BY Zenon, <2>1, <2>2
  <1>22. \A b \in q.locals : Sent(q.remotes, b) = {}
    <2>1. \A b \in p.locals : Sent(p.remotes, b) = {}
      BY Zenon DEF Sound, Shape, Internals
    <2> QED BY <1>20, <2>1 DEF Sent
  <1> QED BY Zenon, <1>5, <1>6, <1>7, <1>19, <1>20, <1>21, <1>22 DEF Inserted

\* Otherwise the transaction goes to the queue.
LEMMA EnqueueInserts ==
  ASSUME NEW p, Sound(p), NEW t \in Txs, t \notin p.known, NEW own \in BOOLEAN,
         NEW isLocal \in BOOLEAN, t.from \in p.locals => isLocal, own => isLocal,
         t.nonce \notin Nonces(p.pending[t.from]), NEW q, q = enqueue(p, t, isLocal, own), q # p
  PROVE  Inserted(p, q, t) /\ (~own => q.locals = p.locals)
  <1> DEFINE a == t.from
             S == p.queue[a]
             queue == [b \in Accounts |-> Best(p.queue[b] \cup Sent({t}, b))]
             O == UNION {p.queue[b] \ queue[b] : b \in Accounts}
             p1 == [p EXCEPT !.queue = queue]
             p2 == Forget(p1, O)
             p3 == Known(p2, t, isLocal)
             p4 == [p3 EXCEPT !.locals = @ \cup {t.from}, !.remotes = @ \ Sent(@, t.from)]
             p5 == IF own THEN p4 ELSE p3
  <1>1. a \in Accounts /\ t \in Sent(Txs, a)
    BY Zenon, TxType DEF Sent
  <1>2. ASSUME NEW b \in Accounts
        PROVE  /\ Both(p, b) \subseteq Sent(Txs, b) /\ Unique(Both(p, b))
               /\ p.pending[b] \cap p.queue[b] = {} /\ Both(p, b) \subseteq p.known
               /\ p.queue[b] \subseteq Txs /\ Unique(p.queue[b])
    BY DEF Sound, Internals, All, Both, Sent, Unique
  <1>3. Sent({t}, a) = {t} /\ \A b \in Accounts : b # a => Sent({t}, b) = {}
    BY Zenon DEF Sent
  <1>4. /\ queue[a] = Best(S \cup {t})
        /\ \A b \in Accounts : b # a => queue[b] = p.queue[b]
    <2>1. queue[a] = Best(S \cup Sent({t}, a))
      BY Zenon, <1>1
    <2>2. ASSUME NEW b \in Accounts, b # a PROVE queue[b] = p.queue[b]
      <3>1. queue[b] = Best(p.queue[b] \cup Sent({t}, b))
        BY Zenon
      <3>2. Sent({t}, b) = {}
        BY Zenon, <1>3, <2>2
      <3>3. p.queue[b] \cup Sent({t}, b) = p.queue[b]
        BY Zenon, <3>2
      <3>4. Best(p.queue[b]) = p.queue[b]
        BY Zenon, <1>2, BestUnique
      <3> QED BY Zenon, <3>1, <3>3, <3>4
    <2> QED BY Zenon, <1>3, <2>1, <2>2
  <1>5. enqueueTx(p, {t}) = p2
    BY Zenon DEF enqueueTx
  <1> HIDE DEF queue
  <1>6. p1.queue = queue /\ p2.queue = queue
    <2>1. PICK x1, x2, x3, x4, x5, x6, x7, x8, x9, x10 :
             p = [pending |-> x1, queue |-> x2, known |-> x3, remotes |-> x4,
                  locals |-> x5, nonces |-> x6, changes |-> x7,
                  gasPrice |-> x8, head |-> x9, journal |-> x10]
      BY Zenon DEF Sound, Shape
    <2> HIDE DEF O
    <2> QED BY <2>1 DEF Forget
  <1>7. t \in Best(S \cup {t})
    <2>1. t \in p2.queue[a]
      <3> HIDE DEF p2
      <3> QED BY <1>5 DEF enqueue
    <2> QED BY <1>4, <1>6, <2>1
  <1>8. q = journalTx(p5, t)
    <2>1. t \in enqueueTx(p, {t}).queue[t.from]
      BY <1>4, <1>5, <1>6, <1>7
    <2> HIDE DEF p2
    <2> QED BY Zenon, <1>5, <2>1 DEF enqueue
  <1>9. S \subseteq Sent(Txs, a) /\ Unique(S) /\ t \notin S
    BY Zenon, <1>1, <1>2 DEF Both
  <1>10. /\ queue[a] = (S \ {o \in S : o.nonce = t.nonce}) \cup {t}
         /\ \A o \in S : o.nonce = t.nonce => o.price < t.price
    BY <1>1, <1>4, <1>7, <1>9, BestInsert
  <1>11. Old(p, t) = {o \in S : o.nonce = t.nonce}
    BY Zenon DEF Old, Both, Nonces
  <1>12. O = Old(p, t)
    BY <1>1, <1>4, <1>9, <1>10, <1>11
  <1>13. queue \in Lists
    <2>1. \A b \in Accounts : queue[b] \subseteq Txs
      BY Zenon, <1>2, <1>4, <1>10
    <2> QED BY Zenon, <2>1 DEF queue, Lists
  <1>14. /\ Shape(p1) /\ p1.pending = p.pending /\ p1.locals = p.locals /\ p1.head = p.head
         /\ p1.journal = p.journal /\ p1.known = p.known /\ p1.remotes = p.remotes
    BY <1>13 DEF Sound, Shape
  <1> HIDE DEF p1, O
  <1>15. /\ Shape(p2) /\ p2.known = p1.known \ O /\ p2.remotes = p1.remotes \ O
         /\ p2.pending = p1.pending /\ p2.queue = p1.queue /\ p2.locals = p1.locals
         /\ p2.nonces = p1.nonces /\ p2.changes = p1.changes /\ p2.gasPrice = p1.gasPrice
         /\ p2.head = p1.head /\ p2.journal = p1.journal
    BY <1>14, ForgetFields
  <1> HIDE DEF p2
  <1>16. /\ SameRest(p2, p3) /\ p3.known = p2.known \cup {t}
         /\ isLocal => p3.remotes = p2.remotes
         /\ ~isLocal => p3.remotes = p2.remotes \cup {t}
         /\ p3.pending = p2.pending /\ p3.queue = p2.queue
    BY <1>15, KnownFields
  <1> HIDE DEF p3
  <1>17. /\ Shape(p4) /\ p4.known = p3.known /\ p4.remotes = p3.remotes \ Sent(p3.remotes, a)
         /\ p4.locals = p3.locals \cup {a} /\ p4.head = p3.head /\ p4.journal = p3.journal
         /\ p4.pending = p3.pending /\ p4.queue = p3.queue
    <2>1. Shape(p3) /\ p4 = Marked(p3, a)
      BY <1>16 DEF SameRest, Marked
    <2> HIDE DEF p4
    <2> QED BY <1>1, <2>1, MarkedFields
  <1> HIDE DEF p4
  <1>18. /\ Shape(p5) /\ p5.known = (p.known \ Old(p, t)) \cup {t}
         /\ p5.pending = p.pending /\ p5.queue = queue /\ p5.head = p.head /\ p5.journal = p.journal
         /\ p5.locals = IF own THEN p.locals \cup {a} ELSE p.locals
         /\ p5.remotes \subseteq (p.remotes \ Old(p, t)) \cup {t}
         /\ isLocal => p5.remotes \subseteq p.remotes
         /\ own => Sent(p5.remotes, a) = {}
    <2>1. CASE own
      BY Zenon, <1>6, <1>12, <1>14, <1>15, <1>16, <1>17, <2>1 DEF Sent, SameRest
    <2>2. CASE ~own
      BY Zenon, <1>6, <1>12, <1>14, <1>15, <1>16, <2>2 DEF SameRest
    <2> QED BY Zenon, <2>1, <2>2
  <1> HIDE DEF p5
  <1>19. /\ Shape(q) /\ q.known = p5.known /\ q.remotes = p5.remotes
         /\ q.pending = p5.pending /\ q.queue = p5.queue /\ q.locals = p5.locals /\ q.head = p5.head
         /\ q.journal = IF t.from \in p5.locals THEN p5.journal \cup {t} ELSE p5.journal
    <2>1. Shape(p5) /\ q = journalTx(p5, t)
      BY Zenon, <1>8, <1>18
    <2> QED BY Zenon, <2>1, JournalFields DEF Journaled
  <1>20. ASSUME NEW b \in Accounts
         PROVE  /\ Both(q, b) = IF b = a THEN (Both(p, b) \ Old(p, t)) \cup {t} ELSE Both(p, b)
                /\ q.pending[b] \cap q.queue[b] = {}
    <2>0. q.pending[b] = p.pending[b] /\ q.queue[b] = queue[b] /\ p.pending[b] \cap p.queue[b] = {}
      BY Zenon, <1>2, <1>18, <1>19
    <2>1. CASE b = a
      <3>1. t \notin p.pending[a] /\ Old(p, t) \cap p.pending[a] = {}
        BY Zenon, <1>2, <1>11, <2>0, <2>1 DEF Both
      <3> QED BY Zenon, <1>10, <1>11, <2>0, <2>1, <3>1 DEF Both
    <2>2. CASE b # a
      BY Zenon, <1>4, <2>0, <2>2 DEF Both
    <2> QED BY Zenon, <2>1, <2>2
  <1>21. \A b \in q.locals : Sent(q.remotes, b) = {}
    <2> SUFFICES ASSUME NEW b \in q.locals PROVE Sent(q.remotes, b) = {}
      BY Zenon
    <2>1. \A c \in p.locals : Sent(p.remotes, c) = {}
      BY Zenon DEF Sound, Shape, Internals
    <2>2. CASE own /\ b = a
      BY Zenon, <1>18, <1>19, <2>2
    <2>3. CASE b \in p.locals
      BY <1>18, <1>19, <2>1, <2>3 DEF Sent
    <2> QED BY Zenon, <1>18, <1>19, <2>2, <2>3
  <1> QED BY Zenon, <1>10, <1>11, <1>18, <1>19, <1>20, <1>21 DEF Inserted

\* A transaction the state allows.
Ok(h, t) == t.nonce >= GetNonce(h, t.from) /\ Pays(h, t)

\* t is there, is not allowed any more, or a better one that is allowed is there.
Stands(q, t) ==
  \/ t \in q.known \/ ~Ok(q.head, t)
  \/ \E u \in q.known : /\ u.from = t.from /\ u.nonce = t.nonce /\ u.price > t.price
                        /\ Ok(q.head, u)

\* Between p and q, at the same head, no transaction of a local account was lost.
Keeps(p, q) ==
  /\ q.head = p.head /\ p.locals \subseteq q.locals
  /\ \A t \in p.known : t.from \in p.locals => Stands(q, t)

\* Transactions of local accounts that are new in q are in its journal, and those
\* that were in the journal still are.
Journals(p, q) ==
  /\ p.journal \subseteq q.journal
  /\ \A t \in q.known : t.from \in q.locals /\ (t \in p.known => t \in p.journal) => t \in q.journal

\* What a run, and any part of it, makes of p.
Follows(p, q) == Sound(q) /\ Keeps(p, q) /\ Journals(p, q) /\ q.locals = p.locals

\* Trimming loses nothing of a local account that the state allows.
LEMMA TrimmedFollows ==
  ASSUME NEW p, Sound(p), NEW q, Trimmed(p, q)
  PROVE  Follows(p, q) /\ q.known \subseteq p.known /\ q.journal = p.journal
  <1>1. PICK D : Drops(p, q, D) /\ \A t \in D : Expendable(p, t)
    BY DEF Trimmed
  <1>2. ASSUME NEW t \in p.known, t.from \in p.locals
        PROVE  Stands(q, t)
    <2>1. t.nonce \in Nat /\ GetNonce(p.head, t.from) \in Nat
      BY Zenon, KnownList, TxType, GetNonceType DEF Sound, Shape
    <2>2. \A m, n \in Nat : m < n => ~(m >= n)
      OBVIOUS
    <2>3. CASE t \in D
      BY Zenon, <1>1, <1>2, <2>1, <2>2, <2>3 DEF Expendable, Stands, Ok, Drops
    <2>4. CASE t \notin D
      BY Zenon, <1>1, <2>4 DEF Drops, Stands
    <2> QED BY <2>3, <2>4
  <1>3. Journals(p, q)
    BY Zenon, <1>1 DEF Drops, Journals
  <1>4. Sound(q)
    BY TrimmedSound
  <1> QED BY Zenon, <1>1, <1>2, <1>3, <1>4 DEF Follows, Keeps, Drops

\* What one part of a run keeps and the next part keeps, both keep: what stands for
\* a better transaction stands for the one it is better than.
LEMMA FollowsTwice ==
  ASSUME NEW p, Sound(p), NEW q, NEW r, Follows(p, q), Follows(q, r)
  PROVE  Follows(p, r)
  <1>1. ASSUME NEW t \in p.known, t.from \in p.locals
        PROVE  Stands(r, t)
    <2>1. Stands(q, t)
      BY Zenon, <1>1 DEF Follows, Keeps
    <2>2. CASE t \in q.known
      BY Zenon, <1>1, <2>2 DEF Follows, Keeps
    <2>3. CASE ~Ok(q.head, t)
      BY Zenon, <2>3 DEF Stands, Follows, Keeps
    <2>4. ASSUME NEW u \in q.known, u.from = t.from, u.nonce = t.nonce, u.price > t.price,
                 Ok(q.head, u)
          PROVE  Stands(r, t)
      <3>1. Stands(r, u) /\ r.head = q.head
        BY Zenon, <1>1, <2>4 DEF Follows, Keeps
      <3>2. CASE u \in r.known
        BY Zenon, <2>4, <3>1, <3>2 DEF Stands
      <3>3. ASSUME NEW w \in r.known, w.from = u.from, w.nonce = u.nonce, w.price > u.price,
                   Ok(r.head, w)
            PROVE  Stands(r, t)
        <4>1. t.price \in Nat /\ u.price \in Nat /\ w.price \in Nat
          BY Zenon, KnownList, TxType DEF Follows
        <4>2. w.price > t.price
          BY <2>4, <3>3, <4>1
        <4> QED BY Zenon, <2>4, <3>3, <4>2 DEF Stands
      <3> QED BY Zenon, <2>4, <3>1, <3>2, <3>3 DEF Stands
    <2> QED BY Zenon, <2>1, <2>2, <2>3, <2>4 DEF Stands
  <1>2. Journals(p, r)
    BY Zenon DEF Follows, Journals
  <1> QED BY Zenon, <1>1, <1>2 DEF Follows, Keeps

\* Doing nothing keeps everything.
LEMMA FollowsSelf ==
  ASSUME NEW p, Sound(p)
  PROVE  Follows(p, p)
  BY Zenon DEF Follows, Keeps, Journals, Stands

\* A transaction that is added, with the room that is made for it.
LEMMA RoomInsert ==
  ASSUME NEW p, Sound(p), NEW t \in Txs, NEW own \in BOOLEAN, NEW r \in rooms(p, t, own),
         NEW q, q = insert(r, t, own)
  PROVE  Sound(q) /\ Keeps(p, q) /\ Journals(p, q) /\ (~own => q.locals = p.locals)
  <1> DEFINE isLocal == IsLocal(p, t, own)
  <1>1. t \notin p.known /\ validateTx(p, t, isLocal) /\ r \in makeRoom(p, t, isLocal)
    BY Zenon DEF rooms
  <1>2. Ok(p.head, t)
    BY Zenon, <1>1 DEF validateTx, Ok
  <1>3. Trimmed(p, r)
    <2> HIDE DEF isLocal
    <2> QED BY Zenon, <1>1, MakeRoomTrims
  <1>4. /\ Follows(p, r) /\ r.known \subseteq p.known /\ r.journal = p.journal
        /\ Sound(r) /\ r.locals = p.locals /\ r.head = p.head
    BY Zenon, <1>3, TrimmedFollows DEF Follows, Keeps
  <1>5. CASE q = r
    BY Zenon, <1>4, <1>5 DEF Follows
  <1>6. CASE q # r
    <2>1. Inserted(r, q, t) /\ (~own => q.locals = r.locals)
      <3> DEFINE b == IsLocal(r, t, own)
      <3>1. b \in BOOLEAN /\ (t.from \in r.locals => b) /\ (own => b) /\ t \notin r.known
        BY Zenon, <1>1, <1>4 DEF IsLocal
      <3>2. \/ t.nonce \in Nonces(r.pending[t.from]) /\ q = replace(r, t, b)
            \/ t.nonce \notin Nonces(r.pending[t.from]) /\ q = enqueue(r, t, b, own)
        BY Zenon DEF insert
      <3> HIDE DEF b
      <3>3. CASE t.nonce \in Nonces(r.pending[t.from]) /\ q = replace(r, t, b)
        BY <1>4, <1>6, <3>1, <3>3, ReplaceInserts
      <3>4. CASE t.nonce \notin Nonces(r.pending[t.from]) /\ q = enqueue(r, t, b, own)
        BY <1>4, <1>6, <3>1, <3>4, EnqueueInserts
      <3> QED BY Zenon, <3>2, <3>3, <3>4
    <2>2. Sound(q)
      BY Zenon, <1>4, <2>1, InsertedSound
    <2>3. ASSUME NEW u \in r.known, u.from \in r.locals
          PROVE  Stands(q, u)
      <3>1. CASE u \notin Old(r, t)
        BY Zenon, <2>1, <3>1 DEF Inserted, Stands
      <3>2. CASE u \in Old(r, t)
        <4>1. t \in q.known /\ q.head = p.head /\ u.price < t.price /\ u.nonce = t.nonce
          BY Zenon, <1>4, <2>1, <3>2 DEF Inserted, Old
        <4>2. u.from = t.from
          <5>1. Sound(r) /\ t.from \in Accounts /\ u \in Both(r, t.from)
            BY Zenon, <1>4, <3>2, TxType DEF Old
          <5>2. u \in Sent(Txs, t.from)
            BY Zenon, <5>1 DEF Sound, Internals
          <5> QED BY Zenon, <5>2 DEF Sent
        <4>3. t.price > u.price
          BY Zenon, <1>4, <4>1, KnownList, TxType
        <4> QED BY Zenon, <1>2, <4>1, <4>2, <4>3 DEF Stands
      <3> QED BY Zenon, <3>1, <3>2
    <2>4. ASSUME NEW u \in p.known, u.from \in p.locals
          PROVE  Stands(q, u)
      <3>1. q.head = r.head /\ Stands(r, u)
        BY Zenon, <1>4, <2>1, <2>4 DEF Follows, Keeps, Inserted
      <3>2. CASE u \in r.known
        BY Zenon, <1>4, <2>3, <2>4, <3>2
      <3>3. CASE ~Ok(r.head, u)
        BY Zenon, <3>1, <3>3 DEF Stands
      <3>4. ASSUME NEW w \in r.known, w.from = u.from, w.nonce = u.nonce, w.price > u.price,
                   Ok(r.head, w)
            PROVE  Stands(q, u)
        <4>1. w \in q.known \/ \E x \in q.known : /\ x.from = w.from /\ x.nonce = w.nonce
                                                  /\ x.price > w.price /\ Ok(q.head, x)
          BY Zenon, <1>4, <2>3, <2>4, <3>1, <3>4 DEF Stands
        <4>2. CASE w \in q.known
          BY Zenon, <3>1, <3>4, <4>2 DEF Stands
        <4>3. ASSUME NEW x \in q.known, x.from = w.from, x.nonce = w.nonce, x.price > w.price,
                     Ok(q.head, x)
              PROVE  Stands(q, u)
          <5>1. u.price \in Nat /\ w.price \in Nat /\ x.price \in Nat
            BY Zenon, <1>4, <2>2, KnownList, TxType
          <5>2. x.price > u.price
            BY <3>4, <4>3, <5>1
          <5> QED BY Zenon, <3>4, <4>3, <5>2 DEF Stands
        <4> QED BY Zenon, <4>1, <4>2, <4>3
      <3> QED BY Zenon, <3>1, <3>2, <3>3, <3>4 DEF Stands
    <2>5. Journals(p, q)
      BY Zenon, <1>4, <2>1 DEF Inserted, Journals
    <2> QED BY Zenon, <1>4, <2>1, <2>2, <2>4, <2>5 DEF Keeps, Inserted
  <1> QED BY Zenon, <1>5, <1>6

\* add, as a reset uses it, keeps everything.
LEMMA AddFollows ==
  ASSUME NEW p, Sound(p), NEW t \in Txs, NEW q \in add(p, t, FALSE)
  PROVE  Follows(p, q)
  <1>1. CASE q = p
    BY Zenon, <1>1, FollowsSelf
  <1>2. CASE q # p
    <2>1. PICK r \in rooms(p, t, FALSE) : q = insert(r, t, FALSE)
      BY Zenon, <1>2 DEF add
    <2>2. PICK own \in BOOLEAN : ~own /\ r \in rooms(p, t, own) /\ q = insert(r, t, own)
      BY Zenon, <2>1
    <2>3. Sound(q) /\ Keeps(p, q) /\ Journals(p, q) /\ (~own => q.locals = p.locals)
      BY <2>2, RoomInsert
    <2> QED BY Zenon, <2>2, <2>3 DEF Follows
  <1> QED BY Zenon, <1>1, <1>2

----------------------------------------------------------------------------
(* reset: what the chain has lost is added one by one.                     *)

\* A set of subsets of a finite set has a smallest member.
LEMMA MinimalSubset ==
  ASSUME NEW S, IsFiniteSet(S), NEW T, T \subseteq SUBSET S, T # {}
  PROVE  \E x \in T : \A y \in T : y \subseteq x => y = x
  <1>1. IsWellFoundedOn(StrictSubsetOrdering(S), SUBSET S)
    BY Zenon, FS_StrictSubsetOrderingWellFounded, FS_FiniteSubsetsOfFinite
  <1>2. PICK x \in T : \A y \in T : ~ (<<y, x>> \in StrictSubsetOrdering(S))
    BY Zenon, <1>1, WFMin
  <1>3. ASSUME NEW y \in T, y \subseteq x, y # x PROVE FALSE
    <2>1. <<y, x>> \in StrictSubsetOrdering(S)
      BY <1>3 DEF StrictSubsetOrdering
    <2> QED BY <2>1, <1>2
  <1> QED BY Zenon, <1>2, <1>3

\* S is a set of indices.
Indices(S) == S \subseteq Nat

\* A finite set of natural numbers that is not empty has its Max in it.
LEMMA MaxIn ==
  ASSUME NEW S, IsFiniteSet(S), Indices(S), S # {}
  PROVE  Max(S) \in S /\ \A n \in S : Max(S) >= n
  <1> SUFFICES \E m \in S : \A n \in S : m >= n
    BY Zenon DEF Max
  <1> SUFFICES ASSUME ~ \E m \in S : \A n \in S : m >= n PROVE FALSE
    OBVIOUS
  <1> DEFINE B == {T \in SUBSET S : T # {} /\ ~ \E m \in T : \A n \in T : m >= n}
  <1>1. PICK T \in B : \A U \in B : U \subseteq T => U = T
    <2>1. B # {} /\ B \subseteq SUBSET S
      BY Zenon
    <2> HIDE DEF B
    <2> QED BY <2>1, MinimalSubset
  <1>2. PICK x \in T : TRUE
    BY Zenon, <1>1
  <1> DEFINE U == T \ {x}
  <1>3. T \subseteq Nat /\ x \in Nat /\ U # T /\ U \subseteq T /\ ~ \E m \in T : \A n \in T : m >= n
    BY Zenon, <1>1, <1>2 DEF Indices
  <1>4. CASE U = {}
    <2>1. x >= x /\ T = {x}
      BY <1>2, <1>3, <1>4
    <2> QED BY Zenon, <1>3, <2>1
  <1>5. CASE U # {}
    <2>1. PICK m \in U : \A n \in U : m >= n
      BY Zenon, <1>1, <1>3, <1>5
    <2>2. \A i, j, k \in Nat : (i >= j /\ j >= k => i >= k) /\ (i >= j \/ j >= i) /\ i >= i
      OBVIOUS
    <2>3. CASE m >= x
      BY Zenon, <1>3, <2>1, <2>3
    <2>4. CASE x >= m
      <3>1. \A n \in T : x >= n
        BY <1>3, <2>1, <2>2, <2>4
      <3> QED BY <1>2, <1>3, <3>1
    <2>5. m \in Nat
      BY Zenon, <1>3, <2>1
    <2>6. m >= x \/ x >= m
      BY Zenon, <1>3, <2>2, <2>5
    <2> QED BY Zenon, <2>3, <2>4, <2>6
  <1> QED BY Zenon, <1>4, <1>5

\* And its dual.
LEMMA MinIn ==
  ASSUME NEW S, IsFiniteSet(S), Indices(S), S # {}
  PROVE  Min(S) \in S /\ \A n \in S : n >= Min(S)
  <1> SUFFICES \E m \in S : \A n \in S : n >= m
    BY DEF Min
  <1> SUFFICES ASSUME ~ \E m \in S : \A n \in S : n >= m PROVE FALSE
    OBVIOUS
  <1> DEFINE B == {T \in SUBSET S : T # {} /\ ~ \E m \in T : \A n \in T : n >= m}
  <1>1. PICK T \in B : \A U \in B : U \subseteq T => U = T
    <2>1. B # {} /\ B \subseteq SUBSET S
      OBVIOUS
    <2> HIDE DEF B
    <2> QED BY <2>1, MinimalSubset
  <1>2. PICK x \in T : TRUE
    BY <1>1
  <1> DEFINE U == T \ {x}
  <1>3. T \subseteq Nat /\ x \in Nat /\ U # T /\ U \subseteq T /\ ~ \E m \in T : \A n \in T : n >= m
    BY Zenon, <1>1, <1>2 DEF Indices
  <1>4. CASE U = {}
    <2>1. x >= x /\ T = {x}
      BY <1>2, <1>3, <1>4
    <2> QED BY <1>3, <2>1
  <1>5. CASE U # {}
    <2>1. PICK m \in U : \A n \in U : n >= m
      BY Zenon, <1>1, <1>3, <1>5
    <2>2. \A i, j, k \in Nat : (i >= j /\ j >= k => i >= k) /\ (i >= j \/ j >= i) /\ i >= i
      OBVIOUS
    <2>3. CASE x >= m
      BY Zenon, <1>3, <2>1, <2>3
    <2>4. CASE m >= x
      <3>1. \A n \in T : n >= x
        BY Zenon, <1>3, <2>1, <2>2, <2>4
      <3> QED BY <1>2, <1>3, <3>1
    <2>5. m \in Nat
      BY <1>3, <2>1
    <2>6. m >= x \/ x >= m
      BY Zenon, <1>3, <2>2, <2>5
    <2> QED BY Zenon, <2>3, <2>4, <2>6
  <1> QED BY <1>4, <1>5

\* h adds the transactions s[i] again, for the indices i in a set, to the pools P.
Folded(h, P, s, new, S) ==
  h = [I \in SUBSET S |-> IF I = {} THEN P ELSE Reinject(h[I \ {Min(I)}], s[Min(I)], new)]

\* The pool with the state of the new head, before anything is added.
Moved(p, new) == [p EXCEPT !.head = new, !.nonces = [a \in Accounts |-> GetNonce(new, a)]]

\* The function the fold computes with.
Fold(P, s, new, S) == CHOOSE h : Folded(h, P, s, new, S)

\* reset is the value of that function at all the blocks to look at.
LEMMA ResetIs ==
  ASSUME NEW p, NEW old, NEW new, NEW P, NEW s, NEW S, P = {Moved(p, new)}, s = old.txs,
         S = Discarded(old, new)
  PROVE  reset(p, old, new) = Fold(P, s, new, S)[S]
  BY Zenon DEF reset, Moved, MapThenFoldSet, Folded, Fold

\* A pool that Reinject leaves is one it was given, or add made it of one.
LEMMA ReinjectOne ==
  ASSUME NEW P, NEW t, NEW new, NEW R, R = Reinject(P, t, new), NEW r \in R, r \notin P
  PROVE  \E m \in P : r \in add(m, t, FALSE)
  BY Zenon DEF Reinject

\* What Folded says of one set ...
LEMMA FoldedEquation ==
  ASSUME NEW h, NEW P, NEW s, NEW new, NEW S, Folded(h, P, s, new, S), NEW I \in SUBSET S
  PROVE  h[I] = IF I = {} THEN P ELSE Reinject(h[I \ {Min(I)}], s[Min(I)], new)
  BY Zenon DEF Folded

\* ... and of one that is not empty.
LEMMA FoldedStep ==
  ASSUME NEW h, NEW P, NEW s, NEW new, NEW S, Folded(h, P, s, new, S), NEW I \in SUBSET S, I # {},
         NEW J, J = I \ {Min(I)}, NEW t, t = s[Min(I)]
  PROVE  h[I] = Reinject(h[J], t, new)
  BY FoldedEquation

\* The value at I is what Reinject makes of the value without I's least index.
Reinjects(h, s, new, I) == h[I] = Reinject(h[I \ {Min(I)}], s[Min(I)], new)

\* FoldedStep, in this word.
LEMMA FoldedReinjects ==
  ASSUME NEW h, NEW P, NEW s, NEW new, NEW S, Folded(h, P, s, new, S), NEW I \in SUBSET S, I # {}
  PROVE  Reinjects(h, s, new, I)
  <1>1. h[I] = IF I = {} THEN P ELSE Reinject(h[I \ {Min(I)}], s[Min(I)], new)
    BY Zenon DEF Folded
  <1> QED BY Zenon, <1>1 DEF Reinjects

\* Two such functions agree where both are defined.
LEMMA FoldedAgree ==
  ASSUME NEW P, NEW s, NEW new, NEW S, NEW T, IsFiniteSet(S), Indices(S), NEW h, NEW k,
         Folded(h, P, s, new, S), Folded(k, P, s, new, T), NEW u \in SUBSET (S \cap T)
  PROVE  h[u] = k[u]
  <1> SUFFICES ASSUME h[u] # k[u] PROVE FALSE
    BY Zenon
  <1> DEFINE B == {I \in SUBSET u : h[I] # k[I]}
  <1>1. IsFiniteSet(u)
    BY Zenon, FS_Subset
  <1>2. PICK I \in B : \A J \in B : J \subseteq I => J = I
    <2>1. B # {} /\ B \subseteq SUBSET u
      <3>1. u \in B
        BY Zenon
      <3> QED BY Zenon, <3>1
    <2> HIDE DEF B
    <2> QED BY <1>1, <2>1, MinimalSubset
  <1>3. I \in SUBSET S /\ I \in SUBSET T /\ IsFiniteSet(I) /\ Indices(I)
    BY Zenon, <1>1, <1>2, FS_Subset DEF Indices
  <1>4. CASE I = {}
    <2>1. h[I] = P /\ k[I] = P
      BY Zenon, <1>3, <1>4, FoldedEquation
    <2> QED BY Zenon, <1>2, <2>1
  <1>5. CASE I # {}
    <2> DEFINE J == I \ {Min(I)}
    <2>1. Min(I) \in I /\ J \subseteq I /\ J # I
      BY Zenon, <1>3, <1>5, MinIn
    <2>2. h[J] = k[J]
      BY Zenon, <1>2, <2>1
    <2>3. h[I] = Reinject(h[J], s[Min(I)], new) /\ k[I] = Reinject(k[J], s[Min(I)], new)
      <3> HIDE DEF B
      <3>1. Reinjects(h, s, new, I) /\ Reinjects(k, s, new, I)
        BY Zenon, <1>3, <1>5, FoldedReinjects
      <3> QED BY Zenon, <3>1 DEF Reinjects
    <2> QED BY Zenon, <1>2, <2>2, <2>3
  <1> QED BY Zenon, <1>4, <1>5

\* The fold is well defined.
LEMMA FoldedExists ==
  ASSUME NEW P, NEW s, NEW new, NEW S, IsFiniteSet(S), Indices(S)
  PROVE  \E h : Folded(h, P, s, new, S)
  <1> SUFFICES ASSUME ~ \E h : Folded(h, P, s, new, S) PROVE FALSE
    BY Zenon
  <1> DEFINE B == {T \in SUBSET S : ~ \E h : Folded(h, P, s, new, T)}
  <1>1. PICK T \in B : \A U \in B : U \subseteq T => U = T
    <2>1. B # {} /\ B \subseteq SUBSET S
      BY Zenon
    <2> HIDE DEF B
    <2> QED BY <2>1, MinimalSubset
  <1> DEFINE Of(U) == CHOOSE h : Folded(h, P, s, new, U)
             Rest(I) == IF I = {} THEN P
                        ELSE Reinject(Of(I \ {Min(I)})[I \ {Min(I)}], s[Min(I)], new)
             h == [I \in SUBSET T |-> Rest(I)]
  <1>2. \A U \in SUBSET T : U # T => Folded(Of(U), P, s, new, U)
    BY Zenon, <1>1
  <1>3. \A I \in SUBSET T : Indices(I) /\ IsFiniteSet(I)
    BY Zenon, <1>1, FS_Subset DEF Indices
  <1>4. \A I \in SUBSET T : I # T => h[I] = Of(I)[I]
    <2> SUFFICES ASSUME NEW I \in SUBSET T, I # T PROVE h[I] = Of(I)[I]
      BY Zenon
    <2>1. Folded(Of(I), P, s, new, I)
      BY Zenon, <1>2
    <2>2. CASE I = {}
      <3>1. Of(I)[I] = P
        <4> HIDE DEF Of
        <4> QED BY Zenon, <2>1, <2>2, FoldedEquation
      <3> QED BY Zenon, <2>2, <3>1
    <2>3. CASE I # {}
      <3> DEFINE J == I \ {Min(I)}
      <3>1. Min(I) \in I /\ J \in SUBSET T /\ J # T /\ J \in SUBSET (I \cap J)
        BY Zenon, <1>3, <2>3, MinIn
      <3>2. Folded(Of(J), P, s, new, J)
        BY Zenon, <1>2, <3>1
      <3>3. Of(I)[J] = Of(J)[J]
        <4>1. IsFiniteSet(I) /\ Indices(I)
          BY Zenon, <1>3
        <4> HIDE DEF Of, J
        <4> QED BY <2>1, <3>1, <3>2, <4>1, FoldedAgree
      <3>4. Of(I)[I] = Reinject(Of(I)[J], s[Min(I)], new)
        <4> HIDE DEF Of
        <4> QED BY <2>1, <2>3, FoldedEquation
      <3> QED BY Zenon, <2>3, <3>3, <3>4
    <2> QED BY Zenon, <2>2, <2>3
  <1>5. ASSUME NEW I \in SUBSET T, I # {}
        PROVE  h[I] = Reinject(h[I \ {Min(I)}], s[Min(I)], new)
    <2>1. I \ {Min(I)} \in SUBSET T /\ I \ {Min(I)} # T
      BY Zenon, <1>3, <1>5, MinIn
    <2>2. h[I \ {Min(I)}] = Of(I \ {Min(I)})[I \ {Min(I)}]
      BY Zenon, <1>4, <2>1
    <2> QED BY Zenon, <1>5, <2>2
  <1>6. \A I \in SUBSET T :
           h[I] = IF I = {} THEN P ELSE Reinject(h[I \ {Min(I)}], s[Min(I)], new)
    <2>1. {} \in SUBSET T => h[{}] = P
      BY Zenon
    <2> HIDE DEF h
    <2> QED BY Zenon, <1>5, <2>1
  <1>7. h = [I \in SUBSET T |-> h[I]]
    <2> HIDE DEF Rest
    <2> QED BY Zenon
  <1>8. Folded(h, P, s, new, T)
    <2> HIDE DEF h
    <2>1. [I \in SUBSET T |-> h[I]]
            = [I \in SUBSET T |->
                 IF I = {} THEN P ELSE Reinject(h[I \ {Min(I)}], s[Min(I)], new)]
      BY Zenon, <1>6
    <2> QED BY Zenon, <1>7, <2>1 DEF Folded
  <1> HIDE DEF h
  <1> QED BY Zenon, <1>1, <1>8

\* A pool is of its shape when its fields are.
LEMMA ShapeOfFields ==
  ASSUME NEW x1 \in Lists, NEW x2 \in Lists, NEW x3, NEW x4, NEW x5, x5 \subseteq Accounts,
         NEW x6, NEW x7, NEW x8, NEW x9 \in Heads, NEW x10, x10 \subseteq Txs, NEW p,
         p = [pending |-> x1, queue |-> x2, known |-> x3, remotes |-> x4, locals |-> x5,
              nonces |-> x6, changes |-> x7, gasPrice |-> x8, head |-> x9, journal |-> x10]
  PROVE  Shape(p)
  BY DEF Shape

\* Internals does not depend on the head, the nonces or the journal.
LEMMA SameInternals ==
  ASSUME NEW p, Internals(p), NEW q, q.known = p.known, q.remotes = p.remotes,
         q.pending = p.pending, q.queue = p.queue, q.locals = p.locals
  PROVE  Internals(q)
  BY Zenon DEF Internals, Both

\* A new head leaves a pool sound and loses nothing.
LEMMA MovedSound ==
  ASSUME NEW p, Sound(p), NEW new \in Heads, NEW q, q = Moved(p, new)
  PROVE  /\ Sound(q) /\ q.head = new /\ q.known = p.known /\ q.locals = p.locals
         /\ q.journal = p.journal
  <1>1. PICK x1, x2, x3, x4, x5, x6, x7, x8, x9, x10 :
           p = [pending |-> x1, queue |-> x2, known |-> x3, remotes |-> x4,
                locals |-> x5, nonces |-> x6, changes |-> x7,
                gasPrice |-> x8, head |-> x9, journal |-> x10]
    BY Zenon DEF Sound, Shape
  <1>2. PICK n : n = [a \in Accounts |-> GetNonce(new, a)]
    BY Zenon
  <1>3. q = [pending |-> x1, queue |-> x2, known |-> x3, remotes |-> x4,
             locals |-> x5, nonces |-> n, changes |-> x7,
             gasPrice |-> x8, head |-> new, journal |-> x10]
    BY Zenon, <1>1, <1>2 DEF Moved
  <1>4. Shape(q)
    <2>0. x1 = p.pending /\ x2 = p.queue /\ x5 = p.locals /\ x10 = p.journal
      BY <1>1
    <2>1. x1 \in Lists /\ x2 \in Lists /\ x5 \subseteq Accounts /\ x10 \subseteq Txs
      BY Zenon, <2>0 DEF Sound, Shape
    <2> QED BY Zenon, <1>3, <2>1, ShapeOfFields
  <1>5. /\ q.known = p.known /\ q.remotes = p.remotes /\ q.pending = p.pending
        /\ q.queue = p.queue /\ q.locals = p.locals /\ q.head = new /\ q.journal = p.journal
    BY <1>1, <1>3
  <1> QED BY Zenon, <1>4, <1>5, SameInternals DEF Sound

\* What a reset makes of a pool is reached from it with add: it is in every set
\* that has the pool and is closed under add.  By induction on the blocks.
Closed(C, U) == \A m \in C, t \in Txs : add(m, t, FALSE) \cap U \subseteq C
Reached(p, q) == \E U : p \in U /\ \A C \in SUBSET U : p \in C /\ Closed(C, U) => q \in C

\* reset.
LEMMA ResetReached ==
  ASSUME NEW p, NEW old \in Heads, NEW new \in Heads, NEW q \in reset(p, old, new)
  PROVE  Reached(Moved(p, new), q)
  <1>0. PICK p0 : p0 = Moved(p, new)
    BY Zenon
  <1>1. PICK s, S : s = old.txs /\ S = Discarded(old, new)
    BY Zenon
  <1>2. IsFiniteSet(S) /\ Indices(S) /\ \A i \in S : s[i] \in Txs
    <2>1. s \in Seq(Txs)
      BY Zenon, <1>1 DEF Heads
    <2>2. Len(s) \in Nat /\ DOMAIN s = 1..Len(s) /\ \A i \in 1..Len(s) : s[i] \in Txs
      BY <2>1
    <2>3. IsFiniteSet(1..Len(s))
      <3>1. Len(s) \in Int /\ 1 \in Int
        BY <2>2
      <3> QED BY Zenon, <3>1, FS_Interval
    <2>4. S \subseteq 1..Len(s)
      BY Zenon, <1>1, <2>2 DEF Discarded
    <2>5. IsFiniteSet(S)
      BY Zenon, <2>3, <2>4, FS_Subset
    <2> QED BY <2>2, <2>4, <2>5 DEF Indices
  <1>10. PICK P : P = {p0}
    BY Zenon
  <1>11. PICK h : h = Fold(P, s, new, S)
    BY Zenon
  <1>3. q \in h[S]
    BY <1>0, <1>1, <1>10, <1>11, ResetIs
  <1>4. Folded(h, P, s, new, S)
    <2>1. \E k : Folded(k, P, s, new, S)
      BY Zenon, <1>2, FoldedExists
    <2> QED BY Zenon, <1>11, <2>1 DEF Fold
  <1>5. PICK U : U = UNION {h[I] : I \in SUBSET S}
    BY Zenon
  <1>6. h[{}] = P
    BY Zenon, <1>4, FoldedEquation
  <1>7. p0 \in U
    BY Zenon, <1>5, <1>6, <1>10
  <1>8. ASSUME NEW C \in SUBSET U, p0 \in C, Closed(C, U) PROVE q \in C
    <2> SUFFICES ASSUME ~(h[S] \subseteq C) PROVE FALSE
      BY Zenon, <1>3
    <2> DEFINE B == {I \in SUBSET S : ~(h[I] \subseteq C)}
    <2>1. PICK I \in B : \A J \in B : J \subseteq I => J = I
      <3>1. S \in B /\ B \subseteq SUBSET S
        BY Zenon
      <3> HIDE DEF B
      <3> QED BY <1>2, <3>1, MinimalSubset
    <2>2. I \subseteq S /\ IsFiniteSet(I) /\ Indices(I)
      BY Zenon, <1>2, <2>1, FS_Subset DEF Indices
    <2>3. I # {}
      BY Zenon, <1>6, <1>8, <1>10, <2>1
    <2>4. PICK J, t : J = I \ {Min(I)} /\ t = s[Min(I)]
      BY Zenon
    <2>5. Min(I) \in I /\ J \subseteq I /\ J # I /\ t \in Txs
      BY Zenon, <1>2, <2>2, <2>3, <2>4, MinIn
    <2>6. PICK Q, R : Q = h[J] /\ R = h[I]
      BY Zenon
    <2>7. Q \subseteq C /\ R \subseteq U
      BY Zenon, <1>5, <2>1, <2>2, <2>5, <2>6
    <2>8. R = Reinject(Q, t, new)
      <3>1. I \in SUBSET S
        BY Zenon, <2>2
      <3> QED BY <1>4, <2>3, <2>4, <2>6, <3>1, FoldedStep
    <2>9. ASSUME NEW r \in R, r \notin Q PROVE r \in C
      <3>1. PICK m \in Q : r \in add(m, t, FALSE)
        BY Zenon, <2>8, <2>9, ReinjectOne
      <3> QED BY Zenon, <1>8, <2>5, <2>7, <2>9, <3>1 DEF Closed
    <2> QED BY Zenon, <2>1, <2>6, <2>7, <2>9
  <1> QED BY Zenon, <1>0, <1>7, <1>8 DEF Reached

\* reset keeps everything.
LEMMA ResetFollows ==
  ASSUME NEW p, Sound(p), NEW old \in Heads, NEW new \in Heads, NEW q \in reset(p, old, new)
  PROVE  Follows(Moved(p, new), q)
  <1>1. PICK p0 : p0 = Moved(p, new)
    BY Zenon
  <1>2. Sound(p0) /\ Follows(p0, p0)
    BY Zenon, <1>1, MovedSound, FollowsSelf
  <1>3. PICK U : p0 \in U /\ \A C \in SUBSET U : p0 \in C /\ Closed(C, U) => q \in C
    BY Zenon, <1>1, ResetReached DEF Reached
  <1>4. PICK C : C = {m \in U : Follows(p0, m)}
    BY Zenon
  <1>5. Closed(C, U)
    <2> SUFFICES ASSUME NEW m \in C, NEW t \in Txs, NEW r \in add(m, t, FALSE), r \in U
                 PROVE  r \in C
      BY Zenon DEF Closed
    <2>1. Follows(p0, m) /\ Sound(m)
      BY Zenon, <1>4 DEF Follows
    <2>2. Follows(m, r)
      BY Zenon, <2>1, AddFollows
    <2>3. Follows(p0, r)
      BY Zenon, <1>2, <2>1, <2>2, FollowsTwice
    <2> QED BY Zenon, <1>4, <2>3
  <1> QED BY Zenon, <1>1, <1>2, <1>3, <1>4, <1>5

----------------------------------------------------------------------------
(* runReorg.                                                               *)

\* The type of what scheduleReorgLoop keeps.
Requests == [reset: {None} \cup Resets, dirty: SUBSET Accounts, launch: BOOLEAN]

\* The pools of a run, one after the other.
Steps(p, r, q, f, m, v, c, n) ==
  /\ r.reset = None => f = p
  /\ r.reset # None => f \in reset(p, r.reset.old, r.reset.new)
  /\ m = promoteExecutables(f, promoteAddrs(r))
  /\ r.reset = None => v = m
  /\ r.reset # None => \E d : d = demoteUnexecutables(m) /\ v = setAll(d)
  /\ c = truncatePending(v) /\ n \in truncateQueue(c) /\ q = [n EXCEPT !.changes = 0]

\* runReorg makes its pools in these steps.
LEMMA ReorgSteps ==
  ASSUME NEW p, NEW r, NEW q \in runReorg(p, r)
  PROVE  \E f, m, v, c, n : Steps(p, r, q, f, m, v, c, n)
  <1> DEFINE fresh    == IF r.reset = None THEN {p} ELSE reset(p, r.reset.old, r.reset.new)
             promoted == {promoteExecutables(f, promoteAddrs(r)) : f \in fresh}
             valid    == IF r.reset = None THEN promoted
                         ELSE {setAll(h) : h \in {demoteUnexecutables(m) : m \in promoted}}
             cut      == {truncatePending(h) : h \in valid}
             all      == UNION {truncateQueue(m) : m \in cut}
  <1>1. runReorg(p, r) = {[n EXCEPT !.changes = 0] : n \in all}
    BY DEF runReorg
  <1>2. PICK n \in all : q = [n EXCEPT !.changes = 0]
    <2> HIDE DEF all
    <2> QED BY <1>1
  <1>3. PICK c \in cut : n \in truncateQueue(c)
    <2> HIDE DEF cut
    <2> QED BY <1>2
  <1>4. PICK v \in valid : c = truncatePending(v)
    <2> HIDE DEF valid
    <2> QED BY Zenon, <1>3
  <1>5. PICK m \in promoted :
           /\ r.reset = None => v = m
           /\ r.reset # None => \E d : d = demoteUnexecutables(m) /\ v = setAll(d)
    <2> HIDE DEF promoted
    <2> QED BY Zenon, <1>4
  <1>6. PICK f \in fresh : m = promoteExecutables(f, promoteAddrs(r))
    <2> HIDE DEF fresh
    <2> QED BY Zenon, <1>5
  <1>7. /\ r.reset = None => f = p
        /\ r.reset # None => f \in reset(p, r.reset.old, r.reset.new)
    BY Zenon, <1>6
  <1>8. Steps(p, r, q, f, m, v, c, n)
    BY Zenon, <1>2, <1>3, <1>4, <1>5, <1>6, <1>7 DEF Steps
  <1> QED BY Zenon, <1>8

\* Each only trims the one before.
Trims(f, m, v, c, n, q) ==
  /\ Trimmed(f, m) /\ Sound(m) /\ Trimmed(m, v) /\ Sound(v) /\ Trimmed(v, c) /\ Sound(c)
  /\ Trimmed(c, n) /\ Sound(n) /\ Trimmed(n, q) /\ Sound(q)

\* What follows a reset in a run only trims.
LEMMA StepsTrim ==
  ASSUME NEW p, NEW r \in Runs, NEW q, NEW f, NEW m, NEW v, NEW c, NEW n,
         Steps(p, r, q, f, m, v, c, n), Sound(f)
  PROVE  Trims(f, m, v, c, n, q)
  <1>8. promoteAddrs(r) \subseteq Accounts /\ m = promoteExecutables(f, promoteAddrs(r))
    BY Zenon DEF promoteAddrs, Runs, Steps
  <1>9. Trimmed(f, m) /\ Sound(m)
    BY Zenon, <1>8, PromoteTrims, TrimmedSound
  <1>10. Trimmed(m, v) /\ Sound(v)
    <2>1. CASE v = m
      BY <1>9, <2>1, OtherFields
    <2>2. CASE \E d : d = demoteUnexecutables(m) /\ v = setAll(d)
      <3>1. PICK d : d = demoteUnexecutables(m) /\ v = setAll(d)
        BY Zenon, <2>2
      <3>2. Trimmed(m, d) /\ Sound(d)
        BY Zenon, <1>9, <3>1, DemoteTrims, TrimmedSound
      <3>3. PICK x : x = [a \in Accounts |-> IF d.pending[a] = {} THEN GetNonce(d.head, a)
                                            ELSE Max(Nonces(d.pending[a])) + 1]
        BY Zenon
      <3>4. v = [d EXCEPT !.nonces = x]
        BY Zenon, <3>1, <3>3 DEF setAll
      <3>5. Trimmed(d, v) /\ Sound(v)
        BY Zenon, <3>2, <3>4, OtherFields
      <3> QED BY Zenon, <3>2, <3>5, TrimmedTwice
    <2> QED BY Zenon, <2>1, <2>2 DEF Steps
  <1>11. Trimmed(v, c) /\ Sound(c)
    BY Zenon, <1>10, TruncatePendingTrims, TrimmedSound DEF Steps
  <1>12. Trimmed(c, n) /\ Sound(n)
    BY Zenon, <1>11, TruncateQueueTrims, TrimmedSound DEF Steps
  <1>13. Trimmed(n, q) /\ Sound(q)
    <2>1. q = [n EXCEPT !.changes = 0]
      BY Zenon DEF Steps
    <2> QED BY <1>12, <2>1, OtherFields
  <1> QED BY Zenon, <1>9, <1>10, <1>11, <1>12, <1>13 DEF Trims

\* A run leaves a pool that follows the one it found, or the one it found with
\* the head it resets to.
LEMMA ReorgFollows ==
  ASSUME NEW p, Sound(p), NEW r \in Runs, NEW q \in runReorg(p, r)
  PROVE  \E m : /\ Sound(m) /\ m.known = p.known /\ m.locals = p.locals
                /\ m.journal = p.journal /\ Follows(m, q)
  <1>1. r.reset # None => r.reset.old \in Heads /\ r.reset.new \in Heads
    BY Zenon DEF Runs, Resets
  <1>2. \A f : r.reset # None /\ f \in reset(p, r.reset.old, r.reset.new) =>
                 Follows(Moved(p, r.reset.new), f)
    BY Zenon, <1>1, ResetFollows
  <1>3. PICK f, m, v, c, n : Steps(p, r, q, f, m, v, c, n)
    BY Zenon, ReorgSteps
  <1>4. Sound(f)
    BY Zenon, <1>2, <1>3 DEF Steps, Follows
  <1>5. Follows(f, q)
    <2>1. Trims(f, m, v, c, n, q)
      BY Zenon, <1>3, <1>4, StepsTrim
    <2>2. Trimmed(f, v)
      BY Zenon, <2>1, TrimmedTwice DEF Trims
    <2>3. Trimmed(f, c)
      BY Zenon, <2>1, <2>2, TrimmedTwice DEF Trims
    <2>4. Trimmed(f, n)
      BY Zenon, <2>1, <2>3, TrimmedTwice DEF Trims
    <2>5. Trimmed(f, q)
      BY Zenon, <2>1, <2>4, TrimmedTwice DEF Trims
    <2> QED BY Zenon, <1>4, <2>5, TrimmedFollows
  <1>6. CASE r.reset = None
    BY Zenon, <1>3, <1>5, <1>6 DEF Steps
  <1>7. CASE r.reset # None
    <2>1. PICK p0 : p0 = Moved(p, r.reset.new)
      BY Zenon
    <2>2. Sound(p0) /\ p0.known = p.known /\ p0.locals = p.locals /\ p0.journal = p.journal
      BY <1>1, <1>7, <2>1, MovedSound
    <2>3. Follows(p0, f)
      BY Zenon, <1>2, <1>3, <1>7, <2>1 DEF Steps
    <2>4. Follows(p0, q)
      BY Zenon, <1>5, <2>2, <2>3, FollowsTwice
    <2> QED BY Zenon, <2>2, <2>4
  <1> QED BY Zenon, <1>6, <1>7

----------------------------------------------------------------------------
(* The pool at the start, and after a restart.                             *)

\* An empty pool is sound.
LEMMA EmptySound ==
  ASSUME NEW h \in Heads, NEW J, J \subseteq Txs, NEW q, q = EmptyPool(h, J)
  PROVE  Sound(q)
  <1>1. PICK n, g, e :
           /\ e = [a \in Accounts |-> {}]
           /\ q = [pending |-> e, queue |-> e, known |-> {}, remotes |-> {}, locals |-> {},
                   nonces |-> n, changes |-> 0, gasPrice |-> g, head |-> h, journal |-> J]
    BY Zenon DEF EmptyPool
  <1>2. Shape(q)
    BY <1>1 DEF Shape, Lists
  <1>3. q.known = All(q.pending) \cup All(q.queue)
    BY <1>1 DEF All
  <1>4. \A a \in Accounts : q.pending[a] = {} /\ q.queue[a] = {} /\ Both(q, a) = {}
    BY <1>1 DEF Both
  <1>5. q.remotes = {} /\ q.locals = {}
    BY <1>1
  <1>6. Internals(q)
    BY Zenon, <1>3, <1>4, <1>5 DEF Internals, Unique
  <1> QED BY <1>2, <1>6 DEF Sound

\* What the journal leaves in the pool when it is loaded.
Loaded(h, J) == {t \in J : validateTx(EmptyPool(h, J), t, TRUE)}
BestLoaded(h, J) == UNION {Best(Sent(Loaded(h, J), a)) : a \in Accounts}
Full(h, J) ==
  [EmptyPool(h, J) EXCEPT !.queue = [a \in Accounts |-> Sent(BestLoaded(h, J), a)],
                          !.known = BestLoaded(h, J),
                          !.locals = {t.from : t \in BestLoaded(h, J)}]

\* What is loaded is valid at the head, and only a better one is loaded in the
\* place of what is not.
LEMMA LoadedBest ==
  ASSUME NEW h \in Heads, NEW J, J \subseteq Txs
  PROVE  /\ BestLoaded(h, J) \subseteq J
         /\ \A a \in Accounts : Unique(Sent(BestLoaded(h, J), a))
         /\ \A t \in BestLoaded(h, J) : Ok(h, t)
         /\ \A t \in J : Ok(h, t) =>
              \E u \in BestLoaded(h, J) :
                u.from = t.from /\ u.nonce = t.nonce /\ (u = t \/ u.price > t.price)
  <1> DEFINE L == Loaded(h, J)
             B == BestLoaded(h, J)
  <1>1. EmptyPool(h, J).head = h
    BY Zenon DEF EmptyPool
  <1>2. \A t \in J : t \in L <=> Ok(h, t)
    BY Zenon, <1>1 DEF Loaded, validateTx, Ok
  <1>3. L \subseteq J
    BY Zenon DEF Loaded
  <1>4. \A a \in Accounts : Best(Sent(L, a)) \subseteq Sent(L, a) /\ Sent(L, a) \subseteq Sent(Txs, a)
    BY Zenon, <1>3 DEF Best, Sent
  <1>5. \A a \in Accounts : Sent(B, a) = Best(Sent(L, a))
    <2> TAKE a \in Accounts
    <2>1. Best(Sent(L, a)) \subseteq B
      BY DEF BestLoaded
    <2>2. Best(Sent(L, a)) \subseteq Sent(B, a)
      BY Zenon, <1>4, <2>1 DEF Sent
    <2>3. ASSUME NEW t \in Sent(B, a) PROVE t \in Best(Sent(L, a))
      <3>1. t \in B /\ t.from = a
        BY Zenon, <2>3 DEF Sent
      <3>2. PICK b \in Accounts : t \in Best(Sent(L, b))
        BY Zenon, <3>1 DEF BestLoaded
      <3>3. t.from = b
        BY Zenon, <1>4, <3>2 DEF Sent
      <3> QED BY Zenon, <3>1, <3>2, <3>3
    <2> QED BY Zenon, <2>2, <2>3
  <1>6. B \subseteq L
    BY Zenon, <1>4 DEF BestLoaded, Sent
  <1>7. \A a \in Accounts : Unique(Sent(B, a))
    BY Zenon, <1>4, <1>5, BestOfOneAccount
  <1>8. ASSUME NEW t \in J, Ok(h, t)
        PROVE  \E u \in B : u.from = t.from /\ u.nonce = t.nonce /\ (u = t \/ u.price > t.price)
    <2> DEFINE C == {v \in Sent(L, t.from) : v.nonce = t.nonce}
               P == {v.price : v \in C}
    <2>1. t \in C /\ t.from \in Accounts /\ C \subseteq Txs
      BY Zenon, <1>2, <1>3, <1>8, TxType DEF Sent
    <2>2. IsFiniteSet(C)
      BY Zenon, <2>1, FS_Subset, PoolAssumption
    <2>3. IsFiniteSet(P)
      <3>1. PICK f : f = [v \in C |-> v.price]
        BY Zenon
      <3>2. f \in Surjection(C, P)
        BY Zenon, <3>1 DEF Surjection
      <3> HIDE DEF C, P
      <3> QED BY Zenon, <2>2, <3>2, FS_Surjection
    <2>4. Indices(P) /\ P # {}
      BY Zenon, <2>1, TxType DEF Indices
    <2>5. PICK m : m \in P /\ \A n \in P : m >= n
      <3> HIDE DEF P
      <3> QED BY Zenon, <2>3, <2>4, MaxIn
    <2>6. PICK u \in C : u.price = m
      BY Zenon, <2>5
    <2>7. \A v \in C : u.price >= v.price
      BY Zenon, <2>5, <2>6
    <2>8. u \in Best(Sent(L, t.from))
      <3>1. \A v \in C : v.price <= u.price
        BY Zenon, <2>1, <2>6, <2>7, TxType
      <3>2. u \in Sent(L, t.from) /\ u.nonce = t.nonce
        BY Zenon, <2>6
      <3>3. \A v \in Sent(L, t.from) : v.nonce = u.nonce => v.price <= u.price
        BY Zenon, <3>1, <3>2
      <3> QED BY Zenon, <3>2, <3>3 DEF Best
    <2>9. u \in B
      BY Zenon, <2>1, <2>8 DEF BestLoaded
    <2>10. u.from = t.from /\ u.nonce = t.nonce /\ u \in Txs
      BY Zenon, <2>1, <2>6 DEF Sent
    <2>11. u = t \/ u.price > t.price
      <3>1. u.price >= t.price /\ u.price \in Nat /\ t.price \in Nat
        BY Zenon, <2>1, <2>7, <2>10, TxType
      <3>2. u.price = t.price => u = t
        BY <2>1, <2>10, PoolAssumption
      <3> QED BY <3>1, <3>2
    <2> QED BY Zenon, <2>9, <2>10, <2>11
  <1> HIDE DEF L, B
  <1>9. \A t \in B : Ok(h, t)
    BY Zenon, <1>2, <1>3, <1>6
  <1> QED BY Zenon, <1>3, <1>6, <1>7, <1>8, <1>9 DEF B

\* The pool with the journal loaded is sound, and its accounts are local.
LEMMA FullSound ==
  ASSUME NEW h \in Heads, NEW J, J \subseteq Txs, NEW q, q = Full(h, J), NEW B, B = BestLoaded(h, J)
  PROVE  /\ Sound(q) /\ q.known = B /\ q.locals = {t.from : t \in B} /\ q.head = h
         /\ q.journal = J
  <1>0. PICK E : E = EmptyPool(h, J)
    OBVIOUS
  <1>1. PICK n, g, e :
           /\ e = [a \in Accounts |-> {}]
           /\ E = [pending |-> e, queue |-> e, known |-> {}, remotes |-> {}, locals |-> {},
                   nonces |-> n, changes |-> 0, gasPrice |-> g, head |-> h, journal |-> J]
    BY Zenon, <1>0 DEF EmptyPool
  <1>2. PICK Q : Q = [a \in Accounts |-> Sent(B, a)]
    BY Zenon
  <1>3. PICK l : l = {t.from : t \in B}
    BY Zenon
  <1>4. q = [E EXCEPT !.queue = Q, !.known = B, !.locals = l]
    BY <1>0, <1>2, <1>3 DEF Full
  <1>5. PICK z : z = {}
    BY Zenon
  <1>6. E = [pending |-> e, queue |-> e, known |-> z, remotes |-> z, locals |-> z,
              nonces |-> n, changes |-> 0, gasPrice |-> g, head |-> h, journal |-> J]
    BY Zenon, <1>1, <1>5
  <1>7. q = [pending |-> e, queue |-> Q, known |-> B, remotes |-> z, locals |-> l,
             nonces |-> n, changes |-> 0, gasPrice |-> g, head |-> h, journal |-> J]
    BY Zenon, <1>4, <1>6
  <1>8. /\ q.pending = e /\ q.queue = Q /\ q.known = B /\ q.remotes = {} /\ q.locals = l
         /\ q.head = h /\ q.journal = J
    BY <1>7, <1>5
  <1>9. B \subseteq Txs /\ \A a \in Accounts : Unique(Sent(B, a))
    BY Zenon, LoadedBest
  <1>10. \A t \in B : t.from \in Accounts
    BY Zenon, <1>9, TxType
  <1>11. Q \in Lists /\ e \in Lists /\ l \subseteq Accounts
    BY Zenon, <1>1, <1>2, <1>3, <1>9, <1>10 DEF Lists, Sent
  <1>12. Shape(q)
    BY <1>7, <1>11 DEF Shape
  <1>13. B = All(e) \cup All(Q)
    BY <1>1, <1>2, <1>10 DEF All, Sent
  <1>14. \A a \in Accounts : e[a] = {} /\ Q[a] = Sent(B, a)
    BY Zenon, <1>1, <1>2
  <1>15. \A a \in Accounts : Both(q, a) = Sent(B, a) /\ q.pending[a] = {}
    BY Zenon, <1>14, <1>8 DEF Both
  <1>16. \A a \in Accounts : Both(q, a) \subseteq Sent(Txs, a) /\ Unique(Both(q, a))
    BY Zenon, <1>9, <1>15 DEF Sent
  <1>17. q.known = All(q.pending) \cup All(q.queue)
    BY Zenon, <1>13, <1>8
  <1>18. \A a \in Accounts : Sent(q.remotes, a) = {}
    BY Zenon, <1>8 DEF Sent
  <1>19. Internals(q)
    BY Zenon, <1>16, <1>17, <1>18, <1>8, <1>15 DEF Internals
  <1> QED BY Zenon, <1>12, <1>19, <1>3, <1>8 DEF Sound

\* rotate: the journal has every transaction of the local accounts.
Rotated(p) == [p EXCEPT !.journal = local(p)]

\* A rotated pool is sound, with all local transactions in its journal.
LEMMA RotatedSound ==
  ASSUME NEW p, Sound(p), NEW q, q = Rotated(p)
  PROVE  /\ Sound(q) /\ q.known = p.known /\ q.locals = p.locals /\ q.head = p.head
         /\ \A t \in q.known : t.from \in q.locals => t \in q.journal
  <1>1. PICK x1, x2, x3, x4, x5, x6, x7, x8, x9, x10 :
           p = [pending |-> x1, queue |-> x2, known |-> x3, remotes |-> x4,
                locals |-> x5, nonces |-> x6, changes |-> x7,
                gasPrice |-> x8, head |-> x9, journal |-> x10]
    BY Zenon DEF Sound, Shape
  <1>2. PICK J : J = local(p)
    OBVIOUS
  <1>3. q = [pending |-> x1, queue |-> x2, known |-> x3, remotes |-> x4,
             locals |-> x5, nonces |-> x6, changes |-> x7,
             gasPrice |-> x8, head |-> x9, journal |-> J]
    BY <1>1, <1>2 DEF Rotated
  <1>4. \A a \in p.locals : Both(p, a) \subseteq Txs
    BY Zenon DEF Sound, Shape, Internals, Sent
  <1>5. J \subseteq Txs
    BY Zenon, <1>2, <1>4 DEF local, Both
  <1>6. Shape(q)
    <2>0. x1 = p.pending /\ x2 = p.queue /\ x5 = p.locals /\ x9 = p.head
      BY <1>1
    <2>1. x1 \in Lists /\ x2 \in Lists /\ x5 \subseteq Accounts /\ x9 \in Heads
      BY Zenon, <2>0 DEF Sound, Shape
    <2> QED BY Zenon, <1>3, <1>5, <2>1, ShapeOfFields
  <1>7. /\ q.known = p.known /\ q.remotes = p.remotes /\ q.pending = p.pending
        /\ q.queue = p.queue /\ q.locals = p.locals /\ q.head = p.head /\ q.journal = J
    BY <1>1, <1>3
  <1>8. \A t \in p.known : t.from \in p.locals => t \in J
    BY Zenon, <1>2, KnownList DEF local, Both
  <1> QED BY Zenon, <1>6, <1>7, <1>8, SameInternals DEF Sound

----------------------------------------------------------------------------
(* The invariant, and what each step keeps.                                *)

\* The pool is sound, and requests and runs name heads.
PoolInv ==
  /\ Sound(pool) /\ chain \in Heads /\ request \in Requests
  /\ run = None \/ run \in Runs

\* Of a step from p to q: the transactions of local accounts stand, and those
\* that come are in the journal.
Kept(p, q) == \A t \in p.known : t.from \in p.locals => Stands(q, t)
Noted(p, q) ==
  \A t \in q.known : t.from \in q.locals /\ (t \in p.known => t \in p.journal) => t \in q.journal

\* The two for a step that follows p, or follows p with another head.
LEMMA FollowsKept ==
  ASSUME NEW p, NEW m, NEW q, m.known = p.known, m.locals = p.locals, m.journal = p.journal,
         Keeps(m, q), Journals(m, q)
  PROVE  Kept(p, q) /\ Noted(p, q)
  <1>1. Kept(p, q)
    BY Zenon DEF Keeps, Kept
  <1>2. Noted(p, q)
    BY Zenon DEF Journals, Noted
  <1> QED BY Zenon, <1>1, <1>2

\* The two for a step that trims ...
LEMMA TrimmedKept ==
  ASSUME NEW p, Sound(p), NEW q, Trimmed(p, q)
  PROVE  Sound(q) /\ Kept(p, q) /\ Noted(p, q)
  BY Zenon, TrimmedFollows, FollowsKept DEF Follows

\* ... and for one that leaves the pool alone.
LEMMA SameKept ==
  ASSUME NEW p
  PROVE  Kept(p, p) /\ Noted(p, p)
  BY Zenon DEF Kept, Noted, Stands

\* Type of a request that is merged.
LEMMA AskedRequest ==
  ASSUME NEW r \in Requests
  PROVE  Asked(r) \in Requests
  BY Zenon DEF Asked, Requests

\* Type of the first head.
LEMMA GenesisHead == Genesis \in Heads
  BY DEF Genesis, Heads

\* The invariant holds at the start.
LEMMA PoolInvInit == Init => PoolInv
  <1> SUFFICES ASSUME Init PROVE PoolInv
    OBVIOUS
  <1>1. Sound(pool)
    <2>1. {} \subseteq Txs
      OBVIOUS
    <2> QED BY Zenon, <2>1, GenesisHead, EmptySound DEF Init
  <1>2. request \in Requests
    BY Zenon DEF Init, NoRequest, Requests
  <1> QED BY Zenon, <1>1, <1>2, GenesisHead DEF Init, PoolInv

\* AddLocal and AddRemote.
LEMMA AddKeeps ==
  ASSUME PoolInv, NEW t \in Txs, NEW own \in BOOLEAN, addTxs(t, own)
  PROVE  PoolInv' /\ Kept(pool, pool') /\ Noted(pool, pool')
  <1>1. PICK p, q, r : p = pool /\ q = pool' /\ r = request
    BY Zenon
  <1>2. Sound(p) /\ r \in Requests
    BY Zenon, <1>1 DEF PoolInv
  <1>3. CASE rooms(pool, t, own) = {} /\ request' = Asked(request) /\ UNCHANGED pool
    <2>1. request' \in Requests
      BY Zenon, <1>1, <1>2, <1>3, AskedRequest
    <2>2. q = p
      BY Zenon, <1>1, <1>3
    <2> QED BY <1>1, <1>2, <2>1, <2>2, SameKept DEF PoolInv, addTxs
  <1>4. CASE \E m \in rooms(pool, t, own) :
               LET new == t.nonce \notin Nonces(m.pending[t.from] \cup m.queue[t.from]) IN
               /\ pool' = insert(m, t, own)
               /\ request' = Asked([request EXCEPT !.dirty = IF new THEN @ \cup {t.from} ELSE @])
    <2>1. PICK m \in rooms(p, t, own), c \in BOOLEAN :
             /\ q = insert(m, t, own)
             /\ request' = Asked([r EXCEPT !.dirty = IF c THEN @ \cup {t.from} ELSE @])
      BY Zenon, <1>1, <1>4
    <2>2. Sound(q) /\ Keeps(p, q) /\ Journals(p, q)
      BY <1>2, <2>1, RoomInsert
    <2>3. PICK s : s = [r EXCEPT !.dirty = IF c THEN @ \cup {t.from} ELSE @]
      BY Zenon
    <2>4. s \in Requests
      <3>1. t.from \in Accounts
        BY Zenon, TxType
      <3> QED BY <1>2, <2>3, <3>1 DEF Requests
    <2>5. request' \in Requests
      BY <2>1, <2>3, <2>4, AskedRequest
    <2>6. Kept(p, q) /\ Noted(p, q)
      BY Zenon, <2>2, FollowsKept
    <2> QED BY <1>1, <2>2, <2>5, <2>6 DEF PoolInv, addTxs
  <1> QED BY Zenon, <1>3, <1>4 DEF addTxs

\* A step that only drops what is expendable.
LEMMA DropKeeps ==
  ASSUME PoolInv, Trimmed(pool, pool'), UNCHANGED <<chain, request, run, turns>>
  PROVE  PoolInv' /\ Kept(pool, pool') /\ Noted(pool, pool')
  <1>1. PICK p, q : p = pool /\ q = pool'
    BY Zenon
  <1>2. Sound(q) /\ Kept(p, q) /\ Noted(p, q)
    BY Zenon, <1>1, TrimmedKept DEF PoolInv
  <1> QED BY Zenon, <1>1, <1>2 DEF PoolInv

\* SetGasPrice: remote transactions are of no local account.
LEMMA PriceKeeps ==
  ASSUME PoolInv, NEW price, SetGasPrice(price)
  PROVE  PoolInv' /\ Kept(pool, pool') /\ Noted(pool, pool')
  <1>1. PICK p, q, D : /\ p = pool /\ q = pool'
                       /\ D = {t \in pool.remotes : price > pool.gasPrice /\ t.price < price}
    BY Zenon
  <1>2. Sound(p)
    BY Zenon, <1>1 DEF PoolInv
  <1>3. D \subseteq p.known /\ \A d \in D : Expendable(p, d)
    <2>1. \A d \in p.remotes : d \in p.known /\ d.from \in Accounts
      BY Zenon, <1>2, KnownList DEF Sound, Internals
    <2>2. \A d \in p.remotes : d.from \notin p.locals
      BY Zenon, <1>2, <2>1 DEF Sound, Internals, Sent
    <2> QED BY Zenon, <1>1, <2>1, <2>2 DEF Expendable
  <1>4. PICK r : r = removeTx(p, D)
    OBVIOUS
  <1>5. q = [r EXCEPT !.gasPrice = price]
    BY <1>1, <1>4 DEF SetGasPrice
  <1>6. Trimmed(p, r)
    BY Zenon, <1>2, <1>3, <1>4, RemoveDrops DEF Trimmed
  <1>7. Trimmed(r, q)
    BY <1>2, <1>5, <1>6, TrimmedSound, OtherFields
  <1>8. Trimmed(p, q)
    BY Zenon, <1>6, <1>7, TrimmedTwice
  <1> QED BY <1>1, <1>8, DropKeeps DEF SetGasPrice

\* Evict: the queue of an account that is not local.
LEMMA EvictKeeps ==
  ASSUME PoolInv, NEW a \in Accounts, Evict(a)
  PROVE  PoolInv' /\ Kept(pool, pool') /\ Noted(pool, pool')
  <1>1. PICK p, q, D : p = pool /\ q = pool' /\ D = pool.queue[a]
    BY Zenon
  <1>2. Sound(p) /\ a \notin p.locals /\ q = removeTx(p, D)
    BY Zenon, <1>1 DEF PoolInv, Evict
  <1>3. D \subseteq p.known /\ \A d \in D : Expendable(p, d)
    <2>1. D \subseteq Both(p, a) /\ D \subseteq All(p.queue)
      BY Zenon, <1>1 DEF Both, All
    <2>2. \A d \in D : d.from = a
      BY Zenon, <1>2, <2>1 DEF Sound, Internals, Sent
    <2> QED BY Zenon, <1>2, <2>1, <2>2 DEF Expendable, Sound, Internals
  <1>4. Trimmed(p, q)
    BY Zenon, <1>2, <1>3, RemoveDrops DEF Trimmed
  <1> QED BY Zenon, <1>1, <1>4, DropKeeps DEF Evict

\* Rotate: the journal is what the local accounts have.
LEMMA RotateKeeps ==
  ASSUME PoolInv, Rotate
  PROVE  PoolInv' /\ Kept(pool, pool') /\ Noted(pool, pool')
  <1>1. PICK p, q : p = pool /\ q = pool'
    OBVIOUS
  <1>2. q = Rotated(p) /\ Sound(p)
    BY <1>1 DEF Rotate, Rotated, PoolInv
  <1>3. /\ Sound(q) /\ q.known = p.known
        /\ \A t \in q.known : t.from \in q.locals => t \in q.journal
    BY Zenon, <1>2, RotatedSound
  <1>4. Kept(p, q) /\ Noted(p, q)
    BY Zenon, <1>3 DEF Kept, Noted, Stands
  <1> QED BY <1>1, <1>3, <1>4 DEF PoolInv, Rotate

\* Launch.
LEMMA LaunchKeeps ==
  ASSUME PoolInv, Launch
  PROVE  PoolInv' /\ Kept(pool, pool') /\ Noted(pool, pool')
  <1>1. run' \in Runs
    BY Zenon DEF PoolInv, Launch, Requests, Runs
  <1>2. request' \in Requests
    BY Zenon DEF Launch, NoRequest, Requests
  <1>3. pool' = pool /\ chain' = chain
    BY Zenon DEF Launch
  <1> QED BY Zenon, <1>1, <1>2, <1>3, SameKept DEF PoolInv

\* RunReorg.
LEMMA RunKeeps ==
  ASSUME PoolInv, RunReorg
  PROVE  PoolInv' /\ Kept(pool, pool') /\ Noted(pool, pool')
  <1>1. PICK p, q, r : p = pool /\ q = pool' /\ r = run
    OBVIOUS
  <1>2. Sound(p) /\ r \in Runs /\ q \in runReorg(p, r)
    BY Zenon, <1>1 DEF PoolInv, RunReorg
  <1>3. PICK m : /\ Sound(m) /\ m.known = p.known /\ m.locals = p.locals
                 /\ m.journal = p.journal /\ Follows(m, q)
    BY Zenon, <1>2, ReorgFollows
  <1>4. Sound(q) /\ Kept(p, q) /\ Noted(p, q)
    BY Zenon, <1>3, FollowsKept DEF Follows
  <1> QED BY Zenon, <1>1, <1>4 DEF PoolInv, RunReorg

\* A new head only changes the request.
LEMMA RequestKeeps ==
  ASSUME PoolInv, NEW h \in Heads, requestReset(h)
  PROVE  PoolInv' /\ Kept(pool, pool') /\ Noted(pool, pool')
  <1>1. PICK r, c : r = request /\ c = chain
    OBVIOUS
  <1>2. r \in Requests /\ c \in Heads
    BY Zenon, <1>1 DEF PoolInv
  <1>3. PICK o : o = IF r.reset = None THEN c ELSE r.reset.old
    BY Zenon
  <1>4. o \in Heads
    BY Zenon, <1>2, <1>3 DEF Requests, Resets
  <1>5. PICK s : s = [r EXCEPT !.reset = [old |-> o, new |-> h]]
    BY Zenon
  <1>6. s \in Requests
    BY <1>2, <1>4, <1>5 DEF Requests, Resets
  <1>7. request' = Asked(s) /\ chain' = h /\ pool' = pool /\ run' = run
    BY <1>1, <1>3, <1>5 DEF requestReset
  <1>8. request' \in Requests
    BY Zenon, <1>6, <1>7, AskedRequest
  <1> QED BY Zenon, <1>7, <1>8, SameKept DEF PoolInv

\* A head and one transaction more.
LEMMA HeadExtended ==
  ASSUME NEW c \in Heads, NEW t \in Txs, NEW h, h = [c EXCEPT !.txs = Append(c.txs, t)]
  PROVE  h \in Heads /\ h.txs = Append(c.txs, t)
  <1>1. PICK x \in Seq(Txs), b \in BOOLEAN : c = [txs |-> x, poor |-> b]
    BY Zenon DEF Heads
  <1>2. PICK y : y = Append(x, t)
    BY Zenon
  <1>3. y \in Seq(Txs)
    BY <1>2
  <1>4. h = [txs |-> y, poor |-> b] /\ c.txs = x
    BY Zenon, <1>1, <1>2
  <1> QED BY Zenon, <1>2, <1>3, <1>4 DEF Heads

\* Extend.
LEMMA ExtendKeeps ==
  ASSUME PoolInv, NEW t \in Mined, Extend(t)
  PROVE  PoolInv' /\ Kept(pool, pool') /\ Noted(pool, pool')
  <1>1. PICK h, c : c = chain /\ h = [c EXCEPT !.txs = Append(c.txs, t)]
    BY Zenon
  <1>2. t \in Txs /\ c \in Heads
    BY Zenon, <1>1, PoolAssumption DEF PoolInv
  <1>3. h \in Heads
    BY Zenon, <1>1, <1>2, HeadExtended
  <1> QED BY <1>1, <1>3, RequestKeeps DEF Extend

\* Turn.
LEMMA TurnKeeps ==
  ASSUME PoolInv, Turn
  PROVE  PoolInv' /\ Kept(pool, pool') /\ Noted(pool, pool')
  <1>1. PICK n \in 0..Len(chain.txs), poor \in BOOLEAN :
           requestReset([txs |-> SubSeq(chain.txs, 1, n), poor |-> poor])
    BY Zenon DEF Turn
  <1>2. chain.txs \in Seq(Txs)
    BY Zenon DEF PoolInv, Heads
  <1>3. SubSeq(chain.txs, 1, n) \in Seq(Txs)
    BY <1>1, <1>2
  <1>4. PICK h : h = [txs |-> SubSeq(chain.txs, 1, n), poor |-> poor]
    BY Zenon
  <1>5. h \in Heads
    BY Zenon, <1>1, <1>3, <1>4 DEF Heads
  <1> QED BY Zenon, <1>1, <1>4, <1>5, RequestKeeps

\* A restart keeps what is in the journal.
LEMMA RestartKeeps ==
  ASSUME PoolInv, Restart
  PROVE  /\ PoolInv' /\ Noted(pool, pool')
         /\ \A t \in pool.journal : Stands(pool', t)
  <1>1. PICK p, q, h, J, f, B, m :
           /\ p = pool /\ q = pool' /\ h = chain /\ J = pool.journal
           /\ f = Full(h, J) /\ B = BestLoaded(h, J) /\ m = promoteExecutables(f, f.locals)
    BY Zenon
  <1>2. h \in Heads /\ J \subseteq Txs
    BY Zenon, <1>1 DEF PoolInv, Sound, Shape
  <1>3. q = Rotated(m)
    <2> DEFINE full  == Full(chain, pool.journal)
               ready == promoteExecutables(full, full.locals)
    <2>1. pool' = [ready EXCEPT !.journal = local(ready)]
      BY Zenon DEF Restart, Full, BestLoaded, Loaded
    <2>2. pool' = Rotated(ready)
      BY Zenon, <2>1 DEF Rotated
    <2> QED BY Zenon, <1>1, <2>2
  <1>4. Sound(f) /\ f.known = B /\ f.locals = {t.from : t \in B} /\ f.head = h
    <2>1. f = Full(h, J) /\ B = BestLoaded(h, J)
      BY Zenon, <1>1
    <2> QED BY <1>2, <2>1, FullSound
  <1>5. Trimmed(f, m)
    <2>1. f.locals \subseteq Accounts
      BY Zenon, <1>4 DEF Sound, Shape
    <2> QED BY Zenon, <1>1, <1>4, <2>1, PromoteTrims
  <1>6. Sound(m)
    BY Zenon, <1>4, <1>5, TrimmedSound
  <1>7. /\ Sound(q) /\ q.known = m.known /\ q.locals = m.locals /\ q.head = m.head
        /\ \A t \in q.known : t.from \in q.locals => t \in q.journal
    BY Zenon, <1>3, <1>6, RotatedSound
  <1>8. PICK D : Drops(f, m, D) /\ \A t \in D : Expendable(f, t)
    BY Zenon, <1>5 DEF Trimmed
  <1>9. q.head = h
    BY Zenon, <1>4, <1>7, <1>8 DEF Drops
  <1>10. /\ \A u \in B : u \in Txs /\ Ok(h, u)
         /\ \A t \in J : Ok(h, t) =>
              \E u \in B : u.from = t.from /\ u.nonce = t.nonce /\ (u = t \/ u.price > t.price)
    BY Zenon, <1>1, <1>2, LoadedBest
  <1>11. \A u \in B : u \in q.known
    <2> TAKE u \in B
    <2>1. u.from \in f.locals /\ Ok(f.head, u) /\ u \in Txs
      BY Zenon, <1>4, <1>10
    <2>2. u.nonce \in Nat /\ GetNonce(f.head, u.from) \in Nat
      BY Zenon, <1>2, <1>4, <2>1, TxType, GetNonceType
    <2>3. ~Expendable(f, u)
      BY <2>1, <2>2 DEF Expendable, Ok
    <2> QED BY Zenon, <1>4, <1>7, <1>8, <2>3 DEF Drops
  <1>12. \A t \in J : Stands(q, t)
    BY Zenon, <1>9, <1>10, <1>11 DEF Stands
  <1>13. Noted(p, q)
    BY Zenon, <1>7 DEF Noted
  <1>14. PoolInv'
    <2>1. request' \in Requests
      BY Zenon DEF Restart, NoRequest, Requests
    <2>2. run' = None /\ chain' = chain
      BY Zenon DEF Restart
    <2> QED BY Zenon, <1>1, <1>7, <2>1, <2>2 DEF PoolInv
  <1> QED BY Zenon, <1>1, <1>12, <1>13, <1>14

\* Every step.
LEMMA StepKeeps ==
  ASSUME PoolInv, Next
  PROVE  /\ PoolInv' /\ Noted(pool, pool')
         /\ Kept(pool, pool') \/ (Restart /\ \A t \in pool.journal : Stands(pool', t))
  <1>1. CASE AddLocal
    BY Zenon, <1>1, AddKeeps DEF AddLocal
  <1>2. CASE AddRemote
    BY Zenon, <1>2, AddKeeps DEF AddRemote
  <1>3. CASE \E price \in Prices : SetGasPrice(price)
    BY Zenon, <1>3, PriceKeeps
  <1>4. CASE \E a \in Accounts : Evict(a)
    BY Zenon, <1>4, EvictKeeps
  <1>5. CASE Rotate
    BY Zenon, <1>5, RotateKeeps
  <1>6. CASE Launch
    BY <1>6, LaunchKeeps
  <1>7. CASE RunReorg
    BY <1>7, RunKeeps
  <1>8. CASE \E t \in Mined : Extend(t)
    BY <1>8, ExtendKeeps
  <1>9. CASE Turn
    BY <1>9, TurnKeeps
  <1>10. CASE Restart
    BY Zenon, <1>10, RestartKeeps
  <1> QED BY Zenon, <1>1, <1>2, <1>3, <1>4, <1>5, <1>6, <1>7, <1>8, <1>9, <1>10 DEF Next

\* The invariant is inductive.
THEOREM PoolInvariant == Spec => []PoolInv
  <1>1. PoolInv /\ [Next]_vars => PoolInv'
    <2> SUFFICES ASSUME PoolInv, [Next]_vars PROVE PoolInv'
      OBVIOUS
    <2>1. CASE Next
      BY Zenon, <2>1, StepKeeps
    <2>2. CASE UNCHANGED vars
      BY Zenon, <2>2 DEF PoolInv, vars
    <2> QED BY <2>1, <2>2
  <1> QED BY <1>1, PoolInvInit, PTL DEF Spec

\* In every reachable pool, whatever the limits: known transactions are exactly
\* those in pending and the queue, each in one of them, one to a nonce, and none of
\* a local account is tracked for eviction (lookup, pricedList and the lists of
\* accounts agree after every addition, run, eviction and restart).
THEOREM PoolIsSound == Spec => []PoolInternals
  <1>1. PoolInv => PoolInternals
    BY Zenon DEF PoolInv, Sound, Internals, Both, Unique, PoolInternals
  <1> QED BY <1>1, PoolInvariant, PTL

\* Stands, of the next pool, is Settled.
LEMMA StandsSettled ==
  ASSUME PoolInv', NEW t \in Txs, Stands(pool', t)
  PROVE  Settled(t)'
  <1>1. PICK q : q = pool'
    OBVIOUS
  <1>2. t.nonce \in Nat /\ GetNonce(q.head, t.from) \in Nat
    BY Zenon, <1>1, TxType, GetNonceType DEF PoolInv, Sound, Shape
  <1>3. CASE t \in q.known
    BY Zenon, <1>1, <1>3 DEF Settled
  <1>4. CASE ~Ok(q.head, t)
    <2>1. t.nonce < GetNonce(q.head, t.from) \/ ~Pays(q.head, t)
      BY <1>2, <1>4 DEF Ok
    <2> QED BY Zenon, <1>1, <2>1 DEF Settled
  <1>5. CASE \E u \in q.known : u.from = t.from /\ u.nonce = t.nonce /\ u.price > t.price
    BY Zenon, <1>1, <1>5 DEF Settled, Sent
  <1> QED BY Zenon, <1>1, <1>3, <1>4, <1>5 DEF Stands

\* No step of the pool loses a transaction of a local account that the state still
\* allows, unless for a better one: not to make room, not by truncation, not by a
\* price limit, not by a reset, and not by a restart once it is in the journal.
\* Those that come while the account is local are put in the journal.
THEOREM LocalsStay == Spec => LocalsKept
  <1> DEFINE K == /\ \A t \in pool.known :
                       t.from \in pool.locals /\ (t \notin pool.journal => ~Restart) => Settled(t)'
                  /\ \A t \in pool'.known :
                       t.from \in pool'.locals /\ (t \in pool.known => t \in pool.journal)
                         => t \in pool'.journal
  <1>1. PoolInv /\ Next => K
    <2> SUFFICES ASSUME PoolInv, Next PROVE K
      BY Zenon
    <2>1. /\ PoolInv' /\ Noted(pool, pool')
          /\ Kept(pool, pool') \/ (Restart /\ \A t \in pool.journal : Stands(pool', t))
      BY Zenon, StepKeeps
    <2>2. ASSUME NEW t \in pool.known, t.from \in pool.locals, t \notin pool.journal => ~Restart
          PROVE  Settled(t)'
      <3>1. t \in Txs
        BY Zenon, KnownList DEF PoolInv
      <3>2. Stands(pool', t)
        BY Zenon, <2>1, <2>2 DEF Kept
      <3> QED BY Zenon, <2>1, <3>1, <3>2, StandsSettled
    <2>3. \A t \in pool'.known :
            t.from \in pool'.locals /\ (t \in pool.known => t \in pool.journal)
              => t \in pool'.journal
      BY Zenon, <2>1 DEF Noted
    <2> QED BY Zenon, <2>2, <2>3
  <1>2. PoolInv /\ [Next]_vars => [K]_vars
    BY Zenon, <1>1
  <1> QED BY <1>2, PoolInvariant, PTL DEF Spec, LocalsKept

=============================================================================
