-------------------------- MODULE TxPoolLineProofs --------------------------
(***************************************************************************)
(* What is pending of an account follows the nonce of the state without a  *)
(* gap, and the nonce the pool gives out follows what is pending: TxPool's *)
(* PendingInLine, for every pool, limits and order of events.              *)
(*                                                                         *)
(* Line(p, a) says it of the pool p.  An operation either leaves a list    *)
(* and its next nonce level (Level) or cuts it at a nonce and lowers the   *)
(* next one to it (Cuts); both leave what is in line in line, and so does  *)
(* promoteExecutables.  A reset does not: between the new head and         *)
(* demoteUnexecutables the list is only a row that starts where the old    *)
(* head's nonce was (Turned).  If all the chain has lost is back, its      *)
(* nonces fill the gap from the new head's nonce to that row, promotion    *)
(* takes them (Gapless), and demotion and setAll put the list in line.     *)
(* That the nonces fill the gap needs an invariant of its own, LineInv:    *)
(* the chain of every head counts the nonces of an account from 0          *)
(* (Chained), and the resets that wait lead from the pool's head to the    *)
(* chain's, so that reset compares the right heads (Linked).               *)
(***************************************************************************)
EXTENDS TxPoolProofs

----------------------------------------------------------------------------
(* Rows of nonces, and a list that is cut.                                 *)

\* The nonces from lo up to hi, without hi.
Row(lo, hi) == {n \in Nat : lo <= n /\ n < hi}

\* What is left of S below H, and the least of the nonce n and those of H.
Below(S, H) == {t \in S : \A u \in H : t.nonce < u.nonce}
Least(n, H) == Min({n} \cup Nonces(H))

\* The nonces of a set of transactions are natural numbers, finitely many.
LEMMA NoncesType ==
  ASSUME NEW S, S \subseteq Txs
  PROVE  Nonces(S) \subseteq Nat /\ IsFiniteSet(Nonces(S))
  <1>1. IsFiniteSet(S)
    BY Zenon, FS_Subset, PoolAssumption
  <1>2. PICK f : f = [t \in S |-> t.nonce]
    BY Zenon
  <1>3. f \in Surjection(S, Nonces(S))
    BY Zenon, <1>2 DEF Surjection, Nonces
  <1>4. IsFiniteSet(Nonces(S))
    BY Zenon, <1>1, <1>3, FS_Surjection
  <1> QED BY Zenon, <1>4, TxType DEF Nonces

\* The least is one of them, and no higher.
LEMMA LeastType ==
  ASSUME NEW n \in Nat, NEW H, H \subseteq Txs, NEW m, m = Least(n, H)
  PROVE  /\ m \in Nat /\ m <= n /\ \A k \in Nonces(H) : k >= m
         /\ m = n \/ m \in Nonces(H)
  <1>1. Nonces(H) \subseteq Nat /\ IsFiniteSet(Nonces(H))
    BY Zenon, NoncesType
  <1>2. PICK N : N = {n} \cup Nonces(H)
    BY Zenon
  <1>3. IsFiniteSet(N) /\ Indices(N) /\ N # {}
    <2>1. IsFiniteSet({n})
      BY Zenon, FS_Singleton
    <2>2. IsFiniteSet({n} \cup Nonces(H))
      BY Zenon, <1>1, <2>1, FS_Union
    <2> QED BY Zenon, <1>1, <1>2, <2>2 DEF Indices
  <1>4. m \in N /\ \A k \in N : k >= m
    BY Zenon, <1>2, <1>3, MinIn DEF Least
  <1>5. m \in Nat /\ n >= m /\ \A k \in Nonces(H) : k >= m
    BY Zenon, <1>2, <1>3, <1>4 DEF Indices
  <1>6. m <= n
    BY <1>5
  <1> QED BY Zenon, <1>2, <1>4, <1>5, <1>6

\* A row of nonces, up to hi, is cut below some of them, and nx lowered to these.
IsCut(S, H, lo, hi, nx, T, ny) ==
  /\ S \subseteq Txs /\ H \subseteq S /\ lo \in Nat /\ hi \in Nat /\ nx \in Nat
  /\ Nonces(S) = Row(lo, hi) /\ T = Below(S, H) /\ ny = Least(nx, H)

\* What is left is a row, up to m; nx is lowered to m, or not at all.
CutTo(lo, hi, nx, T, ny) ==
  /\ ny \in Nat /\ ny <= nx
  /\ \E m \in Nat : /\ Nonces(T) = Row(lo, m) /\ m <= hi /\ (lo <= hi => lo <= m)
                    /\ ny < nx => m = ny
                    /\ m < hi => ny <= m

\* A row that is cut is a row.
LEMMA CutRow ==
  ASSUME NEW S, NEW H, NEW lo, NEW hi, NEW nx, NEW T, NEW ny, IsCut(S, H, lo, hi, nx, T, ny)
  PROVE  CutTo(lo, hi, nx, T, ny)
  <1>0. /\ S \subseteq Txs /\ H \subseteq S /\ lo \in Nat /\ hi \in Nat /\ nx \in Nat
        /\ Nonces(S) = Row(lo, hi) /\ T = Below(S, H) /\ ny = Least(nx, H)
    BY Zenon DEF IsCut
  <1>1. Nonces(H) \subseteq Nat /\ IsFiniteSet(Nonces(H))
    BY Zenon, <1>0, NoncesType
  <1>5. /\ ny \in Nat /\ ny <= nx /\ \A n \in Nonces(H) : n >= ny
        /\ ny = nx \/ ny \in Nonces(H)
    <2>1. H \subseteq Txs
      BY Zenon, <1>0
    <2> QED BY Zenon, <1>0, <2>1, LeastType
  <1>6. CASE H = {}
    <2>1. T = S /\ Nonces(H) = {}
      BY Zenon, <1>0, <1>6 DEF Nonces, Below
    <2>2. ny = nx
      BY Zenon, <1>5, <2>1
    <2>3. hi <= hi /\ (lo <= hi => lo <= hi) /\ (ny < nx => hi = ny) /\ (hi < hi => ny <= hi)
      BY <1>0, <2>2
    <2> QED BY Zenon, <1>0, <1>5, <2>1, <2>3 DEF CutTo
  <1>7. CASE H # {}
    <2>1. Nonces(H) # {} /\ Indices(Nonces(H))
      BY Zenon, <1>1, <1>7 DEF Nonces, Indices
    <2>2. PICK m : m \in Nonces(H) /\ \A n \in Nonces(H) : n >= m
      BY Zenon, <1>1, <2>1, MinIn
    <2>3. m \in Nat /\ lo <= m /\ m < hi
      BY Zenon, <1>0, <2>2 DEF Nonces, Row
    <2>4. Nonces(T) = Row(lo, m)
      <3>1. ASSUME NEW t \in T PROVE t.nonce \in Row(lo, m)
        <4>1. t.nonce \in Row(lo, hi)
          BY Zenon, <1>0, <3>1 DEF Nonces, Below
        <4>2. t.nonce < m
          BY Zenon, <1>0, <2>2, <3>1 DEF Nonces, Below
        <4> QED BY Zenon, <4>1, <4>2 DEF Row
      <3>2. ASSUME NEW n \in Row(lo, m) PROVE n \in Nonces(T)
        <4>1. n \in Nat /\ lo <= n /\ n < m
          BY Zenon DEF Row
        <4>2. n < hi
          BY <1>0, <2>3, <4>1
        <4>3. PICK t \in S : t.nonce = n
          BY Zenon, <1>0, <4>1, <4>2 DEF Row, Nonces
        <4>4. \A i \in Nat : i >= m => n < i
          BY <2>3, <4>1
        <4>5. \A u \in H : t.nonce < u.nonce
          BY Zenon, <1>1, <2>2, <4>3, <4>4 DEF Nonces
        <4> QED BY Zenon, <1>0, <4>3, <4>5 DEF Nonces, Below
      <3> QED BY Zenon, <3>1, <3>2 DEF Nonces
    <2>5. ny <= m
      BY <1>0, <1>5, <2>2, <2>3
    <2>6. ny < nx => m = ny
      <3>1. ny = nx \/ ny >= m
        BY Zenon, <1>5, <2>2
      <3> QED BY <1>0, <1>5, <2>3, <2>5, <3>1
    <2>7. m <= hi /\ (lo <= hi => lo <= m)
      BY <1>0, <2>3
    <2> QED BY Zenon, <1>5, <2>3, <2>4, <2>5, <2>6, <2>7 DEF CutTo
  <1> QED BY Zenon, <1>6, <1>7

\* InLine, of the pool p.
Line(p, a) ==
  /\ p.nonces[a] \in Nat /\ GetNonce(p.head, a) <= p.nonces[a]
  /\ Nonces(p.pending[a]) = Row(GetNonce(p.head, a), p.nonces[a])

\* Of a pool in the middle of a reset, from a head with the nonce old to one with
\* the nonce new: what is pending is still a row, and no longer one of use where
\* the next nonce has fallen behind.
Turned(p, a, old, new) ==
  /\ p.nonces[a] \in Nat /\ p.nonces[a] <= new
  /\ \E k \in Nat : /\ Nonces(p.pending[a]) = Row(old, k)
                    /\ p.nonces[a] < new => k <= new

\* Pending transactions of a, and all that follow them, are gone in q.
Cuts(p, q, a) ==
  /\ q.head = p.head
  /\ \E H \in SUBSET p.pending[a] :
       /\ q.pending[a] = Below(p.pending[a], H)
       /\ q.nonces[a] = Least(p.nonces[a], H)

\* The nonces pending and the next one are the same.
Level(p, q, a) ==
  /\ q.head = p.head /\ q.nonces[a] = p.nonces[a]
  /\ Nonces(q.pending[a]) = Nonces(p.pending[a])

\* The pending transactions of a sound pool are transactions.
LEMMA PendingType ==
  ASSUME NEW p, Sound(p), NEW a \in Accounts
  PROVE  /\ p.pending[a] \subseteq Txs /\ p.queue[a] \subseteq Txs /\ p.head \in Heads
         /\ GetNonce(p.head, a) \in Nat
  <1>1. p.pending \in Lists /\ p.queue \in Lists /\ p.head \in Heads
    BY Zenon DEF Sound, Shape
  <1> QED BY Zenon, <1>1, GetNonceType DEF Lists

\* Cutting keeps a list in line ...
LEMMA CutsLine ==
  ASSUME NEW p, Sound(p), NEW a \in Accounts, NEW q, Cuts(p, q, a), Line(p, a)
  PROVE  Line(q, a)
  <1>1. PICK H \in SUBSET p.pending[a] :
           /\ q.pending[a] = Below(p.pending[a], H)
           /\ q.nonces[a] = Least(p.nonces[a], H)
    BY Zenon DEF Cuts
  <1>2. PICK S, T, lo, nx, ny : /\ S = p.pending[a] /\ T = q.pending[a] /\ lo = GetNonce(p.head, a)
                                /\ nx = p.nonces[a] /\ ny = q.nonces[a]
    BY Zenon
  <1>3. /\ S \subseteq Txs /\ lo \in Nat /\ nx \in Nat /\ lo <= nx /\ Nonces(S) = Row(lo, nx)
        /\ H \subseteq S /\ T = Below(S, H) /\ ny = Least(nx, H)
    BY Zenon, <1>1, <1>2, PendingType DEF Line
  <1>4. CutTo(lo, nx, nx, T, ny)
    <2>1. IsCut(S, H, lo, nx, nx, T, ny)
      BY Zenon, <1>3 DEF IsCut
    <2> QED BY Zenon, <2>1, CutRow
  <1>5. PICK m \in Nat : /\ Nonces(T) = Row(lo, m) /\ m <= nx /\ lo <= m
                         /\ ny < nx => m = ny
                         /\ m < nx => ny <= m
    BY Zenon, <1>3, <1>4 DEF CutTo
  <1>6. ny \in Nat /\ ny <= nx
    BY Zenon, <1>4 DEF CutTo
  <1>8. m = ny
    BY <1>3, <1>5, <1>6
  <1>7. q.head = p.head
    BY Zenon DEF Cuts
  <1> QED BY Zenon, <1>2, <1>5, <1>6, <1>7, <1>8 DEF Line

\* ... and one that a reset has turned.
LEMMA CutsTurned ==
  ASSUME NEW p, Sound(p), NEW a \in Accounts, NEW q, Cuts(p, q, a),
         NEW old \in Nat, NEW new \in Nat,
         Turned(p, a, old, new)
  PROVE  Turned(q, a, old, new)
  <1>1. PICK H \in SUBSET p.pending[a] :
           /\ q.pending[a] = Below(p.pending[a], H)
           /\ q.nonces[a] = Least(p.nonces[a], H)
    BY Zenon DEF Cuts
  <1>2. PICK S, T, nx, ny : /\ S = p.pending[a] /\ T = q.pending[a]
                            /\ nx = p.nonces[a] /\ ny = q.nonces[a]
    BY Zenon
  <1>3. PICK k \in Nat : Nonces(S) = Row(old, k) /\ (nx < new => k <= new)
    BY Zenon, <1>2 DEF Turned
  <1>4. /\ S \subseteq Txs /\ nx \in Nat /\ nx <= new
        /\ H \subseteq S /\ T = Below(S, H) /\ ny = Least(nx, H)
    BY Zenon, <1>1, <1>2, PendingType DEF Turned
  <1>5. CutTo(old, k, nx, T, ny)
    <2>1. IsCut(S, H, old, k, nx, T, ny)
      BY Zenon, <1>3, <1>4 DEF IsCut
    <2> QED BY Zenon, <2>1, CutRow
  <1>6. PICK m \in Nat : Nonces(T) = Row(old, m) /\ m <= k /\ (ny < nx => m = ny)
    BY Zenon, <1>5 DEF CutTo
  <1>7. ny \in Nat /\ ny <= nx
    BY Zenon, <1>5 DEF CutTo
  <1>8. ny <= new /\ (ny < new => m <= new)
    BY <1>3, <1>4, <1>6, <1>7
  <1> QED BY Zenon, <1>2, <1>6, <1>7, <1>8 DEF Turned

\* The next nonce is a nonce after it.
LEMMA CutsNext ==
  ASSUME NEW p, Sound(p), NEW a \in Accounts, NEW q, Cuts(p, q, a), p.nonces[a] \in Nat
  PROVE  q.nonces[a] \in Nat
  <1>1. PICK H \in SUBSET p.pending[a] : q.nonces[a] = Least(p.nonces[a], H)
    BY Zenon DEF Cuts
  <1>2. H \subseteq Txs
    BY Zenon, PendingType
  <1> QED BY Zenon, <1>1, <1>2, LeastType

\* The same where nothing is cut.
LEMMA LevelLine ==
  ASSUME NEW p, NEW a, NEW q, Level(p, q, a)
  PROVE  /\ Line(p, a) => Line(q, a)
         /\ q.nonces[a] = p.nonces[a]
         /\ \A old, new : Turned(p, a, old, new) => Turned(q, a, old, new)
  BY Zenon DEF Level, Line, Turned

----------------------------------------------------------------------------
(* Pools, field by field, and what leaves the lists of an account alone.   *)

\* p is a record with the fields of a pool.
Fields(p, x1, x2, x3, x4, x5, x6, x7, x8, x9, x10) ==
  p = [pending |-> x1, queue |-> x2, known |-> x3, remotes |-> x4, locals |-> x5,
       nonces |-> x6, changes |-> x7, gasPrice |-> x8, head |-> x9, journal |-> x10]
IsPool(p) ==
  \E x1, x2, x3, x4, x5, x6, x7, x8, x9, x10 : Fields(p, x1, x2, x3, x4, x5, x6, x7, x8, x9, x10)

\* q has the lists pending, the nonces and the head of p.
Still(p, q) == IsPool(q) /\ q.pending = p.pending /\ q.nonces = p.nonces /\ q.head = p.head

\* A sound pool is a pool.
LEMMA SoundPool ==
  ASSUME NEW p, Sound(p)
  PROVE  IsPool(p)
  BY Zenon DEF Sound, Shape, IsPool, Fields

\* q is p with other fields set.
Sets(p, q, x, y) ==
  \/ q = [p EXCEPT !.queue = x] \/ q = [p EXCEPT !.known = x, !.remotes = y]
  \/ q = [p EXCEPT !.locals = x, !.remotes = y] \/ q = [p EXCEPT !.journal = x]
  \/ q = [p EXCEPT !.changes = x] \/ q = [p EXCEPT !.gasPrice = x] \/ q = p

\* Setting one of the other fields leaves them.
LEMMA OthersStill ==
  ASSUME NEW p, IsPool(p), NEW x, NEW y, NEW q, Sets(p, q, x, y)
  PROVE  Still(p, q)
  <1>1. PICK x1, x2, x3, x4, x5, x6, x7, x8, x9, x10 :
           Fields(p, x1, x2, x3, x4, x5, x6, x7, x8, x9, x10)
    BY Zenon DEF IsPool
  <1>2. PICK y2, y3, y4, y5, y7, y8, y10 : Fields(q, x1, y2, y3, y4, y5, x6, y7, y8, x9, y10)
    BY Zenon, <1>1 DEF Fields, Sets
  <1>3. q.pending = p.pending /\ q.nonces = p.nonces /\ q.head = p.head
    BY <1>1, <1>2 DEF Fields
  <1> QED BY Zenon, <1>2, <1>3 DEF Still, IsPool

\* lookup.Remove ...
LEMMA ForgetStill ==
  ASSUME NEW p, IsPool(p), NEW D, NEW q, q = Forget(p, D)
  PROVE  Still(p, q)
  <1>1. PICK x, y : x = p.known \ D /\ y = p.remotes \ D
    BY Zenon
  <1>2. q = [p EXCEPT !.known = x, !.remotes = y]
    BY Zenon, <1>1 DEF Forget
  <1>3. Sets(p, q, x, y)
    BY Zenon, <1>2 DEF Sets
  <1> QED BY Zenon, <1>3, OthersStill

\* ... enqueueTx ...
LEMMA EnqueueStill ==
  ASSUME NEW p, IsPool(p), NEW D, NEW q, q = enqueueTx(p, D)
  PROVE  Still(p, q)
  <1> DEFINE queue == [a \in Accounts |-> Best(p.queue[a] \cup Sent(D, a))]
             O == UNION {p.queue[a] \ queue[a] : a \in Accounts}
  <1>1. q = Forget([p EXCEPT !.queue = queue], O)
    BY Zenon DEF enqueueTx
  <1> HIDE DEF queue, O
  <1>2. PICK x, G, r : x = queue /\ G = O /\ r = [p EXCEPT !.queue = x]
    BY Zenon
  <1>3. q = Forget(r, G)
    BY Zenon, <1>1, <1>2
  <1>4. Still(p, r)
    <2>1. Sets(p, r, x, x)
      BY Zenon, <1>2 DEF Sets
    <2> QED BY Zenon, <2>1, OthersStill
  <1>5. IsPool(r)
    BY Zenon, <1>4 DEF Still
  <1>6. Still(r, q)
    BY Zenon, <1>3, <1>5, ForgetStill
  <1> QED BY Zenon, <1>4, <1>6 DEF Still

\* ... lookup.Add and journalTx leave them as well.
LEMMA KnownStill ==
  ASSUME NEW p, IsPool(p), NEW t, NEW isLocal, NEW q,
         q = journalTx(p, t) \/ q = Known(p, t, isLocal)
  PROVE  Still(p, q)
  <1>1. CASE q = journalTx(p, t)
    <2>1. PICK x : x = p.journal \cup {t}
      BY Zenon
    <2>2. q = p \/ q = [p EXCEPT !.journal = x]
      BY Zenon, <1>1, <2>1 DEF journalTx
    <2>3. Sets(p, q, x, x)
      BY Zenon, <2>2 DEF Sets
    <2> QED BY Zenon, <2>3, OthersStill
  <1>2. CASE q = Known(p, t, isLocal)
    <2>1. PICK x, y : x = p.known \cup {t} /\ y = IF isLocal THEN p.remotes ELSE p.remotes \cup {t}
      BY Zenon
    <2>2. q = [p EXCEPT !.known = x, !.remotes = y]
      BY Zenon, <1>2, <2>1 DEF Known
    <2>3. Sets(p, q, x, y)
      BY Zenon, <2>2 DEF Sets
    <2> QED BY Zenon, <2>3, OthersStill
  <1> QED BY Zenon, <1>1, <1>2

\* The lists and the nonces are set, and transactions forgotten.
SetTo(p, q, P, N) == IsPool(q) /\ q.pending = P /\ q.nonces = N /\ q.head = p.head
SetsLists(p, q, P, Q, N, D) == q = Forget(SetLists(p, P, Q, N), D)

\* Only these are set.
LEMMA SetStill ==
  ASSUME NEW p, IsPool(p), NEW P, NEW Q, NEW N, NEW D, NEW q, SetsLists(p, q, P, Q, N, D)
  PROVE  SetTo(p, q, P, N)
  <1>1. PICK x1, x2, x3, x4, x5, x6, x7, x8, x9, x10 :
           Fields(p, x1, x2, x3, x4, x5, x6, x7, x8, x9, x10)
    BY Zenon DEF IsPool
  <1>2. PICK r : r = SetLists(p, P, Q, N)
    BY Zenon
  <1>3. Fields(r, P, Q, x3, x4, x5, N, x7, x8, x9, x10)
    BY Zenon, <1>1, <1>2 DEF Fields, SetLists
  <1>4. r.pending = P /\ r.nonces = N /\ r.head = p.head
    BY <1>1, <1>3 DEF Fields
  <1>5. IsPool(r)
    BY Zenon, <1>3 DEF IsPool
  <1>6. q = Forget(r, D)
    BY Zenon, <1>2 DEF SetsLists
  <1>7. Still(r, q)
    BY Zenon, <1>5, <1>6, ForgetStill
  <1> QED BY Zenon, <1>4, <1>7 DEF Still, SetTo

\* removeTx cuts pending.
LEMMA RemoveCuts ==
  ASSUME NEW p, IsPool(p), NEW D, NEW q, q = removeTx(p, D)
  PROVE  IsPool(q) /\ q.head = p.head /\ \A a \in Accounts : Cuts(p, q, a)
  <1> DEFINE hit(b)  == {t \in p.pending[b] : t.nonce \in Nonces(Sent(D, b))}
             rest(b) == {t \in p.pending[b] : \A u \in hit(b) : t.nonce < u.nonce}
             late(b) == Nonces(Sent(D, b)) \ Nonces(hit(b))
             P == [b \in Accounts |-> rest(b)]
             Q == [b \in Accounts |-> {t \in p.queue[b] : t.nonce \notin late(b)}]
             N == [b \in Accounts |-> Min({p.nonces[b]} \cup Nonces(hit(b)))]
             M == UNION {p.pending[b] \ (rest(b) \cup hit(b)) : b \in Accounts}
  <1>1. q = enqueueTx(Forget(SetLists(p, P, Q, N), D), M)
    BY DEF removeTx, SetLists
  <1>6. ASSUME NEW a \in Accounts
        PROVE  /\ P[a] = Below(p.pending[a], hit(a)) /\ N[a] = Least(p.nonces[a], hit(a))
               /\ hit(a) \in SUBSET p.pending[a]
    BY Zenon DEF Below, Least
  <1> HIDE DEF hit, P, Q, N, M
  <1>2. PICK r : r = Forget(SetLists(p, P, Q, N), D)
    BY Zenon
  <1>3. q = enqueueTx(r, M)
    BY Zenon, <1>1, <1>2
  <1>4. SetTo(p, r, P, N)
    <2>1. SetsLists(p, r, P, Q, N, D)
      BY Zenon, <1>2 DEF SetsLists
    <2> QED BY Zenon, <2>1, SetStill
  <1>5. Still(r, q)
    BY Zenon, <1>3, <1>4, EnqueueStill DEF SetTo
  <1>8. q.head = p.head /\ q.pending = P /\ q.nonces = N /\ IsPool(q)
    BY Zenon, <1>4, <1>5 DEF Still, SetTo
  <1> QED BY Zenon, <1>6, <1>8 DEF Cuts

----------------------------------------------------------------------------
(* add: a list in line stays in line.                                      *)

\* A step from p to q leaves what is in line in line.
Lines(p, q, a) ==
  /\ Line(p, a) => Line(q, a)
  /\ p.nonces[a] \in Nat => q.nonces[a] \in Nat
  /\ \A old, new \in Nat : Turned(p, a, old, new) => Turned(q, a, old, new)

\* It does where pending is cut, or its nonces are the same ...
LEMMA LinesOf ==
  ASSUME NEW p, Sound(p), NEW a \in Accounts, NEW q, Cuts(p, q, a) \/ Level(p, q, a)
  PROVE  Lines(p, q, a)
  <1>1. CASE Cuts(p, q, a)
    BY Zenon, <1>1, CutsLine, CutsTurned, CutsNext DEF Lines
  <1>2. CASE Level(p, q, a)
    BY Zenon, <1>2, LevelLine DEF Lines
  <1> QED BY Zenon, <1>1, <1>2

\* ... and one may follow another.
LEMMA LinesTwice ==
  ASSUME NEW p, NEW q, NEW r, NEW a, Lines(p, q, a), Lines(q, r, a)
  PROVE  Lines(p, r, a)
  BY Zenon DEF Lines

\* Where nothing of it is set, it is level.
LEMMA StillLevel ==
  ASSUME NEW p, NEW q, Still(p, q), NEW a
  PROVE  Level(p, q, a)
  BY Zenon DEF Still, Level

\* What is cut from a pool that is level is cut.
LEMMA StillCuts ==
  ASSUME NEW p, NEW q, NEW r, NEW a, Still(p, q), Cuts(q, r, a)
  PROVE  Cuts(p, r, a)
  BY Zenon DEF Still, Cuts

\* makeRoom cuts, or leaves the pool.
LEMMA RoomCuts ==
  ASSUME NEW p, Sound(p), NEW t, NEW isLocal, NEW q \in makeRoom(p, t, isLocal), NEW a \in Accounts
  PROVE  Lines(p, q, a)
  <1>1. CASE q = p
    BY Zenon, <1>1, LinesOf DEF Level
  <1>2. CASE q # p
    <2>1. PICK D \in SUBSET p.remotes : q = removeTx([p EXCEPT !.changes = @ + Cardinality(D)], D)
      BY Zenon, <1>2 DEF makeRoom, Discards
    <2>2. PICK x, r : x = p.changes + Cardinality(D) /\ r = [p EXCEPT !.changes = x]
      BY Zenon
    <2>3. Still(p, r)
      <3>1. Sets(p, r, x, x)
        BY Zenon, <2>2 DEF Sets
      <3> QED BY Zenon, <3>1, SoundPool, OthersStill
    <2>4. IsPool(r) /\ q = removeTx(r, D)
      BY Zenon, <2>1, <2>2, <2>3 DEF Still
    <2>5. Cuts(r, q, a)
      BY Zenon, <2>4, RemoveCuts
    <2> QED BY Zenon, <2>3, <2>5, StillCuts, LinesOf
  <1> QED BY Zenon, <1>1, <1>2

\* A pending transaction is replaced by one of its nonce.
LEMMA ReplaceLevel ==
  ASSUME NEW p, Sound(p), NEW t \in Txs, t \notin p.known, NEW isLocal \in BOOLEAN,
         t.nonce \in Nonces(p.pending[t.from]), NEW q, q = replace(p, t, isLocal),
         NEW a \in Accounts
  PROVE  Level(p, q, a)
  <1>1. CASE q = p
    BY Zenon, <1>1 DEF Level
  <1>2. CASE q # p
    <2>1. PICK b, S, L : b = t.from /\ S = p.pending[b] /\ L = Best(S \cup {t})
      BY Zenon
    <2>2. PICK O, p1 : O = S \ L /\ p1 = [p EXCEPT !.pending[t.from] = L]
      BY Zenon
    <2>3. t \in L /\ q = journalTx(Known(Forget(p1, O), t, isLocal), t)
      BY Zenon, <1>2, <2>1, <2>2 DEF replace
    <2>4. /\ S \subseteq Sent(Txs, b) /\ Unique(S) /\ t \notin S /\ b \in Accounts
          /\ t \in Sent(Txs, b)
      <3>1. b \in Accounts
        BY Zenon, <2>1, TxType
      <3>2. Both(p, b) \subseteq Sent(Txs, b) /\ Unique(Both(p, b)) /\ S \subseteq Both(p, b)
        BY Zenon, <2>1, <3>1 DEF Sound, Internals, Both
      <3>3. S \subseteq p.known
        <4>1. p.known = All(p.pending) \cup All(p.queue)
          BY Zenon DEF Sound, Internals
        <4>2. S \subseteq All(p.pending)
          BY Zenon, <2>1, <3>1 DEF All
        <4> QED BY Zenon, <4>1, <4>2
      <3>4. t \in Sent(Txs, b)
        BY Zenon, <2>1 DEF Sent
      <3>5. S \subseteq Sent(Txs, b)
        BY Zenon, <3>2
      <3>7. t \notin S
        BY Zenon, <3>3
      <3>6. Unique(S)
        BY Zenon, <3>2 DEF Unique
      <3> QED BY Zenon, <3>1, <3>4, <3>5, <3>6, <3>7
    <2>5. L = (S \ {o \in S : o.nonce = t.nonce}) \cup {t}
      <3>1. t \in Best(S \cup {t})
        BY Zenon, <2>1, <2>3
      <3>2. Best(S \cup {t}) = (S \ {o \in S : o.nonce = t.nonce}) \cup {t}
        BY <2>4, <3>1, BestInsert
      <3> QED BY Zenon, <2>1, <3>2
    <2>6. Nonces(L) = Nonces(S)
      <3>1. t.nonce \in Nonces(S)
        BY Zenon, <2>1
      <3>2. ASSUME NEW u \in L PROVE u.nonce \in Nonces(S)
        BY Zenon, <2>5, <3>1 DEF Nonces
      <3>3. ASSUME NEW u \in S PROVE u.nonce \in Nonces(L)
        BY Zenon, <2>5 DEF Nonces
      <3> QED BY Zenon, <3>2, <3>3 DEF Nonces
    <2>7. PICK P : P = [p.pending EXCEPT ![b] = L]
      BY Zenon
    <2>8. IsPool(p1) /\ p1.pending = P /\ p1.nonces = p.nonces /\ p1.head = p.head
      <3>1. PICK x1, x2, x3, x4, x5, x6, x7, x8, x9, x10 :
               Fields(p, x1, x2, x3, x4, x5, x6, x7, x8, x9, x10)
        BY Zenon, SoundPool DEF IsPool
      <3>2. P = [x1 EXCEPT ![b] = L]
        BY <2>7, <3>1 DEF Fields
      <3>3. Fields(p1, P, x2, x3, x4, x5, x6, x7, x8, x9, x10)
        BY Zenon, <2>1, <2>2, <3>1, <3>2 DEF Fields
      <3>4. p1.pending = P /\ p1.nonces = p.nonces /\ p1.head = p.head
        BY <3>1, <3>3 DEF Fields
      <3> QED BY Zenon, <3>3, <3>4 DEF IsPool
    <2>9. PICK p2, p3 : p2 = Forget(p1, O) /\ p3 = Known(p2, t, isLocal)
      BY Zenon
    <2>10. Still(p1, p2)
      BY Zenon, <2>8, <2>9, ForgetStill
    <2>11. IsPool(p2)
      BY Zenon, <2>10 DEF Still
    <2>12. Still(p2, p3)
      BY Zenon, <2>9, <2>11, KnownStill
    <2>13. IsPool(p3) /\ q = journalTx(p3, t)
      BY Zenon, <2>3, <2>9, <2>12 DEF Still
    <2>14. Still(p3, q)
      BY Zenon, <2>13, KnownStill
    <2>15. q.pending = P /\ q.nonces = p.nonces /\ q.head = p.head
      BY Zenon, <2>8, <2>10, <2>12, <2>14 DEF Still
    <2>16. Nonces(P[a]) = Nonces(p.pending[a])
      <3>1. p.pending \in Lists
        BY Zenon DEF Sound, Shape
      <3>2. P[a] = IF a = b THEN L ELSE p.pending[a]
        BY Zenon, <2>7, <3>1 DEF Lists
      <3> QED BY Zenon, <2>1, <2>6, <3>2
    <2> QED BY Zenon, <2>15, <2>16 DEF Level
  <1> QED BY Zenon, <1>1, <1>2

\* A transaction that is queued is not pending.
LEMMA EnqueueLevel ==
  ASSUME NEW p, IsPool(p), NEW t, NEW isLocal, NEW own \in BOOLEAN, NEW q,
         q = enqueue(p, t, isLocal, own), NEW a
  PROVE  Level(p, q, a)
  <1>1. PICK r, k : r = enqueueTx(p, {t}) /\ k = Known(r, t, isLocal)
    BY Zenon
  <1>2. Still(p, r)
    BY Zenon, <1>1, EnqueueStill
  <1>3. IsPool(r)
    BY Zenon, <1>2 DEF Still
  <1>4. Still(r, k)
    BY Zenon, <1>1, <1>3, KnownStill
  <1>5. PICK x, y, m : /\ x = k.locals \cup {t.from} /\ y = k.remotes \ Sent(k.remotes, t.from)
                       /\ m = [k EXCEPT !.locals = x, !.remotes = y]
    BY Zenon
  <1>6. Still(k, m)
    <2>1. Sets(k, m, x, y) /\ IsPool(k)
      BY Zenon, <1>4, <1>5 DEF Sets, Still
    <2> QED BY Zenon, <2>1, OthersStill
  <1>7. q = p \/ q = journalTx(m, t) \/ q = journalTx(k, t)
    BY Zenon, <1>1, <1>5 DEF enqueue
  <1>8. CASE q = p
    BY Zenon, <1>8 DEF Level
  <1>9. CASE q = journalTx(m, t) \/ q = journalTx(k, t)
    <2>1. IsPool(m) /\ IsPool(k)
      BY Zenon, <1>4, <1>6 DEF Still
    <2>2. Still(m, q) \/ Still(k, q)
      BY Zenon, <1>9, <2>1, KnownStill
    <2> QED BY Zenon, <1>2, <1>4, <1>6, <2>2 DEF Still, Level
  <1> QED BY Zenon, <1>7, <1>8, <1>9

\* A transaction is added, with the room that is made for it.
LEMMA AddLines ==
  ASSUME NEW p, Sound(p), NEW t \in Txs, NEW own \in BOOLEAN, NEW r \in rooms(p, t, own),
         NEW q, q = insert(r, t, own), NEW a \in Accounts
  PROVE  Lines(p, q, a)
  <1>1. PICK isLocal : isLocal = IsLocal(p, t, own)
    BY Zenon
  <1>2. t \notin p.known /\ r \in makeRoom(p, t, isLocal)
    BY Zenon, <1>1 DEF rooms
  <1>3. Sound(r) /\ t \notin r.known
    BY Zenon, <1>2, MakeRoomTrims, TrimmedFollows DEF Follows
  <1>4. Lines(p, r, a)
    BY Zenon, <1>2, RoomCuts
  <1>5. PICK b \in BOOLEAN : b = IsLocal(r, t, own)
    BY Zenon DEF IsLocal
  <1>6. \/ t.nonce \in Nonces(r.pending[t.from]) /\ q = replace(r, t, b)
        \/ q = enqueue(r, t, b, own)
    BY Zenon, <1>5 DEF insert
  <1>7. Level(r, q, a)
    BY Zenon, <1>3, <1>6, SoundPool, ReplaceLevel, EnqueueLevel
  <1> QED BY Zenon, <1>3, <1>4, <1>7, LinesOf, LinesTwice

\* add, as a reset uses it.
LEMMA ReinjectLines ==
  ASSUME NEW p, Sound(p), NEW t \in Txs, NEW q \in add(p, t, FALSE), NEW a \in Accounts
  PROVE  Lines(p, q, a)
  <1>1. CASE q = p
    BY Zenon, <1>1 DEF Lines
  <1>2. CASE q # p
    <2>1. PICK own \in BOOLEAN : \E r \in rooms(p, t, own) : q = insert(r, t, own)
      BY Zenon, <1>2 DEF add
    <2> QED BY Zenon, <2>1, AddLines
  <1> QED BY Zenon, <1>1, <1>2

----------------------------------------------------------------------------
(* truncatePending, and the nonces that are ready.                         *)

\* The nonces of S below n are as many as ...
Lower(S, n) == {u \in S : u.nonce < n}

\* ... and fewer for a lower n.
LEMMA LowerCount ==
  ASSUME NEW S, S \subseteq Txs, NEW m \in Nat, NEW n \in Nat, m <= n
  PROVE  /\ Cardinality(Lower(S, m)) \in Nat /\ Cardinality(Lower(S, n)) \in Nat
         /\ Cardinality(Lower(S, m)) <= Cardinality(Lower(S, n))
  <1>1. IsFiniteSet(S)
    BY Zenon, FS_Subset, PoolAssumption
  <1>2. Lower(S, m) \subseteq S /\ Lower(S, n) \subseteq S
    BY Zenon DEF Lower
  <1>3. IsFiniteSet(Lower(S, m)) /\ IsFiniteSet(Lower(S, n))
    BY Zenon, <1>1, <1>2, FS_Subset
  <1>4. Lower(S, m) \subseteq Lower(S, n)
    <2>1. \A k \in Nat : k < m => k < n
      OBVIOUS
    <2> QED BY Zenon, <2>1, TxType DEF Lower
  <1> QED BY Zenon, <1>3, <1>4, FS_Subset, FS_CardinalityType

\* list.Cap cuts from the lowest nonce that goes.
LEMMA CapCuts ==
  ASSUME NEW S, S \subseteq Txs, NEW n \in Nat, NEW C, C = Cap(S, n)
  PROVE  C = Below(S, S \ C)
  <1>1. C = {t \in S : Cardinality(Lower(S, t.nonce)) < n}
    BY Zenon DEF Cap, Lower
  <1>2. ASSUME NEW t \in C, NEW u \in S \ C PROVE t.nonce < u.nonce
    <2>1. t.nonce \in Nat /\ u.nonce \in Nat
      BY Zenon, <1>1, TxType
    <2>2. SUFFICES ASSUME u.nonce <= t.nonce PROVE FALSE
      BY <2>1
    <2>3. PICK i, j : i = Cardinality(Lower(S, u.nonce)) /\ j = Cardinality(Lower(S, t.nonce))
      BY Zenon
    <2>4. i \in Nat /\ j \in Nat /\ i <= j
      BY Zenon, <2>1, <2>2, <2>3, LowerCount
    <2>5. j < n /\ ~(i < n)
      BY Zenon, <1>1, <1>2, <2>3
    <2> QED BY <2>4, <2>5
  <1>3. ASSUME NEW t \in S, t \notin C PROVE t \notin Below(S, S \ C)
    <2>1. t.nonce \in Nat
      BY Zenon, TxType
    <2>2. ~(t.nonce < t.nonce)
      BY <2>1
    <2> QED BY Zenon, <1>3, <2>2 DEF Below
  <1> QED BY Zenon, <1>1, <1>2, <1>3 DEF Below

\* truncatePending, with the level it cuts to.
CutAt(p, n, P, N) ==
  \A a \in Accounts : /\ P[a] = p.pending[a] \/ P[a] = Cap(p.pending[a], n)
                      /\ N[a] = Least(p.nonces[a], p.pending[a] \ P[a])

\* truncatePending cuts to a level.
LEMMA TruncateLevel ==
  ASSUME NEW p, Sound(p), NEW q, q = truncatePending(p)
  PROVE  \E n \in Nat : \E P, N, D : SetsLists(p, q, P, p.queue, N, D) /\ CutAt(p, n, P, N)
  <1> DEFINE len(a) == Cardinality(p.pending[a])
             spam   == {a \in Accounts \ p.locals : len(a) > AccountSlots}
             cut(n) == [a \in Accounts |-> IF a \in spam THEN Cap(p.pending[a], n)
                                           ELSE p.pending[a]]
             all    == {AccountSlots} \cup {len(a) : a \in spam}
             levels == AccountSlots..Max(all)
             fits   == {n \in levels : Cardinality(All(cut(n))) <= GlobalSlots}
             level  == IF fits = {} THEN AccountSlots ELSE Max(fits)
             lists  == cut(level)
             G(a) == p.pending[a] \ lists[a]
             D == UNION {G(a) : a \in Accounts}
             N == [a \in Accounts |-> Min({p.nonces[a]} \cup Nonces(G(a)))]
  <1>1. q = Forget([p EXCEPT !.pending = lists, !.nonces = N], D)
    BY DEF truncatePending
  <1>2. ASSUME NEW a \in Accounts
        PROVE  /\ lists[a] = p.pending[a] \/ lists[a] = Cap(p.pending[a], level)
               /\ N[a] = Least(p.nonces[a], p.pending[a] \ lists[a])
    BY Zenon DEF Least
  <1>3. level \in Nat
    <2>1. AccountSlots \in Nat
      BY PoolAssumption
    <2>2. \A a \in Accounts : IsFiniteSet(p.pending[a]) /\ p.pending[a] \subseteq Txs
      BY Zenon, PendingType, FS_Subset, PoolAssumption
    <2>3. PICK c \in Nat : c = Cardinality(Txs)
      BY Zenon, FS_CardinalityType, PoolAssumption
    <2>4. \A a \in Accounts : len(a) \in Nat /\ len(a) <= c
      BY Zenon, <2>2, <2>3, FS_Subset, FS_CardinalityType, PoolAssumption
    <2> HIDE DEF len
    <2>5. all \subseteq Nat /\ all # {} /\ \A n \in all : n <= c + AccountSlots
      BY <2>1, <2>4
    <2> HIDE DEF all
    <2>6. IsFiniteSet(all) /\ Indices(all)
      <3>1. c + AccountSlots \in Nat
        BY <2>1
      <3> QED BY Zenon, <2>5, <3>1, FS_BoundedSetOfNaturals DEF Indices
    <2>7. PICK m \in Nat : m = Max(all)
      BY Zenon, <2>5, <2>6, MaxIn
    <2>8. fits \subseteq AccountSlots..m
      BY Zenon, <2>7
    <2> HIDE DEF fits
    <2>9. fits \subseteq Nat /\ \A n \in fits : n <= m
      BY <2>1, <2>8
    <2>10. IsFiniteSet(fits) /\ Indices(fits)
      BY Zenon, <2>9, FS_BoundedSetOfNaturals DEF Indices
    <2>11. fits # {} => Max(fits) \in fits
      BY Zenon, <2>10, MaxIn
    <2> QED BY Zenon, <2>1, <2>9, <2>11
  <1> HIDE DEF level, lists, N, D
  <1>4. CutAt(p, level, lists, N)
    BY Zenon, <1>2 DEF CutAt
  <1>5. PICK L, M : L = lists /\ M = N
    BY Zenon
  <1>6. [p EXCEPT !.pending = L, !.nonces = M] = SetLists(p, L, p.queue, M)
    <2>1. PICK x1, x2, x3, x4, x5, x6, x7, x8, x9, x10 :
             Fields(p, x1, x2, x3, x4, x5, x6, x7, x8, x9, x10)
      BY Zenon, SoundPool DEF IsPool
    <2> QED BY Zenon, <2>1 DEF Fields, SetLists
  <1>7. SetsLists(p, q, L, p.queue, M, D)
    BY Zenon, <1>1, <1>5, <1>6 DEF SetsLists
  <1> QED BY Zenon, <1>3, <1>4, <1>5, <1>7

\* truncatePending cuts.
LEMMA TruncateCuts ==
  ASSUME NEW p, Sound(p), NEW q, q = truncatePending(p), NEW a \in Accounts
  PROVE  Cuts(p, q, a)
  <1>1. PICK n, P, N, D :
           n \in Nat /\ SetsLists(p, q, P, p.queue, N, D) /\ CutAt(p, n, P, N)
    BY Zenon, TruncateLevel
  <1>4. SetTo(p, q, P, N)
    BY Zenon, <1>1, SoundPool, SetStill
  <1>5. /\ q.head = p.head /\ q.pending[a] = P[a]
        /\ q.nonces[a] = Least(p.nonces[a], p.pending[a] \ P[a])
    BY Zenon, <1>1, <1>4 DEF SetTo, CutAt
  <1>6. p.pending[a] \subseteq Txs
    BY Zenon, PendingType
  <1>7. P[a] = Below(p.pending[a], p.pending[a] \ P[a])
    <2>1. CASE P[a] = p.pending[a]
      BY Zenon, <2>1 DEF Below
    <2>2. CASE P[a] = Cap(p.pending[a], n)
      <3>1. n \in Nat
        BY Zenon, <1>1
      <3> QED BY Zenon, <1>6, <2>2, <3>1, CapCuts
    <2> QED BY Zenon, <1>1, <2>1, <2>2 DEF CutAt
  <1> QED BY Zenon, <1>5, <1>7 DEF Cuts

\* Every nonce from lo up to one in N is in N.
From(lo, N) == \A n \in N : lo <= n /\ \A j \in Nat : lo <= j /\ j <= n => j \in N

\* Such nonces are a row.
LEMMA FromRow ==
  ASSUME NEW S, S \subseteq Txs, S # {}, NEW lo \in Nat, From(lo, Nonces(S))
  PROVE  \E m \in Nat : m = Max(Nonces(S)) + 1 /\ lo < m /\ Nonces(S) = Row(lo, m)
  <1>1. PICK N : N = Nonces(S)
    BY Zenon
  <1>2. IsFiniteSet(N) /\ Indices(N) /\ N # {} /\ N \subseteq Nat
    BY Zenon, <1>1, NoncesType DEF Indices, Nonces
  <1>3. PICK x : x = Max(N)
    BY Zenon
  <1>4. x \in N /\ \A n \in N : x >= n
    BY Zenon, <1>2, <1>3, MaxIn
  <1>5. x \in Nat /\ lo <= x /\ x + 1 \in Nat /\ lo < x + 1
    <2>1. x \in Nat /\ lo <= x
      BY Zenon, <1>1, <1>2, <1>4 DEF From
    <2> QED BY <2>1
  <1>6. ASSUME NEW n \in N PROVE n \in Row(lo, x + 1)
    <2>1. n \in Nat /\ lo <= n /\ x >= n
      BY Zenon, <1>1, <1>2, <1>4, <1>6 DEF From
    <2>2. n < x + 1
      BY <1>5, <2>1
    <2> QED BY Zenon, <2>1, <2>2 DEF Row
  <1>7. ASSUME NEW n \in Row(lo, x + 1) PROVE n \in N
    <2>1. n \in Nat /\ lo <= n /\ n < x + 1
      BY Zenon DEF Row
    <2>2. n <= x
      BY <1>5, <2>1
    <2> QED BY Zenon, <1>1, <1>4, <2>1, <2>2 DEF From
  <1>8. N = Row(lo, x + 1)
    BY Zenon, <1>6, <1>7
  <1> QED BY Zenon, <1>1, <1>3, <1>5, <1>8

\* What is ready is the lowest row, and complete.
IsReady(V, n, R, lo, hi) ==
  /\ lo <= n /\ lo < hi /\ hi = Max(Nonces(R)) + 1 /\ Nonces(R) = Row(lo, hi)
  /\ lo \in Nonces(V)
  /\ \A k \in Nat : lo <= k /\ (\A j \in Nat : lo <= j /\ j <= k => j \in Nonces(V)) => k < hi

\* list.Ready.
LEMMA ReadyRow ==
  ASSUME NEW V, V \subseteq Txs, NEW n \in Nat, NEW R, R = Ready(V, n), R # {}
  PROVE  \E lo, hi \in Nat : IsReady(V, n, R, lo, hi)
  <1>1. PICK N : N = Nonces(V)
    BY Zenon
  <1>2. PICK u \in V : u.nonce <= n
    BY Zenon DEF Ready
  <1>3. IsFiniteSet(N) /\ Indices(N) /\ N # {} /\ N \subseteq Nat /\ u.nonce \in N
    BY Zenon, <1>1, <1>2, NoncesType DEF Indices, Nonces
  <1>4. PICK lo : lo = Min(N)
    BY Zenon
  <1>5. lo \in N /\ lo \in Nat /\ \A k \in N : k >= lo
    BY Zenon, <1>3, <1>4, MinIn
  <1>6. lo <= n
    <2>1. u.nonce \in Nat /\ u.nonce >= lo
      BY Zenon, <1>3, <1>5
    <2> QED BY <1>2, <1>5, <2>1
  <1>7. R = {t \in V : \A k \in lo..t.nonce : k \in N}
    BY Zenon, <1>1, <1>2, <1>4 DEF Ready
  <1>8. \A i, j \in Nat : i >= j => j <= i
    OBVIOUS
  <1>9. \A j, k \in Nat : j \in lo..k <=> lo <= j /\ j <= k
    BY <1>5
  <1>14. \A j : \A k \in Nat : j \in lo..k => j \in Nat
    BY <1>5
  <1>10. ASSUME NEW k \in Nat, lo <= k, \A j \in Nat : lo <= j /\ j <= k => j \in N
         PROVE  k \in Nonces(R)
    <2>1. k \in N
      <3>1. k <= k
        OBVIOUS
      <3> QED BY Zenon, <1>10, <3>1
    <2>2. PICK t \in V : t.nonce = k
      BY Zenon, <1>1, <2>1 DEF Nonces
    <2>3. \A j \in lo..t.nonce : j \in N
      BY Zenon, <1>9, <1>10, <1>14, <2>2
    <2> QED BY Zenon, <1>7, <2>2, <2>3 DEF Nonces
  <1>11. From(lo, Nonces(R))
    <2> SUFFICES ASSUME NEW t \in R
                 PROVE  lo <= t.nonce /\ \A j \in Nat : lo <= j /\ j <= t.nonce => j \in Nonces(R)
      BY Zenon DEF From, Nonces
    <2>1. t \in V /\ t.nonce \in Nat /\ t.nonce \in N
      BY Zenon, <1>1, <1>7, TxType DEF Nonces
    <2>2. lo <= t.nonce
      BY Zenon, <1>5, <1>8, <2>1
    <2>3. ASSUME NEW j \in Nat, lo <= j, j <= t.nonce PROVE j \in Nonces(R)
      <3>1. ASSUME NEW i \in Nat, lo <= i, i <= j PROVE i \in N
        <4>1. i <= t.nonce
          BY <2>1, <2>3, <3>1
        <4> QED BY Zenon, <1>7, <1>9, <2>1, <3>1, <4>1
      <3> QED BY Zenon, <1>10, <2>3, <3>1
    <2> QED BY Zenon, <2>2, <2>3
  <1>12. PICK hi \in Nat : hi = Max(Nonces(R)) + 1 /\ lo < hi /\ Nonces(R) = Row(lo, hi)
    <2>1. R \subseteq Txs
      BY Zenon, <1>7
    <2> QED BY Zenon, <1>5, <1>11, <2>1, FromRow
  <1>13. ASSUME NEW k \in Nat, lo <= k, \A j \in Nat : lo <= j /\ j <= k => j \in N
         PROVE  k < hi
    BY Zenon, <1>10, <1>12, <1>13 DEF Row
  <1>15. IsReady(V, n, R, lo, hi)
    BY Zenon, <1>1, <1>5, <1>6, <1>12, <1>13 DEF IsReady
  <1> QED BY Zenon, <1>5, <1>15

----------------------------------------------------------------------------
(* promoteExecutables.                                                     *)

\* What may leave the queue of a, and what promoteExecutables makes of its lists.
Valid(p, a) == {t \in p.queue[a] : t.nonce >= GetNonce(p.head, a) /\ Pays(p.head, t)}
Promotes(p, q, a, V, R) ==
  /\ V = Valid(p, a) /\ R = Ready(V, p.nonces[a])
  /\ q.head = p.head
  /\ q.pending[a] = p.pending[a] \cup R /\ q.queue[a] \subseteq V
  /\ q.nonces[a] = IF R = {} THEN p.nonces[a] ELSE Max(Nonces(R)) + 1
Passed(p, q, a) ==
  q.head = p.head /\ q.pending[a] = p.pending[a] /\ q.nonces[a] = p.nonces[a]

\* promoteExecutables, for one account.
LEMMA PromoteIs ==
  ASSUME NEW p, Sound(p), NEW A, A \subseteq Accounts, NEW q, q = promoteExecutables(p, A),
         NEW a \in Accounts
  PROVE  /\ a \in A => \E V, R : Promotes(p, q, a, V, R)
         /\ a \notin A => Passed(p, q, a)
  <1> DEFINE valid(b) == {t \in p.queue[b] : t.nonce >= GetNonce(p.head, b) /\ Pays(p.head, t)}
             ready(b) == Ready(valid(b), p.nonces[b])
             list(b)  == Best(p.pending[b] \cup ready(b))
             rest(b)  == valid(b) \ ready(b)
             kept(b)  == IF b \in p.locals THEN rest(b) ELSE Cap(rest(b), AccountQueue)
             P == [b \in Accounts |-> IF b \in A THEN list(b) ELSE p.pending[b]]
             Q == [b \in Accounts |-> IF b \in A THEN kept(b) ELSE p.queue[b]]
             N == [b \in Accounts |-> IF b \in A /\ ready(b) \cap list(b) # {}
                                      THEN Max(Nonces(ready(b) \cap list(b))) + 1 ELSE p.nonces[b]]
             D == UNION {(p.queue[b] \ valid(b)) \cup ((p.pending[b] \cup ready(b)) \ list(b))
                           \cup (rest(b) \ kept(b)) : b \in A}
  <1>1. q = Forget(SetLists(p, P, Q, N), D)
    BY DEF promoteExecutables, SetLists
  <1>2. valid(a) = Valid(p, a)
    BY Zenon DEF Valid
  <1>3. valid(a) \subseteq p.queue[a]
    BY Zenon
  <1>4. ready(a) \subseteq valid(a)
    BY Zenon DEF Ready
  <1>5. kept(a) \subseteq rest(a)
    BY Zenon DEF Cap
  <1>6. rest(a) \subseteq valid(a)
    BY Zenon
  <1> HIDE DEF valid
  <1>7. list(a) = p.pending[a] \cup ready(a)
    <2>1. Unique(Both(p, a)) /\ Both(p, a) \subseteq Txs
      BY Zenon DEF Sound, Internals, Sent
    <2>2. p.pending[a] \cup ready(a) \subseteq Both(p, a)
      BY Zenon, <1>3, <1>4 DEF Both
    <2>3. Unique(p.pending[a] \cup ready(a)) /\ p.pending[a] \cup ready(a) \subseteq Txs
      BY Zenon, <2>1, <2>2 DEF Unique
    <2> QED BY Zenon, <2>3, BestUnique
  <1>12. ready(a) = Ready(valid(a), p.nonces[a])
    BY Zenon
  <1> HIDE DEF ready, list, kept, rest
  <1>8. /\ P[a] = IF a \in A THEN list(a) ELSE p.pending[a]
        /\ Q[a] = IF a \in A THEN kept(a) ELSE p.queue[a]
        /\ N[a] = IF a \in A /\ ready(a) \cap list(a) # {}
                  THEN Max(Nonces(ready(a) \cap list(a))) + 1 ELSE p.nonces[a]
    BY Zenon
  <1>9. /\ q.head = p.head /\ q.pending = P /\ q.queue = Q /\ q.nonces = N
    <2> HIDE DEF P, Q, N, D
    <2>1. SetTo(p, q, P, N)
      <3>1. SetsLists(p, q, P, Q, N, D)
        BY Zenon, <1>1 DEF SetsLists
      <3> QED BY Zenon, <3>1, SoundPool, SetStill
    <2>2. q.queue = Q
      <3>1. PICK x1, x2, x3, x4, x5, x6, x7, x8, x9, x10 :
               Fields(p, x1, x2, x3, x4, x5, x6, x7, x8, x9, x10)
        BY Zenon, SoundPool DEF IsPool
      <3>2. PICK y1, y2, y6, r : y1 = P /\ y2 = Q /\ y6 = N /\ r = SetLists(p, y1, y2, y6)
        BY Zenon
      <3>3. Fields(r, y1, y2, x3, x4, x5, y6, x7, x8, x9, x10)
        BY Zenon, <3>1, <3>2 DEF Fields, SetLists
      <3>4. PICK k, m : k = r.known \ D /\ m = r.remotes \ D
        BY Zenon
      <3>5. q = [r EXCEPT !.known = k, !.remotes = m]
        BY Zenon, <1>1, <3>2, <3>4 DEF Forget
      <3>6. Fields(q, y1, y2, k, m, x5, y6, x7, x8, x9, x10)
        BY Zenon, <3>3, <3>5 DEF Fields
      <3>7. q.queue = y2
        BY <3>6 DEF Fields
      <3> QED BY Zenon, <3>2, <3>7
    <2> QED BY Zenon, <2>1, <2>2 DEF SetTo
  <1> HIDE DEF P, Q, N
  <1>10. CASE a \in A
    <2>1. ready(a) \cap list(a) = ready(a)
      BY Zenon, <1>7
    <2>2. Promotes(p, q, a, valid(a), ready(a))
      BY Zenon, <1>2, <1>5, <1>6, <1>7, <1>8, <1>9, <1>10, <1>12, <2>1 DEF Promotes
    <2> QED BY Zenon, <1>10, <2>2
  <1>11. CASE a \notin A
    BY Zenon, <1>8, <1>9, <1>11 DEF Passed
  <1> QED BY Zenon, <1>10, <1>11

\* Nonces of what is ready, or nothing.
LEMMA PromoteReady ==
  ASSUME NEW p, Sound(p), NEW q, NEW a \in Accounts, NEW V, NEW R, Promotes(p, q, a, V, R),
         p.nonces[a] \in Nat, R # {}
  PROVE  \E lo, hi \in Nat : /\ IsReady(V, p.nonces[a], R, lo, hi)
                             /\ q.nonces[a] = hi /\ GetNonce(p.head, a) <= lo
                             /\ V \subseteq p.queue[a]
  <1>1. V \subseteq p.queue[a] /\ \A t \in V : t.nonce >= GetNonce(p.head, a)
    BY Zenon DEF Promotes, Valid
  <1>2. p.queue[a] \subseteq Txs /\ GetNonce(p.head, a) \in Nat
    BY Zenon, PendingType
  <1>3. V \subseteq Txs /\ R = Ready(V, p.nonces[a])
    BY Zenon, <1>1, <1>2 DEF Promotes
  <1>4. PICK lo, hi \in Nat : IsReady(V, p.nonces[a], R, lo, hi)
    BY Zenon, <1>3, ReadyRow
  <1>5. q.nonces[a] = hi
    <2>1. q.nonces[a] = Max(Nonces(R)) + 1
      BY Zenon DEF Promotes
    <2>2. hi = Max(Nonces(R)) + 1
      BY Zenon, <1>4 DEF IsReady
    <2> QED BY Zenon, <2>1, <2>2
  <1>6. lo >= GetNonce(p.head, a)
    BY Zenon, <1>1, <1>4 DEF IsReady, Nonces
  <1>7. GetNonce(p.head, a) <= lo
    BY <1>2, <1>4, <1>6
  <1> QED BY Zenon, <1>1, <1>4, <1>5, <1>7

\* promoteExecutables keeps a list in line: what is ready starts at the next nonce.
LEMMA PromoteLine ==
  ASSUME NEW p, Sound(p), NEW A, A \subseteq Accounts, NEW q, q = promoteExecutables(p, A),
         NEW a \in Accounts, Line(p, a)
  PROVE  Line(q, a)
  <1>1. CASE a \notin A
    <2>1. Passed(p, q, a)
      BY Zenon, <1>1, PromoteIs
    <2> QED BY Zenon, <2>1 DEF Line, Passed
  <1>2. CASE a \in A
    <2>1. PICK V, R : Promotes(p, q, a, V, R)
      BY Zenon, <1>2, PromoteIs
    <2>2. q.head = p.head /\ q.pending[a] = p.pending[a] \cup R
      BY Zenon, <2>1 DEF Promotes
    <2>3. CASE R = {}
      <3>1. q.nonces[a] = p.nonces[a] /\ q.pending[a] = p.pending[a]
        BY Zenon, <2>1, <2>3 DEF Promotes
      <3> QED BY Zenon, <2>2, <3>1 DEF Line
    <2>4. CASE R # {}
      <3>1. PICK first, next : first = GetNonce(p.head, a) /\ next = p.nonces[a]
        BY Zenon
      <3>2. /\ first \in Nat /\ next \in Nat /\ first <= next
            /\ Nonces(p.pending[a]) = Row(first, next)
        BY Zenon, <3>1, PendingType DEF Line
      <3>3. PICK lo, hi \in Nat : /\ IsReady(V, next, R, lo, hi) /\ q.nonces[a] = hi
                                  /\ first <= lo /\ V \subseteq p.queue[a]
        BY Zenon, <2>1, <2>4, <3>1, <3>2, PromoteReady
      <3>4. lo <= next /\ lo < hi /\ Nonces(R) = Row(lo, hi) /\ lo \in Nonces(V)
        BY Zenon, <3>3 DEF IsReady
      <3>5. ~(lo < next)
        <4> SUFFICES ASSUME lo < next PROVE FALSE
          BY Zenon
        <4>1. PICK u \in p.pending[a] : u.nonce = lo
          BY Zenon, <3>2, <3>3 DEF Row, Nonces
        <4>2. PICK v \in p.queue[a] : v.nonce = lo
          BY Zenon, <3>3, <3>4 DEF Nonces
        <4>3. /\ p.pending[a] \cap p.queue[a] = {} /\ Unique(Both(p, a))
          BY Zenon DEF Sound, Internals
        <4>4. u = v
          BY Zenon, <4>1, <4>2, <4>3 DEF Unique, Both
        <4> QED BY Zenon, <4>1, <4>2, <4>3, <4>4
      <3>6. lo = next /\ next <= hi /\ first <= hi
        BY <3>2, <3>3, <3>4, <3>5
      <3>7. Row(first, next) \cup Row(next, hi) = Row(first, hi)
        BY <3>2, <3>3, <3>6 DEF Row
      <3>8. Nonces(q.pending[a]) = Nonces(p.pending[a]) \cup Nonces(R)
        BY Zenon, <2>2 DEF Nonces
      <3>9. Nonces(q.pending[a]) = Row(first, hi)
        BY Zenon, <3>2, <3>4, <3>6, <3>7, <3>8
      <3> QED BY Zenon, <2>2, <3>1, <3>3, <3>6, <3>9 DEF Line
    <2> QED BY Zenon, <2>3, <2>4
  <1> QED BY Zenon, <1>1, <1>2

----------------------------------------------------------------------------
(* demoteUnexecutables and setAll.                                         *)

\* If lo is in N, so is every nonce from lo up to one in N.
Gapless(lo, N) == lo \in N => \A n \in N : \A j \in Nat : lo <= j /\ j <= n => j \in N

\* What a reset has turned is without a gap at the new head once it is promoted, if
\* the nonces the chain has lost are back.
LEMMA PromoteGapless ==
  ASSUME NEW p, Sound(p), NEW q, NEW a \in Accounts, NEW V, NEW R, Promotes(p, q, a, V, R),
         NEW old \in Nat, NEW new \in Nat, new = GetNonce(p.head, a), Turned(p, a, old, new),
         \A j \in Nat : new <= j /\ j < old => j \in Nonces(Both(q, a))
  PROVE  Gapless(new, Nonces(q.pending[a]))
  <1>1. PICK next \in Nat : next = p.nonces[a] /\ next <= new
    BY Zenon DEF Turned
  <1>2. PICK k \in Nat : Nonces(p.pending[a]) = Row(old, k)
    BY Zenon DEF Turned
  <1>3. Nonces(q.pending[a]) = Row(old, k) \cup Nonces(R)
    BY Zenon, <1>2 DEF Promotes, Nonces
  <1> SUFFICES ASSUME new \in Nonces(q.pending[a]), NEW n \in Nonces(q.pending[a]), NEW j \in Nat,
                      new <= j, j <= n
               PROVE  j \in Nonces(q.pending[a])
    BY Zenon DEF Gapless
  <1>4. CASE R = {}
    <2>1. Nonces(R) = {}
      BY Zenon, <1>4 DEF Nonces
    <2>2. n \in Row(old, k) /\ new \in Row(old, k)
      BY Zenon, <1>3, <2>1
    <2>3. j \in Row(old, k)
      BY <2>2 DEF Row
    <2> QED BY Zenon, <1>3, <2>3
  <1>5. CASE R # {}
    <2>1. PICK lo, hi \in Nat : /\ IsReady(V, next, R, lo, hi) /\ new <= lo
      BY Zenon, <1>1, <1>5, PromoteReady
    <2>2. /\ lo <= next /\ lo < hi /\ Nonces(R) = Row(lo, hi)
          /\ \A c \in Nat :
               lo <= c /\ (\A i \in Nat : lo <= i /\ i <= c => i \in Nonces(V)) => c < hi
      BY Zenon, <2>1 DEF IsReady
    <2>3. lo = new
      BY <1>1, <2>1, <2>2
    <2>4. CASE j < hi
      <3>1. j \in Row(lo, hi)
        BY Zenon, <2>3, <2>4 DEF Row
      <3> QED BY Zenon, <1>3, <2>2, <3>1
    <2>5. CASE ~(j < hi)
      <3>1. n \in Row(old, k)
        <4>1. n \in Row(old, k) \/ n \in Row(lo, hi)
          BY Zenon, <1>3, <2>2
        <4> QED BY <2>5, <4>1 DEF Row
      <3>2. CASE old <= j
        <4>1. j \in Row(old, k)
          BY <3>1, <3>2 DEF Row
        <4> QED BY Zenon, <1>3, <4>1
      <3>3. CASE j < old
        <4>1. ASSUME NEW i \in Nat, lo <= i, i <= j PROVE i \in Nonces(V)
          <5>1. new <= i /\ i < old
            BY <2>3, <3>3, <4>1
          <5>2. i \in Nonces(Both(q, a))
            BY Zenon, <5>1
          <5>3. i \notin Row(old, k)
            BY <5>1 DEF Row
          <5>4. i \in Nonces(q.pending[a]) \/ i \in Nonces(q.queue[a])
            BY Zenon, <5>2 DEF Nonces, Both
          <5>5. i \in Nonces(R) \/ i \in Nonces(q.queue[a])
            BY Zenon, <1>3, <5>3, <5>4
          <5>6. R \subseteq V /\ q.queue[a] \subseteq V
            BY Zenon DEF Promotes, Ready
          <5> QED BY Zenon, <5>5, <5>6 DEF Nonces
        <4>2. j < hi
          BY Zenon, <2>2, <2>3, <4>1
        <4> QED BY Zenon, <2>5, <4>2
      <3>4. old <= j \/ j < old
        OBVIOUS
      <3> QED BY Zenon, <3>2, <3>3, <3>4
    <2> QED BY Zenon, <2>4, <2>5
  <1> QED BY Zenon, <1>4, <1>5

\* Where only the nonces are set.
SetsNext(p, q, x) == q = [p EXCEPT !.nonces = x]

\* Only the nonces are.
LEMMA NextSet ==
  ASSUME NEW p, IsPool(p), NEW x, NEW q, SetsNext(p, q, x)
  PROVE  SetTo(p, q, p.pending, x)
  <1>1. PICK x1, x2, x3, x4, x5, x6, x7, x8, x9, x10 :
           Fields(p, x1, x2, x3, x4, x5, x6, x7, x8, x9, x10)
    BY Zenon DEF IsPool
  <1>2. Fields(q, x1, x2, x3, x4, x5, x, x7, x8, x9, x10)
    BY Zenon, <1>1 DEF Fields, SetsNext
  <1>3. q.pending = p.pending /\ q.nonces = x /\ q.head = p.head
    BY <1>1, <1>2 DEF Fields
  <1> QED BY Zenon, <1>2, <1>3 DEF IsPool, SetTo

\* What demoteUnexecutables leaves pending is S, up to what cannot be paid, or nothing.
Demotes(p, q, a, S, X) ==
  /\ IsPool(q) /\ q.head = p.head
  /\ S = {t \in p.pending[a] : t.nonce >= GetNonce(p.head, a)} /\ X \subseteq S
  /\ q.pending[a] = IF GetNonce(p.head, a) \in Nonces(Below(S, X)) THEN Below(S, X) ELSE {}

\* demoteUnexecutables, for one account.
LEMMA DemoteIs ==
  ASSUME NEW p, Sound(p), NEW q, q = demoteUnexecutables(p), NEW a \in Accounts
  PROVE  \E S, X : Demotes(p, q, a, S, X)
  <1> DEFINE rest(b)  == {t \in p.pending[b] : t.nonce >= GetNonce(p.head, b)}
             drops(b) == {t \in rest(b) : ~Pays(p.head, t)}
             stay(b)  == {t \in rest(b) : \A d \in drops(b) : t.nonce < d.nonce}
             kept(b)  == IF GetNonce(p.head, b) \in Nonces(stay(b)) THEN stay(b) ELSE {}
             D == UNION {(p.pending[b] \ rest(b)) \cup drops(b) : b \in Accounts}
             M == UNION {rest(b) \ (drops(b) \cup kept(b)) : b \in Accounts}
             P == [b \in Accounts |-> kept(b)]
  <1>1. q = enqueueTx(Forget([p EXCEPT !.pending = P], D), M)
    BY Zenon DEF demoteUnexecutables
  <1>2. P[a] = kept(a) /\ drops(a) \subseteq rest(a)
    BY Zenon
  <1>3. rest(a) = {t \in p.pending[a] : t.nonce >= GetNonce(p.head, a)}
    BY Zenon
  <1>4. kept(a) = IF GetNonce(p.head, a) \in Nonces(Below(rest(a), drops(a)))
                  THEN Below(rest(a), drops(a)) ELSE {}
    BY Zenon DEF Below
  <1> HIDE DEF rest, drops, kept, P, D, M
  <1>5. PICK L, r, m : L = P /\ r = [p EXCEPT !.pending = L] /\ m = Forget(r, D)
    BY Zenon
  <1>6. IsPool(r) /\ r.pending = L /\ r.head = p.head
    <2>1. PICK x1, x2, x3, x4, x5, x6, x7, x8, x9, x10 :
             Fields(p, x1, x2, x3, x4, x5, x6, x7, x8, x9, x10)
      BY Zenon, SoundPool DEF IsPool
    <2>2. Fields(r, L, x2, x3, x4, x5, x6, x7, x8, x9, x10)
      BY Zenon, <1>5, <2>1 DEF Fields
    <2>3. r.pending = L /\ r.head = p.head
      BY <2>1, <2>2 DEF Fields
    <2> QED BY Zenon, <2>2, <2>3 DEF IsPool
  <1>7. Still(r, m)
    BY Zenon, <1>5, <1>6, ForgetStill
  <1>8. IsPool(m) /\ q = enqueueTx(m, M)
    BY Zenon, <1>1, <1>5, <1>7 DEF Still
  <1>9. Still(m, q)
    BY Zenon, <1>8, EnqueueStill
  <1>10. IsPool(q) /\ q.head = p.head /\ q.pending[a] = kept(a)
    BY Zenon, <1>2, <1>5, <1>6, <1>7, <1>9 DEF Still
  <1>11. Demotes(p, q, a, rest(a), drops(a))
    BY Zenon, <1>2, <1>3, <1>4, <1>10 DEF Demotes
  <1> QED BY Zenon, <1>11

\* setAll, for one account.
Renewed(p, q, a) ==
  /\ IsPool(q) /\ q.head = p.head /\ q.pending[a] = p.pending[a]
  /\ q.nonces[a] = IF p.pending[a] = {} THEN GetNonce(p.head, a)
                   ELSE Max(Nonces(p.pending[a])) + 1

\* setAll gives every account its nonce.
LEMMA SetAllIs ==
  ASSUME NEW p, IsPool(p), NEW q, q = setAll(p), NEW a \in Accounts
  PROVE  Renewed(p, q, a)
  <1> DEFINE next(b) == IF p.pending[b] = {} THEN GetNonce(p.head, b)
                        ELSE Max(Nonces(p.pending[b])) + 1
  <1>1. PICK x : x = [b \in Accounts |-> next(b)]
    BY Zenon
  <1>2. SetsNext(p, q, x)
    BY Zenon, <1>1 DEF setAll, SetsNext
  <1>3. SetTo(p, q, p.pending, x)
    BY Zenon, <1>2, NextSet
  <1>4. x[a] = next(a)
    <2> HIDE DEF next
    <2> QED BY <1>1
  <1> QED BY Zenon, <1>3, <1>4 DEF Renewed, SetTo

\* What is left of a list without a gap is in line.
LEMMA DemoteLine ==
  ASSUME NEW p, Sound(p), NEW d, d = demoteUnexecutables(p), NEW q, q = setAll(d),
         NEW a \in Accounts
  PROVE  /\ q.nonces[a] \in Nat
         /\ Gapless(GetNonce(p.head, a), Nonces(p.pending[a])) => Line(q, a)
  <1>1. PICK S, X : Demotes(p, d, a, S, X)
    BY Zenon, DemoteIs
  <1>2. PICK first \in Nat : first = GetNonce(p.head, a)
    BY Zenon, PendingType
  <1>3. PICK L : L = d.pending[a]
    BY Zenon
  <1>4. /\ IsPool(d) /\ d.head = p.head
        /\ S = {t \in p.pending[a] : t.nonce >= first} /\ X \subseteq S
        /\ L = IF first \in Nonces(Below(S, X)) THEN Below(S, X) ELSE {}
    BY Zenon, <1>1, <1>2, <1>3 DEF Demotes
  <1>5. /\ q.head = p.head /\ q.pending[a] = L
        /\ q.nonces[a] = IF L = {} THEN first ELSE Max(Nonces(L)) + 1
    <2>1. Renewed(d, q, a)
      BY Zenon, <1>4, SetAllIs
    <2> QED BY Zenon, <1>2, <1>3, <1>4, <2>1 DEF Renewed
  <1>6. p.pending[a] \subseteq Txs
    BY Zenon, PendingType
  <1>7. L \subseteq Below(S, X) /\ L \subseteq Txs
    BY Zenon, <1>4, <1>6 DEF Below
  <1>8. CASE L = {}
    <2>1. q.nonces[a] = first /\ Nonces(L) = {}
      BY Zenon, <1>5, <1>8 DEF Nonces
    <2>2. first <= first /\ Row(first, first) = {}
      BY DEF Row
    <2> QED BY Zenon, <1>2, <1>5, <2>1, <2>2 DEF Line
  <1>9. CASE L # {}
    <2>1. q.nonces[a] = Max(Nonces(L)) + 1
      BY Zenon, <1>5, <1>9
    <2>2. q.nonces[a] \in Nat
      <3>1. IsFiniteSet(Nonces(L)) /\ Indices(Nonces(L)) /\ Nonces(L) # {}
        BY Zenon, <1>7, <1>9, NoncesType DEF Indices, Nonces
      <3>2. PICK x \in Nat : x = Max(Nonces(L))
        BY Zenon, <3>1, MaxIn DEF Indices
      <3>3. x + 1 \in Nat
        OBVIOUS
      <3> QED BY Zenon, <2>1, <3>2, <3>3
    <2>3. ASSUME Gapless(first, Nonces(p.pending[a])) PROVE Line(q, a)
      <3>1. L = Below(S, X) /\ first \in Nonces(L)
        BY Zenon, <1>4, <1>9
      <3>2. From(first, Nonces(L))
        <4> SUFFICES ASSUME NEW t \in L
                     PROVE  /\ first <= t.nonce
                            /\ \A j \in Nat : first <= j /\ j <= t.nonce => j \in Nonces(L)
          BY Zenon DEF From, Nonces
        <4>1. t \in p.pending[a] /\ t.nonce >= first /\ t.nonce \in Nat
          BY Zenon, <1>4, <1>6, <3>1, TxType DEF Below
        <4>2. first <= t.nonce
          BY <4>1
        <4>3. ASSUME NEW j \in Nat, first <= j, j <= t.nonce PROVE j \in Nonces(L)
          <5>1. first \in Nonces(p.pending[a])
            BY Zenon, <1>4, <3>1 DEF Nonces, Below
          <5>2. j \in Nonces(p.pending[a])
            <6>1. t.nonce \in Nonces(p.pending[a])
              BY Zenon, <4>1 DEF Nonces
            <6> QED BY Zenon, <2>3, <4>3, <5>1, <6>1 DEF Gapless
          <5>3. PICK u \in p.pending[a] : u.nonce = j
            BY Zenon, <5>2 DEF Nonces
          <5>4. u.nonce >= first
            BY <4>3, <5>3
          <5>5. u \in S
            BY Zenon, <1>4, <5>4
          <5>6. ASSUME NEW x \in X PROVE u.nonce < x.nonce
            <6>1. x.nonce \in Nat
              BY Zenon, <1>4, <1>6, TxType
            <6>2. t.nonce < x.nonce
              BY Zenon, <3>1 DEF Below
            <6> QED BY <4>1, <4>3, <5>3, <6>1, <6>2
          <5>7. u \in L
            BY Zenon, <3>1, <5>5, <5>6 DEF Below
          <5> QED BY Zenon, <5>3, <5>7 DEF Nonces
        <4> QED BY Zenon, <4>2, <4>3
      <3>3. PICK m \in Nat : m = Max(Nonces(L)) + 1 /\ first < m /\ Nonces(L) = Row(first, m)
        BY Zenon, <1>7, <1>9, <3>2, FromRow
      <3>4. first <= m
        BY <3>3
      <3> QED BY Zenon, <1>2, <1>5, <2>1, <3>3, <3>4 DEF Line
    <2> QED BY Zenon, <1>2, <2>2, <2>3
  <1> QED BY Zenon, <1>8, <1>9

----------------------------------------------------------------------------
(* reset, and what follows it in a run.                                    *)

\* The lists are turned where the head is new.
LEMMA MovedTurned ==
  ASSUME NEW p, Sound(p), NEW new \in Heads, NEW q, q = Moved(p, new), NEW a \in Accounts
  PROVE  /\ q.nonces[a] \in Nat
         /\ Line(p, a) => Turned(q, a, GetNonce(p.head, a), GetNonce(new, a))
  <1>1. PICK x1, x2, x3, x4, x5, x6, x7, x8, x9, x10 :
           Fields(p, x1, x2, x3, x4, x5, x6, x7, x8, x9, x10)
    BY Zenon, SoundPool DEF IsPool
  <1>2. PICK n : n = [b \in Accounts |-> GetNonce(new, b)]
    BY Zenon
  <1>3. Fields(q, x1, x2, x3, x4, x5, n, x7, x8, new, x10)
    BY Zenon, <1>1, <1>2 DEF Moved, Fields
  <1>4. q.pending = p.pending /\ q.nonces = n
    BY <1>1, <1>3 DEF Fields
  <1>5. PICK w \in Nat : w = GetNonce(new, a) /\ q.nonces[a] = w
    BY Zenon, <1>2, <1>4, GetNonceType
  <1>6. w <= w /\ ~(w < w)
    OBVIOUS
  <1>7. ASSUME Line(p, a) PROVE Turned(q, a, GetNonce(p.head, a), w)
    <2>1. p.nonces[a] \in Nat /\ Nonces(q.pending[a]) = Row(GetNonce(p.head, a), p.nonces[a])
      BY Zenon, <1>4, <1>7 DEF Line
    <2> QED BY Zenon, <1>5, <1>6, <2>1 DEF Turned
  <1> QED BY Zenon, <1>5, <1>7

\* reset leaves every list as the additions it makes do.
LEMMA ResetLines ==
  ASSUME NEW p, Sound(p), NEW old \in Heads, NEW new \in Heads, NEW q \in reset(p, old, new),
         NEW a \in Accounts
  PROVE  Lines(Moved(p, new), q, a)
  <1>1. PICK p0 : p0 = Moved(p, new)
    BY Zenon
  <1>2. Sound(p0) /\ Lines(p0, p0, a)
    <2>1. Sound(p0)
      BY Zenon, <1>1, MovedSound
    <2> QED BY Zenon, <2>1 DEF Lines
  <1>3. PICK U : p0 \in U /\ \A C \in SUBSET U : p0 \in C /\ Closed(C, U) => q \in C
    BY Zenon, <1>1, ResetReached DEF Reached
  <1>4. PICK C : C = {m \in U : Sound(m) /\ Lines(p0, m, a)}
    BY Zenon
  <1>5. Closed(C, U)
    <2> SUFFICES ASSUME NEW m \in C, NEW t \in Txs, NEW r \in add(m, t, FALSE), r \in U
                 PROVE  r \in C
      BY Zenon DEF Closed
    <2>1. Sound(m) /\ Lines(p0, m, a)
      BY Zenon, <1>4
    <2>2. Follows(m, r) /\ Lines(m, r, a)
      BY Zenon, <2>1, AddFollows, ReinjectLines
    <2>3. Sound(r) /\ Lines(p0, r, a)
      BY Zenon, <2>1, <2>2, LinesTwice DEF Follows
    <2> QED BY Zenon, <1>4, <2>3
  <1> QED BY Zenon, <1>1, <1>2, <1>3, <1>4, <1>5

\* What follows in a run: from the list that is promoted to the pool that is left.
LEMMA TruncateLines ==
  ASSUME NEW v, Sound(v), NEW c, c = truncatePending(v), Sound(c),
         NEW n \in truncateQueue(c), Sound(n), NEW q, q = [n EXCEPT !.changes = 0],
         NEW a \in Accounts
  PROVE  Lines(v, q, a)
  <1>1. Lines(v, c, a)
    BY Zenon, TruncateCuts, LinesOf
  <1>2. Lines(c, n, a)
    <2>1. PICK D : n = removeTx(c, D)
      BY Zenon DEF truncateQueue
    <2>2. Cuts(c, n, a)
      BY Zenon, <2>1, RemoveCuts, SoundPool
    <2> QED BY Zenon, <2>2, LinesOf
  <1>3. Lines(n, q, a)
    <2>1. Sets(n, q, 0, 0)
      BY Zenon DEF Sets
    <2>2. Still(n, q)
      BY Zenon, <2>1, OthersStill, SoundPool
    <2>3. Level(n, q, a)
      BY Zenon, <2>2, StillLevel
    <2> QED BY Zenon, <2>3, LinesOf
  <1> QED BY Zenon, <1>1, <1>2, <1>3, LinesTwice

----------------------------------------------------------------------------
(* Chains: their nonces have no gap.                                       *)

\* The places of the transactions of x among the first n of s, and their nonces.
At(s, n, x) == {i \in 1..n : s[i].from = x}
NoncesAt(s, n, x) == {s[i].nonce : i \in At(s, n, x)}

\* The chain, up to each block, includes the nonces of an account one after the
\* other.
ChainedTo(s, n) == \A x \in Accounts : NoncesAt(s, n, x) = Row(0, Cardinality(At(s, n, x)))
Chained(h) == \A n \in 0..Len(h.txs) : ChainedTo(h.txs, n)

\* GetNonce counts the transactions up to the last block.
LEMMA GetNonceAt ==
  ASSUME NEW h \in Heads, NEW x
  PROVE  /\ GetNonce(h, x) = Cardinality(At(h.txs, Len(h.txs), x))
         /\ Len(h.txs) \in Nat /\ DOMAIN h.txs = 1..Len(h.txs) /\ Len(h.txs) \in 0..Len(h.txs)
         /\ \A i \in 1..Len(h.txs) : h.txs[i] \in Txs
  <1>1. PICK s : s = h.txs
    BY Zenon
  <1>2. s \in Seq(Txs)
    BY Zenon, <1>1 DEF Heads
  <1>3. Len(s) \in Nat /\ DOMAIN s = 1..Len(s) /\ \A i \in 1..Len(s) : s[i] \in Txs
    BY <1>2
  <1>4. Len(s) \in 0..Len(s)
    BY <1>3
  <1>5. GetNonce(h, x) = Cardinality(At(s, Len(s), x))
    BY Zenon, <1>1, <1>3 DEF GetNonce, At
  <1> QED BY Zenon, <1>1, <1>3, <1>4, <1>5

\* The nonces of x a chain includes are those below its next one.
LEMMA ChainNonces ==
  ASSUME NEW h \in Heads, Chained(h), NEW x \in Accounts
  PROVE  NoncesAt(h.txs, Len(h.txs), x) = Row(0, GetNonce(h, x))
  BY Zenon, GetNonceAt DEF Chained, ChainedTo

\* Where a chain turned from old to new, what new does not include ...
Lost(old, new) == Range(old.txs) \ Range(new.txs)
Back(old, new, q, a) ==
  \A t \in Lost(old, new) : t \in Sent(Txs, a) => t.nonce \in Nonces(Sent(q.known, t.from))

\* ... holds every nonce between the two.
LEMMA LostNonces ==
  ASSUME NEW old \in Heads, NEW new \in Heads, Chained(old), Chained(new), NEW a \in Accounts,
         NEW q, Back(old, new, q, a), NEW j \in Nat, GetNonce(new, a) <= j, j < GetNonce(old, a)
  PROVE  j \in Nonces(Sent(q.known, a))
  <1>1. PICK o, w \in Nat : o = GetNonce(old, a) /\ w = GetNonce(new, a)
    BY Zenon, GetNonceType
  <1>2. j \in Row(0, o) /\ j \notin Row(0, w)
    <2>1. w <= j /\ j < o
      BY Zenon, <1>1
    <2> QED BY <1>1, <2>1 DEF Row
  <1>3. PICK i \in At(old.txs, Len(old.txs), a) : old.txs[i].nonce = j
    <2>1. j \in NoncesAt(old.txs, Len(old.txs), a)
      BY Zenon, <1>1, <1>2, ChainNonces
    <2> QED BY Zenon, <2>1 DEF NoncesAt
  <1>4. PICK t : t = old.txs[i]
    BY Zenon
  <1>5. t \in Sent(Txs, a) /\ t \in Range(old.txs) /\ t.nonce = j /\ t.from = a
    <2>1. i \in 1..Len(old.txs) /\ t.from = a
      BY Zenon, <1>3, <1>4 DEF At
    <2>2. t \in Txs /\ i \in DOMAIN old.txs
      BY Zenon, <1>4, <2>1, GetNonceAt
    <2> QED BY Zenon, <1>3, <1>4, <2>1, <2>2 DEF Sent, Range
  <1>6. t \notin Range(new.txs)
    <2> SUFFICES ASSUME t \in Range(new.txs) PROVE FALSE
      BY Zenon
    <2>1. PICK k \in DOMAIN new.txs : t = new.txs[k]
      BY Zenon DEF Range
    <2>2. k \in At(new.txs, Len(new.txs), a)
      BY Zenon, <1>5, <2>1, GetNonceAt DEF At
    <2>3. j \in NoncesAt(new.txs, Len(new.txs), a)
      BY Zenon, <1>5, <2>1, <2>2 DEF NoncesAt
    <2> QED BY Zenon, <1>1, <1>2, <2>3, ChainNonces
  <1>7. t \in Lost(old, new)
    BY Zenon, <1>5, <1>6 DEF Lost
  <1> QED BY Zenon, <1>5, <1>7 DEF Back

\* Chains that agree up to n.
LEMMA ChainedSame ==
  ASSUME NEW s, NEW u, NEW n \in Nat, \A i \in 1..n : u[i] = s[i], ChainedTo(s, n)
  PROVE  ChainedTo(u, n)
  <1> SUFFICES ASSUME NEW x \in Accounts
               PROVE  NoncesAt(u, n, x) = Row(0, Cardinality(At(u, n, x)))
    BY Zenon DEF ChainedTo
  <1>1. At(u, n, x) = At(s, n, x)
    BY Zenon DEF At
  <1>2. NoncesAt(u, n, x) = NoncesAt(s, n, x)
    <2>1. \A i \in At(s, n, x) : u[i] = s[i]
      BY Zenon DEF At
    <2> QED BY Zenon, <1>1, <2>1 DEF NoncesAt
  <1> QED BY Zenon, <1>1, <1>2 DEF ChainedTo

\* The first head includes nothing ...
LEMMA ChainedGenesis == Chained(Genesis)
  <1>1. Genesis.txs = <<>> /\ Len(Genesis.txs) = 0
    BY DEF Genesis
  <1>2. 0..0 = {0} /\ 1..0 = {}
    OBVIOUS
  <1>3. ASSUME NEW x \in Accounts, NEW s PROVE NoncesAt(s, 0, x) = Row(0, Cardinality(At(s, 0, x)))
    <2>1. At(s, 0, x) = {}
      BY Zenon, <1>2 DEF At
    <2>2. NoncesAt(s, 0, x) = {}
      BY Zenon, <2>1 DEF NoncesAt
    <2>3. Cardinality(At(s, 0, x)) = 0
      BY Zenon, <2>1, FS_EmptySet
    <2>4. Row(0, 0) = {}
      BY DEF Row
    <2> QED BY Zenon, <2>2, <2>3, <2>4
  <1>4. \A s : ChainedTo(s, 0)
    BY Zenon, <1>3 DEF ChainedTo
  <1> QED BY Zenon, <1>1, <1>2, <1>4 DEF Chained

\* ... a branch without the last blocks is a chain ...
LEMMA ChainedPrefix ==
  ASSUME NEW h \in Heads, Chained(h), NEW n \in 0..Len(h.txs), NEW g, g.txs = SubSeq(h.txs, 1, n)
  PROVE  Chained(g)
  <1>1. PICK s, u : s = h.txs /\ u = g.txs
    BY Zenon
  <1>2. s \in Seq(Txs) /\ u = SubSeq(s, 1, n) /\ n \in 0..Len(s)
    BY Zenon, <1>1 DEF Heads
  <1>3. Len(s) \in Nat /\ Len(u) = n /\ n \in Nat /\ \A i \in 1..n : u[i] = s[i]
    BY <1>2
  <1>4. ASSUME NEW m \in 0..Len(u) PROVE ChainedTo(u, m)
    <2>1. m \in 0..Len(s) /\ m \in Nat /\ \A i \in 1..m : i \in 1..n
      BY <1>2, <1>3
    <2>2. \A i \in 1..m : u[i] = s[i]
      BY Zenon, <1>3, <2>1
    <2>3. ChainedTo(s, m)
      BY Zenon, <1>1, <2>1 DEF Chained
    <2> QED BY Zenon, <2>1, <2>2, <2>3, ChainedSame
  <1> QED BY Zenon, <1>1, <1>4 DEF Chained

\* ... and so is one with another transaction that is next.
LEMMA ChainedAppend ==
  ASSUME NEW h \in Heads, Chained(h), NEW t \in Txs, t.nonce = GetNonce(h, t.from),
         NEW g, g.txs = Append(h.txs, t)
  PROVE  Chained(g)
  <1>1. PICK s, u, l : s = h.txs /\ u = g.txs /\ l = Len(h.txs)
    BY Zenon
  <1>2. s \in Seq(Txs) /\ u = Append(s, t) /\ l = Len(s)
    BY Zenon, <1>1 DEF Heads
  <1>3. l \in Nat /\ Len(u) = l + 1 /\ u[l + 1] = t /\ \A i \in 1..l : u[i] = s[i]
    BY <1>2
  <1>4. ASSUME NEW m \in 0..l PROVE ChainedTo(u, m)
    <2>1. m \in Nat /\ \A i \in 1..m : i \in 1..l
      BY <1>3
    <2>2. \A i \in 1..m : u[i] = s[i]
      BY Zenon, <1>3, <2>1
    <2>3. ChainedTo(s, m)
      BY Zenon, <1>1, <1>4 DEF Chained
    <2> QED BY Zenon, <2>1, <2>2, <2>3, ChainedSame
  <1>5. ChainedTo(u, l + 1)
    <2> SUFFICES ASSUME NEW x \in Accounts
                 PROVE  NoncesAt(u, l + 1, x) = Row(0, Cardinality(At(u, l + 1, x)))
      BY Zenon DEF ChainedTo
    <2>1. l + 1 \notin 1..l /\ l \in 0..l /\ 1..(l + 1) = (1..l) \cup {l + 1}
      BY <1>3
    <2>2. PICK c : c = Cardinality(At(u, l, x))
      BY Zenon
    <2>3. NoncesAt(u, l, x) = Row(0, c)
      BY Zenon, <1>4, <2>1, <2>2 DEF ChainedTo
    <2>4. IsFiniteSet(At(u, l, x))
      <3>1. At(u, l, x) \subseteq 1..l
        BY Zenon DEF At
      <3>2. 1 \in Int /\ l \in Int
        BY <1>3
      <3> QED BY Zenon, <3>1, <3>2, FS_Interval, FS_Subset
    <2>5. c \in Nat
      BY Zenon, <2>2, <2>4, FS_CardinalityType
    <2>6. CASE t.from = x
      <3>1. At(u, l + 1, x) = At(u, l, x) \cup {l + 1} /\ l + 1 \notin At(u, l, x)
        BY Zenon, <1>3, <2>1, <2>6 DEF At
      <3>2. Cardinality(At(u, l + 1, x)) = c + 1
        BY Zenon, <2>2, <2>4, <3>1, FS_AddElement
      <3>3. t.nonce = c
        <4>1. GetNonce(h, x) = Cardinality(At(s, l, x))
          BY Zenon, <1>1, GetNonceAt
        <4>2. At(s, l, x) = At(u, l, x)
          BY Zenon, <1>3 DEF At
        <4> QED BY Zenon, <2>2, <2>6, <4>1, <4>2
      <3>4. NoncesAt(u, l + 1, x) = NoncesAt(u, l, x) \cup {c}
        BY Zenon, <1>3, <3>1, <3>3 DEF NoncesAt
      <3>5. Row(0, c) \cup {c} = Row(0, c + 1)
        BY <2>5 DEF Row
      <3> QED BY Zenon, <2>3, <3>2, <3>4, <3>5
    <2>7. CASE t.from # x
      <3>1. At(u, l + 1, x) = At(u, l, x)
        BY Zenon, <1>3, <2>1, <2>7 DEF At
      <3>2. NoncesAt(u, l + 1, x) = NoncesAt(u, l, x)
        BY Zenon, <3>1 DEF NoncesAt
      <3> QED BY Zenon, <2>2, <2>3, <3>1, <3>2
    <2> QED BY Zenon, <2>6, <2>7
  <1>6. ASSUME NEW m \in 0..Len(u) PROVE ChainedTo(u, m)
    <2>1. m \in 0..l \/ m = l + 1
      BY <1>3
    <2> QED BY Zenon, <1>4, <1>5, <2>1
  <1> QED BY Zenon, <1>1, <1>6 DEF Chained

----------------------------------------------------------------------------
(* A run.                                                                  *)

\* A run leaves a list in line, if what a reset takes from the chain is back.
LEMMA RunLines ==
  ASSUME NEW p, Sound(p), NEW r \in Runs, NEW q \in runReorg(p, r), NEW a \in Accounts,
         p.nonces[a] \in Nat,
         r.reset # None => r.reset.old = p.head /\ Chained(p.head) /\ Chained(r.reset.new)
  PROVE  /\ q.nonces[a] \in Nat
         /\ Line(p, a) /\ (r.reset # None => Back(r.reset.old, r.reset.new, q, a)) => Line(q, a)
  <1>1. PICK f, m, v, c, n : Steps(p, r, q, f, m, v, c, n)
    BY Zenon, ReorgSteps
  <1>2. PICK A : A = promoteAddrs(r)
    BY Zenon
  <1>3. A \subseteq Accounts /\ m = promoteExecutables(f, A) /\ (r.reset # None => A = Accounts)
    BY Zenon, <1>1, <1>2 DEF Steps, promoteAddrs, Runs
  <1>4. /\ c = truncatePending(v) /\ n \in truncateQueue(c) /\ q = [n EXCEPT !.changes = 0]
    BY Zenon, <1>1 DEF Steps
  <1>5. CASE r.reset = None
    <2>1. f = p /\ v = m
      BY Zenon, <1>1, <1>5 DEF Steps
    <2>2. Trims(f, m, v, c, n, q)
      BY Zenon, <1>1, <2>1, StepsTrim
    <2>3. Lines(v, q, a)
      BY Zenon, <1>4, <2>2, TruncateLines DEF Trims
    <2>4. m.nonces[a] \in Nat
      <3>1. CASE a \notin A
        <4>1. Passed(p, m, a)
          BY Zenon, <1>3, <2>1, <3>1, PromoteIs
        <4> QED BY Zenon, <4>1 DEF Passed
      <3>2. CASE a \in A
        <4>1. PICK V, R : Promotes(p, m, a, V, R)
          BY Zenon, <1>3, <2>1, <3>2, PromoteIs
        <4>2. CASE R = {}
          BY Zenon, <4>1, <4>2 DEF Promotes
        <4>3. CASE R # {}
          <5>1. PICK lo, hi \in Nat : m.nonces[a] = hi
            BY <4>1, <4>3, PromoteReady
          <5> QED BY Zenon, <5>1
        <4> QED BY Zenon, <4>2, <4>3
      <3> QED BY Zenon, <3>1, <3>2
    <2>5. Line(p, a) => Line(m, a)
      BY Zenon, <1>3, <2>1, PromoteLine
    <2> QED BY Zenon, <2>1, <2>3, <2>4, <2>5 DEF Lines
  <1>6. CASE r.reset # None
    <2>1. PICK old, new : old = r.reset.old /\ new = r.reset.new
      BY Zenon
    <2>2. old \in Heads /\ new \in Heads /\ f \in reset(p, old, new)
      BY Zenon, <1>1, <1>6, <2>1 DEF Steps, Runs, Resets
    <2>3. PICK p0 : p0 = Moved(p, new)
      BY Zenon
    <2>4. Follows(p0, f) /\ Lines(p0, f, a)
      BY Zenon, <2>2, <2>3, ResetFollows, ResetLines
    <2>5. Sound(f) /\ Lines(p0, f, a) /\ f.head = new
      <3>1. p0.head = new
        BY Zenon, <2>2, <2>3, MovedSound
      <3> QED BY Zenon, <2>4, <3>1 DEF Follows, Keeps
    <2>6. Trims(f, m, v, c, n, q)
      BY Zenon, <1>1, <2>5, StepsTrim
    <2>7. Lines(v, q, a)
      BY Zenon, <1>4, <2>6, TruncateLines DEF Trims
    <2>8. PICK d : d = demoteUnexecutables(m) /\ v = setAll(d)
      BY Zenon, <1>1, <1>6 DEF Steps
    <2>9. PICK V, R : Promotes(f, m, a, V, R)
      BY Zenon, <1>3, <1>6, <2>5, PromoteIs
    <2>10. m.head = new /\ Sound(m)
      BY Zenon, <2>5, <2>6, <2>9 DEF Promotes, Trims
    <2>11. v.nonces[a] \in Nat /\ (Gapless(GetNonce(new, a), Nonces(m.pending[a])) => Line(v, a))
      BY Zenon, <2>8, <2>10, DemoteLine
    <2>12. ASSUME Line(p, a), Back(old, new, q, a) PROVE Line(q, a)
      <3>1. PICK o, w \in Nat : o = GetNonce(old, a) /\ w = GetNonce(new, a)
        BY Zenon, <2>2, GetNonceType
      <3>2. Turned(p0, a, o, w)
        <4>1. old = p.head
          BY Zenon, <1>6, <2>1
        <4> QED BY Zenon, <2>2, <2>3, <2>12, <3>1, <4>1, MovedTurned
      <3>3. Turned(f, a, o, w) /\ w = GetNonce(f.head, a)
        BY Zenon, <2>5, <3>1, <3>2 DEF Lines
      <3>4. q.known \subseteq m.known
        BY Zenon, <2>6, TrimmedFollows DEF Trims
      <3>5. ASSUME NEW j \in Nat, w <= j, j < o PROVE j \in Nonces(Both(m, a))
        <4>1. Chained(old) /\ Chained(new)
          BY Zenon, <1>6, <2>1
        <4>2. j \in Nonces(Sent(q.known, a))
          BY Zenon, <2>2, <2>12, <3>1, <3>5, <4>1, LostNonces
        <4>3. PICK t \in q.known : t.from = a /\ t.nonce = j
          BY Zenon, <4>2 DEF Nonces, Sent
        <4>4. t \in Both(m, a)
          BY Zenon, <2>10, <3>4, <4>3, KnownList
        <4> QED BY Zenon, <4>3, <4>4 DEF Nonces
      <3>6. Gapless(w, Nonces(m.pending[a]))
        BY Zenon, <2>5, <2>9, <3>3, <3>5, PromoteGapless
      <3>7. Line(v, a)
        BY Zenon, <2>11, <3>1, <3>6
      <3> QED BY Zenon, <2>7, <3>7 DEF Lines
    <2> QED BY Zenon, <1>6, <2>1, <2>7, <2>11, <2>12 DEF Lines
  <1> QED BY Zenon, <1>5, <1>6

\* What follows a reset in a run leaves the head.
LEMMA StepsHead ==
  ASSUME NEW p, NEW r \in Runs, NEW q, NEW f, NEW m, NEW v, NEW c, NEW n,
         Steps(p, r, q, f, m, v, c, n), Sound(f)
  PROVE  q.head = f.head
  <1>1. Trims(f, m, v, c, n, q)
    BY Zenon, StepsTrim
  <1>2. \A x, y : Trimmed(x, y) => y.head = x.head
    BY Zenon DEF Trimmed, Drops
  <1> QED BY Zenon, <1>1, <1>2 DEF Trims

\* The head it leaves is the one it was asked to reset to.
LEMMA RunHead ==
  ASSUME NEW p, Sound(p), NEW r \in Runs, NEW q \in runReorg(p, r)
  PROVE  /\ r.reset = None => q.head = p.head
         /\ r.reset # None => q.head = r.reset.new
  <1>1. PICK f, m, v, c, n : Steps(p, r, q, f, m, v, c, n)
    BY Zenon, ReorgSteps
  <1>2. CASE r.reset = None
    <2>1. f = p
      BY Zenon, <1>1, <1>2 DEF Steps
    <2> QED BY Zenon, <1>1, <1>2, <2>1, StepsHead
  <1>3. CASE r.reset # None
    <2>1. PICK old, new, p0 : old = r.reset.old /\ new = r.reset.new /\ p0 = Moved(p, new)
      BY Zenon
    <2>2. old \in Heads /\ new \in Heads
      BY Zenon, <1>3, <2>1 DEF Runs, Resets
    <2>3. f \in reset(p, old, new)
      BY Zenon, <1>1, <1>3, <2>1 DEF Steps
    <2>4. Follows(p0, f)
      BY Zenon, <2>1, <2>2, <2>3, ResetFollows
    <2>5. p0.head = new
      BY Zenon, <2>1, <2>2, MovedSound
    <2>6. Sound(f) /\ f.head = new
      BY Zenon, <2>4, <2>5 DEF Follows, Keeps
    <2> QED BY Zenon, <1>1, <1>3, <2>1, <2>6, StepsHead
  <1> QED BY Zenon, <1>2, <1>3

----------------------------------------------------------------------------
(* The invariant.                                                          *)

\* The resets that are asked for lead from the head of the pool to that of the
\* chain: first the one a run is about to make, then the one that waits.
HeadOf(p, s) == IF s # None /\ s.reset # None THEN s.reset.new ELSE p.head
Linked(p, c, r, s) ==
  /\ Chained(p.head) /\ Chained(c)
  /\ s # None /\ s.reset # None => s.reset.old = p.head /\ Chained(s.reset.new)
  /\ r.reset = None => c = HeadOf(p, s)
  /\ r.reset # None => r.reset.old = HeadOf(p, s) /\ r.reset.new = c

\* The strengthening PendingInLine needs, with PoolInv.
LineInv ==
  /\ \A a \in Accounts : pool.nonces[a] \in Nat
  /\ Linked(pool, chain, request, run)

\* What a step owes.
StepLine ==
  /\ LineInv'
  /\ \A a \in Accounts : Line(pool, a) /\ ~Refuses(Sent(Txs, a)) => Line(pool', a)

\* It holds at the start.
LEMMA LineInvInit == Init => LineInv
  <1> SUFFICES ASSUME Init PROVE LineInv
    BY Zenon
  <1>1. PICK n, g, e, p :
           /\ n = [a \in Accounts |-> GetNonce(Genesis, a)]
           /\ p = [pending |-> e, queue |-> e, known |-> {}, remotes |-> {}, locals |-> {},
                   nonces |-> n, changes |-> 0, gasPrice |-> g, head |-> Genesis, journal |-> {}]
           /\ p = pool
    BY Zenon DEF Init, EmptyPool
  <1>2. p.nonces = n /\ p.head = Genesis
    BY <1>1
  <1>3. \A a \in Accounts : n[a] \in Nat
    BY Zenon, <1>1, GetNonceType, GenesisHead
  <1>4. request.reset = None
    BY Zenon DEF Init, NoRequest
  <1>5. chain = Genesis /\ run = None
    BY Zenon DEF Init
  <1> QED BY Zenon, <1>1, <1>2, <1>3, <1>4, <1>5, ChainedGenesis DEF LineInv, Linked, HeadOf

\* A step of the pool at its head.
LEMMA PoolLine ==
  ASSUME LineInv, \A a \in Accounts : Lines(pool, pool', a), pool'.head = pool.head,
         chain' = chain, run' = run, request'.reset = request.reset
  PROVE  StepLine
  <1>1. \A a \in Accounts : pool'.nonces[a] \in Nat /\ (Line(pool, a) => Line(pool', a))
    BY Zenon DEF LineInv, Lines
  <1>2. PICK p, q, r, s : p = pool /\ q = pool' /\ r = request /\ s = request'
    BY Zenon
  <1>3. Linked(p, chain, r, run) /\ q.head = p.head /\ s.reset = r.reset
    BY Zenon, <1>2 DEF LineInv
  <1>4. HeadOf(q, run) = HeadOf(p, run)
    BY Zenon, <1>3 DEF HeadOf
  <1>5. Linked(q, chain, s, run)
    BY Zenon, <1>3, <1>4 DEF Linked
  <1> QED BY Zenon, <1>1, <1>2, <1>5 DEF LineInv, StepLine

\* A request keeps the reset that waits.
LEMMA AskedReset ==
  ASSUME NEW r \in Requests, NEW s, NEW x, s = Asked(r) \/ s = Asked([r EXCEPT !.dirty = x])
  PROVE  s.reset = r.reset
  <1>1. PICK r1, r2, r3 : r = [reset |-> r1, dirty |-> r2, launch |-> r3]
    BY DEF Requests
  <1>2. PICK y : s = [reset |-> r1, dirty |-> y, launch |-> TRUE]
    BY Zenon, <1>1 DEF Asked
  <1> QED BY <1>1, <1>2

\* addTxs.
LEMMA AddLine ==
  ASSUME PoolInv, LineInv, NEW t \in Txs, NEW own \in BOOLEAN, addTxs(t, own)
  PROVE  StepLine
  <1>1. PICK p, q, r, s : p = pool /\ q = pool' /\ r = request /\ s = request'
    BY Zenon
  <1>2. Sound(p) /\ r \in Requests
    BY Zenon, <1>1 DEF PoolInv
  <1>3. chain' = chain /\ run' = run
    BY Zenon DEF addTxs
  <1>4. CASE rooms(pool, t, own) = {} /\ request' = Asked(request) /\ UNCHANGED pool
    <2>1. s.reset = r.reset
      BY Zenon, <1>1, <1>2, <1>4, AskedReset
    <2>2. q = p
      BY Zenon, <1>1, <1>4
    <2>3. \A a \in Accounts : Lines(p, q, a)
      BY Zenon, <2>2 DEF Lines
    <2> QED BY Zenon, <1>1, <1>3, <2>1, <2>2, <2>3, PoolLine
  <1>5. CASE \E m \in rooms(pool, t, own) :
               LET new == t.nonce \notin Nonces(m.pending[t.from] \cup m.queue[t.from]) IN
               /\ pool' = insert(m, t, own)
               /\ request' = Asked([request EXCEPT !.dirty = IF new THEN @ \cup {t.from} ELSE @])
    <2>1. PICK m, x :
             /\ m \in rooms(p, t, own)
             /\ q = insert(m, t, own)
             /\ s = Asked([r EXCEPT !.dirty = x])
      BY Zenon, <1>1, <1>5
    <2>2. s.reset = r.reset
      BY Zenon, <1>2, <2>1, AskedReset
    <2>3. \A a \in Accounts : Lines(p, q, a)
      BY Zenon, <1>2, <2>1, AddLines
    <2>4. q.head = p.head
      <3>1. Keeps(p, q)
        BY Zenon, <1>2, <2>1, RoomInsert
      <3> QED BY Zenon, <3>1 DEF Keeps
    <2> QED BY Zenon, <1>1, <1>3, <2>2, <2>3, <2>4, PoolLine
  <1> QED BY Zenon, <1>4, <1>5 DEF addTxs

\* What removeTx does, and a field that is none of the lists.
LEMMA RemoveLines ==
  ASSUME NEW p, Sound(p), NEW D, NEW m, m = removeTx(p, D), Sound(m),
         NEW x, NEW y, NEW q, Sets(m, q, x, y)
  PROVE  q.head = p.head /\ \A a \in Accounts : Lines(p, q, a)
  <1>1. IsPool(m) /\ m.head = p.head /\ \A a \in Accounts : Cuts(p, m, a)
    BY Zenon, SoundPool, RemoveCuts
  <1>2. Still(m, q)
    BY Zenon, <1>1, OthersStill
  <1>3. ASSUME NEW a \in Accounts PROVE Lines(p, q, a)
    <2>1. Lines(p, m, a)
      BY Zenon, <1>1, LinesOf
    <2>2. Lines(m, q, a)
      BY Zenon, <1>2, StillLevel, LinesOf
    <2> QED BY Zenon, <2>1, <2>2, LinesTwice
  <1> QED BY Zenon, <1>1, <1>2, <1>3 DEF Still

\* SetGasPrice.
LEMMA PriceLine ==
  ASSUME PoolInv, LineInv, NEW price, SetGasPrice(price)
  PROVE  StepLine
  <1>1. PICK p, q, D : /\ p = pool /\ q = pool'
                       /\ D = {t \in pool.remotes : price > pool.gasPrice /\ t.price < price}
    BY Zenon
  <1>2. PICK m : m = removeTx(p, D)
    BY Zenon
  <1>3. q = [m EXCEPT !.gasPrice = price]
    BY Zenon, <1>1, <1>2 DEF SetGasPrice
  <1>4. Sound(p) /\ D \subseteq p.known
    BY Zenon, <1>1 DEF PoolInv, Sound, Internals
  <1>5. Sound(m)
    BY Zenon, <1>2, <1>4, RemoveDrops, DropsSound
  <1>6. Sets(m, q, price, price)
    BY Zenon, <1>3 DEF Sets
  <1>7. q.head = p.head /\ \A a \in Accounts : Lines(p, q, a)
    BY Zenon, <1>2, <1>4, <1>5, <1>6, RemoveLines
  <1>8. chain' = chain /\ run' = run /\ request' = request
    BY Zenon DEF SetGasPrice
  <1> QED BY Zenon, <1>1, <1>7, <1>8, PoolLine

\* Evict.
LEMMA EvictLine ==
  ASSUME PoolInv, LineInv, NEW a \in Accounts, Evict(a)
  PROVE  StepLine
  <1>1. PICK p, q, D : p = pool /\ q = pool' /\ D = pool.queue[a]
    BY Zenon
  <1>2. PICK m : Sound(p) /\ m = removeTx(p, D) /\ q = m
    BY Zenon, <1>1 DEF PoolInv, Evict
  <1>3. D \subseteq p.known
    <2>1. D \subseteq All(p.queue)
      BY Zenon, <1>1 DEF All
    <2>2. All(p.queue) \subseteq p.known
      BY Zenon, <1>2 DEF Sound, Internals
    <2> QED BY Zenon, <2>1, <2>2
  <1>4. Sound(m)
    BY Zenon, <1>2, <1>3, RemoveDrops, DropsSound
  <1>5. PICK x, y : Sets(m, q, x, y)
    BY Zenon, <1>2 DEF Sets
  <1>6. q.head = p.head /\ \A b \in Accounts : Lines(p, q, b)
    <2>1. Sound(p) /\ m = removeTx(p, D)
      BY Zenon, <1>2
    <2> QED BY Zenon, <1>4, <1>5, <2>1, RemoveLines
  <1>7. chain' = chain /\ run' = run /\ request' = request
    BY Zenon DEF Evict
  <1> QED BY Zenon, <1>1, <1>6, <1>7, PoolLine

\* Rotate.
LEMMA RotateLine ==
  ASSUME PoolInv, LineInv, Rotate
  PROVE  StepLine
  <1>1. PICK p, q, x : p = pool /\ q = pool' /\ x = local(pool)
    BY Zenon
  <1>2. Sound(p) /\ q = [p EXCEPT !.journal = x]
    BY Zenon, <1>1 DEF PoolInv, Rotate
  <1>3. Sets(p, q, x, x)
    BY Zenon, <1>2 DEF Sets
  <1>4. Still(p, q)
    BY Zenon, <1>2, <1>3, SoundPool, OthersStill
  <1>5. q.head = p.head /\ \A a \in Accounts : Lines(p, q, a)
    <2>1. \A a \in Accounts : Level(p, q, a)
      BY Zenon, <1>4, StillLevel
    <2> QED BY Zenon, <1>2, <1>4, <2>1, LinesOf DEF Still
  <1>6. chain' = chain /\ run' = run /\ request' = request
    BY Zenon DEF Rotate
  <1> QED BY Zenon, <1>1, <1>5, <1>6, PoolLine

\* What is unchanged is in line.
LEMMA SameLine ==
  ASSUME LineInv, pool' = pool, Linked(pool, chain', request', run')
  PROVE  StepLine
  <1>1. LineInv'
    BY Zenon DEF LineInv
  <1>2. \A a \in Accounts : Line(pool, a) => Line(pool', a)
    BY Zenon
  <1> QED BY Zenon, <1>1, <1>2 DEF StepLine

\* Launch.
LEMMA LaunchLine ==
  ASSUME PoolInv, LineInv, Launch
  PROVE  StepLine
  <1>1. PICK p, c, r, s : p = pool /\ c = chain /\ r = request /\ s = run'
    BY Zenon
  <1>2. s \in Runs /\ s # None
    <2>1. s \in Runs
      BY Zenon, <1>1 DEF PoolInv, Launch, Requests, Runs
    <2> QED BY Zenon, <2>1, NoneAssumption
  <1>3. s.reset = r.reset
    <2>1. PICK d : s = [reset |-> r.reset, dirty |-> d]
      BY Zenon, <1>1 DEF Launch
    <2> QED BY <2>1
  <1>4. Linked(p, c, r, None)
    BY Zenon, <1>1 DEF LineInv, Launch
  <1>5. request'.reset = None /\ pool' = pool /\ chain' = chain
    BY Zenon DEF Launch, NoRequest
  <1>6. Linked(p, c, NoRequest, s)
    <2>1. NoRequest.reset = None
      BY Zenon DEF NoRequest
    <2>2. HeadOf(p, None) = p.head
      BY Zenon DEF HeadOf
    <2>3. CASE r.reset = None
      <3>1. HeadOf(p, s) = p.head
        BY Zenon, <1>3, <2>3 DEF HeadOf
      <3> QED BY Zenon, <1>3, <1>4, <2>1, <2>2, <2>3, <3>1 DEF Linked
    <2>4. CASE r.reset # None
      <3>1. HeadOf(p, s) = s.reset.new
        BY Zenon, <1>2, <1>3, <2>4 DEF HeadOf
      <3> QED BY Zenon, <1>3, <1>4, <2>1, <2>2, <2>4, <3>1 DEF Linked
    <2> QED BY Zenon, <2>3, <2>4
  <1>7. request' = NoRequest
    BY Zenon DEF Launch
  <1> QED BY Zenon, <1>1, <1>5, <1>6, <1>7, SameLine

\* RunReorg.
LEMMA RunLine ==
  ASSUME PoolInv, LineInv, RunReorg
  PROVE  StepLine
  <1>1. PICK p, q, c, r, s : p = pool /\ q = pool' /\ c = chain /\ r = request /\ s = run
    BY Zenon
  <1>2. Sound(p) /\ s \in Runs /\ q \in runReorg(p, s)
    BY Zenon, <1>1 DEF PoolInv, RunReorg
  <1>3. s # None /\ run' = None /\ chain' = c /\ request' = r
    BY Zenon, <1>1 DEF RunReorg
  <1>4. Linked(p, c, r, s) /\ \A a \in Accounts : p.nonces[a] \in Nat
    BY Zenon, <1>1 DEF LineInv
  <1>5. s.reset # None => s.reset.old = p.head /\ Chained(p.head) /\ Chained(s.reset.new)
    BY Zenon, <1>3, <1>4 DEF Linked
  <1>6. \A a \in Accounts : q.nonces[a] \in Nat
    BY Zenon, <1>2, <1>4, <1>5, RunLines
  <1>7. q.head = HeadOf(p, s)
    BY Zenon, <1>2, <1>3, RunHead DEF HeadOf
  <1>8. Linked(q, c, r, None)
    <2>1. HeadOf(q, None) = HeadOf(p, s)
      BY Zenon, <1>7 DEF HeadOf
    <2>2. Chained(q.head)
      BY Zenon, <1>4, <1>5, <1>7 DEF HeadOf, Linked
    <2> QED BY Zenon, <1>4, <2>1, <2>2 DEF Linked
  <1>9. LineInv'
    BY Zenon, <1>1, <1>3, <1>6, <1>8 DEF LineInv
  <1>10. ASSUME NEW a \in Accounts, Line(p, a), ~Refuses(Sent(Txs, a)) PROVE Line(q, a)
    <2>1. s.reset # None => Back(s.reset.old, s.reset.new, q, a)
      BY Zenon, <1>1, <1>3, <1>10 DEF Refuses, Back, Lost
    <2> QED BY Zenon, <1>2, <1>4, <1>5, <1>10, <2>1, RunLines
  <1> QED BY Zenon, <1>1, <1>9, <1>10 DEF StepLine

\* A new head is linked to those before it.
LEMMA RequestLine ==
  ASSUME PoolInv, LineInv, NEW h \in Heads, Chained(h), requestReset(h)
  PROVE  StepLine
  <1>1. PICK p, r, c, s, o :
           /\ p = pool /\ r = request /\ c = chain /\ s = request'
           /\ o = [old |-> IF r.reset = None THEN c ELSE r.reset.old, new |-> h]
    BY Zenon
  <1>2. r \in Requests /\ c \in Heads /\ Linked(p, c, r, run)
    BY Zenon, <1>1 DEF PoolInv, LineInv
  <1>3. o.old = (IF r.reset = None THEN c ELSE r.reset.old) /\ o.new = h
    BY <1>1
  <1>4. o # None
    <2>1. o.old \in Heads
      BY Zenon, <1>2, <1>3 DEF Requests, Resets
    <2>2. o = [old |-> o.old, new |-> o.new]
      BY <1>1
    <2>3. o \in Resets
      BY Zenon, <1>3, <2>1, <2>2 DEF Resets
    <2> QED BY Zenon, <2>3, NoneAssumption
  <1>5. s.reset = o
    <2>1. s = Asked([r EXCEPT !.reset = o])
      BY <1>1 DEF requestReset
    <2>2. PICK r1, r2, r3 : r = [reset |-> r1, dirty |-> r2, launch |-> r3]
      BY <1>2 DEF Requests
    <2>3. PICK y : s = [reset |-> o, dirty |-> y, launch |-> TRUE]
      BY Zenon, <2>1, <2>2 DEF Asked
    <2> QED BY <2>3
  <1>6. chain' = h /\ pool' = pool /\ run' = run
    BY Zenon DEF requestReset
  <1>7. o.old = HeadOf(p, run)
    BY Zenon, <1>2, <1>3 DEF Linked
  <1>8. Linked(p, h, s, run)
    BY Zenon, <1>2, <1>3, <1>4, <1>5, <1>7 DEF Linked
  <1> QED BY Zenon, <1>1, <1>6, <1>8, SameLine

\* Extend.
LEMMA ExtendLine ==
  ASSUME PoolInv, LineInv, NEW t \in Mined, Extend(t)
  PROVE  StepLine
  <1>1. PICK h, c : c = chain /\ h = [c EXCEPT !.txs = Append(c.txs, t)]
    BY Zenon
  <1>2. t \in Txs /\ c \in Heads /\ Chained(c)
    BY Zenon, <1>1, PoolAssumption DEF PoolInv, LineInv, Linked
  <1>3. h \in Heads /\ h.txs = Append(c.txs, t)
    BY Zenon, <1>1, <1>2, HeadExtended
  <1>4. t.nonce = GetNonce(c, t.from) /\ requestReset(h)
    BY <1>1 DEF Extend
  <1>5. Chained(h)
    BY Zenon, <1>2, <1>3, <1>4, ChainedAppend
  <1> QED BY Zenon, <1>3, <1>4, <1>5, RequestLine

\* Turn.
LEMMA TurnLine ==
  ASSUME PoolInv, LineInv, Turn
  PROVE  StepLine
  <1>1. PICK n \in 0..Len(chain.txs), poor \in BOOLEAN :
           requestReset([txs |-> SubSeq(chain.txs, 1, n), poor |-> poor])
    BY Zenon DEF Turn
  <1>2. PICK c, s, h : c = chain /\ s = SubSeq(c.txs, 1, n) /\ h = [txs |-> s, poor |-> poor]
    BY Zenon
  <1>3. c \in Heads /\ Chained(c) /\ n \in 0..Len(c.txs)
    BY Zenon, <1>1, <1>2 DEF PoolInv, LineInv, Linked
  <1>4. c.txs \in Seq(Txs)
    BY Zenon, <1>3 DEF Heads
  <1>5. s \in Seq(Txs)
    BY <1>2, <1>3, <1>4
  <1>6. h \in Heads /\ h.txs = s
    BY Zenon, <1>1, <1>2, <1>5 DEF Heads
  <1>7. Chained(h)
    BY Zenon, <1>2, <1>3, <1>6, ChainedPrefix
  <1> QED BY Zenon, <1>1, <1>2, <1>6, <1>7, RequestLine

\* What is loaded from the journal waits in the queue, and nothing is pending.
LEMMA FullLine ==
  ASSUME NEW h \in Heads, NEW J, NEW f, f = Full(h, J), NEW a \in Accounts
  PROVE  Line(f, a)
  <1>1. f.head = h /\ f.pending[a] = {} /\ f.nonces[a] = GetNonce(h, a)
    BY DEF Full, EmptyPool
  <1>2. GetNonce(h, a) \in Nat
    BY Zenon, GetNonceType
  <1>3. Nonces({}) = {} /\ Row(GetNonce(h, a), GetNonce(h, a)) = {}
    BY <1>2 DEF Nonces, Row
  <1> QED BY <1>1, <1>2, <1>3 DEF Line

\* A restart.
LEMMA RestartLine ==
  ASSUME PoolInv, LineInv, Restart
  PROVE  StepLine
  <1>1. PICK q, h, J, f, m :
           /\ q = pool' /\ h = chain /\ J = pool.journal
           /\ f = Full(h, J) /\ m = promoteExecutables(f, f.locals)
    BY Zenon
  <1>2. h \in Heads /\ J \subseteq Txs /\ Chained(h)
    BY Zenon, <1>1 DEF PoolInv, Sound, Shape, LineInv, Linked
  <1>3. PICK x : q = [m EXCEPT !.journal = x]
    <2> DEFINE full  == Full(chain, pool.journal)
               ready == promoteExecutables(full, full.locals)
    <2>1. pool' = [ready EXCEPT !.journal = local(ready)]
      BY Zenon DEF Restart, Full, BestLoaded, Loaded
    <2>2. m = ready
      BY Zenon, <1>1
    <2>3. q = [m EXCEPT !.journal = local(m)]
      BY Zenon, <1>1, <2>1, <2>2
    <2> QED BY Zenon, <2>3
  <1>4. Sound(f) /\ f.head = h
    BY <1>1, <1>2, FullSound
  <1>5. f.locals \subseteq Accounts
    BY Zenon, <1>4 DEF Sound, Shape
  <1>6. Trimmed(f, m)
    BY Zenon, <1>1, <1>4, <1>5, PromoteTrims
  <1>7. Sound(m) /\ m.head = h
    BY Zenon, <1>4, <1>6, TrimmedSound DEF Trimmed, Drops
  <1>8. Still(m, q)
    <2>1. Sets(m, q, x, x)
      BY Zenon, <1>3 DEF Sets
    <2> QED BY Zenon, <1>7, <2>1, SoundPool, OthersStill
  <1>9. q.head = h
    BY Zenon, <1>7, <1>8 DEF Still
  <1>10. ASSUME NEW a \in Accounts PROVE Line(q, a)
    <2>1. Line(f, a)
      BY Zenon, <1>1, <1>2, FullLine
    <2>2. Line(m, a)
      BY Zenon, <1>1, <1>4, <1>5, <2>1, PromoteLine
    <2>3. Lines(m, q, a)
      BY Zenon, <1>7, <1>8, StillLevel, LinesOf
    <2> QED BY Zenon, <2>2, <2>3 DEF Lines
  <1>11. \A a \in Accounts : q.nonces[a] \in Nat
    BY Zenon, <1>10 DEF Line
  <1>12. request'.reset = None /\ run' = None /\ chain' = h
    BY Zenon, <1>1 DEF Restart, NoRequest
  <1>13. Linked(q, h, request', None)
    BY Zenon, <1>2, <1>9, <1>12 DEF Linked, HeadOf
  <1>14. LineInv'
    BY Zenon, <1>1, <1>11, <1>12, <1>13 DEF LineInv
  <1> QED BY Zenon, <1>1, <1>10, <1>14 DEF StepLine

\* Every step.
LEMMA StepLines ==
  ASSUME PoolInv, LineInv, Next
  PROVE  StepLine
  <1>1. CASE AddLocal
    BY Zenon, <1>1, AddLine DEF AddLocal
  <1>2. CASE AddRemote
    BY Zenon, <1>2, AddLine DEF AddRemote
  <1>3. CASE \E price \in Prices : SetGasPrice(price)
    BY Zenon, <1>3, PriceLine
  <1>4. CASE \E a \in Accounts : Evict(a)
    BY Zenon, <1>4, EvictLine
  <1>5. CASE Rotate
    BY Zenon, <1>5, RotateLine
  <1>6. CASE Launch
    BY Zenon, <1>6, LaunchLine
  <1>7. CASE RunReorg
    BY Zenon, <1>7, RunLine
  <1>8. CASE \E t \in Mined : Extend(t)
    BY Zenon, <1>8, ExtendLine
  <1>9. CASE Turn
    BY Zenon, <1>9, TurnLine
  <1>10. CASE Restart
    BY Zenon, <1>10, RestartLine
  <1> QED BY Zenon, <1>1, <1>2, <1>3, <1>4, <1>5, <1>6, <1>7, <1>8, <1>9, <1>10 DEF Next

\* The heads the pool is reset between lead from its own to that of the chain, and
\* each chain counts the nonces of an account from 0 without a gap.
THEOREM HeadsLinked == Spec => []LineInv
  <1>1. PoolInv /\ LineInv /\ [Next]_vars => LineInv'
    <2> SUFFICES ASSUME PoolInv, LineInv, [Next]_vars PROVE LineInv'
      BY Zenon
    <2>1. CASE Next
      BY Zenon, <2>1, StepLines DEF StepLine
    <2>2. CASE UNCHANGED vars
      BY Zenon, <2>2 DEF LineInv, vars
    <2> QED BY Zenon, <2>1, <2>2
  <1> QED BY <1>1, LineInvInit, PoolInvariant, PTL DEF Spec

\* InLine is Line, of a pool whose nonces are numbers.
LEMMA LineIs ==
  ASSUME NEW p, NEW a, p.head \in Heads, p.nonces[a] \in Nat
  PROVE  Line(p, a) <=>
           /\ GetNonce(p.head, a) <= p.nonces[a]
           /\ Nonces(p.pending[a]) = {n \in GetNonce(p.head, a)..p.nonces[a] : n < p.nonces[a]}
  <1>1. PICK v, w, S : v = GetNonce(p.head, a) /\ w = p.nonces[a] /\ S = Nonces(p.pending[a])
    BY Zenon
  <1>2. v \in Nat /\ w \in Nat
    BY Zenon, <1>1, GetNonceType
  <1>3. {n \in v..w : n < w} = Row(v, w)
    BY <1>2 DEF Row
  <1> QED BY Zenon, <1>1, <1>2, <1>3 DEF Line

\* Whatever the limits and the order of additions, heads and runs: what is pending
\* of an account follows the nonce of the state without a gap, and the nonce the
\* pool gives out follows what is pending, as long as every reset adds back what the
\* chain has lost of it (promoteExecutables, demoteUnexecutables, the truncations
\* and setAll, together with the heads reset is asked to go between).
THEOREM PendingStaysInLine == Spec => PendingInLine
  <1> DEFINE K == \A a \in Accounts : InLine(a) /\ ~Refuses(Sent(Txs, a)) => InLine(a)'
  <1>1. PoolInv /\ PoolInv' /\ LineInv /\ Next => K
    <2> SUFFICES ASSUME PoolInv, PoolInv', LineInv, Next, NEW a \in Accounts, InLine(a),
                        ~Refuses(Sent(Txs, a))
                 PROVE  InLine(a)'
      BY Zenon
    <2>1. StepLine
      BY Zenon, StepLines
    <2>2. PICK p, q : p = pool /\ q = pool'
      BY Zenon
    <2>3. p.head \in Heads /\ q.head \in Heads
      BY Zenon, <2>2 DEF PoolInv, Sound, Shape
    <2>4. p.nonces[a] \in Nat /\ q.nonces[a] \in Nat
      BY Zenon, <2>1, <2>2 DEF LineInv, StepLine
    <2>5. Line(p, a)
      BY Zenon, <2>2, <2>3, <2>4, LineIs DEF InLine
    <2>6. Line(q, a)
      BY Zenon, <2>1, <2>2, <2>5 DEF StepLine
    <2> QED BY Zenon, <2>2, <2>3, <2>4, <2>6, LineIs DEF InLine
  <1>2. PoolInv /\ PoolInv' /\ LineInv /\ [Next]_vars => [K]_vars
    BY Zenon, <1>1
  <1> QED BY <1>2, PoolInvariant, HeadsLinked, PTL DEF Spec, PendingInLine

=============================================================================
