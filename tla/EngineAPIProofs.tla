--------------------------- MODULE EngineAPIProofs ---------------------------
(***************************************************************************)
(* Proofs about EngineAPI for every tree of blocks, cache size and bound   *)
(* on restarts.                                                            *)
(***************************************************************************)
EXTENDS EngineAPI, TLAPS, SequenceTheorems, WellFoundedInduction

----------------------------------------------------------------------------
\* The tree of blocks

LEMMA SelfInLine == ASSUME NEW b \in Blocks PROVE b \in line[b] /\ line[b] \subseteq Blocks
  BY TreeAssumption

\* The parent of a block is on its line, one below it, with all of the rest.
LEMMA ParentLine ==
  ASSUME NEW b \in Blocks, b # Genesis
  PROVE  /\ parent[b] \in Blocks /\ parent[b] \in line[b]
         /\ number[parent[b]] < number[b]
         /\ line[b] = {b} \cup line[parent[b]]
<1>1. parent[b] \in Blocks /\ line[b] = {b} \cup line[parent[b]]
  BY TreeAssumption
<1>2. parent[b] \in line[b]
  BY <1>1, SelfInLine
<1>3. number[parent[b]] \in Nat /\ number[b] = number[parent[b]] + 1
  BY <1>1, TreeAssumption
<1>4. number[parent[b]] < number[b]
  BY <1>3
<1>. QED
  BY <1>1, <1>2, <1>4

\* A block on the line of b has the line below it in common, and no higher
\* number; with the same number it is b.
LEMMA OnLine ==
  ASSUME NEW b \in Blocks, NEW x \in line[b]
  PROVE  /\ x \in Blocks /\ line[x] \subseteq line[b]
         /\ number[x] \in Nat /\ number[b] \in Nat /\ number[x] <= number[b]
         /\ x # b => number[x] < number[b]
<1>1. x \in Blocks /\ line[x] \subseteq line[b] /\ b \in line[b]
  BY SelfInLine, LineAssumption
<1>2. number[x] \in Nat /\ number[b] \in Nat
  BY <1>1, TreeAssumption
<1>3. number[x] <= number[b]
  BY <1>1, LineAssumption
<1>4. ASSUME x # b PROVE number[x] < number[b]
  <2>1. b # Genesis
    BY <1>4, TreeAssumption
  <2>2. x \in line[parent[b]] /\ parent[b] \in line[b]
    BY <1>4, <2>1, ParentLine
  <2>3. number[x] <= number[parent[b]]
    BY <2>2, LineAssumption
  <2>4. number[parent[b]] \in Nat /\ number[parent[b]] < number[b]
    BY <2>1, ParentLine, TreeAssumption
  <2>. QED
    BY <1>2, <2>3, <2>4
<1>. QED
  BY <1>1, <1>2, <1>3, <1>4

\* Two blocks of one line with the same number are one.
LEMMA SameNumber ==
  ASSUME NEW b \in Blocks, NEW x \in line[b], NEW y \in line[b], number[x] = number[y]
  PROVE  x = y
<1>1. x \in Blocks /\ y \in Blocks /\ number[x] \in Nat /\ number[y] \in Nat
  BY OnLine
<1>2. x \in line[y]
  BY <1>1, LineAssumption
<1>. QED
  BY <1>1, <1>2, OnLine

LEMMA LowestIn ==
  ASSUME NEW S \in SUBSET Blocks, S # {}
  PROVE  Lowest(S) \in S /\ \A c \in S : number[Lowest(S)] <= number[c]
<1>. DEFINE N == {number[b] : b \in S}
<1>1. N \subseteq Nat /\ N # {}
  BY TreeAssumption
<1>2. PICK n \in N : \A m \in N : ~(<<m, n>> \in OpToRel(<, Nat))
  <2>. HIDE DEF N
  <2>. QED
    BY Zenon, <1>1, WFMin, NatLessThanWellFounded
<1>3. \A m \in N : n <= m
  <2>. SUFFICES ASSUME NEW m \in N PROVE n <= m
    OBVIOUS
  <2>1. ~(m < n)
    BY Zenon, <1>1, <1>2 DEF OpToRel
  <2>. QED
    BY <1>1, <2>1
<1>4. \E b \in S : \A c \in S : number[b] <= number[c]
  BY <1>3
<1>. QED
  BY <1>4 DEF Lowest

LEMMA HighestIn ==
  ASSUME NEW b \in Blocks, NEW S \in SUBSET line[b], S # {}
  PROVE  Highest(S) \in S /\ \A c \in S : number[Highest(S)] >= number[c]
<1>. DEFINE N == {number[b] - number[c] : c \in S}
<1>1. N \subseteq Nat /\ N # {}
  <2>1. \A c \in S : number[b] - number[c] \in Nat
    BY OnLine
  <2>. QED
    BY <2>1
<1>2. PICK n \in N : \A m \in N : ~(<<m, n>> \in OpToRel(<, Nat))
  <2>. HIDE DEF N
  <2>. QED
    BY Zenon, <1>1, WFMin, NatLessThanWellFounded
<1>3. PICK x \in S : n = number[b] - number[x]
  OBVIOUS
<1>4. ASSUME NEW c \in S PROVE number[x] >= number[c]
  <2>1. number[b] - number[c] \in N
    OBVIOUS
  <2>2. ~(number[b] - number[c] < number[b] - number[x])
    BY Zenon, <1>1, <1>2, <1>3, <2>1 DEF OpToRel
  <2>3. number[b] \in Nat /\ number[c] \in Nat /\ number[x] \in Nat
    BY OnLine
  <2>. QED
    BY <2>2, <2>3
<1>. QED
  BY <1>4 DEF Highest

----------------------------------------------------------------------------
\* The parts of the invariant

ChainOK == ChainTypeOK /\ ExecutedInv /\ JobInv /\ ChoiceInv /\ CanonicalChain /\ HeadHasState
ApiOK ==
  /\ remoteBlocks \in Seq(Blocks) /\ Len(remoteBlocks) <= MaxTrackedHeaders
  /\ invalidTipsets \in [Blocks -> Blocks \cup {None}]
  /\ invalidBlocksHits \in [Blocks -> 0..HitEviction]
SyncOK == skeleton \in Skeleton \cup {None} /\ fill \in Fill /\ SkeletonInv
ClientOK ==
  /\ choice \in Blocks \cup {None}
  /\ client \in [final : Blocks, settled : BOOLEAN]
  /\ restarts \in 0..MaxRestarts

LEMMA InvParts ==
  /\ Inv => ChainOK /\ ApiOK /\ SyncOK /\ ClientOK
  /\ ChainOK' /\ ApiOK' /\ SyncOK' /\ ClientOK' => Inv'
  BY DEF Inv, TypeOK, ChainOK, ApiOK, SyncOK, ClientOK

\* The chain's part does not depend on the API's caches and the sync.
LEMMA ChainFrame ==
  ASSUME ChainOK, UNCHANGED <<chainVars, choice>>, client'.final = client.final
  PROVE  ChainOK'
  BY DEF ChainOK, chainVars, ChainTypeOK, ExecutedInv, JobInv, ChoiceInv, CanonicalChain,
         HeadHasState, StateKept, HasState

LEMMA SyncFrame == ASSUME SyncOK, UNCHANGED syncVars PROVE SyncOK'
  BY DEF SyncOK, syncVars, SkeletonInv

LEMMA ApiFrame == ASSUME ApiOK, UNCHANGED apiVars PROVE ApiOK'
  BY DEF ApiOK, apiVars

LEMMA ClientFrame == ASSUME ClientOK, UNCHANGED <<choice, client, restarts>> PROVE ClientOK'
  BY DEF ClientOK

----------------------------------------------------------------------------
\* The caches of the API

LEMMA HitType ==
  ASSUME NEW hits \in [Blocks -> 0..HitEviction], NEW b \in Blocks
  PROVE  Hit(hits, b) \in [Blocks -> 0..HitEviction]
  BY EngineAssumption DEF Hit

LEMMA CheckType ==
  ASSUME NEW tips \in [Blocks -> Blocks \cup {None}], NEW hits \in [Blocks -> 0..HitEviction],
         NEW check \in Blocks, NEW tip \in Blocks,
         NEW c \in checkInvalidAncestor(tips, hits, check, tip)
  PROVE  c.tips \in [Blocks -> Blocks \cup {None}] /\ c.hits \in [Blocks -> 0..HitEviction]
<1>. DEFINE bad == tips[check]
<1>1. CASE bad = None
  BY <1>1 DEF checkInvalidAncestor
<1>2. CASE bad # None
  <2>1. bad \in Blocks
    BY <1>2
  <2>2. Hit(hits, bad) \in [Blocks -> 0..HitEviction]
    BY <2>1, HitType
  <2>5. [hits EXCEPT ![bad] = 0] \in [Blocks -> 0..HitEviction]
    <3>1. 0 \in 0..HitEviction
      BY EngineAssumption
    <3>. HIDE DEF bad
    <3>. QED
      BY <2>1, <3>1
  <2>3. [b \in Blocks |-> IF tips[b] = bad THEN None ELSE tips[b]]
          \in [Blocks -> Blocks \cup {None}]
    OBVIOUS
  <2>4. \A S : [b \in Blocks |-> IF b = tip THEN bad ELSE IF b \in S THEN None ELSE tips[b]]
          \in [Blocks -> Blocks \cup {None}]
    BY <2>1
  <2>. DEFINE hit == Hit(hits, bad)
              full == {b \in Blocks : tips[b] # None}
              dropped == IF check = tip THEN {{}}
                 ELSE {S \in SUBSET full :
                         Cardinality(S) = IF Cardinality(full) < TipsetsCap THEN 0
                                          ELSE Cardinality(full) - TipsetsCap + 1}
              gone == [b \in Blocks |-> IF tips[b] = bad THEN None ELSE tips[b]]
              zero == [hits EXCEPT ![bad] = 0]
              Left(S) == [b \in Blocks |-> IF b = tip THEN bad
                                           ELSE IF b \in S THEN None ELSE tips[b]]
  <2>6. \/ c = [invalid |-> FALSE, tips |-> gone, hits |-> zero]
        \/ \E S \in dropped : c = [invalid |-> TRUE, tips |-> Left(S), hits |-> hit]
    BY Zenon, <1>2 DEF checkInvalidAncestor
  <2>. HIDE DEF hit, dropped, gone, zero, Left
  <2>7. \/ c.tips = gone /\ c.hits = zero
        \/ \E S \in dropped : c.tips = Left(S) /\ c.hits = hit
    BY <2>6
  <2>. QED
    BY Zenon, <2>2, <2>3, <2>4, <2>5, <2>7 DEF hit, gone, zero, Left
<1>. QED
  BY <1>1, <1>2

LEMMA PutType ==
  ASSUME ApiOK, NEW b \in Blocks
  PROVE  put(b) \in Seq(Blocks) /\ Len(put(b)) <= MaxTrackedHeaders
<1>. DEFINE s == <<b>>
            q == s \o remoteBlocks
            m == IF Len(remoteBlocks) < MaxTrackedHeaders
                 THEN Len(remoteBlocks) + 1 ELSE MaxTrackedHeaders
<1>1. s \in Seq(Blocks) /\ Len(s) = 1 /\ remoteBlocks \in Seq(Blocks)
  BY DEF ApiOK
<1>2. q \in Seq(Blocks) /\ Len(q) = 1 + Len(remoteBlocks)
  <2>. HIDE DEF s
  <2>1. s \o remoteBlocks \in Seq(Blocks) /\ Len(s \o remoteBlocks) = Len(s) + Len(remoteBlocks)
    BY Zenon, <1>1, ConcatProperties
  <2>. QED
    BY <1>1, <2>1
<1>3. Len(remoteBlocks) \in Nat /\ Len(remoteBlocks) <= MaxTrackedHeaders
  BY <1>1, LenProperties DEF ApiOK
<1>4. m \in Nat /\ 1 <= m /\ m <= Len(q) /\ m <= MaxTrackedHeaders
  BY <1>2, <1>3, EngineAssumption
<1>5. SubSeq(q, 1, m) \in Seq(Blocks) /\ Len(SubSeq(q, 1, m)) = m
  <2>. HIDE DEF q, m
  <2>. QED
    BY <1>2, <1>4, SubSeqProperties
<1>. QED
  BY <1>4, <1>5 DEF put

----------------------------------------------------------------------------
\* The sync

LEMMA MissingType == ASSUME NEW s \in Skeleton PROVE Missing(s) \subseteq Blocks
<1>1. line[s.head] \subseteq Blocks
  BY SelfInLine DEF Skeleton
<1>. QED
  BY Zenon, <1>1 DEF Missing, InSkeleton

LEMMA ResumeType ==
  ASSUME fill \in Fill, NEW s \in Skeleton, resume(s)
  PROVE  fill' \in Fill
  BY MissingType DEF resume, Fill, Skeleton

LEMMA CycleType ==
  ASSUME ChainOK, NEW b \in Blocks \ {Genesis}
  PROVE  /\ Cycle(b) \in Skeleton
         /\ ~Cycle(b).linked => parent[Cycle(b).tail] # Genesis
<1>. DEFINE l == parent[b] \in executed
<1>1. l \in BOOLEAN
  OBVIOUS
<1>2. Genesis \in executed
  BY DEF ChainOK, ChainTypeOK
<1>3. ~l => parent[b] # Genesis
  BY <1>2
<1>4. Cycle(b) = [head |-> b, tail |-> b, linked |-> l]
  BY DEF Cycle
<1>. HIDE DEF l
<1>5. Cycle(b) \in Skeleton /\ Cycle(b).tail = b /\ Cycle(b).linked = l
  BY <1>1, <1>4 DEF Skeleton
<1>. QED
  BY <1>3, <1>5

LEMMA BeaconSyncType ==
  ASSUME ChainOK, SyncOK, NEW b \in Blocks \ {Genesis}, NEW force \in BOOLEAN,
         beaconSync(b, force)
  PROVE  SyncOK'
<1>1. CASE Fits(b) /\ skeleton' = [skeleton EXCEPT !.head = b]
           /\ IF skeleton.linked THEN resume(skeleton') ELSE fill' = fill
  <2>1. skeleton \in Skeleton
    BY <1>1 DEF Fits, SyncOK
  <2>2. skeleton' \in Skeleton /\ skeleton'.tail = skeleton.tail
        /\ skeleton'.linked = skeleton.linked
    BY <1>1, <2>1 DEF Skeleton
  <2>3. fill' \in Fill
    BY <1>1, <2>2, ResumeType DEF SyncOK
  <2>4. SkeletonInv'
    BY <1>1, <2>2 DEF SyncOK, SkeletonInv, Fits
  <2>. QED
    BY <2>2, <2>3, <2>4 DEF SyncOK
<1>2. CASE skeleton' = Cycle(b)
           /\ fill' = IF skeleton'.linked THEN [todo |-> Missing(skeleton'), held |-> {}]
                      ELSE NoFill
  <2>1. skeleton' \in Skeleton /\ SkeletonInv'
    BY <1>2, CycleType DEF SkeletonInv
  <2>2. fill' \in Fill
    BY <1>2, <2>1, MissingType DEF Fill, NoFill
  <2>. QED
    BY <2>1, <2>2 DEF SyncOK
<1>3. CASE UNCHANGED syncVars
  BY <1>3, SyncFrame
<1>. QED
  BY <1>1, <1>2, <1>3 DEF beaconSync

----------------------------------------------------------------------------
\* Writing blocks

\* Valid blocks of one line, on top of executed ones, may be executed: a state
\* is dropped only for a block TriesInMemory above it.
LEMMA WriteOK ==
  ASSUME ChainOK, NEW h \in Blocks, NEW S \in SUBSET line[h], S # {}, S \cap Bad = {},
         \A b \in S : line[b] \subseteq S \cup executed,
         WriteWithState(S)
  PROVE  /\ executed' = executed \cup S /\ db' = db \cup S
         /\ Genesis \in executed' /\ executed' \subseteq db' /\ db' \subseteq Blocks
         /\ live' \subseteq executed' /\ disk' \subseteq executed'
         /\ ExecutedInv'
         /\ \A b \in Blocks : StateKept(b) \/ b \in S => StateKept(b)'
<1>1. S \subseteq Blocks
  BY SelfInLine
<1>2. executed' = executed \cup S /\ db' = db \cup S
  BY DEF WriteWithState
<1>3. /\ Genesis \in executed' /\ executed' \subseteq db' /\ db' \subseteq Blocks
      /\ live' \subseteq executed' /\ disk' \subseteq executed' /\ disk \subseteq disk'
  BY <1>1, <1>2 DEF WriteWithState, ChainOK, ChainTypeOK
<1>4. ExecutedInv'
  BY Zenon, <1>2, <1>3 DEF ChainOK, ExecutedInv
<1>5. ASSUME NEW b \in Blocks, StateKept(b) \/ b \in S PROVE StateKept(b)'
  <2>1. CASE b \in disk
    BY <1>3, <2>1 DEF StateKept, HasState
  <2>2. CASE b \in live \cup S
    <3>1. Highest(S) \in S
      BY HighestIn
    <3>2. number[b] \in Nat /\ number[Highest(S)] \in Nat /\ TriesInMemory \in Nat
      BY <1>1, <3>1, TreeAssumption
    <3>3. CASE number[b] + TriesInMemory > number[Highest(S)]
      BY Zenon, <2>2, <3>3 DEF WriteWithState, StateKept, HasState
    <3>4. CASE number[Highest(S)] >= number[b] + TriesInMemory
      BY <1>2, <3>1, <3>4 DEF StateKept
    <3>. QED
      BY <3>2, <3>3, <3>4
  <2>3. CASE \E c \in executed : number[c] >= number[b] + TriesInMemory
    BY <1>2, <2>3 DEF StateKept
  <2>. QED
    BY Zenon, <1>5, <2>1, <2>2, <2>3 DEF StateKept, HasState
<1>. QED
  BY <1>2, <1>3, <1>4, <1>5

\* Starting the job that makes an executed block the head.
LEMMA StartJob ==
  ASSUME ChainOK, job = None, NEW b \in Blocks, NEW who \in {"fcu", "sync"},
         b \in executed', StateKept(b)', job' = HeadJob(b, who),
         UNCHANGED <<canon, head, torn>>
  PROVE  /\ job' \in Job /\ job'.to = b /\ job'.by = who
         /\ JobInv' /\ CanonicalChain' /\ HeadHasState'
<1>1. /\ job' \in Job /\ job'.to = b /\ job'.by = who
      /\ job'.phase \in {"head", "reorg"}
      /\ job'.phase = "head" => parent[b] = head
  BY DEF HeadJob, Job
<1>2. job' # None
  BY <1>1, NoneAssumption
<1>3. torn \/ \A x \in line[head] : canon[number[x]] = x
  BY DEF ChainOK, CanonicalChain
<1>4. ASSUME job'.phase # "reorg", ~torn, NEW x \in line[b] \ {b}
      PROVE  canon[number[x]] = x
  <2>1. b # Genesis
    BY <1>4, TreeAssumption
  <2>2. x \in line[head]
    BY Zenon, <1>1, <1>4, <2>1, ParentLine
  <2>. QED
    BY <1>3, <1>4, <2>2
<1>5. JobInv'
  BY Zenon, <1>1, <1>4 DEF JobInv
<1>6. CanonicalChain'
  BY <1>3 DEF CanonicalChain
<1>7. HeadHasState'
  BY <1>2 DEF HeadHasState
<1>. QED
  BY <1>1, <1>5, <1>6, <1>7

----------------------------------------------------------------------------
\* The steps of a job

\* The lowest block a reorganisation still has to write stands on the head's
\* line.
LEMMA NextWritten ==
  ASSUME ChainOK, job # None, NEW rest, rest = line[job.to] \ (line[head] \cup {job.to}),
         rest # {}
  PROVE  /\ Lowest(rest) \in rest /\ Lowest(rest) \in Blocks \ {Genesis}
         /\ Lowest(rest) \in line[job.to] /\ Lowest(rest) # job.to
         /\ parent[Lowest(rest)] \in line[head]
<1>1. job.to \in Blocks /\ head \in Blocks
  BY DEF ChainOK, ChainTypeOK, Job
<1>2. rest \subseteq Blocks
  BY Zenon, <1>1, SelfInLine
<1>. DEFINE b == Lowest(rest)
<1>3. b \in rest /\ \A c \in rest : number[b] <= number[c]
  BY <1>2, LowestIn
<1>. HIDE DEF b
<1>4. b \in Blocks /\ b # Genesis /\ b \in line[job.to] /\ b # job.to
  BY <1>1, <1>2, <1>3, LineAssumption
<1>5. parent[b] \in Blocks /\ parent[b] \in line[b] /\ number[parent[b]] < number[b]
  BY <1>4, ParentLine
<1>6. parent[b] \in line[job.to]
  BY <1>1, <1>4, <1>5, OnLine
<1>7. parent[b] # job.to
  <2>1. number[b] <= number[job.to] /\ number[b] \in Nat /\ number[job.to] \in Nat
    BY <1>1, <1>4, OnLine
  <2>2. number[parent[b]] \in Nat
    BY <1>5, TreeAssumption
  <2>. QED
    BY <1>5, <2>1, <2>2
<1>8. parent[b] \notin rest
  <2>1. number[b] \in Nat /\ number[parent[b]] \in Nat
    BY Zenon, <1>4, <1>5, TreeAssumption
  <2>. QED
    BY <1>3, <1>5, <2>1
<1>. QED
  BY Zenon, <1>3, <1>4, <1>6, <1>7, <1>8 DEF b

\* A marker written for b leaves those of the blocks below b alone.
LEMMA MarkerBelow ==
  ASSUME canon \in [Numbers -> Blocks \cup {None}], NEW b \in Blocks, writeHeadBlock(b)
  PROVE  /\ canon' \in [Numbers -> Blocks \cup {None}]
         /\ canon'[number[b]] = b /\ head' = b
         /\ \A x \in Blocks : number[x] # number[b] => canon'[number[x]] = canon[number[x]]
<1>1. number[b] \in Numbers /\ \A x \in Blocks : number[x] \in Numbers
  BY DEF Numbers
<1>. QED
  BY <1>1 DEF writeHeadBlock

LEMMA ReorgWriteOK == ASSUME ChainOK, ReorgWrite, UNCHANGED <<choice, client>> PROVE ChainOK'
<1>. DEFINE rest == line[job.to] \ (line[head] \cup {job.to})
            b == Lowest(rest)
<1>1. /\ b \in Blocks \ {Genesis} /\ b \in line[job.to] /\ b # job.to
      /\ parent[b] \in line[head] /\ job # None /\ job.phase = "reorg"
      /\ writeHeadBlock(b)
      /\ UNCHANGED <<db, executed, live, disk, final, job, torn>>
  BY Zenon, NextWritten DEF ReorgWrite
<1>. HIDE DEF b
<1>2. canon \in [Numbers -> Blocks \cup {None}] /\ job \in Job /\ job.to \in Blocks
      /\ head \in Blocks
  BY Zenon, <1>1 DEF ChainOK, ChainTypeOK, Job
<1>3. /\ canon' \in [Numbers -> Blocks \cup {None}]
      /\ canon'[number[b]] = b /\ head' = b
      /\ \A x \in Blocks : number[x] # number[b] => canon'[number[x]] = canon[number[x]]
  BY <1>1, <1>2, MarkerBelow
<1>4. b \in executed
  BY Zenon, <1>1 DEF ChainOK, JobInv, ExecutedInv
<1>5. ChainTypeOK'
  BY <1>1, <1>3, <1>4 DEF ChainOK, ChainTypeOK
<1>6. ExecutedInv' /\ JobInv' /\ HeadHasState'
  BY <1>1 DEF ChainOK, ExecutedInv, JobInv, HeadHasState, StateKept, HasState
<1>7. number[b] # number[job.to]
  BY <1>1, <1>2, OnLine
<1>8. ChoiceInv'
  BY <1>1, <1>2, <1>3, <1>7 DEF ChainOK, ChoiceInv
<1>9. CanonicalChain'
  <2>1. torn \/ \A x \in line[head] : canon[number[x]] = x
    BY <1>1 DEF ChainOK, CanonicalChain
  <2>2. ASSUME ~torn, NEW x \in line[b] PROVE canon'[number[x]] = x
    <3>1. CASE x = b
      BY <1>3, <3>1
    <3>2. CASE x # b
      <4>1. x \in line[parent[b]] /\ number[x] # number[b] /\ x \in Blocks
        BY <1>1, <3>2, ParentLine, OnLine
      <4>2. x \in line[head]
        BY Zenon, <1>1, <1>2, <4>1, OnLine
      <4>. QED
        BY <1>3, <2>1, <2>2, <4>1, <4>2
    <3>. QED
      BY <3>1, <3>2
  <2>. QED
    BY <1>1, <1>3, <2>2 DEF CanonicalChain
<1>. QED
  BY <1>5, <1>6, <1>8, <1>9 DEF ChainOK

LEMMA ReorgTrimOK == ASSUME ChainOK, ReorgTrim, UNCHANGED <<choice, client>> PROVE ChainOK'
<1>1. /\ job # None /\ job.phase = "reorg" /\ job \in Job /\ job.to \in Blocks
      /\ head \in Blocks /\ head \in executed
      /\ canon \in [Numbers -> Blocks \cup {None}]
      /\ UNCHANGED <<db, executed, live, disk, head, final, torn>>
  BY DEF ReorgTrim, ChainOK, ChainTypeOK, Job
<1>2. /\ job' \in Job /\ job'.phase = "trimmed" /\ job'.to = job.to /\ job'.by = job.by
      /\ job' # None
  <2>1. /\ job' \in Job /\ job'.phase = "trimmed" /\ job'.to = job.to /\ job'.by = job.by
    BY <1>1 DEF ReorgTrim, Job
  <2>. QED
    BY <2>1, NoneAssumption
<1>3. canon' \in [Numbers -> Blocks \cup {None}]
  BY <1>1 DEF ReorgTrim, MarkersUpTo
<1>4. ASSUME NEW x \in line[job.to] \ {job.to}
      PROVE  canon'[number[x]] = canon[number[x]] /\ x \in line[head]
  <2>1. x \in line[head]
    BY <1>4 DEF ReorgTrim
  <2>2. number[x] \in Nat /\ number[job.to] \in Nat /\ number[x] < number[job.to]
        /\ x \in Blocks
    BY <1>1, <1>4, OnLine
  <2>3. number[x] \in Numbers
    BY <2>2 DEF Numbers
  <2>4. ~(number[x] > number[job.to]) /\ ~(number[x] > number[job.to] - 1)
    BY <2>2
  <2>. QED
    BY <2>1, <2>3, <2>4 DEF ReorgTrim, MarkersUpTo
<1>5. torn \/ \A x \in line[head] : canon[number[x]] = x
  BY <1>1 DEF ChainOK, CanonicalChain
<1>6. JobInv'
  BY Zenon, <1>1, <1>2, <1>4, <1>5 DEF ChainOK, JobInv, StateKept, HasState
<1>7. ChainTypeOK'
  BY Zenon, <1>1, <1>2, <1>3 DEF ChainOK, ChainTypeOK
<1>8. ExecutedInv' /\ HeadHasState' /\ CanonicalChain'
  BY Zenon, <1>1, <1>2 DEF ChainOK, ExecutedInv, HeadHasState, CanonicalChain
<1>9. ChoiceInv'
  BY <1>1, <1>2 DEF ChainOK, ChoiceInv
<1>. QED
  BY <1>6, <1>7, <1>8, <1>9 DEF ChainOK

LEMMA WriteNewHeadOK ==
  ASSUME ChainOK, WriteNewHead, UNCHANGED <<choice, client>> PROVE ChainOK'
<1>1. /\ job # None /\ job.phase # "reorg" /\ job.to \in Blocks /\ job.to \in executed
      /\ canon \in [Numbers -> Blocks \cup {None}]
      /\ writeHeadBlock(job.to) /\ job' = None
      /\ UNCHANGED <<db, executed, live, disk, final, torn>>
  BY Zenon DEF WriteNewHead, ChainOK, ChainTypeOK, Job, JobInv
<1>2. /\ canon' \in [Numbers -> Blocks \cup {None}]
      /\ canon'[number[job.to]] = job.to /\ head' = job.to
      /\ \A x \in Blocks : number[x] # number[job.to] => canon'[number[x]] = canon[number[x]]
  BY Zenon, <1>1, MarkerBelow
<1>3. ASSUME ~torn, NEW x \in line[job.to] PROVE canon'[number[x]] = x
  <2>1. CASE x = job.to
    BY <1>2, <2>1
  <2>2. CASE x # job.to
    <3>1. x \in Blocks /\ number[x] # number[job.to]
      BY <1>1, <2>2, OnLine
    <3>2. canon[number[x]] = x
      BY <1>1, <1>3, <2>2 DEF ChainOK, JobInv
    <3>. QED
      BY Zenon, <1>2, <3>1, <3>2
  <2>. QED
    BY <2>1, <2>2
<1>4. ChainTypeOK'
  BY Zenon, <1>1, <1>2 DEF ChainOK, ChainTypeOK
<1>5. HeadHasState'
  BY <1>1, <1>2 DEF ChainOK, JobInv, HeadHasState, StateKept, HasState
<1>6. CanonicalChain'
  BY Zenon, <1>1, <1>2, <1>3 DEF CanonicalChain
<1>7. ExecutedInv' /\ JobInv' /\ ChoiceInv'
  BY Zenon, <1>1 DEF ChainOK, ExecutedInv, JobInv, ChoiceInv
<1>. QED
  BY <1>4, <1>5, <1>6, <1>7 DEF ChainOK

\* A restart leaves the head on its old line, with a state.
LEMMA RestartOK ==
  ASSUME ChainOK, ClientOK, NEW S \in SUBSET live, RestartWith(S), choice' = None, client' = client
  PROVE  ChainOK'
<1>. DEFINE kept == disk \cup S
<1>1. /\ disk' = kept /\ live' = {} /\ head' = Highest(line[head] \cap kept) /\ job' = None
      /\ UNCHANGED <<db, executed, canon>>
      /\ torn' = (torn \/ (job # None /\ job.phase = "trimmed"))
      /\ final' \in {final, Genesis}
  BY DEF RestartWith
<1>2. head \in Blocks /\ kept \subseteq executed /\ Genesis \in line[head] \cap kept
  BY LineAssumption DEF ChainOK, ChainTypeOK, ExecutedInv
<1>3. head' \in line[head] /\ head' \in kept /\ head' \in Blocks
  <2>1. Highest(line[head] \cap kept) \in line[head] \cap kept
    <3>. HIDE DEF kept
    <3>. QED
      BY <1>2, HighestIn
  <2>. QED
    BY Zenon, <1>1, <1>2, <2>1, SelfInLine
<1>4. torn' \in BOOLEAN
  BY <1>1 DEF ChainOK, ChainTypeOK
<1>5. ChainTypeOK'
  <2>1. Genesis \in db
    BY DEF ChainOK, ChainTypeOK
  <2>. QED
    BY Zenon, <1>1, <1>2, <1>3, <1>4, <2>1 DEF ChainOK, ChainTypeOK
<1>6. ExecutedInv' /\ JobInv'
  BY Zenon, <1>1, <1>2 DEF ChainOK, ExecutedInv, JobInv
<1>7. ChoiceInv'
  <2>1. Genesis \in line[client.final]
    BY LineAssumption DEF ClientOK
  <2>. QED
    BY Zenon, <1>1, <2>1 DEF ChainOK, ChoiceInv
<1>8. CanonicalChain'
  <2>1. torn' \/ \A x \in line[head] : canon[number[x]] = x
    BY Zenon, <1>1 DEF ChainOK, CanonicalChain
  <2>2. line[head'] \subseteq line[head]
    BY Zenon, <1>2, <1>3, OnLine
  <2>. QED
    BY Zenon, <1>1, <2>1, <2>2 DEF CanonicalChain
<1>9. HeadHasState'
  BY Zenon, <1>1, <1>3 DEF HeadHasState, StateKept, HasState
<1>. QED
  BY <1>5, <1>6, <1>7, <1>8, <1>9 DEF ChainOK

----------------------------------------------------------------------------
\* The import of the sync

\* A valid block on an executed parent may be written.
LEMMA OnParent ==
  ASSUME ChainOK, NEW b \in Blocks, b \notin Bad, HasState(parent[b]), WriteWithState({b})
  PROVE  /\ executed' = executed \cup {b} /\ db' = db \cup {b}
         /\ Genesis \in executed' /\ executed' \subseteq db' /\ db' \subseteq Blocks
         /\ live' \subseteq executed' /\ disk' \subseteq executed'
         /\ ExecutedInv'
         /\ \A c \in Blocks : StateKept(c) \/ c = b => StateKept(c)'
<1>1. parent[b] \in executed
  BY Zenon DEF HasState, ChainOK, ChainTypeOK
<1>2. line[b] \subseteq {b} \cup executed
  <2>1. CASE b = Genesis
    BY Zenon, <2>1, TreeAssumption
  <2>2. CASE b # Genesis
    BY Zenon, <1>1, <2>2, ParentLine DEF ChainOK, ExecutedInv
  <2>. QED
    BY Zenon, <2>1, <2>2
<1>. DEFINE S == {b}
<1>3. S \in SUBSET line[b] /\ S # {} /\ S \cap Bad = {} /\ WriteWithState(S)
      /\ \A c \in S : line[c] \subseteq S \cup executed
  BY Zenon, <1>2, SelfInLine
<1>4. \A c : c \in S <=> c = b
  OBVIOUS
<1>. HIDE DEF S
<1>5. /\ executed' = executed \cup S /\ db' = db \cup S
      /\ Genesis \in executed' /\ executed' \subseteq db' /\ db' \subseteq Blocks
      /\ live' \subseteq executed' /\ disk' \subseteq executed'
      /\ ExecutedInv'
      /\ \A c \in Blocks : StateKept(c) \/ c \in S => StateKept(c)'
  BY Zenon, <1>3, WriteOK
<1>. QED
  BY Zenon, <1>4, <1>5 DEF S

LEMMA ImportKnownOK ==
  ASSUME ChainOK, job = None, NEW b \in Blocks, ImportKnown(b), UNCHANGED <<choice, client>>
  PROVE  ChainOK'
<1>1. /\ b \in executed /\ StateKept(b)
      /\ UNCHANGED <<db, executed, live, disk, canon, head, final, torn>>
      /\ job' = HeadJob(b, "sync") \/ job' = None
  BY Zenon DEF ImportKnown, HasState, StateKept, ChainOK, ChainTypeOK
<1>2. CASE job' = None
  BY Zenon, <1>1, <1>2, ChainFrame DEF chainVars
<1>3. CASE job' = HeadJob(b, "sync")
  <2>1. b \in executed' /\ StateKept(b)'
    BY Zenon, <1>1 DEF StateKept, HasState
  <2>2. /\ job' \in Job /\ job'.by = "sync"
        /\ JobInv' /\ CanonicalChain' /\ HeadHasState'
    BY Zenon, <1>1, <1>3, <2>1, StartJob
  <2>3. ChainTypeOK' /\ ExecutedInv'
    BY Zenon, <1>1, <2>2 DEF ChainOK, ChainTypeOK, ExecutedInv
  <2>4. ChoiceInv'
    BY Zenon, <1>1, <2>2 DEF ChainOK, ChoiceInv
  <2>. QED
    BY Zenon, <2>2, <2>3, <2>4 DEF ChainOK
<1>. QED
  BY Zenon, <1>1, <1>2, <1>3

LEMMA ImportExecutedOK ==
  ASSUME ChainOK, job = None, NEW b \in Blocks, ImportExecuted(b), UNCHANGED <<choice, client>>
  PROVE  ChainOK'
<1>1. /\ b \notin Bad /\ HasState(parent[b]) /\ WriteWithState({b})
      /\ job' = HeadJob(b, "sync") /\ UNCHANGED <<canon, head, final, torn>>
  BY Zenon DEF ImportExecuted
<1>2. /\ executed' = executed \cup {b} /\ db' = db \cup {b}
      /\ Genesis \in executed' /\ executed' \subseteq db' /\ db' \subseteq Blocks
      /\ live' \subseteq executed' /\ disk' \subseteq executed'
      /\ ExecutedInv' /\ StateKept(b)'
  BY Zenon, <1>1, OnParent
<1>3. /\ job' \in Job /\ job'.by = "sync"
      /\ JobInv' /\ CanonicalChain' /\ HeadHasState'
  BY Zenon, <1>1, <1>2, StartJob
<1>4. ChainTypeOK'
  BY Zenon, <1>1, <1>2, <1>3 DEF ChainOK, ChainTypeOK
<1>5. ChoiceInv'
  BY Zenon, <1>1, <1>3 DEF ChainOK, ChoiceInv
<1>. QED
  BY Zenon, <1>2, <1>3, <1>4, <1>5 DEF ChainOK

LEMMA ImportPrunedOK ==
  ASSUME ChainOK, NEW b \in Blocks, ImportPruned(b), UNCHANGED <<choice, client>>
  PROVE  ChainOK'
<1>1. db' = db \cup {b} /\ UNCHANGED <<executed, live, disk, canon, head, final, job, torn>>
  BY Zenon DEF ImportPruned
<1>2. ChainTypeOK'
  BY Zenon, <1>1 DEF ChainOK, ChainTypeOK
<1>. QED
  BY Zenon, <1>1, <1>2 DEF ChainOK, ExecutedInv, JobInv, ChoiceInv, CanonicalChain,
                    HeadHasState, StateKept, HasState

\* A report of a bad block keeps the caches' types.
LEMMA ReportOK == ASSUME ApiOK, NEW b \in Blocks, setInvalidAncestor(b) PROVE ApiOK'
<1>1. invalidTipsets' \in [Blocks -> Blocks \cup {None}]
  BY Zenon DEF setInvalidAncestor, ApiOK
<1>2. invalidBlocksHits' \in [Blocks -> 0..HitEviction]
  BY Zenon, HitType DEF setInvalidAncestor, ApiOK
<1>. QED
  BY Zenon, <1>1, <1>2 DEF ApiOK, setInvalidAncestor

LEMMA ImportOK == ASSUME Inv, Import PROVE Inv'
<1>. USE InvParts
<1>1. ChainOK /\ ApiOK /\ SyncOK /\ ClientOK
  OBVIOUS
<1>. DEFINE due == IF fill.held # {} THEN fill.held ELSE fill.todo
            b == Lowest(due)
<1>2. /\ job = None /\ fill # NoFill
      /\ ImportKnown(b) \/ ImportExecuted(b) \/ ImportRefused(b) \/ ImportPruned(b)
      /\ UNCHANGED <<skeleton, choice, client, restarts>>
  BY Zenon DEF Import
<1>3. due \in SUBSET Blocks /\ due # {}
  BY Zenon, <1>1, <1>2 DEF SyncOK, Fill, NoFill
<1>4. b \in Blocks
  <2>. HIDE DEF due
  <2>. QED
    BY <1>3, LowestIn
<1>. HIDE DEF b
<1>5. ClientOK'
  BY <1>1, <1>2, ClientFrame
<1>6. fill' \in Fill => SyncOK'
  BY Zenon, <1>1, <1>2 DEF SyncOK, SkeletonInv
<1>7. ImportRest(b) \in Fill /\ NoFill \in Fill
  BY Zenon, <1>1 DEF ImportRest, NoFill, Fill, SyncOK
<1>8. CASE ImportKnown(b)
  <2>1. ChainOK'
    BY Zenon, <1>1, <1>2, <1>4, <1>8, ImportKnownOK
  <2>2. fill' \in Fill /\ ApiOK'
    BY Zenon, <1>1, <1>7, <1>8, ApiFrame DEF ImportKnown
  <2>. QED
    BY <1>5, <1>6, <2>1, <2>2
<1>9. CASE ImportExecuted(b)
  <2>1. ChainOK'
    BY Zenon, <1>1, <1>2, <1>4, <1>9, ImportExecutedOK
  <2>2. fill' \in Fill /\ ApiOK'
    BY Zenon, <1>1, <1>7, <1>9, ApiFrame DEF ImportExecuted
  <2>. QED
    BY <1>5, <1>6, <2>1, <2>2
<1>10. CASE ImportRefused(b)
  <2>1. ChainOK'
    BY Zenon, <1>1, <1>2, <1>10, ChainFrame DEF ImportRefused
  <2>2. fill' \in Fill /\ ApiOK'
    BY Zenon, <1>1, <1>4, <1>7, <1>10, ApiFrame, ReportOK DEF ImportRefused
  <2>. QED
    BY <1>5, <1>6, <2>1, <2>2
<1>11. CASE ImportPruned(b)
  <2>1. ChainOK'
    BY Zenon, <1>1, <1>2, <1>4, <1>11, ImportPrunedOK
  <2>2. ApiOK'
    BY Zenon, <1>1, <1>4, <1>11, ApiFrame, ReportOK DEF ImportPruned
  <2>3. Stateless(b) \subseteq Blocks
    BY Zenon, <1>4, SelfInLine DEF Stateless
  <2>4. fill' \in Fill
    <3>1. CASE fill' = NoFill
      BY Zenon, <1>7, <3>1
    <3>2. CASE fill' = [todo |-> fill.todo \ {b}, held |-> Stateless(b)]
      <4>1. fill.todo \ {b} \in SUBSET Blocks
        BY Zenon, <1>1 DEF Fill, SyncOK
      <4>. QED
        BY Zenon, <2>3, <3>2, <4>1 DEF Fill
    <3>. QED
      BY Zenon, <1>11, <3>1, <3>2 DEF ImportPruned
  <2>. QED
    BY Zenon, <1>5, <1>6, <2>1, <2>2, <2>4
<1>. QED
  BY Zenon, <1>2, <1>8, <1>9, <1>10, <1>11

----------------------------------------------------------------------------
\* newPayload

LEMMA NewPayloadOK ==
  ASSUME Inv, NEW b \in Blocks \ {Genesis}, newPayload(b) PROVE Inv'
<1>. USE InvParts
<1>1. ChainOK /\ ApiOK /\ SyncOK /\ ClientOK
  BY Zenon
<1>2. UNCHANGED <<choice, client, restarts>> /\ ClientOK'
  BY Zenon, <1>1, ClientFrame DEF newPayload
<1>3. PICK c \in checkInvalidAncestor(invalidTipsets, invalidBlocksHits, b, b) :
        \/ c.invalid /\ Remember(c) /\ UNCHANGED <<chainVars, remoteBlocks, syncVars>>
        \/ ~c.invalid /\ ( \/ delayPayloadImport(b, c)
                           \/ NotImported(b, c)
                           \/ InsertBlockWithoutSetHead(b, c) )
  BY Zenon DEF newPayload
<1>4. c.tips \in [Blocks -> Blocks \cup {None}] /\ c.hits \in [Blocks -> 0..HitEviction]
  BY Zenon, <1>1, CheckType DEF ApiOK
<1>5. CASE Remember(c) /\ UNCHANGED <<chainVars, remoteBlocks, syncVars>>
  <2>1. ApiOK'
    BY Zenon, <1>1, <1>4, <1>5 DEF ApiOK, Remember
  <2>. QED
    BY Zenon, <1>1, <1>2, <1>5, <2>1, ChainFrame, SyncFrame
<1>6. CASE delayPayloadImport(b, c)
  <2>1. parent[b] \in Blocks
    BY Zenon, ParentLine
  <2>2. PICK d \in checkInvalidAncestor(c.tips, c.hits, parent[b], b) :
          /\ Remember(d)
          /\ IF d.invalid THEN UNCHANGED <<remoteBlocks, syncVars>>
             ELSE remoteBlocks' = put(b) /\ beaconSync(b, FALSE)
    BY Zenon, <1>6 DEF delayPayloadImport
  <2>3. d.tips \in [Blocks -> Blocks \cup {None}] /\ d.hits \in [Blocks -> 0..HitEviction]
    BY Zenon, <1>4, <2>1, CheckType
  <2>4. remoteBlocks' \in Seq(Blocks) /\ Len(remoteBlocks') <= MaxTrackedHeaders
    BY Zenon, <1>1, <2>2, PutType DEF ApiOK
  <2>5. ApiOK'
    BY Zenon, <2>2, <2>3, <2>4 DEF ApiOK, Remember
  <2>6. SyncOK'
    BY Zenon, <1>1, <2>2, BeaconSyncType, SyncFrame
  <2>7. ChainOK'
    BY Zenon, <1>1, <1>2, <1>6, ChainFrame DEF delayPayloadImport
  <2>. QED
    BY Zenon, <1>2, <2>5, <2>6, <2>7
<1>7. CASE NotImported(b, c)
  <2>1. remoteBlocks' \in Seq(Blocks) /\ Len(remoteBlocks') <= MaxTrackedHeaders
    BY Zenon, <1>1, <1>7, PutType DEF ApiOK, NotImported
  <2>2. ApiOK'
    BY Zenon, <1>4, <1>7, <2>1 DEF ApiOK, Remember, NotImported
  <2>. QED
    BY Zenon, <1>1, <1>2, <1>7, <2>2, ChainFrame, SyncFrame DEF NotImported
<1>8. CASE InsertBlockWithoutSetHead(b, c)
  <2>1. SyncOK' /\ remoteBlocks' = remoteBlocks
    BY Zenon, <1>1, <1>8, SyncFrame DEF InsertBlockWithoutSetHead
  <2>2. CASE b \in Bad
    <3>1. 1 \in 0..HitEviction
      BY EngineAssumption
    <3>2. ApiOK'
      BY Zenon, <1>1, <1>4, <1>8, <2>1, <2>2, <3>1 DEF ApiOK, InsertBlockWithoutSetHead
    <3>3. ChainOK'
      BY <1>1, <1>2, <1>8, <2>2, ChainFrame DEF InsertBlockWithoutSetHead
    <3>. QED
      BY <1>2, <2>1, <3>2, <3>3
  <2>3. CASE b \notin Bad
    <3>1. /\ HasState(parent[b]) /\ WriteWithState({b}) /\ Remember(c) /\ job = None
          /\ UNCHANGED <<canon, head, final, job, torn>>
      BY Zenon, <1>8, <2>3 DEF InsertBlockWithoutSetHead, Locked
    <3>2. ApiOK'
      BY Zenon, <1>1, <1>4, <2>1, <3>1 DEF ApiOK, Remember
    <3>3. /\ executed' = executed \cup {b} /\ db' = db \cup {b}
          /\ Genesis \in executed' /\ executed' \subseteq db' /\ db' \subseteq Blocks
          /\ live' \subseteq executed' /\ disk' \subseteq executed'
          /\ ExecutedInv'
          /\ \A x \in Blocks : StateKept(x) \/ x = b => StateKept(x)'
      BY Zenon, <1>1, <2>3, <3>1, OnParent
    <3>4. ChainTypeOK'
      BY Zenon, <1>1, <3>1, <3>3 DEF ChainOK, ChainTypeOK
    <3>5. HeadHasState'
      <4>1. PICK h : h = head
        BY Zenon
      <4>2. h \in Blocks /\ StateKept(h)
        BY Zenon, <1>1, <3>1, <4>1 DEF ChainOK, ChainTypeOK, HeadHasState
      <4>3. StateKept(h)' /\ h = head'
        BY Zenon, <3>1, <3>3, <4>1, <4>2
      <4>. QED
        BY Zenon, <4>3 DEF HeadHasState, StateKept, HasState
    <3>6. JobInv' /\ ChoiceInv' /\ CanonicalChain'
      BY Zenon, <1>1, <1>2, <3>1 DEF ChainOK, JobInv, ChoiceInv, CanonicalChain
    <3>. QED
      BY Zenon, <1>2, <2>1, <3>2, <3>3, <3>4, <3>5, <3>6 DEF ChainOK
  <2>. QED
    BY Zenon, <2>2, <2>3
<1>. QED
  BY Zenon, <1>3, <1>5, <1>6, <1>7, <1>8

----------------------------------------------------------------------------
\* forkchoiceUpdated

\* A client that moves on to a descendant of its finalised block.
LEMMA ClientMoves ==
  ASSUME ChainOK, ClientOK, choice = None, UNCHANGED chainVars,
         NEW f \in Blocks, client'.final = f, client.final \in line[f], choice' \in {None, f}
  PROVE  ChainOK'
<1>1. ChainTypeOK' /\ ExecutedInv' /\ JobInv' /\ CanonicalChain' /\ HeadHasState'
  BY Zenon DEF ChainOK, chainVars, ChainTypeOK, ExecutedInv, JobInv, CanonicalChain,
         HeadHasState, StateKept, HasState
<1>2. final \in line[f]
  <2>1. final \in line[client.final]
    BY Zenon DEF ChainOK, ChoiceInv
  <2>. QED
    BY Zenon, <2>1, OnLine
<1>3. ChoiceInv'
  BY Zenon, <1>2 DEF ChainOK, ChoiceInv, chainVars
<1>. QED
  BY Zenon, <1>1, <1>3 DEF ChainOK

\* good is what recoverAncestors executes of the ancestors lost without state.
Recovers(h, lost, good) ==
  lost = Stateless(h) /\ good = {b \in lost : line[b] \cap lost \cap Bad = {}}

\* What recoverAncestors executes stands on executed blocks; if nothing bad is
\* among it, the block it was called for has its state.
LEMMA Recovered ==
  ASSUME ChainOK, NEW h \in Blocks, NEW lost, NEW good, Recovers(h, lost, good)
  PROVE  /\ good \in SUBSET line[h] /\ good \cap Bad = {}
         /\ \A b \in good : line[b] \subseteq good \cup executed
         /\ good = lost => h \in good \/ HasState(h)
<1>0. lost = Stateless(h) /\ good = {b \in lost : line[b] \cap lost \cap Bad = {}}
  BY Zenon DEF Recovers
<1>1. lost \subseteq line[h]
  BY Zenon, <1>0 DEF Stateless
<1>2. \A b \in lost : b \in Blocks /\ b \in line[b]
  BY Zenon, <1>1, SelfInLine
<1>3. good \cap Bad = {}
  BY Zenon, <1>0, <1>2
<1>4. ASSUME NEW b \in good, NEW x \in line[b] PROVE x \in good \cup executed
  <2>1. b \in Blocks /\ b \in line[h] /\ x \in line[h] /\ line[x] \subseteq line[b]
        /\ x \in Blocks
    BY Zenon, <1>0, <1>1, <1>2, <1>4, OnLine
  <2>2. CASE x \in lost
    BY Zenon, <1>0, <2>1, <2>2
  <2>3. CASE x \notin lost
    <3>1. PICK y \in line[h] : HasState(y) /\ ~(number[y] < number[x])
      BY Zenon, <1>0, <2>1, <2>3 DEF Stateless
    <3>2. y \in Blocks /\ number[y] \in Nat /\ number[x] \in Nat
      BY Zenon, <2>1, <3>1, SelfInLine, TreeAssumption
    <3>3. x \in line[y]
      BY <2>1, <3>1, <3>2, LineAssumption
    <3>4. y \in executed
      BY Zenon, <3>1 DEF HasState, ChainOK, ChainTypeOK
    <3>. QED
      BY Zenon, <3>3, <3>4 DEF ChainOK, ExecutedInv
  <2>. QED
    BY Zenon, <2>2, <2>3
<1>5. h \in lost \/ HasState(h)
  <2>1. SUFFICES ASSUME h \notin lost PROVE HasState(h)
    BY Zenon
  <2>2. PICK y \in line[h] : HasState(y) /\ ~(number[y] < number[h])
    BY Zenon, <1>0, <2>1, SelfInLine DEF Stateless
  <2>3. y = h
    BY Zenon, <2>2, OnLine
  <2>. QED
    BY Zenon, <2>2, <2>3
<1>. QED
  BY Zenon, <1>0, <1>1, <1>3, <1>4, <1>5

LEMMA SetCanonicalOK ==
  ASSUME ChainOK, ClientOK, choice = None, NEW h \in Blocks, NEW f \in Blocks, f \in line[h],
         client.final \in line[f], client'.final = f, SetCanonical(h, f)
  PROVE  ChainOK'
<1>. DEFINE lost == Stateless(h)
            good == {b \in lost : line[b] \cap lost \cap Bad = {}}
<1>1. /\ job = None /\ canon[number[h]] # h
      /\ IF good = {} THEN UNCHANGED <<db, executed, live, disk>> ELSE WriteWithState(good)
      /\ IF good = lost THEN job' = HeadJob(h, "fcu") /\ choice' = f
         ELSE UNCHANGED <<job, choice>>
      /\ UNCHANGED <<canon, head, final, torn>>
  BY Zenon DEF SetCanonical, Locked
<1>2. /\ good \in SUBSET line[h] /\ good \cap Bad = {}
      /\ \A b \in good : line[b] \subseteq good \cup executed
      /\ good = lost => h \in good \/ HasState(h)
  <2>1. Recovers(h, lost, good)
    BY Zenon DEF Recovers
  <2>. HIDE DEF lost, good
  <2>. QED
    BY Zenon, <2>1, Recovered
<1>. HIDE DEF good, lost
<1>3. /\ Genesis \in executed' /\ executed' \subseteq db' /\ db' \subseteq Blocks
      /\ executed' = executed \cup good /\ live' \subseteq executed' /\ disk' \subseteq executed'
      /\ db \subseteq db' /\ ExecutedInv'
      /\ \A b \in Blocks : StateKept(b) \/ b \in good => StateKept(b)'
  <2>1. CASE good = {}
    BY Zenon, <1>1, <2>1 DEF ChainOK, ChainTypeOK, ExecutedInv, StateKept, HasState
  <2>2. CASE good # {}
    BY Zenon, <1>1, <1>2, <2>2, WriteOK
  <2>. QED
    BY Zenon, <2>1, <2>2
<1>4. final \in line[f]
  <2>1. final \in line[client.final]
    BY Zenon DEF ChainOK, ChoiceInv
  <2>. QED
    BY Zenon, <2>1, OnLine
<1>5. CASE good = lost
  <2>1. h \in executed' /\ StateKept(h)'
    BY Zenon, <1>2, <1>3, <1>5 DEF HasState, StateKept, ChainOK, ChainTypeOK
  <2>2. /\ job' \in Job /\ job'.to = h /\ job'.by = "fcu"
        /\ JobInv' /\ CanonicalChain' /\ HeadHasState'
    BY Zenon, <1>1, <1>5, <2>1, StartJob
  <2>3. ChainTypeOK'
    BY Zenon, <1>1, <1>3, <2>2 DEF ChainOK, ChainTypeOK
  <2>4. ChoiceInv'
    BY Zenon, <1>1, <1>4, <1>5, <2>2, TreeAssumption DEF ChoiceInv
  <2>. QED
    BY Zenon, <1>3, <2>2, <2>3, <2>4 DEF ChainOK
<1>6. CASE good # lost
  <2>1. job' = None /\ choice' = None
    BY Zenon, <1>1, <1>6
  <2>2. ChainTypeOK'
    BY Zenon, <1>1, <1>3, <2>1 DEF ChainOK, ChainTypeOK
  <2>3. JobInv' /\ ChoiceInv' /\ CanonicalChain'
    BY Zenon, <1>1, <1>4, <2>1 DEF ChainOK, JobInv, ChoiceInv, CanonicalChain
  <2>4. HeadHasState'
    <3>1. PICK x : x = head
      BY Zenon
    <3>2. x \in Blocks /\ StateKept(x)
      BY Zenon, <1>1, <3>1 DEF ChainOK, ChainTypeOK, HeadHasState
    <3>3. StateKept(x)' /\ x = head'
      BY Zenon, <1>1, <1>3, <3>1, <3>2
    <3>. QED
      BY Zenon, <3>3 DEF HeadHasState, StateKept, HasState
  <2>. QED
    BY Zenon, <1>3, <2>2, <2>3, <2>4 DEF ChainOK
<1>. QED
  BY Zenon, <1>5, <1>6

LEMMA ForkChoiceOK ==
  ASSUME Inv, NEW h \in Heads, NEW f \in Finals, forkchoiceUpdated(h, f) PROVE Inv'
<1>. USE InvParts
<1>1. ChainOK /\ ApiOK /\ SyncOK /\ ClientOK
  BY Zenon
<1>2. h \in Blocks /\ f \in Blocks
  BY Zenon, EngineAssumption
<1>3. /\ choice = None /\ f \in line[h] /\ client.final \in line[f]
      /\ client' = [client EXCEPT !.final = f] /\ restarts' = restarts
      /\ UnknownHead(h) \/ CanonicalHead(h, f) \/ SetCanonical(h, f)
  BY Zenon DEF forkchoiceUpdated
<1>4. client' \in [final : Blocks, settled : BOOLEAN] /\ client'.final = f
  BY Zenon, <1>1, <1>2, <1>3 DEF ClientOK
<1>5. choice' \in {None, f}
  BY Zenon, <1>3 DEF UnknownHead, CanonicalHead, SetCanonical
<1>6. ClientOK'
  BY Zenon, <1>1, <1>2, <1>3, <1>4, <1>5 DEF ClientOK
<1>7. CASE UnknownHead(h)
  <2>1. PICK c \in checkInvalidAncestor(invalidTipsets, invalidBlocksHits, h, h) :
          /\ Remember(c)
          /\ IF c.invalid \/ ~Known(h) THEN UNCHANGED syncVars ELSE beaconSync(h, TRUE)
    BY Zenon, <1>7 DEF UnknownHead
  <2>2. c.tips \in [Blocks -> Blocks \cup {None}] /\ c.hits \in [Blocks -> 0..HitEviction]
    BY Zenon, <1>1, <1>2, CheckType DEF ApiOK
  <2>3. ApiOK'
    BY Zenon, <1>1, <1>7, <2>1, <2>2 DEF ApiOK, Remember, UnknownHead
  <2>4. h # Genesis
    BY Zenon, <1>1, <1>7 DEF UnknownHead, ChainOK, ChainTypeOK
  <2>5. SyncOK'
    BY Zenon, <1>1, <1>2, <2>1, <2>4, BeaconSyncType, SyncFrame
  <2>6. ChainOK'
    BY Zenon, <1>1, <1>2, <1>3, <1>4, <1>5, <1>7, ClientMoves DEF UnknownHead
  <2>. QED
    BY Zenon, <1>6, <2>3, <2>5, <2>6
<1>8. CASE CanonicalHead(h, f)
  <2>1. ApiOK' /\ SyncOK'
    BY Zenon, <1>1, <1>8, ApiFrame, SyncFrame DEF CanonicalHead
  <2>2. ChainOK'
    BY <1>1, <1>2, <1>3, <1>4, <1>5, <1>8, ClientMoves DEF CanonicalHead
  <2>. QED
    BY Zenon, <1>6, <2>1, <2>2
<1>9. CASE SetCanonical(h, f)
  <2>1. ApiOK' /\ SyncOK'
    BY <1>1, <1>9, ApiFrame, SyncFrame DEF SetCanonical
  <2>2. ChainOK'
    BY <1>1, <1>2, <1>3, <1>4, <1>9, SetCanonicalOK
  <2>. QED
    BY Zenon, <1>6, <2>1, <2>2
<1>. QED
  BY Zenon, <1>3, <1>7, <1>8, <1>9

----------------------------------------------------------------------------
\* The other steps

LEMMA DatabaseStepOK == ASSUME Inv, DatabaseStep PROVE Inv'
<1>. USE InvParts
<1>1. JobStep /\ UNCHANGED <<apiVars, syncVars, choice, client, restarts>>
  BY Zenon DEF DatabaseStep
<1>2. ChainOK'
  BY Zenon, <1>1, ReorgWriteOK, ReorgTrimOK, WriteNewHeadOK DEF JobStep
<1>. QED
  BY Zenon, <1>1, <1>2, ApiFrame, SyncFrame, ClientFrame

LEMMA FinalizeOK == ASSUME Inv, Finalize PROVE Inv'
<1>. USE InvParts
<1>1. ChainOK /\ ApiOK /\ SyncOK /\ ClientOK
  OBVIOUS
<1>2. /\ choice # None /\ ~(job # None /\ job.by = "fcu") /\ choice' = None
      /\ final' = final \/ (final' = choice /\ choice \in db)
      /\ UNCHANGED <<db, executed, live, disk, canon, head, job, torn, apiVars, syncVars,
                     client, restarts>>
  BY Zenon DEF Finalize
<1>3. ClientOK'
  BY Zenon, <1>1, <1>2 DEF ClientOK
<1>4. ChainTypeOK'
  BY Zenon, <1>1, <1>2 DEF ChainOK, ChainTypeOK
<1>5. ExecutedInv' /\ JobInv' /\ CanonicalChain' /\ HeadHasState'
  BY Zenon, <1>1, <1>2 DEF ChainOK, ExecutedInv, JobInv, CanonicalChain, HeadHasState,
                    StateKept, HasState
<1>6. ChoiceInv'
  <2>1. client.final \in line[client.final]
    BY Zenon, <1>1, SelfInLine DEF ClientOK
  <2>. QED
    BY Zenon, <1>1, <1>2, <2>1 DEF ChainOK, ChoiceInv
<1>. QED
  BY Zenon, <1>1, <1>2, <1>3, <1>4, <1>5, <1>6, ApiFrame, SyncFrame DEF ChainOK

LEMMA DownloadOK == ASSUME Inv, Download PROVE Inv'
<1>. USE InvParts
<1>1. ChainOK /\ ApiOK /\ SyncOK /\ ClientOK
  OBVIOUS
<1>. DEFINE tail == parent[skeleton.tail]
            l == parent[tail] \in executed
<1>2. /\ skeleton # None /\ ~skeleton.linked
      /\ skeleton' = [skeleton EXCEPT !.tail = tail, !.linked = l]
      /\ IF skeleton'.linked THEN resume(skeleton') ELSE fill' = fill
      /\ UNCHANGED <<chainVars, apiVars, choice, client, restarts>>
  BY Zenon DEF Download
<1>3. skeleton \in Skeleton /\ tail \in Blocks \ {Genesis}
  <2>1. skeleton \in Skeleton /\ skeleton.tail \in Blocks \ {Genesis} /\ tail # Genesis
    BY Zenon, <1>1, <1>2 DEF SyncOK, SkeletonInv, Skeleton
  <2>. QED
    BY Zenon, <2>1, ParentLine
<1>4. l \in BOOLEAN /\ (~l => parent[tail] # Genesis)
  <2>1. Genesis \in executed
    BY Zenon, <1>1 DEF ChainOK, ChainTypeOK
  <2>2. (parent[tail] \in executed) \in BOOLEAN
    BY SMT
  <2>3. parent[tail] \notin executed => parent[tail] # Genesis
    BY Zenon, <2>1
  <2>. QED
    BY Zenon, <2>2, <2>3
<1>. HIDE DEF l, tail
<1>5. skeleton' \in Skeleton /\ skeleton'.tail = tail /\ skeleton'.linked = l
  <2>1. l \in BOOLEAN
    BY <1>4
  <2>2. skeleton' = [head |-> skeleton.head, tail |-> tail, linked |-> l]
        /\ skeleton.head \in Blocks \ {Genesis}
    BY Zenon, <1>2, <1>3 DEF Skeleton
  <2>. QED
    BY Zenon, <1>3, <2>1, <2>2 DEF Skeleton
<1>6. fill' \in Fill
  BY <1>1, <1>2, <1>5, ResumeType DEF SyncOK
<1>7. SyncOK'
  BY Zenon, <1>4, <1>5, <1>6 DEF SyncOK, SkeletonInv
<1>. QED
  BY <1>1, <1>2, <1>7, ChainFrame, ApiFrame, ClientFrame

LEMMA SettleOK == ASSUME Inv, Settle PROVE Inv'
<1>. USE InvParts
<1>1. ChainOK /\ ApiOK /\ SyncOK /\ ClientOK
  OBVIOUS
<1>2. client' \in [final : Blocks, settled : BOOLEAN] /\ client'.final = client.final
  BY Zenon, <1>1 DEF Settle, ClientOK
<1>3. ClientOK'
  BY <1>1, <1>2 DEF Settle, ClientOK
<1>. QED
  BY <1>1, <1>2, <1>3, ChainFrame, ApiFrame, SyncFrame DEF Settle

LEMMA RestartStepOK == ASSUME Inv, NEW S \in SUBSET live, Restart(S) PROVE Inv'
<1>. USE InvParts
<1>1. ChainOK /\ ApiOK /\ SyncOK /\ ClientOK
  OBVIOUS
<1>2. ChainOK'
  BY <1>1, RestartOK DEF Restart
<1>3. ApiOK'
  <2>1. 0 \in 0..HitEviction /\ MaxTrackedHeaders >= 0
    BY EngineAssumption
  <2>2. <<>> \in Seq(Blocks) /\ Len(<<>>) = 0
    OBVIOUS
  <2>3. remoteBlocks' = <<>>
    BY Zenon DEF Restart
  <2>4. Len(remoteBlocks') <= MaxTrackedHeaders
    BY <2>1, <2>2, <2>3, EngineAssumption
  <2>. QED
    BY <2>1, <2>2, <2>3, <2>4 DEF Restart, ApiOK
<1>4. SyncOK'
  <2>1. skeleton' = None /\ fill' = NoFill /\ NoFill \in Fill
    BY Zenon DEF Restart, NoFill, Fill
  <2>. QED
    BY Zenon, <2>1 DEF SyncOK, SkeletonInv
<1>5. ClientOK'
  <2>1. client' = client /\ choice' = None /\ restarts < MaxRestarts /\ restarts' = restarts + 1
    BY DEF Restart
  <2>2. restarts' \in 0..MaxRestarts
    BY <1>1, <2>1, EngineAssumption DEF ClientOK
  <2>. QED
    BY <1>1, <2>1, <2>2 DEF ClientOK
<1>. QED
  BY <1>2, <1>3, <1>4, <1>5

----------------------------------------------------------------------------
\* The theorems

LEMMA Inductive == Inv /\ [Next]_vars => Inv'
<1>. SUFFICES ASSUME Inv, [Next]_vars PROVE Inv'
  OBVIOUS
<1>1. CASE NewPayloads
  BY <1>1, NewPayloadOK DEF NewPayloads
<1>2. CASE ForkChoices
  BY <1>2, ForkChoiceOK DEF ForkChoices
<1>3. CASE Crash
  BY <1>3, RestartStepOK DEF Crash
<1>4. CASE Stop
  <2>1. Saved \in SUBSET live
    BY DEF Saved
  <2>. QED
    BY <1>4, <2>1, RestartStepOK DEF Stop
<1>5. CASE UNCHANGED vars
  <2>1. UNCHANGED <<chainVars, apiVars, syncVars, choice, client, restarts>>
    BY <1>5 DEF vars
  <2>. QED
    BY <2>1, InvParts, ChainFrame, ApiFrame, SyncFrame, ClientFrame
<1>. QED
  BY <1>1, <1>2, <1>3, <1>4, <1>5, FinalizeOK, SettleOK, DatabaseStepOK, DownloadOK, ImportOK
     DEF Next

LEMMA Initial == Init => Inv
<1>. SUFFICES ASSUME Init PROVE Inv
  OBVIOUS
<1>1. /\ db = {Genesis} /\ executed = {Genesis} /\ live = {} /\ disk = {Genesis}
      /\ canon = [n \in Numbers |-> IF n = 0 THEN Genesis ELSE None]
      /\ head = Genesis /\ final = Genesis /\ job = None /\ torn = FALSE
  BY DEF Init, ChainInit
<1>2. Genesis \in Blocks /\ Genesis \notin Bad /\ line[Genesis] = {Genesis}
      /\ number[Genesis] = 0 /\ 0 \in Numbers
  BY Zenon, TreeAssumption DEF Numbers
<1>3. ChainTypeOK
  BY Zenon, <1>1, <1>2 DEF ChainTypeOK
<1>4. ExecutedInv /\ JobInv /\ CanonicalChain /\ HeadHasState
  BY Zenon, <1>1, <1>2 DEF ExecutedInv, JobInv, CanonicalChain, HeadHasState, StateKept, HasState
<1>5. client = [final |-> Genesis, settled |-> FALSE] /\ choice = None
  BY Zenon DEF Init
<1>6. ChoiceInv
  BY Zenon, <1>1, <1>2, <1>5 DEF ChoiceInv
<1>7. SkeletonInv
  BY Zenon DEF Init, SkeletonInv
<1>8. remoteBlocks \in Seq(Blocks) /\ Len(remoteBlocks) <= MaxTrackedHeaders
  <2>1. remoteBlocks = <<>>
    BY DEF Init
  <2>. QED
    BY <2>1, EngineAssumption
<1>9. TypeOK
  <2>1. invalidTipsets \in [Blocks -> Blocks \cup {None}]
        /\ invalidBlocksHits \in [Blocks -> 0..HitEviction]
    BY EngineAssumption DEF Init
  <2>2. skeleton \in Skeleton \cup {None} /\ fill \in Fill /\ restarts \in 0..MaxRestarts
    <3>1. NoFill \in Fill
      BY DEF Fill, NoFill
    <3>2. skeleton = None /\ fill = NoFill /\ restarts = 0
      BY DEF Init
    <3>. QED
      BY <3>1, <3>2, EngineAssumption
  <2>. QED
    BY <1>2, <1>3, <1>5, <1>8, <2>1, <2>2 DEF TypeOK
<1>. QED
  BY <1>3, <1>4, <1>6, <1>7, <1>9 DEF Inv

\* The inductive invariant holds, for every tree of blocks.
THEOREM Invariance == Spec => []Inv
  BY Initial, Inductive, PTL DEF Spec

\* The variables keep their types, the caches of the engine API their sizes.
THEOREM TypeCorrect == Spec => []TypeOK
<1>1. Inv => TypeOK
  BY DEF Inv
<1>. QED
  BY <1>1, Invariance, PTL

\* The canonical markers follow the head's chain at every database batch and
\* across restarts, unless a crash comes between a trimming and the new head.
THEOREM MarkersFollowHead == Spec => []CanonicalChain
<1>1. Inv => CanonicalChain
  BY DEF Inv
<1>. QED
  BY <1>1, Invariance, PTL

\* No bad block gets into the chain of the head.
THEOREM ValidHead == Spec => []HeadValid
<1>1. Inv => HeadValid
  BY DEF Inv, TypeOK, ChainTypeOK, ExecutedInv, HeadValid
<1>. QED
  BY <1>1, Invariance, PTL

\* The head's state is there, or has been dropped for a block far above it.
THEOREM StateOfHead == Spec => []HeadHasState
<1>1. Inv => HeadHasState
  BY DEF Inv
<1>. QED
  BY <1>1, Invariance, PTL

----------------------------------------------------------------------------
\* The finalised block

\* Only the steps of a job write markers; only the end of a fork choice and a
\* restart move the finalised block.
LEMMA Movers ==
  ASSUME Next
  PROVE  \/ DatabaseStep \/ Finalize \/ UNCHANGED <<canon, final>>
         \/ canon' = canon /\ final' \in {final, Genesis}
<1>1. CASE NewPayloads
  BY Zenon, <1>1 DEF NewPayloads, newPayload, delayPayloadImport, NotImported,
              InsertBlockWithoutSetHead, chainVars
<1>2. CASE ForkChoices
  BY Zenon, <1>2 DEF ForkChoices, forkchoiceUpdated, UnknownHead, CanonicalHead, SetCanonical,
              chainVars
<1>3. CASE Settle \/ Download
  BY <1>3 DEF Settle, Download, chainVars
<1>4. CASE Import
  BY <1>4 DEF Import, ImportKnown, ImportExecuted, ImportRefused, ImportPruned, chainVars
<1>5. CASE Crash \/ Stop
  BY Zenon, <1>5 DEF Crash, Stop, Restart, RestartWith
<1>. QED
  BY Zenon, <1>1, <1>2, <1>3, <1>4, <1>5 DEF Next

\* Genesis keeps its marker.
GenesisMarked == canon[0] = Genesis

LEMMA GenesisStays == ASSUME Inv, GenesisMarked, [Next]_vars PROVE GenesisMarked'
<1>1. ChainOK /\ canon \in [Numbers -> Blocks \cup {None}]
  BY Zenon, InvParts DEF ChainOK, ChainTypeOK
<1>2. \A b \in Blocks : number[b] = 0 => b = Genesis
  BY TreeAssumption
<1>3. number[Genesis] = 0 /\ Genesis \in Blocks /\ 0 \in Numbers
  BY Zenon, TreeAssumption DEF Numbers
<1>4. CASE DatabaseStep
  <2>1. ASSUME NEW b \in Blocks, writeHeadBlock(b) PROVE GenesisMarked'
    BY <1>1, <1>2, <1>3, <2>1, MarkerBelow DEF GenesisMarked
  <2>2. CASE ReorgWrite
    BY <1>1, <2>1, <2>2, NextWritten DEF ReorgWrite
  <2>3. CASE ReorgTrim
    <3>1. job.to \in Blocks /\ head \in Blocks /\ number[job.to] \in Nat
      BY <1>1, <2>3, TreeAssumption DEF ReorgTrim, ChainOK, ChainTypeOK, Job
    <3>2. job.to \notin line[head] => number[job.to] > 0
      BY <1>2, <3>1, LineAssumption
    <3>3. ~(0 > number[job.to]) /\ (job.to \notin line[head] => ~(0 > number[job.to] - 1))
      BY <3>1, <3>2
    <3>. QED
      BY <1>3, <2>3, <3>3 DEF ReorgTrim, MarkersUpTo, GenesisMarked
  <2>4. CASE WriteNewHead
    BY Zenon, <1>1, <2>1, <2>4 DEF WriteNewHead, ChainOK, ChainTypeOK, Job
  <2>. QED
    BY <1>4, <2>2, <2>3, <2>4 DEF DatabaseStep, JobStep
<1>5. CASE canon' = canon
  BY <1>5 DEF GenesisMarked
<1>. QED
  BY Zenon, <1>4, <1>5, Movers DEF Finalize, vars, chainVars

LEMMA FinalStep ==
  ASSUME Inv, GenesisMarked, [Next]_vars, canon[number[final]] = final,
         job # None => job.by = "fcu"
  PROVE  canon'[number[final']] = final'
<1>1. ChainOK /\ ClientOK /\ canon \in [Numbers -> Blocks \cup {None}]
  BY Zenon, InvParts DEF ChainOK, ChainTypeOK
<1>2. CASE DatabaseStep
  <2>1. /\ job # None /\ job.to \in Blocks /\ final' = final /\ final \in Blocks
    BY <1>1, <1>2 DEF DatabaseStep, JobStep, ReorgWrite, ReorgTrim, WriteNewHead,
                      ChainOK, ChainTypeOK, Job
  <2>2. /\ final \in line[job.to]
        /\ job.phase = "reorg" => final # job.to
    <3>1. final \in line[client.final] /\ client.final \in line[job.to]
          /\ (job.phase = "reorg" => canon[number[job.to]] # job.to)
      BY Zenon, <1>1, <2>1 DEF ChainOK, ChoiceInv
    <3>. QED
      BY Zenon, <2>1, <3>1, OnLine
  <2>3. ASSUME NEW b \in line[job.to], writeHeadBlock(b) PROVE canon'[number[final']] = final'
    <3>1. b \in Blocks
      BY Zenon, <2>1, <2>3, SelfInLine
    <3>2. /\ canon'[number[b]] = b
          /\ number[final] # number[b] => canon'[number[final]] = canon[number[final]]
      BY Zenon, <1>1, <2>1, <2>3, <3>1, MarkerBelow
    <3>3. number[final] = number[b] => final = b
      BY Zenon, <2>1, <2>2, <2>3, SameNumber
    <3>. QED
      BY Zenon, <2>1, <3>2, <3>3
  <2>4. CASE ReorgWrite
    BY Zenon, <1>1, <2>3, <2>4, NextWritten DEF ReorgWrite
  <2>5. CASE ReorgTrim
    <3>1. /\ number[final] \in Nat /\ number[job.to] \in Nat
          /\ number[final] < number[job.to] /\ number[final] \in Numbers
      BY <2>1, <2>2, <2>5, OnLine DEF ReorgTrim, Numbers
    <3>2. ~(number[final] > number[job.to]) /\ ~(number[final] > number[job.to] - 1)
      BY <3>1
    <3>. QED
      BY <2>1, <2>5, <3>1, <3>2 DEF ReorgTrim, MarkersUpTo
  <2>6. CASE WriteNewHead
    BY Zenon, <2>1, <2>3, <2>6, SelfInLine DEF WriteNewHead
  <2>. QED
    BY Zenon, <1>2, <2>4, <2>5, <2>6 DEF DatabaseStep, JobStep
<1>3. CASE Finalize
  BY Zenon, <1>3 DEF Finalize
<1>4. CASE canon' = canon /\ final' \in {final, Genesis}
  BY Zenon, <1>4, TreeAssumption DEF GenesisMarked
<1>5. CASE UNCHANGED <<canon, final>>
  BY Zenon, <1>5
<1>6. CASE UNCHANGED vars
  BY Zenon, <1>5, <1>6 DEF vars, chainVars
<1>. QED
  BY Zenon, <1>2, <1>3, <1>4, <1>5, <1>6, Movers

\* Once finalised, a block stays canonical through every fork choice, payload,
\* crash and restart; only an import of the sync may take it off.
THEOREM FinalKept == Spec => FinalStaysCanonical
<1>1. Init => GenesisMarked
  BY TreeAssumption DEF Init, ChainInit, GenesisMarked, Numbers
<1>2. Inv /\ GenesisMarked /\ [Next]_vars => GenesisMarked'
  BY GenesisStays
<1>3. Inv /\ GenesisMarked /\ [Next]_vars
        => [canon[number[final]] = final /\ (job # None => job.by = "fcu")
              => canon'[number[final']] = final']_vars
  BY FinalStep
<1>. QED
  BY <1>1, <1>2, <1>3, Invariance, PTL DEF Spec, FinalStaysCanonical

=============================================================================
