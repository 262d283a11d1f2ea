----------------------------- MODULE BlockChain -----------------------------
(***************************************************************************)
(* The chain database of a full node after the merge                       *)
(* (core/blockchain.go): blocks, their states in memory and on disk, the   *)
(* canonical hash markers and the head block.  Blocks come from a fixed    *)
(* tree.  What changes the canonical chain is a job of several database    *)
(* batches under chainmu; a crash may come between any two of them.  A     *)
(* restart rewinds the head to a block whose state is on disk.  Snapshots  *)
(* and the ancient store are off.                                          *)
(***************************************************************************)
EXTENDS Naturals, FiniteSets

CONSTANTS
  Blocks, Genesis,
  parent,          \* parent[b], for every block but Genesis
  number,          \* number[b]
  line,            \* line[b]: b and its ancestors
  Bad,             \* blocks that fail verification or execution
  TriesInMemory,   \* TriesInMemory, 128 in the code
  None

ASSUME TreeAssumption ==
  /\ Genesis \in Blocks \ Bad /\ None \notin Blocks /\ Bad \subseteq Blocks
  /\ parent \in [Blocks \ {Genesis} -> Blocks]
  /\ number \in [Blocks -> Nat] /\ number[Genesis] = 0
  /\ line \in [Blocks -> SUBSET Blocks] /\ line[Genesis] = {Genesis}
  /\ \A b \in Blocks \ {Genesis} :
       number[b] = number[parent[b]] + 1 /\ line[b] = {b} \cup line[parent[b]]
  /\ TriesInMemory \in Nat \ {0}

\* What follows by induction for the ancestors of a block in such a tree.
ASSUME LineAssumption ==
  \A b \in Blocks : Genesis \in line[b] /\ \A x \in line[b] :
    line[x] \subseteq line[b] /\ \A y \in line[b] :
      number[x] <= number[y] <=> x \in line[y]

VARIABLES
  db,         \* blocks in the database
  executed,   \* blocks whose receipts are in the database too
  live,       \* blocks whose state is in the trie cache
  disk,       \* blocks whose state is on disk
  canon,      \* canonical hash markers
  head,       \* the current block, in memory and in the database
  final,      \* the finalised block; Genesis stands for none
  job,        \* the rest of the batches that make a block the head
  torn        \* a crash has come between the trimming and the new head

chainVars == <<db, executed, live, disk, canon, head, final, job, torn>>

Numbers == {number[b] : b \in Blocks}
Job == [to : Blocks, phase : {"reorg", "trimmed", "head"}, by : {"fcu", "sync"}]

ASSUME NoneAssumption == None \notin Job

ChainTypeOK ==
  /\ Genesis \in executed /\ executed \subseteq db /\ db \subseteq Blocks
  /\ live \subseteq executed /\ disk \subseteq executed
  /\ canon \in [Numbers -> Blocks \cup {None}]
  /\ head \in executed /\ final \in db
  /\ job \in Job \cup {None}
  /\ torn \in BOOLEAN

ChainInit ==
  /\ db = {Genesis} /\ executed = {Genesis}
  /\ live = {} /\ disk = {Genesis}
  /\ canon = [n \in Numbers |-> IF n = 0 THEN Genesis ELSE None]
  /\ head = Genesis /\ final = Genesis
  /\ job = None
  /\ torn = FALSE

Lowest(S) == CHOOSE b \in S : \A c \in S : number[b] <= number[c]
Highest(S) == CHOOSE b \in S : \A c \in S : number[b] >= number[c]

HasState(b) == b \in live \cup disk

\* The blocks recoverAncestors gathers: b and its ancestors down to the first
\* one with a state.
Stateless(b) ==
  {x \in line[b] : \A y \in line[b] : HasState(y) => number[y] < number[x]}

----------------------------------------------------------------------------
\* writeBlockWithState for the blocks of one line, lowest first.  A block
\* writes itself and its receipts, may flush the state of the canonical block
\* TriesInMemory below it, and drops the states in memory from there down.
WriteWithState(S) ==
  LET top    == number[Highest(S)]
      chosen == {canon[number[b] - TriesInMemory] :
                   b \in {c \in S : number[c] > TriesInMemory}}
  IN  /\ db' = db \cup S
      /\ executed' = executed \cup S
      /\ live' = {b \in live \cup S : number[b] + TriesInMemory > top}
      /\ \E F \in SUBSET (chosen \cap (live \cup S)) : disk' = disk \cup F

\* writeHeadBlock: one batch, then the markers in memory.
writeHeadBlock(b) ==
  /\ canon' = [canon EXCEPT ![number[b]] = b]
  /\ head' = b

\* The job that makes b the head: SetCanonical after the state is there, and
\* writeBlockAndSetHead or writeKnownBlock after the block is.
HeadJob(b, who) ==
  [to |-> b, phase |-> IF parent[b] = head THEN "head" ELSE "reorg", by |-> who]

\* reorg writes the new chain from the common ancestor upwards, all but its
\* head, one batch for each block.
ReorgWrite ==
  LET rest == line[job.to] \ (line[head] \cup {job.to}) IN
  /\ job # None /\ job.phase = "reorg"
  /\ rest # {}
  /\ writeHeadBlock(Lowest(rest))
  /\ UNCHANGED <<db, executed, live, disk, final, job, torn>>

\* Then it deletes the markers from the new head's number upwards, until one
\* is missing.
MarkersUpTo(n) ==
  [k \in Numbers |->
     IF k > n /\ \A j \in Numbers : n < j /\ j <= k => canon[j] # None
     THEN None ELSE canon[k]]

ReorgTrimAll ==                                               \* mutant
  /\ job # None /\ job.phase = "reorg"
  /\ line[job.to] \ (line[head] \cup {job.to}) = {}
  /\ canon' = MarkersUpTo(number[job.to] - 2)
  /\ job' = [job EXCEPT !.phase = "trimmed"]
  /\ UNCHANGED <<db, executed, live, disk, head, final, torn>>
ReorgTrim ==
  /\ job # None /\ job.phase = "reorg"
  /\ line[job.to] \ (line[head] \cup {job.to}) = {}
  /\ canon' = MarkersUpTo(IF job.to \in line[head] THEN number[job.to]
                          ELSE number[job.to] - 1)
  /\ job' = [job EXCEPT !.phase = "trimmed"]
  /\ UNCHANGED <<db, executed, live, disk, head, final, torn>>

\* And the new head is written, which ends the job.
WriteNewHead ==
  /\ job # None /\ job.phase \in {"trimmed", "head"}
  /\ writeHeadBlock(job.to)
  /\ job' = None
  /\ UNCHANGED <<db, executed, live, disk, final, torn>>

JobStep == ReorgWrite \/ ReorgTrim \/ WriteNewHead

----------------------------------------------------------------------------
\* Stop commits the states of the canonical blocks at these offsets from the
\* head.
Saved ==
  {canon[number[head] - k] : k \in {i \in {0, 1, TriesInMemory - 1} : i < number[head]}}
    \cap live

\* The process ends, with the states S written to disk, and starts again:
\* NewBlockChain loads the head and, if its state is missing, rewinds it to
\* the next ancestor that has one.  The markers stay, and so does a finalised
\* block that was not above the old head.
RestartNoRewind(S) ==                                         \* mutant
  /\ disk' = disk \cup S
  /\ live' = {}
  /\ job' = None
  /\ torn' = (torn \/ (job # None /\ job.phase = "trimmed"))
  /\ UNCHANGED <<db, executed, canon, head, final>>
RestartWith(S) ==
  LET kept == disk \cup S IN
  /\ disk' = kept
  /\ live' = {}
  /\ head' = Highest(line[head] \cap kept)
  /\ final' = IF head \notin kept /\ number[head] < number[final]
              THEN Genesis ELSE final
  /\ job' = None
  /\ torn' = (torn \/ (job # None /\ job.phase = "trimmed"))
  /\ UNCHANGED <<db, executed, canon>>

=============================================================================
