------------------------------ MODULE EngineAPI ------------------------------
(***************************************************************************)
(* The engine API (eth/catalyst/api.go) over the chain database, with the  *)
(* beacon sync that imports what the API cannot (eth/downloader).  The     *)
(* consensus client sends payloads and fork choices in any order, of any   *)
(* block of the tree; it never takes back a block it has finalised.  From  *)
(* some moment on it may settle on one block.                              *)
(*                                                                         *)
(* newPayload and forkchoiceUpdated run beside each other, beside the      *)
(* import of the sync, and beside crashes and clean stops.  Full sync;     *)
(* peers serve any header or body asked for.                               *)
(***************************************************************************)
EXTENDS BlockChain, Sequences

CONSTANTS
  Untimely,            \* blocks not later than their parent
  MaxTrackedHeaders,   \* maxTrackedHeaders, 10 in the code
  HitEviction,         \* invalidBlockHitEviction, 128 in the code
  TipsetsCap,          \* invalidTipsetsCap, 512 in the code
  Heads, Finals,       \* what the client may choose as head and finalise
  Target,              \* the head the client settles on
  MaxRestarts          \* bound on crashes and stops

ASSUME EngineAssumption ==
  /\ Untimely \subseteq Bad
  /\ MaxTrackedHeaders \in Nat \ {0} /\ HitEviction \in Nat \ {0}
  /\ TipsetsCap \in Nat \ {0} /\ MaxRestarts \in Nat
  /\ Heads \subseteq Blocks /\ Genesis \in Finals /\ Finals \subseteq Blocks
  /\ \A b \in Finals \cup {Target} : line[b] \cap Bad = {}
  /\ Target \in Heads

VARIABLES
  remoteBlocks,        \* headers of payloads that were not imported
  invalidTipsets,      \* for a tip, the bad block it was refused for
  invalidBlocksHits,   \* how often a bad block has served to refuse
  skeleton,            \* the sync target: head, lowest header, link to the db
  fill,                \* blocks the backfiller still imports
  choice,              \* the finalised block of a forkchoiceUpdated under way
  client,              \* the client's finalised block, and whether it settled
  restarts

apiVars == <<remoteBlocks, invalidTipsets, invalidBlocksHits>>
syncVars == <<skeleton, fill>>
vars == <<chainVars, apiVars, syncVars, choice, client, restarts>>

Skeleton == [head : Blocks \ {Genesis}, tail : Blocks \ {Genesis}, linked : BOOLEAN]
Fill == [todo : SUBSET Blocks, held : SUBSET Blocks]
NoFill == [todo |-> {}, held |-> {}]

\* The values the variables range over: the blocks with a state, a head among
\* them, the caches within their sizes.
TypeOK ==
  /\ ChainTypeOK
  /\ remoteBlocks \in Seq(Blocks) /\ Len(remoteBlocks) <= MaxTrackedHeaders
  /\ invalidTipsets \in [Blocks -> Blocks \cup {None}]
  /\ invalidBlocksHits \in [Blocks -> 0..HitEviction]
  /\ skeleton \in Skeleton \cup {None}
  /\ fill \in Fill
  /\ choice \in Blocks \cup {None}
  /\ client \in [final : Blocks, settled : BOOLEAN]
  /\ restarts \in 0..MaxRestarts

Init ==
  /\ ChainInit
  /\ remoteBlocks = <<>>
  /\ invalidTipsets = [b \in Blocks |-> None]
  /\ invalidBlocksHits = [b \in Blocks |-> 0]
  /\ skeleton = None
  /\ fill = NoFill
  /\ choice = None
  /\ client = [final |-> Genesis, settled |-> FALSE]
  /\ restarts = 0

\* chainmu is held.
Locked == job # None \/ fill.held # {}

----------------------------------------------------------------------------
(* The caches of the API.                                                  *)

putUnbounded(b) == <<b>> \o remoteBlocks                        \* mutant
put(b) == SubSeq(<<b>> \o remoteBlocks, 1,
                 IF Len(remoteBlocks) < MaxTrackedHeaders
                 THEN Len(remoteBlocks) + 1 ELSE MaxTrackedHeaders)

Known(b) == \E i \in DOMAIN remoteBlocks : remoteBlocks[i] = b

\* One more hit; what counts is only whether the eviction is reached.
Hit(hits, b) ==
  [hits EXCEPT ![b] = IF @ < HitEviction THEN @ + 1 ELSE HitEviction]

\* checkInvalidAncestor: the possible outcomes.  A bad block that has served
\* HitEviction times is forgotten with all its tips.  A tip refused for
\* another one is added, and if the cache is full others are dropped, any.
checkNeverForgets(tips, hits, check, tip) ==                    \* mutant
  LET bad == tips[check] IN
  {[invalid |-> bad # None, hits |-> hits,
    tips |-> IF bad = None THEN tips ELSE [tips EXCEPT ![tip] = bad]]}
checkInvalidAncestor(tips, hits, check, tip) ==
  LET bad     == tips[check]
      hit     == Hit(hits, bad)
      full    == {b \in Blocks : tips[b] # None}
      dropped == IF check = tip THEN {{}}
                 ELSE {S \in SUBSET full :
                         Cardinality(S) = IF Cardinality(full) < TipsetsCap THEN 0
                                          ELSE Cardinality(full) - TipsetsCap + 1}
  IN  IF bad = None
      THEN {[invalid |-> FALSE, tips |-> tips, hits |-> hits]}
      ELSE IF hit[bad] = HitEviction
      THEN {[invalid |-> FALSE,
             tips |-> [b \in Blocks |-> IF tips[b] = bad THEN None ELSE tips[b]],
             hits |-> [hits EXCEPT ![bad] = 0]]}
      ELSE {[invalid |-> TRUE,
             tips |-> [b \in Blocks |-> IF b = tip THEN bad
                                        ELSE IF b \in S THEN None ELSE tips[b]],
             hits |-> hit] : S \in dropped}

Remember(c) == invalidTipsets' = c.tips /\ invalidBlocksHits' = c.hits

----------------------------------------------------------------------------
(* The skeleton of headers and its backfiller.                             *)

Filling == fill # NoFill \/ (job # None /\ job.by = "sync")

InSkeleton(s) == {b \in line[s.head] : number[b] >= number[s.tail]}

\* findBeaconAncestor: the blocks above the last known one, searched below the
\* local head, or above the link of the skeleton if that is higher.
Missing(s) ==
  LET known == {number[b] : b \in {c \in InSkeleton(s) \cap db :
                                     number[c] < number[head] /\ c # s.head}}
  IN  {b \in InSkeleton(s) : \A n \in known : number[b] > n}

\* resume starts a backfiller; one that runs may still pick the new head up.
resume(s) ==
  \/ ~Filling /\ fill' = [todo |-> Missing(s), held |-> {}]
  \/ Filling /\ fill' = fill
  \/ /\ parent[s.head] \in fill.todo
     /\ \A b \in fill.todo : number[b] < number[s.head]
     /\ fill' = [fill EXCEPT !.todo = @ \cup {s.head}]

\* A new sync cycle, after the old one has been torn down.
Cycle(b) == [head |-> b, tail |-> b, linked |-> parent[b] \in executed]

\* processNewHead: b extends the skeleton or replaces its tip.
Fits(b) ==
  /\ skeleton # None
  /\ \/ skeleton.head = skeleton.tail /\ b = skeleton.head
     \/ number[b] > number[skeleton.tail] /\ parent[b] \in InSkeleton(skeleton)

\* BeaconSync (forced) and BeaconExtend: the skeleton takes the new head in
\* place, or is torn down for it, or refuses it.
beaconSync(b, force) ==
  \/ /\ Fits(b)
     /\ skeleton' = [skeleton EXCEPT !.head = b]
     /\ IF skeleton.linked THEN resume(skeleton') ELSE fill' = fill
  \/ /\ force /\ ~Fits(b)
     /\ ~(fill.held # {} \/ (job # None /\ job.by = "sync"))
     /\ skeleton' = Cycle(b)
     /\ fill' = IF skeleton'.linked THEN [todo |-> Missing(skeleton'), held |-> {}]
                ELSE NoFill
  \/ /\ ~force /\ ~Fits(b)
     /\ UNCHANGED syncVars

\* processResponse: the next header below the tail has arrived.
Download ==
  /\ skeleton # None /\ ~skeleton.linked
  /\ LET tail == parent[skeleton.tail] IN
     /\ skeleton' = [skeleton EXCEPT !.tail = tail,
                                     !.linked = parent[tail] \in executed]
     /\ IF skeleton'.linked THEN resume(skeleton') ELSE fill' = fill
  /\ UNCHANGED <<chainVars, apiVars, choice, client, restarts>>

----------------------------------------------------------------------------
(* importBlockResults: InsertChain, one block at a time.                   *)

ImportRest(b) == [todo |-> fill.todo \ {b}, held |-> fill.held \ {b}]

\* A block with its state becomes the head unless it is canonical already.
ImportStored(b) ==                                              \* mutant
  /\ b \in db
  /\ fill' = ImportRest(b)
  /\ job' = IF number[b] > number[head] \/ canon[number[b]] # b
            THEN HeadJob(b, "sync") ELSE None
  /\ UNCHANGED <<db, executed, live, disk, canon, head, final, torn, apiVars>>
ImportKnown(b) ==
  /\ HasState(b)
  /\ fill' = ImportRest(b)
  /\ job' = IF number[b] > number[head] \/ canon[number[b]] # b
            THEN HeadJob(b, "sync") ELSE None
  /\ UNCHANGED <<db, executed, live, disk, canon, head, final, torn, apiVars>>

\* A block whose parent has a state is executed, and becomes the head.
ImportExecuted(b) ==
  /\ ~HasState(b) /\ HasState(parent[b]) /\ b \notin Bad
  /\ WriteWithState({b})
  /\ job' = HeadJob(b, "sync")
  /\ fill' = ImportRest(b)
  /\ UNCHANGED <<canon, head, final, torn, apiVars>>

\* setInvalidAncestor, the callback for a block the import refused: the origin
\* is what the skeleton's head is by now.
setInvalidAncestor(bad) ==
  /\ invalidTipsets' = [invalidTipsets EXCEPT ![skeleton.head] = bad]
  /\ invalidBlocksHits' = Hit(invalidBlocksHits, bad)
  /\ UNCHANGED remoteBlocks

\* A bad block ends the backfiller.  Inside a re-import the index is off, and
\* nothing is reported.
ImportRefused(b) ==
  /\ ~HasState(b) /\ HasState(parent[b]) /\ b \in Bad
  /\ fill' = NoFill
  /\ IF fill.held = {} THEN setInvalidAncestor(b) ELSE UNCHANGED apiVars
  /\ UNCHANGED chainVars

\* insertSideChain: a block on a parent without a state is written as it is;
\* then it and its ancestors without a state are imported again under the
\* same lock.  If the first of them is bad the block itself is reported.
ImportPruned(b) ==
  /\ ~HasState(b) /\ ~HasState(parent[b])
  /\ db' = db \cup {b}
  /\ IF Lowest(Stateless(b)) \in Bad
     THEN fill' = NoFill /\ setInvalidAncestor(b)
     ELSE /\ fill' = [todo |-> fill.todo \ {b}, held |-> Stateless(b)]
          /\ UNCHANGED apiVars
  /\ UNCHANGED <<executed, live, disk, canon, head, final, job, torn>>

Import ==
  /\ job = None /\ fill # NoFill
  /\ LET b == Lowest(IF fill.held # {} THEN fill.held ELSE fill.todo) IN
       ImportKnown(b) \/ ImportExecuted(b) \/ ImportRefused(b) \/ ImportPruned(b)
  /\ UNCHANGED <<skeleton, choice, client, restarts>>

----------------------------------------------------------------------------
(* newPayload.  A block that is in the database is answered at once.       *)

\* delayPayloadImport: the parent is not there.
delayPayloadImport(b, c) ==
  /\ parent[b] \notin db
  /\ \E d \in checkInvalidAncestor(c.tips, c.hits, parent[b], b) :
       /\ Remember(d)
       /\ IF d.invalid THEN UNCHANGED <<remoteBlocks, syncVars>>
          ELSE remoteBlocks' = put(b) /\ beaconSync(b, FALSE)
  /\ UNCHANGED chainVars

\* The parent is there without its state, or the block is too early.
NotImported(b, c) ==
  /\ parent[b] \in db /\ (b \in Untimely \/ ~HasState(parent[b]))
  /\ Remember(c)
  /\ remoteBlocks' = IF b \in Untimely THEN remoteBlocks ELSE put(b)
  /\ UNCHANGED <<chainVars, syncVars>>

\* InsertBlockWithoutSetHead.
InsertBlockWithoutSetHead(b, c) ==
  /\ HasState(parent[b]) /\ b \notin Untimely /\ ~Locked
  /\ IF b \in Bad
     THEN /\ invalidTipsets' = [c.tips EXCEPT ![b] = b]
          /\ invalidBlocksHits' = [c.hits EXCEPT ![b] = 1]
          /\ UNCHANGED chainVars
     ELSE /\ WriteWithState({b})
          /\ Remember(c)
          /\ UNCHANGED <<canon, head, final, job, torn>>
  /\ UNCHANGED <<remoteBlocks, syncVars>>

newPayload(b) ==
  /\ client.settled => b = Target
  /\ b \notin db
  /\ \E c \in checkInvalidAncestor(invalidTipsets, invalidBlocksHits, b, b) :
       \/ c.invalid /\ Remember(c) /\ UNCHANGED <<chainVars, remoteBlocks, syncVars>>
       \/ ~c.invalid /\ ( \/ delayPayloadImport(b, c)
                          \/ NotImported(b, c)
                          \/ InsertBlockWithoutSetHead(b, c) )
  /\ UNCHANGED <<choice, client, restarts>>

----------------------------------------------------------------------------
(* forkchoiceUpdated.                                                      *)

\* The head is not in the database: it is refused, unheard of, or synced to.
UnknownHead(h) ==
  /\ h \notin db
  /\ \E c \in checkInvalidAncestor(invalidTipsets, invalidBlocksHits, h, h) :
       /\ Remember(c)
       /\ IF c.invalid \/ ~Known(h) THEN UNCHANGED syncVars
          ELSE beaconSync(h, TRUE)
  /\ UNCHANGED <<chainVars, remoteBlocks, choice>>

\* The head is canonical already: the fork choice goes on, the head stays.
CanonicalHead(h, f) ==
  /\ h \in db /\ canon[number[h]] = h
  /\ choice' = f
  /\ UNCHANGED <<chainVars, apiVars, syncVars>>

\* SetCanonical: the states that are missing are computed (recoverAncestors)
\* up to a bad block, which ends the call, or up to h, which becomes the head.
SetCanonical(h, f) ==
  LET lost == Stateless(h)
      good == {b \in lost : line[b] \cap lost \cap Bad = {}}
  IN  /\ h \in db /\ canon[number[h]] # h /\ ~Locked
      /\ IF good = {} THEN UNCHANGED <<db, executed, live, disk>>
         ELSE WriteWithState(good)
      /\ IF good = lost THEN job' = HeadJob(h, "fcu") /\ choice' = f
         ELSE UNCHANGED <<job, choice>>
      /\ UNCHANGED <<canon, head, final, torn, apiVars, syncVars>>

forkchoiceUpdated(h, f) ==
  /\ client.settled => h = Target
  /\ choice = None
  /\ {client.final, f} \subseteq line[h] /\ client.final \in line[f]
  /\ UnknownHead(h) \/ CanonicalHead(h, f) \/ SetCanonical(h, f)
  /\ client' = [client EXCEPT !.final = f]
  /\ UNCHANGED restarts

\* The rest of the call, once the head is set: the finalised block has to be
\* canonical.
FinalizeUnchecked ==                                            \* mutant
  /\ choice # None /\ ~(job # None /\ job.by = "fcu")
  /\ final' = IF choice \in db THEN choice ELSE final
  /\ choice' = None
  /\ UNCHANGED <<db, executed, live, disk, canon, head, job, torn, apiVars, syncVars,
                 client, restarts>>
Finalize ==
  /\ choice # None /\ ~(job # None /\ job.by = "fcu")
  /\ final' = IF choice # Genesis /\ choice \in db /\ canon[number[choice]] = choice
              THEN choice ELSE final
  /\ choice' = None
  /\ UNCHANGED <<db, executed, live, disk, canon, head, job, torn, apiVars, syncVars,
                 client, restarts>>

----------------------------------------------------------------------------
\* From now on the client sends one block only.
Settle ==
  /\ ~client.settled /\ client.final \in line[Target]
  /\ client' = [client EXCEPT !.settled = TRUE]
  /\ UNCHANGED <<chainVars, apiVars, syncVars, choice, restarts>>

Restart(S) ==
  /\ restarts < MaxRestarts
  /\ RestartWith(S)
  /\ remoteBlocks' = <<>>
  /\ invalidTipsets' = [b \in Blocks |-> None]
  /\ invalidBlocksHits' = [b \in Blocks |-> 0]
  /\ skeleton' = None
  /\ fill' = NoFill
  /\ choice' = None
  /\ restarts' = restarts + 1
  /\ UNCHANGED client

Crash == Restart({})
Stop == ~Locked /\ choice = None /\ Restart(Saved)

DatabaseStep == JobStep /\ UNCHANGED <<apiVars, syncVars, choice, client, restarts>>

NewPayloads == \E b \in Blocks \ {Genesis} : newPayload(b)
ForkChoices == \E h \in Heads, f \in Finals : forkchoiceUpdated(h, f)

Next ==
  \/ NewPayloads \/ ForkChoices \/ Finalize \/ Settle
  \/ DatabaseStep \/ Download \/ Import
  \/ Crash \/ Stop

Spec == Init /\ [][Next]_vars

\* Jobs, downloads and imports go on; a client that has settled repeats its
\* two calls.
Fairness ==
  /\ WF_vars(DatabaseStep) /\ WF_vars(Download) /\ WF_vars(Import) /\ WF_vars(Finalize)
  /\ WF_vars(client.settled /\ newPayload(Target))
  /\ WF_vars(client.settled /\ \E f \in Finals : forkchoiceUpdated(Target, f))

FairSpec == Spec /\ Fairness

----------------------------------------------------------------------------
\* The head and all its ancestors carry the canonical markers of their
\* numbers, at every database batch of a reorganisation and after every
\* restart; but not between the trimming of old markers and the new head, nor
\* after a crash there.
CanonicalChain ==
  torn \/ (job # None /\ job.phase = "trimmed")
    \/ \A b \in line[head] : canon[number[b]] = b

\* No block of the head's chain is bad, although the sync may write bad blocks
\* to the database.
HeadValid == line[head] \cap Bad = {}

\* Only an import of the sync takes the finalised block off the canonical
\* chain: no fork choice, payload, crash or restart does.
FinalStaysCanonical ==
  [][ canon[number[final]] = final /\ (job # None => job.by = "fcu")
        => canon'[number[final']] = final' ]_vars

\* Between jobs the state of the head is there, unless a block TriesInMemory
\* or more above it has been executed.
StateKept(b) ==
  HasState(b) \/ \E c \in executed : number[c] >= number[b] + TriesInMemory
HeadHasState == job # None \/ StateKept(head)

\* A client that settles on a valid block finds it canonical: no crash,
\* half-done reorganisation, stale sync or refused tip stands in its way for
\* good.
TargetReached == client.settled ~> (canon[number[Target]] = Target)

----------------------------------------------------------------------------
(* The inductive invariant behind the properties.                          *)

\* What is executed is valid down to Genesis, which keeps its state.
ExecutedInv ==
  /\ Genesis \in disk
  /\ executed \cap Bad = {}
  /\ \A b \in executed : line[b] \subseteq executed

\* The block of a job is executed; once old markers are trimmed, or when
\* nothing is to be trimmed, all below it is canonical.
JobInv ==
  job # None =>
    /\ job.to \in executed /\ StateKept(job.to)
    /\ job.phase # "reorg" /\ ~torn =>
         \A b \in line[job.to] \ {job.to} : canon[number[b]] = b

\* The head of a fork choice descends from the finalised block.
ChoiceInv ==
  /\ final \in line[client.final]
  /\ choice # None => choice = client.final
  /\ job # None /\ job.by = "fcu" =>
       /\ choice # None /\ client.final \in line[job.to]
       /\ job.phase = "reorg" => canon[number[job.to]] # job.to

SkeletonInv ==
  skeleton # None /\ ~skeleton.linked => parent[skeleton.tail] # Genesis

Inv == /\ TypeOK /\ ExecutedInv /\ JobInv /\ ChoiceInv /\ SkeletonInv
       /\ CanonicalChain /\ HeadHasState

=============================================================================
