----------------------------- MODULE WalletList ------------------------------
(***************************************************************************)
(* The wallet list of the app (App and AccountListItem of WalletList.tsx): *)
(* the names of the wallets in React state and in AsyncStorage, and the    *)
(* balance an item shows, loaded anew whenever the chain changes.          *)
(*                                                                         *)
(* AsyncStorage (external) performs its requests in order; its answer is a *)
(* later turn of the event loop.  Answers of the chains' RPC nodes come in *)
(* any order and nothing cancels a load when the chain changes.  The app   *)
(* may be killed at any moment.  One item stands for all of them.          *)
(***************************************************************************)
EXTENDS Naturals, Sequences, SequencesExt, FiniteSets

CONSTANTS
    Names,          \* the slugs generateSlug makes, each of them once
    Stored,         \* the list in storage when the app is first started
    ChainIds,
    FirstChain,     \* useState(5)
    NoBalance,      \* "", the initial value of balance
    MaxLoads,       \* bound on the loads of the item
    MaxStarts       \* bound on the starts of the app

ASSUME ListAssumption ==
    /\ Stored \in Seq(Names)
    /\ FirstChain \in ChainIds /\ NoBalance \notin ChainIds
    /\ MaxLoads \in Nat /\ MaxStarts \in Nat

VARIABLES
    accounts,       \* React state: the names shown
    storage,        \* AsyncStorage "@accounts"
    requests,       \* storage requests under way: [op, list], oldest first
    fresh,          \* names not generated yet
    chainId,        \* App's chain
    loads,          \* loads of the item, by start: [chain, step]
    balance,        \* the chain whose balance the item shows
    starts,
    raced,          \* history: a tap came while a storage request was under way
    kept,           \* history: names shown after their write was confirmed
    overtaken       \* history: a load finished after a later one had

listVars == <<accounts, storage, requests, fresh, raced, kept>>
itemVars == <<chainId, loads, balance, overtaken>>
allVars == <<listVars, itemVars, starts>>

ReadRequest == [op |-> "read", list |-> <<>>, done |-> FALSE]
WriteRequest(list) == [op |-> "write", list |-> list, done |-> FALSE]
NewLoad(c) == [chain |-> c, step |-> "key"]

ListInit ==
    /\ accounts = <<>> /\ storage = Stored
    /\ requests = <<ReadRequest>>
    /\ fresh = Names \ Range(Stored)
    /\ chainId = FirstChain /\ loads = <<NewLoad(FirstChain)>> /\ balance = NoBalance
    /\ starts = 1 /\ raced = FALSE /\ kept = Range(Stored) /\ overtaken = FALSE
-----------------------------------------------------------------------------
\* "New Wallet": writeAccountsToStorage([...accounts, generateSlug()]).
ForgetOthers(slug) == <<slug>>                                      \* mutant
WithNew(slug) == Append(accounts, slug)

ShowAtOnce(slug) == accounts' = Append(accounts, slug)              \* mutant
ShowLater(slug) == UNCHANGED accounts

NewWallet(slug) ==
    /\ slug \in fresh
    /\ fresh' = fresh \ {slug}
    /\ requests' = Append(requests, WriteRequest(WithNew(slug)))
    /\ ShowLater(slug)
    /\ raced' = (raced \/ requests # <<>>)
    /\ UNCHANGED <<storage, kept, itemVars, starts>>

\* AsyncStorage performs the oldest request.
Perform ==
    /\ requests # <<>> /\ ~Head(requests).done
    /\ \/ /\ Head(requests).op = "read"
          /\ requests' = [requests EXCEPT ![1].done = TRUE, ![1].list = storage]
          /\ UNCHANGED storage
       \/ /\ Head(requests).op = "write"
          /\ requests' = [requests EXCEPT ![1].done = TRUE]
          /\ storage' = Head(requests).list
    /\ UNCHANGED <<accounts, fresh, raced, kept, itemVars, starts>>

\* The await returns: setAccounts with what was read or written.
Resume ==
    /\ requests # <<>> /\ Head(requests).done
    /\ accounts' = Head(requests).list
    /\ kept' = kept \cup Range(Head(requests).list)
    /\ requests' = Tail(requests)
    /\ UNCHANGED <<storage, fresh, raced, itemVars, starts>>

\* App's effect on mount reads the list.
StartEmpty == requests' = <<>>                                      \* mutant
StartReading == requests' = <<ReadRequest>>

\* The app is killed, with whatever was under way, and started again.
Restart ==
    /\ starts < MaxStarts
    /\ starts' = starts + 1
    /\ accounts' = <<>>
    /\ StartReading
    /\ chainId' = FirstChain /\ loads' = <<NewLoad(FirstChain)>>
    /\ balance' = NoBalance /\ overtaken' = FALSE
    /\ UNCHANGED <<storage, fresh, raced, kept>>
-----------------------------------------------------------------------------
\* useWalletData's effect depends on the chain: every change starts a load.
NoReload(c) == UNCHANGED loads                                      \* mutant
Reload(c) == loads' = Append(loads, NewLoad(c))

SetChain(c) ==
    /\ c # chainId
    /\ Len(loads) < MaxLoads
    /\ chainId' = c
    /\ Reload(c)
    /\ UNCHANGED <<balance, overtaken, listVars, starts>>

\* getWalletData, one await at a time: getPublicKey, predict, getBalance.
Following == [key |-> "predict", predict |-> "balance", balance |-> "done"]

LoadStep(i) ==
    LET step == loads[i].step
    IN  /\ step # "done"
        /\ loads' = [loads EXCEPT ![i].step = Following[step]]
        /\ balance' = IF step = "balance" THEN loads[i].chain ELSE balance
        /\ overtaken' = (overtaken \/ /\ step = "balance"
                                      /\ \E j \in i+1..Len(loads) : loads[j].step = "done")
        /\ UNCHANGED <<chainId, listVars, starts>>

ListNext ==
    \/ \E slug \in Names : NewWallet(slug)
    \/ Perform \/ Resume \/ Restart
    \/ \E c \in ChainIds : SetChain(c)
    \/ \E i \in 1..Len(loads) : LoadStep(i)

\* Storage and RPC nodes answer.
ListSpec == /\ ListInit /\ [][ListNext]_allVars
            /\ WF_allVars(Perform) /\ WF_allVars(Resume)
            /\ WF_allVars(\E i \in 1..Len(loads) : LoadStep(i))
-----------------------------------------------------------------------------
\* No wallet the user has seen is lost from storage, restarts included, unless
\* New Wallet was tapped before the list was read or an earlier write had come
\* back: then the list is put together from stale state.
WalletsKept == ~raced => kept \subseteq Range(storage)

\* What is shown is in storage, except between a write and its answer.
ShownIsStored ==
    (requests = <<>> \/ ~Head(requests).done) => Range(accounts) \subseteq Range(storage)

\* When every load has come back, the balance shown is the one on the chain
\* selected, unless a load was overtaken by a later one.
BalanceOfChain ==
    ~overtaken /\ (\A i \in 1..Len(loads) : loads[i].step = "done") => balance = chainId

\* After the last start the list is read, and the item shows a balance.
ListAppears == <>[](kept # {} => accounts # <<>>) /\ <>[](balance # NoBalance)
=============================================================================
