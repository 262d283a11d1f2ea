---------------------------- MODULE WalletProofs -----------------------------
(***************************************************************************)
(* The contracts, and the app and the bundler that use them, for any       *)
(* wallets, chains, keys, entry points and number of taps.                 *)
(*                                                                         *)
(* The contracts (PixelAccount): no operation is executed twice, nonces    *)
(* are used in order, only the owner's signature moves funds, and a        *)
(* deployed account is never set up again.  AccountInv is inductive: the   *)
(* log stays behind the nonces and the code on the chain                   *)
(* (LogBehindNonces), so that an operation which passes validation cannot  *)
(* be in the log.                                                          *)
(*                                                                         *)
(* The app and the bundler implement them: whatever they do on a chain is  *)
(* a step of the contracts, so those theorems hold of transfers; and a     *)
(* transfer is signed for the wallet that was open.  AppInv is inductive   *)
(* together with AccountInv (a nonce that is read from a chain is a        *)
(* natural number).  Ops and Nonces are unrestricted there: every          *)
(* operation may circulate and every nonce may be signed.                  *)
(*                                                                         *)
(* Every operation the bundler or a chain has was posted by a handler that *)
(* is over (Traced), one handler posts one operation, and no operation is  *)
(* executed twice: so there are no more transfers than taps.               *)
(*                                                                         *)
(* The wallet list has two inductive invariants: ListInv, about the names  *)
(* in React state, in storage and in the requests under way, and ItemInv,  *)
(* about the loads of an item and the balance it shows.                    *)
(***************************************************************************)
EXTENDS WalletTransfer, WalletList, FiniteSetTheorems, TLAPS

\* Replacing an element of a sequence.
LEMMA ReplaceElement ==
    ASSUME NEW S, NEW s \in Seq(S), NEW n \in 1..Len(s), NEW e \in S
    PROVE  LET t == [s EXCEPT ![n] = e]
           IN  /\ t \in Seq(S) /\ Len(t) = Len(s) /\ t[n] = e
               /\ \A i \in 1..Len(s) : i # n => t[i] = s[i]
    OBVIOUS

\* u is s with e, of S, at place n.
Replaces(u, s, n, e, S) ==
    s \in Seq(S) /\ n \in 1..Len(s) /\ e \in S /\ u = [s EXCEPT ![n] = e]

\* u is as long as s and has e at place n.
Placed(u, s, n, e) == Len(u) = Len(s) /\ u[n] = e

\* Replacing an element places it.
LEMMA ReplacedPlaced ==
    ASSUME NEW S, NEW s, NEW n, NEW e, NEW u, Replaces(u, s, n, e, S)
    PROVE  Placed(u, s, n, e)
    BY DEF Replaces, Placed

----------------------------------------------------------------------------
(* The contracts.                                                          *)

Entries == [chain: Chains, op: Operations, ok: BOOLEAN]

LEMMA InitializedType ==
    ASSUME NEW c \in Chains, NEW k \in Keys
    PROVE  /\ Initialized(c, k) \in Storage
           /\ Initialized(c, k) # Absent
           /\ Initialized(c, k).publicKey = k
           /\ Initialized(c, k).entryPoint = Deployed
           /\ Initialized(c, k).nonce = 0
  BY AccountAssumption DEF Initialized, Storage, VerifierFor, Verifiers

LEMMA OpType ==
    ASSUME NEW op \in Ops
    PROVE  /\ op \in Operations /\ op.body.sender \in Keys
           /\ op.body.nonce \in Nat /\ op.body.value \in Nat
  BY Zenon, AccountAssumption DEF Operations, Bodies

\* A log entry has the type of its parts.
LEMMA EntryType ==
    ASSUME AccountTypeOK, NEW i \in 1..Len(log)
    PROVE  /\ log[i].chain \in Chains /\ log[i].op.body.sender \in Keys
           /\ log[i].op.body.nonce \in Nat
  <1>1. log \in Seq(Entries)
    BY DEF AccountTypeOK, Entries
  <1>2. log[i] \in Entries
    BY <1>1
  <1> QED BY Zenon, <1>2, AccountAssumption DEF Entries, Operations, Bodies

LEMMA InvInit == InitAccounts => AccountInv
  <1> SUFFICES ASSUME InitAccounts PROVE AccountInv
    OBVIOUS
  <1>1. AccountTypeOK
    BY AccountAssumption DEF InitAccounts, AccountTypeOK
  <1> QED
    BY <1>1 DEF InitAccounts, AccountInv, AccountsOwned, LogBehindNonces, NoncesInOrder,
                SignedByOwner

-----------------------------------------------------------------------------
LEMMA Unchanged == ASSUME AccountInv, UNCHANGED accountVars PROVE AccountInv'
  <1>1. AccountTypeOK' /\ AccountsOwned'
    BY DEF accountVars, AccountInv, AccountTypeOK, AccountsOwned
  <1>2. LogBehindNonces' /\ NoncesInOrder' /\ SignedByOwner'
    BY Zenon DEF accountVars, AccountInv, LogBehindNonces, NoncesInOrder, SignedByOwner
  <1> QED BY <1>1, <1>2 DEF AccountInv

\* create leaves an existing account alone, and sets up a new one.
LEMMA CreateStep ==
    ASSUME AccountInv, NEW c \in Chains, NEW k \in Keys, FactoryCreate(c, k)
    PROVE  AccountInv'
  <1>1. CASE account[c][k] # Absent
    <2>1. account' = account /\ bal' = bal /\ log' = log
      BY <1>1 DEF FactoryCreate, Create
    <2> QED BY <2>1, Unchanged DEF accountVars
  <1>2. CASE account[c][k] = Absent
    <2>1. /\ account' = [account EXCEPT ![c][k] = Initialized(c, k)]
          /\ bal' = bal /\ log' = log
      BY <1>2 DEF FactoryCreate, Create
    <2>2. AccountTypeOK'
      BY <2>1, InitializedType DEF AccountInv, AccountTypeOK
    <2>3. AccountsOwned'
      BY <2>1, InitializedType DEF AccountInv, AccountTypeOK, AccountsOwned
    <2>4. LogBehindNonces'
      <3> SUFFICES ASSUME NEW i \in 1..Len(log)
                   PROVE  /\ account'[log[i].chain][log[i].op.body.sender] # Absent
                          /\ log[i].op.body.initCode = NoInit =>
                               log[i].op.body.nonce < account'[log[i].chain][log[i].op.body.sender].nonce
        BY Zenon, <2>1 DEF LogBehindNonces
      <3>1. ~(log[i].chain = c /\ log[i].op.body.sender = k)
        BY Zenon, <1>2 DEF AccountInv, LogBehindNonces
      <3>2. account'[log[i].chain][log[i].op.body.sender]
              = account[log[i].chain][log[i].op.body.sender]
        BY <2>1, <3>1, EntryType DEF AccountInv, AccountTypeOK
      <3> QED BY Zenon, <3>2 DEF AccountInv, LogBehindNonces
    <2>5. NoncesInOrder' /\ SignedByOwner'
      BY <2>1 DEF AccountInv, NoncesInOrder, SignedByOwner
    <2> QED BY <2>2, <2>3, <2>4, <2>5 DEF AccountInv
  <1> QED BY <1>1, <1>2

-----------------------------------------------------------------------------
\* The account an operation is validated against is the sender's own.
LEMMA SenderOwned ==
    ASSUME AccountInv, NEW c \in Chains, NEW op \in Ops, SenderReady(c, op)
    PROVE  /\ Sender(c, op) \in Storage
           /\ Sender(c, op).publicKey = op.body.sender
           /\ Sender(c, op).entryPoint = Deployed
  BY OpType, InitializedType
     DEF SenderReady, Sender, AccountInv, AccountTypeOK, AccountsOwned

\* What handleOps leaves of the sender's storage.
LEMMA UpdatedType ==
    ASSUME NEW acc \in Storage, NEW op \in Ops
    PROVE  /\ ValidateAndUpdateNonce(acc, op) \in Storage
           /\ ValidateAndUpdateNonce(acc, op).publicKey = acc.publicKey
           /\ ValidateAndUpdateNonce(acc, op).entryPoint = acc.entryPoint
           /\ ValidateAndUpdateNonce(acc, op).verifier = acc.verifier
           /\ ValidateAndUpdateNonce(acc, op).nonce
                = IF op.body.initCode = NoInit THEN acc.nonce + 1 ELSE acc.nonce
  BY DEF ValidateAndUpdateNonce, Storage

LEMMA HandleStep ==
    ASSUME AccountInv, NEW c \in Chains, NEW ep \in EntryPoints, NEW op \in Ops,
           HandleOp(c, ep, op)
    PROVE  AccountInv'
  <1> DEFINE k == op.body.sender
             acc == Sender(c, op)
             new == ValidateAndUpdateNonce(acc, op)
             n == Len(log)
  <1>1. k \in Keys /\ op \in Operations /\ op.body.nonce \in Nat /\ op.body.value \in Nat
    BY OpType
  <1>2. acc \in Storage /\ acc.publicKey = k /\ acc.entryPoint = Deployed
    BY SenderOwned DEF HandleOp, Valid
  <1>3. new \in Storage /\ new # Absent /\ new.publicKey = k /\ new.entryPoint = Deployed
    BY <1>2, UpdatedType, AccountAssumption
  <1>4. account' = [account EXCEPT ![c][k] = new]
    BY DEF HandleOp
  <1>5. account'[c][k] = new
        /\ \A d \in Chains, x \in Keys : <<d, x>> # <<c, k>> => account'[d][x] = account[d][x]
    BY <1>1, <1>4 DEF AccountInv, AccountTypeOK
  <1>6. PICK ok \in BOOLEAN : log' = Append(log, [chain |-> c, op |-> op, ok |-> ok])
    <2> DEFINE paid == op.body.value <= bal[c][k] - Fee
    <2>1. log' = Append(log, [chain |-> c, op |-> op, ok |-> paid])
      BY DEF HandleOp
    <2>2. paid \in BOOLEAN
      OBVIOUS
    <2> HIDE DEF paid
    <2> QED BY <2>1, <2>2
  <1>7. log \in Seq(Entries) /\ [chain |-> c, op |-> op, ok |-> ok] \in Entries
    BY <1>1, <1>6 DEF AccountInv, AccountTypeOK, Entries
  <1>8. /\ n \in Nat /\ Len(log') = n + 1 /\ log' \in Seq(Entries)
        /\ \A i \in 1..n : log'[i] = log[i]
        /\ log'[n + 1].chain = c /\ log'[n + 1].op = op
    <2> HIDE DEF Entries
    <2>1. log' \in Seq(Entries)
      BY <1>6, <1>7
    <2>2. /\ n \in Nat /\ Len(log') = n + 1
          /\ \A i \in 1..n : log'[i] = log[i]
          /\ log'[n + 1] = [chain |-> c, op |-> op, ok |-> ok]
      BY <1>6, <1>7
    <2> QED BY <2>1, <2>2
  <1>9. AccountTypeOK'
    <2>1. account' \in [Chains -> [Keys -> Storage \cup {Absent}]]
      BY <1>1, <1>3, <1>4 DEF AccountInv, AccountTypeOK
    <2>2. bal' \in [Chains -> [Keys -> Nat]]
      <3> DEFINE left == bal[c][k] - Fee
                 rest == IF op.body.value <= left THEN left - op.body.value ELSE left
      <3>1. bal' = [bal EXCEPT ![c][k] = rest]
        BY DEF HandleOp
      <3>2. bal[c][k] \in Nat /\ bal[c][k] >= Fee
        BY <1>1 DEF AccountInv, AccountTypeOK, HandleOp, Valid, PayPrefund
      <3>3. rest \in Nat
        BY <1>1, <3>2, AccountAssumption
      <3> HIDE DEF rest
      <3> QED BY Zenon, <1>1, <3>1, <3>3 DEF AccountInv, AccountTypeOK
    <2> QED BY <1>8, <2>1, <2>2 DEF AccountTypeOK, Entries
  <1>10. AccountsOwned'
    BY <1>1, <1>3, <1>5 DEF AccountInv, AccountsOwned
  <1>11. \A i \in 1..n : log[i].chain = c /\ log[i].op.body.sender = k =>
            /\ op.body.initCode = NoInit
            /\ log[i].op.body.initCode = NoInit => log[i].op.body.nonce < op.body.nonce
            /\ acc = account[c][k]
    <2> SUFFICES ASSUME NEW i \in 1..n, log[i].chain = c, log[i].op.body.sender = k
                 PROVE  /\ op.body.initCode = NoInit
                        /\ log[i].op.body.initCode = NoInit => log[i].op.body.nonce < op.body.nonce
                        /\ acc = account[c][k]
      BY Zenon
    <2>1. account[c][k] # Absent
      BY DEF AccountInv, LogBehindNonces
    <2>2. op.body.initCode = NoInit /\ acc = account[c][k]
      BY <2>1 DEF HandleOp, Valid, SenderReady, Sender
    <2>3. acc.nonce = op.body.nonce
      BY <2>2 DEF HandleOp, Valid, NonceValid
    <2> QED BY <2>2, <2>3 DEF AccountInv, LogBehindNonces
  <1>12. LogBehindNonces'
    <2> SUFFICES ASSUME NEW i \in 1..Len(log')
                 PROVE  LET a == account'[log'[i].chain][log'[i].op.body.sender]
                        IN  /\ a # Absent
                            /\ log'[i].op.body.initCode = NoInit => log'[i].op.body.nonce < a.nonce
      BY Zenon DEF LogBehindNonces
    <2>1. CASE i = n + 1
      <3>1. op.body.initCode = NoInit => acc.nonce = op.body.nonce
        BY Zenon DEF HandleOp, Valid, NonceValid
      <3> QED BY SMTT(30), <1>1, <1>2, <1>3, <1>5, <1>8, <2>1, <3>1, UpdatedType
    <2>2. CASE i \in 1..n /\ <<log[i].chain, log[i].op.body.sender>> = <<c, k>>
      <3>1. /\ log[i].op.body.initCode = NoInit => log[i].op.body.nonce < acc.nonce
            /\ log[i].op.body.nonce \in Nat /\ acc.nonce \in Nat
        BY Zenon, <1>2, <1>11, <2>2, EntryType DEF AccountInv, LogBehindNonces, Storage
      <3>2. new.nonce >= acc.nonce /\ new.nonce \in Nat
        BY <1>2, <3>1, UpdatedType
      <3> QED BY SMTT(30), <1>3, <1>5, <1>8, <2>2, <3>1, <3>2
    <2>3. CASE i \in 1..n /\ <<log[i].chain, log[i].op.body.sender>> # <<c, k>>
      <3>1. account'[log[i].chain][log[i].op.body.sender]
              = account[log[i].chain][log[i].op.body.sender]
        BY <1>5, <2>3, EntryType DEF AccountInv
      <3> QED BY Zenon, <1>8, <2>3, <3>1 DEF AccountInv, LogBehindNonces
    <2>4. i = n + 1 \/ i \in 1..n
      BY <1>8
    <2>5. \/ <<log[i].chain, log[i].op.body.sender>> = <<c, k>>
          \/ <<log[i].chain, log[i].op.body.sender>> # <<c, k>>
      OBVIOUS
    <2> QED BY Zenon, <2>1, <2>2, <2>3, <2>4, <2>5
  <1>13. NoncesInOrder'
    <2> SUFFICES ASSUME NEW i \in 1..Len(log'), NEW j \in 1..Len(log'), i < j,
                        log'[i].chain = log'[j].chain,
                        log'[i].op.body.sender = log'[j].op.body.sender
                 PROVE  /\ log'[j].op.body.initCode = NoInit
                        /\ log'[i].op.body.initCode = NoInit =>
                             log'[i].op.body.nonce < log'[j].op.body.nonce
      BY DEF NoncesInOrder
    <2>1. i \in 1..n
      BY <1>8
    <2>2. CASE j = n + 1
      BY Zenon, <1>8, <1>11, <2>1, <2>2
    <2>3. CASE j \in 1..n
      BY <1>8, <2>1, <2>3 DEF AccountInv, NoncesInOrder
    <2> QED BY <1>8, <2>2, <2>3
  <1>14. SignedByOwner'
    <2> SUFFICES ASSUME NEW i \in 1..Len(log')
                 PROVE  log'[i].op.sig = [key |-> log'[i].op.body.sender, chain |-> log'[i].chain,
                                          entryPoint |-> Deployed, body |-> log'[i].op.body]
      BY DEF SignedByOwner
    <2>1. CASE i = n + 1
      <3>1. ep = Deployed /\ op.sig = [key |-> k, chain |-> c, entryPoint |-> ep, body |-> op.body]
        BY <1>2 DEF HandleOp, Valid, ValidateSignature
      <3> QED BY Zenon, <1>8, <2>1, <3>1
    <2>2. CASE i \in 1..n
      BY <1>8, <2>2 DEF AccountInv, SignedByOwner
    <2> QED BY <1>8, <2>1, <2>2
  <1> QED BY Zenon, <1>9, <1>10, <1>12, <1>13, <1>14 DEF AccountInv

-----------------------------------------------------------------------------
LEMMA InvNext == AccountInv /\ [NextAccounts]_accountVars => AccountInv'
  <1> SUFFICES ASSUME AccountInv, [NextAccounts]_accountVars PROVE AccountInv'
    OBVIOUS
  <1>1. CASE \E c \in Chains, k \in Keys : FactoryCreate(c, k)
    BY <1>1, CreateStep
  <1>2. CASE \E c \in Chains, ep \in EntryPoints, op \in Ops : HandleOp(c, ep, op)
    BY <1>2, HandleStep
  <1>3. CASE UNCHANGED accountVars
    BY <1>3, Unchanged
  <1> QED BY <1>1, <1>2, <1>3 DEF NextAccounts

\* The inductive invariant of the contracts.
THEOREM AccountInvariant == AccountSpec => []AccountInv
  BY InvInit, InvNext, PTL DEF AccountSpec

\* An operation that is in the log twice would have used one nonce twice, or
\* deployed its account twice.
LEMMA NeverTwice == AccountInv => ExecutedOnce
  <1> SUFFICES ASSUME AccountInv,
                      \E i, j \in 1..Len(log) : log[i].op = log[j].op /\ i # j
               PROVE  FALSE
    BY DEF ExecutedOnce
  <1>0. PICK i \in 1..Len(log), j \in 1..Len(log) : log[i].op = log[j].op /\ i < j
    <2>1. Len(log) \in Nat
      BY DEF AccountInv, AccountTypeOK
    <2> QED BY <2>1
  <1>1. log[i].chain = log[j].chain
    <2>1. ASSUME NEW x \in 1..Len(log) PROVE log[x].op.sig.chain = log[x].chain
      <3>1. log[x].op.sig = [key |-> log[x].op.body.sender, chain |-> log[x].chain,
                             entryPoint |-> Deployed, body |-> log[x].op.body]
        BY DEF AccountInv, SignedByOwner
      <3> QED BY <3>1
    <2> QED BY <1>0, <2>1
  <1>2. /\ log[j].op.body.initCode = NoInit
        /\ log[i].op.body.initCode = NoInit => log[i].op.body.nonce < log[j].op.body.nonce
    BY <1>0, <1>1 DEF AccountInv, NoncesInOrder
  <1>3. log[i].op.body.nonce \in Nat
    BY EntryType DEF AccountInv
  <1> QED BY <1>0, <1>2, <1>3

\* No user operation is executed twice, on any chain.
THEOREM NoReplay == AccountSpec => []ExecutedOnce
  BY NeverTwice, AccountInvariant, PTL

\* The operations of an account are executed in the order of their nonces,
\* after the one that deployed it.
THEOREM UsedInOrder == AccountSpec => []NoncesInOrder
  <1>1. AccountInv => NoncesInOrder
    BY DEF AccountInv
  <1> QED BY <1>1, AccountInvariant, PTL

\* Only the owner's signature, made for this chain and the factory's entry
\* point, moves an account's funds: validateUserOp accepts no other.
THEOREM OnlyOwnerSigns == AccountSpec => []SignedByOwner
  <1>1. AccountInv => SignedByOwner
    BY DEF AccountInv
  <1> QED BY <1>1, AccountInvariant, PTL

\* Accounts, balances and the log keep their types: no balance underflows.
THEOREM AccountTypes == AccountSpec => []AccountTypeOK
  <1>1. AccountInv => AccountTypeOK
    BY DEF AccountInv
  <1> QED BY <1>1, AccountInvariant, PTL

-----------------------------------------------------------------------------
\* One step of the contracts, as AccountsStable describes it.
Stable ==
    \A c \in Chains, k \in Keys :
        account[c][k] # Absent =>
            /\ account'[c][k] # Absent
            /\ account'[c][k].publicKey = account[c][k].publicKey
            /\ account'[c][k].entryPoint = account[c][k].entryPoint
            /\ account'[c][k].verifier = account[c][k].verifier
            /\ account'[c][k].nonce >= account[c][k].nonce

LEMMA StableStep == AccountInv /\ NextAccounts => Stable
  <1> SUFFICES ASSUME AccountInv, NextAccounts PROVE Stable
    OBVIOUS
  <1>0. \A c \in Chains, k \in Keys : account[c][k] # Absent => account[c][k].nonce \in Nat
    BY DEF AccountInv, AccountTypeOK, Storage
  <1>1. ASSUME NEW c \in Chains, NEW k \in Keys, FactoryCreate(c, k) PROVE Stable
    <2>1. CASE account[c][k] # Absent
      BY <1>0, <1>1, <2>1 DEF FactoryCreate, Create, Stable
    <2>2. CASE account[c][k] = Absent
      <3>1. \A d \in Chains, x \in Keys : <<d, x>> # <<c, k>> => account'[d][x] = account[d][x]
        BY <1>1, <2>2 DEF FactoryCreate, Create, AccountInv, AccountTypeOK
      <3> QED BY <1>0, <2>2, <3>1 DEF Stable
    <2> QED BY <2>1, <2>2
  <1>2. ASSUME NEW c \in Chains, NEW ep \in EntryPoints, NEW op \in Ops, HandleOp(c, ep, op)
        PROVE  Stable
    <2> DEFINE s == op.body.sender
               acc == Sender(c, op)
               new == ValidateAndUpdateNonce(acc, op)
    <2>1. s \in Keys /\ account' = [account EXCEPT ![c][s] = new]
      BY <1>2, OpType DEF HandleOp
    <2>2. account'[c][s] = new
          /\ \A d \in Chains, x \in Keys : <<d, x>> # <<c, s>> => account'[d][x] = account[d][x]
      BY <2>1 DEF AccountInv, AccountTypeOK
    <2>3. acc \in Storage /\ new \in Storage
      BY Zenon, <1>2, SenderOwned, UpdatedType DEF HandleOp, Valid
    <2>4. account[c][s] # Absent => acc = account[c][s]
      BY <1>2 DEF HandleOp, Valid, SenderReady, Sender
    <2>5. /\ new # Absent /\ new.publicKey = acc.publicKey /\ new.entryPoint = acc.entryPoint
          /\ new.verifier = acc.verifier /\ new.nonce >= acc.nonce
      <3>1. acc.nonce \in Nat
        BY <2>3 DEF Storage
      <3> QED BY <2>3, <3>1, UpdatedType, AccountAssumption
    <2> HIDE DEF new, acc
    <2> QED BY <1>0, <2>1, <2>2, <2>4, <2>5 DEF Stable
  <1> QED BY <1>1, <1>2 DEF NextAccounts

\* A deployed account is never set up again and its nonce never goes back.
THEOREM NeverSetUpAgain == AccountSpec => AccountsStable
  <1>1. AccountInv /\ [NextAccounts]_accountVars => [Stable]_accountVars
    BY StableStep
  <1> QED BY <1>1, AccountInvariant, PTL DEF AccountSpec, AccountsStable, Stable

----------------------------------------------------------------------------
(* The app and the bundler.                                                *)

Inv == AppInv /\ AccountInv

LEMMA AppInit ==
    ASSUME Init
    PROVE  AppInv
  <1>1. AppTypeOK
    BY DEF Init, AppTypeOK
  <1>2. SheetOwned
    BY DEF Init, SheetOwned
  <1>3. SendsReady /\ SignsForOpenedWallet
    BY DEF Init, SendsReady, SignsForOpenedWallet
  <1> QED BY <1>1, <1>2, <1>3 DEF AppInv

\* A step that leaves the handlers and the bundler alone.
LEMMA SendsUnchanged ==
    ASSUME AppInv, UNCHANGED <<sends, pool, accountVars>>, chain' \in Chains,
           selected' \in Keys \cup {NoKey}, load' \in {"key", "predict", "done"}, SheetOwned'
    PROVE  AppInv'
  BY DEF AppInv, AppTypeOK, SendsReady, SignsForOpenedWallet, accountVars

\* The steps of the user interface.
LEMMA SheetStep ==
    ASSUME AppInv,
           \/ \E c \in Chains : SelectChain(c)
           \/ \E k \in Keys : OpenSheet(k)
           \/ CloseSheet \/ LoadKey \/ LoadAddress
    PROVE  AppInv' /\ UNCHANGED accountVars
  <1>0. NoKey \notin Keys /\ SheetOwned /\ AppTypeOK
    BY AppAssumption DEF AppInv
  <1>1. CASE \E c \in Chains : SelectChain(c)
    BY Zenon, <1>0, <1>1, SendsUnchanged DEF SelectChain, SheetOwned, AppTypeOK
  <1>2. CASE \E k \in Keys : OpenSheet(k)
    BY Zenon, <1>0, <1>2, SendsUnchanged DEF OpenSheet, SheetOwned, AppTypeOK
  <1>3. CASE CloseSheet
    BY <1>0, <1>3, SendsUnchanged DEF CloseSheet, Unmount, SheetOwned, AppTypeOK
  <1>4. CASE LoadKey
    <2>1. sheet' = [publicKey |-> selected, address |-> Empty]
      BY <1>0, <1>4 DEF LoadKey, SheetOwned, NoSheet
    <2> QED BY Zenon, <1>0, <1>4, <2>1, SendsUnchanged DEF LoadKey, SheetOwned, AppTypeOK
  <1>5. CASE LoadAddress
    <2>1. sheet' = [publicKey |-> selected, address |-> selected]
      BY Zenon, <1>0, <1>5 DEF LoadAddress, SheetOwned
    <2> QED BY <1>0, <1>5, <2>1, SendsUnchanged DEF LoadAddress, SheetOwned, AppTypeOK
  <1> QED BY Zenon, <1>1, <1>2, <1>3, <1>4, <1>5

\* What a handler may become: the facts of AppInv about it.
HandlerOK(h) ==
    /\ h \in Handlers
    /\ h.step \in {"nonce", "sign"} => h.address = h.keyName
    /\ h.step = "nonce" => account[h.chain][h.address] # Absent
    /\ h.publicKey \in {Empty, h.keyName}
    /\ h.address \in {Empty, h.publicKey}

LEMMA HandlersOK ==
    ASSUME AppInv, NEW t \in 1..Len(sends)
    PROVE  HandlerOK(sends[t])
  <1>1. sends[t] \in Handlers
    <2>1. sends \in Seq(Handlers)
      BY DEF AppInv, AppTypeOK
    <2> HIDE DEF Handlers
    <2> QED BY <2>1
  <1> QED BY <1>1 DEF AppInv, SendsReady, SignsForOpenedWallet, HandlerOK

LEMMA SendsOK ==
    ASSUME AppTypeOK', SheetOwned', UNCHANGED accountVars,
           \A t \in 1..Len(sends') : HandlerOK(sends'[t])
    PROVE  AppInv'
  BY DEF AppInv, SendsReady, SignsForOpenedWallet, HandlerOK, accountVars

LEMMA TapStep ==
    ASSUME AppInv, NEW v \in Values, Nonces = Nat, TapTransfer(v)
    PROVE  AppInv' /\ UNCHANGED accountVars
  <1> DEFINE h == [step |-> "bytecode", keyName |-> selected, chain |-> chain,
                   publicKey |-> sheet.publicKey, address |-> sheet.address, value |-> v,
                   nonce |-> 0, initCode |-> NoInit]
  <1>1. selected \in Keys /\ chain \in Chains
    BY DEF TapTransfer, AppInv, AppTypeOK
  <1>2. /\ sheet.publicKey \in {Empty, selected} /\ sheet.address \in {Empty, sheet.publicKey}
    BY DEF TapTransfer, AppInv, SheetOwned, NoSheet
  <1>3. HandlerOK(h)
    BY <1>1, <1>2 DEF HandlerOK, Handlers
  <1>4. sends \in Seq(Handlers) /\ sends' = Append(sends, h)
    BY DEF TapTransfer, AppInv, AppTypeOK
  <1>5. h \in Handlers
    BY <1>3 DEF HandlerOK
  <1> HIDE DEF h
  <1>6. sends' \in Seq(Handlers) /\ \A t \in 1..Len(sends') : HandlerOK(sends'[t])
    <2> HIDE DEF Handlers
    <2>1. /\ sends' \in Seq(Handlers) /\ Len(sends') = Len(sends) + 1 /\ Len(sends) \in Nat
          /\ \A t \in 1..Len(sends) : sends'[t] = sends[t]
          /\ sends'[Len(sends) + 1] = h
      BY <1>4, <1>5
    <2> QED BY <1>3, <2>1, HandlersOK
  <1>7. AppTypeOK' /\ SheetOwned' /\ UNCHANGED accountVars
    BY <1>6 DEF TapTransfer, AppInv, AppTypeOK, SheetOwned
  <1> QED BY Zenon, <1>6, <1>7, SendsOK

-----------------------------------------------------------------------------
\* A handler is replaced by one that is as good.
LEMMA Replaced ==
    ASSUME AppInv, NEW t \in 1..Len(sends), NEW h, HandlerOK(h),
           sends' = [sends EXCEPT ![t] = h]
    PROVE  sends' \in Seq(Handlers) /\ \A u \in 1..Len(sends') : HandlerOK(sends'[u])
  <1>1. sends \in Seq(Handlers) /\ h \in Handlers
    BY DEF AppInv, AppTypeOK, HandlerOK
  <1> HIDE DEF Handlers
  <1>2. /\ sends' \in Seq(Handlers) /\ Len(sends') = Len(sends)
        /\ \A u \in 1..Len(sends) : sends'[u] = IF u = t THEN h ELSE sends[u]
    BY <1>1, ReplaceElement
  <1> QED BY <1>2, HandlersOK

LEMMA ReadStep ==
    ASSUME Inv, Nonces = Nat, NEW t \in 1..Len(sends), GetBytecode(t) \/ GetNonce(t)
    PROVE  AppInv' /\ UNCHANGED accountVars
  <1> DEFINE h == sends[t]
  <1>1. HandlerOK(h) /\ AppInv
    BY Zenon, HandlersOK DEF Inv
  <1>2. PICK g : HandlerOK(g) /\ sends' = [sends EXCEPT ![t] = g]
    <2>1. CASE GetBytecode(t) /\ h.address = Empty
      <3>1. sends' = [sends EXCEPT ![t] = [h EXCEPT !.step = "over"]]
        BY <2>1 DEF GetBytecode
      <3>2. HandlerOK([h EXCEPT !.step = "over"])
        BY <1>1 DEF HandlerOK, Handlers
      <3> QED BY Zenon, <3>1, <3>2
    <2>2. CASE GetBytecode(t) /\ h.address # Empty /\ account[h.chain][h.address] = Absent
      <3>1. sends' = [sends EXCEPT ![t] = [h EXCEPT !.step = "sign", !.initCode = h.publicKey]]
        BY Zenon, <2>2 DEF GetBytecode
      <3>2. HandlerOK([h EXCEPT !.step = "sign", !.initCode = h.publicKey])
        BY Zenon, <1>1, <2>2 DEF HandlerOK, Handlers
      <3> QED BY Zenon, <3>1, <3>2
    <2>3. CASE GetBytecode(t) /\ h.address # Empty /\ account[h.chain][h.address] # Absent
      <3>1. sends' = [sends EXCEPT ![t] = [h EXCEPT !.step = "nonce"]]
        BY <2>3 DEF GetBytecode
      <3>2. HandlerOK([h EXCEPT !.step = "nonce"])
        BY <1>1, <2>3 DEF HandlerOK, Handlers
      <3> QED BY Zenon, <3>1, <3>2
    <2>4. CASE GetNonce(t)
      <3> DEFINE n == account[h.chain][h.address].nonce
      <3>1. sends' = [sends EXCEPT ![t] = [h EXCEPT !.step = "sign", !.nonce = n]]
        BY Zenon, <2>4 DEF GetNonce
      <3>2. n \in Nat
        <4>1. h.chain \in Chains /\ h.address \in Keys /\ account[h.chain][h.address] # Absent
          BY Zenon, <1>1, <2>4 DEF GetNonce, HandlerOK, Handlers
        <4>2. account[h.chain][h.address] \in Storage
          BY <4>1 DEF Inv, AccountInv, AccountTypeOK
        <4> QED BY <4>2 DEF Storage
      <3>3. HandlerOK([h EXCEPT !.step = "sign", !.nonce = n])
        <4> HIDE DEF n
        <4> QED BY Zenon, <1>1, <2>4, <3>2 DEF GetNonce, HandlerOK, Handlers
      <3> QED BY Zenon, <3>1, <3>3
    <2> QED BY <2>1, <2>2, <2>3, <2>4 DEF GetBytecode
  <1>3. sends' \in Seq(Handlers) /\ \A u \in 1..Len(sends') : HandlerOK(sends'[u])
    BY Zenon, <1>1, <1>2, Replaced
  <1>4. AppTypeOK' /\ SheetOwned' /\ UNCHANGED accountVars
    BY <1>1, <1>3 DEF GetBytecode, GetNonce, AppInv, AppTypeOK, SheetOwned
  <1> QED BY Zenon, <1>3, <1>4, SendsOK

\* What is signed and posted is an operation of the contracts.
LEMMA UserOpType ==
    ASSUME Nonces = Nat, NEW h, HandlerOK(h), h.step = "sign"
    PROVE  [chain |-> h.chain, ep |-> AppEntryPoint[h.chain], op |-> UserOp(h)]
               \in [chain: Chains, ep: EntryPoints, op: Operations]
  <1> DEFINE body == [sender |-> h.address, nonce |-> h.nonce, initCode |-> h.initCode,
                      value |-> h.value]
             sig == [key |-> h.keyName, chain |-> h.chain,
                     entryPoint |-> AppEntryPoint[h.chain], body |-> body]
  <1>1. /\ h.keyName \in Keys /\ h.address \in Keys /\ h.chain \in Chains
        /\ h.nonce \in Nonces /\ h.initCode \in Keys \cup {NoInit} /\ h.value \in Values
    BY DEF HandlerOK, Handlers
  <1>2. AppEntryPoint[h.chain] \in EntryPoints
    BY <1>1, AppAssumption
  <1>3. body \in Bodies
    BY <1>1 DEF Bodies
  <1> HIDE DEF body
  <1>4. sig \in Signatures
    BY <1>1, <1>2, <1>3 DEF Signatures
  <1> HIDE DEF sig
  <1>5. [body |-> body, sig |-> sig] \in Operations
    BY Zenon, <1>3, <1>4 DEF Operations
  <1>6. UserOp(h) = [body |-> body, sig |-> sig]
    BY DEF UserOp, body, sig
  <1>7. UserOp(h) \in Operations
    BY <1>5, <1>6
  <1> HIDE DEF Operations, UserOp
  <1> QED BY <1>1, <1>2, <1>7

LEMMA PostStep ==
    ASSUME AppInv, Nonces = Nat, NEW t \in 1..Len(sends), Post(t)
    PROVE  AppInv' /\ UNCHANGED accountVars
  <1> DEFINE h == sends[t]
             g == [h EXCEPT !.step = "over"]
  <1>1. HandlerOK(h)
    BY HandlersOK
  <1>2. HandlerOK(g) /\ sends' = [sends EXCEPT ![t] = g]
    BY <1>1 DEF HandlerOK, Handlers, Post
  <1>3. sends' \in Seq(Handlers) /\ \A u \in 1..Len(sends') : HandlerOK(sends'[u])
    <2> HIDE DEF g
    <2> QED BY Zenon, <1>2, Replaced
  <1>4. pool' \subseteq [chain: Chains, ep: EntryPoints, op: Operations]
    <2> DEFINE x == [chain |-> h.chain, ep |-> AppEntryPoint[h.chain], op |-> UserOp(h)]
               X == [chain: Chains, ep: EntryPoints, op: Operations]
    <2>1. x \in X /\ pool' = pool \cup {x} /\ pool \subseteq X
      BY <1>1, UserOpType DEF Post, AppInv, AppTypeOK
    <2> HIDE DEF x, X
    <2>2. pool' \subseteq X
      BY <2>1
    <2> QED BY <2>2 DEF X
  <1>5. chain' = chain /\ UNCHANGED accountVars
    BY DEF Post, accountVars
  <1>6. SheetOwned' /\ selected' \in Keys \cup {NoKey} /\ load' \in {"key", "predict", "done"}
    <2>1. CASE Unmount
      BY <2>1 DEF Unmount, SheetOwned
    <2>2. CASE UNCHANGED <<selected, sheet, load>>
      BY <2>2 DEF AppInv, AppTypeOK, SheetOwned
    <2> QED BY <2>1, <2>2 DEF Post
  <1>7. AppTypeOK'
    BY Zenon, <1>3, <1>4, <1>5, <1>6 DEF AppInv, AppTypeOK
  <1> QED BY Zenon, <1>3, <1>5, <1>6, <1>7, SendsOK

\* The app never moves anything on a chain by itself.
LEMMA AppStep ==
    ASSUME Inv, Nonces = Nat, App
    PROVE  AppInv' /\ UNCHANGED accountVars
  BY Zenon, SheetStep, TapStep, ReadStep, PostStep DEF App, Inv

-----------------------------------------------------------------------------
\* A step of the contracts keeps every account the handlers have seen.
LEMMA ContractsStep ==
    ASSUME Inv, NextAccounts, UNCHANGED appVars, pool' \subseteq pool
    PROVE  AppInv'
  <1>1. Stable
    BY Zenon, StableStep DEF Inv
  <1>2. AppTypeOK' /\ SheetOwned' /\ SignsForOpenedWallet'
    BY DEF appVars, Inv, AppInv, AppTypeOK, SheetOwned, SignsForOpenedWallet
  <1>3. SendsReady'
    <2> SUFFICES ASSUME NEW t \in 1..Len(sends)
                 PROVE  /\ sends[t].step \in {"nonce", "sign"} => sends[t].address = sends[t].keyName
                        /\ sends[t].step = "nonce" =>
                               account'[sends[t].chain][sends[t].address] # Absent
      BY DEF SendsReady, appVars
    <2>1. HandlerOK(sends[t])
      BY HandlersOK DEF Inv
    <2> QED BY Zenon, <1>1, <2>1 DEF HandlerOK, Handlers, Stable
  <1> QED BY <1>2, <1>3 DEF AppInv

LEMMA BundlerStep ==
    ASSUME Inv, Ops = Operations, NEW x \in pool, Submit(x) \/ Drop(x)
    PROVE  AppInv' /\ [NextAccounts]_accountVars
  <1>1. x.chain \in Chains /\ x.ep \in EntryPoints /\ x.op \in Ops
    <2>1. x \in [chain: Chains, ep: EntryPoints, op: Operations]
      BY DEF Inv, AppInv, AppTypeOK
    <2> HIDE DEF Operations
    <2> QED BY <2>1
  <1>2. CASE Submit(x)
    <2>1. NextAccounts
      BY <1>1, <1>2 DEF Submit, NextAccounts
    <2> QED BY Zenon, <1>2, <2>1, ContractsStep DEF Submit
  <1>3. CASE Drop(x)
    <2>1. UNCHANGED appVars /\ UNCHANGED accountVars /\ pool' \subseteq pool
      BY Zenon, <1>3 DEF Drop
    <2>2. AppInv'
      BY Zenon, <2>1 DEF appVars, accountVars, Inv, AppInv, AppTypeOK, SheetOwned, SendsReady,
                  SignsForOpenedWallet
    <2> QED BY <2>1, <2>2
  <1> QED BY <1>2, <1>3

\* Every step keeps AppInv and is one of the contracts, or none.
LEMMA StepRefines ==
    ASSUME Ops = Operations, Nonces = Nat, Inv, [Next]_vars
    PROVE  AppInv' /\ [NextAccounts]_accountVars
  <1>1. CASE App
    BY <1>1, AppStep
  <1>2. CASE \E x \in pool : Submit(x) \/ Drop(x)
    BY <1>2, BundlerStep
  <1>3. CASE Others
    <2>1. NextAccounts /\ UNCHANGED appVars /\ pool' = pool
      BY <1>3, AppAssumption DEF Others, NextAccounts
    <2> QED BY <2>1, ContractsStep
  <1>4. CASE UNCHANGED vars
    <2>1. UNCHANGED appVars /\ UNCHANGED accountVars /\ pool' = pool
      BY Zenon, <1>4 DEF vars
    <2>2. AppInv'
      BY <2>1 DEF appVars, accountVars, Inv, AppInv, AppTypeOK, SheetOwned, SendsReady,
                  SignsForOpenedWallet
    <2> QED BY <2>1, <2>2
  <1> QED BY <1>1, <1>2, <1>3, <1>4 DEF Next

\* The app's inductive invariant, with the one of the contracts.
THEOREM TransferInvariant ==
    ASSUME Ops = Operations, Nonces = Nat
    PROVE  Spec => []Inv
  <1>1. Init => Inv
    BY AppInit, InvInit DEF Init, Inv
  <1>2. Inv /\ [Next]_vars => Inv'
    BY StepRefines, InvNext DEF Inv
  <1> QED BY <1>1, <1>2, PTL DEF Spec

\* Transfers from the app are behaviours of the contracts: the app, its
\* bundler and the others do nothing that PixelAccount does not allow.
THEOREM ImplementsContracts ==
    ASSUME Ops = Operations, Nonces = Nat
    PROVE  Spec => AccountSpec
  <1>1. Init => InitAccounts
    BY DEF Init
  <1>2. Inv /\ [Next]_vars => [NextAccounts]_accountVars
    BY StepRefines
  <1> QED BY <1>1, <1>2, TransferInvariant, PTL DEF Spec, AccountSpec

\* A transfer is signed for the wallet whose sheet was open at the tap.
THEOREM SignedForOpenedWallet ==
    ASSUME Ops = Operations, Nonces = Nat
    PROVE  Spec => []SignsForOpenedWallet
  <1>1. Inv => SignsForOpenedWallet
    BY DEF Inv, AppInv
  <1> QED BY <1>1, TransferInvariant, PTL

\* However often the bundler submits it, no posted transfer is executed twice.
THEOREM TransfersExecutedOnce ==
    ASSUME Ops = Operations, Nonces = Nat
    PROVE  Spec => []ExecutedOnce
  BY ImplementsContracts, NoReplay, PTL
-----------------------------------------------------------------------------
\* Handler t is over, and op is what it signed for chain c.
PostedBy(t, c, op) ==
    /\ sends[t].step = "over"
    /\ sends[t].chain = c
    /\ op = UserOp(sends[t])

\* Whatever the bundler has, and whatever was executed, some tap posted.
Traced ==
    /\ \A x \in pool : \E t \in 1..Len(sends) : PostedBy(t, x.chain, x.op)
    /\ \A i \in 1..Len(log) : \E t \in 1..Len(sends) : PostedBy(t, log[i].chain, log[i].op)

\* No step takes back a tap, or changes what a handler that is over has signed.
LEMMA OverIsFinal ==
    ASSUME Inv, Nonces = Nat, [Next]_vars, NEW t \in 1..Len(sends), sends[t].step = "over"
    PROVE  t \in 1..Len(sends') /\ sends'[t] = sends[t]
  <1>1. sends \in Seq(Handlers)
    BY DEF Inv, AppInv, AppTypeOK
  <1>2. CASE UNCHANGED sends
    BY <1>2
  <1>3. CASE \E v \in Values : TapTransfer(v)
    <2>1. PICK h : sends' = Append(sends, h)
      BY <1>3 DEF TapTransfer
    <2> HIDE DEF Handlers
    <2> QED BY <1>1, <2>1
  <1>4. CASE \E u \in 1..Len(sends) : GetBytecode(u) \/ GetNonce(u) \/ Post(u)
    <2>1. PICK u \in 1..Len(sends) : GetBytecode(u) \/ GetNonce(u) \/ Post(u)
      BY Zenon, <1>4
    <2>2. u # t
      BY Zenon, <2>1 DEF GetBytecode, GetNonce, Post
    <2>3. \E g : sends' = [sends EXCEPT ![u] = g]
      BY Zenon, <2>1 DEF GetBytecode, GetNonce, Post
    <2> HIDE DEF Handlers
    <2> QED BY <1>1, <2>2, <2>3
  <1>5. \/ UNCHANGED sends
        \/ \E v \in Values : TapTransfer(v)
        \/ \E u \in 1..Len(sends) : GetBytecode(u) \/ GetNonce(u) \/ Post(u)
    BY Zenon DEF Next, App, SelectChain, OpenSheet, CloseSheet, LoadKey, LoadAddress, Submit, Drop,
           Others, appVars, vars
  <1> QED BY Zenon, <1>2, <1>3, <1>4, <1>5

LEMMA TracedStays ==
    ASSUME Inv, Nonces = Nat, [Next]_vars, NEW c, NEW op,
           \E t \in 1..Len(sends) : PostedBy(t, c, op)
    PROVE  \E t \in 1..Len(sends') : PostedBy(t, c, op)'
  <1>1. PICK t \in 1..Len(sends) : PostedBy(t, c, op)
    OBVIOUS
  <1>2. t \in 1..Len(sends') /\ sends'[t] = sends[t]
    BY Zenon, <1>1, OverIsFinal DEF PostedBy
  <1>3. PostedBy(t, c, op)'
    BY <1>1, <1>2 DEF PostedBy, UserOp
  <1> QED BY <1>2, <1>3

\* The operation Post gives the bundler is the handler's own, and it is over.
LEMMA PostTraced ==
    ASSUME Inv, Nonces = Nat, NEW t \in 1..Len(sends), Post(t), NEW z,
           z = [chain |-> sends[t].chain, ep |-> AppEntryPoint[sends[t].chain],
                op |-> UserOp(sends[t])]
    PROVE  /\ t \in 1..Len(sends') /\ PostedBy(t, z.chain, z.op)'
           /\ pool' = pool \cup {z} /\ log' = log
  <1> DEFINE h == sends[t]
             g == [h EXCEPT !.step = "over"]
  <1>1. sends \in Seq(Handlers) /\ h \in Handlers
    <2>1. HandlerOK(h)
      BY HandlersOK DEF Inv
    <2> QED BY Zenon, <2>1 DEF HandlerOK, Inv, AppInv, AppTypeOK
  <1>2. sends' = [sends EXCEPT ![t] = g]
    BY DEF Post
  <1>3. t \in 1..Len(sends') /\ sends'[t] = g
    <2>1. g \in Handlers
      <3>1. PICK f : f = h
        BY Zenon
      <3>2. f \in Handlers /\ g = [f EXCEPT !.step = "over"]
        BY Zenon, <1>1, <3>1
      <3>3. [f EXCEPT !.step = "over"] \in Handlers
        BY <3>2 DEF Handlers
      <3> QED BY Zenon, <3>2, <3>3
    <2>2. PICK H, s, e : H = Handlers /\ s = sends /\ e = g
      BY Zenon
    <2>3. s \in Seq(H) /\ t \in 1..Len(s) /\ e \in H
      BY Zenon, <1>1, <2>1, <2>2
    <2>4. PICK u : u = [s EXCEPT ![t] = e]
      BY Zenon
    <2>5. Len(u) = Len(s) /\ u[t] = e
      <3>1. Replaces(u, s, t, e, H)
        BY Zenon, <2>3, <2>4 DEF Replaces
      <3>2. Placed(u, s, t, e)
        BY Zenon, <3>1, ReplacedPlaced
      <3> QED BY Zenon, <3>2 DEF Placed
    <2> QED BY Zenon, <1>2, <2>2, <2>3, <2>4, <2>5
  <1>4. g.step = "over" /\ g.chain = h.chain /\ UserOp(g) = UserOp(h)
    <2>1. PICK f : f = h
      BY Zenon
    <2>2. f \in Handlers
      BY Zenon, <1>1, <2>1
    <2> HIDE DEF h
    <2> QED BY <2>1, <2>2 DEF Handlers, UserOp
  <1>5. z.chain = h.chain /\ z.op = UserOp(h)
    BY Zenon
  <1>6. PostedBy(t, z.chain, z.op)'
    <2>1. UserOp(sends[t])' = UserOp(g)
      BY <1>3 DEF UserOp
    <2>2. sends'[t].step = "over" /\ sends'[t].chain = z.chain
      BY <1>3, <1>4, <1>5
    <2>3. z.op = UserOp(sends[t])'
      BY <1>4, <1>5, <2>1
    <2> QED BY <2>2, <2>3 DEF PostedBy
  <1> QED BY Zenon, <1>3, <1>6 DEF Post, accountVars

LEMMA TracedNext ==
    ASSUME Inv, Ops = Operations, Nonces = Nat, Traced, [Next]_vars
    PROVE  Traced'
  <1>1. \/ pool' \subseteq pool /\ log' = log
        \/ \E t \in 1..Len(sends) : Post(t)
        \/ \E x \in pool : Submit(x)
    BY Zenon DEF Next, App, SelectChain, OpenSheet, CloseSheet, LoadKey, LoadAddress, TapTransfer,
           GetBytecode, GetNonce, Drop, Others, FactoryCreate, appVars, accountVars, vars
  <1>2. CASE pool' \subseteq pool /\ log' = log
    <2>1. \A x \in pool' : \E t \in 1..Len(sends') : PostedBy(t, x.chain, x.op)'
      BY Zenon, <1>2, TracedStays DEF Traced
    <2>2. \A i \in 1..Len(log') :
              \E t \in 1..Len(sends') : PostedBy(t, log[i].chain, log[i].op)'
      BY Zenon, <1>2, TracedStays DEF Traced
    <2> QED BY Zenon, <1>2, <2>1, <2>2 DEF Traced, PostedBy
  <1>3. CASE \E t \in 1..Len(sends) : Post(t)
    <2>1. PICK t \in 1..Len(sends) : Post(t)
      BY <1>3
    <2>0. PICK z : z = [chain |-> sends[t].chain, ep |-> AppEntryPoint[sends[t].chain],
                        op |-> UserOp(sends[t])]
      BY Zenon
    <2>2. /\ t \in 1..Len(sends') /\ PostedBy(t, z.chain, z.op)'
          /\ pool' = pool \cup {z} /\ log' = log
      BY <2>1, <2>0, PostTraced
    <2>3. \A x \in pool' : \E u \in 1..Len(sends') : PostedBy(u, x.chain, x.op)'
      <3> SUFFICES ASSUME NEW x \in pool'
                   PROVE  \E u \in 1..Len(sends') : PostedBy(u, x.chain, x.op)'
        OBVIOUS
      <3>1. CASE x \in pool
        BY <3>1, TracedStays DEF Traced
      <3>2. CASE x = z
        BY Zenon, <2>2, <3>2
      <3> QED BY Zenon, <2>2, <3>1, <3>2
    <2>4. \A i \in 1..Len(log) :
              \E u \in 1..Len(sends') : PostedBy(u, log[i].chain, log[i].op)'
      BY Zenon, <2>2, TracedStays DEF Traced
    <2> QED BY Zenon, <2>2, <2>3, <2>4 DEF Traced, PostedBy
  <1>4. CASE \E x \in pool : Submit(x)
    <2>1. PICK x \in pool : Submit(x)
      BY <1>4
    <2>2. PICK ok : log' = Append(log, [chain |-> x.chain, op |-> x.op, ok |-> ok])
      BY Zenon, <2>1 DEF Submit, HandleOp
    <2> DEFINE n == Len(log)
    <2>3. /\ n \in Nat /\ Len(log') = n + 1 /\ \A i \in 1..n : log'[i] = log[i]
          /\ log'[n + 1].chain = x.chain /\ log'[n + 1].op = x.op
      <3>1. log \in Seq(Entries)
        BY DEF Inv, AccountInv, AccountTypeOK, Entries
      <3> HIDE DEF Entries
      <3>2. /\ n \in Nat /\ Len(log') = n + 1 /\ \A i \in 1..n : log'[i] = log[i]
            /\ log'[n + 1] = [chain |-> x.chain, op |-> x.op, ok |-> ok]
        BY <2>2, <3>1
      <3> QED BY <3>2
    <2>4. \A i \in 1..Len(log') :
              \E t \in 1..Len(sends') : PostedBy(t, log[i].chain, log[i].op)'
      <3> SUFFICES ASSUME NEW i \in 1..Len(log')
                   PROVE  \E t \in 1..Len(sends') : PostedBy(t, log[i].chain, log[i].op)'
        OBVIOUS
      <3>1. CASE i \in 1..n
        <4>1. PICK c, op : c = log[i].chain /\ op = log[i].op
          BY Zenon
        <4>2. \E t \in 1..Len(sends') : PostedBy(t, c, op)'
          BY <3>1, <4>1, TracedStays DEF Traced
        <4> QED BY Zenon, <2>3, <3>1, <4>1, <4>2 DEF PostedBy
      <3>2. CASE i = n + 1
        <4>1. \E t \in 1..Len(sends') : PostedBy(t, x.chain, x.op)'
          BY TracedStays DEF Traced
        <4> QED BY Zenon, <2>3, <3>2, <4>1 DEF PostedBy
      <3> QED BY <2>3, <3>1, <3>2
    <2>5. pool' = pool
      BY <2>1 DEF Submit
    <2>6. \A y \in pool : \E t \in 1..Len(sends') : PostedBy(t, y.chain, y.op)'
      BY TracedStays DEF Traced
    <2> QED BY <2>4, <2>5, <2>6 DEF Traced, PostedBy
  <1> QED BY Zenon, <1>1, <1>2, <1>3, <1>4

\* Executions are traced to taps one by one, so there are no more of them.
LEMMA PaidByTaps ==
    ASSUME Inv, Traced
    PROVE  TapPaysAtMostOnce
  <1> SUFFICES ASSUME NEW c \in Chains, NEW k \in Keys, NEW v \in Values
               PROVE  Cardinality(Executions(c, k, v)) <= Cardinality(Taps(c, k, v))
    BY DEF TapPaysAtMostOnce
  <1> DEFINE S == Executions(c, k, v)
             T == Taps(c, k, v)
             tap == [i \in S |-> CHOOSE t \in 1..Len(sends) : PostedBy(t, log[i].chain, log[i].op)]
  <1>1. ASSUME NEW i \in S
        PROVE  tap[i] \in 1..Len(sends) /\ PostedBy(tap[i], log[i].chain, log[i].op)
    <2>1. \E t \in 1..Len(sends) : PostedBy(t, log[i].chain, log[i].op)
      BY Zenon DEF Traced, Executions
    <2> HIDE DEF PostedBy
    <2> QED BY Zenon, <2>1
  <1> HIDE DEF tap
  <1>2. ASSUME NEW i \in S
        PROVE  tap[i] \in T
    <2>1. /\ i \in 1..Len(log)
          /\ log[i].chain = c /\ log[i].op.body.sender = k /\ log[i].op.body.value = v
      BY Zenon DEF Executions
    <2>2. log[i].op.sig = [key |-> k, chain |-> c, entryPoint |-> Deployed, body |-> log[i].op.body]
      BY Zenon, <2>1 DEF Inv, AccountInv, SignedByOwner
    <2>3. log[i].op.sig.key = sends[tap[i]].keyName /\ log[i].op.body.value = sends[tap[i]].value
      <3>1. log[i].op = UserOp(sends[tap[i]])
        BY <1>1 DEF PostedBy
      <3>2. /\ UserOp(sends[tap[i]]).sig.key = sends[tap[i]].keyName
            /\ UserOp(sends[tap[i]]).body.value = sends[tap[i]].value
        BY Zenon DEF UserOp
      <3> QED BY Zenon, <3>1, <3>2
    <2>4. sends[tap[i]].keyName = k
      <3>1. PICK b, g : /\ b = log[i].op.body /\ g = log[i].op.sig
                        /\ g = [key |-> k, chain |-> c, entryPoint |-> Deployed, body |-> b]
        BY Zenon, <2>2
      <3>2. g.key = k
        BY <3>1
      <3> QED BY Zenon, <2>3, <3>1, <3>2
    <2> QED BY Zenon, <1>1, <2>1, <2>3, <2>4 DEF Taps, PostedBy
  <1>3. ASSUME NEW i \in S, NEW j \in S, tap[i] = tap[j]
        PROVE  i = j
    <2>1. log[i].op = log[j].op
      BY <1>1, <1>3 DEF PostedBy
    <2>2. ExecutedOnce
      BY NeverTwice DEF Inv
    <2> QED BY Zenon, <2>1, <2>2 DEF ExecutedOnce, Executions
  <1>4. tap \in Injection(S, T)
    <2>1. tap \in [S -> T]
      BY Zenon, <1>2 DEF tap
    <2> HIDE DEF S, T
    <2> QED BY <1>3, <2>1 DEF Injection, IsInjective
  <1>5. IsFiniteSet(T)
    <2>1. Len(sends) \in Nat
      BY DEF Inv, AppInv, AppTypeOK
    <2>2. IsFiniteSet(1..Len(sends)) /\ T \subseteq 1..Len(sends)
      BY <2>1, FS_Interval DEF Taps
    <2> QED BY <2>2, FS_Subset
  <1> HIDE DEF S, T
  <1>6. Cardinality(S) <= Cardinality(T)
    BY <1>4, <1>5, FS_Injection
  <1> QED BY <1>6 DEF S, T

\* Every executed transfer has a tap of its own: neither equal taps, stale
\* nonces, lost answers nor a bundler that submits again and again make one
\* that the user did not ask for.
THEOREM TapsArePaidOnce ==
    ASSUME Ops = Operations, Nonces = Nat
    PROVE  Spec => []TapPaysAtMostOnce
  <1>1. Init => Traced
    BY DEF Init, InitAccounts, Traced
  <1>2. Inv /\ Traced /\ [Next]_vars => Traced'
    BY TracedNext
  <1>3. Inv /\ Traced => TapPaysAtMostOnce
    BY PaidByTaps
  <1> QED BY <1>1, <1>2, <1>3, TransferInvariant, PTL DEF Spec

----------------------------------------------------------------------------
(* The wallet list.                                                        *)

Request == [op : {"read", "write"}, list : Seq(Names), done : BOOLEAN]
Load == [chain : ChainIds, step : {"key", "predict", "balance", "done"}]

ListTypeOK ==
    /\ accounts \in Seq(Names) /\ storage \in Seq(Names) /\ requests \in Seq(Request)
    /\ kept \subseteq Names /\ raced \in BOOLEAN

\* Only the oldest request is done, and then storage holds its list.
RequestsInOrder ==
    \A i \in 1..Len(requests) : requests[i].done => i = 1 /\ requests[i].list = storage

\* Without a tap in a race there is one request at most, and names that were
\* shown are in what a write holds, and in what is shown between requests.
NamesCarried ==
    ~raced =>
      /\ Len(requests) <= 1
      /\ requests = <<>> => kept \subseteq Range(accounts)
      /\ requests # <<>> /\ requests[1].op = "write" => kept \subseteq Range(requests[1].list)

ListInv == ListTypeOK /\ RequestsInOrder /\ NamesCarried /\ WalletsKept /\ ShownIsStored

ItemTypeOK ==
    /\ loads \in Seq(Load) /\ Len(loads) > 0
    /\ chainId = loads[Len(loads)].chain /\ overtaken \in BOOLEAN

\* The balance is the one of the latest load that has come back.
LatestShown ==
    \A i \in 1..Len(loads) :
      /\ ~overtaken /\ loads[i].step = "done"
      /\ \A j \in i+1..Len(loads) : loads[j].step # "done"
      => balance = loads[i].chain

ItemInv == ItemTypeOK /\ LatestShown

-----------------------------------------------------------------------------
(* Sequences.                                                              *)

\* A name of a list is at a position of it.
LEMMA NameHasPosition ==
    ASSUME NEW S, NEW q \in Seq(S), NEW x \in Range(q)
    PROVE  \E i \in 1..Len(q) : x = q[i]
<1>1. PICK i \in DOMAIN q : x = q[i]
    BY Zenon DEF Range
<1>2. DOMAIN q = 1..Len(q)
    OBVIOUS
<1>. QED
    BY <1>1, <1>2

\* The names of a list are names.
LEMMA RangeInType ==
    ASSUME NEW S, NEW q \in Seq(S)
    PROVE  Range(q) \subseteq S
<1>. SUFFICES ASSUME NEW x \in Range(q) PROVE x \in S
    OBVIOUS
<1>1. PICK i \in 1..Len(q) : x = q[i]
    BY NameHasPosition
<1>. QED
    BY <1>1

\* An appended name is added to those of the list.
LEMMA RangeOfAppend ==
    ASSUME NEW S, NEW q \in Seq(S), NEW e \in S
    PROVE  Range(q) \subseteq Range(Append(q, e))
<1>. SUFFICES ASSUME NEW x \in Range(q) PROVE x \in Range(Append(q, e))
    OBVIOUS
<1>1. PICK i \in 1..Len(q) : x = q[i]
    BY NameHasPosition
<1>2. i \in DOMAIN Append(q, e) /\ x = Append(q, e)[i]
    BY <1>1
<1>. QED
    BY <1>2 DEF Range

\* The empty list has no names.
LEMMA RangeOfEmpty == Range(<<>>) = {}
    BY DEF Range

-----------------------------------------------------------------------------
(* The list.                                                               *)

\* The app is started for the first time.
LEMMA ListInitial == ListInit => ListInv
<1>. SUFFICES ASSUME ListInit PROVE ListInv
    OBVIOUS
<1>1. /\ accounts = <<>> /\ storage = Stored /\ requests = <<ReadRequest>>
      /\ kept = Range(Stored) /\ raced = FALSE
    BY DEF ListInit
<1>2. Stored \in Seq(Names) /\ Range(Stored) \subseteq Names
  <2>1. Stored \in Seq(Names)
    BY ListAssumption
  <2>. QED
    BY <2>1, RangeInType
<1>3. ReadRequest \in Request /\ ~ReadRequest.done /\ ReadRequest.op = "read"
    BY DEF ReadRequest, Request
<1>4. requests \in Seq(Request) /\ Len(requests) = 1 /\ requests[1] = ReadRequest
    BY <1>1, <1>3
<1>5. ListTypeOK
  <2>1. accounts \in Seq(Names)
    BY <1>1
  <2>. QED
    BY Zenon, <2>1, <1>1, <1>2, <1>4 DEF ListTypeOK
<1>6. RequestsInOrder
    BY <1>3, <1>4 DEF RequestsInOrder
<1>7. NamesCarried
    BY <1>1, <1>3, <1>4 DEF NamesCarried
<1>8. WalletsKept
    BY <1>1 DEF WalletsKept
<1>9. ShownIsStored
    BY <1>1, RangeOfEmpty DEF ShownIsStored
<1>. QED
    BY Zenon, <1>5, <1>6, <1>7, <1>8, <1>9 DEF ListInv

\* A tap.
LEMMA NewWalletStep ==
    ASSUME ListInv, NEW slug \in Names, NewWallet(slug)
    PROVE  ListInv'
<1>. DEFINE r == WriteRequest(Append(accounts, slug))
<1>1. /\ requests' = Append(requests, r) /\ accounts' = accounts
      /\ raced' = (raced \/ requests # <<>>) /\ storage' = storage /\ kept' = kept
    BY DEF NewWallet, WithNew, ShowLater
<1>2. /\ accounts \in Seq(Names) /\ storage \in Seq(Names) /\ requests \in Seq(Request)
      /\ kept \subseteq Names /\ raced \in BOOLEAN
    BY DEF ListInv, ListTypeOK
<1>3. Append(accounts, slug) \in Seq(Names)
    BY <1>2
<1>4. r \in Request /\ ~r.done /\ r.list = Append(accounts, slug) /\ r.op = "write"
    BY Zenon, <1>3 DEF WriteRequest, Request
<1>. HIDE DEF r
<1>5. /\ requests' \in Seq(Request) /\ Len(requests') = Len(requests) + 1
      /\ \A i \in 1..Len(requests) : requests'[i] = requests[i]
      /\ requests'[Len(requests) + 1] = r
    BY <1>1, <1>2, <1>4
<1>6. ListTypeOK'
    BY Zenon, <1>1, <1>2, <1>5 DEF ListTypeOK
<1>7. RequestsInOrder'
  <2>. SUFFICES ASSUME NEW i \in 1..Len(requests'), requests'[i].done
                PROVE  i = 1 /\ requests'[i].list = storage
    BY Zenon, <1>1 DEF RequestsInOrder
  <2>1. i \in 1..Len(requests)
    BY <1>2, <1>4, <1>5
  <2>. QED
    BY Zenon, <2>1, <1>5 DEF ListInv, RequestsInOrder
<1>8. NamesCarried'
  <2>. SUFFICES ASSUME ~raced, requests = <<>>
                PROVE  /\ Len(requests') <= 1 /\ requests' # <<>>
                       /\ kept \subseteq Range(requests'[1].list)
    BY Zenon, <1>1 DEF NamesCarried
  <2>1. Len(requests') = 1 /\ requests'[1] = r
    BY <1>5
  <2>2. kept \subseteq Range(accounts)
    BY DEF ListInv, NamesCarried
  <2>3. Range(accounts) \subseteq Range(r.list)
    BY <1>2, <1>4, RangeOfAppend
  <2>. QED
    BY <2>1, <2>2, <2>3, <1>5
<1>9. WalletsKept'
    BY Zenon, <1>1 DEF ListInv, WalletsKept
<1>10. ShownIsStored'
  <2>1. ~requests'[1].done => requests = <<>> \/ ~requests[1].done
    BY <1>2, <1>5
  <2>2. requests' # <<>> /\ Head(requests') = requests'[1]
    BY <1>2, <1>5
  <2>3. requests # <<>> => Head(requests) = requests[1]
    BY <1>2
  <2>. QED
    BY Zenon, <2>1, <2>2, <2>3, <1>1 DEF ListInv, ShownIsStored
<1>. QED
    BY Zenon, <1>6, <1>7, <1>8, <1>9, <1>10 DEF ListInv

\* Storage performs a request.
LEMMA PerformStep ==
    ASSUME ListInv, Perform
    PROVE  ListInv'
<1>1. /\ accounts \in Seq(Names) /\ storage \in Seq(Names) /\ requests \in Seq(Request)
      /\ kept \subseteq Names /\ raced \in BOOLEAN
    BY DEF ListInv, ListTypeOK
<1>2. /\ requests # <<>> /\ Len(requests) > 0 /\ Head(requests) = requests[1]
      /\ requests[1] \in Request /\ ~requests[1].done
    BY <1>1 DEF Perform
<1>3. accounts' = accounts /\ raced' = raced /\ kept' = kept
    BY DEF Perform
<1>4. /\ requests' \in Seq(Request) /\ Len(requests') = Len(requests)
      /\ requests'[1].done /\ requests'[1].list = storage' /\ storage' \in Seq(Names)
      /\ requests'[1].op = requests[1].op
      /\ \A i \in 2..Len(requests) : requests'[i] = requests[i]
  <2>1. CASE Head(requests).op = "read"
    <3>1. /\ requests' = [requests EXCEPT ![1].done = TRUE, ![1].list = storage]
          /\ storage' = storage
      BY Zenon, <2>1 DEF Perform
    <3>. DEFINE q == [requests[1] EXCEPT !.done = TRUE, !.list = storage]
    <3>2. q \in Request /\ q.done /\ q.list = storage /\ q.op = requests[1].op
      BY Zenon, <1>1, <1>2 DEF Request
    <3>3. requests' = [requests EXCEPT ![1] = q]
      BY Zenon, <3>1, <1>1, <1>2
    <3>. HIDE DEF q
    <3>4. /\ requests' \in Seq(Request) /\ Len(requests') = Len(requests)
          /\ requests'[1] = q
          /\ \A i \in 1..Len(requests) : i # 1 => requests'[i] = requests[i]
      <4>1. 1 \in 1..Len(requests)
        BY <1>1, <1>2
      <4>. QED
        BY <4>1, <3>2, <3>3, <1>1, ReplaceElement
    <3>5. \A i \in 2..Len(requests) : i \in 1..Len(requests) /\ i # 1
      BY <1>1
    <3>. QED
      BY Zenon, <3>1, <3>2, <3>4, <3>5, <1>1
  <2>2. CASE Head(requests).op = "write"
    <3>1. requests' = [requests EXCEPT ![1].done = TRUE] /\ storage' = requests[1].list
      BY <2>2, <1>2 DEF Perform
    <3>. DEFINE q == [requests[1] EXCEPT !.done = TRUE]
    <3>2. /\ q \in Request /\ q.done /\ q.list = requests[1].list /\ q.op = requests[1].op
          /\ requests[1].list \in Seq(Names)
      BY Zenon, <1>1, <1>2 DEF Request
    <3>3. requests' = [requests EXCEPT ![1] = q]
      BY Zenon, <3>1, <1>1, <1>2
    <3>. HIDE DEF q
    <3>4. /\ requests' \in Seq(Request) /\ Len(requests') = Len(requests)
          /\ requests'[1] = q
          /\ \A i \in 1..Len(requests) : i # 1 => requests'[i] = requests[i]
      <4>1. 1 \in 1..Len(requests)
        BY <1>1, <1>2
      <4>. QED
        BY <4>1, <3>2, <3>3, <1>1, ReplaceElement
    <3>5. \A i \in 2..Len(requests) : i \in 1..Len(requests) /\ i # 1
      BY <1>1
    <3>. QED
      BY Zenon, <3>1, <3>2, <3>4, <3>5, <1>1
  <2>. QED
    BY <2>1, <2>2 DEF Perform
<1>5. ListTypeOK'
    BY Zenon, <1>1, <1>3, <1>4 DEF ListTypeOK
<1>6. RequestsInOrder'
  <2>. SUFFICES ASSUME NEW i \in 1..Len(requests'), requests'[i].done
                PROVE  i = 1 /\ requests'[i].list = storage'
    BY DEF RequestsInOrder
  <2>1. i # 1 => i \in 2..Len(requests) /\ i \in 1..Len(requests)
    BY <1>1, <1>4
  <2>2. i = 1
    BY <2>1, <1>4 DEF ListInv, RequestsInOrder
  <2>. QED
    BY <2>2, <1>4
<1>7. ~raced => kept \subseteq Range(storage')
  <2>1. requests[1].op = "read" => storage' = storage
    BY <1>2 DEF Perform
  <2>2. requests[1].op = "write" => storage' = requests[1].list
    BY <1>2 DEF Perform
  <2>3. requests[1].op \in {"read", "write"}
    BY <1>2 DEF Request
  <2>. QED
    BY Zenon, <2>1, <2>2, <2>3, <1>2 DEF ListInv, WalletsKept, NamesCarried
<1>8. NamesCarried'
  <2>1. ~raced => Len(requests) <= 1
    BY DEF ListInv, NamesCarried
  <2>. QED
    BY <2>1, <1>2, <1>3, <1>4, <1>7 DEF NamesCarried
<1>9. WalletsKept'
    BY <1>3, <1>7 DEF WalletsKept
<1>10. ShownIsStored'
  <2>1. requests' # <<>> /\ Head(requests') = requests'[1]
    BY <1>2, <1>4
  <2>. QED
    BY Zenon, <2>1, <1>4 DEF ShownIsStored
<1>. QED
    BY Zenon, <1>5, <1>6, <1>8, <1>9, <1>10 DEF ListInv

\* A sequence of length 0 is empty.
LEMMA NoLength ==
    ASSUME NEW S, NEW s \in Seq(S), Len(s) = 0
    PROVE  s = <<>>
  OBVIOUS

\* An await returns.
LEMMA ResumeStep ==
    ASSUME ListInv, Resume
    PROVE  ListInv'
<1>1. /\ accounts \in Seq(Names) /\ storage \in Seq(Names) /\ requests \in Seq(Request)
      /\ kept \subseteq Names /\ raced \in BOOLEAN
    BY DEF ListInv, ListTypeOK
<1>2. /\ requests # <<>> /\ Len(requests) > 0 /\ Head(requests) = requests[1]
      /\ requests[1] \in Request /\ requests[1].done
    BY <1>1 DEF Resume
<1>3. requests[1].list = storage
    BY <1>1, <1>2 DEF ListInv, RequestsInOrder
<1>4. /\ accounts' = storage /\ storage' = storage /\ raced' = raced
      /\ kept' = kept \cup Range(storage) /\ requests' = Tail(requests)
    BY <1>2, <1>3 DEF Resume
<1>5. Range(storage) \subseteq Names
    BY Zenon, <1>1, RangeInType
<1>6. /\ requests' \in Seq(Request) /\ Len(requests') = Len(requests) - 1
      /\ \A i \in 1..Len(requests') : requests'[i] = requests[i + 1]
    BY <1>1, <1>2, <1>4
<1>7. \A i \in 1..Len(requests') : ~requests'[i].done
  <2>. SUFFICES ASSUME NEW i \in 1..Len(requests') PROVE ~requests[i + 1].done
    BY <1>6
  <2>1. i + 1 \in 1..Len(requests) /\ i + 1 # 1
    BY <1>1, <1>6
  <2>. QED
    BY <2>1 DEF ListInv, RequestsInOrder
<1>8. ListTypeOK'
    BY Zenon, <1>1, <1>4, <1>5, <1>6 DEF ListTypeOK
<1>9. RequestsInOrder'
    BY <1>7 DEF RequestsInOrder
<1>10. ~raced => kept' \subseteq Range(storage)
    BY <1>4 DEF ListInv, WalletsKept
<1>11. NamesCarried'
  <2>1. ~raced => Len(requests') = 0
    BY <1>1, <1>2, <1>6 DEF ListInv, NamesCarried
  <2>2. ~raced => requests' = <<>>
    BY Zenon, <1>6, <2>1, NoLength
  <2>3. ~raced => Len(requests') <= 1
    BY <2>1
  <2>. QED
    BY Zenon, <2>2, <2>3, <1>4, <1>10 DEF NamesCarried
<1>12. WalletsKept'
    BY <1>4, <1>10 DEF WalletsKept
<1>13. ShownIsStored'
    BY Zenon, <1>4 DEF ShownIsStored
<1>. QED
    BY Zenon, <1>8, <1>9, <1>11, <1>12, <1>13 DEF ListInv

\* The app starts again.
LEMMA RestartStep ==
    ASSUME ListInv, Restart
    PROVE  ListInv'
<1>1. /\ accounts' = <<>> /\ requests' = <<ReadRequest>>
      /\ storage' = storage /\ raced' = raced /\ kept' = kept
    BY DEF Restart, StartReading
<1>2. ReadRequest \in Request /\ ~ReadRequest.done /\ ReadRequest.op = "read"
    BY DEF ReadRequest, Request
<1>3. requests' \in Seq(Request) /\ Len(requests') = 1 /\ requests'[1] = ReadRequest
    BY <1>1, <1>2
<1>4. ListTypeOK'
    BY <1>1, <1>3 DEF ListInv, ListTypeOK
<1>5. RequestsInOrder'
    BY <1>2, <1>3 DEF RequestsInOrder
<1>6. NamesCarried'
    BY <1>1, <1>2, <1>3 DEF NamesCarried
<1>7. WalletsKept'
    BY <1>1 DEF ListInv, WalletsKept
<1>8. ShownIsStored'
    BY <1>1, RangeOfEmpty DEF ShownIsStored
<1>. QED
    BY <1>4, <1>5, <1>6, <1>7, <1>8 DEF ListInv

\* The list's invariant holds in every behaviour.
THEOREM ListInvariant == ListSpec => []ListInv
<1>1. ListInv /\ [ListNext]_allVars => ListInv'
  <2>. SUFFICES ASSUME ListInv, [ListNext]_allVars PROVE ListInv'
    OBVIOUS
  <2>1. ASSUME NEW slug \in Names, NewWallet(slug) PROVE ListInv'
    BY <2>1, NewWalletStep
  <2>2. CASE Perform
    BY <2>2, PerformStep
  <2>3. CASE Resume
    BY Zenon, <2>3, ResumeStep
  <2>4. CASE Restart
    BY <2>4, RestartStep
  <2>5. ASSUME UNCHANGED listVars PROVE ListInv'
    BY <2>5 DEF listVars, ListInv, ListTypeOK, RequestsInOrder, NamesCarried, WalletsKept,
                ShownIsStored
  <2>6. ASSUME NEW c \in ChainIds, SetChain(c) PROVE ListInv'
    BY <2>5, <2>6 DEF SetChain
  <2>7. ASSUME NEW i \in 1..Len(loads), LoadStep(i) PROVE ListInv'
    BY <2>5, <2>7 DEF LoadStep
  <2>8. CASE UNCHANGED allVars
    BY Zenon, <2>5, <2>8 DEF allVars
  <2>. QED
    BY Zenon, <2>1, <2>2, <2>3, <2>4, <2>6, <2>7, <2>8 DEF ListNext
<1>. QED
    BY ListInitial, <1>1, PTL DEF ListSpec

\* No wallet the user has seen is lost from storage, for any taps, requests and
\* restarts of the app, unless a tap came while a request was under way.
THEOREM NamesNeverLost == ListSpec => []WalletsKept
<1>1. ListInv => WalletsKept
    BY Zenon DEF ListInv
<1>. QED
    BY <1>1, ListInvariant, PTL

\* The names shown are in storage, except between a write and its answer.
THEOREM ShownFromStorage == ListSpec => []ShownIsStored
<1>1. ListInv => ShownIsStored
    BY DEF ListInv
<1>. QED
    BY <1>1, ListInvariant, PTL

-----------------------------------------------------------------------------
(* The item.                                                               *)

\* The item is mounted.
LEMMA FirstLoad ==
    ASSUME loads = <<NewLoad(FirstChain)>>, chainId = FirstChain, overtaken = FALSE
    PROVE  ItemInv
<1>1. NewLoad(FirstChain) \in Load /\ NewLoad(FirstChain).step # "done"
    BY ListAssumption DEF NewLoad, Load
<1>2. NewLoad(FirstChain).chain = FirstChain
    BY DEF NewLoad
<1>3. /\ loads \in Seq(Load) /\ Len(loads) = 1 /\ Len(loads) > 0
      /\ loads[1] = NewLoad(FirstChain)
    BY <1>1
<1>4. ItemTypeOK
  <2>1. chainId = loads[Len(loads)].chain
    BY <1>2, <1>3
  <2>2. overtaken \in BOOLEAN
    BY Zenon
  <2>. QED
    BY <2>1, <2>2, <1>3, Zenon DEF ItemTypeOK
<1>5. \A i \in 1..Len(loads) : loads[i].step # "done"
    BY <1>1, <1>3
<1>. QED
    BY Zenon, <1>4, <1>5 DEF ItemInv, LatestShown

\* Another chain is selected.
LEMMA SetChainStep ==
    ASSUME ItemInv, NEW c \in ChainIds, SetChain(c)
    PROVE  ItemInv'
<1>1. /\ loads \in Seq(Load) /\ Len(loads) > 0 /\ overtaken \in BOOLEAN
    BY DEF ItemInv, ItemTypeOK
<1>2. /\ chainId' = c /\ loads' = Append(loads, NewLoad(c))
      /\ balance' = balance /\ overtaken' = overtaken
    BY DEF SetChain, Reload
<1>3. NewLoad(c) \in Load /\ NewLoad(c).step # "done" /\ NewLoad(c).chain = c
    BY DEF NewLoad, Load
<1>4. /\ loads' \in Seq(Load) /\ Len(loads') = Len(loads) + 1
      /\ \A i \in 1..Len(loads) : loads'[i] = loads[i]
      /\ loads'[Len(loads) + 1] = NewLoad(c)
    BY <1>1, <1>2, <1>3
<1>5. ItemTypeOK'
    BY <1>1, <1>2, <1>3, <1>4 DEF ItemTypeOK
<1>6. LatestShown'
  <2>. SUFFICES ASSUME NEW i \in 1..Len(loads'), ~overtaken, loads'[i].step = "done",
                       \A j \in i+1..Len(loads') : loads'[j].step # "done"
                PROVE  balance = loads'[i].chain
    BY Zenon, <1>2 DEF LatestShown
  <2>1. i \in 1..Len(loads) /\ loads'[i] = loads[i]
    BY <1>1, <1>3, <1>4
  <2>2. \A j \in i+1..Len(loads) : j \in i+1..Len(loads') /\ loads'[j] = loads[j]
    BY <1>1, <1>4, <2>1
  <2>. QED
    BY Zenon, <2>1, <2>2 DEF ItemInv, LatestShown
<1>. QED
    BY <1>5, <1>6 DEF ItemInv

\* A load goes on.
LEMMA LoadStepStep ==
    ASSUME ItemInv, NEW i \in 1..Len(loads), LoadStep(i)
    PROVE  ItemInv'
<1>. DEFINE step == loads[i].step
            l == [loads[i] EXCEPT !.step = Following[step]]
<1>1. loads \in Seq(Load) /\ Len(loads) > 0 /\ overtaken \in BOOLEAN
    BY DEF ItemInv, ItemTypeOK
<1>2. step \in {"key", "predict", "balance"} /\ loads[i] \in Load
  <2>1. loads[i] \in Load
    BY <1>1
  <2>2. step # "done"
    BY DEF LoadStep
  <2>. QED
    BY <2>1, <2>2 DEF Load
<1>3. /\ l \in Load /\ l.chain = loads[i].chain
      /\ l.step = "done" <=> step = "balance"
    BY <1>2 DEF Load, Following
<1>4. /\ chainId' = chainId /\ loads' = [loads EXCEPT ![i] = l]
      /\ balance' = IF step = "balance" THEN loads[i].chain ELSE balance
      /\ overtaken' = (overtaken \/ /\ step = "balance"
                                    /\ \E j \in i+1..Len(loads) : loads[j].step = "done")
    BY <1>1 DEF LoadStep
<1>. HIDE DEF l, step
<1>5. /\ loads' \in Seq(Load) /\ Len(loads') = Len(loads) /\ loads'[i] = l
      /\ \A j \in 1..Len(loads) : j # i => loads'[j] = loads[j]
    BY <1>1, <1>3, <1>4
<1>6. ItemTypeOK'
  <2>1. Len(loads) \in 1..Len(loads) /\ chainId = loads[Len(loads)].chain
    BY <1>1 DEF ItemInv, ItemTypeOK
  <2>2. loads'[Len(loads)].chain = loads[Len(loads)].chain
    BY Zenon, <2>1, <1>3, <1>5
  <2>3. overtaken' \in BOOLEAN
    BY Zenon, <1>1, <1>4
  <2>. QED
    BY Zenon, <2>1, <2>2, <2>3, <1>1, <1>4, <1>5 DEF ItemTypeOK
<1>7. LatestShown'
  <2>. SUFFICES ASSUME NEW k \in 1..Len(loads), ~overtaken', loads'[k].step = "done",
                       \A j \in k+1..Len(loads) : loads'[j].step # "done"
                PROVE  balance' = loads'[k].chain
    BY <1>5 DEF LatestShown
  <2>1. CASE k = i
    BY Zenon, <2>1, <1>3, <1>4, <1>5
  <2>2. CASE k # i /\ step = "balance"
    <3>1. k \in i+1..Len(loads) \/ i \in k+1..Len(loads)
      BY <2>2, <1>1
    <3>2. loads[k].step = "done"
      BY Zenon, <2>2, <1>5
    <3>3. loads'[i].step = "done"
      BY Zenon, <2>2, <1>3, <1>5
    <3>. QED
      BY Zenon, <2>2, <3>1, <3>2, <3>3, <1>4
  <2>3. CASE k # i /\ step # "balance"
    <3>1. ~overtaken /\ balance' = balance /\ loads'[k] = loads[k]
      BY Zenon, <2>3, <1>4, <1>5
    <3>2. loads[i].step # "done"
      BY <1>2 DEF step
    <3>3. ASSUME NEW j \in k+1..Len(loads) PROVE loads[j].step # "done"
      <4>1. j \in 1..Len(loads)
        BY <1>1
      <4>. QED
        BY Zenon, <3>2, <4>1, <1>5
    <3>. QED
      BY <3>1, <3>3 DEF ItemInv, LatestShown
  <2>. QED
    BY Zenon, <2>1, <2>2, <2>3
<1>. QED
    BY <1>6, <1>7 DEF ItemInv

\* The item's invariant holds in every behaviour.
THEOREM ItemInvariant == ListSpec => []ItemInv
<1>1. ListInit => ItemInv
    BY Zenon, FirstLoad DEF ListInit
<1>2. ItemInv /\ [ListNext]_allVars => ItemInv'
  <2>. SUFFICES ASSUME ItemInv, [ListNext]_allVars PROVE ItemInv'
    OBVIOUS
  <2>1. ASSUME UNCHANGED itemVars PROVE ItemInv'
    BY <2>1 DEF itemVars, ItemInv, ItemTypeOK, LatestShown
  <2>2. ASSUME NEW slug \in Names, NewWallet(slug) PROVE ItemInv'
    BY <2>1, <2>2 DEF NewWallet
  <2>3. CASE Perform
    BY <2>1, <2>3 DEF Perform
  <2>4. CASE Resume
    BY Zenon, <2>1, <2>4 DEF Resume
  <2>5. CASE Restart
    <3>1. loads' = <<NewLoad(FirstChain)>> /\ chainId' = FirstChain /\ overtaken' = FALSE
      BY <2>5 DEF Restart
    <3>2. NewLoad(FirstChain) \in Load /\ NewLoad(FirstChain).step # "done"
      BY ListAssumption DEF NewLoad, Load
    <3>3. NewLoad(FirstChain).chain = FirstChain
      BY DEF NewLoad
    <3>4. loads' \in Seq(Load) /\ Len(loads') = 1 /\ loads'[1] = NewLoad(FirstChain)
      BY <3>1, <3>2
    <3>5. ItemTypeOK'
      <4>1. chainId' = loads'[Len(loads')].chain
        BY Zenon, <3>1, <3>3, <3>4
      <4>2. overtaken' \in BOOLEAN
        BY Zenon, <3>1
      <4>. QED
        BY <4>1, <4>2, <3>4 DEF ItemTypeOK
    <3>6. \A i \in 1..Len(loads') : loads'[i].step # "done"
      BY <3>2, <3>4
    <3>. QED
      BY Zenon, <3>5, <3>6 DEF ItemInv, LatestShown
  <2>6. ASSUME NEW c \in ChainIds, SetChain(c) PROVE ItemInv'
    BY <2>6, SetChainStep
  <2>7. ASSUME NEW i \in 1..Len(loads), LoadStep(i) PROVE ItemInv'
    BY <2>7, LoadStepStep
  <2>8. CASE UNCHANGED allVars
    BY Zenon, <2>1, <2>8 DEF allVars
  <2>. QED
    BY Zenon, <2>2, <2>3, <2>4, <2>5, <2>6, <2>7, <2>8 DEF ListNext
<1>. QED
    BY <1>1, <1>2, PTL DEF ListSpec

\* When every load has come back and none was overtaken, the balance shown is
\* the one on the chain selected, for any chains and number of loads.
THEOREM BalanceShown == ListSpec => []BalanceOfChain
<1>1. ItemInv => BalanceOfChain
  <2>. SUFFICES ASSUME ItemInv, ~overtaken, \A i \in 1..Len(loads) : loads[i].step = "done"
                PROVE  balance = chainId
    BY DEF BalanceOfChain
  <2>. DEFINE n == Len(loads)
  <2>1. n \in 1..Len(loads) /\ loads[n].step = "done" /\ chainId = loads[n].chain
    BY DEF ItemInv, ItemTypeOK
  <2>2. n+1..Len(loads) = {}
    BY <2>1
  <2>. QED
    BY Zenon, <2>1, <2>2 DEF ItemInv, LatestShown
<1>. QED
    BY <1>1, ItemInvariant, PTL
=============================================================================
