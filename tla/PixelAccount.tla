---------------------------- MODULE PixelAccount -----------------------------
(***************************************************************************)
(* The account contracts on several chains: AccountFactory.create, the     *)
(* clones it deploys (Account), and the ERC-4337 EntryPoint that validates *)
(* and executes user operations (external: the library's handleOps, as the *)
(* tests and the app use it).                                              *)
(*                                                                         *)
(* The factory has one address on every chain and CREATE2 derives an       *)
(* account's address from the public key alone, so a key stands for its    *)
(* account's address everywhere.  A signature is ideal: it verifies for    *)
(* the key, the body, the chain and the entry point it was made for (the   *)
(* arithmetic behind it is in Secp256r1).  An operation is handled alone:  *)
(* a bundle holds at most one operation of a sender.                       *)
(***************************************************************************)
EXTENDS Naturals, Sequences

CONSTANTS
    Chains,
    PixelChains,    \* those of them with chain id 42069: they have the precompile
    Keys,           \* public keys, and the addresses of their accounts
    EntryPoints,
    Deployed,       \* the EntryPoint the factory was deployed with
    NoInit,         \* empty initCode
    Absent,         \* no code at an address
    Values,         \* amounts an operation may transfer
    Nonces,
    Ops,            \* the operations in circulation, well signed or not
    Fee,            \* the prefund an operation needs, all of it spent
    Endowment       \* balance of every account at the start

Bodies == [sender: Keys, nonce: Nonces, initCode: Keys \cup {NoInit}, value: Values]
Signatures == [key: Keys, chain: Chains, entryPoint: EntryPoints, body: Bodies]
Operations == [body: Bodies, sig: Signatures]
Verifiers == {"precompile", "solidity"}
Storage == [publicKey: Keys, entryPoint: EntryPoints, verifier: Verifiers, nonce: Nat]

ASSUME AccountAssumption ==
    /\ PixelChains \subseteq Chains
    /\ Deployed \in EntryPoints
    /\ NoInit \notin Keys
    /\ Absent \notin Storage
    /\ Ops \subseteq Operations
    /\ Values \subseteq Nat /\ Nonces \subseteq Nat
    /\ Fee \in Nat /\ Endowment \in Nat

VARIABLES
    account,    \* account[c][k]: storage of the clone at k's address on chain c
    bal,        \* bal[c][k]: its balance
    log         \* the operations executed so far: [chain, op, ok]

accountVars == <<account, bal, log>>

InitAccounts ==
    /\ account = [c \in Chains |-> [k \in Keys |-> Absent]]
    /\ bal = [c \in Chains |-> [k \in Keys |-> Endowment]]
    /\ log = <<>>
-----------------------------------------------------------------------------
\* The precompile is used where block.chainid is 42069.
PrecompileEverywhere(c) == "precompile"                             \* mutant
VerifierFor(c) == IF c \in PixelChains THEN "precompile" ELSE "solidity"

Initialized(c, k) ==
    [publicKey |-> k, entryPoint |-> Deployed, verifier |-> VerifierFor(c), nonce |-> 0]

\* create: an account that has code is returned as it is.
CreateAnew(c, k) == account' = [account EXCEPT ![c][k] = Initialized(c, k)]   \* mutant
Create(c, k) ==
    IF account[c][k] = Absent
    THEN account' = [account EXCEPT ![c][k] = Initialized(c, k)]
    ELSE UNCHANGED account

\* Anyone may call the factory.
FactoryCreate(c, k) == Create(c, k) /\ UNCHANGED <<bal, log>>

\* A verifier that is not there answers with no data, which abi.decode refuses.
HasVerifier(c, v) == v = "solidity" \/ c \in PixelChains

\* _validateSignature: the verifier gets signature, publicKey and userOpHash,
\* and the hash covers the body, the entry point and the chain id.
SignatureOnly(acc, c, ep, op) ==                                    \* mutant
    op.sig.key = acc.publicKey /\ op.sig.body = op.body
ValidateSignature(acc, c, ep, op) ==
    /\ HasVerifier(c, acc.verifier)
    /\ op.sig = [key |-> acc.publicKey, chain |-> c, entryPoint |-> ep, body |-> op.body]

\* _validateAndUpdateNonce, which BaseAccount calls only without initCode.
NonceKept(acc, op) == acc                                           \* mutant
ValidateAndUpdateNonce(acc, op) ==
    IF op.body.initCode = NoInit THEN [acc EXCEPT !.nonce = @ + 1] ELSE acc
NonceNotUsed(acc, op) ==                                            \* mutant
    op.body.initCode = NoInit => acc.nonce <= op.body.nonce
NonceValid(acc, op) == op.body.initCode = NoInit => acc.nonce = op.body.nonce

\* EntryPoint._createSenderIfNeeded: the account validateUserOp is called on.
SenderReady(c, op) ==
    IF op.body.initCode = NoInit
    THEN account[c][op.body.sender] # Absent
    ELSE account[c][op.body.sender] = Absent /\ op.body.initCode = op.body.sender

Sender(c, op) ==
    IF op.body.initCode = NoInit THEN account[c][op.body.sender]
    ELSE Initialized(c, op.body.sender)

\* _payPrefund.
PrefundUnchecked(c, k) == TRUE                                      \* mutant
PayPrefund(c, k) == bal[c][k] >= Fee

\* validateUserOp, called by entry point ep.
Valid(c, ep, op) ==
    /\ SenderReady(c, op)
    /\ Sender(c, op).entryPoint = ep
    /\ ValidateSignature(Sender(c, op), c, ep, op)
    /\ NonceValid(Sender(c, op), op)
    /\ PayPrefund(c, op.body.sender)

\* handleOps of one operation: validation, then execute, whose call may fail
\* for want of funds; the nonce is used up and the fee paid all the same.
HandleOp(c, ep, op) ==
    /\ Valid(c, ep, op)
    /\ account' = [account EXCEPT ![c][op.body.sender] =
                       ValidateAndUpdateNonce(Sender(c, op), op)]
    /\ LET left == bal[c][op.body.sender] - Fee
           ok == op.body.value <= left
       IN  /\ bal' = [bal EXCEPT ![c][op.body.sender] = IF ok THEN left - op.body.value ELSE left]
           /\ log' = Append(log, [chain |-> c, op |-> op, ok |-> ok])

NextAccounts ==
    \/ \E c \in Chains, k \in Keys : FactoryCreate(c, k)
    \/ \E c \in Chains, ep \in EntryPoints, op \in Ops : HandleOp(c, ep, op)

AccountSpec == InitAccounts /\ [][NextAccounts]_accountVars
-----------------------------------------------------------------------------
\* Accounts, balances and the log of executed operations hold what the
\* contracts store; a balance (uint256) never goes below zero.
AccountTypeOK ==
    /\ account \in [Chains -> [Keys -> Storage \cup {Absent}]]
    /\ bal \in [Chains -> [Keys -> Nat]]
    /\ log \in Seq([chain: Chains, op: Operations, ok: BOOLEAN])

\* No operation is executed twice, on one chain or on two: the nonce rules out
\* the repetition of an ordinary operation, the sender's code that of one with
\* initCode (whose nonce BaseAccount does not look at), the chain id in the hash
\* the repetition elsewhere.
ExecutedOnce ==
    \A i, j \in 1..Len(log) : log[i].op = log[j].op => i = j

\* An account's ordinary operations are executed in the order of their nonces,
\* one for each nonce, and the one that deployed it comes before them.
NoncesInOrder ==
    \A i, j \in 1..Len(log) :
        i < j /\ log[i].chain = log[j].chain
              /\ log[i].op.body.sender = log[j].op.body.sender =>
            /\ log[j].op.body.initCode = NoInit
            /\ log[i].op.body.initCode = NoInit =>
                   log[i].op.body.nonce < log[j].op.body.nonce

\* Whatever moved an account's funds was signed with the account's own key for
\* this chain and for the entry point the factory set.
SignedByOwner ==
    \A i \in 1..Len(log) :
        LET op == log[i].op
        IN  op.sig = [key |-> op.body.sender, chain |-> log[i].chain,
                      entryPoint |-> Deployed, body |-> op.body]

\* Once deployed, an account keeps its key, entry point and verifier, whoever
\* calls create again, and its nonce never goes back.
AccountsStable ==
    [][\A c \in Chains, k \in Keys :
         account[c][k] # Absent =>
             /\ account'[c][k] # Absent
             /\ account'[c][k].publicKey = account[c][k].publicKey
             /\ account'[c][k].entryPoint = account[c][k].entryPoint
             /\ account'[c][k].verifier = account[c][k].verifier
             /\ account'[c][k].nonce >= account[c][k].nonce]_accountVars

\* The inductive invariant behind ExecutedOnce, NoncesInOrder and SignedByOwner.
AccountsOwned ==
    \A c \in Chains, k \in Keys :
        account[c][k] # Absent =>
            account[c][k].publicKey = k /\ account[c][k].entryPoint = Deployed

LogBehindNonces ==
    \A i \in 1..Len(log) :
        LET acc == account[log[i].chain][log[i].op.body.sender]
        IN  /\ acc # Absent
            /\ log[i].op.body.initCode = NoInit => log[i].op.body.nonce < acc.nonce

AccountInv == AccountTypeOK /\ AccountsOwned /\ LogBehindNonces /\ NoncesInOrder /\ SignedByOwner
=============================================================================
