--------------------------- MODULE WalletTransfer ----------------------------
(***************************************************************************)
(* The app's transfer flow (AccountSheet and App of WalletList.tsx) on top *)
(* of the contracts: the user opens a wallet's sheet, the sheet loads the  *)
(* public key and the address, a tap on Transfer starts a handler that     *)
(* reads the chain between awaits, signs with the Secure Enclave key and   *)
(* posts the operation to a bundler, which submits it, again and again if  *)
(* it likes, while it is valid.                                            *)
(*                                                                         *)
(* A key name stands for its key (getOrCreateKey makes one key per name).  *)
(* A sheet is mounted while a wallet is selected, so its state is fresh    *)
(* whenever it is opened.  A request that is never answered leaves its     *)
(* handler where it is.  The chain menu is behind the sheet.               *)
(***************************************************************************)
EXTENDS PixelAccount, FiniteSets

CONSTANTS
    AppEntryPoint,  \* CHAIN_DATA[chain].ENTRYPOINT_CONTRACT
    NoKey,          \* no wallet selected
    Empty,          \* "", the initial value of publicKey and address
    OutsideKeys,    \* accounts that others than the app deploy
    MaxTaps         \* bound on the taps on Transfer

ASSUME AppAssumption ==
    /\ AppEntryPoint \in [Chains -> EntryPoints]
    /\ {NoKey, Empty} \cap Keys = {}
    /\ OutsideKeys \subseteq Keys
    /\ MaxTaps \in Nat

VARIABLES
    chain, selected,    \* App: the chain chosen and the wallet whose sheet is open
    sheet,              \* AccountSheet: [publicKey, address]
    load,               \* where getWalletData stands: "key", "predict", "done"
    sends,              \* the Transfer handlers, in the order of the taps
    pool                \* the bundler's operations: [chain, ep, op]

appVars == <<chain, selected, sheet, load, sends>>
vars == <<accountVars, appVars, pool>>

NoSheet == [publicKey |-> Empty, address |-> Empty]

Init ==
    /\ InitAccounts
    /\ chain \in Chains
    /\ selected = NoKey
    /\ sheet = NoSheet
    /\ load = "done"
    /\ sends = <<>>
    /\ pool = {}
-----------------------------------------------------------------------------
SelectChain(c) ==
    /\ selected = NoKey
    /\ chain' = c
    /\ UNCHANGED <<selected, sheet, load, sends, pool, accountVars>>

\* setSelectedAccount(item): the sheet mounts and its effect runs.
OpenSheet(k) ==
    /\ selected = NoKey
    /\ selected' = k
    /\ load' = "key"
    /\ UNCHANGED <<chain, sheet, sends, pool, accountVars>>

\* setSelectedAccount(undefined): the sheet's state goes with it, and an answer
\* that is still to come changes nothing.
StayMounted == selected' = NoKey /\ UNCHANGED <<sheet, load>>        \* mutant
Unmount == selected' = NoKey /\ sheet' = NoSheet /\ load' = "done"

CloseSheet ==
    /\ selected # NoKey
    /\ Unmount
    /\ UNCHANGED <<chain, sends, pool, accountVars>>

\* getWalletData: the public key, then the address the factory predicts for it.
LoadKey ==
    /\ selected # NoKey /\ load = "key"
    /\ sheet' = [sheet EXCEPT !.publicKey = selected]
    /\ load' = "predict"
    /\ UNCHANGED <<chain, selected, sends, pool, accountVars>>

LoadAddress ==
    /\ selected # NoKey /\ load = "predict"
    /\ sheet' = [sheet EXCEPT !.address = sheet.publicKey]
    /\ load' = "done"
    /\ UNCHANGED <<chain, selected, sends, pool, accountVars>>
-----------------------------------------------------------------------------
\* Transfer's onPress keeps the values of the render it was created in.
TapTransfer(v) ==
    /\ selected # NoKey
    /\ Len(sends) < MaxTaps
    /\ sends' = Append(sends,
           [step |-> "bytecode", keyName |-> selected, chain |-> chain,
            publicKey |-> sheet.publicKey, address |-> sheet.address, value |-> v,
            nonce |-> 0, initCode |-> NoInit])
    /\ UNCHANGED <<chain, selected, sheet, load, pool, accountVars>>

\* getBytecode: without an address the request is refused; without code the
\* operation deploys the account.
GetBytecode(t) ==
    LET h == sends[t]
    IN  /\ h.step = "bytecode"
        /\ \/ /\ h.address = Empty
              /\ sends' = [sends EXCEPT ![t].step = "over"]
           \/ /\ h.address # Empty /\ account[h.chain][h.address] = Absent
              /\ sends' = [sends EXCEPT ![t].step = "sign", ![t].initCode = h.publicKey]
           \/ /\ h.address # Empty /\ account[h.chain][h.address] # Absent
              /\ sends' = [sends EXCEPT ![t].step = "nonce"]
        /\ UNCHANGED <<chain, selected, sheet, load, pool, accountVars>>

GetNonce(t) ==
    LET h == sends[t]
    IN  /\ h.step = "nonce"
        /\ sends' = [sends EXCEPT ![t].step = "sign",
                                  ![t].nonce = account[h.chain][h.address].nonce]
        /\ UNCHANGED <<chain, selected, sheet, load, pool, accountVars>>

\* userOp, its hash for this chain and entry point, and sign(keyName, hash).
UserOp(h) ==
    LET body == [sender |-> h.address, nonce |-> h.nonce, initCode |-> h.initCode,
                 value |-> h.value]
    IN  [body |-> body,
         sig |-> [key |-> h.keyName, chain |-> h.chain,
                  entryPoint |-> AppEntryPoint[h.chain], body |-> body]]

\* eth_sendUserOperation.  If the answer comes, onPress closes whatever sheet
\* is open by then; if it is lost, the bundler has the operation all the same.
Post(t) ==
    LET h == sends[t]
    IN  /\ h.step = "sign"
        /\ pool' = pool \cup {[chain |-> h.chain, ep |-> AppEntryPoint[h.chain], op |-> UserOp(h)]}
        /\ \/ sends' = [sends EXCEPT ![t].step = "over"] /\ Unmount
           \/ sends' = [sends EXCEPT ![t].step = "over"] /\ UNCHANGED <<selected, sheet, load>>
        /\ UNCHANGED <<chain, accountVars>>
-----------------------------------------------------------------------------
\* The bundler (external) submits what is valid and drops what is not.
Submit(x) ==
    /\ HandleOp(x.chain, x.ep, x.op)
    /\ UNCHANGED <<appVars, pool>>

Drop(x) ==
    /\ ~Valid(x.chain, x.ep, x.op)
    /\ pool' = pool \ {x}
    /\ UNCHANGED <<appVars, accountVars>>

Others == \E c \in Chains, k \in OutsideKeys : FactoryCreate(c, k) /\ UNCHANGED <<appVars, pool>>

App ==
    \/ \E c \in Chains : SelectChain(c)
    \/ \E k \in Keys : OpenSheet(k)
    \/ CloseSheet \/ LoadKey \/ LoadAddress
    \/ \E v \in Values : TapTransfer(v)
    \/ \E t \in 1..Len(sends) : GetBytecode(t) \/ GetNonce(t) \/ Post(t)

Next == App \/ (\E x \in pool : Submit(x) \/ Drop(x)) \/ Others

\* The bundler keeps submitting what it has; nothing else is sure to happen.
Spec == Init /\ [][Next]_vars /\ WF_vars(\E x \in pool : Submit(x))
                              /\ WF_vars(\E x \in pool : Drop(x))
-----------------------------------------------------------------------------
\* The sheet's key and address belong to the wallet whose key will sign: a
\* transfer spends from the wallet the user had open, whatever sheets were
\* opened and closed while requests were under way.
SignsForOpenedWallet ==
    \A t \in 1..Len(sends) :
        /\ sends[t].publicKey \in {Empty, sends[t].keyName}
        /\ sends[t].address \in {Empty, sends[t].publicKey}

Executions(c, k, v) ==
    {i \in 1..Len(log) : log[i].chain = c /\ log[i].op.body.sender = k /\ log[i].op.body.value = v}
Taps(c, k, v) ==
    {t \in 1..Len(sends) : sends[t].chain = c /\ sends[t].keyName = k /\ sends[t].value = v}

\* A tap is paid at most once: equal taps may become equal operations, stale
\* nonces and repeated submissions may lose a transfer, but none is made that
\* was not tapped.
TapPaysAtMostOnce ==
    \A c \in Chains, k \in Keys, v \in Values :
        Cardinality(Executions(c, k, v)) <= Cardinality(Taps(c, k, v))

\* "contract deployment is automatically handled the first time they submit a
\* transaction to the network": a posted operation with initCode, of an account
\* that can pay for it, leads to the account being deployed.
FirstTransferDeploys ==
    \A c \in Chains, k \in Keys :
        ((\E x \in pool : x.chain = c /\ x.op.body.initCode = k) /\ bal[c][k] >= Fee)
            ~> account[c][k] # Absent
-----------------------------------------------------------------------------
Handlers ==
    [step: {"bytecode", "nonce", "sign", "over"}, keyName: Keys, chain: Chains,
     publicKey: Keys \cup {Empty}, address: Keys \cup {Empty}, value: Values,
     nonce: Nonces, initCode: Keys \cup {NoInit}]

\* The app's state and the bundler's operations have the types of the code.
AppTypeOK ==
    /\ chain \in Chains
    /\ selected \in Keys \cup {NoKey}
    /\ load \in {"key", "predict", "done"}
    /\ sends \in Seq(Handlers)
    /\ pool \subseteq [chain: Chains, ep: EntryPoints, op: Operations]

\* The sheet is filled in order, for the wallet selected.
SheetOwned ==
    sheet = IF selected = NoKey \/ load = "key" THEN NoSheet
            ELSE [publicKey |-> selected,
                  address |-> IF load = "predict" THEN Empty ELSE selected]

\* Past getBytecode a handler has an address; the account whose code it saw is
\* still there when it asks for the nonce.
SendsReady ==
    \A t \in 1..Len(sends) :
        /\ sends[t].step \in {"nonce", "sign"} => sends[t].address = sends[t].keyName
        /\ sends[t].step = "nonce" => account[sends[t].chain][sends[t].address] # Absent

\* What the app does, beside AccountInv: the inductive invariant behind
\* SignsForOpenedWallet and the step from the app to the contracts.
AppInv == AppTypeOK /\ SheetOwned /\ SendsReady /\ SignsForOpenedWallet
=============================================================================
