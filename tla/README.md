# Formal models of the mobile Aztec wallet

TLA+ models, TLC runs and TLAPS proofs for the wallet of this repository: an
Android app whose React Native (RN) side drives a PXE in a hidden WebView and
proves Aztec transactions with a native barretenberg library. Paths below are
relative to `src/`.

## 1. The system

| Component | State it keeps | Operations |
|---|---|---|
| **Native prover** `crates/noir-prover-jni`, `crates/noir-prover`, `ProverModule.kt` | `PROVER` mutex (poisonable), `LAST_PROOF`, `ABORT_REQUESTED`, barretenberg's globals (SRS, the ClientIVC accumulator) | `initSrs`, `chonkProve`, `requestAbort`, `prove`, `verifyLast`, `blake2s`, each on a thread of its own |
| **PxeSession** `wallet/app/src/pxe` | `pending` calls with timers, `seq`, `crashed`, `ready` | `call`, `abort`, `handleMessage` (ready, rpcResult, proveRequest), `handleCrash`, `resetAfterReload` |
| **WebView page** `wallet/pxe-web/src` | `session`, `abortRegistry`, `currentAbortSignal`, `provePending`, `proveSeq` | the dispatcher, flow handlers (deploy, transfer, mint, AMM), background handlers (sync, receipt, balance), `proveOverBridge` |
| **WalletController** `wallet/app/src/wallet` | phase, `busy`, `activeCallId`, `vault`, `booted`, the poller's interval | boot, restart, crash, the flows, cancel, the receipt poller |
| **PendingTxStore** `wallet/app/src/txs` | the tracked transactions, in memory and in AsyncStorage | `add`, `applyReceipt`, `load` |
| **TokenStore** `wallet/app/src/tokens` | token list, AMM setup step, in memory and in AsyncStorage | `addToken`, `setAmm`, `load` |
| **Vault** `wallet/app/src/keys` | account material and the store key, sealed | `loadVault`, `saveVault`, `getOrCreateStoreKey` |
| **Asset server** `AssetHttpServer.kt`, `PxeServerModule.kt` | one listening socket | `start`, serve |
| Pure helpers | none | `benchStats.ts`, `bytes.ts`; `mem-store.ts` is a key-value store in memory |

How they interact. A tap starts a flow in WalletController behind the busy lock.
The flow calls the page through PxeSession (messages injected into the WebView,
answers posted back). The page simulates, asks RN to prove (`proveRequest`), RN
starts a native thread, the result is injected back (`proveResult`), the page
sends the transaction to the node and returns its hash; the flow stores it and
the poller watches its receipt. Cancel goes both to the page (`abort`) and to
the native prover (`requestAbort`). Before all this, the app starts the asset
server, mounts the WebView, and every document that posts `ready` is booted:
SRS, store key, PXE, vault, accounts.

What is hard:

* *Concurrency.* Two single-threaded event loops joined by two lossy message
  channels; native threads over non-reentrant global state; background calls
  interleaved with a flow; polls that overlap.
* *Cancellation.* One global abort signal per page and one global flag in the
  prover, both meant for one call at a time, raced by timeouts, late answers and
  the next flow.
* *Failure.* The renderer dies or is replaced under RN; the app is killed
  between any two awaits; calls time out while their handlers live on; native
  code panics.
* *Replacement.* The document may be replaced at any await of a boot, which goes
  on all the same while the `ready` of the next one starts a boot beside it.
* *Ordering.* Stale receipts, transiently dropped transactions, writes to
  several keys that must survive in a useful order.

What makes each part correct: the prover runs one flow at a time over a state
that is that flow's own, honours a stop meant for the running flow, and always
answers; a session has one flow, whose cancel reaches it and only it, and always
gets its lock back; nothing the node accepted is forgotten without a timeout, a
lost reply or a dead page; keys are sealed before they can matter; a recorded
transaction is durable, polled until settled, judged once and judged right; the
wallet on the screen is the one in the page and on disk, what is on disk can be
opened again, and a boot ends; the AMM setup never runs ahead of the chain and never loses confirmed progress.

## 2. Modules

| Module | Models | Correspondence |
|---|---|---|
| `SerialProver` | what the prover promises its callers | `running`, `asked`, `committed`, `outcome`: abstract specification |
| `NativeProver` | JNI entry points, mutex, abort flag, ClientIVC flow | a member of `Calls` is one call and its thread; `pc[c]` is where it stands; `owner`/`poisoned` is the mutex; `bb` is barretenberg's accumulator; `aim` (history) is the prove the user meant to stop |
| `WalletSession` | one flow from the tap to the tracked transaction: busy lock, PxeSession, dispatcher, abort wiring, prove bridge, both channels, renderer death and reload | an action runs RN or the page from one await to the next; `caller[c]` is the RN code that awaits call `c`, `handler[c]` the page's handler |
| `TxLifecycle` | what the wallet promises about each recorded transaction | abstract specification |
| `TxStore` | onboarding and the vault, PendingTxStore, poller, with kills, lost pages, boots and pruned blocks | memory, disk and what is on its way apart: `writes` are the tables queued, `seals` the vaults being sealed; `flow` and `poll` are continuations; `mined` (history) holds the results a transaction has had in a block |
| `Bootstrap` | `start`, `onWebViewReady`, crash, restart and reload, the handlers of `storageProbe`, `boot`, `createAccount` and `restoreAccounts`, sealing, the store key and the vault, the busy lock of onboarding, with kills | `job[d]` is the boot started by the `ready` of document `d`, `job[Flow(a)]` the onboarding of account `a`; `handler[j]` is the page's handler of a call of job `j`; `keystore`, `diskKey`, `diskVault`, `store` outlive the app; `shown` (history) is the account the wallet was last shown with, `stale` (history) is set once a job goes on unaware that its document is gone |
| `AmmSetup` | `ammSetup` with its persisted step, and `ammAddLiquidity`, with kills and boots | same storage as `TxStore`; receipts as `TxLifecycle` promises them |
| `NativeProverProofs`, `AmmSetupProofs`, `TxStoreProofs`, `WalletSessionProofs`, `BootstrapProofs` | theorems about the module they are named after, with their inductive invariants | section 5 |
| `MC*` | instances for TLC | symmetry sets |

Every mapped definition is listed with its source lines in `PROJECT.json`.
Operators whose comment begins with *Mutant* are no part of any specification:
they are plausible bugs, put in place of the definition they sit above to see
the property fail.

### Abstractions

* Proofs, receipts, keys, addresses and hashes are identities. A transaction is
  numbered in the order the node accepts it; in `AmmSetup` a contract is named by
  the transaction that deploys it.
* `NativeProver`: barretenberg's flow state is the call it belongs to and how
  many circuits are in it; an error or a panic may come from any foreign call.
  `prove` and `verifyLast` are one guarded step. A call whose arguments do not
  convert returns before it takes the lock (`CallUnreadable`).
* `WalletSession`: `transfer`, `mint`, `deployToken`, `deployAccount`,
  `setLiquidityMinter` and `addLiquidity` are flows of one call with one
  transaction ("single"), `deployAmm` one call with two ("amm"); onboarding is
  two such calls and is modelled with its writes in `TxStore`. The boot sequence
  is one step, `Booted`. Call ids are never reused because `seq` survives
  reloads. The node rejects a proof that is not that of the transaction. The
  PXE's own job queue is not modelled: a background call may interleave anywhere,
  and in any phase, since loops of calls that have begun go on in later ones.
* `TxStore`, `AmmSetup`: a write captures its value when issued and lands later,
  and never fails. AsyncStorage runs the writes of tables in order; a vault is sealed
  on a native thread of its own first, so in `TxStore` it may land before or after
  any other write. In `AmmSetup` "submitted" stands for submitted and pending.
* `TxStore`: the page may be lost, and boot again, beside a flow or a poll that is at
  a storage write and learns of it at its next call. `Boot` assumes that, by the time
  the boot reads the vault, an onboarding in that position has come to its next call
  and failed: a boot takes seconds, a write milliseconds. `Bootstrap` has the boot
  that reads the vault beside onboarding (`bootstrap_keys_lost`). The code settles a
  transaction when its block is proposed; such a block may be pruned (`NodePrunes`),
  so what a record says is compared with the results the transaction has had in a
  block (`mined`). A mined receipt is assumed to carry its execution result:
  `isSucceeded` takes one without it for a success. `AmmSetup` assumes that a
  transaction that was in a block stays there.
* `Bootstrap`: `createAccount` and `deployAccount` of onboarding are one call, and
  its transaction is in `TxStore`. A second `ready` clears the busy lock whoever
  holds it, so several onboardings may be under way; TLC's instance has one account
  once a job is unaware, so there two at once occur in the proofs only. A blob is the
  thing it hides and the Keystore key it is sealed under; a fresh key is unique;
  the restored address is the stored one. `storageProbe` answers at once: what it
  probes is nobody else's. Messages of both channels arrive in order or die with
  the document. The asset server serves every load that is begun.
* `GraceEnds` in `TxStore`: 120 s after a transaction is recorded the node has
  seen it or dropped it, and no receipt older than that is on its way (the call
  is given up after 30 s).

## 3. Runs

| Run | Bounds | Checks |
|---|---|---|
| `prover` | 3 calls, flows of up to 2 circuits; 15 k states | `TypeOK`, `FlowIntact`, `ImplementsSerialProver` (refinement), `EveryCallReturns` (liveness) |
| `session` | 2 calls, 2 documents, 2 proves each; 1.7 M states | `TypeOK`, `OneFlow`, `CancelReachesFlow`, `OnlyCancelledAborts`, `NoForgottenTx`, `BusyReleased` (liveness) |
| `store_safety` | 2 polls, 2 transactions, 2 accounts, 1 fault (the app killed, its page lost, or a block pruned); 1.9 M states | `TypeOK`, `KeysSealed`, `TrackedIsDurable`, `SettledAgrees`, `DeployedIsConfirmed`, `PollerRuns`, `RecordsLifecycle` (refinement of `TxLifecycle`) |
| `amm_safety` | 5 transactions, 1 kill; 756 k states | `TypeOK`, `StepsConfirmed`, `LiquidityIntoWorkingAmm`, `NeverRewinds` (action property) |
| `bootstrap` | 3 documents, 2 accounts, 1 kill; 2 and 1 once a job is unaware; 970 k states | `TypeOK`, `ScreenIsBacked`, `StorageOpens`, `LoadAwaited`, `AccountKept`, `ReadyStays` (action property), `BootEnds` (liveness) |

Why the bounds are enough. *prover*: three calls give a running flow, a waiting
one and an abort, and two circuits give a boundary before, between and after.
*session*: one flow and one more call that may be the next flow (after a
timeout, a crash or a cancel) or a background call; the second document is the
reload; two proves are what `deployAmm` needs. *store*: two transactions are an
account deployment and either the deployment of a second account or a send, two
polls are an overlap; one fault at any point, and the boot after it, cover each
crash window once, but no two faults in one behaviour: those are in the proofs,
which hold for every bound. A send starts only while the bound leaves a transaction to accept. *amm*: two deployments that fail and are given up, two more and a
`set_minter`, one pair and three `set_minter`s, or a whole setup and liquidity.
*bootstrap*: the first document, a replacement, and the one after a kill; two
accounts are an onboarding and the one after a failed or killed first. Once a job
is unaware (`stale`) only `TypeOK`, `LoadAwaited` and `BootEnds` still say something,
and two documents and one account are enough for two boots to overlap each other and
onboarding.

Deadlock is not checked: users stop tapping and the bounds on calls, documents
and transactions end every behaviour.

### Where the boot's properties end

`ScreenIsBacked`, `StorageOpens`, `AccountKept` and `ReadyStays` hold up to the moment a job (a boot, or onboarding) goes on without knowing that its
document is gone: its document was replaced, or its renderer died, while it was at
a storage write, at the Keystore or in `initSrs`, or it sent a request to a
document whose `ready` had not been handled. Past that moment TLC refutes them,
and the condition `stale` marks exactly that border:

* Two overlapping boots of a first start find no store key and make up one each,
  and find no Keystore key and generate one each; the page may create its store
  under the key that is overwritten, and a blob may stay sealed under a Keystore
  key that is replaced: `StorageOpens` fails, across restarts.
* A boot that sends its `boot` request to the next document before RN has handled
  the `ready` of that one has its call rejected, but the page opens a wallet for
  it, and later a second one for the real boot, over a session whose accounts were
  restored: `ScreenIsBacked` fails with a `ready` wallet whose page lacks the account.
* Onboarding that is at its last write when the renderer dies ends in `ready`,
  over the crash screen (`WalletController.ts:409`).
* The older of two boots ends in `fatal` over the wallet that the newer one has
  made `ready`: `ReadyStays` fails.
* Onboarding that is still sealing its vault when the document is replaced has no
  call pending that the next `ready` could reject. The boot that `ready` starts
  finds no vault and sets `this.vault` to null, and onboarding then stores null
  over the account it has just sealed (`bootstrap_keys_lost` below).

* A boot that read no vault before onboarding's first write landed offers onboarding
  again over the wallet that the onboarding has shown meanwhile: `AccountKept` fails.

`LoadAwaited` has the condition that the server is up: after a failed bind, Retry
shows `loading PXE` without a WebView to load it. `BootEnds` holds without a
condition.

So the properties do not catch these hazards of `PROJECT.json`, which name no
property: the second boot beside the first (`WalletController.ts:153`), the request
sent to the next document (`:179`), the death during the last write of onboarding
(`:409`), two seals at once (`SecureKeysModule.kt:93`), Retry after a failed bind
(`App.tsx:137`). Likewise the `finally` clause of a flow that outlives its lock
(`WalletController.ts:343`), which `SlowStorage = FALSE` leaves out of `session`
(section 5), and the onboarding retried after its deployment was accepted (`:386`),
which `KeysSealed` exempts.

### Disagreements between the code and its documentation

Each of these runs checks one claim that a comment or a document makes; TLC
finds a behaviour of the code that breaks it.

| Run | Claim | What the code does |
|---|---|---|
| `prover_bb_shared` | the mutex serializes access to barretenberg (`lib.rs:4-6`, `prover.rs:19-20`) | `initSrs` loads the SRS before it takes the mutex; a boot after a reload does so while a prove runs |
| `prover_stale_abort` | a stale abort cannot cancel a fresh prove (`abort.rs:27-28`) | the flag is set by a thread that may run after the prove it was meant for returned and the next one cleared the flag |
| `session_cancel_submitted` | nothing durable was submitted by a cancelled call; `deployAmm` always returns both hashes (`wallet-main.ts:544-548`, `708-711`) | a cancel while its second deployment is proved rejects the prove, and the accepted first one is forgotten |
| `session_prove_ids` | a late `proveResult` is ignored (`wallet-main.ts:112-114`) | ids start again after a reload, so it resolves a prove of the new document (the node refuses the transaction) |
| `store_deploy_noticed` | the hash is persisted and polled across restarts (`wallet/README.md:46-50`) | killed between `saveVault` and `txStore.add`, the app never learns that its account is deployed |
| `bootstrap_keys_lost` | sealed before deploying, the keys cannot be lost (`WalletController.ts:385`) | onboarding stores `this.vault` again after each call (`:395`, `:406`); a boot that read no vault before the first write landed has set it to null (`:198`) |
| `amm_resume` | a restart resumes mid-flow (`tokenStore.ts:3-4`) | killed between `setAmm` and `track`, the setup waits for a transaction nobody polls |

## 4. Fairness

* `NativeProver!FairSpec`: weak fairness of each thread. The operating system
  schedules threads, and foreign calls return or fail. The host need not call.
* `WalletSession!FairSpec`: weak fairness, for each call, of RN's `setTimeout` and of
  the storage write that ends a flow. Nothing is assumed of the messages, the page,
  the prover, the node or the user: the timer of `PxeSession.call` is what
  `BusyReleased` rests on, with the WebView free to die, reload or stay silent.
* `Bootstrap!FairSpec`: weak fairness of RN handling what was posted to it, and of
  each job: its timers fire, storage, the Keystore and `initSrs` return or throw.
  Nothing is assumed of the page, the WebView or the user, so `BootEnds` rests on
  the timers of the boot's calls.

Without the `finally` release of `runFlow` TLC refutes `BusyReleased`.

## 5. Proofs

Every safety property of the passing runs is proved, for all values of the
constants, in the module named after the component. Each proof has an inductive
invariant `IInv` that TLC checked first on the instance of section 3, and the same
outline: `Init => IInv`; one lemma per conjunct of `IInv`, one step per action;
`Spec => []IInv`; and the theorems.

| Module | Theorems |
|---|---|
| `NativeProverProofs` | `Typing`, `FlowIsIntact`, `Refinement` (implements `SerialProver`) |
| `AmmSetupProofs` | `Typing`, `ConfirmedSteps`, `WorkingAmm`, `NeverBack` |
| `TxStoreProofs` | `Typing`, `KeysAreSealed`, `TrackedSurvives`, `SettledIsTrue`, `DeployedIsTrue`, `UnsettledIsPolled`, `Refinement` (implements `TxLifecycle`) |
| `WalletSessionProofs` | `Typing`, `NothingForgotten`; if `~SlowStorage` also `LockIsExclusive`, `CancelReaches`, `AbortsAreCancels` |
| `BootstrapProofs` | `Typing`, `LoadIsAwaited`; up to the moment a job goes on unaware (`~stale`, part of the properties) `ScreenBacked`, `StorageCanOpen`, `AccountIsKept`, `ReadyRemains` |

The assumptions are the named ones of the modules (`NoCall` is no call, bounds are
numbers, the set of polls, `SlowStorage` is a truth value), which TLC evaluates in
the runs.

**`NativeProver`**. `FlowIntact` is not inductive: that nobody else writes
barretenberg's state needs mutual exclusion, and that the count stays within
bounds needs the loop invariant. So

    IInv == TypeOK /\ Exclusive /\ Shape /\ Loop

`Exclusive`: who stands in a guarded section owns the mutex, and the owner stands
in one. `Shape`: where a thread stands tells its entry point, and it has no
result before it returns. `Loop`: inside the loop the accumulator is the call's
own with `done[c]` circuits, and `done[c]` is below or at `circuits[c]` as the
program counter says. `StepRefines` maps each action to a step of
`SerialProver` or a stutter: taking a lock and clearing the flag is `Begin`,
setting the flag is `Ask` when a flow runs short of its last cancel point,
leaving the loop is `Commit`, and every way out of the critical section is `End`.

**`AmmSetup`**. A step is restored from a disk that a queued write will change, from
a table that a queued write will settle. So

    IInv == TypeOK /\ Sound /\ Flowing /\ Supplied

says that every setup and every table of transactions, in memory, on disk or in
the queue of writes, is true of the chain (`Sound`); what the flow behind the lock
found out when it started is still so (`Flowing`); and liquidity already sent went
into a working pair (`Supplied`). The facts it is made of depend on the chain only,
and the chain only grows (`ChainGrows`), so they are kept wherever they are;
`FlowStepSound`, `OtherStepSound`, `FlowingStep` and `SuppliedStep` look only at
what an action stores. `NeverRewinds` compares the memory before a kill with the
memory after the next start, which is the disk. It needs `Ordered`: the flow has at
most one write in the queue, so the disk is at most one write behind memory, and
that write goes forward.

**`TxStore`**.

    IInv == TypeOK /\ Stored /\ Phases /\ Flowing /\ Polling /\ Accounted
            /\ TrackedIsDurable /\ PollerRuns

`Stored` is about memory, the disk and what is on its way between them. Each write of
a table stores all of it, as it was when the write was queued. That none undoes a
later one is `Linked`: from the table on disk the queued ones lead to the table in
memory, each at most one status change further, and none of them knows a transaction
that memory does not. That the flow and each poll wait for the write they queued, one
at a time, gives the chain its links (`Queue`). Vaults are not in that queue:
`Sealing` says that whoever has one being sealed waits for it, and that they are all
of the account in memory, so that the order in which they land does not matter. What
tables and vaults say is borne out by the node (`Sound`). `Phases` says what each
screen excludes (no poller during onboarding, nothing in memory while the app is
down) and that an onboarding has nothing tracked and nothing polled beside it,
`Flowing` what the flow holds between the node's answer and `track`, `Polling` how old
a receipt may be and still be right, `Accounted` that the vault on disk is of the
account in memory but while it is first sealed or before a boot has read it (`Asleep`).
The chain changes in many ways, a pruned block among them, and the facts above need
of a change only that what is gone stays gone and that results and owners are not
taken back (`Grows`). The refinement of `TxLifecycle` follows without further invariants: a table
changes by one status that the life cycle allows, or is restored from the disk.

**`WalletSession`**.

    IInv == TypeOK /\ Promises /\ Handlers /\ Bridge /\ Channels /\ Submitted /\ Cancels
            /\ (~SlowStorage => Exclusive)

`NoForgottenTx` needs a call followed across both sides: its promise and what has
become of it (`Promises`), how far its handler is (`Handlers`), the prove it waits
for (`Bridge`), its one request or result in a channel (`Channels`), and what the
chain says of a result that is not a success (`Submitted`). The three properties
about cancelling rest on the lock, and on a fact about order that none of them
states, `LastRequest`: after the request of the pending flow comes no request of
another flow in the channel. Without it, a request still
queued could replace the page's one abort signal while the flow on the screen runs. The steps of
the page are reduced first to a few shapes (`InsideFrame`, `OutsideFrame`,
`HandlerFrame`, `RequestFrame`, `PromiseFrame`), and the conjuncts are shown on
the shapes.

**`Bootstrap`**.

    IInv == TypeOK /\ Carried /\ Linked /\ LoadAwaited /\ (~stale => Aware)
    Aware == Solo /\ KeysInOrder /\ AccountAtHand /\ Clean /\ Staged

`Carried` types what jobs and messages carry. `Linked`: only a live document holds
requests, a session or handlers, and the last notice on its way to RN tells of the
document there is. `Aware` is what a stale job breaks:

* `Solo`: one job is active, under its own screen, and has a live document or a
  notice on its way; an onboarding holds the lock, so no other begins;
* `KeysInOrder`: the Keystore's key is made before a blob is sealed under it, the store
  key is on disk before the page is given it, and the page's store has that key;
* `AccountAtHand`: the account a job restores or registers is the one in memory,
  and, once `ready`, on disk; a boot that has read no vault finds none there still;
  the account that was shown is the one on disk;
* `Clean`: a document whose `ready` RN has not handled has only been probed;
* `Staged`: the page is as far as the boot. Nothing was asked but the probe, or one
  `boot` request is on its way, in its handler or answered, or the session is set
  and what was answered of accounts is so (`Untouched`, `Opening`, `Opened`).

`Moving`, `Answering`, `Readying`, `Crashing` and `PageMoving` say what the many
actions have in common; then each conjunct has its lemma (`SoloStep`, `KeysStep`,
`AccountStep`, `CleanStep`, `StagedStep`). The proof found an error in the model: a
vault whose content is `null` passed for an account, where the code's `JSON.parse`
result then fails the boot. Correcting it led to the run `bootstrap_keys_lost`.

Only model-checked: liveness (`EveryCallReturns`, `BusyReleased`, `BootEnds`),
which is out of the prover's reach here, on the bounds of section 3. The properties
of the runs that expect a violation are false of the code and have nothing to prove.

An assumption worth naming: `session` takes a flow's storage write to end
before a whole boot does (`SlowStorage = FALSE`). With `SlowStorage = TRUE` TLC
refutes `OneFlow`: the `finally` clause of a flow whose lock a reload cleared
clears the lock of a later flow (`WalletController.ts:341-345`).

## 6. Not modelled

* The UI, but for what the fatal, crashed, onboarding and AMM screens offer: it
  renders a snapshot. Progress events and balances are display only.
* `AssetHttpServer.kt`, but for its bind: it serves read-only files.
* `mem-store.ts`: a synchronous map behind async signatures; nothing interleaves
  inside an operation and nothing survives the document.
* `benchStats.ts`: floating-point statistics with their own unit tests.
* Configuration, byte helpers, memory sampling, the testnet harness, the spike and
  demo apps, the prover CLI, build scripts, vendored code and circuits: no protocol
  state of their own, or superseded.
* Proof contents, SRS bytes, encryption, what the PXE stores and the Aztec contracts
  are data or external. `PendingTxStore.clearSettled`, `TokenStore.reset`,
  `deleteVault` and `resetStoreKey` have no callers.
* The token list: `deployToken` writes it before it tracks the transaction, the
  shape of `DeployNoticed` and `DeployResumes` once more.

## 7. Plan

Done: `NativeProver`, `AmmSetup`, `TxStore`, `WalletSession` and `Bootstrap`, with
proofs of every safety property their passing runs check.

Next, in this order:

1. An action property across `Bootstrap` and `TxStore`: an account that has been
   deployed is never onboarded over, from `AccountIsKept` and `DeployedIsTrue`.
2. An abstract specification of a call as its caller sees it (posted, then one of
   returned, failed, aborted, timed out, crashed) and the refinement from
   `WalletSession`, whose `Promises` and `Channels` are most of its proof.
3. What holds of `Bootstrap` past `stale`: which of `Solo`, `KeysInOrder` and
   `Staged` a second boot leaves alone.
4. The hazards without a property: a retried onboarding, the lost reply of
   `addLiquidity`, the order of `deployToken`'s two writes, overlapping balance
   refreshes.
