------------------------------- MODULE TxStore ---------------------------------
(***************************************************************************)
(* What survives the death of the app: account onboarding against the      *)
(* sealed vault, the PendingTxStore and its receipt poller, with the app   *)
(* killed, or its page lost, between any two awaits.                       *)
(*                                                                         *)
(* A write to storage captures its value when it is issued and lands       *)
(* later; the code that awaits it goes on when it has landed.  Writes of   *)
(* the table of transactions land in the order of issue (AsyncStorage runs *)
(* them one by one); a vault is sealed by a thread of its own before it is *)
(* written, so that it may land before or after any other write.  Hashes   *)
(* are numbered in the order in which the node accepts transactions,       *)
(* accounts in the order in which their keys are generated.                *)
(***************************************************************************)
EXTENDS Naturals, Sequences, FiniteSetsExt

CONSTANTS
  Polls,         \* the polls that may overlap
  MaxTxs,        \* bound on the transactions accepted
  MaxAccounts,   \* bound on the accounts generated
  MaxFaults      \* bound on the faults: deaths of the app or of its page, pruned blocks

ASSUME PollsAssumption == "flow" \notin Polls
ASSUME BoundsAssumption ==
  MaxTxs \in Nat \ {0} /\ MaxAccounts \in Nat \ {0} /\ MaxFaults \in Nat

Hashes == 1..MaxTxs
Accounts == 1..MaxAccounts
None == 0

VARIABLES
  (* memory *)
  phase,      \* "down", "boot" (no page, or one that boots), "onboarding" or "ready"
  booting,    \* the page is lost or new: onWebViewReady has not restored the vault
  memVault,   \* WalletController.vault
  memTxs,     \* PendingTxStore.txs: the status of each transaction
  flow,       \* the flow behind the busy lock: where it stands, its transaction
  poll,       \* each poll: where it stands, what is left, its receipt
  poller,     \* the interval timer is set
  (* storage *)
  seals,      \* the vaults being sealed and written
  writes,     \* the tables of transactions issued that have not landed
  diskVault,  \* wallet/vault.sealed
  diskTxs,    \* wallet/txs.v1
  (* the node *)
  node,       \* what the node knows of each transaction
  owner,      \* the account a transaction deploys; None for any other kind
  mined,      \* the results each transaction has had in a block
  old,        \* the transactions older than the grace window
  (* counters *)
  generated,  \* the accounts generated so far
  faults

memory == <<phase, booting, memVault, memTxs, flow, poll, poller>>
disk == <<seals, writes, diskVault, diskTxs>>
chain == <<node, owner, mined, old>>
vars == <<memory, disk, chain, generated, faults>>

Mined == {"success", "reverted"}
Settled == Mined \cup {"dropped"}
Statuses == {"none", "submitted", "pending"} \cup Settled

NoVault == [account |-> None, deployTx |-> None, deployed |-> FALSE]
NoTxs == [h \in Hashes |-> "none"]
IdleFlow == [step |-> "idle", tx |-> None]
IdlePoll == [step |-> "idle", todo |-> {}, before |-> "none", receipt |-> "none"]

Init ==
  /\ phase = "onboarding" /\ booting = FALSE
  /\ memVault = NoVault /\ memTxs = NoTxs
  /\ flow = IdleFlow /\ poll = [p \in Polls |-> IdlePoll] /\ poller = FALSE
  /\ seals = {} /\ writes = <<>> /\ diskVault = NoVault /\ diskTxs = NoTxs
  /\ node = [h \in Hashes |-> "absent"] /\ owner = [h \in Hashes |-> None]
  /\ mined = [h \in Hashes |-> {}] /\ old = {}
  /\ generated = 0 /\ faults = 0

-------------------------------------------------------------------------------
(* Storage. *)

\* saveVault, called by `by` with the vault v.
Seal(v, by) == seals' = seals \cup {[value |-> v, by |-> by]}

\* A vault is sealed and written; its issuer goes on.
VaultLands(by) ==
  /\ \E s \in seals : s.by = by /\ diskVault' = s.value /\ seals' = seals \ {s}
  /\ UNCHANGED diskTxs

\* Mutant: a later write may overtake an earlier one.
PersistOvertaking(table, by) == writes' = <<[value |-> table, by |-> by]>> \o writes

\* PendingTxStore.persist, called by `by`.
Persist(table, by) == writes' = Append(writes, [value |-> table, by |-> by])

\* The oldest table lands; its issuer goes on.
TableLands(by) ==
  /\ writes # <<>>
  /\ Head(writes).by = by
  /\ diskTxs' = Head(writes).value
  /\ writes' = Tail(writes)
  /\ UNCHANGED diskVault

-------------------------------------------------------------------------------
(* Flows. *)

At(step) == flow.step = step
Goto(step) == flow' = [flow EXCEPT !.step = step]

\* Mutant: the keys are sealed with the deployment's hash, not before it.
OnboardUnsealed ==
  /\ phase = "onboarding" /\ At("idle") /\ generated < MaxAccounts
  /\ generated' = generated + 1
  /\ memVault' = [NoVault EXCEPT !.account = generated']
  /\ Goto("deploy")
  /\ UNCHANGED <<phase, booting, memTxs, poll, poller, disk, chain, faults>>

\* onboardCreateAccount: new keys, sealed before anything else.
Onboard ==
  /\ phase = "onboarding" /\ At("idle") /\ generated < MaxAccounts
  /\ generated' = generated + 1
  /\ memVault' = [NoVault EXCEPT !.account = generated']
  /\ Seal(memVault', "flow")
  /\ Goto("seal")
  /\ UNCHANGED <<phase, booting, memTxs, poll, poller, writes, diskVault, diskTxs, chain, faults>>

\* createAccount is called, and deployAccount once the address it returned has
\* been saved.
Sealed ==
  /\ VaultLands("flow")
  /\ flow.step \in {"seal", "cache"}
  /\ Goto(IF At("seal") THEN "create" ELSE "deploy")
  /\ UNCHANGED <<phase, booting, memVault, memTxs, poll, poller, writes, chain, generated, faults>>

CreateReturns ==
  /\ At("create")
  /\ Seal(memVault, "flow")
  /\ Goto("cache")
  /\ UNCHANGED <<phase, booting, memVault, memTxs, poll, poller, writes, diskVault, diskTxs,
                 chain, generated, faults>>

\* transfer, mint, set_minter, add_liquidity, within the bound on transactions.
StartSend ==
  /\ phase = "ready" /\ At("idle") /\ \E h \in Hashes : node[h] = "absent"
  /\ Goto("send")
  /\ UNCHANGED <<phase, booting, memVault, memTxs, poll, poller, disk, chain, generated, faults>>

\* The node accepts the transaction of the call in flight.
Submit(h) ==
  /\ flow.step \in {"deploy", "send"} /\ flow.tx = None
  /\ node[h] = "absent" /\ \A g \in Hashes : g < h => node[g] # "absent"
  /\ node' = [node EXCEPT ![h] = "unseen"]
  /\ owner' = [owner EXCEPT ![h] = IF At("deploy") THEN memVault.account ELSE None]
  /\ flow' = [flow EXCEPT !.tx = h]
  /\ UNCHANGED <<phase, booting, memVault, memTxs, poll, poller, disk, mined, old, generated, faults>>

\* The call rejects: cancelled, failed, timed out, or its reply is lost.
FlowFails ==
  /\ flow.step \in {"create", "deploy", "send"}
  /\ flow' = IdleFlow
  /\ UNCHANGED <<phase, booting, memVault, memTxs, poll, poller, disk, chain, generated, faults>>

\* PendingTxStore.add: in memory first, then the write.
Add ==
  /\ memTxs' = [memTxs EXCEPT ![flow.tx] = "submitted"]
  /\ Persist(memTxs', "flow")
  /\ Goto("track")

DeployReturns ==
  /\ At("deploy") /\ flow.tx # None
  /\ memVault' = [memVault EXCEPT !.deployTx = flow.tx]
  /\ Seal(memVault', "flow")
  /\ Goto("hash")
  /\ UNCHANGED <<phase, booting, memTxs, poll, poller, writes, diskVault, diskTxs, chain, generated, faults>>

\* The vault holds the hash; now the transaction is tracked.
HashSealed ==
  /\ VaultLands("flow")
  /\ At("hash")
  /\ Add
  /\ UNCHANGED <<phase, booting, memVault, poll, poller, chain, generated, faults>>

SendReturns ==
  /\ At("send") /\ flow.tx # None
  /\ Add
  /\ UNCHANGED <<phase, booting, memVault, poll, poller, seals, diskVault, diskTxs, chain, generated, faults>>

\* onboardCreateAccount shows the wallet, booting or not; no other flow does.
Shown == IF owner[flow.tx] # None THEN "ready" ELSE phase

\* Mutant: the poller is not started again.
TrackedUnpolled ==
  /\ TableLands("flow")
  /\ At("track")
  /\ phase' = Shown
  /\ flow' = IdleFlow
  /\ UNCHANGED <<booting, memVault, memTxs, poll, poller, seals, chain, generated, faults>>

\* track ends: the poller runs, the flow ends.
Tracked ==
  /\ TableLands("flow")
  /\ At("track")
  /\ poller' = TRUE
  /\ phase' = Shown
  /\ flow' = IdleFlow
  /\ UNCHANGED <<booting, memVault, memTxs, poll, seals, chain, generated, faults>>

-------------------------------------------------------------------------------
(* The receipt poller. *)

Unsettled == {h \in Hashes : memTxs[h] \in {"submitted", "pending"}}
Polled(p) == Min(poll[p].todo)

\* The interval fires: nothing left to poll stops it, a lost page has it wait.
Tick(p) ==
  /\ poller
  /\ poll[p].step = "idle"
  /\ poller' = (Unsettled # {})
  /\ poll' = IF Unsettled = {} \/ phase = "boot" THEN poll
             ELSE [poll EXCEPT ![p].step = "ask", ![p].todo = Unsettled]
  /\ UNCHANGED <<phase, booting, memVault, memTxs, flow, disk, chain, generated, faults>>

\* Mutant: the node's own words.
ReportRaw(h) == node[h]

\* What getTxReceipt says: "dropped" for a transaction its mempool does not hold,
\* be it gone or not seen yet.
Report(h) == IF node[h] \in {"unseen", "gone"} THEN "dropped" ELSE node[h]

\* The receipt as it is when the node reads it; it may be stale when it arrives.
NodeAnswers(p) ==
  /\ poll[p].step = "ask"
  /\ poll' = [poll EXCEPT ![p].step = "answered", ![p].receipt = Report(Polled(p))]
  /\ UNCHANGED <<phase, booting, memVault, memTxs, flow, poller, disk, chain, generated, faults>>

\* On to the next transaction of the poll.
Continued(p) ==
  LET rest == poll[p].todo \ {Polled(p)} IN
  IF rest = {} THEN IdlePoll ELSE [IdlePoll EXCEPT !.step = "ask", !.todo = rest]

Continue(p) == poll' = [poll EXCEPT ![p] = Continued(p)]

\* A network error, a page without a session, or the call's timer.
ReceiptFails(p) ==
  /\ poll[p].step \in {"ask", "answered"}
  /\ Continue(p)
  /\ UNCHANGED <<phase, booting, memVault, memTxs, flow, poller, disk, chain, generated, faults>>

\* Mutant: no grace window.
JudgedAtOnce(h, receipt) == receipt

\* The status that applyReceipt gives an unsettled transaction.
Judged(h, receipt) ==
  IF receipt = "dropped" /\ h \notin old THEN memTxs[h] ELSE receipt

\* Mutant: a settled transaction is judged again.
ReceiptAppliedTwice(p) ==
  /\ poll[p].step = "answered"
  /\ memTxs' = [memTxs EXCEPT ![Polled(p)] = Judged(Polled(p), poll[p].receipt)]
  /\ Persist(memTxs', p)
  /\ poll' = [poll EXCEPT ![p].step = "apply", ![p].before = memTxs[Polled(p)],
                                  ![p].receipt = "none"]
  /\ UNCHANGED <<phase, booting, memVault, flow, poller, seals, diskVault, diskTxs, chain, generated, faults>>

\* applyReceipt: a poll that comes late to a settled transaction goes on.
ReceiptApplied(p) ==
  /\ poll[p].step = "answered"
  /\ IF Polled(p) \notin Unsettled
     THEN Continue(p) /\ UNCHANGED <<memTxs, writes>>
     ELSE /\ memTxs' = [memTxs EXCEPT ![Polled(p)] = Judged(Polled(p), poll[p].receipt)]
          /\ Persist(memTxs', p)
          /\ poll' = [poll EXCEPT ![p].step = "apply", ![p].before = memTxs[Polled(p)],
                                  ![p].receipt = "none"]
  /\ UNCHANGED <<phase, booting, memVault, flow, poller, seals, diskVault, diskTxs, chain, generated, faults>>

\* Mutant: mined is good enough.
DeployMined(p) ==
  /\ memTxs[Polled(p)] \notin {poll[p].before, "dropped"}
  /\ owner[Polled(p)] # None

\* The poll sees the account's deployment succeed.
DeployConfirmed(p) ==
  /\ memTxs[Polled(p)] # poll[p].before
  /\ memTxs[Polled(p)] = "success"
  /\ owner[Polled(p)] # None

\* The status is saved; markAccountDeployed follows a confirmed deployment.
ReceiptSaved(p) ==
  /\ TableLands(p)
  /\ poll[p].step = "apply"
  /\ IF DeployConfirmed(p) /\ memVault.account # None /\ ~memVault.deployed
     THEN /\ memVault' = [memVault EXCEPT !.deployed = TRUE]
          /\ Seal(memVault', p)
          /\ poll' = [poll EXCEPT ![p].step = "mark", ![p].before = "none"]
     ELSE Continue(p) /\ UNCHANGED <<memVault, seals>>
  /\ UNCHANGED <<phase, booting, memTxs, flow, poller, chain, generated, faults>>

MarkSaved(p) ==
  /\ VaultLands(p)
  /\ poll[p].step = "mark"
  /\ Continue(p)
  /\ UNCHANGED <<phase, booting, memVault, memTxs, flow, poller, writes, chain, generated, faults>>

-------------------------------------------------------------------------------
(* The app dies and starts, its page is lost and boots. *)

Kill ==
  /\ phase # "down" /\ faults < MaxFaults
  /\ faults' = faults + 1
  /\ phase' = "down" /\ booting' = FALSE
  /\ memVault' = NoVault /\ memTxs' = NoTxs
  /\ flow' = IdleFlow /\ poll' = [p \in Polls |-> IdlePoll] /\ poller' = FALSE
  /\ seals' = {} /\ writes' = <<>>
  /\ UNCHANGED <<diskVault, diskTxs, chain, generated>>

\* start: the records are read before the page is shown.
Start ==
  /\ phase = "down"
  /\ memTxs' = diskTxs
  /\ phase' = "boot" /\ booting' = TRUE
  /\ UNCHANGED <<memVault, flow, poll, poller, disk, chain, generated, faults>>

\* The page crashes, which stops the poller, or is replaced: every pending call
\* rejects.  A flow or a poll at a storage write does not notice.
PageLost ==
  /\ phase # "down" /\ faults < MaxFaults
  /\ faults' = faults + 1
  /\ phase' = "boot" /\ booting' = TRUE
  /\ flow' = IF flow.step \in {"create", "deploy", "send"} THEN IdleFlow ELSE flow
  /\ poll' = [p \in Polls |-> IF poll[p].step \in {"ask", "answered"} THEN Continued(p) ELSE poll[p]]
  /\ poller' \in {poller, FALSE}
  /\ UNCHANGED <<memVault, memTxs, disk, chain, generated>>

\* onWebViewReady ends: an account in the vault is restored, deployed or not.
\* Assumed: by the time the boot reads the vault, an onboarding flow that was at a
\* storage write has come to its next call and failed there, since the new page has
\* no session yet (Bootstrap shows what happens otherwise).
Boot ==
  /\ booting
  /\ flow.step \notin {"seal", "create", "cache", "deploy", "hash"}
  /\ booting' = FALSE
  /\ memVault' = diskVault
  /\ phase' = IF diskVault.account = None THEN "onboarding" ELSE "ready"
  /\ poller' = (poller \/ diskVault.account # None)
  /\ UNCHANGED <<memTxs, flow, poll, disk, chain, generated, faults>>

-------------------------------------------------------------------------------
(* The node and the clock. *)

NodeStep(h, from, to) ==
  /\ node[h] \in from
  /\ node' = [node EXCEPT ![h] = to]
  /\ mined' = IF to \in Mined THEN [mined EXCEPT ![h] = @ \cup {to}] ELSE mined
  /\ UNCHANGED <<memory, disk, owner, old, generated>>

\* A mined receipt is assumed to carry its result (isSucceeded takes a receipt
\* without one for a success).
NodeSees(h) == NodeStep(h, {"unseen"}, "pending") /\ UNCHANGED faults
NodeMines(h, result) == NodeStep(h, {"pending"}, result) /\ UNCHANGED faults
NodeDrops(h) == NodeStep(h, {"unseen", "pending"}, "gone") /\ UNCHANGED faults

\* The store settles a transaction as soon as its block is proposed; such a block
\* may be pruned yet, and the transaction then waits for another.
NodePrunes(h) ==
  /\ faults < MaxFaults
  /\ faults' = faults + 1
  /\ NodeStep(h, Mined, "pending")

\* The grace window of an unsettled transaction ends.  It is longer than the node
\* needs to see a transaction and a receipt (30 s at most) to arrive together.
GraceEnds(h) ==
  /\ h \notin old
  /\ {memTxs[h], diskTxs[h]} \cap {"submitted", "pending"} # {}
  /\ node[h] # "unseen"
  /\ \A p \in Polls :
       poll[p].step = "answered" /\ poll[p].receipt = "dropped" /\ Polled(p) = h => node[h] = "gone"
  /\ old' = old \cup {h}
  /\ UNCHANGED <<memory, disk, node, owner, mined, generated, faults>>

-------------------------------------------------------------------------------

FlowStep ==
  \/ Onboard \/ Sealed \/ CreateReturns \/ StartSend \/ FlowFails
  \/ DeployReturns \/ HashSealed \/ SendReturns \/ Tracked

PollStep ==
  \E p \in Polls :
    \/ Tick(p) \/ NodeAnswers(p) \/ ReceiptFails(p)
    \/ ReceiptApplied(p) \/ ReceiptSaved(p) \/ MarkSaved(p)

ExternalStep ==
  \E h \in Hashes :
    \/ Submit(h) \/ NodeSees(h) \/ NodeDrops(h) \/ NodePrunes(h) \/ GraceEnds(h)
    \/ \E result \in Mined : NodeMines(h, result)

Next == FlowStep \/ PollStep \/ ExternalStep \/ Kill \/ Start \/ PageLost \/ Boot

Spec == Init /\ [][Next]_vars

-------------------------------------------------------------------------------
(* Properties. *)

Vaults == [account : Accounts \cup {None}, deployTx : Hashes \cup {None}, deployed : BOOLEAN]
Tables == [Hashes -> Statuses]
FlowSteps == {"idle", "seal", "create", "cache", "deploy", "hash", "send", "track"}
Flows == [step : FlowSteps, tx : Hashes \cup {None}]
PollStates == [step : {"idle", "ask", "answered", "apply", "mark"}, todo : SUBSET Hashes,
               before : Statuses, receipt : {"none", "pending"} \cup Settled]
Writers == Polls \cup {"flow"}
Writes(values) == [value : values, by : Writers]
NodeStates == {"absent", "unseen", "pending", "success", "reverted", "gone"}

\* Type correctness.
TypeOK ==
  /\ phase \in {"down", "boot", "onboarding", "ready"} /\ booting \in BOOLEAN
  /\ memVault \in Vaults /\ diskVault \in Vaults
  /\ memTxs \in Tables /\ diskTxs \in Tables
  /\ flow \in Flows
  /\ poll \in [Polls -> PollStates]
  /\ poller \in BOOLEAN
  /\ seals \subseteq Writes(Vaults)
  /\ writes \in Seq(Writes(Tables))
  /\ node \in [Hashes -> NodeStates]
  /\ owner \in [Hashes -> Accounts \cup {None}]
  /\ mined \in [Hashes -> SUBSET Mined]
  /\ old \subseteq Hashes
  /\ generated \in 0..MaxAccounts /\ faults \in 0..MaxFaults

\* "A crash mid-deploy must not lose the keys": when the node has accepted the
\* deployment of an account, its keys are sealed on disk, unless the user has
\* since started over with new ones.
KeysSealed == \A h \in Hashes : owner[h] <= diskVault.account

\* A hash is on disk from the moment its flow has ended, and stays there through
\* the writes of overlapping polls and through restarts.
TrackedIsDurable ==
  \A h \in Hashes :
    memTxs[h] # "none" /\ ~(At("track") /\ flow.tx = h) => diskTxs[h] # "none"

\* The store never contradicts the node: a transaction it has settled, on stale or
\* transient receipts, in any order, has been in a block with that result, or is
\* gone for good if it was settled as dropped.
SettledAgrees ==
  \A h \in Hashes : \A status \in {memTxs[h], diskTxs[h]} \cap Settled :
    IF status = "dropped" THEN node[h] = "gone" ELSE status \in mined[h]

\* An account is marked deployed only when its own deployment has succeeded.
DeployedIsConfirmed ==
  \A vault \in {memVault, diskVault} :
    vault.deployed => \E h \in Hashes : owner[h] = vault.account /\ "success" \in mined[h]

\* No transaction is left unwatched: while some are unsettled the poller runs.
PollerRuns == phase = "ready" /\ Unsettled # {} => poller \/ At("track")

\* What restarts find recorded follows the life cycle of TxLifecycle.
Lifecycle == INSTANCE TxLifecycle WITH status <- diskTxs
RecordsLifecycle == Lifecycle!Spec

Quiet == At("idle") /\ seals = {} /\ writes = <<>> /\ \A p \in Polls : poll[p].step = "idle"

\* README: the hash is persisted immediately and polling resumes across restarts;
\* so a deployment that has succeeded is known as such, or is still polled.
DeployNoticed ==
  phase = "ready" /\ Quiet /\ memVault.deployTx # None /\ ~memVault.deployed =>
    (node[memVault.deployTx] = "success" => memVault.deployTx \in Unsettled)
===============================================================================
