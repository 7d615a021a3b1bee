------------------------------- MODULE AmmSetup --------------------------------
(***************************************************************************)
(* The guided AMM setup, a step machine persisted in the TokenStore and    *)
(* gated on the receipts in the PendingTxStore, and addLiquidity, which    *)
(* the last step unlocks, with the app killed between any two awaits.      *)
(* Each tap advances the setup by at most one step.                        *)
(*                                                                         *)
(* The store is used as TxLifecycle promises and TxStore provides:         *)
(* "submitted" stands for submitted and pending, and what is settled       *)
(* agrees with the node.  Assumed: what a block has once held stays in the *)
(* chain (TxStore has pruned blocks).  A contract is named by the          *)
(* transaction that deploys it.  Writes to storage land in the order of    *)
(* issue.                                                                  *)
(***************************************************************************)
EXTENDS Naturals, Sequences

CONSTANTS
  MaxTxs,    \* bound on the transactions accepted
  MaxKills   \* bound on the deaths of the app

ASSUME BoundsAssumption == MaxTxs \in Nat \ {0} /\ MaxKills \in Nat

Hashes == 1..MaxTxs
None == 0

VARIABLES
  up,        \* the app runs and its session is ready
  memAmm,    \* TokenStore.data.amm
  memTxs,    \* PendingTxStore.txs: the status of each transaction
  flow,      \* the flow behind the busy lock
  writes,    \* the writes issued that have not landed
  diskAmm,   \* wallet/tokens.v1
  diskTxs,   \* wallet/txs.v1
  node,      \* the node's final word on each accepted transaction
  about,     \* the call that submitted a transaction and the pair it is about
  kills

memory == <<up, memAmm, memTxs, flow>>
disk == <<diskAmm, diskTxs>>
vars == <<memory, writes, disk, node, about, kills>>

NoAmm == [step |-> "none", lp |-> None, amm |-> None, setMinter |-> None]
NoTxs == [h \in Hashes |-> "none"]
\* lp, amm and tx: what the call in flight has got accepted.
IdleFlow == [step |-> "idle", lp |-> None, amm |-> None, tx |-> None]

\* A deployed pair: the liquidity token and the AMM.
Pair(amm) == <<amm.lp, amm.amm>>
Unsent == [call |-> "none", pair |-> <<None, None>>]

Init ==
  /\ up = TRUE /\ memAmm = NoAmm /\ memTxs = NoTxs /\ flow = IdleFlow
  /\ writes = <<>> /\ diskAmm = NoAmm /\ diskTxs = NoTxs
  /\ node = NoTxs /\ about = [h \in Hashes |-> Unsent]
  /\ kills = 0

-------------------------------------------------------------------------------
(* Storage. *)

Issue(queue, key, value, by) == Append(queue, [key |-> key, value |-> value, by |-> by])

SetAmm(queue, amm) ==
  /\ memAmm' = amm
  /\ writes' = Issue(queue, "amm", amm, "flow")

Track(queue, h) ==
  /\ memTxs' = [memTxs EXCEPT ![h] = "submitted"]
  /\ writes' = Issue(queue, "txs", memTxs', "flow")

\* The oldest write lands; `by` awaits it.
Landed(by) ==
  /\ writes # <<>>
  /\ Head(writes).by = by
  /\ diskAmm' = IF Head(writes).key = "amm" THEN Head(writes).value ELSE diskAmm
  /\ diskTxs' = IF Head(writes).key = "txs" THEN Head(writes).value ELSE diskTxs

-------------------------------------------------------------------------------
(* ammSetup. *)

At(step) == flow.step = step
Goto(step) == flow' = [flow EXCEPT !.step = step]

\* What AmmScreen offers depends on the step, and on no flow being under way.
Tap(step) == up /\ At("idle") /\ memAmm.step = step

\* findTx finds nothing for a transaction that is not tracked.
Status(h) == IF h = None THEN "none" ELSE memTxs[h]

\* Mutant: what has not succeeded has failed.
NotSucceeded(h) == Status(h) # "success"

TxFailed(h) == Status(h) \in {"dropped", "reverted"}

\* Mutant: any receipt will do.
TxMined(h) == Status(h) \in {"success", "reverted", "dropped"}

TxSucceeded(h) == Status(h) = "success"

StartDeploy ==
  /\ Tap("none")
  /\ Goto("deploy")
  /\ UNCHANGED <<up, memAmm, memTxs, writes, disk, node, about, kills>>

\* A failed deployment: start again.
Rewind ==
  /\ Tap("deploying")
  /\ TxFailed(memAmm.amm) \/ TxFailed(memAmm.lp)
  /\ SetAmm(writes, NoAmm)
  /\ Goto("rewind")
  /\ UNCHANGED <<up, memTxs, disk, node, about, kills>>

\* Both deployments are confirmed, or an earlier set_minter has failed.
StartSetMinter ==
  /\ \/ /\ Tap("deploying")
        /\ TxSucceeded(memAmm.amm) /\ TxSucceeded(memAmm.lp)
     \/ /\ Tap("set-minter")
        /\ TxFailed(memAmm.setMinter) \/ memAmm.setMinter = None
  /\ Goto("set-minter")
  /\ UNCHANGED <<up, memAmm, memTxs, writes, disk, node, about, kills>>

\* set_minter is confirmed.
Complete ==
  /\ Tap("set-minter")
  /\ ~TxFailed(memAmm.setMinter)
  /\ TxSucceeded(memAmm.setMinter)
  /\ SetAmm(writes, [memAmm EXCEPT !.step = "ready"])
  /\ Goto("complete")
  /\ UNCHANGED <<up, memTxs, disk, node, about, kills>>

\* Mutant: an AMM that has been deployed will do.
LiquidityUngated ==
  /\ up /\ At("idle") /\ memAmm.amm # None
  /\ Goto("liquidity")
  /\ UNCHANGED <<up, memAmm, memTxs, writes, disk, node, about, kills>>

\* ammAddLiquidity: only once the setup is complete.
AddLiquidity ==
  /\ Tap("ready")
  /\ Goto("liquidity")
  /\ UNCHANGED <<up, memAmm, memTxs, writes, disk, node, about, kills>>

\* The call rejects, whatever it has submitted.
CallFails ==
  /\ flow.step \in {"deploy", "set-minter", "liquidity"}
  /\ flow' = IdleFlow
  /\ UNCHANGED <<up, memAmm, memTxs, writes, disk, node, about, kills>>

\* Mutant: the first deployment will do.
DeployReturnsEarly ==
  /\ At("deploy") /\ flow.lp # None
  /\ SetAmm(writes, [NoAmm EXCEPT !.step = "deploying", !.lp = flow.lp, !.amm = flow.amm])
  /\ Goto("track-amm")
  /\ UNCHANGED <<up, memTxs, disk, node, about, kills>>

\* deployAmm returns: the step is saved, then the AMM is tracked, then the token.
DeployReturns ==
  /\ At("deploy") /\ flow.amm # None
  /\ SetAmm(writes, [NoAmm EXCEPT !.step = "deploying", !.lp = flow.lp, !.amm = flow.amm])
  /\ Goto("track-amm")
  /\ UNCHANGED <<up, memTxs, disk, node, about, kills>>

DeploySaved ==
  /\ Landed("flow")
  /\ \/ At("track-amm") /\ Goto("track-lp") /\ Track(Tail(writes), flow.amm)
     \/ At("track-lp") /\ Goto("tracked") /\ Track(Tail(writes), flow.lp)
  /\ UNCHANGED <<up, memAmm, node, about, kills>>

\* setLiquidityMinter returns: it is tracked, then the step is saved.
SetMinterReturns ==
  /\ At("set-minter") /\ flow.tx # None
  /\ Track(writes, flow.tx)
  /\ Goto("save-minter")
  /\ UNCHANGED <<up, memAmm, disk, node, about, kills>>

SetMinterTracked ==
  /\ Landed("flow")
  /\ At("save-minter")
  /\ SetAmm(Tail(writes), [memAmm EXCEPT !.step = "set-minter", !.setMinter = flow.tx])
  /\ Goto("saved")
  /\ UNCHANGED <<up, memTxs, node, about, kills>>

\* addLiquidity returns: it is tracked.
LiquidityReturns ==
  /\ At("liquidity") /\ flow.tx # None
  /\ Track(writes, flow.tx)
  /\ Goto("tracked")
  /\ UNCHANGED <<up, memAmm, disk, node, about, kills>>

\* The flow's last write has landed.
FlowEnds ==
  /\ Landed("flow")
  /\ flow.step \in {"tracked", "saved", "rewind", "complete"}
  /\ flow' = IdleFlow
  /\ writes' = Tail(writes)
  /\ UNCHANGED <<up, memAmm, memTxs, node, about, kills>>

-------------------------------------------------------------------------------
(* The poller, the node, and the app's death. *)

\* A settling receipt reaches applyReceipt (see TxStore).
Poll(h) ==
  /\ up
  /\ memTxs[h] = "submitted"
  /\ node[h] # "submitted"
  /\ memTxs' = [memTxs EXCEPT ![h] = node[h]]
  /\ writes' = Issue(writes, "txs", memTxs', "poll")
  /\ UNCHANGED <<up, memAmm, flow, disk, node, about, kills>>

PollSaved ==
  /\ Landed("poll")
  /\ writes' = Tail(writes)
  /\ UNCHANGED <<memory, node, about, kills>>

\* The node accepts the next transaction, which the call in flight has sent.
Accept(h, call, pair) ==
  /\ node[h] = "none" /\ \A g \in Hashes : g < h => node[g] # "none"
  /\ node' = [node EXCEPT ![h] = "submitted"]
  /\ about' = [about EXCEPT ![h] = [call |-> call, pair |-> pair]]
  /\ UNCHANGED <<up, memAmm, memTxs, writes, disk, kills>>

\* deployAmm deploys the liquidity token, then the AMM.
SubmitDeploy(h) ==
  /\ At("deploy") /\ flow.amm = None
  /\ flow' = IF flow.lp = None THEN [flow EXCEPT !.lp = h] ELSE [flow EXCEPT !.amm = h]
  /\ Accept(h, "deploy", <<None, None>>)

SubmitSetMinter(h) ==
  /\ At("set-minter") /\ flow.tx = None
  /\ flow' = [flow EXCEPT !.tx = h]
  /\ Accept(h, "set-minter", Pair(memAmm))

\* The two authwits are created on the device; add_liquidity carries them.
SubmitLiquidity(h) ==
  /\ At("liquidity") /\ flow.tx = None
  /\ flow' = [flow EXCEPT !.tx = h]
  /\ Accept(h, "liquidity", Pair(memAmm))

NodeSettles(h, result) ==
  /\ node[h] = "submitted"
  /\ node' = [node EXCEPT ![h] = result]
  /\ UNCHANGED <<memory, writes, disk, about, kills>>

Kill ==
  /\ up /\ kills < MaxKills
  /\ kills' = kills + 1
  /\ up' = FALSE
  /\ memAmm' = NoAmm /\ memTxs' = NoTxs /\ flow' = IdleFlow /\ writes' = <<>>
  /\ UNCHANGED <<disk, node, about>>

Boot ==
  /\ ~up
  /\ up' = TRUE
  /\ memAmm' = diskAmm /\ memTxs' = diskTxs
  /\ UNCHANGED <<flow, writes, disk, node, about, kills>>

-------------------------------------------------------------------------------

Outcomes == {"success", "reverted", "dropped"}

FlowStep ==
  \/ StartDeploy \/ Rewind \/ StartSetMinter \/ Complete \/ AddLiquidity \/ CallFails
  \/ DeployReturns \/ DeploySaved \/ SetMinterReturns \/ SetMinterTracked
  \/ LiquidityReturns \/ FlowEnds

Next ==
  \/ FlowStep
  \/ PollSaved \/ Kill \/ Boot
  \/ \E h \in Hashes :
       \/ SubmitDeploy(h) \/ SubmitSetMinter(h) \/ SubmitLiquidity(h)
       \/ Poll(h) \/ \E result \in Outcomes : NodeSettles(h, result)

Spec == Init /\ [][Next]_vars

-------------------------------------------------------------------------------
(* Properties. *)

HashOrNone == Hashes \cup {None}
Statuses == {"none", "submitted"} \cup Outcomes
Amms ==
  {NoAmm}
    \cup [step : {"deploying"}, lp : Hashes, amm : Hashes, setMinter : {None}]
    \cup [step : {"set-minter", "ready"}, lp : Hashes, amm : Hashes, setMinter : Hashes]

FlowSteps == {"idle", "deploy", "track-amm", "track-lp", "tracked", "set-minter",
              "save-minter", "saved", "rewind", "complete", "liquidity"}
Flows == [step : FlowSteps, lp : HashOrNone, amm : HashOrNone, tx : HashOrNone]
TxTables == [Hashes -> Statuses]
Writes == [key : {"amm"}, value : Amms, by : {"flow"}]
            \cup [key : {"txs"}, value : TxTables, by : {"flow", "poll"}]
Submissions == [call : {"none", "deploy", "set-minter", "liquidity"},
                pair : HashOrNone \X HashOrNone]

\* Type correctness; a step that is kept names the transactions it rests on.
TypeOK ==
  /\ up \in BOOLEAN /\ kills \in 0..MaxKills
  /\ memAmm \in Amms /\ diskAmm \in Amms
  /\ memTxs \in TxTables /\ diskTxs \in TxTables
  /\ flow \in Flows
  /\ writes \in Seq(Writes)
  /\ node \in TxTables
  /\ about \in [Hashes -> Submissions]

MinterSet(h, pair) ==
  node[h] = "success" /\ about[h] = [call |-> "set-minter", pair |-> pair]

\* A submitted-but-unconfirmed or reverted transaction never advances the setup:
\* what is persisted or acted upon is past a step only if the transactions of that
\* step, and for that very pair of contracts, have succeeded on chain.
StepsConfirmed ==
  \A amm \in {memAmm, diskAmm} :
    /\ amm.step \in {"set-minter", "ready"} => node[amm.lp] = "success" /\ node[amm.amm] = "success"
    /\ amm.step = "ready" => MinterSet(amm.setMinter, Pair(amm))

\* Liquidity is only ever sent into a pair whose two contracts are on chain, with
\* the AMM as the minter, whatever died, failed or was retried on the way.
LiquidityIntoWorkingAmm ==
  \A h \in Hashes : about[h].call = "liquidity" =>
    LET pair == about[h].pair IN
      /\ \A contract \in {pair[1], pair[2]} : node[contract] = "success"
      /\ \E minter \in Hashes : MinterSet(minter, pair)

Rank(step) == CASE step = "none" -> 0 [] step = "deploying" -> 1
                [] step = "set-minter" -> 2 [] step = "ready" -> 3

\* Restarts or not, what is on disk never goes back, except that a deployment one
\* half of which has failed on chain is given up.
NeverRewinds ==
  [][ \/ /\ Rank(diskAmm'.step) >= Rank(diskAmm.step)
         /\ diskAmm.step # "none" => Pair(diskAmm') = Pair(diskAmm)
      \/ /\ diskAmm.step = "deploying" /\ diskAmm'.step = "none"
         /\ \E h \in {diskAmm.lp, diskAmm.amm} : node[h] \in {"reverted", "dropped"}
    ]_vars

Quiet == At("idle") /\ writes = <<>>

\* tokenStore.ts: each completed step persists immediately so that a restart
\* resumes mid-flow; so deployments that are awaited are tracked.
DeployResumes ==
  up /\ Quiet /\ memAmm.step = "deploying" =>
    memTxs[memAmm.lp] # "none" /\ memTxs[memAmm.amm] # "none"
===============================================================================
