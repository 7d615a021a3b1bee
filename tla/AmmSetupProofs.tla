----------------------------- MODULE AmmSetupProofs -----------------------------
(***************************************************************************)
(* Proofs about AmmSetup, for any number of transactions and of deaths of  *)
(* the app: no step of the setup, in memory, on disk or on its way to the  *)
(* disk, rests on a transaction that has not succeeded, and liquidity is   *)
(* only sent into a pair that works.                                       *)
(*                                                                         *)
(* What a value may say depends on the chain only, so the facts below take *)
(* the chain (n for node, a for about) as parameters: they hold of a value *)
(* wherever it is kept, before and after a step.                           *)
(***************************************************************************)
EXTENDS AmmSetup, TLAPS

\* What the steps of a setup claim is so on the chain.
ConfirmedIn(n, a, amm) ==
  /\ amm.step \in {"set-minter", "ready"} =>
       /\ n[amm.lp] = "success" /\ n[amm.amm] = "success"
       /\ n[amm.setMinter] # "none"
       /\ a[amm.setMinter] = [call |-> "set-minter", pair |-> Pair(amm)]
  /\ amm.step = "ready" => n[amm.setMinter] = "success"

\* A table that has settled a transaction has settled it as the node has.
AgreesIn(n, txs) == \A h \in Hashes : txs[h] \in Outcomes => n[h] = txs[h]

GoodIn(n, a, w) == IF w.key = "amm" THEN ConfirmedIn(n, a, w.value) ELSE AgreesIn(n, w.value)

QueueIn(n, a, q) == q \in Seq(Writes) /\ \A i \in 1..Len(q) : GoodIn(n, a, q[i])

\* Whatever is kept, and whatever is on its way to the disk, is true.
Sound ==
  /\ ConfirmedIn(node, about, memAmm) /\ ConfirmedIn(node, about, diskAmm)
  /\ AgreesIn(node, memTxs) /\ AgreesIn(node, diskTxs)
  /\ QueueIn(node, about, writes)

\* What the flow behind the lock has already found out.
Flowing ==
  /\ ~up \/ At("idle") => flow = IdleFlow
  /\ flow.amm # None => flow.lp # None
  /\ flow.step \in {"set-minter", "save-minter"} =>
       /\ memAmm.step \in {"deploying", "set-minter"}
       /\ node[memAmm.lp] = "success" /\ node[memAmm.amm] = "success"
       /\ flow.tx # None =>
            /\ node[flow.tx] # "none"
            /\ about[flow.tx] = [call |-> "set-minter", pair |-> Pair(memAmm)]
  /\ At("save-minter") => flow.tx # None
  /\ At("liquidity") => memAmm.step = "ready"

\* The pair is deployed, with the AMM as the minter.
WorksIn(n, a, pair) ==
  /\ pair \in Hashes \X Hashes
  /\ n[pair[1]] = "success" /\ n[pair[2]] = "success"
  /\ \E h \in Hashes : n[h] = "success" /\ a[h] = [call |-> "set-minter", pair |-> pair]

Supplied == \A h \in Hashes : about[h].call = "liquidity" => WorksIn(node, about, about[h].pair)

IInv == TypeOK /\ Sound /\ Flowing /\ Supplied

\* How the chain may change: what it has settled stays, and so does what it knows of
\* the transactions it has accepted.
Grows(n, a, m, b) ==
  \A h \in Hashes :
    /\ n[h] \in Outcomes => m[h] = n[h]
    /\ n[h] # "none" => m[h] # "none" /\ b[h] = a[h]

USE BoundsAssumption

-------------------------------------------------------------------------------
(* Facts about values. *)

\* The set of setups, step by step.
LEMMA AmmShape ==
  ASSUME NEW amm \in Amms
  PROVE  /\ amm.step \in {"none", "deploying", "set-minter", "ready"}
         /\ amm.step = "none" => amm = NoAmm
         /\ amm.step # "none" => amm.lp \in Hashes /\ amm.amm \in Hashes
         /\ amm.step \in {"set-minter", "ready"} => amm.setMinter \in Hashes
  BY DEF Amms, NoAmm, None

\* A setup that is confirmed stays confirmed.
LEMMA ConfirmedKept ==
  ASSUME NEW n, NEW a, NEW m, NEW b, Grows(n, a, m, b),
         NEW amm \in Amms, ConfirmedIn(n, a, amm)
  PROVE  ConfirmedIn(m, b, amm)
  BY AmmShape DEF Grows, ConfirmedIn, Outcomes

\* A table that agrees with the chain goes on agreeing with it.
LEMMA AgreesKept ==
  ASSUME NEW n, NEW a, NEW m, NEW b, Grows(n, a, m, b), NEW txs, AgreesIn(n, txs)
  PROVE  AgreesIn(m, txs)
  BY DEF Grows, AgreesIn

\* A pair that works goes on working.
LEMMA WorksKept ==
  ASSUME NEW n, NEW a, NEW m, NEW b, Grows(n, a, m, b), NEW pair, WorksIn(n, a, pair)
  PROVE  WorksIn(m, b, pair)
<1>1. pair[1] \in Hashes /\ pair[2] \in Hashes
  BY DEF WorksIn
<1>2. PICK h \in Hashes : n[h] = "success" /\ a[h] = [call |-> "set-minter", pair |-> pair]
  BY DEF WorksIn
<1>3. m[h] = "success" /\ b[h] = a[h]
  BY <1>2 DEF Grows, Outcomes
<1>4. QED
  BY <1>1, <1>2, <1>3 DEF WorksIn, Grows, Outcomes

\* The queue of writes stays true when the chain grows ...
LEMMA QueueKept ==
  ASSUME NEW n, NEW a, NEW m, NEW b, Grows(n, a, m, b), NEW q, QueueIn(n, a, q)
  PROVE  QueueIn(m, b, q)
<1>1. SUFFICES ASSUME NEW i \in 1..Len(q) PROVE GoodIn(m, b, q[i])
  BY DEF QueueIn
<1>2. q[i] \in Writes /\ GoodIn(n, a, q[i])
  BY DEF QueueIn
<1>3. CASE q[i].key = "amm"
  <2>1. q[i].value \in Amms
    BY <1>2, <1>3 DEF Writes
  <2>2. QED
    BY <1>2, <1>3, <2>1, ConfirmedKept DEF GoodIn
<1>4. CASE q[i].key # "amm"
  BY <1>2, <1>4, AgreesKept DEF GoodIn
<1>5. QED
  BY <1>3, <1>4

\* ... when a true write is issued ...
LEMMA QueueAppend ==
  ASSUME NEW n, NEW a, NEW q, QueueIn(n, a, q), NEW w \in Writes, GoodIn(n, a, w)
  PROVE  QueueIn(n, a, Append(q, w))
<1>1. q \in Seq(Writes)
  BY DEF QueueIn
<1>2. Append(q, w) \in Seq(Writes) /\ Len(Append(q, w)) = Len(q) + 1
  BY <1>1
<1>3. \A i \in 1..Len(q) : Append(q, w)[i] = q[i]
  BY <1>1
<1>4. Append(q, w)[Len(q) + 1] = w
  BY <1>1
<1>5. QED
  BY <1>1, <1>2, <1>3, <1>4 DEF QueueIn

\* ... and when the oldest one lands, which is true too.
LEMMA QueueTail ==
  ASSUME NEW n, NEW a, NEW q, QueueIn(n, a, q), q # <<>>
  PROVE  QueueIn(n, a, Tail(q)) /\ Head(q) \in Writes /\ GoodIn(n, a, Head(q))
<1>1. q \in Seq(Writes) /\ Len(q) >= 1 /\ Head(q) = q[1] /\ q[1] \in Writes
  BY DEF QueueIn
<1>2. Tail(q) \in Seq(Writes) /\ Len(Tail(q)) = Len(q) - 1
  BY <1>1
<1>3. \A i \in 1..Len(Tail(q)) : Tail(q)[i] = q[i + 1] /\ i + 1 \in 1..Len(q)
  BY <1>1, <1>2
<1>4. QED
  BY <1>1, <1>2, <1>3 DEF QueueIn

\* The writes that set a step and those that save the transactions.
LEMMA IssueAmm ==
  ASSUME NEW n, NEW a, NEW q, QueueIn(n, a, q), NEW amm \in Amms, ConfirmedIn(n, a, amm)
  PROVE  QueueIn(n, a, Issue(q, "amm", amm, "flow"))
<1> DEFINE w == [key |-> "amm", value |-> amm, by |-> "flow"]
<1>1. w \in Writes /\ GoodIn(n, a, w)
  BY DEF Writes, GoodIn
<1>2. QED
  BY <1>1, QueueAppend DEF Issue

LEMMA IssueTxs ==
  ASSUME NEW n, NEW a, NEW q, QueueIn(n, a, q), NEW txs \in TxTables, AgreesIn(n, txs),
         NEW by \in {"flow", "poll"}
  PROVE  QueueIn(n, a, Issue(q, "txs", txs, by))
<1> DEFINE w == [key |-> "txs", value |-> txs, by |-> by]
<1>1. w \in Writes /\ GoodIn(n, a, w)
  BY DEF Writes, GoodIn
<1>2. QED
  BY <1>1, QueueAppend DEF Issue

\* A transaction that is tracked, or judged as the node has it.
LEMMA TableSet ==
  ASSUME NEW n \in TxTables, NEW txs \in TxTables, AgreesIn(n, txs), NEW h, NEW s,
         s = "submitted" \/ (h \in Hashes /\ s = n[h])
  PROVE  /\ [txs EXCEPT ![h] = s] \in TxTables
         /\ AgreesIn(n, [txs EXCEPT ![h] = s])
  BY DEF TxTables, AgreesIn, Statuses, Outcomes

-------------------------------------------------------------------------------
(* The invariant. *)

LEMMA InitIInv == Init => IInv
<1> SUFFICES ASSUME Init PROVE IInv
  OBVIOUS
<1> USE DEF Init
<1>1. NoTxs \in TxTables /\ NoAmm \in Amms /\ IdleFlow \in Flows /\ Unsent \in Submissions
  BY DEF NoTxs, TxTables, Statuses, NoAmm, Amms, IdleFlow, Flows, FlowSteps, HashOrNone, Unsent, Submissions
<1>2. TypeOK
  BY <1>1 DEF TypeOK
<1>3. Sound
  BY DEF Sound, ConfirmedIn, AgreesIn, QueueIn, NoAmm, NoTxs, Outcomes
<1>4. Flowing /\ Supplied
  BY DEF Flowing, Supplied, IdleFlow, At, Unsent, None
<1>5. QED
  BY <1>2, <1>3, <1>4 DEF IInv

\* The chain grows by every step: only the node accepts and settles.
LEMMA ChainGrows ==
  ASSUME IInv, [Next]_vars
  PROVE  Grows(node, about, node', about')
<1> USE DEF IInv, TypeOK, TxTables
<1>1. ASSUME NEW h \in Hashes, SubmitDeploy(h) \/ SubmitSetMinter(h) \/ SubmitLiquidity(h)
      PROVE  Grows(node, about, node', about')
  BY <1>1 DEF SubmitDeploy, SubmitSetMinter, SubmitLiquidity, Accept, Grows, Outcomes
<1>2. ASSUME NEW h \in Hashes, NEW result \in Outcomes, NodeSettles(h, result)
      PROVE  Grows(node, about, node', about')
  BY <1>2 DEF NodeSettles, Grows, Outcomes
<1>3. ASSUME UNCHANGED <<node, about>> PROVE Grows(node, about, node', about')
  BY <1>3 DEF Grows
<1>4. ASSUME NEW h \in Hashes, Poll(h) PROVE UNCHANGED <<node, about>>
  BY <1>4 DEF Poll
<1>5. ASSUME FlowStep PROVE UNCHANGED <<node, about>>
  BY <1>5 DEF FlowStep, StartDeploy, Rewind, StartSetMinter, Complete, AddLiquidity, CallFails,
              DeployReturns, DeploySaved, SetMinterReturns, SetMinterTracked, LiquidityReturns, FlowEnds
<1>6. ASSUME PollSaved \/ Kill \/ Boot PROVE UNCHANGED <<node, about>>
  BY <1>6 DEF PollSaved, Kill, Boot
<1>7. ASSUME UNCHANGED vars PROVE UNCHANGED <<node, about>>
  BY <1>7 DEF vars
<1>8. QED
  BY <1>1, <1>2, <1>3, <1>4, <1>5, <1>6, <1>7 DEF Next

\* What is left alone stays true.
LEMMA Rest ==
  ASSUME IInv, [Next]_vars
  PROVE  /\ \A amm \in Amms : ConfirmedIn(node, about, amm) => ConfirmedIn(node', about', amm)
         /\ \A txs : AgreesIn(node, txs) => AgreesIn(node', txs)
         /\ QueueIn(node', about', writes)
<1>1. Grows(node, about, node', about')
  BY ChainGrows
<1>2. QueueIn(node', about', writes)
  BY <1>1, QueueKept DEF IInv, Sound
<1>3. QED
  BY <1>1, <1>2, ConfirmedKept, AgreesKept

\* What a step stores, in memory or in the queue, is well-typed and true: the steps
\* of ammSetup, of tracking and of polling.
LEMMA FlowStepSound ==
  ASSUME IInv, FlowStep
  PROVE  TypeOK' /\ Sound'
<1> USE DEF IInv, TypeOK, Sound, disk
<1>q. QueueIn(node, about, writes)
  OBVIOUS
<1>t. writes # <<>> => QueueIn(node, about, Tail(writes)) /\ Head(writes) \in Writes
                        /\ GoodIn(node, about, Head(writes))
  BY <1>q, QueueTail
<1>g. \A step \in FlowSteps : [flow EXCEPT !.step = step] \in Flows
  BY DEF Flows
<1>1. ASSUME StartDeploy \/ StartSetMinter \/ AddLiquidity \/ CallFails
      PROVE  TypeOK' /\ Sound'
  <2>1. IdleFlow \in Flows
    BY DEF IdleFlow, Flows, FlowSteps, HashOrNone
  <2>2. \A step \in FlowSteps : Goto(step) => flow' \in Flows
    BY <1>g DEF Goto
  <2>3. flow' \in Flows
    BY <1>1, <2>1, <2>2 DEF StartDeploy, StartSetMinter, AddLiquidity, CallFails, FlowSteps
  <2>4. QED
    BY <1>1, <2>3 DEF StartDeploy, StartSetMinter, AddLiquidity, CallFails
<1>2. ASSUME NEW amm \in Amms, SetAmm(writes, amm), ConfirmedIn(node, about, amm),
             flow' \in Flows, UNCHANGED <<up, memTxs, disk, node, about, kills>>
      PROVE  TypeOK' /\ Sound'
  <2>1. QueueIn(node, about, writes')
    BY <1>2, <1>q, IssueAmm DEF SetAmm
  <2>2. QED
    BY <1>2, <2>1 DEF SetAmm, QueueIn
<1>3. CASE Rewind
  <2>1. NoAmm \in Amms /\ ConfirmedIn(node, about, NoAmm)
    BY DEF NoAmm, Amms, ConfirmedIn
  <2>2. flow' \in Flows
    BY <1>3, <1>g DEF Rewind, Goto, FlowSteps
  <2>3. QED
    BY <1>2, <1>3, <2>1, <2>2 DEF Rewind
<1>4. CASE Complete
  <2> DEFINE amm == [memAmm EXCEPT !.step = "ready"]
  <2>1. memAmm.step = "set-minter" /\ memAmm.setMinter \in Hashes
    BY <1>4, AmmShape DEF Complete, Tap
  <2>2. node[memAmm.setMinter] = "success"
    BY <1>4, <2>1 DEF Complete, TxSucceeded, Status, AgreesIn, Outcomes, Hashes, None
  <2>3. amm \in Amms
    BY <2>1 DEF Amms, NoAmm
  <2>4. /\ amm.lp = memAmm.lp /\ amm.amm = memAmm.amm
        /\ amm.setMinter = memAmm.setMinter /\ amm.step = "ready"
    BY <2>1 DEF Amms, NoAmm
  <2>5. ConfirmedIn(node, about, amm)
    BY <2>1, <2>2, <2>4 DEF ConfirmedIn, Pair
  <2>6. flow' \in Flows
    BY <1>4, <1>g DEF Complete, Goto, FlowSteps
  <2>7. QED
    BY <1>2, <1>4, <2>3, <2>5, <2>6 DEF Complete
<1>5. CASE DeployReturns
  <2> DEFINE amm == [NoAmm EXCEPT !.step = "deploying", !.lp = flow.lp, !.amm = flow.amm]
  <2>1. flow.amm \in Hashes /\ flow.lp \in Hashes
    BY <1>5 DEF DeployReturns, Flowing, Flows, HashOrNone
  <2>2. amm \in Amms /\ amm.step = "deploying"
    BY <2>1 DEF Amms, NoAmm
  <2>3. ConfirmedIn(node, about, amm)
    BY <2>2 DEF ConfirmedIn
  <2>4. flow' \in Flows
    BY <1>5, <1>g DEF DeployReturns, Goto, FlowSteps
  <2>5. QED
    BY <1>2, <1>5, <2>2, <2>3, <2>4 DEF DeployReturns
<1>6. ASSUME Landed("flow")
      PROVE  /\ diskAmm' \in Amms /\ diskTxs' \in TxTables
             /\ ConfirmedIn(node, about, diskAmm') /\ AgreesIn(node, diskTxs')
             /\ QueueIn(node, about, Tail(writes))
  BY <1>6, <1>t DEF Landed, Writes, GoodIn
<1>7. ASSUME NEW q, QueueIn(node, about, q), NEW h, Track(q, h)
      PROVE  /\ memTxs' \in TxTables /\ AgreesIn(node, memTxs')
             /\ QueueIn(node, about, writes')
  <2>1. memTxs' \in TxTables /\ AgreesIn(node, memTxs')
    BY <1>7, TableSet DEF Track
  <2>2. QED
    BY <1>7, <2>1, IssueTxs DEF Track
<1>8. CASE DeploySaved
  <2>1. flow' \in Flows
    BY <1>8, <1>g DEF DeploySaved, Goto, FlowSteps
  <2>2. QED
    BY <1>6, <1>7, <1>8, <2>1 DEF DeploySaved, QueueIn
<1>9. CASE SetMinterReturns
  <2>1. flow' \in Flows
    BY <1>9, <1>g DEF SetMinterReturns, Goto, FlowSteps
  <2>2. QED
    BY <1>7, <1>9, <2>1, <1>q DEF SetMinterReturns, QueueIn
<1>10. CASE SetMinterTracked
  <2> DEFINE amm == [memAmm EXCEPT !.step = "set-minter", !.setMinter = flow.tx]
  <2>1. At("save-minter") /\ flow.tx \in Hashes /\ memAmm.lp \in Hashes /\ memAmm.amm \in Hashes
    BY <1>10, AmmShape DEF SetMinterTracked, Flowing, At, Flows, HashOrNone
  <2>2. /\ amm.lp = memAmm.lp /\ amm.amm = memAmm.amm
        /\ amm.setMinter = flow.tx /\ amm.step = "set-minter"
    BY DEF Amms, NoAmm
  <2>3. amm \in Amms
    BY <2>1 DEF Amms, NoAmm
  <2>4. ConfirmedIn(node, about, amm)
    BY <2>1, <2>2 DEF ConfirmedIn, Pair, Flowing, At, Hashes, None
  <2>5. QueueIn(node, about, writes')
    BY <1>6, <1>10, <2>3, <2>4, IssueAmm DEF SetMinterTracked, SetAmm
  <2>6. flow' \in Flows
    BY <1>10, <1>g DEF SetMinterTracked, Goto, FlowSteps
  <2>7. QED
    BY <1>6, <1>10, <2>3, <2>4, <2>5, <2>6 DEF SetMinterTracked, SetAmm, QueueIn
<1>11. CASE LiquidityReturns
  <2>1. flow' \in Flows
    BY <1>11, <1>g DEF LiquidityReturns, Goto, FlowSteps
  <2>2. QED
    BY <1>7, <1>11, <2>1, <1>q DEF LiquidityReturns, QueueIn
<1>12. CASE FlowEnds
  <2>1. IdleFlow \in Flows
    BY DEF IdleFlow, Flows, FlowSteps, HashOrNone
  <2>2. QED
    BY <1>6, <1>12, <2>1 DEF FlowEnds, QueueIn
<1>13. QED
  BY <1>1, <1>3, <1>4, <1>5, <1>8, <1>9, <1>10, <1>11, <1>12 DEF FlowStep

\* The same for the poller, the node and the death of the app.
LEMMA OtherStepSound ==
  ASSUME IInv, Next, ~FlowStep
  PROVE  TypeOK' /\ Sound'
<1> USE DEF IInv, TypeOK, Sound, disk, memory
<1>r. /\ \A amm \in Amms : ConfirmedIn(node, about, amm) => ConfirmedIn(node', about', amm)
      /\ \A txs : AgreesIn(node, txs) => AgreesIn(node', txs)
      /\ QueueIn(node', about', writes)
  BY Rest
<1>1. ASSUME NEW h \in Hashes, Poll(h) PROVE TypeOK' /\ Sound'
  <2>1. memTxs' \in TxTables /\ AgreesIn(node, memTxs')
    BY <1>1, TableSet DEF Poll
  <2>2. QueueIn(node, about, writes')
    BY <1>1, <2>1, IssueTxs DEF Poll
  <2>3. QED
    BY <1>1, <2>1, <2>2 DEF Poll, QueueIn
<1>2. CASE PollSaved
  <2>1. QueueIn(node, about, Tail(writes)) /\ Head(writes) \in Writes /\ GoodIn(node, about, Head(writes))
    BY <1>2, QueueTail DEF PollSaved, Landed
  <2>2. /\ diskAmm' \in Amms /\ diskTxs' \in TxTables
        /\ ConfirmedIn(node, about, diskAmm') /\ AgreesIn(node, diskTxs')
    BY <1>2, <2>1 DEF PollSaved, Landed, Writes, GoodIn
  <2>3. QED
    BY <1>2, <2>1, <2>2 DEF PollSaved, QueueIn
<1>3. ASSUME NEW h \in Hashes, SubmitDeploy(h) \/ SubmitSetMinter(h) \/ SubmitLiquidity(h)
      PROVE  TypeOK' /\ Sound'
  <2>1. node' \in TxTables
    BY <1>3 DEF SubmitDeploy, SubmitSetMinter, SubmitLiquidity, Accept, TxTables, Statuses
  <2>2. flow' \in Flows
    BY <1>3 DEF SubmitDeploy, SubmitSetMinter, SubmitLiquidity, Flows, HashOrNone
  <2>3. Pair(memAmm) \in HashOrNone \X HashOrNone /\ <<None, None>> \in HashOrNone \X HashOrNone
    BY DEF Pair, Amms, NoAmm, HashOrNone
  <2>4. \A call \in {"deploy", "set-minter", "liquidity"}, pair \in HashOrNone \X HashOrNone :
           [call |-> call, pair |-> pair] \in Submissions
    BY DEF Submissions
  <2>5. about' \in [Hashes -> Submissions]
    BY <1>3, <2>3, <2>4 DEF SubmitDeploy, SubmitSetMinter, SubmitLiquidity, Accept
  <2>6. QED
    BY <1>3, <1>r, <2>1, <2>2, <2>5 DEF SubmitDeploy, SubmitSetMinter, SubmitLiquidity, Accept
<1>4. ASSUME NEW h \in Hashes, NEW result \in Outcomes, NodeSettles(h, result)
      PROVE  TypeOK' /\ Sound'
  <2>1. node' \in TxTables
    BY <1>4 DEF NodeSettles, TxTables, Statuses
  <2>2. QED
    BY <1>4, <1>r, <2>1 DEF NodeSettles
<1>5. CASE Kill
  <2>1. NoTxs \in TxTables /\ NoAmm \in Amms /\ IdleFlow \in Flows
    BY DEF NoTxs, TxTables, Statuses, NoAmm, Amms, IdleFlow, Flows, FlowSteps, HashOrNone
  <2>2. ConfirmedIn(node, about, NoAmm) /\ AgreesIn(node, NoTxs) /\ QueueIn(node, about, <<>>)
    BY DEF ConfirmedIn, AgreesIn, QueueIn, NoAmm, NoTxs, Outcomes
  <2>3. kills' \in 0..MaxKills
    BY <1>5 DEF Kill
  <2>4. QED
    BY <1>5, <2>1, <2>2, <2>3 DEF Kill, QueueIn
<1>6. CASE Boot
  BY <1>6 DEF Boot
<1>7. QED
  BY <1>1, <1>2, <1>3, <1>4, <1>5, <1>6 DEF Next

\* The flow behind the lock finds out what Flowing says of it, and nothing under it
\* changes meanwhile.
LEMMA FlowingStep ==
  ASSUME IInv, Next
  PROVE  Flowing'
<1> USE DEF IInv, TypeOK, Flowing, At, IdleFlow, disk, memory
<1>g. Grows(node, about, node', about')
  BY ChainGrows
<1>c. \A step : [flow EXCEPT !.step = step] =
                 [step |-> step, lp |-> flow.lp, amm |-> flow.amm, tx |-> flow.tx]
  BY DEF Flows
<1>1. CASE StartSetMinter
  <2>1. flow' = [step |-> "set-minter", lp |-> None, amm |-> None, tx |-> None] /\ memAmm' = memAmm
    BY <1>1, <1>c DEF StartSetMinter, Tap, Goto
  <2>2. memAmm.step \in {"deploying", "set-minter"} /\ memAmm.lp \in Hashes /\ memAmm.amm \in Hashes
    BY <1>1, AmmShape DEF StartSetMinter, Tap
  <2>3. node[memAmm.lp] = "success" /\ node[memAmm.amm] = "success"
    BY <1>1, <2>2 DEF StartSetMinter, Tap, TxSucceeded, Status, Sound, ConfirmedIn, AgreesIn, Outcomes, Hashes, None
  <2>4. QED
    BY <1>1, <2>1, <2>2, <2>3 DEF StartSetMinter, Tap
<1>2. CASE StartDeploy \/ AddLiquidity \/ CallFails
  BY <1>2, <1>c DEF StartDeploy, AddLiquidity, CallFails, Tap, Goto
<1>3. CASE Rewind \/ Complete
  BY <1>3, <1>c DEF Rewind, Complete, Tap, Goto
<1>4. CASE DeployReturns \/ DeploySaved
  <2>1. PICK step \in {"track-amm", "track-lp", "tracked"} :
          flow' = [step |-> step, lp |-> flow.lp, amm |-> flow.amm, tx |-> flow.tx]
    BY <1>4, <1>c DEF DeployReturns, DeploySaved, Goto
  <2>2. up' = up /\ up
    BY <1>4 DEF DeployReturns, DeploySaved
  <2>3. QED
    BY <2>1, <2>2
<1>5. CASE SetMinterReturns
  BY <1>5, <1>c DEF SetMinterReturns, Goto
<1>6. CASE SetMinterTracked \/ LiquidityReturns
  <2>1. PICK step \in {"saved", "tracked"} :
          flow' = [step |-> step, lp |-> flow.lp, amm |-> flow.amm, tx |-> flow.tx]
    BY <1>6, <1>c DEF SetMinterTracked, LiquidityReturns, Goto
  <2>2. up' = up /\ up
    BY <1>6 DEF SetMinterTracked, LiquidityReturns
  <2>3. QED
    BY <2>1, <2>2
<1>7. ASSUME FlowEnds \/ PollSaved \/ \E h \in Hashes : Poll(h) PROVE Flowing'
  BY <1>7 DEF FlowEnds, Poll, PollSaved
<1>8. ASSUME NEW h \in Hashes, SubmitDeploy(h) PROVE Flowing'
  <2>1. flow'.step = "deploy" /\ up' = up /\ flow'.lp # None
    BY <1>8 DEF SubmitDeploy, Accept, Flows, Hashes, None
  <2>2. QED
    BY <1>8, <2>1 DEF SubmitDeploy, Accept
<1>9. ASSUME NEW h \in Hashes, SubmitSetMinter(h) PROVE Flowing'
  <2>1. flow' = [step |-> "set-minter", lp |-> flow.lp, amm |-> flow.amm, tx |-> h]
    BY <1>9 DEF SubmitSetMinter, Flows
  <2>2. memAmm.lp \in Hashes /\ memAmm.amm \in Hashes /\ memAmm' = memAmm /\ up' = up
    BY <1>9, AmmShape DEF SubmitSetMinter, Accept
  <2>3. node'[memAmm.lp] = "success" /\ node'[memAmm.amm] = "success"
    BY <1>9, <1>g, <2>2 DEF SubmitSetMinter, Grows, Outcomes
  <2>4. node'[h] = "submitted" /\ about'[h] = [call |-> "set-minter", pair |-> Pair(memAmm)]
    BY <1>9 DEF SubmitSetMinter, Accept, TxTables
  <2>5. QED
    BY <1>9, <2>1, <2>2, <2>3, <2>4 DEF SubmitSetMinter
<1>10. ASSUME NEW h \in Hashes, SubmitLiquidity(h) PROVE Flowing'
  BY <1>10 DEF SubmitLiquidity, Accept, Flows
<1>11. ASSUME NEW h \in Hashes, NEW result \in Outcomes, NodeSettles(h, result) PROVE Flowing'
  <2>1. UNCHANGED <<up, memAmm, flow, about>>
    BY <1>11 DEF NodeSettles
  <2>2. ASSUME flow.step \in {"set-minter", "save-minter"}
        PROVE  memAmm.lp \in Hashes /\ memAmm.amm \in Hashes /\ flow.tx \in Hashes \cup {None}
    BY <2>2, AmmShape DEF Flows, HashOrNone
  <2>3. QED
    BY <1>g, <2>1, <2>2 DEF Grows, Outcomes
<1>12. CASE Kill \/ Boot
  BY <1>12 DEF Kill, Boot
<1>13. QED
  BY <1>1, <1>2, <1>3, <1>4, <1>5, <1>6, <1>7, <1>8, <1>9, <1>10, <1>11, <1>12 DEF Next, FlowStep

\* Liquidity is sent for the setup in memory, which is ready; what it is sent into
\* goes on working.
LEMMA SuppliedStep ==
  ASSUME IInv, [Next]_vars
  PROVE  Supplied'
<1> USE DEF IInv, TypeOK
<1>g. Grows(node, about, node', about')
  BY ChainGrows
<1>1. ASSUME NEW h \in Hashes, about'[h] = about[h], about[h].call = "liquidity"
      PROVE  WorksIn(node', about', about'[h].pair)
  BY <1>1, <1>g, WorksKept DEF Supplied
<1>2. ASSUME NEW h \in Hashes, SubmitLiquidity(h)
      PROVE  WorksIn(node', about', about'[h].pair)
  <2>1. memAmm.step = "ready" /\ ConfirmedIn(node, about, memAmm)
    BY <1>2 DEF SubmitLiquidity, Flowing, Sound
  <2>2. memAmm.lp \in Hashes /\ memAmm.amm \in Hashes /\ memAmm.setMinter \in Hashes
    BY <2>1, AmmShape
  <2>3. WorksIn(node, about, Pair(memAmm))
    BY <2>1, <2>2 DEF ConfirmedIn, WorksIn, Pair
  <2>4. about'[h].pair = Pair(memAmm)
    BY <1>2 DEF SubmitLiquidity, Accept
  <2>5. QED
    BY <1>g, <2>3, <2>4, WorksKept
<1>3. ASSUME NEW h \in Hashes, about'[h].call = "liquidity"
      PROVE  about'[h] = about[h] \/ SubmitLiquidity(h)
  <2>1. ASSUME NEW g \in Hashes, SubmitDeploy(g) \/ SubmitSetMinter(g) \/ SubmitLiquidity(g)
        PROVE  about'[h] = about[h] \/ SubmitLiquidity(h)
    BY <1>3, <2>1 DEF SubmitDeploy, SubmitSetMinter, SubmitLiquidity, Accept
  <2>2. ASSUME FlowStep PROVE about' = about
    BY <2>2 DEF FlowStep, StartDeploy, Rewind, StartSetMinter, Complete, AddLiquidity, CallFails,
                DeployReturns, DeploySaved, SetMinterReturns, SetMinterTracked, LiquidityReturns, FlowEnds
  <2>3. ASSUME NEW g \in Hashes, NEW result \in Outcomes, Poll(g) \/ NodeSettles(g, result) PROVE about' = about
    BY <2>3 DEF Poll, NodeSettles
  <2>4. ASSUME PollSaved \/ Kill \/ Boot \/ UNCHANGED vars PROVE about' = about
    BY <2>4 DEF PollSaved, Kill, Boot, vars
  <2>5. Outcomes # {}
    BY DEF Outcomes
  <2>6. QED
    BY <2>1, <2>2, <2>3, <2>4, <2>5 DEF Next
<1>4. QED
  BY <1>1, <1>2, <1>3 DEF Supplied

LEMMA IInvStep ==
  ASSUME IInv, [Next]_vars
  PROVE  IInv'
<1>1. CASE UNCHANGED vars
  BY <1>1 DEF IInv, TypeOK, Sound, Flowing, Supplied, At, vars, memory, disk
<1>2. CASE Next
  <2>1. TypeOK' /\ Sound'
    BY <1>2, FlowStepSound, OtherStepSound
  <2>2. Flowing'
    BY <1>2, FlowingStep
  <2>3. QED
    BY <1>2, <2>1, <2>2, SuppliedStep DEF IInv
<1>3. QED
  BY <1>1, <1>2

\* The invariant holds in every reachable state.
THEOREM Invariance == Spec => []IInv
<1>1. IInv /\ [Next]_vars => IInv'
  BY IInvStep
<1>2. QED
  BY InitIInv, <1>1, PTL DEF Spec

-------------------------------------------------------------------------------
(* The theorems. *)

\* AmmSetup is type correct: a step that is kept, in TokenStore or on disk, always
\* names the transactions it rests on.
THEOREM Typing == Spec => []TypeOK
<1>1. IInv => TypeOK
  BY DEF IInv
<1>2. QED
  BY <1>1, Invariance, PTL

\* ammSetup never advances over a transaction that is pending, dropped or reverted,
\* or that is about another pair, whatever the app's deaths and the polls.
THEOREM ConfirmedSteps == Spec => []StepsConfirmed
<1>1. IInv => StepsConfirmed
  BY DEF IInv, Sound, ConfirmedIn, StepsConfirmed, MinterSet
<1>2. QED
  BY <1>1, Invariance, PTL

\* ammAddLiquidity only ever reaches a pair of contracts that is deployed, with the
\* AMM confirmed as the minter of its liquidity token.
THEOREM WorkingAmm == Spec => []LiquidityIntoWorkingAmm
<1>1. IInv => LiquidityIntoWorkingAmm
  BY DEF IInv, Supplied, WorksIn, LiquidityIntoWorkingAmm, MinterSet
<1>2. QED
  BY <1>1, Invariance, PTL

-------------------------------------------------------------------------------
(* What is on disk never goes back. *)

\* The flow waits for its write of the setup, or of the transactions.
Saving == {"track-amm", "saved", "rewind", "complete"}
Tracking == {"track-lp", "tracked", "save-minter"}

\* The setup y comes after x, given the chain.
Forward(n, x, y) ==
  \/ /\ Rank(y.step) >= Rank(x.step)
     /\ x.step # "none" => Pair(y) = Pair(x)
  \/ /\ x.step = "deploying" /\ y.step = "none"
     /\ \E h \in {x.lp, x.amm} : n[h] \in {"reverted", "dropped"}

\* The flow has no write in the queue q.
Free(q) == \A i \in 1..Len(q) : q[i].by # "flow"

\* The flow, at a step, has at most one write in the queue, of the setup in memory or of
\* the transactions.
Own(step, amm, q) ==
  \A i \in 1..Len(q) : q[i].by = "flow" =>
    /\ step \in Saving \cup Tracking
    /\ q[i].key = "amm" <=> step \in Saving
    /\ q[i].key = "amm" => q[i].value = amm
    /\ \A j \in 1..Len(q) : q[j].by = "flow" => i = j

\* So the disk is at most one write behind memory, and that write goes forward.
Ordered ==
  /\ ~up => writes = <<>> /\ At("idle")
  /\ Own(flow.step, memAmm, writes)
  /\ up /\ flow.step \in Saving => Forward(node, diskAmm, memAmm)
  /\ up /\ flow.step \notin Saving => diskAmm = memAmm
  /\ At("deploy") => memAmm.step = "none"

\* The oldest write leaves the queue; if it is the flow's, none is left of it.
LEMMA OwnTail ==
  ASSUME NEW q \in Seq(Writes), q # <<>>, NEW step, NEW amm, Own(step, amm, q)
  PROVE  /\ Own(step, amm, Tail(q))
         /\ Head(q) \in Writes
         /\ Head(q).by = "flow" => /\ Free(Tail(q)) /\ step \in Saving \cup Tracking
                                   /\ Head(q).key = "amm" <=> step \in Saving
                                   /\ Head(q).key = "amm" => Head(q).value = amm
<1>1. Len(q) >= 1 /\ Head(q) = q[1] /\ q[1] \in Writes /\ 1 \in 1..Len(q)
  OBVIOUS
<1>2. Tail(q) \in Seq(Writes) /\ Len(Tail(q)) = Len(q) - 1
  BY <1>1
<1>3. \A i \in 1..Len(Tail(q)) : Tail(q)[i] = q[i + 1] /\ i + 1 \in 1..Len(q) /\ i + 1 # 1
  BY <1>1, <1>2
<1>4. \A i, j \in 1..Len(Tail(q)) : i + 1 = j + 1 => i = j
  BY <1>2
<1>5. QED
  BY <1>1, <1>3, <1>4 DEF Own, Free

\* The writes of a queue to which one is issued.
LEMMA IssueShape ==
  ASSUME NEW q \in Seq(Writes), NEW key, NEW value, NEW by
  PROVE  LET r == Issue(q, key, value, by)
         IN  \A i \in 1..Len(r) :
               \/ i \in 1..Len(q) /\ r[i] = q[i]
               \/ i = Len(q) + 1 /\ i \notin 1..Len(q) /\ r[i] = [key |-> key, value |-> value, by |-> by]
<1> DEFINE w == [key |-> key, value |-> value, by |-> by]
<1>1. Len(Append(q, w)) = Len(q) + 1 /\ Len(q) \in Nat
  OBVIOUS
<1>2. \A i \in 1..Len(q) : Append(q, w)[i] = q[i]
  OBVIOUS
<1>3. Append(q, w)[Len(q) + 1] = w
  OBVIOUS
<1>4. \A i \in 1..Len(q) + 1 : i \in 1..Len(q) \/ (i = Len(q) + 1 /\ i \notin 1..Len(q))
  BY <1>1
<1>5. QED
  BY <1>1, <1>2, <1>3, <1>4 DEF Issue

\* The flow issues a write while it has none, and then waits for it.
LEMMA OwnIssue ==
  ASSUME NEW q \in Seq(Writes), Free(q), NEW key \in {"amm", "txs"}, NEW value,
         NEW step \in Saving \cup Tracking, NEW amm,
         key = "amm" <=> step \in Saving, key = "amm" => value = amm
  PROVE  Own(step, amm, Issue(q, key, value, "flow"))
<1> DEFINE r == Issue(q, key, value, "flow")
           w == [key |-> key, value |-> value, by |-> "flow"]
<1>1. \A i \in 1..Len(r) : \/ i \in 1..Len(q) /\ r[i] = q[i]
                           \/ i = Len(q) + 1 /\ r[i] = w
  BY IssueShape
<1>2. w.key = key /\ w.value = value
  OBVIOUS
<1> HIDE DEF r, w
<1>3. \A i \in 1..Len(r) : r[i].by = "flow" => i = Len(q) + 1 /\ r[i] = w
  BY <1>1 DEF Free
<1>4. Own(step, amm, r)
  BY <1>2, <1>3 DEF Own
<1>5. QED
  BY <1>4 DEF r

\* A poll's write is of the transactions.
LEMMA OwnPoll ==
  ASSUME NEW q \in Seq(Writes), NEW step, NEW amm, Own(step, amm, q), NEW value
  PROVE  Own(step, amm, Issue(q, "txs", value, "poll"))
<1> DEFINE r == Issue(q, "txs", value, "poll")
           w == [key |-> "txs", value |-> value, by |-> "poll"]
<1>1. \A i \in 1..Len(r) : \/ i \in 1..Len(q) /\ r[i] = q[i]
                           \/ i = Len(q) + 1 /\ r[i] = w
  BY IssueShape
<1>2. w.by # "flow"
  OBVIOUS
<1> HIDE DEF r, w
<1>3. \A i \in 1..Len(r) : r[i].by = "flow" => i \in 1..Len(q) /\ r[i] = q[i]
  BY <1>1, <1>2
<1>4. Own(step, amm, r)
  BY <1>3 DEF Own
<1>5. QED
  BY <1>4 DEF r

\* A setup that has come forward has done so for good.
LEMMA ForwardKept ==
  ASSUME NEW n, NEW a, NEW m, NEW b, Grows(n, a, m, b), NEW x \in Amms, NEW y, Forward(n, x, y)
  PROVE  Forward(m, x, y)
  BY AmmShape DEF Grows, Forward, Outcomes

\* What each step of the flow leaves in the queue, in memory and on disk.
LEMMA OrderedStep ==
  ASSUME IInv, Ordered, [Next]_vars
  PROVE  Ordered' /\ Forward(node, diskAmm, diskAmm')
<1> USE DEF IInv, TypeOK, At
<1>q. writes \in Seq(Writes) /\ flow \in Flows /\ memAmm \in Amms /\ diskAmm \in Amms
  OBVIOUS
<1>c. \A step : [flow EXCEPT !.step = step].step = step
  BY DEF Flows
<1>r. \A x \in Amms : Forward(node, x, x)
  <2>1. \A x \in Amms : Rank(x.step) >= Rank(x.step)
    BY AmmShape DEF Rank
  <2>2. QED
    BY <2>1 DEF Forward
<1>g. ASSUME Forward(node, diskAmm, memAmm) PROVE Forward(node', diskAmm, memAmm)
  BY <1>q, <1>g, ChainGrows, ForwardKept
<1>f. flow.step \notin Saving \cup Tracking => Free(writes)
  BY DEF Ordered, Own, Free
<1>l. ASSUME Landed("flow")
      PROVE  /\ Free(Tail(writes)) /\ Tail(writes) \in Seq(Writes) /\ up
             /\ flow.step \in Saving \cup Tracking
             /\ diskAmm' = memAmm
  <2>1. writes # <<>> /\ Head(writes).by = "flow"
    BY <1>l DEF Landed
  <2>2. /\ Free(Tail(writes)) /\ flow.step \in Saving \cup Tracking
        /\ Head(writes).key = "amm" <=> flow.step \in Saving
        /\ Head(writes).key = "amm" => Head(writes).value = memAmm
    BY <1>q, <2>1, OwnTail DEF Ordered
  <2>3. up
    BY <2>1 DEF Ordered
  <2>4. diskAmm' = memAmm
    BY <1>l, <2>2, <2>3 DEF Landed, Ordered
  <2>5. QED
    BY <1>q, <2>1, <2>2, <2>3, <2>4
<1>d. Landed("flow") => Forward(node, diskAmm, diskAmm')
  BY <1>q, <1>l, <1>r DEF Ordered
<1>o. ASSUME Free(writes) PROVE \A step, amm : Own(step, amm, writes)
  BY <1>o DEF Free, Own
<1>s. ASSUME Free(writes), UNCHANGED <<up, memAmm, writes, diskAmm>>, up,
             flow.step \notin Saving, flow'.step \in {"deploy", "set-minter", "liquidity", "idle"},
             flow'.step = "deploy" => memAmm.step = "none"
      PROVE  Ordered' /\ Forward(node, diskAmm, diskAmm')
  <2>1. flow'.step \notin Saving /\ diskAmm = memAmm
    BY <1>s DEF Ordered, Saving
  <2>2. Own(flow'.step, memAmm, writes)
    BY <1>s, <1>o
  <2>3. QED
    BY <1>q, <1>r, <1>s, <2>1, <2>2 DEF Ordered
<1>1. CASE StartDeploy \/ StartSetMinter \/ AddLiquidity
  <2>1. /\ flow.step = "idle" /\ up
        /\ UNCHANGED <<up, memAmm, writes, diskAmm>>
    BY <1>1 DEF StartDeploy, StartSetMinter, AddLiquidity, Tap, disk
  <2>2. /\ flow'.step \in {"deploy", "set-minter", "liquidity"}
        /\ flow'.step = "deploy" => memAmm.step = "none"
    BY <1>1, <1>c DEF StartDeploy, StartSetMinter, AddLiquidity, Tap, Goto
  <2>3. Free(writes) /\ flow.step \notin Saving
    BY <2>1, <1>f DEF Saving, Tracking
  <2>4. QED
    BY <2>1, <2>2, <2>3, <1>s
<1>18. CASE CallFails
  <2>1. /\ flow.step \in {"deploy", "set-minter", "liquidity"} /\ up
        /\ UNCHANGED <<up, memAmm, writes, diskAmm>> /\ flow'.step = "idle"
    BY <1>18 DEF CallFails, IdleFlow, Ordered, disk
  <2>2. Free(writes) /\ flow.step \notin Saving
    BY <2>1, <1>f DEF Saving, Tracking
  <2>3. QED
    BY <2>1, <2>2, <1>s
<1>2. ASSUME NEW amm, SetAmm(writes, amm), up, up' = up, UNCHANGED <<disk, node>>,
             flow.step \notin Saving \cup Tracking, flow'.step \in Saving,
             Forward(node, memAmm, amm)
      PROVE  Ordered' /\ Forward(node, diskAmm, diskAmm')
  <2>1. Own(flow'.step, amm, writes')
    BY <1>2, <1>q, <1>f, OwnIssue DEF SetAmm
  <2>2. QED
    BY <1>2, <1>q, <1>r, <2>1 DEF Ordered, SetAmm, Saving, disk
<1>3. CASE Rewind
  <2>1. memAmm.step = "deploying" /\ memAmm.lp \in Hashes /\ memAmm.amm \in Hashes
    BY <1>3, <1>q, AmmShape DEF Rewind, Tap
  <2>2. \E h \in {memAmm.lp, memAmm.amm} : node[h] \in {"reverted", "dropped"}
    BY <1>3, <2>1 DEF Rewind, TxFailed, Status, Sound, AgreesIn, Outcomes, Hashes, None
  <2>3. Forward(node, memAmm, NoAmm)
    BY <2>1, <2>2 DEF Forward, NoAmm
  <2>4. QED
    BY <1>2, <1>3, <1>c, <2>3 DEF Rewind, Tap, Goto, Saving, Tracking
<1>4. CASE Complete
  <2> DEFINE amm == [memAmm EXCEPT !.step = "ready"]
  <2>1. memAmm.step = "set-minter"
    BY <1>4 DEF Complete, Tap
  <2>2. amm.step = "ready" /\ Pair(amm) = Pair(memAmm)
    BY <2>1, <1>q DEF Amms, NoAmm, Pair
  <2>3. Forward(node, memAmm, amm)
    BY <2>1, <2>2 DEF Forward, Rank
  <2>4. QED
    BY <1>2, <1>4, <1>c, <2>3 DEF Complete, Tap, Goto, Saving, Tracking
<1>5. CASE DeployReturns
  <2> DEFINE amm == [NoAmm EXCEPT !.step = "deploying", !.lp = flow.lp, !.amm = flow.amm]
  <2>1. memAmm.step = "none" /\ amm.step = "deploying"
    BY <1>5 DEF DeployReturns, Ordered, NoAmm
  <2>2. Forward(node, memAmm, amm)
    BY <2>1 DEF Forward, Rank
  <2>3. flow.step = "deploy" /\ up /\ up' = up
    BY <1>5 DEF DeployReturns, Ordered
  <2>4. QED
    BY <1>2, <1>5, <1>c, <2>2, <2>3 DEF DeployReturns, Goto, Saving, Tracking
<1>6. CASE DeploySaved
  <2>0. "track-lp" \in Tracking /\ "tracked" \in Tracking
    BY DEF Tracking
  <2>1. PICK step \in Tracking : flow' = [flow EXCEPT !.step = step] /\ \E h : Track(Tail(writes), h)
    <3>1. \/ Track(Tail(writes), flow.amm) /\ flow' = [flow EXCEPT !.step = "track-lp"]
          \/ Track(Tail(writes), flow.lp) /\ flow' = [flow EXCEPT !.step = "tracked"]
      BY <1>6 DEF DeploySaved, Goto
    <3>2. CASE Track(Tail(writes), flow.amm) /\ flow' = [flow EXCEPT !.step = "track-lp"]
      <4>1. \E h : Track(Tail(writes), h)
        BY <3>2
      <4>2. QED
        BY <2>0, <3>2, <4>1
    <3>3. CASE Track(Tail(writes), flow.lp) /\ flow' = [flow EXCEPT !.step = "tracked"]
      <4>1. \E h : Track(Tail(writes), h)
        BY <3>3
      <4>2. QED
        BY <2>0, <3>3, <4>1
    <3>4. QED
      BY <3>1, <3>2, <3>3
  <2>2. Landed("flow") /\ flow'.step = step /\ UNCHANGED <<up, memAmm>>
    BY <1>6, <1>c, <2>1 DEF DeploySaved
  <2> PICK h : Track(Tail(writes), h)
    BY <2>1
  <2>3. Own(step, memAmm, writes')
    BY <1>l, <2>1, <2>2, OwnIssue DEF Track, Saving, Tracking
  <2>4. QED
    BY <1>d, <1>l, <2>2, <2>3 DEF Ordered, Saving, Tracking
<1>7. ASSUME NEW h, Track(writes, h), UNCHANGED <<up, memAmm, disk>>,
             flow.step \in {"set-minter", "liquidity"}, flow'.step \in Tracking
      PROVE  Ordered' /\ Forward(node, diskAmm, diskAmm')
  <2>1. up /\ Free(writes) /\ flow.step \notin Saving
    BY <1>7, <1>f DEF Ordered, Saving, Tracking
  <2>2. Own(flow'.step, memAmm, writes')
    BY <1>7, <1>q, <2>1, OwnIssue DEF Track, Saving, Tracking
  <2>3. QED
    BY <1>7, <1>q, <1>r, <2>1, <2>2 DEF Ordered, Saving, Tracking, disk
<1>8. CASE SetMinterReturns \/ LiquidityReturns
  BY <1>7, <1>8, <1>c DEF SetMinterReturns, LiquidityReturns, Goto, Tracking
<1>9. CASE SetMinterTracked
  <2> DEFINE amm == [memAmm EXCEPT !.step = "set-minter", !.setMinter = flow.tx]
  <2>1. memAmm.step \in {"deploying", "set-minter"}
    BY <1>9 DEF SetMinterTracked, Flowing
  <2>2. amm.step = "set-minter" /\ Pair(amm) = Pair(memAmm)
    BY <2>1, <1>q DEF Amms, NoAmm, Pair
  <2>3. Forward(node, memAmm, amm)
    BY <2>1, <2>2 DEF Forward, Rank
  <2>4. /\ Landed("flow") /\ flow'.step = "saved" /\ UNCHANGED <<up, node>>
        /\ memAmm' = amm /\ writes' = Issue(Tail(writes), "amm", amm, "flow")
    BY <1>9, <1>c DEF SetMinterTracked, SetAmm, Goto
  <2> HIDE DEF amm
  <2>5. Own("saved", amm, writes')
    BY <1>l, <2>4, OwnIssue DEF Saving, Tracking
  <2>6. QED
    BY <1>d, <1>l, <2>3, <2>4, <2>5 DEF Ordered, Saving
<1>10. CASE FlowEnds
  <2>1. Landed("flow") /\ flow'.step = "idle" /\ UNCHANGED <<up, memAmm>> /\ writes' = Tail(writes)
    BY <1>10 DEF FlowEnds, IdleFlow
  <2>2. Own("idle", memAmm, writes')
    BY <1>l, <2>1 DEF Free, Own
  <2>3. QED
    BY <1>d, <1>l, <2>1, <2>2 DEF Ordered, Saving
<1>11. ASSUME NEW h \in Hashes, Poll(h) PROVE Ordered' /\ Forward(node, diskAmm, diskAmm')
  <2>1. Own(flow.step, memAmm, writes')
    BY <1>11, <1>q, OwnPoll DEF Poll, Ordered
  <2>2. QED
    BY <1>11, <1>q, <1>r, <2>1 DEF Poll, Ordered, disk
<1>12. CASE PollSaved
  <2>1. writes # <<>> /\ Head(writes).by = "poll" /\ Head(writes) \in Writes
    BY <1>12, <1>q, OwnTail DEF PollSaved, Landed, Ordered
  <2>2. diskAmm' = diskAmm /\ UNCHANGED <<up, memAmm, flow, node>> /\ writes' = Tail(writes)
    BY <1>12, <2>1 DEF PollSaved, Landed, Writes, memory
  <2>3. Own(flow.step, memAmm, writes')
    BY <1>q, <2>1, <2>2, OwnTail DEF Ordered
  <2>4. QED
    BY <1>q, <1>r, <2>1, <2>2, <2>3 DEF Ordered
<1>13. ASSUME NEW h \in Hashes, SubmitDeploy(h) \/ SubmitSetMinter(h) \/ SubmitLiquidity(h)
       PROVE  Ordered' /\ Forward(node, diskAmm, diskAmm')
  <2>1. flow'.step = flow.step /\ UNCHANGED <<up, memAmm, writes, diskAmm>>
    BY <1>13 DEF SubmitDeploy, SubmitSetMinter, SubmitLiquidity, Accept, Flows, disk
  <2>2. QED
    BY <1>g, <1>q, <1>r, <2>1 DEF Ordered
<1>14. ASSUME UNCHANGED <<memory, writes, disk>>
       PROVE  Ordered' /\ Forward(node, diskAmm, diskAmm')
  BY <1>14, <1>g, <1>q, <1>r DEF Ordered, memory, disk
<1>15. CASE Kill
  <2>1. up' = FALSE /\ writes' = <<>> /\ flow'.step = "idle" /\ UNCHANGED diskAmm
    BY <1>15 DEF Kill, IdleFlow, disk
  <2>2. QED
    BY <1>q, <1>r, <2>1 DEF Ordered, Own
<1>16. CASE Boot
  BY <1>16, <1>q, <1>r DEF Boot, Ordered, Own, Saving, disk
<1>17. QED
  BY <1>1, <1>3, <1>4, <1>5, <1>6, <1>8, <1>9, <1>10, <1>11, <1>12, <1>13, <1>14, <1>15, <1>16, <1>18
     DEF Next, FlowStep, NodeSettles, vars

\* The disk at most one write behind memory, in every reachable state.
LEMMA Ordering == Spec => []Ordered
<1>1. Init => Ordered
  BY DEF Init, Ordered, Own, At, IdleFlow, Saving, NoAmm
<1>2. IInv /\ Ordered /\ [Next]_vars => Ordered'
  BY OrderedStep
<1>3. QED
  BY <1>1, <1>2, Invariance, PTL DEF Spec

\* Whatever the app's deaths, what is on disk goes back only where a half of the
\* deployment has failed on chain.
THEOREM NeverBack == Spec => NeverRewinds
<1>1. IInv /\ Ordered /\ [Next]_vars =>
        [ \/ /\ Rank(diskAmm'.step) >= Rank(diskAmm.step)
             /\ diskAmm.step # "none" => Pair(diskAmm') = Pair(diskAmm)
          \/ /\ diskAmm.step = "deploying" /\ diskAmm'.step = "none"
             /\ \E h \in {diskAmm.lp, diskAmm.amm} : node[h] \in {"reverted", "dropped"}
        ]_vars
  BY OrderedStep DEF Forward
<1>2. QED
  BY <1>1, Invariance, Ordering, PTL DEF Spec, NeverRewinds
================================================================================
