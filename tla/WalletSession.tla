----------------------------- MODULE WalletSession -----------------------------
(***************************************************************************)
(* One wallet flow from the tap to the tracked transaction: the busy lock  *)
(* of WalletController, the pending calls of PxeSession, the dispatcher,   *)
(* the abort wiring and the prove bridge of the WebView (wallet-main.ts),  *)
(* and the two message channels between them.  RN and the WebView are      *)
(* single threaded: an action runs one of them from one await to the next. *)
(*                                                                         *)
(* A member of Calls is one call of PxeSession.call, whose id is never     *)
(* used again (seq survives reloads).  Native proves and the Aztec node    *)
(* are external: they may answer, fail or stay silent.                     *)
(***************************************************************************)
EXTENDS Naturals, Sequences

CONSTANTS
  Calls,        \* the session calls made
  NoCall,       \* stands for "no call"
  MaxLoads,     \* bound on the documents the WebView loads
  MaxProves,    \* bound on the prove requests of one document
  SlowStorage   \* a storage write of a flow may outlast a whole boot

ASSUME NoCallAssumption == NoCall \notin Calls
ASSUME BoundsAssumption == MaxLoads \in Nat \ {0} /\ MaxProves \in Nat \ {0}
ASSUME SlowStorageAssumption == SlowStorage \in BOOLEAN

VARIABLES
  (* React Native *)
  phase,        \* WalletController's phase, as far as flows depend on it
  crashed,      \* PxeSession.crashed
  busy,         \* the flow that holds the busy lock
  activeCall,   \* activeCallId
  pending,      \* PxeSession.pending
  kind,         \* what each call is
  caller,       \* where the code that awaits each call stands
  outcome,      \* how each call's promise settled
  tracked,      \* the transactions handed to the PendingTxStore
  (* the channels *)
  toWeb,        \* injected messages the document has not handled
  toHost,       \* posted messages RN has not handled
  (* the WebView *)
  alive,        \* the render process lives
  loads,        \* the documents loaded so far; the last is the current one
  booted,       \* the current document has a session
  handler,      \* where the handler of each call stands
  sends,        \* the transactions each handler has sent
  signal,       \* the call whose AbortSignal is currentAbortSignal
  aborted,      \* the calls whose AbortController has fired
  provePending, \* provePending: what each pending prove id resolves
  proveSeq,     \* proveSeq
  (* the outside *)
  proving,      \* the native proves in progress
  chain,        \* the transactions the node has accepted
  (* history *)
  cancelled,    \* the calls the user has cancelled
  lostReply,    \* the calls whose accepted send was answered with an error
  proofOf       \* whose execution steps the proof in each handler's hands proves

host == <<phase, crashed, busy, activeCall, pending, kind, caller, outcome, tracked>>
page == <<alive, loads, booted>>
bridge == <<provePending, proveSeq>>
web == <<handler, sends, signal, aborted, bridge>>
history == <<cancelled, lostReply, proofOf>>

vars == <<host, toWeb, toHost, page, web, proving, chain, history>>

\* transfer, mint, deploy...: one transaction; deployAmm: two; sync: background,
\* with a checkAbort; read: background (receipts, balances), without one.
Flows == {"single", "amm"}
Kinds == Flows \cup {"sync", "read"}
Cancellable(c) == kind[c] \in Flows
Sends(c) == IF kind[c] = "amm" THEN 2 ELSE 1

ProveIds == 1..MaxProves
NoProve == [call |-> NoCall, listens |-> NoCall]

\* Handlers that have not posted their rpcResult.
Live == {c \in Calls : handler[c] \in {"check", "simulate", "prove", "send", "sent"}}

Init ==
  /\ phase = "ready" /\ crashed = FALSE
  /\ busy = NoCall /\ activeCall = NoCall /\ pending = {}
  /\ kind = [c \in Calls |-> "none"]
  /\ caller = [c \in Calls |-> "idle"]
  /\ outcome = [c \in Calls |-> "none"]
  /\ tracked = {}
  /\ toWeb = <<>> /\ toHost = <<>>
  /\ alive = TRUE /\ loads = 1 /\ booted = TRUE
  /\ handler = [c \in Calls |-> "none"]
  /\ sends = [c \in Calls |-> 0]
  /\ signal = NoCall /\ aborted = {}
  /\ provePending = [i \in ProveIds |-> NoProve] /\ proveSeq = 0
  /\ proving = {} /\ chain = {}
  /\ cancelled = {} /\ lostReply = {}
  /\ proofOf = [c \in Calls |-> NoCall]

-------------------------------------------------------------------------------
(* React Native: PxeSession and the flows of WalletController. *)

\* injectJavaScript reaches the current document, or nobody.
Post(m) == toWeb' = IF alive THEN Append(toWeb, m) ELSE toWeb

\* PxeSession.call: register the promise, then post the request.
Call(c, k) ==
  /\ caller[c] = "idle"
  /\ ~crashed
  /\ kind' = [kind EXCEPT ![c] = k]
  /\ caller' = [caller EXCEPT ![c] = "waiting"]
  /\ pending' = pending \cup {c}
  /\ Post([type |-> "rpc", call |-> c])

\* Mutant: no busy lock.
StartFlowUnlocked(c, k) ==
  /\ phase = "ready"
  /\ Call(c, k)
  /\ busy' = c
  /\ activeCall' = c
  /\ UNCHANGED <<phase, crashed, outcome, tracked, toHost, page, web, proving, chain, history>>

\* runFlow behind the busy lock; the UI offers flows in phase ready.
StartFlow(c, k) ==
  /\ phase = "ready"
  /\ busy = NoCall
  /\ Call(c, k)
  /\ busy' = c
  /\ activeCall' = c
  /\ UNCHANGED <<phase, crashed, outcome, tracked, toHost, page, web, proving, chain, history>>

\* The poller and refreshBalances, whose loops go on calling while the phase changes
\* under them; syncPxe skips its sync while a flow runs or no page is ready.
StartBackground(c, k) ==
  /\ k = "sync" => busy = NoCall /\ phase \in {"boot", "ready"}
  /\ Call(c, k)
  /\ UNCHANGED <<phase, crashed, busy, activeCall, outcome, tracked, toHost, page, web, proving, chain, history>>

\* cancelCurrent and abort; the native prover is asked to stop as well, and a
\* native prove may fail for that reason too (NativeAnswers).  Bound: one tap per
\* call, since a second abort() of the same controller changes nothing.
Cancel ==
  /\ activeCall \notin cancelled \cup {NoCall}
  /\ ~crashed
  /\ Post([type |-> "abort", call |-> activeCall])
  /\ cancelled' = cancelled \cup {activeCall}
  /\ UNCHANGED <<host, toHost, page, web, proving, chain, lostReply, proofOf>>

\* The promises of the calls in S reject with reason r; the flows among them run
\* into their catch and finally clauses.
Reject(S, r) ==
  /\ outcome' = [c \in Calls |-> IF c \in S THEN r ELSE outcome[c]]
  /\ caller' = [c \in Calls |-> IF c \in S THEN "done" ELSE caller[c]]
  /\ pending' = pending \ S

\* The finally clause clears whatever stands there.
Finally ==
  /\ busy' = NoCall
  /\ activeCall' = NoCall

\* Mutant: the lock is released on success only.
NoFinally(S) == UNCHANGED <<busy, activeCall>>

\* The finally clauses of the flows in S.
FinallyOf(S) ==
  IF \E c \in S : Cancellable(c) THEN Finally ELSE UNCHANGED <<busy, activeCall>>

\* The call's timer fires.
Timeout(c) ==
  /\ c \in pending
  /\ Reject({c}, "timeout")
  /\ FinallyOf({c})
  /\ UNCHANGED <<phase, crashed, kind, tracked, toWeb, toHost, page, web, proving, chain, history>>

Receive(type) == toHost # <<>> /\ Head(toHost).type = type /\ toHost' = Tail(toHost)

\* handleMessage, rpcResult: a result nobody waits for any more is dropped.
OnRpcResult ==
  /\ Receive("rpcResult")
  /\ LET m == Head(toHost) IN
     IF m.call \notin pending
     THEN UNCHANGED <<busy, activeCall, pending, caller, outcome>>
     ELSE IF m.how # "ok"
     THEN Reject({m.call}, m.how) /\ FinallyOf({m.call})
     ELSE /\ pending' = pending \ {m.call}
          /\ outcome' = [outcome EXCEPT ![m.call] = "ok"]
          /\ caller' = [caller EXCEPT ![m.call] = IF Cancellable(m.call) THEN "tracking" ELSE "done"]
          /\ UNCHANGED <<busy, activeCall>>
  /\ UNCHANGED <<phase, crashed, kind, tracked, toWeb, page, web, proving, chain, history>>

\* Mutant: one transaction too many is stored.
TrackTooMuch(c) ==
  /\ caller[c] = "tracking"
  /\ tracked' = tracked \cup {<<c, n>> : n \in 1..Sends(c) + 1}
  /\ caller' = [caller EXCEPT ![c] = "done"]
  /\ Finally
  /\ UNCHANGED <<phase, crashed, pending, kind, outcome, toWeb, toHost, page, web, proving, chain, history>>

\* The flow stores what it was told it sent, then leaves runFlow.
Track(c) ==
  /\ caller[c] = "tracking"
  /\ tracked' = tracked \cup {<<c, n>> : n \in 1..Sends(c)}
  /\ caller' = [caller EXCEPT ![c] = "done"]
  /\ Finally
  /\ UNCHANGED <<phase, crashed, pending, kind, outcome, toWeb, toHost, page, web, proving, chain, history>>

\* handleProveRequest: the native prove starts on a thread of its own.
OnProveRequest ==
  /\ Receive("proveRequest")
  /\ proving' = proving \cup {[id |-> Head(toHost).id, call |-> Head(toHost).call]}
  /\ UNCHANGED <<host, toWeb, page, web, chain, history>>

\* Everything pending rejects and the busy lock is cleared, even when its flow is
\* at a storage write and so has no pending call; its finally clause comes later.
Reset ==
  /\ Reject(pending, "lost")
  /\ busy' = NoCall
  /\ activeCall' = IF \E c \in pending : Cancellable(c) THEN NoCall ELSE activeCall

\* 'ready': whatever is pending belongs to a page that is gone; then boot.
OnReady ==
  /\ Receive("ready")
  /\ Reset
  /\ phase' = "boot"
  /\ UNCHANGED <<crashed, kind, tracked, toWeb, page, web, proving, chain, history>>

\* onWebViewCrash.
OnCrash ==
  /\ Receive("crash")
  /\ crashed' = TRUE
  /\ phase' = "crashed"
  /\ Reset
  /\ UNCHANGED <<kind, tracked, toWeb, page, web, proving, chain, history>>

\* The user taps restart: restartSession, then reload.
Restart ==
  /\ phase = "crashed"
  /\ loads < MaxLoads
  /\ crashed' = FALSE
  /\ phase' = "webview"
  /\ loads' = loads + 1
  /\ alive' = TRUE
  /\ booted' = FALSE
  /\ toWeb' = <<>>
  /\ toHost' = Append(toHost, [type |-> "ready"])
  /\ handler' = [c \in Calls |-> IF c \in Live THEN "gone" ELSE handler[c]]
  /\ signal' = NoCall /\ aborted' = {}
  /\ provePending' = [i \in ProveIds |-> NoProve] /\ proveSeq' = 0
  /\ UNCHANGED <<busy, activeCall, pending, kind, caller, outcome, tracked, sends, proving, chain, history>>

\* The boot sequence of onWebViewReady succeeds (see Bootstrap for its steps).
Booted ==
  /\ phase = "boot"
  /\ alive
  /\ ~crashed
  /\ \A i \in DOMAIN toHost : toHost[i].type \notin {"ready", "crash"}
  /\ SlowStorage \/ \A c \in Calls : caller[c] # "tracking"
  /\ phase' = "ready"
  /\ booted' = TRUE
  /\ UNCHANGED <<crashed, busy, activeCall, pending, kind, caller, outcome, tracked, toWeb, toHost,
                 alive, loads, web, proving, chain, history>>

-------------------------------------------------------------------------------
(* The WebView: dispatcher, handlers and prove bridge of wallet-main.ts. *)

\* Mutant: once the controller has fired, a success counts as cancelled too.
FinishDropping(c, how) ==
  /\ handler' = [handler EXCEPT ![c] = "finished"]
  /\ toHost' = Append(toHost,
       [type |-> "rpcResult", call |-> c,
        how |-> IF Cancellable(c) /\ (how = "aborted" \/ c \in aborted) THEN "aborted" ELSE how])
  /\ signal' = IF signal = c THEN NoCall ELSE signal

\* The handler of c ends: rpcResult, then the dispatcher's finally clause.  An
\* error of a flow whose controller has fired counts as a cancellation.
Finish(c, how) ==
  /\ handler' = [handler EXCEPT ![c] = "finished"]
  /\ toHost' = Append(toHost,
       [type |-> "rpcResult", call |-> c,
        how |-> IF how # "ok" /\ Cancellable(c) /\ (how = "aborted" \/ c \in aborted)
                THEN "aborted" ELSE IF how = "ok" THEN "ok" ELSE "error"])
  /\ signal' = IF signal = c THEN NoCall ELSE signal

\* Mutant: one abort flag for the whole document.
AnyAborted == aborted # {}

SignalAborted == signal # NoCall /\ signal \in aborted

Incoming(type) == toWeb # <<>> /\ Head(toWeb).type = type /\ toWeb' = Tail(toWeb)

\* Mutant: every call arms the abort wiring.
DispatchArming ==
  /\ Incoming("rpc")
  /\ LET c == Head(toWeb).call IN
     IF booted
     THEN handler' = [handler EXCEPT ![c] = "check"] /\ signal' = c /\ UNCHANGED toHost
     ELSE Finish(c, "error")
  /\ UNCHANGED <<host, page, sends, aborted, bridge, proving, chain, history>>

\* The dispatcher: only a cancellable call arms the abort wiring.
Dispatch ==
  /\ Incoming("rpc")
  /\ LET c == Head(toWeb).call IN
     IF booted
     THEN /\ handler' = [handler EXCEPT ![c] = "check"]
          /\ signal' = IF Cancellable(c) THEN c ELSE signal
          /\ UNCHANGED toHost
     ELSE Finish(c, "error")
  /\ UNCHANGED <<host, page, sends, aborted, bridge, proving, chain, history>>

\* A flow at a checkAbort(), which reads the current signal, whosever it is.
Check(c) ==
  /\ handler[c] = "check"
  /\ kind[c] # "read"
  /\ IF SignalAborted
     THEN Finish(c, "aborted")
     ELSE /\ Cancellable(c)
          /\ handler' = [handler EXCEPT ![c] = "simulate"]
          /\ UNCHANGED <<toHost, signal>>
  /\ UNCHANGED <<host, toWeb, page, sends, aborted, bridge, proving, chain, history>>

\* A background call does its work.
BackgroundReturns(c) ==
  /\ handler[c] = "check"
  /\ kind[c] \in {"sync", "read"}
  /\ kind[c] = "sync" => ~SignalAborted
  /\ Finish(c, "ok")
  /\ UNCHANGED <<host, toWeb, page, sends, aborted, bridge, proving, chain, history>>

\* A network or simulation error in the handler.
HandlerFails(c) ==
  /\ handler[c] \in {"check", "simulate"}
  /\ Finish(c, "error")
  /\ UNCHANGED <<host, toWeb, page, sends, aborted, bridge, proving, chain, history>>

\* proveOverBridge: refuse when cancelled, otherwise register and post.
ProveOverBridge(c) ==
  /\ handler[c] = "simulate"
  /\ IF SignalAborted
     THEN Finish(c, "aborted") /\ UNCHANGED bridge
     ELSE /\ proveSeq < MaxProves
          /\ proveSeq' = proveSeq + 1
          /\ provePending' = [provePending EXCEPT ![proveSeq'] = [call |-> c, listens |-> signal]]
          /\ handler' = [handler EXCEPT ![c] = "prove"]
          /\ toHost' = Append(toHost, [type |-> "proveRequest", id |-> proveSeq', call |-> c])
          /\ UNCHANGED signal
  /\ UNCHANGED <<host, toWeb, page, sends, aborted, proving, chain, history>>

\* The orders that list the proves of S, oldest first; there is one.
OldestFirst(S) ==
  {s \in UNION {[1..n -> S] : n \in 0..MaxProves} :
     /\ \A i \in S : \E n \in DOMAIN s : s[n] = i
     /\ \A m, n \in DOMAIN s : m < n => s[m] < s[n]}

\* abort message: fire the controller if the call is still in flight; the proves
\* that listen to it are forgotten and their handlers unwind, oldest first.
OnAbort ==
  /\ Incoming("abort")
  /\ LET c == Head(toWeb).call
         Hits == {i \in ProveIds : provePending[i].listens = c}
         unwound == {provePending[i].call : i \in Hits}
     IN IF c \notin Live
        THEN UNCHANGED <<handler, toHost, signal, aborted, provePending>>
        ELSE /\ aborted' = aborted \cup {c}
             /\ provePending' = [i \in ProveIds |-> IF i \in Hits THEN NoProve ELSE provePending[i]]
             /\ handler' = [d \in Calls |-> IF d \in unwound THEN "finished" ELSE handler[d]]
             /\ \E order \in OldestFirst(Hits) :
                  toHost' = toHost \o [n \in DOMAIN order |->
                    [type |-> "rpcResult", call |-> provePending[order[n]].call, how |-> "aborted"]]
             /\ signal' = IF signal \in unwound THEN NoCall ELSE signal
  /\ UNCHANGED <<host, page, sends, proveSeq, proving, chain, history>>

\* proveResult message: resolve the prove pending under that id, if there is one.
OnProveResult ==
  /\ Incoming("proveResult")
  /\ LET m == Head(toWeb)
         c == provePending[m.id].call
     IN IF c = NoCall
        THEN UNCHANGED <<handler, toHost, signal, provePending, proofOf>>
        ELSE /\ provePending' = [provePending EXCEPT ![m.id] = NoProve]
             /\ proofOf' = [proofOf EXCEPT ![c] = m.call]
             /\ IF m.verified
                THEN handler' = [handler EXCEPT ![c] = "send"] /\ UNCHANGED <<toHost, signal>>
                ELSE Finish(c, "error")
  /\ UNCHANGED <<host, page, sends, aborted, proveSeq, proving, chain, cancelled, lostReply>>

\* The bridge's own timer.
ProveTimeout(i) ==
  /\ provePending[i].call # NoCall
  /\ provePending' = [provePending EXCEPT ![i] = NoProve]
  /\ Finish(provePending[i].call, "error")
  /\ UNCHANGED <<host, toWeb, page, sends, aborted, proveSeq, proving, chain, history>>

\* The node answers the send: deployAmm goes on to its second one.
SendReturns(c) ==
  /\ handler[c] = "sent"
  /\ IF sends[c] < Sends(c)
     THEN handler' = [handler EXCEPT ![c] = "simulate"] /\ UNCHANGED <<toHost, signal>>
     ELSE Finish(c, "ok")
  /\ UNCHANGED <<host, toWeb, page, sends, aborted, bridge, proving, chain, history>>

-------------------------------------------------------------------------------
(* External: the native prover, the node, the render process. *)

NativeAnswers(p, verified) ==
  /\ proving' = proving \ {p}
  /\ Post([type |-> "proveResult", id |-> p.id, call |-> p.call, verified |-> verified])
  /\ UNCHANGED <<host, toHost, page, web, chain, history>>

NodeAccepts(c) ==
  /\ handler[c] = "send"
  /\ proofOf[c] = c
  /\ handler' = [handler EXCEPT ![c] = "sent"]
  /\ sends' = [sends EXCEPT ![c] = @ + 1]
  /\ chain' = chain \cup {<<c, sends'[c]>>}
  /\ UNCHANGED <<host, toWeb, toHost, page, signal, aborted, bridge, proving, history>>

NodeRejects(c) ==
  /\ handler[c] = "send"
  /\ Finish(c, "error")
  /\ UNCHANGED <<host, toWeb, page, sends, aborted, bridge, proving, chain, history>>

\* The node has accepted, its answer is lost.
ReplyLost(c) ==
  /\ handler[c] = "sent"
  /\ Finish(c, "error")
  /\ lostReply' = lostReply \cup {c}
  /\ UNCHANGED <<host, toWeb, page, sends, aborted, bridge, proving, chain, cancelled, proofOf>>

\* The render process dies, or its document is replaced under RN.
Forget ==
  /\ toWeb' = <<>>
  /\ booted' = FALSE
  /\ handler' = [c \in Calls |-> IF c \in Live THEN "gone" ELSE handler[c]]
  /\ signal' = NoCall /\ aborted' = {}
  /\ provePending' = [i \in ProveIds |-> NoProve] /\ proveSeq' = 0
  /\ UNCHANGED <<host, sends, proving, chain, history>>

RendererGone ==
  /\ alive
  /\ alive' = FALSE
  /\ toHost' = Append(toHost, [type |-> "crash"])
  /\ Forget
  /\ UNCHANGED loads

SilentReload ==
  /\ alive
  /\ loads < MaxLoads
  /\ loads' = loads + 1
  /\ toHost' = Append(toHost, [type |-> "ready"])
  /\ Forget
  /\ UNCHANGED alive

-------------------------------------------------------------------------------

HostStep ==
  \/ \E c \in Calls, k \in Flows : StartFlow(c, k)
  \/ \E c \in Calls, k \in {"sync", "read"} : StartBackground(c, k)
  \/ Cancel
  \/ \E c \in Calls : Timeout(c) \/ Track(c)
  \/ OnRpcResult
  \/ OnProveRequest
  \/ OnReady
  \/ OnCrash
  \/ Restart
  \/ Booted

WebStep ==
  \/ Dispatch
  \/ OnAbort
  \/ OnProveResult
  \/ \E i \in ProveIds : ProveTimeout(i)
  \/ \E c \in Calls : \/ Check(c)
                     \/ BackgroundReturns(c)
                     \/ HandlerFails(c)
                     \/ ProveOverBridge(c)
                     \/ SendReturns(c)

ExternalStep ==
  \/ \E p \in proving, v \in BOOLEAN : NativeAnswers(p, v)
  \/ \E c \in Calls : NodeAccepts(c) \/ NodeRejects(c) \/ ReplyLost(c)
  \/ RendererGone
  \/ SilentReload

Next == HostStep \/ WebStep \/ ExternalStep

Spec == Init /\ [][Next]_vars

\* RN's event loop fires its timers and finishes its storage writes.  Nothing is
\* assumed of the WebView, the prover, the node or the user, nor of the order in
\* which the loop takes a timer and a message.
FairSpec == Spec /\ \A c \in Calls : WF_vars(Timeout(c) \/ Track(c))

-------------------------------------------------------------------------------
(* Properties. *)

CallsOrNone == Calls \cup {NoCall}
Txs == Calls \X (1..2)

ToWebMessages ==
  [type : {"rpc", "abort"}, call : Calls]
    \cup [type : {"proveResult"}, id : ProveIds, call : Calls, verified : BOOLEAN]
ToHostMessages ==
  [type : {"ready", "crash"}]
    \cup [type : {"proveRequest"}, id : ProveIds, call : Calls]
    \cup [type : {"rpcResult"}, call : Calls, how : {"ok", "error", "aborted"}]

\* Type correctness; what is tracked is what the flow was told it sent.
TypeOK ==
  /\ phase \in {"ready", "crashed", "webview", "boot"}
  /\ crashed \in BOOLEAN /\ alive \in BOOLEAN /\ booted \in BOOLEAN
  /\ busy \in CallsOrNone /\ activeCall \in CallsOrNone /\ signal \in CallsOrNone
  /\ pending \subseteq Calls /\ aborted \subseteq Calls
  /\ cancelled \subseteq Calls /\ lostReply \subseteq Calls
  /\ kind \in [Calls -> Kinds \cup {"none"}]
  /\ caller \in [Calls -> {"idle", "waiting", "tracking", "done"}]
  /\ outcome \in [Calls -> {"none", "ok", "error", "aborted", "timeout", "lost"}]
  /\ tracked \subseteq Txs /\ chain \subseteq Txs
  /\ toWeb \in Seq(ToWebMessages) /\ toHost \in Seq(ToHostMessages)
  /\ loads \in 1..MaxLoads
  /\ handler \in [Calls -> {"none", "check", "simulate", "prove", "send", "sent", "finished", "gone"}]
  /\ sends \in [Calls -> 0..2]
  /\ provePending \in [ProveIds -> [call : CallsOrNone, listens : CallsOrNone]]
  /\ proveSeq \in 0..MaxProves
  /\ proving \subseteq [id : ProveIds, call : Calls]
  /\ proofOf \in [Calls -> CallsOrNone]

InFlow(c) == Cancellable(c) /\ caller[c] \in {"waiting", "tracking"}

\* The busy lock: once the session is ready, the flow on the screen is the one
\* flow that runs, and no flow runs behind a free lock.
OneFlow ==
  phase = "ready" => {c \in Calls : InFlow(c)} = {busy} \ {NoCall}

\* While RN waits for a flow's call and its handler runs, the abort signal that
\* checkAbort and proveOverBridge read is that flow's own, whatever background
\* calls are interleaved and whatever handlers of timed-out flows still run.
CancelReachesFlow ==
  \A c \in pending \cap Live : Cancellable(c) => signal = c

\* Only a flow its user cancelled is reported as cancelled.
OnlyCancelledAborts ==
  \A c \in Calls : outcome[c] = "aborted" => c \in cancelled

\* A transaction that the node accepted from a one-transaction flow is handed to
\* the store, unless the reply was lost, the call timed out, or its page died: a
\* cancel never makes the wallet forget what it submitted.
NoForgottenTx ==
  \A c \in Calls :
    kind[c] = "single" /\ caller[c] = "done" /\ <<c, 1>> \in chain =>
      <<c, 1>> \in tracked \/ outcome[c] \in {"timeout", "lost"} \/ c \in lostReply

\* Whatever the WebView, the prover and the node do, no flow keeps the lock forever.
BusyReleased == \A c \in Calls : busy = c ~> busy # c

\* wallet-main.ts: nothing durable was submitted by a call reported as cancelled;
\* once deployAmm's first send lands it always returns both hashes.
CancelledSentNothing ==
  \A c \in Calls : outcome[c] = "aborted" /\ c \notin lostReply => <<c, 1>> \notin chain

\* wallet-main.ts: a late proveResult is ignored, so a prove is resolved by the
\* proof of its own execution steps only.
ProofIsOwn == \A c \in Calls : handler[c] = "send" => proofOf[c] = c
===============================================================================
