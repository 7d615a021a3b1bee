------------------------------- MODULE Bootstrap -------------------------------
(***************************************************************************)
(* From the mount of the app to a usable wallet: the asset server, the     *)
(* WebView and its documents, the boot sequence of onWebViewReady against  *)
(* the handlers of wallet-main.ts, the Keystore-sealed store key and vault *)
(* (keyStore.ts, SecureKeysModule.kt), and onboarding as far as it writes  *)
(* the vault.  The app, the renderer and the document may each be replaced *)
(* at any await.                                                           *)
(*                                                                         *)
(* A job is a continuation of React Native: job d is the boot started by   *)
(* the 'ready' of document d, job Flow(a) the onboarding of account a.  A  *)
(* store key is named by the boot that made it up; accounts and Keystore   *)
(* keys are numbered.  A fresh one is assumed to be unique.                *)
(***************************************************************************)
EXTENDS Naturals, Sequences

CONSTANTS
  MaxLoads,         \* bound on the document loads begun
  MaxAccounts,      \* bound on the accounts generated
  MaxLateLoads,     \* the same two bounds, once a job has gone on unaware that
  MaxLateAccounts,  \* its document was gone
  MaxKills          \* bound on the deaths of the app

ASSUME BoundsAssumption ==
  /\ MaxLoads \in Nat \ {0} /\ MaxLateLoads \in 0..MaxLoads
  /\ MaxAccounts \in Nat \ {0} /\ MaxLateAccounts \in 0..MaxAccounts
  /\ MaxKills \in Nat

None == 0
Docs == 1..MaxLoads
Accounts == 1..MaxAccounts
Flow(a) == MaxLoads + a
Onboardings == {Flow(a) : a \in Accounts}
Jobs == Docs \cup Onboardings

VARIABLES
  (* React Native *)
  phase,      \* the phase of the snapshot: the screen shown
  busy,       \* its lock of the flows is held
  booted,     \* a document was booted since the last restart
  origin,     \* the server is up, its origin known and the WebView mounted
  crashed,    \* PxeSession.crashed
  memVault,   \* WalletController.vault: its account
  job,        \* where each continuation stands, and what it carries
  (* the channels *)
  toWeb,      \* injected messages the document has not handled
  toHost,     \* posted messages and WebView events RN has not handled
  (* the WebView *)
  page,       \* the document: "none", "loading", "live" or "gone"
  doc,        \* the loads begun; the last is the current document
  session,    \* `session` of wallet-main.ts is set
  accounts,   \* the accounts registered in it
  handler,    \* where the handler of each job stands: `boot` with its store key,
              \* createAccount with its account
  (* storage *)
  keystore,   \* the sealing key under the Keystore alias
  diskKey,    \* wallet/store-key.sealed
  diskVault,  \* wallet/vault.sealed
  store,      \* the key the encrypted PXE store on OPFS was created under
  (* counters and history *)
  generated,  \* the accounts generated
  kills,
  shown,      \* the account that the wallet was last shown with
  stale       \* some job went on, not knowing that its document was gone

host == <<phase, busy, booted, origin, crashed, memVault, job>>
channels == <<toWeb, toHost>>
web == <<page, doc, session, accounts, handler>>
disk == <<keystore, diskKey, diskVault, store>>
counters == <<generated, kills, shown>>
vars == <<host, channels, web, disk, counters, stale>>

\* A sealed blob: what it hides, and the Keystore key it is sealed under.
NoBlob == [plain |-> None, under |-> None]
Idle == [step |-> "none", plain |-> None, under |-> None]
NoHandler == [step |-> "none", key |-> None]
NoHandlers == [j \in Jobs |-> NoHandler]

Init ==
  /\ phase = "init" /\ busy = FALSE /\ booted = FALSE
  /\ origin = FALSE /\ crashed = FALSE /\ memVault = None
  /\ job = [j \in Jobs |-> Idle]
  /\ toWeb = <<>> /\ toHost = <<>>
  /\ page = "none" /\ doc = 0 /\ session = FALSE /\ accounts = {} /\ handler = NoHandlers
  /\ keystore = None /\ diskKey = NoBlob /\ diskVault = NoBlob /\ store = None
  /\ generated = 0 /\ kills = 0 /\ shown = None
  /\ stale = FALSE

-------------------------------------------------------------------------------
(* Jobs and their session calls. *)

CallSteps == {"probe", "boot", "restore", "register"}
Waiting(j) == job[j].step \in CallSteps
Boots == {d \in Docs : job[d].step # "none"}

At(j, step) == job[j].step = step
Goto(j, step) == job' = [job EXCEPT ![j].step = step]

\* A boot that throws shows the fatal screen; a flow that throws keeps the phase
\* and gives up the lock.
Throw(j) ==
  /\ job' = [job EXCEPT ![j] = Idle]
  /\ phase' = IF j \in Onboardings THEN phase ELSE "fatal"
  /\ busy' = (busy /\ j \notin Onboardings)

\* injectJavaScript reaches the live document, or nobody.
Post(m) == toWeb' = IF page = "live" THEN Append(toWeb, m) ELSE toWeb

\* RN is about to learn that the document was replaced or died.
NoticePosted == \E i \in DOMAIN toHost : toHost[i].type \in {"ready", "crash"}

\* PxeSession.call of the RPC `method` about `plain`.  The document that gets it
\* may be one that the job does not know.
Call(j, method, plain) ==
  /\ stale' = (stale \/ NoticePosted)
  /\ IF crashed
     THEN Throw(j) /\ UNCHANGED toWeb
     ELSE /\ job' = [job EXCEPT ![j] = [step |-> method, plain |-> plain, under |-> None]]
          /\ Post([job |-> j, method |-> method, plain |-> plain])
          /\ UNCHANGED <<phase, busy>>

\* Mutant: the call has no timer.
NeverTimeout(j) == FALSE /\ UNCHANGED vars

\* The call's timer fires.
Timeout(j) ==
  /\ Waiting(j)
  /\ Throw(j)
  /\ UNCHANGED <<booted, origin, crashed, memVault, channels, web, disk, counters, stale>>

Receive(type) == toHost # <<>> /\ Head(toHost).type = type /\ toHost' = Tail(toHost)

\* The wallet is shown, with the account in memory.
ShowWallet == phase' = "ready" /\ shown' = memVault

\* rpcResult: only the call that waits for it goes on.  `restore` ends the boot.
OnResult ==
  /\ Receive("result")
  /\ LET m == Head(toHost)
         j == m.job
     IN IF ~At(j, m.method) \/ job[j].plain # m.plain
        THEN UNCHANGED <<phase, busy, job, shown>>
        ELSE IF ~m.ok
        THEN Throw(j) /\ UNCHANGED shown
        ELSE IF m.method = "restore"
        THEN ShowWallet /\ job' = [job EXCEPT ![j] = Idle] /\ UNCHANGED busy
        ELSE /\ Goto(j, CASE m.method = "probe" -> "srs"
                          [] m.method = "boot" -> "vault"
                          [] m.method = "register" -> "save")
             /\ UNCHANGED <<phase, busy, shown>>
  /\ UNCHANGED <<booted, origin, crashed, memVault, toWeb, web, disk, generated, kills, stale>>

-------------------------------------------------------------------------------
(* start, 'ready', crash and restart. *)

\* The WebView starts to load: the document it held is gone with all its state.
BeginLoad ==
  /\ doc < (IF stale THEN MaxLateLoads ELSE MaxLoads)
  /\ doc' = doc + 1
  /\ page' = "loading"
  /\ session' = FALSE /\ accounts' = {} /\ handler' = NoHandlers
  /\ toWeb' = <<>>

\* start: the stores load and the server binds its port, and the WebView mounts;
\* or one of them fails and nothing is mounted.
Start ==
  /\ phase = "init"
  /\ \/ origin' = TRUE /\ phase' = "webview" /\ BeginLoad
     \/ origin' = FALSE /\ phase' = "fatal" /\ UNCHANGED <<toWeb, web>>
  /\ UNCHANGED <<busy, booted, crashed, memVault, job, toHost, disk, counters, stale>>

\* Everything pending rejects.  The catch clauses of the boots among them run
\* after the handler that rejects, so "fatal" replaces the phase it sets; a flow
\* among them gives up the lock.
RejectPending(next) == [j \in Jobs |-> IF Waiting(j) THEN Idle ELSE next[j]]
PhaseAfter(set) == IF \E d \in Boots : Waiting(d) THEN "fatal" ELSE set
NoFlowWaits == \A f \in Onboardings : ~Waiting(f)

\* onWebViewReady: after another boot, the lock is taken from whoever holds it.
Booted == booted' = TRUE /\ busy' = (busy /\ ~booted /\ NoFlowWaits)

\* A job at a storage write or in native code learns nothing of it.
Unnoticed == \E j \in Jobs : ~At(j, "none") /\ ~Waiting(j)

Booting == [Idle EXCEPT !.step = "probe"]
ProbeOf(d) == [job |-> d, method |-> "probe", plain |-> None]

\* Mutant: the calls to the dead page stay pending.
OnReadyKeeping ==
  /\ Receive("ready")
  /\ LET d == Head(toHost).doc IN
     /\ job' = [job EXCEPT ![d] = IF crashed THEN Idle ELSE Booting]
     /\ IF crashed THEN UNCHANGED toWeb ELSE Post(ProbeOf(d))
  /\ phase' = IF crashed THEN "fatal" ELSE "boot"
  /\ booted' = TRUE /\ busy' = (busy /\ ~booted)
  /\ stale' = (stale \/ Unnoticed)
  /\ UNCHANGED <<origin, crashed, memVault, web, disk, counters>>

\* Mutant: a document that reloads on its own is not booted.
OnReadyOnce ==
  /\ Receive("ready")
  /\ LET d == Head(toHost).doc
         boots == phase = "webview" /\ ~crashed
     IN /\ job' = [RejectPending(job) EXCEPT ![d] = IF boots THEN Booting ELSE Idle]
        /\ IF boots THEN Post(ProbeOf(d)) ELSE UNCHANGED toWeb
        /\ phase' = PhaseAfter(IF boots THEN "boot" ELSE phase)
  /\ Booted
  /\ stale' = (stale \/ Unnoticed)
  /\ UNCHANGED <<origin, crashed, memVault, web, disk, counters>>

\* 'ready': what is pending belongs to a page that is gone; then onWebViewReady
\* up to its first call, which throws while a crash is on record.
OnReady ==
  /\ Receive("ready")
  /\ LET d == Head(toHost).doc IN
     /\ job' = [RejectPending(job) EXCEPT ![d] = IF crashed THEN Idle ELSE Booting]
     /\ IF crashed THEN UNCHANGED toWeb ELSE Post(ProbeOf(d))
  /\ phase' = IF crashed THEN "fatal" ELSE PhaseAfter("boot")
  /\ Booted
  /\ stale' = (stale \/ Unnoticed)
  /\ UNCHANGED <<origin, crashed, memVault, web, disk, counters>>

\* Everything in flight is rejected.
HandleCrash ==
  /\ crashed' = TRUE
  /\ job' = RejectPending(job)

\* onWebViewCrash.
OnCrash ==
  /\ Receive("crash")
  /\ HandleCrash
  /\ phase' = PhaseAfter("crashed")
  /\ busy' = FALSE
  /\ stale' = (stale \/ Unnoticed)
  /\ UNCHANGED <<booted, origin, memVault, toWeb, web, disk, counters>>

\* The two screens with a button, Retry and Restart session.
RestartOffered == phase \in {"fatal", "crashed"}

RestartSession ==
  /\ crashed' = FALSE /\ booted' = FALSE
  /\ phase' = "webview"

\* Mutant: the session restarts, the WebView is not reloaded.
RestartNoReload ==
  /\ RestartOffered
  /\ RestartSession
  /\ UNCHANGED <<busy, origin, memVault, job, channels, web, disk, counters, stale>>

\* restartSession, then webRef.current?.reload(), which does nothing when no
\* WebView was ever mounted.
Restart ==
  /\ RestartOffered
  /\ RestartSession
  /\ IF origin THEN BeginLoad ELSE UNCHANGED <<toWeb, web>>
  /\ UNCHANGED <<busy, origin, memVault, job, toHost, disk, counters, stale>>

-------------------------------------------------------------------------------
(* Sealing: SecureKeysModule. *)

\* seal() looks the alias up, on a thread of its own ...
SealLooks(j) ==
  /\ At(j, "seal")
  /\ job' = IF keystore = None
            THEN [job EXCEPT ![j].step = "generate"]
            ELSE [job EXCEPT ![j].step = "write", ![j].under = keystore]
  /\ UNCHANGED <<phase, busy, booted, origin, crashed, memVault, channels, web, disk, counters, stale>>

\* ... and generates the key it did not find: it replaces what another thread has
\* generated there since.
SealGenerates(j) ==
  /\ At(j, "generate")
  /\ keystore' = keystore + 1
  /\ job' = [job EXCEPT ![j].step = "write", ![j].under = keystore']
  /\ UNCHANGED <<phase, busy, booted, origin, crashed, memVault, channels, web, diskKey, diskVault, store, counters, stale>>

Blob(j) == [plain |-> job[j].plain, under |-> job[j].under]

-------------------------------------------------------------------------------
(* The boot sequence. *)

\* initSrs returns, or throws.
SrsReturns(d) ==
  /\ At(d, "srs")
  /\ \/ Goto(d, "key") /\ UNCHANGED <<phase, busy>>
     \/ Throw(d)
  /\ UNCHANGED <<booted, origin, crashed, memVault, channels, web, disk, counters, stale>>

\* getOrCreateStoreKey reads the sealed key, or makes up one, key d.
KeyRead(d) ==
  /\ At(d, "key")
  /\ job' = [job EXCEPT ![d] =
       IF diskKey = NoBlob THEN [step |-> "seal", plain |-> d, under |-> None]
       ELSE [step |-> "unseal", plain |-> diskKey.plain, under |-> diskKey.under]]
  /\ UNCHANGED <<phase, busy, booted, origin, crashed, memVault, channels, web, disk, counters, stale>>

KeyUnsealed(d) ==
  /\ At(d, "unseal")
  /\ job[d].under = keystore
  /\ Call(d, "boot", job[d].plain)
  /\ UNCHANGED <<booted, origin, crashed, memVault, toHost, web, disk, counters>>

\* Mutant: the key goes to the page before it is stored.
KeyUnsaved(d) ==
  /\ At(d, "write")
  /\ Call(d, "boot", job[d].plain)
  /\ UNCHANGED <<booted, origin, crashed, memVault, toHost, web, disk, counters>>

\* The sealed key is stored; now the page may have it.
KeySaved(d) ==
  /\ At(d, "write")
  /\ diskKey' = Blob(d)
  /\ Call(d, "boot", job[d].plain)
  /\ UNCHANGED <<booted, origin, crashed, memVault, toHost, web, keystore, diskVault, store, counters>>

\* Whatever fails on the way: boot without a store key.
KeyUnavailable(d) ==
  /\ job[d].step \in {"key", "unseal", "seal", "generate", "write"}
  /\ Call(d, "boot", None)
  /\ UNCHANGED <<booted, origin, crashed, memVault, toHost, web, disk, counters>>

\* loadVault reads the sealed vault, or that there is none.
VaultRead(d) ==
  /\ At(d, "vault")
  /\ job' = [job EXCEPT ![d] =
       IF diskVault = NoBlob THEN [Idle EXCEPT !.step = "absent"]
       ELSE [step |-> "open", plain |-> diskVault.plain, under |-> diskVault.under]]
  /\ UNCHANGED <<phase, busy, booted, origin, crashed, memVault, channels, web, disk, counters, stale>>

\* It returned null: no vault in memory either, and onboarding is shown.
VaultMissing(d) ==
  /\ At(d, "absent")
  /\ memVault' = None /\ phase' = "onboarding" /\ job' = [job EXCEPT ![d] = Idle]
  /\ UNCHANGED <<busy, booted, origin, crashed, channels, web, disk, counters, stale>>

\* Mutant: the account after the one of the vault.
NextUnsealed(d) ==
  /\ At(d, "open")
  /\ job[d].under = keystore /\ job[d].plain # None
  /\ memVault' = job[d].plain + 1
  /\ Call(d, "restore", memVault')
  /\ UNCHANGED <<booted, origin, crashed, toHost, web, disk, counters>>

\* Its account is restored in the page; the null that OnboardingEnds may have
\* sealed has none, and reading its version throws.
VaultUnsealed(d) ==
  /\ At(d, "open")
  /\ job[d].under = keystore /\ job[d].plain # None
  /\ memVault' = job[d].plain
  /\ Call(d, "restore", job[d].plain)
  /\ UNCHANGED <<booted, origin, crashed, toHost, web, disk, counters>>

\* Mutant: a vault that cannot be read counts as none.
VaultForgotten(d) ==
  /\ job[d].step \in {"vault", "open"}
  /\ memVault' = None /\ phase' = "onboarding" /\ job' = [job EXCEPT ![d] = Idle]
  /\ UNCHANGED <<busy, booted, origin, crashed, channels, web, disk, counters, stale>>

\* Storage or the Keystore fails, or the vault is not one: the boot throws.
VaultUnreadable(d) ==
  /\ job[d].step \in {"vault", "open"}
  /\ Throw(d)
  /\ UNCHANGED <<booted, origin, crashed, memVault, channels, web, disk, counters, stale>>

BootStep(d) ==
  \/ SrsReturns(d)
  \/ KeyRead(d) \/ KeyUnsealed(d) \/ KeySaved(d) \/ KeyUnavailable(d)
  \/ VaultRead(d) \/ VaultMissing(d) \/ VaultUnsealed(d) \/ VaultUnreadable(d)

-------------------------------------------------------------------------------
(* Onboarding; TxStore has its transaction. *)

\* The button of OnboardingScreen, and the lock that runFlow tests.
CreateAccountOffered == phase = "onboarding" /\ ~busy

\* The lock, and fresh account material.
Onboard ==
  /\ CreateAccountOffered
  /\ generated < (IF stale THEN MaxLateAccounts ELSE MaxAccounts)
  /\ generated' = generated + 1
  /\ memVault' = generated'
  /\ busy' = TRUE
  /\ job' = [job EXCEPT ![Flow(generated')] = [step |-> "seal", plain |-> generated', under |-> None]]
  /\ UNCHANGED <<phase, booted, origin, crashed, channels, web, disk, kills, shown, stale>>

\* The keys are stored; createAccount and deployAccount follow, as one call here.
VaultSaved(f) ==
  /\ At(f, "write")
  /\ diskVault' = Blob(f)
  /\ Call(f, "register", job[f].plain)
  /\ UNCHANGED <<booted, origin, crashed, memVault, toHost, web, keystore, diskKey, store, counters>>

\* The vault, which a boot may have set to null since, is stored with the
\* deployment's hash, the transaction is tracked, the wallet is shown, whatever
\* has become of its page, and the lock given up.
OnboardingEnds(f) ==
  /\ At(f, "save")
  /\ diskVault' = [plain |-> memVault, under |-> keystore]
  /\ job' = [job EXCEPT ![f] = Idle]
  /\ ShowWallet
  /\ busy' = FALSE
  /\ UNCHANGED <<booted, origin, crashed, memVault, channels, web, keystore, diskKey, store, generated, kills, stale>>

OnboardingFails(f) ==
  /\ job[f].step \in {"seal", "generate", "write", "save"}
  /\ Throw(f)
  /\ UNCHANGED <<booted, origin, crashed, memVault, channels, web, disk, counters, stale>>

FlowStep(f) == VaultSaved(f) \/ OnboardingEnds(f) \/ OnboardingFails(f)

-------------------------------------------------------------------------------
(* The document: wallet-main.ts. *)

Incoming(method) == toWeb # <<>> /\ Head(toWeb).method = method /\ toWeb' = Tail(toWeb)

Reply(j, method, plain, ok) ==
  toHost' = Append(toHost, [type |-> "result", job |-> j, method |-> method, plain |-> plain, ok |-> ok])

HandlerAt(d, step) == handler[d].step = step

\* storageProbe only reports what it finds, and its probes catch what they throw.
StorageProbe ==
  /\ Incoming("probe")
  /\ Reply(Head(toWeb).job, "probe", None, TRUE)
  /\ UNCHANGED <<host, web, disk, counters, stale>>

\* boot: refuse a second session; the encrypted store needs a key.
BootCalled ==
  /\ Incoming("boot")
  /\ LET m == Head(toWeb) IN
     IF session
     THEN Reply(m.job, "boot", m.plain, FALSE) /\ UNCHANGED handler
     ELSE /\ handler' = [handler EXCEPT ![m.job] =
               [step |-> IF m.plain = None THEN "create" ELSE "opfs", key |-> m.plain]]
          /\ UNCHANGED toHost
  /\ UNCHANGED <<host, page, doc, session, accounts, disk, counters, stale>>

\* probeOpfs: only where the directory opens is the encrypted store tried.
OpfsProbed(d) ==
  /\ HandlerAt(d, "opfs")
  /\ \E dirOpens \in BOOLEAN :
       handler' = [handler EXCEPT ![d].step = IF dirOpens THEN "open" ELSE "create"]
  /\ UNCHANGED <<host, channels, page, doc, session, accounts, disk, counters, stale>>

\* The encrypted store is created under the key of the call, or opens with it.
StoreOpens(d) ==
  /\ HandlerAt(d, "open")
  /\ store \in {None, handler[d].key}
  /\ store' = handler[d].key
  /\ handler' = [handler EXCEPT ![d].step = "create"]
  /\ UNCHANGED <<host, channels, page, doc, session, accounts, keystore, diskKey, diskVault, counters, stale>>

\* A wrong key, an error, 30 s without an answer: the plain store.  The open that
\* is given up may have created the encrypted one all the same.
StoreFallsBack(d) ==
  /\ HandlerAt(d, "open")
  /\ store' \in {store} \cup (IF store = None THEN {handler[d].key} ELSE {})
  /\ handler' = [handler EXCEPT ![d].step = "create"]
  /\ UNCHANGED <<host, channels, page, doc, session, accounts, keystore, diskKey, diskVault, counters, stale>>

\* A handler that creates an account registers it in the session that it found.
Orphaned(h) == IF h.step = "account" THEN [h EXCEPT !.step = "orphan"] ELSE h

\* The wallet is created and the fee contract registered: the session is set.
WalletCreated(d) ==
  /\ HandlerAt(d, "create")
  /\ handler' = [j \in Jobs |-> IF j = d THEN [handler[j] EXCEPT !.step = "info"] ELSE Orphaned(handler[j])]
  /\ session' = TRUE /\ accounts' = {}
  /\ UNCHANGED <<host, channels, page, doc, disk, counters, stale>>

\* The handler returns what the node says of itself.
BootReturns(d) ==
  /\ HandlerAt(d, "info")
  /\ handler' = [handler EXCEPT ![d] = NoHandler]
  /\ Reply(d, "boot", handler[d].key, TRUE)
  /\ UNCHANGED <<host, toWeb, page, doc, session, accounts, disk, counters, stale>>

\* It throws; a session that is set stays set.
BootThrows(d) ==
  /\ handler[d].step \in {"create", "info"}
  /\ handler' = [handler EXCEPT ![d] = NoHandler]
  /\ Reply(d, "boot", handler[d].key, FALSE)
  /\ UNCHANGED <<host, toWeb, page, doc, session, accounts, disk, counters, stale>>

\* Whoever needs the wallet throws before boot has set the session.
RequireSession == session

\* createAccount, by itself or from restoreAccounts: it needs a session.
AccountCalled(method) ==
  /\ Incoming(method)
  /\ LET m == Head(toWeb) IN
     IF RequireSession
     THEN handler' = [handler EXCEPT ![m.job] = [step |-> "account", key |-> m.plain]] /\ UNCHANGED toHost
     ELSE Reply(m.job, method, m.plain, FALSE) /\ UNCHANGED handler
  /\ UNCHANGED <<host, page, doc, session, accounts, disk, counters, stale>>

AccountReply(j, ok) == Reply(j, IF j \in Docs THEN "restore" ELSE "register", handler[j].key, ok)

\* createECDSARAccount is done: the account is registered in that session ...
AccountCreated(j) ==
  /\ handler[j].step \in {"account", "orphan"}
  /\ accounts' = accounts \cup (IF HandlerAt(j, "account") THEN {handler[j].key} ELSE {})
  /\ handler' = [handler EXCEPT ![j] = NoHandler]
  /\ AccountReply(j, TRUE)
  /\ UNCHANGED <<host, toWeb, page, doc, session, disk, counters, stale>>

\* ... or it throws.
AccountFails(j) ==
  /\ handler[j].step \in {"account", "orphan"}
  /\ handler' = [handler EXCEPT ![j] = NoHandler]
  /\ AccountReply(j, FALSE)
  /\ UNCHANGED <<host, toWeb, page, doc, session, accounts, disk, counters, stale>>

PageStep ==
  \/ StorageProbe
  \/ BootCalled
  \/ \E d \in Docs : \/ OpfsProbed(d)
                     \/ StoreOpens(d) \/ StoreFallsBack(d)
                     \/ WalletCreated(d) \/ BootReturns(d) \/ BootThrows(d)
  \/ \E method \in {"restore", "register"} : AccountCalled(method)
  \/ \E j \in Jobs : AccountCreated(j) \/ AccountFails(j)

-------------------------------------------------------------------------------
(* External: the WebView, the renderer, the system. *)

\* The document is evaluated; its last statement posts 'ready'.
Loaded ==
  /\ page = "loading"
  /\ page' = "live"
  /\ toHost' = Append(toHost, [type |-> "ready", doc |-> doc])
  /\ UNCHANGED <<host, toWeb, doc, session, accounts, handler, disk, counters, stale>>

\* The document is replaced without RN having asked for it.
SilentReload ==
  /\ page = "live"
  /\ BeginLoad
  /\ UNCHANGED <<host, toHost, disk, counters, stale>>

\* onRenderProcessGone, or onError of a load.
PageGone ==
  /\ page \in {"loading", "live"}
  /\ page' = "gone"
  /\ session' = FALSE /\ accounts' = {} /\ handler' = NoHandlers
  /\ toWeb' = <<>>
  /\ toHost' = Append(toHost, [type |-> "crash"])
  /\ UNCHANGED <<host, doc, disk, counters, stale>>

\* The app dies, and is started again.
Kill ==
  /\ phase # "init" /\ kills < MaxKills
  /\ kills' = kills + 1
  /\ phase' = "init" /\ busy' = FALSE /\ booted' = FALSE
  /\ origin' = FALSE /\ crashed' = FALSE /\ memVault' = None
  /\ job' = [j \in Jobs |-> Idle]
  /\ toWeb' = <<>> /\ toHost' = <<>>
  /\ page' = "none" /\ session' = FALSE /\ accounts' = {} /\ handler' = NoHandlers
  /\ UNCHANGED <<doc, disk, generated, shown, stale>>

-------------------------------------------------------------------------------

\* RN takes the next event of the WebView.
HostEvent == OnReady \/ OnCrash \/ OnResult

\* A job goes on where its call, storage or native code has settled.
JobStep(j) ==
  \/ Timeout(j)
  \/ SealLooks(j) \/ SealGenerates(j)
  \/ j \in Docs /\ BootStep(j)
  \/ j \in Onboardings /\ FlowStep(j)

Next ==
  \/ Start \/ Restart \/ Onboard
  \/ HostEvent
  \/ \E j \in Jobs : JobStep(j)
  \/ PageStep
  \/ Loaded \/ SilentReload \/ PageGone \/ Kill

Spec == Init /\ [][Next]_vars

\* RN handles what was posted to it and fires its timers; storage, the Keystore
\* and initSrs return or throw.  Nothing is assumed of the WebView and the user.
FairSpec == Spec /\ WF_vars(HostEvent) /\ \A j \in Jobs : WF_vars(JobStep(j))

-------------------------------------------------------------------------------
(* Properties. *)

Blobs == [plain : Nat, under : Nat]

\* Type correctness.
TypeOK ==
  /\ phase \in {"init", "webview", "boot", "ready", "onboarding", "fatal", "crashed"}
  /\ {busy, booted, origin, crashed, session, stale} \subseteq BOOLEAN
  /\ memVault \in Accounts \cup {None} /\ accounts \subseteq Accounts
  /\ job \in [Jobs -> [step : CallSteps \cup {"none", "srs", "key", "unseal", "seal", "generate",
                                              "write", "vault", "absent", "open", "save"},
                       plain : Nat, under : Nat]]
  /\ toWeb \in Seq([job : Jobs, method : CallSteps, plain : Nat])
  /\ toHost \in Seq([type : {"ready"}, doc : Docs] \cup [type : {"crash"}]
                       \cup [type : {"result"}, job : Jobs, method : CallSteps, plain : Nat, ok : BOOLEAN])
  /\ page \in {"none", "loading", "live", "gone"} /\ doc \in 0..MaxLoads
  /\ handler \in [Jobs -> [step : {"none", "opfs", "open", "create", "info", "account", "orphan"}, key : Nat]]
  /\ diskKey \in Blobs /\ diskVault \in Blobs
  /\ {keystore, store} \subseteq Nat
  /\ generated \in 0..MaxAccounts /\ kills \in 0..MaxKills /\ shown \in Accounts \cup {None}

Noticing == page = "loading" \/ NoticePosted

\* The wallet on the screen works: its document is booted, the account shown is
\* registered in it and sealed on disk, unless RN is about to learn that the page
\* was replaced or died.  (Not so once a job has gone on without noticing.)
ScreenIsBacked ==
  phase \in {"ready", "onboarding"} /\ ~stale =>
    /\ Noticing \/ (page = "live" /\ session /\ (phase = "ready" => memVault \in accounts))
    /\ phase = "ready" => diskVault.plain = memVault

\* Whatever is on disk can be opened with what else is on disk, wherever the app
\* dies: the store with the stored key, the blobs with the Keystore's.  (Not so
\* once a job has gone on without noticing: two may then generate or store a key.)
StorageOpens ==
  ~stale =>
    /\ store # None => diskKey.plain = store
    /\ \A blob \in {diskKey, diskVault} \ {NoBlob} : blob.under = keystore

\* The account that the wallet has been shown with keeps its keys on disk, whatever
\* reloads, fails, times out or dies after that: no boot takes its vault for none,
\* and onboarding, whose first write replaces it, is not offered again.  (Not so
\* once a job has gone on without noticing.)
AccountKept ==
  ~stale /\ shown # None => diskVault.plain = shown /\ phase # "onboarding"

\* WalletController.ts: the keys are sealed before deploying, so that nothing that
\* fails on the way may lose them: a stored account is never replaced by none.
KeysStay == [][diskVault.plain # None => diskVault'.plain # None]_vars

\* "Loading PXE" never waits for nothing: a load is under way or its end is on its
\* way.  (It does after a failed bind: Retry then has no WebView to reload.)
LoadAwaited == phase = "webview" /\ origin => Noticing

\* A boot that is no longer the current one never takes a working wallet down,
\* unless it has gone on without noticing that its document was gone.
ReadyStays == [][phase = "ready" /\ phase' = "fatal" => stale]_vars

\* Whatever the WebView does, the boot screen goes away.
BootEnds == phase = "boot" ~> phase # "boot"
===============================================================================
