---------------------------- MODULE BootstrapProofs -----------------------------
(***************************************************************************)
(* Proofs about Bootstrap, for any bounds on the loads, the accounts and   *)
(* the app's deaths: its type correctness, what the boot screen waits for, *)
(* and, up to the moment a job goes on unaware that its document is gone,  *)
(* that the wallet on the screen is the one in the page and on disk, and   *)
(* that what is on disk can be opened.                                     *)
(***************************************************************************)
EXTENDS Bootstrap, TLAPS

-------------------------------------------------------------------------------
(* The inductive invariant. *)

PreSteps == {"probe", "srs", "key", "unseal", "seal", "generate", "write"}
PostSteps == {"vault", "absent", "open", "restore"}
BootSteps == PreSteps \cup {"boot"} \cup PostSteps
FlowSteps == {"seal", "generate", "write", "register", "save"}

Active(j) == job[j].step # "none"
Accountable == Accounts \cup {None}

\* Which continuation is at which steps, and that what it carries is an account
\* where one is restored or registered.
CarriedBy(j, r) ==
  /\ j \in Docs => /\ r.step \in BootSteps \cup {"none"}
                   /\ r.step = "open" => r.plain \in Accountable
                   /\ r.step = "restore" => r.plain \in Accounts
  /\ j \in Onboardings => /\ r.step \in FlowSteps \cup {"none"}
                          /\ r.step # "none" => r.plain \in Accounts

Asked(m) == /\ m.method \in {"restore", "register"} => m.plain \in Accounts
            /\ m.method = "boot" => m.job \in Docs

Carried ==
  /\ \A j \in Jobs : CarriedBy(j, job[j])
  /\ \A i \in 1..Len(toWeb) : Asked(toWeb[i])
  /\ \A j \in Jobs : handler[j].step = "account" => handler[j].key \in Accounts
  /\ diskVault.plain \in Accountable
  /\ page # "none" => doc \in Docs

\* No notice comes after the i-th event.
Last(q, i) == \A k \in 1..Len(q) : k > i => q[k].type = "result"

\* Only a live document holds anything, and the last notice tells of it.
Linked ==
  /\ page # "live" => toWeb = <<>> /\ ~session /\ handler = NoHandlers
  /\ page = "none" => toHost = <<>>
  /\ ~origin => page = "none"
  /\ phase = "init" => ~origin
  /\ \A i \in 1..Len(toHost) : Last(toHost, i) /\ page # "loading" =>
       /\ toHost[i].type = "ready" => page = "live"
       /\ toHost[i].type = "crash" => page = "gone"

\* One job at a time, under a screen of its own or, when it has outlived the boot
\* before it, under the failure of that one; it is the job of the document there is.
Solo ==
  /\ \A j, k \in Jobs : Active(j) /\ Active(k) => j = k
  /\ \A d \in Docs : Active(d) => phase \in {"boot", "fatal", "webview"}
  /\ \A f \in Onboardings : Active(f) => phase = "onboarding" /\ busy
  /\ crashed => phase \in {"crashed", "fatal"} /\ \A j \in Jobs : ~Active(j)
  /\ phase \in {"onboarding", "ready"} \/ (\E d \in Docs : Active(d)) => Noticing \/ page = "live"

\* The Keystore's key first, then the blobs under it; the stored store key first,
\* then its way to the page.
KeysInOrder ==
  /\ \A blob \in {diskKey, diskVault} \ {NoBlob} : blob.under = keystore /\ keystore # None
  /\ \A j \in Jobs : At(j, "generate") => keystore = None
  /\ \A j \in Jobs : At(j, "write") => job[j].under = keystore /\ keystore # None
  /\ \A d \in Docs : job[d].step \in {"seal", "generate", "write"} => diskKey = NoBlob
  /\ \A d \in Docs : At(d, "unseal") => job[d].plain = diskKey.plain
  /\ \A f \in Onboardings : job[f].step \in {"register", "save"} => keystore # None
  /\ \A i \in 1..Len(toWeb) : toWeb[i].method = "boot" => toWeb[i].plain \in {None, diskKey.plain}
  /\ \A d \in Docs : handler[d].step \in {"opfs", "open"} =>
       handler[d].key # None /\ handler[d].key = diskKey.plain
  /\ store # None => diskKey.plain = store

\* The account in memory is the one at hand, and the one shown is on disk.
AccountAtHand ==
  /\ \A d \in Docs : job[d].step \in {"open", "restore"} => job[d].plain = diskVault.plain
  /\ \A d \in Docs : At(d, "restore") => memVault = job[d].plain
  /\ \A d \in Docs : At(d, "absent") => diskVault = NoBlob
  /\ \A f \in Onboardings : Active(f) => memVault = job[f].plain
  /\ phase = "ready" => diskVault.plain = memVault
  /\ shown # None => diskVault.plain = shown /\ phase # "onboarding"

Handling(d) == ~HandlerAt(d, "none")
Results(set) == \A i \in 1..Len(toHost) :
                  Last(toHost, i) /\ toHost[i].type = "result" => toHost[i].method \in set
Requests(set) == \A i \in 1..Len(toWeb) : toWeb[i].method \in set
NoneHandled == \A j \in Jobs : ~Handling(j)
Untouched == NoneHandled /\ Requests({"probe"}) /\ Results({"probe"})

\* A document whose 'ready' RN has not handled has only ever been probed.
Clean == NoticePosted /\ page = "live" => Untouched /\ ~session

\* One request to boot: on its way, in its handler, or answered.
Opening ==
  /\ Requests({"probe", "boot"}) /\ Results({"probe", "boot"})
  /\ \A j, k \in Jobs : Handling(j) /\ Handling(k) => j = k
  /\ (\E j \in Jobs : Handling(j)) => Requests({"probe"})
  /\ \A j \in Jobs : handler[j].step \notin {"account", "orphan"}
  /\ \A i, k \in 1..Len(toWeb) : toWeb[i].method = "boot" /\ toWeb[k].method = "boot" => i = k
  /\ \A i \in 1..Len(toHost) : toHost[i].type = "result" /\ toHost[i].method = "boot" =>
       /\ NoneHandled /\ Requests({"probe"})
       /\ toHost[i].ok => session
  /\ \A d \in Docs : HandlerAt(d, "info") => session

\* The session is set, and what it has answered is so.
Opened ==
  /\ session /\ \A j \in Jobs : handler[j].step \in {"none", "account"}
  /\ Requests({"probe", "restore", "register"})
  /\ \A i \in 1..Len(toHost) :
       toHost[i].type = "result" /\ toHost[i].method \in {"restore", "register"} /\ toHost[i].ok =>
         toHost[i].plain \in accounts

\* While RN knows its document, the stage of the boot is the state of the page.
Staged ==
  ~Noticing =>
    /\ (\E d \in Docs : job[d].step \in PreSteps) => Untouched
    /\ (\E d \in Docs : At(d, "boot")) => Opening
    /\ (\E d \in Docs : job[d].step \in PostSteps) => Opened
    /\ phase \in {"onboarding", "ready"} => Opened
    /\ phase = "ready" \/ (\E f \in Onboardings : At(f, "save")) => memVault \in accounts

Aware == Solo /\ KeysInOrder /\ AccountAtHand /\ Clean /\ Staged

IInv == TypeOK /\ Carried /\ Linked /\ LoadAwaited /\ (~stale => Aware)

-------------------------------------------------------------------------------
(* The two queues. *)

Messages == [job : Jobs, method : CallSteps, plain : Nat]
Answers == [type : {"result"}, job : Jobs, method : CallSteps, plain : Nat, ok : BOOLEAN]
Events == [type : {"ready"}, doc : Docs] \cup [type : {"crash"}] \cup Answers
Notices(q) == \E i \in 1..Len(q) : q[i].type \in {"ready", "crash"}

\* An event is an answer or a notice.
LEMMA EventTypes ==
  \A e \in Events : /\ e.type \in {"ready", "crash", "result"}
                    /\ e.type = "result" => e \in Answers
                    /\ e.type = "ready" => e.doc \in Docs
<1>1. \A e \in [type : {"ready"}, doc : Docs] : e.type = "ready" /\ e.doc \in Docs
  OBVIOUS
<1>2. \A e \in [type : {"crash"}] : e.type = "crash"
  OBVIOUS
<1>3. \A e \in Answers : e.type = "result"
  BY DEF Answers
<1>4. QED
  BY <1>1, <1>2, <1>3 DEF Events

\* What the type invariant says of the queues.
LEMMA QueueTypes ==
  ASSUME TypeOK
  PROVE  /\ toWeb \in Seq(Messages) /\ toHost \in Seq(Events)
         /\ NoticePosted <=> Notices(toHost)
<1>1. toWeb \in Seq(Messages) /\ toHost \in Seq(Events)
  BY DEF TypeOK, Messages, Events, Answers
<1>2. DOMAIN toHost = 1..Len(toHost)
  BY <1>1
<1>3. QED
  BY <1>1, <1>2 DEF NoticePosted, Notices

\* Appending to a queue.
LEMMA Appended ==
  ASSUME NEW S, NEW q \in Seq(S), NEW m \in S
  PROVE  /\ Append(q, m) \in Seq(S) /\ Len(Append(q, m)) = Len(q) + 1 /\ Len(q) \in Nat
         /\ \A i \in 1..Len(Append(q, m)) :
              \/ i \in 1..Len(q) /\ Append(q, m)[i] = q[i]
              \/ i = Len(q) + 1 /\ i \notin 1..Len(q) /\ Append(q, m)[i] = m
         /\ \A i \in 1..Len(q) : i \in 1..Len(Append(q, m)) /\ Append(q, m)[i] = q[i]
         /\ Len(q) + 1 \in 1..Len(Append(q, m)) /\ Append(q, m)[Len(q) + 1] = m
  OBVIOUS

\* Taking the oldest of a queue.
LEMMA Taken ==
  ASSUME NEW S, NEW q \in Seq(S), q # <<>>
  PROVE  /\ Tail(q) \in Seq(S) /\ Len(Tail(q)) = Len(q) - 1 /\ Len(q) \in Nat \ {0}
         /\ Head(q) = q[1] /\ Head(q) \in S /\ 1 \in 1..Len(q)
         /\ \A i \in 1..Len(Tail(q)) : i + 1 \in 1..Len(q) /\ Tail(q)[i] = q[i + 1]
         /\ \A i \in 1..Len(q) : i = 1 \/ (i - 1 \in 1..Len(Tail(q)) /\ Tail(q)[i - 1] = q[i])
<1>1. Len(q) \in Nat \ {0}
  OBVIOUS
<1>2. Head(q) = q[1] /\ Head(q) \in S /\ 1 \in 1..Len(q)
  BY <1>1
<1>3. Tail(q) \in Seq(S) /\ Len(Tail(q)) = Len(q) - 1
  OBVIOUS
<1>4. \A i \in 1..Len(Tail(q)) : i + 1 \in 1..Len(q) /\ Tail(q)[i] = q[i + 1]
  BY <1>1, <1>3
<1>5. \A i \in 1..Len(q) : i = 1 \/ i - 1 \in 1..Len(Tail(q))
  BY <1>1, <1>3
<1>6. \A i \in 1..Len(q) : i = 1 \/ (i - 1 \in 1..Len(Tail(q)) /\ Tail(q)[i - 1] = q[i])
  BY <1>1, <1>3, <1>4, <1>5
<1>7. QED
  BY <1>1, <1>2, <1>3, <1>4, <1>6

\* An answer is posted: what was the last notice is so still.
LEMMA AnswerAppended ==
  ASSUME NEW q \in Seq(Events), NEW e \in Answers
  PROVE  /\ Append(q, e) \in Seq(Events)
         /\ Notices(Append(q, e)) <=> Notices(q)
         /\ \A i \in 1..Len(Append(q, e)) :
              \/ i \in 1..Len(q) /\ Append(q, e)[i] = q[i] /\ (Last(Append(q, e), i) <=> Last(q, i))
              \/ Append(q, e)[i] = e
<1> DEFINE r == Append(q, e)
<1>1. e \in Events /\ e.type = "result"
  BY DEF Events, Answers
<1>2. /\ r \in Seq(Events)
      /\ \A i \in 1..Len(r) : \/ i \in 1..Len(q) /\ r[i] = q[i]
                              \/ i = Len(q) + 1 /\ i \notin 1..Len(q) /\ r[i] = e
      /\ \A i \in 1..Len(q) : i \in 1..Len(r) /\ r[i] = q[i]
  BY <1>1, Appended
<1> HIDE DEF r
<1>3. Notices(r) <=> Notices(q)
  BY <1>1, <1>2 DEF Notices
<1>4. \A i \in 1..Len(q) : Last(r, i) <=> Last(q, i)
  BY <1>1, <1>2 DEF Last
<1>5. QED
  BY <1>2, <1>3, <1>4 DEF r

\* A notice is posted: it is the last.
LEMMA NoticeAppended ==
  ASSUME NEW q \in Seq(Events), NEW e \in Events, e.type \in {"ready", "crash"}
  PROVE  /\ Append(q, e) \in Seq(Events)
         /\ Notices(Append(q, e))
         /\ \A i \in 1..Len(Append(q, e)) : Last(Append(q, e), i) => Append(q, e)[i] = e
<1> DEFINE r == Append(q, e)
<1>1. /\ r \in Seq(Events) /\ Len(q) \in Nat
      /\ \A i \in 1..Len(r) : \/ i \in 1..Len(q) /\ r[i] = q[i]
                              \/ i = Len(q) + 1 /\ i \notin 1..Len(q) /\ r[i] = e
      /\ Len(q) + 1 \in 1..Len(r) /\ r[Len(q) + 1] = e
  BY Appended
<1> HIDE DEF r
<1>2. Notices(r)
  BY <1>1 DEF Notices
<1>3. \A i \in 1..Len(q) : Len(q) + 1 > i
  BY <1>1
<1>4. \A i \in 1..Len(r) : Last(r, i) => r[i] = e
  BY <1>1, <1>3 DEF Last
<1>5. QED
  BY <1>1, <1>2, <1>4 DEF r

\* The oldest event is taken.
LEMMA EventTaken ==
  ASSUME NEW q \in Seq(Events), q # <<>>
  PROVE  /\ Tail(q) \in Seq(Events) /\ Head(q) \in Events /\ Head(q) = q[1] /\ 1 \in 1..Len(q)
         /\ \A i \in 1..Len(Tail(q)) :
              /\ i + 1 \in 1..Len(q) /\ Tail(q)[i] = q[i + 1]
              /\ Last(Tail(q), i) <=> Last(q, i + 1)
         /\ Notices(Tail(q)) => Notices(q)
         /\ Head(q).type = "result" /\ Notices(q) => Notices(Tail(q))
         /\ ~Notices(Tail(q)) => Last(q, 1)
<1> DEFINE t == Tail(q)
<1>1. /\ t \in Seq(Events) /\ Len(t) = Len(q) - 1 /\ Len(q) \in Nat
      /\ Head(q) = q[1] /\ Head(q) \in Events /\ 1 \in 1..Len(q)
      /\ \A i \in 1..Len(t) : i + 1 \in 1..Len(q) /\ t[i] = q[i + 1]
      /\ \A i \in 1..Len(q) : i = 1 \/ (i - 1 \in 1..Len(t) /\ t[i - 1] = q[i])
  BY Taken
<1> HIDE DEF t
<1>2. Notices(t) => Notices(q)
  BY <1>1 DEF Notices
<1>3. Head(q).type = "result" /\ Notices(q) => Notices(t)
  BY <1>1 DEF Notices
<1>4. \A i \in 1..Len(t) : t[i].type \in {"ready", "crash", "result"}
  BY <1>1, EventTypes
<1>5. ~Notices(t) => Last(q, 1)
  <2> SUFFICES ASSUME ~Notices(t), NEW k \in 1..Len(q), k > 1 PROVE q[k].type = "result"
    BY DEF Last
  <2>1. k - 1 \in 1..Len(t) /\ t[k - 1] = q[k]
    BY <1>1
  <2>2. QED
    BY <2>1, <1>4 DEF Notices
<1>6. ASSUME NEW i \in 1..Len(t) PROVE Last(t, i) <=> Last(q, i + 1)
  <2>1. ASSUME Last(t, i), NEW k \in 1..Len(q), k > i + 1 PROVE q[k].type = "result"
    <3>1. k - 1 \in 1..Len(t) /\ t[k - 1] = q[k] /\ k - 1 > i
      BY <1>1, <2>1
    <3>2. QED
      BY <2>1, <3>1 DEF Last
  <2>2. ASSUME Last(q, i + 1), NEW k \in 1..Len(t), k > i PROVE t[k].type = "result"
    <3>1. k + 1 \in 1..Len(q) /\ t[k] = q[k + 1] /\ k + 1 > i + 1
      BY <1>1, <2>2
    <3>2. QED
      BY <2>2, <3>1 DEF Last
  <2>3. QED
    BY <2>1, <2>2 DEF Last
<1>7. QED
  BY <1>1, <1>2, <1>3, <1>5, <1>6 DEF t

\* With no notice in the queue, every event is an answer.
LEMMA AllAnswers ==
  ASSUME NEW q \in Seq(Events), ~Notices(q), NEW i \in 1..Len(q)
  PROVE  q[i] \in Answers /\ q[i].type = "result" /\ Last(q, i)
<1>1. \A k \in 1..Len(q) : q[k] \in Events
  OBVIOUS
<1>2. \A k \in 1..Len(q) : q[k].type = "result"
  BY <1>1, EventTypes DEF Notices
<1>3. QED
  BY <1>1, <1>2, EventTypes DEF Last

-------------------------------------------------------------------------------
(* Type correctness. *)

AllSteps == CallSteps \cup {"none", "srs", "key", "unseal", "seal", "generate",
                            "write", "vault", "absent", "open", "save"}
JobRecords == [step : AllSteps, plain : Nat, under : Nat]
HandlerSteps == {"none", "opfs", "open", "create", "info", "account", "orphan"}
Handlers == [step : HandlerSteps, key : Nat]

JobsOK == job \in [Jobs -> JobRecords] /\ \A j \in Jobs : CarriedBy(j, job[j])
RequestsOK == toWeb \in Seq(Messages) /\ \A i \in 1..Len(toWeb) : Asked(toWeb[i])
ScreenOK ==
  /\ phase \in {"init", "webview", "boot", "ready", "onboarding", "fatal", "crashed"}
  /\ busy \in BOOLEAN /\ booted \in BOOLEAN /\ origin \in BOOLEAN /\ crashed \in BOOLEAN
  /\ memVault \in Accountable /\ shown \in Accountable
HandlersOK ==
  /\ handler \in [Jobs -> Handlers]
  /\ \A j \in Jobs : handler[j].step = "account" => handler[j].key \in Accounts
WebOK ==
  /\ page \in {"none", "loading", "live", "gone"} /\ doc \in 0..MaxLoads
  /\ page # "none" => doc \in Docs
  /\ session \in BOOLEAN /\ accounts \subseteq Accounts
  /\ handler \in [Jobs -> Handlers]
  /\ \A j \in Jobs : handler[j].step = "account" => handler[j].key \in Accounts
DiskOK ==
  /\ diskKey \in Blobs /\ diskVault \in Blobs /\ diskVault.plain \in Accountable
  /\ keystore \in Nat /\ store \in Nat
CountersOK == generated \in 0..MaxAccounts /\ kills \in 0..MaxKills

\* Type correctness in parts, as the steps touch them.
LEMMA Parts ==
  /\ TypeOK /\ Carried <=> /\ JobsOK /\ RequestsOK /\ toHost \in Seq(Events)
                           /\ ScreenOK /\ WebOK /\ DiskOK /\ CountersOK /\ stale \in BOOLEAN
  /\ (TypeOK /\ Carried)' <=> (/\ JobsOK /\ RequestsOK /\ toHost \in Seq(Events)
                               /\ ScreenOK /\ WebOK /\ DiskOK /\ CountersOK /\ stale \in BOOLEAN)'
  BY DEF TypeOK, Carried, JobsOK, RequestsOK, ScreenOK, WebOK, DiskOK, CountersOK, AllSteps,
         JobRecords, HandlersOK, HandlerSteps, Handlers, Messages, Events, Answers, Accountable

\* A record of a continuation replaced.
LEMMA JobSet ==
  ASSUME JobsOK, NEW j \in Jobs, NEW r \in JobRecords
  PROVE  /\ [job EXCEPT ![j] = r] \in [Jobs -> JobRecords]
         /\ [job EXCEPT ![j] = r][j] = r
         /\ \A k \in Jobs \ {j} : [job EXCEPT ![j] = r][k] = job[k]
         /\ CarriedBy(j, r) => \A k \in Jobs : CarriedBy(k, [job EXCEPT ![j] = r][k])
  BY DEF JobsOK

\* A continuation goes to another step.
LEMMA JobGoes ==
  ASSUME JobsOK, NEW j \in Jobs, NEW step \in AllSteps
  PROVE  LET r == [step |-> step, plain |-> job[j].plain, under |-> job[j].under]
         IN  /\ [job EXCEPT ![j].step = step] = [job EXCEPT ![j] = r]
             /\ r \in JobRecords
<1>1. job[j] \in JobRecords
  BY DEF JobsOK
<1>2. [job[j] EXCEPT !.step = step] = [step |-> step, plain |-> job[j].plain, under |-> job[j].under]
  BY <1>1 DEF JobRecords
<1>3. [step |-> step, plain |-> job[j].plain, under |-> job[j].under] \in JobRecords
  BY <1>1 DEF JobRecords
<1>4. [job EXCEPT ![j].step = step] = [job EXCEPT ![j] = [job[j] EXCEPT !.step = step]]
  OBVIOUS
<1>5. QED
  BY <1>2, <1>3, <1>4

\* An idle continuation.
LEMMA IdleOK == Idle \in JobRecords /\ \A j : CarriedBy(j, Idle)
  BY DEF Idle, JobRecords, AllSteps, CarriedBy, None

\* An onboarding is no boot.
LEMMA JobSorts == /\ Onboardings \subseteq Jobs /\ Docs \subseteq Jobs
                  /\ \A j \in Jobs : j \in Onboardings <=> j \notin Docs
                  /\ \A a \in Accounts : Flow(a) \in Onboardings
                  /\ Docs # {}
                  /\ Docs \subseteq Nat /\ Jobs \subseteq Nat /\ Accounts \subseteq Nat
                  /\ None \in Nat /\ None \notin Accounts /\ None \notin Docs
<1>1. MaxLoads \in Nat /\ MaxAccounts \in Nat
  BY BoundsAssumption
<1>2. \A a \in Accounts : Flow(a) \in Nat /\ Flow(a) \notin Docs
  BY <1>1 DEF Accounts, Flow, Docs
<1>3. 1 \in Docs
  BY BoundsAssumption DEF Docs
<1>4. QED
  BY <1>1, <1>2, <1>3 DEF Jobs, Docs, Onboardings, Accounts, None

\* What a throw leaves.
LEMMA ThrowTypes ==
  ASSUME JobsOK, ScreenOK, NEW j \in Jobs, Throw(j)
  PROVE  JobsOK' /\ phase' \in {phase, "fatal"} /\ busy' \in BOOLEAN
<1>1. job' = [job EXCEPT ![j] = Idle] /\ phase' \in {phase, "fatal"} /\ busy' \in BOOLEAN
  BY DEF Throw
<1>2. QED
  BY <1>1, JobSet, IdleOK DEF JobsOK

\* What a session call leaves.
LEMMA CallTypes ==
  ASSUME JobsOK, RequestsOK, ScreenOK, NEW j \in Jobs, NEW method \in CallSteps, NEW plain \in Nat,
         CarriedBy(j, [step |-> method, plain |-> plain, under |-> None]),
         Asked([job |-> j, method |-> method, plain |-> plain]),
         Call(j, method, plain), stale \in BOOLEAN
  PROVE  JobsOK' /\ RequestsOK' /\ phase' \in {phase, "fatal"} /\ busy' \in BOOLEAN /\ stale' \in BOOLEAN
<1> DEFINE r == [step |-> method, plain |-> plain, under |-> None]
           m == [job |-> j, method |-> method, plain |-> plain]
<1>1. r \in JobRecords /\ m \in Messages
  BY DEF JobRecords, AllSteps, Messages, None
<1>2. stale' \in BOOLEAN
  BY DEF Call
<1>3. CASE crashed
  BY <1>2, <1>3, ThrowTypes DEF Call, RequestsOK
<1>4. CASE ~crashed
  <2>1. job' = [job EXCEPT ![j] = r] /\ phase' = phase /\ busy' \in BOOLEAN
    BY <1>4 DEF Call, ScreenOK
  <2>2. toWeb' = toWeb \/ toWeb' = Append(toWeb, m)
    BY <1>4 DEF Call, Post
  <2> HIDE DEF m, r
  <2>3. JobsOK'
    BY <1>1, <2>1, JobSet DEF JobsOK, r
  <2>4. RequestsOK'
    <3>1. CASE toWeb' = Append(toWeb, m)
      BY <1>1, <3>1, Appended DEF RequestsOK, m
    <3>2. QED
      BY <2>2, <3>1 DEF RequestsOK
  <2>5. QED
    BY <1>2, <2>1, <2>3, <2>4
<1>5. QED
  BY <1>3, <1>4

\* What a load leaves.
LEMMA LoadTypes ==
  ASSUME WebOK, stale \in BOOLEAN, BeginLoad
  PROVE  RequestsOK' /\ WebOK'
<1>1. MaxLateLoads \in 0..MaxLoads /\ MaxLoads \in Nat
  BY BoundsAssumption
<1>2. doc' \in 0..MaxLoads /\ doc' \in Docs
  BY <1>1 DEF WebOK, BeginLoad, Docs
<1>3. handler' = NoHandlers /\ HandlersOK'
  BY DEF BeginLoad, NoHandlers, NoHandler, HandlersOK, HandlerSteps, Handlers, None
<1>4. RequestsOK'
  BY DEF BeginLoad, RequestsOK
<1>5. QED
  BY <1>2, <1>3, <1>4 DEF WebOK, HandlersOK, BeginLoad

\* What rejecting everything pending, and a boot in its place, leave.
LEMMA RejectTypes ==
  ASSUME JobsOK
  PROVE  /\ RejectPending(job) \in [Jobs -> JobRecords]
         /\ \A j \in Jobs : RejectPending(job)[j] \in {Idle, job[j]}
         /\ \A j \in Jobs : CarriedBy(j, RejectPending(job)[j])
         /\ \A j \in Jobs : RejectPending(job)[j] = IF Waiting(j) THEN Idle ELSE job[j]
<1>1. \A j \in Jobs : RejectPending(job)[j] = IF Waiting(j) THEN Idle ELSE job[j]
  BY DEF RejectPending
<1>2. RejectPending(job) = [j \in Jobs |-> IF Waiting(j) THEN Idle ELSE job[j]]
  BY DEF RejectPending
<1>3. \A j \in Jobs : (IF Waiting(j) THEN Idle ELSE job[j]) \in JobRecords
  BY IdleOK DEF JobsOK
<1>4. RejectPending(job) \in [Jobs -> JobRecords]
  BY <1>2, <1>3
<1>5. \A j \in Jobs : CarriedBy(j, RejectPending(job)[j])
  BY <1>1, IdleOK DEF JobsOK
<1>6. QED
  BY <1>1, <1>4, <1>5

\* A boot that begins.
LEMMA BootBegins ==
  /\ Booting \in JobRecords /\ Booting.step = "probe"
  /\ \A d \in Docs : CarriedBy(d, Booting) /\ Asked(ProbeOf(d)) /\ ProbeOf(d) \in Messages
<1>1. Booting = [step |-> "probe", plain |-> None, under |-> None]
  BY DEF Booting, Idle
<1>2. \A d \in Docs : ProbeOf(d) \in Messages /\ Asked(ProbeOf(d))
  BY JobSorts DEF ProbeOf, Messages, CallSteps, Asked
<1>3. QED
  BY <1>1, <1>2, JobSorts DEF JobRecords, AllSteps, CallSteps, CarriedBy, BootSteps, PreSteps

\* A request is posted.
LEMMA PostTypes ==
  ASSUME RequestsOK, NEW m \in Messages, Asked(m), Post(m)
  PROVE  /\ RequestsOK'
         /\ \A i \in 1..Len(toWeb') : \/ i \in 1..Len(toWeb) /\ toWeb'[i] = toWeb[i]
                                      \/ i = Len(toWeb) + 1 /\ i \notin 1..Len(toWeb) /\ toWeb'[i] = m
         /\ page # "live" => toWeb' = toWeb
<1>1. toWeb' = toWeb \/ (page = "live" /\ toWeb' = Append(toWeb, m))
  BY DEF Post
<1>2. page # "live" => toWeb' = toWeb
  BY DEF Post
<1>3. CASE toWeb' = Append(toWeb, m)
  BY <1>2, <1>3, Appended DEF RequestsOK
<1>4. QED
  BY <1>1, <1>2, <1>3 DEF RequestsOK

\* A request is taken.
LEMMA TakeTypes ==
  ASSUME RequestsOK, toWeb # <<>>, toWeb' = Tail(toWeb)
  PROVE  RequestsOK' /\ Head(toWeb) \in Messages /\ Asked(Head(toWeb))
  BY Taken DEF RequestsOK

\* An answer is given.
LEMMA ReplyTypes ==
  ASSUME toHost \in Seq(Events), NEW j \in Jobs, NEW method \in CallSteps, NEW plain \in Nat, NEW ok \in BOOLEAN,
         Reply(j, method, plain, ok)
  PROVE  toHost' \in Seq(Events)
<1>1. [type |-> "result", job |-> j, method |-> method, plain |-> plain, ok |-> ok] \in Answers
  BY DEF Answers
<1>2. QED
  BY <1>1, AnswerAppended DEF Reply

\* A step of a continuation that stays within React Native.
LEMMA JobSetOK ==
  ASSUME JobsOK, NEW j \in Jobs, NEW r \in JobRecords, CarriedBy(j, r), job' = [job EXCEPT ![j] = r]
  PROVE  JobsOK'
  BY JobSet DEF JobsOK

LEMMA JobGoesOK ==
  ASSUME JobsOK, NEW j \in Jobs, NEW step \in AllSteps,
         CarriedBy(j, [step |-> step, plain |-> job[j].plain, under |-> job[j].under]),
         job' = [job EXCEPT ![j].step = step]
  PROVE  JobsOK'
  BY JobGoes, JobSetOK

\* Each step of the boot keeps the types.
LEMMA BootTypes ==
  ASSUME JobsOK, RequestsOK, ScreenOK, DiskOK, stale \in BOOLEAN, NEW d \in Docs, BootStep(d)
  PROVE  JobsOK' /\ RequestsOK' /\ ScreenOK' /\ DiskOK' /\ stale' \in BOOLEAN
         /\ UNCHANGED <<toHost, web, counters>>
<1>d. d \in Jobs /\ d \in Nat /\ d \notin Onboardings
  BY JobSorts
<1>j. job[d] \in JobRecords /\ job[d].plain \in Nat /\ job[d].under \in Nat /\ CarriedBy(d, job[d])
  BY <1>d DEF JobsOK, JobRecords
<1>t. Throw(d) => JobsOK' /\ phase' \in {phase, "fatal"} /\ busy' \in BOOLEAN
  BY <1>d, ThrowTypes
<1>c. ASSUME NEW step \in AllSteps, step \in BootSteps \ {"open", "restore"}, NEW plain \in Nat, NEW under \in Nat
      PROVE  CarriedBy(d, [step |-> step, plain |-> plain, under |-> under])
             /\ [step |-> step, plain |-> plain, under |-> under] \in JobRecords
  BY <1>c, <1>d DEF CarriedBy, JobRecords
<1>b. ASSUME NEW plain \in Nat, Call(d, "boot", plain)
      PROVE  JobsOK' /\ RequestsOK' /\ phase' \in {phase, "fatal"} /\ busy' \in BOOLEAN /\ stale' \in BOOLEAN
  <2>1. CarriedBy(d, [step |-> "boot", plain |-> plain, under |-> None])
    BY <1>d DEF CarriedBy, BootSteps
  <2>2. Asked([job |-> d, method |-> "boot", plain |-> plain])
    BY DEF Asked
  <2>3. QED
    BY <1>b, <1>d, <2>1, <2>2, CallTypes DEF CallSteps
<1>1. CASE SrsReturns(d)
  <2>1. CASE Goto(d, "key") /\ UNCHANGED <<phase, busy>>
    <3>1. CarriedBy(d, [step |-> "key", plain |-> job[d].plain, under |-> job[d].under]) /\ "key" \in AllSteps
      BY <1>c, <1>j DEF BootSteps, PreSteps, AllSteps
    <3>2. JobsOK'
      BY <1>d, <2>1, <3>1, JobGoesOK DEF Goto
    <3>3. QED
      BY <1>1, <2>1, <3>2 DEF SrsReturns, RequestsOK, ScreenOK, DiskOK, channels, disk, counters
  <2>2. CASE Throw(d)
    BY <1>1, <1>t, <2>2 DEF SrsReturns, RequestsOK, ScreenOK, DiskOK, channels, disk, counters
  <2>3. QED
    BY <1>1, <2>1, <2>2 DEF SrsReturns
<1>2. CASE KeyRead(d)
  <2> DEFINE r == IF diskKey = NoBlob THEN [step |-> "seal", plain |-> d, under |-> None]
                  ELSE [step |-> "unseal", plain |-> diskKey.plain, under |-> diskKey.under]
  <2>1. r \in JobRecords /\ CarriedBy(d, r)
    BY <1>c, <1>d DEF BootSteps, PreSteps, AllSteps, None, DiskOK, Blobs
  <2>2. job' = [job EXCEPT ![d] = r]
    BY <1>2 DEF KeyRead
  <2> HIDE DEF r
  <2>3. JobsOK'
    BY <1>d, <2>1, <2>2, JobSetOK
  <2>4. QED
    BY <1>2, <2>3 DEF KeyRead, RequestsOK, ScreenOK, DiskOK, channels, disk, counters
<1>3. CASE KeyUnsealed(d) \/ KeyUnavailable(d)
  <2>1. \E plain \in Nat : Call(d, "boot", plain)
    BY <1>3, <1>j, JobSorts DEF KeyUnsealed, KeyUnavailable
  <2>2. QED
    BY <1>3, <1>b, <2>1 DEF KeyUnsealed, KeyUnavailable, ScreenOK, DiskOK, disk, counters
<1>4. CASE KeySaved(d)
  <2>1. Blob(d) \in Blobs
    BY <1>j DEF Blob, Blobs
  <2>2. JobsOK' /\ RequestsOK' /\ phase' \in {phase, "fatal"} /\ busy' \in BOOLEAN /\ stale' \in BOOLEAN
    BY <1>4, <1>b, <1>j DEF KeySaved
  <2>3. QED
    BY <1>4, <2>1, <2>2 DEF KeySaved, ScreenOK, DiskOK, counters
<1>5. CASE VaultRead(d)
  <2> DEFINE r == IF diskVault = NoBlob THEN [Idle EXCEPT !.step = "absent"]
                  ELSE [step |-> "open", plain |-> diskVault.plain, under |-> diskVault.under]
  <2>1. [Idle EXCEPT !.step = "absent"] = [step |-> "absent", plain |-> None, under |-> None]
    BY DEF Idle
  <2>2. r \in JobRecords /\ CarriedBy(d, r)
    BY <1>d, <2>1, JobSorts DEF CarriedBy, BootSteps, PostSteps, AllSteps, JobRecords, DiskOK, Blobs
  <2>3. job' = [job EXCEPT ![d] = r]
    BY <1>5 DEF VaultRead
  <2> HIDE DEF r
  <2>4. JobsOK'
    BY <1>d, <2>2, <2>3, JobSetOK
  <2>5. QED
    BY <1>5, <2>4 DEF VaultRead, RequestsOK, ScreenOK, DiskOK, channels, disk, counters
<1>9. CASE VaultMissing(d)
  <2>1. JobsOK'
    BY <1>9, <1>d, IdleOK, JobSetOK DEF VaultMissing
  <2>2. QED
    BY <1>9, <2>1 DEF VaultMissing, RequestsOK, ScreenOK, DiskOK, channels, disk, counters, Accountable
<1>6. CASE VaultUnsealed(d)
  <2>1. job[d].plain \in Accounts
    BY <1>6, <1>j, <1>d DEF VaultUnsealed, At, CarriedBy, Accountable
  <2>2. CarriedBy(d, [step |-> "restore", plain |-> job[d].plain, under |-> None])
    BY <1>d, <2>1 DEF CarriedBy, BootSteps, PostSteps
  <2>3. Asked([job |-> d, method |-> "restore", plain |-> job[d].plain])
    BY <2>1 DEF Asked
  <2>4. JobsOK' /\ RequestsOK' /\ phase' \in {phase, "fatal"} /\ busy' \in BOOLEAN /\ stale' \in BOOLEAN
    BY <1>6, <1>d, <1>j, <2>2, <2>3, CallTypes DEF VaultUnsealed, CallSteps
  <2>5. QED
    BY <1>6, <2>1, <2>4 DEF VaultUnsealed, ScreenOK, DiskOK, disk, counters, Accountable
<1>7. CASE VaultUnreadable(d)
  BY <1>7, <1>t DEF VaultUnreadable, RequestsOK, ScreenOK, DiskOK, channels, disk, counters
<1>8. QED
  BY <1>1, <1>2, <1>3, <1>4, <1>5, <1>6, <1>7, <1>9
     DEF BootStep, SrsReturns, KeyRead, KeyUnsealed, KeyUnavailable, KeySaved, VaultRead, VaultMissing, VaultUnsealed,
         VaultUnreadable, channels

\* A sealed blob is about to be written.
LEMMA WriteSet ==
  ASSUME JobsOK, NEW j \in Jobs, NEW x \in Nat
  PROVE  [job EXCEPT ![j].step = "write", ![j].under = x]
           = [job EXCEPT ![j] = [step |-> "write", plain |-> job[j].plain, under |-> x]]
<1>j. job[j] \in JobRecords
  BY DEF JobsOK
<1>1. [job[j] EXCEPT !.step = "write", !.under = x] = [step |-> "write", plain |-> job[j].plain, under |-> x]
  <2> DEFINE q == [job[j] EXCEPT !.step = "write"]
  <2>1. [job[j] EXCEPT !.step = "write", !.under = x] = [q EXCEPT !.under = x]
    BY <1>j DEF JobRecords
  <2>2. q \in JobRecords /\ q.step = "write" /\ q.plain = job[j].plain
    BY <1>j DEF JobRecords, AllSteps
  <2> HIDE DEF q
  <2>3. [q EXCEPT !.under = x] = [step |-> q.step, plain |-> q.plain, under |-> x]
    BY <2>2 DEF JobRecords
  <2>4. QED
    BY <2>1, <2>2, <2>3
<1>2. QED
  BY <1>1 DEF JobsOK

\* So does sealing.
LEMMA SealTypes ==
  ASSUME JobsOK, RequestsOK, ScreenOK, DiskOK, stale \in BOOLEAN, NEW j \in Jobs,
         SealLooks(j) \/ SealGenerates(j)
  PROVE  JobsOK' /\ DiskOK'
<1>j. job[j] \in JobRecords /\ CarriedBy(j, job[j])
  BY DEF JobsOK
<1>1. PICK step \in {"generate", "write"}, under \in Nat :
        /\ job' = [job EXCEPT ![j] = [step |-> step, plain |-> job[j].plain, under |-> under]]
        /\ keystore' \in Nat /\ UNCHANGED <<diskKey, diskVault, store>>
  <2>1. \A x \in Nat : [job EXCEPT ![j].step = "write", ![j].under = x]
                          = [job EXCEPT ![j] = [step |-> "write", plain |-> job[j].plain, under |-> x]]
    BY WriteSet
  <2>2. [job EXCEPT ![j].step = "generate"]
          = [job EXCEPT ![j] = [step |-> "generate", plain |-> job[j].plain, under |-> job[j].under]]
    BY JobGoes DEF AllSteps
  <2>3. CASE SealLooks(j)
    BY <1>j, <2>1, <2>2, <2>3 DEF SealLooks, DiskOK, disk, JobRecords
  <2>4. CASE SealGenerates(j)
    <3>1. keystore' \in Nat /\ UNCHANGED <<diskKey, diskVault, store>>
      BY <2>4 DEF SealGenerates, DiskOK
    <3>2. job' = [job EXCEPT ![j] = [step |-> "write", plain |-> job[j].plain, under |-> keystore']]
      BY <2>1, <2>4, <3>1 DEF SealGenerates
    <3>3. QED
      BY <3>1, <3>2
  <2>5. QED
    BY <2>3, <2>4
<1>2. job[j].step \in {"seal", "generate"} /\ job[j].plain \in Nat
  BY <1>j DEF SealLooks, SealGenerates, At, JobRecords
<1> DEFINE r == [step |-> step, plain |-> job[j].plain, under |-> under]
<1>3. r \in JobRecords /\ CarriedBy(j, r)
  BY <1>2, <1>j DEF CarriedBy, BootSteps, PreSteps, FlowSteps, AllSteps, JobRecords
<1> HIDE DEF r
<1>4. JobsOK'
  BY <1>1, <1>3, JobSetOK DEF r
<1>5. QED
  BY <1>1, <1>4 DEF DiskOK

\* And the flow.
LEMMA FlowTypes ==
  ASSUME JobsOK, RequestsOK, ScreenOK, DiskOK, stale \in BOOLEAN, NEW f \in Onboardings, FlowStep(f)
  PROVE  JobsOK' /\ RequestsOK' /\ ScreenOK' /\ DiskOK' /\ stale' \in BOOLEAN
         /\ UNCHANGED <<toHost, web, generated, kills>>
<1>d. f \in Jobs /\ f \notin Docs
  BY JobSorts
<1>j. job[f] \in JobRecords /\ CarriedBy(f, job[f])
  BY <1>d DEF JobsOK
<1>1. CASE VaultSaved(f)
  <2>1. job[f].plain \in Accounts /\ Blob(f) \in Blobs /\ job[f].plain \in Nat
        /\ Blob(f).plain = job[f].plain
    BY <1>1, <1>j DEF VaultSaved, At, CarriedBy, Blob, Blobs, JobRecords
  <2>2. CarriedBy(f, [step |-> "register", plain |-> job[f].plain, under |-> None])
    BY <1>d, <2>1 DEF CarriedBy, FlowSteps
  <2>3. Asked([job |-> f, method |-> "register", plain |-> job[f].plain])
    BY <2>1 DEF Asked
  <2>4. JobsOK' /\ RequestsOK' /\ phase' \in {phase, "fatal"} /\ busy' \in BOOLEAN /\ stale' \in BOOLEAN
    BY <1>1, <1>d, <2>1, <2>2, <2>3, CallTypes DEF VaultSaved, CallSteps
  <2>5. QED
    BY <1>1, <2>1, <2>4 DEF VaultSaved, ScreenOK, DiskOK, counters, Accountable
<1>2. CASE OnboardingEnds(f)
  <2>1. JobsOK'
    BY <1>2, <1>d, IdleOK, JobSetOK DEF OnboardingEnds
  <2>2. diskVault' \in Blobs /\ diskVault'.plain \in Accountable
    BY <1>2, JobSorts DEF OnboardingEnds, Blobs, ScreenOK, DiskOK, Accountable
  <2>3. QED
    BY <1>2, <2>1, <2>2 DEF OnboardingEnds, ShowWallet, RequestsOK, ScreenOK, DiskOK, channels
<1>3. CASE OnboardingFails(f)
  BY <1>3, <1>d, ThrowTypes DEF OnboardingFails, RequestsOK, ScreenOK, DiskOK, channels, disk, counters
<1>4. QED
  BY <1>1, <1>2, <1>3 DEF FlowStep, VaultSaved, OnboardingEnds, OnboardingFails, channels, counters

\* A handler replaced.
LEMMA HandlerSet ==
  ASSUME handler \in [Jobs -> Handlers], NEW j, NEW h \in Handlers
  PROVE  /\ [handler EXCEPT ![j] = h] \in [Jobs -> Handlers]
         /\ j \in Jobs => [handler EXCEPT ![j] = h][j] = h
         /\ \A k \in Jobs \ {j} : [handler EXCEPT ![j] = h][k] = handler[k]
  OBVIOUS

\* A handler goes to another step.
LEMMA HandlerGoes ==
  ASSUME handler \in [Jobs -> Handlers], NEW j \in Jobs, NEW step \in HandlerSteps
  PROVE  LET f == [handler EXCEPT ![j].step = step]
             h == [step |-> step, key |-> handler[j].key]
         IN  /\ f \in [Jobs -> Handlers] /\ f = [handler EXCEPT ![j] = h] /\ h \in Handlers
             /\ f[j] = h /\ f[j].step = step /\ f[j].key = handler[j].key
             /\ \A k \in Jobs \ {j} : f[k] = handler[k]
<1> DEFINE h == [step |-> step, key |-> handler[j].key]
<1>1. [handler[j] EXCEPT !.step = step] = h
  BY DEF Handlers
<1>2. h \in Handlers /\ h.step = step /\ h.key = handler[j].key
  BY DEF Handlers
<1>3. [handler EXCEPT ![j].step = step] = [handler EXCEPT ![j] = h]
  BY <1>1
<1> HIDE DEF h
<1>4. QED
  BY <1>2, <1>3, HandlerSet DEF h

LEMMA HandlerNone == NoHandler \in Handlers /\ NoHandlers \in [Jobs -> Handlers]
                     /\ \A j \in Jobs : NoHandlers[j] = NoHandler /\ NoHandlers[j].step = "none"
  BY DEF NoHandlers, NoHandler, HandlerSteps, Handlers, None

\* A handler of an account has an account.
LEMMA HandlerSetOK ==
  ASSUME HandlersOK, NEW j \in Jobs, NEW h \in Handlers, h.step = "account" => h.key \in Accounts,
         handler' = [handler EXCEPT ![j] = h]
  PROVE  HandlersOK'
  BY HandlerSet DEF HandlersOK

LEMMA HandlerGoesOK ==
  ASSUME HandlersOK, NEW j \in Jobs, NEW step \in HandlerSteps \ {"account"},
         handler' = [handler EXCEPT ![j].step = step]
  PROVE  HandlersOK'
<1>1. handler \in [Jobs -> Handlers]
  BY DEF HandlersOK
<1> DEFINE h == [step |-> step, key |-> handler[j].key]
<1>2. handler' = [handler EXCEPT ![j] = h] /\ h \in Handlers
  BY <1>1, HandlerGoes
<1>3. h.step # "account"
  OBVIOUS
<1> HIDE DEF h
<1>4. QED
  BY <1>2, <1>3, HandlerSetOK

\* The session that a boot has set takes the handlers of accounts with it.
LEMMA WalletHandlers ==
  ASSUME HandlersOK, NEW d \in Docs, WalletCreated(d)
  PROVE  /\ HandlersOK' /\ HandlerAt(d, "info")' /\ handler'[d].key = handler[d].key
         /\ \A k \in Jobs \ {d} : \/ handler'[k] = handler[k] /\ handler[k].step # "account"
                                  \/ handler'[k].step = "orphan" /\ handler[k].step = "account"
<1>1. \A j \in Jobs : handler[j] \in Handlers
  BY DEF HandlersOK
<1>2. \A h \in Handlers : /\ [h EXCEPT !.step = "info"] = [step |-> "info", key |-> h.key]
                           /\ [h EXCEPT !.step = "orphan"] = [step |-> "orphan", key |-> h.key]
  BY DEF Handlers
<1>3. \A h \in Handlers : Orphaned(h) = IF h.step = "account" THEN [step |-> "orphan", key |-> h.key] ELSE h
  BY <1>2 DEF Orphaned
<1>4. handler' = [j \in Jobs |-> IF j = d THEN [step |-> "info", key |-> handler[j].key]
                                ELSE IF handler[j].step = "account"
                                THEN [step |-> "orphan", key |-> handler[j].key] ELSE handler[j]]
  BY <1>1, <1>2, <1>3 DEF WalletCreated
<1>5. \A j \in Jobs : handler'[j] = IF j = d THEN [step |-> "info", key |-> handler[j].key]
                                    ELSE IF handler[j].step = "account"
                                    THEN [step |-> "orphan", key |-> handler[j].key] ELSE handler[j]
  BY <1>4
<1>6. \A j \in Jobs : handler'[j] \in Handlers /\ handler'[j].step # "account"
  <2>1. \A h \in Handlers, step \in {"info", "orphan"} : [step |-> step, key |-> h.key] \in Handlers
    BY DEF Handlers, HandlerSteps
  <2>2. ASSUME NEW j \in Jobs PROVE handler'[j] \in Handlers /\ handler'[j].step # "account"
    <3> DEFINE made(step) == [step |-> step, key |-> handler[j].key]
    <3>1. handler[j] \in Handlers /\ \A step \in {"info", "orphan"} : made(step) \in Handlers /\ made(step).step = step
      BY <1>1, <2>1
    <3>2. CASE j = d
      <4>1. handler'[j] = made("info")
        BY <1>5, <3>2
      <4> HIDE DEF made
      <4>2. QED
        BY <3>1, <4>1
    <3>3. CASE j # d /\ handler[j].step = "account"
      <4>1. handler'[j] = made("orphan")
        BY <1>5, <3>3
      <4> HIDE DEF made
      <4>2. QED
        BY <3>1, <4>1
    <3>4. CASE j # d /\ handler[j].step # "account"
      BY <1>5, <3>1, <3>4
    <3>5. QED
      BY <3>2, <3>3, <3>4
  <2>3. QED
    BY <2>2
<1>7. handler' \in [Jobs -> Handlers]
  BY <1>4, <1>5, <1>6
<1>8. d \in Jobs
  BY JobSorts
<1>9. QED
  BY <1>5, <1>6, <1>7, <1>8 DEF HandlersOK, HandlerAt

\* What the page does leaves React Native's side alone, and keeps the types.
LEMMA PageTypes ==
  ASSUME RequestsOK, toHost \in Seq(Events), WebOK, DiskOK, PageStep
  PROVE  RequestsOK' /\ toHost' \in Seq(Events) /\ WebOK' /\ DiskOK'
         /\ UNCHANGED <<host, page, doc, counters, stale>>
<1>w. HandlersOK /\ handler \in [Jobs -> Handlers]
  BY DEF WebOK, HandlersOK
<1>t. ASSUME toWeb # <<>>, toWeb' = Tail(toWeb)
      PROVE  RequestsOK' /\ Head(toWeb) \in Messages /\ Asked(Head(toWeb))
  BY <1>t, TakeTypes
<1>r. ASSUME NEW j \in Jobs, NEW method \in CallSteps, NEW plain \in Nat, NEW ok \in BOOLEAN,
             Reply(j, method, plain, ok)
      PROVE  toHost' \in Seq(Events)
  BY <1>r, ReplyTypes
<1>m. \A m \in Messages : m.job \in Jobs /\ m.plain \in Nat /\ m.method \in CallSteps
  BY DEF Messages
<1>h. /\ \A j \in Jobs : handler[j] \in Handlers /\ handler[j].key \in Nat
      /\ Docs \subseteq Jobs
  BY <1>w, JobSorts DEF Handlers
<1>s. {"probe", "boot", "restore", "register"} \subseteq CallSteps
  BY DEF CallSteps
<1>1. CASE StorageProbe
  <2>1. toWeb # <<>> /\ toWeb' = Tail(toWeb) /\ Reply(Head(toWeb).job, "probe", None, TRUE)
    BY <1>1 DEF StorageProbe, Incoming
  <2>2. RequestsOK' /\ toHost' \in Seq(Events)
    BY <1>t, <1>r, <1>m, <1>s, <2>1, JobSorts
  <2>3. QED
    BY <1>1, <2>2 DEF StorageProbe, WebOK, HandlersOK, DiskOK, web, disk
<1>2. CASE BootCalled
  <2> DEFINE m == Head(toWeb)
             h == [step |-> IF m.plain = None THEN "create" ELSE "opfs", key |-> m.plain]
  <2>1. toWeb # <<>> /\ toWeb' = Tail(toWeb)
    BY <1>2 DEF BootCalled, Incoming
  <2>2. RequestsOK' /\ m \in Messages /\ m.job \in Jobs /\ m.plain \in Nat
    BY <1>t, <1>m, <2>1
  <2>3. \/ Reply(m.job, "boot", m.plain, FALSE) /\ UNCHANGED handler
        \/ handler' = [handler EXCEPT ![m.job] = h] /\ UNCHANGED toHost
    BY <1>2 DEF BootCalled
  <2>4. h \in Handlers /\ h.step # "account"
    BY <2>2 DEF Handlers, HandlerSteps
  <2> HIDE DEF m, h
  <2>5. HandlersOK' /\ toHost' \in Seq(Events)
    <3>1. handler' = handler => HandlersOK'
      BY <1>w DEF HandlersOK
    <3>2. QED
      BY <1>r, <1>s, <1>w, <2>2, <2>3, <2>4, <3>1, HandlerSetOK
  <2>6. QED
    BY <1>2, <2>2, <2>5 DEF BootCalled, WebOK, HandlersOK, DiskOK, disk
<1>3. ASSUME NEW d \in Docs, OpfsProbed(d) \/ StoreOpens(d) \/ StoreFallsBack(d)
      PROVE  RequestsOK' /\ toHost' \in Seq(Events) /\ WebOK' /\ DiskOK'
             /\ UNCHANGED <<host, page, doc, counters, stale>>
  <2>1. handler' = [handler EXCEPT ![d].step = "open"] \/ handler' = [handler EXCEPT ![d].step = "create"]
    BY <1>3 DEF OpfsProbed, StoreOpens, StoreFallsBack
  <2>2. HandlersOK'
    BY <1>h, <1>w, <2>1, HandlerGoesOK DEF HandlerSteps
  <2>3. store' \in Nat /\ UNCHANGED <<keystore, diskKey, diskVault>>
    BY <1>3, <1>h DEF OpfsProbed, StoreOpens, StoreFallsBack, DiskOK, disk
  <2>4. QED
    BY <1>3, <2>2, <2>3 DEF OpfsProbed, StoreOpens, StoreFallsBack, channels, RequestsOK, WebOK, HandlersOK, DiskOK
<1>4. ASSUME NEW d \in Docs, WalletCreated(d)
      PROVE  RequestsOK' /\ toHost' \in Seq(Events) /\ WebOK' /\ DiskOK'
             /\ UNCHANGED <<host, page, doc, counters, stale>>
  <2>1. HandlersOK'
    BY <1>4, <1>w, WalletHandlers
  <2>2. QED
    BY <1>4, <2>1 DEF WalletCreated, channels, disk, RequestsOK, WebOK, HandlersOK, DiskOK
<1>5. ASSUME NEW d \in Docs, BootReturns(d) \/ BootThrows(d)
      PROVE  RequestsOK' /\ toHost' \in Seq(Events) /\ WebOK' /\ DiskOK'
             /\ UNCHANGED <<host, page, doc, counters, stale>>
  <2>1. HandlersOK'
    BY <1>5, <1>h, <1>w, HandlerSetOK, HandlerNone DEF BootReturns, BootThrows, NoHandler
  <2>2. toHost' \in Seq(Events)
    BY <1>5, <1>r, <1>h, <1>s DEF BootReturns, BootThrows
  <2>3. QED
    BY <1>5, <2>1, <2>2 DEF BootReturns, BootThrows, disk, RequestsOK, WebOK, HandlersOK, DiskOK
<1>6. ASSUME NEW method \in {"restore", "register"}, AccountCalled(method)
      PROVE  RequestsOK' /\ toHost' \in Seq(Events) /\ WebOK' /\ DiskOK'
             /\ UNCHANGED <<host, page, doc, counters, stale>>
  <2> DEFINE m == Head(toWeb)
  <2>1. toWeb # <<>> /\ toWeb' = Tail(toWeb) /\ m.method = method
    BY <1>6 DEF AccountCalled, Incoming
  <2>2. RequestsOK' /\ m \in Messages /\ m.job \in Jobs /\ m.plain \in Nat /\ m.plain \in Accounts
    BY <1>t, <1>m, <2>1 DEF Asked
  <2> DEFINE h == [step |-> "account", key |-> m.plain]
  <2>3. \/ Reply(m.job, method, m.plain, FALSE) /\ UNCHANGED handler
        \/ handler' = [handler EXCEPT ![m.job] = h] /\ UNCHANGED toHost
    BY <1>6 DEF AccountCalled
  <2>4. h \in Handlers /\ h.key \in Accounts
    BY <2>2 DEF Handlers, HandlerSteps
  <2> HIDE DEF m, h
  <2>5. HandlersOK' /\ toHost' \in Seq(Events)
    <3>1. handler' = handler => HandlersOK'
      BY <1>w DEF HandlersOK
    <3>2. QED
      BY <1>r, <1>s, <1>w, <2>2, <2>3, <2>4, <3>1, HandlerSetOK
  <2>6. QED
    BY <1>6, <2>2, <2>5 DEF AccountCalled, WebOK, HandlersOK, DiskOK, disk
<1>7. ASSUME NEW j \in Jobs, AccountCreated(j) \/ AccountFails(j)
      PROVE  RequestsOK' /\ toHost' \in Seq(Events) /\ WebOK' /\ DiskOK'
             /\ UNCHANGED <<host, page, doc, counters, stale>>
  <2>1. HandlersOK'
    BY <1>7, <1>w, HandlerSetOK, HandlerNone DEF AccountCreated, AccountFails, NoHandler
  <2>2. toHost' \in Seq(Events)
    BY <1>7, <1>r, <1>h, <1>s DEF AccountCreated, AccountFails, AccountReply
  <2>3. accounts' \subseteq Accounts
    BY <1>7, <1>w DEF AccountCreated, AccountFails, HandlerAt, WebOK, HandlersOK
  <2>4. QED
    BY <1>7, <2>1, <2>2, <2>3 DEF AccountCreated, AccountFails, disk, RequestsOK, WebOK, HandlersOK, DiskOK
<1>8. QED
  BY <1>1, <1>2, <1>3, <1>4, <1>5, <1>6, <1>7
     DEF PageStep, StorageProbe, BootCalled, web

\* Handling an answer.
LEMMA ResultTypes ==
  ASSUME JobsOK, toHost \in Seq(Events), ScreenOK, OnResult
  PROVE  JobsOK' /\ toHost' \in Seq(Events) /\ ScreenOK'
<1> DEFINE m == Head(toHost)
           j == m.job
<1>1. toHost # <<>> /\ m.type = "result" /\ toHost' = Tail(toHost)
  BY DEF OnResult, Receive
<1>2. toHost' \in Seq(Events) /\ m \in Answers
  BY <1>1, EventTaken, EventTypes
<1>3. j \in Jobs
  BY <1>2 DEF Answers
<1>4. \/ UNCHANGED <<phase, busy, job, shown>>
      \/ Throw(j) /\ UNCHANGED shown
      \/ ShowWallet /\ job' = [job EXCEPT ![j] = Idle] /\ UNCHANGED busy
      \/ /\ UNCHANGED <<phase, busy, shown>> /\ At(j, m.method) /\ m.method \in {"probe", "boot", "register"}
         /\ Goto(j, CASE m.method = "probe" -> "srs" [] m.method = "boot" -> "vault"
                      [] m.method = "register" -> "save")
  BY <1>2 DEF OnResult, Answers, CallSteps
<1> HIDE DEF m, j
<1>5. CASE UNCHANGED <<phase, busy, job, shown>>
  BY <1>2, <1>5 DEF OnResult, JobsOK, ScreenOK
<1>6. CASE Throw(j) /\ UNCHANGED shown
  BY <1>2, <1>3, <1>6, ThrowTypes DEF OnResult, ScreenOK
<1>7. CASE ShowWallet /\ job' = [job EXCEPT ![j] = Idle] /\ UNCHANGED busy
  BY <1>2, <1>3, <1>7, IdleOK, JobSetOK DEF OnResult, ShowWallet, ScreenOK
<1>8. CASE /\ UNCHANGED <<phase, busy, shown>> /\ At(j, m.method) /\ m.method \in {"probe", "boot", "register"}
           /\ Goto(j, CASE m.method = "probe" -> "srs" [] m.method = "boot" -> "vault"
                        [] m.method = "register" -> "save")
  <2> DEFINE step == CASE m.method = "probe" -> "srs" [] m.method = "boot" -> "vault"
                       [] m.method = "register" -> "save"
  <2>1. job[j].step = m.method /\ CarriedBy(j, job[j])
    BY <1>3, <1>8 DEF At, JobsOK
  <2>2. step \in AllSteps
    BY <1>8 DEF AllSteps
  <2>3. CarriedBy(j, [step |-> step, plain |-> job[j].plain, under |-> job[j].under])
    <3>1. CASE m.method = "probe"
      BY <2>1, <3>1 DEF CarriedBy, BootSteps, PreSteps, FlowSteps
    <3>2. CASE m.method = "boot"
      BY <2>1, <3>2 DEF CarriedBy, BootSteps, PostSteps, FlowSteps
    <3>3. CASE m.method = "register"
      BY <2>1, <3>3, JobSorts DEF CarriedBy, BootSteps, PreSteps, PostSteps, FlowSteps
    <3>4. QED
      BY <1>8, <3>1, <3>2, <3>3
  <2>4. job' = [job EXCEPT ![j].step = step]
    BY <1>8 DEF Goto
  <2> HIDE DEF step
  <2>5. JobsOK'
    BY <1>3, <2>2, <2>3, <2>4, JobGoesOK
  <2>6. QED
    BY <1>2, <1>8, <2>5 DEF OnResult, ScreenOK
<1>9. QED
  BY <1>4, <1>5, <1>6, <1>7, <1>8

\* Every step keeps the types.
LEMMA TypedStep ==
  ASSUME TypeOK, Carried, [Next]_vars
  PROVE  (TypeOK /\ Carried)'
<1>p. /\ JobsOK /\ RequestsOK /\ toHost \in Seq(Events)
      /\ ScreenOK /\ WebOK /\ DiskOK /\ CountersOK /\ stale \in BOOLEAN
  BY Parts
<1> SUFFICES (/\ JobsOK /\ RequestsOK /\ toHost \in Seq(Events)
              /\ ScreenOK /\ WebOK /\ DiskOK /\ CountersOK /\ stale \in BOOLEAN)'
  BY Parts
<1>1. CASE Start
  <2>1. RequestsOK' /\ WebOK'
    BY <1>1, <1>p, LoadTypes DEF Start, web, RequestsOK, WebOK
  <2>2. QED
    BY <1>1, <1>p, <2>1 DEF Start, JobsOK, ScreenOK, DiskOK, disk, CountersOK, counters
<1>2. CASE Restart
  <2>1. RequestsOK' /\ WebOK'
    BY <1>2, <1>p, LoadTypes DEF Restart, web, RequestsOK, WebOK
  <2>2. QED
    BY <1>2, <1>p, <2>1 DEF Restart, RestartSession, JobsOK, ScreenOK, DiskOK, disk, CountersOK, counters
<1>3. CASE Onboard
  <2>1. generated' \in 0..MaxAccounts /\ generated' \in Accounts /\ generated' \in Nat
    BY <1>3, <1>p, BoundsAssumption DEF Onboard, CountersOK, Accounts
  <2> DEFINE r == [step |-> "seal", plain |-> generated', under |-> None]
  <2> DEFINE f == Flow(generated')
  <2>f. f \in Onboardings
    BY <2>1, JobSorts
  <2>2. r \in JobRecords /\ CarriedBy(f, r)
    BY <2>1, <2>f, JobSorts DEF JobRecords, AllSteps, CarriedBy, FlowSteps
  <2>3. job' = [job EXCEPT ![f] = r]
    BY <1>3 DEF Onboard
  <2> HIDE DEF f, r
  <2>4. JobsOK'
    BY <1>p, <2>f, <2>2, <2>3, JobSorts, JobSetOK
  <2>5. QED
    BY <1>3, <1>p, <2>1, <2>4
       DEF Onboard, channels, web, disk, RequestsOK, ScreenOK, WebOK, DiskOK, CountersOK, Accountable
<1>4. CASE OnReady
  <2> DEFINE d == Head(toHost).doc
  <2>1. toHost' \in Seq(Events) /\ d \in Docs
    BY <1>4, <1>p, EventTaken, EventTypes DEF OnReady, Receive
  <2>2. JobsOK'
    <3>1. job' = [RejectPending(job) EXCEPT ![d] = IF crashed THEN Idle ELSE Booting]
      BY <1>4 DEF OnReady
    <3>2. (IF crashed THEN Idle ELSE Booting) \in JobRecords
          /\ CarriedBy(d, IF crashed THEN Idle ELSE Booting)
      BY <2>1, IdleOK, BootBegins
    <3> HIDE DEF d
    <3>3. QED
      BY <1>p, <2>1, <3>1, <3>2, RejectTypes, JobSorts DEF JobsOK
  <2>3. RequestsOK'
    BY <1>4, <1>p, <2>1, BootBegins, PostTypes DEF OnReady, RequestsOK
  <2>4. QED
    BY <1>4, <1>p, <2>1, <2>2, <2>3
       DEF OnReady, Booted, PhaseAfter, Unnoticed, web, disk, counters, ScreenOK, WebOK, DiskOK, CountersOK
<1>5. CASE OnCrash
  <2>1. toHost' \in Seq(Events)
    BY <1>5, <1>p, EventTaken DEF OnCrash, Receive
  <2>2. JobsOK'
    BY <1>5, <1>p, RejectTypes DEF OnCrash, HandleCrash, JobsOK
  <2>3. QED
    BY <1>5, <1>p, <2>1, <2>2
       DEF OnCrash, HandleCrash, PhaseAfter, Unnoticed, web, disk, counters, RequestsOK, ScreenOK, WebOK, DiskOK, CountersOK
<1>6. CASE OnResult
  BY <1>6, <1>p, ResultTypes
     DEF OnResult, web, disk, RequestsOK, WebOK, DiskOK, CountersOK
<1>7. ASSUME NEW j \in Jobs, JobStep(j)
      PROVE  (/\ JobsOK /\ RequestsOK /\ toHost \in Seq(Events)
              /\ ScreenOK /\ WebOK /\ DiskOK /\ CountersOK /\ stale \in BOOLEAN)'
  <2>1. CASE Timeout(j)
    BY <1>p, <2>1, ThrowTypes
       DEF Timeout, channels, web, disk, counters, RequestsOK, ScreenOK, WebOK, DiskOK, CountersOK
  <2>2. CASE SealLooks(j) \/ SealGenerates(j)
    <3>1. JobsOK' /\ DiskOK'
      BY <1>p, <2>2, SealTypes
    <3>2. QED
      BY <1>p, <2>2, <3>1
         DEF SealLooks, SealGenerates, channels, web, counters, RequestsOK, ScreenOK, WebOK, CountersOK
  <2>3. CASE j \in Docs /\ BootStep(j)
    BY <1>p, <2>3, BootTypes DEF web, counters, WebOK, CountersOK
  <2>4. CASE j \in Onboardings /\ FlowStep(j)
    BY <1>p, <2>4, FlowTypes DEF web, WebOK, CountersOK
  <2>5. QED
    BY <1>7, <2>1, <2>2, <2>3, <2>4 DEF JobStep
<1>8. CASE PageStep
  <2>1. /\ RequestsOK' /\ toHost' \in Seq(Events) /\ WebOK' /\ DiskOK'
        /\ UNCHANGED <<host, page, doc, counters, stale>>
    BY <1>8, <1>p, PageTypes
  <2>2. QED
    BY <1>p, <2>1 DEF host, counters, JobsOK, ScreenOK, CountersOK
<1>9. CASE Loaded
  <2>1. doc \in Docs => [type |-> "ready", doc |-> doc] \in Events
    BY DEF Events
  <2>2. doc \in Docs
    BY <1>9, <1>p DEF Loaded, WebOK
  <2>3. toHost' \in Seq(Events)
    BY <1>9, <1>p, <2>1, <2>2, NoticeAppended DEF Loaded
  <2>4. QED
    BY <1>9, <1>p, <2>2, <2>3
       DEF Loaded, host, disk, counters, JobsOK, RequestsOK, ScreenOK, WebOK, DiskOK, CountersOK
<1>10. CASE SilentReload
  BY <1>10, <1>p, LoadTypes
     DEF SilentReload, host, disk, counters, JobsOK, ScreenOK, DiskOK, CountersOK
<1>11. CASE PageGone
  <2>1. [type |-> "crash"] \in Events
    BY DEF Events
  <2>2. toHost' \in Seq(Events)
    BY <1>11, <1>p, <2>1, NoticeAppended DEF PageGone
  <2>3. RequestsOK'
    BY <1>11 DEF PageGone, RequestsOK
  <2>4. WebOK'
    BY <1>11, <1>p, HandlerNone DEF PageGone, WebOK
  <2>5. QED
    BY <1>11, <1>p, <2>2, <2>3, <2>4
       DEF PageGone, host, disk, counters, JobsOK, ScreenOK, DiskOK, CountersOK
<1>12. CASE Kill
  <2>1. JobsOK'
    BY <1>12, IdleOK DEF Kill, JobsOK
  <2>2. kills' \in 0..MaxKills
    BY <1>12, <1>p, BoundsAssumption DEF Kill, CountersOK
  <2>3. RequestsOK' /\ toHost' \in Seq(Events)
    BY <1>12 DEF Kill, RequestsOK
  <2>4. WebOK'
    BY <1>12, <1>p, HandlerNone DEF Kill, WebOK
  <2>5. QED
    BY <1>12, <1>p, <2>1, <2>2, <2>3, <2>4
       DEF Kill, disk, ScreenOK, DiskOK, CountersOK, Accountable
<1>13. CASE UNCHANGED vars
  BY <1>13, <1>p
     DEF vars, host, channels, web, disk, counters, JobsOK, RequestsOK, ScreenOK, WebOK, DiskOK, CountersOK
<1>14. QED
  BY <1>1, <1>2, <1>3, <1>4, <1>5, <1>6, <1>7, <1>8, <1>9, <1>10, <1>11, <1>12, <1>13
     DEF Next, HostEvent

-------------------------------------------------------------------------------
(* The queue of events and the document. *)

\* What a session call leaves alone.
LEMMA CallFrame ==
  ASSUME NEW j, NEW method, NEW plain, Call(j, method, plain)
  PROVE  toWeb' = toWeb \/ page = "live"
  BY DEF Call, Post

\* What a continuation of React Native leaves alone.
LEMMA JobFrame ==
  ASSUME NEW j \in Jobs, JobStep(j) \/ Onboard
  PROVE  /\ UNCHANGED <<origin, crashed, toHost, web>>
         /\ toWeb' = toWeb \/ page = "live"
         /\ phase' \in {phase, "fatal", "onboarding", "ready"}
<1>t. Throw(j) => phase' \in {phase, "fatal"}
  BY DEF Throw
<1>c. ASSUME NEW method, NEW plain, Call(j, method, plain)
      PROVE  phase' \in {phase, "fatal"} /\ (toWeb' = toWeb \/ page = "live")
  <2>1. phase' \in {phase, "fatal"}
    BY <1>c, <1>t DEF Call
  <2>2. QED
    BY <1>c, <2>1, CallFrame
<1>1. CASE Onboard
  BY <1>1 DEF Onboard, channels, web
<1>2. CASE Timeout(j)
  BY <1>2, <1>t DEF Timeout, channels, web
<1>3. CASE SealLooks(j) \/ SealGenerates(j)
  BY <1>3 DEF SealLooks, SealGenerates, channels, web
<1>4. CASE BootStep(j)
  <2>1. CASE SrsReturns(j) \/ KeyRead(j) \/ VaultRead(j) \/ VaultMissing(j) \/ VaultUnreadable(j)
    BY <2>1, <1>t DEF SrsReturns, KeyRead, VaultRead, VaultMissing, VaultUnreadable, channels, web
  <2>2. CASE KeyUnsealed(j) \/ KeySaved(j) \/ KeyUnavailable(j) \/ VaultUnsealed(j)
    BY <2>2, <1>c DEF KeyUnsealed, KeySaved, KeyUnavailable, VaultUnsealed, web
  <2>3. QED
    BY <1>4, <2>1, <2>2 DEF BootStep
<1>5. CASE FlowStep(j)
  BY <1>5, <1>t, <1>c DEF FlowStep, VaultSaved, OnboardingEnds, ShowWallet, OnboardingFails, channels, web
<1>6. QED
  BY <1>1, <1>2, <1>3, <1>4, <1>5 DEF JobStep

\* The types of the queues after a step.
LEMMA QueueTypesNext ==
  ASSUME (TypeOK)'
  PROVE  /\ toWeb' \in Seq(Messages) /\ toHost' \in Seq(Events)
         /\ NoticePosted' <=> Notices(toHost')
<1>1. toWeb' \in Seq(Messages) /\ toHost' \in Seq(Events)
  BY DEF TypeOK, Messages, Events, Answers
<1>2. DOMAIN toHost' = 1..Len(toHost')
  BY <1>1
<1>3. QED
  BY <1>1, <1>2 DEF NoticePosted, Notices

\* What a load leaves behind.
LEMMA LoadFrame ==
  ASSUME BeginLoad
  PROVE  page' = "loading" /\ toWeb' = <<>> /\ ~session' /\ handler' = NoHandlers
  BY DEF BeginLoad

\* The page posts answers only.
LEMMA PageAnswers ==
  ASSUME TypeOK, Carried, PageStep
  PROVE  toHost' = toHost \/ \E e \in Answers : toHost' = Append(toHost, e)
<1>p. RequestsOK /\ WebOK
  BY Parts
<1>m. toWeb # <<>> => Head(toWeb).job \in Jobs /\ Head(toWeb).plain \in Nat
  <2>1. toWeb # <<>> => Head(toWeb) \in Messages
    BY <1>p, Taken DEF RequestsOK
  <2>2. QED
    BY <2>1 DEF Messages
<1>r. ASSUME NEW j \in Jobs, NEW method \in CallSteps, NEW plain \in Nat, NEW ok \in BOOLEAN,
             Reply(j, method, plain, ok)
      PROVE  \E e \in Answers : toHost' = Append(toHost, e)
  <2>1. [type |-> "result", job |-> j, method |-> method, plain |-> plain, ok |-> ok] \in Answers
    BY DEF Answers
  <2>2. QED
    BY <1>r, <2>1 DEF Reply
<1>h. (\A j \in Jobs : handler[j].key \in Nat) /\ Docs \subseteq Jobs
  BY <1>p, JobSorts DEF WebOK, Handlers
<1>s. {"probe", "boot", "restore", "register"} \subseteq CallSteps
  BY DEF CallSteps
<1>1. CASE StorageProbe \/ BootCalled \/ \E method \in {"restore", "register"} : AccountCalled(method)
  BY <1>1, <1>m, <1>r, <1>s, JobSorts DEF StorageProbe, BootCalled, AccountCalled, Incoming
<1>5. ASSUME NEW j \in Jobs, AccountCreated(j) \/ AccountFails(j)
      PROVE  \E e \in Answers : toHost' = Append(toHost, e)
  BY <1>5, <1>h, <1>r, <1>s DEF AccountCreated, AccountFails, AccountReply
<1>2. ASSUME NEW d \in Docs, BootReturns(d) \/ BootThrows(d)
      PROVE  \E e \in Answers : toHost' = Append(toHost, e)
  BY <1>2, <1>h, <1>r, <1>s DEF BootReturns, BootThrows
<1>3. ASSUME NEW d \in Docs, OpfsProbed(d) \/ StoreOpens(d) \/ StoreFallsBack(d) \/ WalletCreated(d)
      PROVE  toHost' = toHost
  BY <1>3 DEF OpfsProbed, StoreOpens, StoreFallsBack, WalletCreated, channels
<1>4. QED
  BY <1>1, <1>2, <1>3, <1>5 DEF PageStep

\* The last notice tells of the page there is, and loading is waited for rightly.
LEMMA LinkedStep ==
  ASSUME TypeOK, Carried, Linked, LoadAwaited, [Next]_vars
  PROVE  Linked' /\ LoadAwaited'
<1>t. (TypeOK /\ Carried)'
  BY TypedStep
<1>q. /\ toHost \in Seq(Events) /\ (NoticePosted <=> Notices(toHost))
      /\ toHost' \in Seq(Events) /\ (NoticePosted' <=> Notices(toHost'))
  BY <1>t, QueueTypes, QueueTypesNext
<1>l. /\ page # "live" => toWeb = <<>> /\ ~session /\ handler = NoHandlers
      /\ page = "none" => toHost = <<>>
      /\ ~origin => page = "none"
      /\ phase = "init" => ~origin
      /\ phase = "webview" /\ origin => page = "loading" \/ Notices(toHost)
  BY <1>q DEF Linked, LoadAwaited, Noticing
<1>i. ASSUME NEW i \in 1..Len(toHost), Last(toHost, i), page # "loading"
      PROVE  /\ toHost[i].type = "ready" => page = "live"
             /\ toHost[i].type = "crash" => page = "gone"
  BY <1>i DEF Linked
<1>s. ASSUME /\ page' # "live" => toWeb' = <<>> /\ ~session' /\ handler' = NoHandlers
             /\ page' = "none" => toHost' = <<>>
             /\ ~origin' => page' = "none"
             /\ phase' = "init" => ~origin'
             /\ phase' = "webview" /\ origin' => page' = "loading" \/ Notices(toHost'),
             page' # "loading" =>
               \A i \in 1..Len(toHost') : Last(toHost', i) =>
                  /\ toHost'[i].type = "ready" => page' = "live"
                  /\ toHost'[i].type = "crash" => page' = "gone"
      PROVE  Linked' /\ LoadAwaited'
  <2>1. LoadAwaited'
    BY <1>q, <1>s DEF LoadAwaited, Noticing
  <2>2. QED
    BY <1>s, <2>1 DEF Linked, Last
<1>f. ASSUME UNCHANGED <<origin, toHost, page, session, handler>>, toWeb' = toWeb \/ page = "live",
             phase' = phase \/ phase' \notin {"init", "webview"}
      PROVE  Linked' /\ LoadAwaited'
  BY <1>f, <1>l, <1>i, <1>s
<1>1. CASE Start
  <2>1. toHost = <<>> /\ page = "none" /\ toHost' = toHost
    BY <1>1, <1>l DEF Start
  <2>2. CASE origin' = TRUE /\ phase' = "webview" /\ BeginLoad
    BY <2>2, <1>s, LoadFrame
  <2>3. CASE origin' = FALSE /\ phase' = "fatal" /\ UNCHANGED <<toWeb, web>>
    BY <2>1, <2>3, <1>l, <1>i, <1>s DEF web
  <2>4. QED
    BY <1>1, <2>2, <2>3 DEF Start
<1>2. CASE Restart
  <2>1. phase' = "webview" /\ origin' = origin /\ toHost' = toHost
    BY <1>2 DEF Restart, RestartSession
  <2>2. CASE origin
    BY <1>2, <2>1, <2>2, <1>s, LoadFrame DEF Restart
  <2>3. CASE ~origin
    BY <1>2, <2>1, <2>3, <1>l, <1>i, <1>s DEF Restart, web
  <2>4. QED
    BY <2>2, <2>3
<1>3. CASE OnReady \/ OnCrash
  <2>1. /\ toHost # <<>> /\ toHost' = Tail(toHost)
        /\ UNCHANGED <<origin, page, session, handler>>
        /\ phase' \in {"fatal", "boot", "crashed"} /\ (toWeb' = toWeb \/ page = "live")
    BY <1>3 DEF OnReady, OnCrash, Receive, HandleCrash, PhaseAfter, Post, web
  <2>2. /\ page' # "loading" => \A i \in 1..Len(toHost') : Last(toHost', i) =>
              /\ toHost'[i].type = "ready" => page' = "live"
              /\ toHost'[i].type = "crash" => page' = "gone"
    BY <1>q, <1>i, <2>1, EventTaken
  <2>3. page' # "none"
    BY <1>l, <2>1
  <2>4. QED
    BY <1>l, <1>s, <2>1, <2>2, <2>3
<1>4. CASE OnResult
  <2>1. /\ toHost # <<>> /\ toHost' = Tail(toHost) /\ Head(toHost).type = "result"
        /\ UNCHANGED <<origin, page, session, handler, toWeb>>
    BY <1>4 DEF OnResult, Receive, web
  <2>2. phase' \in {phase, "fatal", "ready"}
    BY <1>4 DEF OnResult, Throw, ShowWallet
  <2>3. page' # "loading" =>
            \A i \in 1..Len(toHost') : Last(toHost', i) =>
              /\ toHost'[i].type = "ready" => page' = "live"
              /\ toHost'[i].type = "crash" => page' = "gone"
    BY <1>q, <1>i, <2>1, EventTaken
  <2>4. Notices(toHost) => Notices(toHost')
    BY <1>q, <2>1, EventTaken
  <2>5. page' # "none"
    BY <1>l, <2>1
  <2>6. QED
    BY <1>l, <1>s, <2>1, <2>2, <2>3, <2>4, <2>5
<1>5. ASSUME NEW j \in Jobs, JobStep(j) \/ Onboard PROVE Linked' /\ LoadAwaited'
  BY <1>5, <1>f, JobFrame DEF web
<1>6. CASE PageStep
  <2>1. page = "live"
    <3>1. CASE toWeb # <<>>
      BY <1>l, <3>1
    <3>2. ASSUME NEW j \in Jobs, handler[j].step # "none" PROVE page = "live"
      BY <1>l, <3>2, HandlerNone
    <3>3. QED
      BY <1>6, <3>1, <3>2, JobSorts
         DEF PageStep, StorageProbe, BootCalled, AccountCalled, AccountCreated, AccountFails, Incoming, HandlerAt,
             OpfsProbed, StoreOpens, StoreFallsBack, WalletCreated, BootReturns, BootThrows
  <2>2. page' = page /\ phase' = phase /\ origin' = origin
    BY <1>6, PageTypes, Parts DEF host
  <2>3. toHost' = toHost \/ \E e \in Answers : toHost' = Append(toHost, e)
    BY <1>6, PageAnswers
  <2>4. Notices(toHost) => Notices(toHost')
    BY <1>q, <2>3, AnswerAppended
  <2>5. \A i \in 1..Len(toHost') : Last(toHost', i) =>
              /\ toHost'[i].type = "ready" => page' = "live"
              /\ toHost'[i].type = "crash" => page' = "gone"
    <3>1. \A e \in Answers : e.type = "result"
      BY DEF Answers
    <3>2. ASSUME NEW e \in Answers, toHost' = Append(toHost, e), NEW i \in 1..Len(toHost'), Last(toHost', i)
          PROVE  /\ toHost'[i].type = "ready" => page' = "live"
                 /\ toHost'[i].type = "crash" => page' = "gone"
      <4>1. \/ i \in 1..Len(toHost) /\ toHost'[i] = toHost[i] /\ Last(toHost, i)
            \/ toHost'[i] = e
        BY <1>q, <3>2, AnswerAppended
      <4>2. QED
        BY <1>i, <2>1, <2>2, <3>1, <4>1
    <3>3. QED
      BY <1>i, <2>1, <2>2, <2>3, <3>2
  <2>6. QED
    BY <1>l, <1>s, <2>1, <2>2, <2>4, <2>5
<1>7. CASE Loaded
  <2>1. page' = "live" /\ toHost' = Append(toHost, [type |-> "ready", doc |-> doc])
        /\ UNCHANGED <<origin, phase>> /\ doc \in Docs /\ page = "loading"
    BY <1>7 DEF Loaded, host, Carried
  <2>2. [type |-> "ready", doc |-> doc] \in Events
    BY <2>1 DEF Events
  <2>3. Notices(toHost') /\ \A i \in 1..Len(toHost') : Last(toHost', i) => toHost'[i].type = "ready"
    BY <1>q, <2>1, <2>2, NoticeAppended
  <2>4. QED
    BY <1>l, <1>s, <2>1, <2>3
<1>8. CASE SilentReload
  BY <1>8, <1>l, <1>s, LoadFrame DEF SilentReload, host
<1>9. CASE PageGone
  <2>1. page' = "gone" /\ toHost' = Append(toHost, [type |-> "crash"]) /\ toWeb' = <<>> /\ ~session' /\ handler' = NoHandlers
        /\ UNCHANGED <<origin, phase>> /\ page # "none"
    BY <1>9 DEF PageGone, host
  <2>2. [type |-> "crash"] \in Events
    BY DEF Events
  <2>3. Notices(toHost') /\ \A i \in 1..Len(toHost') : Last(toHost', i) => toHost'[i].type = "crash"
    BY <1>q, <2>1, <2>2, NoticeAppended
  <2>4. QED
    BY <1>l, <1>s, <2>1, <2>3
<1>10. CASE Kill
  <2>1. phase' = "init" /\ origin' = FALSE /\ page' = "none" /\ toHost' = <<>> /\ toWeb' = <<>>
        /\ ~session' /\ handler' = NoHandlers
    BY <1>10 DEF Kill
  <2>2. QED
    BY <1>s, <2>1
<1>11. CASE UNCHANGED vars
  BY <1>11, <1>f DEF vars, host, channels, web
<1>12. \E j \in Jobs : TRUE
  BY JobSorts
<1>13. QED
  BY <1>1, <1>2, <1>3, <1>4, <1>5, <1>6, <1>7, <1>8, <1>9, <1>10, <1>11, <1>12 DEF Next, HostEvent

-------------------------------------------------------------------------------
(* What the continuations do, while each knows its document. *)

Sets(j, r) == job' = [job EXCEPT ![j] = r]
Record(step, plain, under) == [step |-> step, plain |-> plain, under |-> under]
Asks(j, method, plain) ==
  /\ Sets(j, Record(method, plain, None))
  /\ Post([job |-> j, method |-> method, plain |-> plain])
  /\ UNCHANGED <<phase, busy, shown>> /\ ~NoticePosted

Drops(j) ==
  /\ Active(j) /\ Sets(j, Idle)
  /\ phase' = IF j \in Onboardings THEN phase ELSE "fatal"
  /\ UNCHANGED <<memVault, shown, toWeb, disk>>
Proceeds(d) ==
  /\ At(d, "srs") /\ Sets(d, Record("key", job[d].plain, job[d].under))
  /\ UNCHANGED <<phase, busy, memVault, shown, toWeb, disk>>
ReadsKey(d) ==
  /\ At(d, "key") /\ UNCHANGED <<phase, busy, memVault, shown, toWeb, disk>>
  /\ \/ diskKey = NoBlob /\ Sets(d, Record("seal", d, None))
     \/ diskKey # NoBlob /\ Sets(d, Record("unseal", diskKey.plain, diskKey.under))
Looks(j) ==
  /\ At(j, "seal") /\ UNCHANGED <<phase, busy, memVault, shown, toWeb, disk>>
  /\ \/ keystore = None /\ Sets(j, Record("generate", job[j].plain, job[j].under))
     \/ keystore # None /\ Sets(j, Record("write", job[j].plain, keystore))
Generates(j) ==
  /\ At(j, "generate") /\ keystore' = keystore + 1 /\ Sets(j, Record("write", job[j].plain, keystore'))
  /\ UNCHANGED <<phase, busy, memVault, shown, toWeb, diskKey, diskVault, store>>
AsksBoot(d) ==
  /\ UNCHANGED <<memVault, keystore, diskVault, store>>
  /\ \/ job[d].step \in {"key", "unseal", "seal", "generate", "write"} /\ Asks(d, "boot", None) /\ UNCHANGED diskKey
     \/ At(d, "unseal") /\ Asks(d, "boot", job[d].plain) /\ UNCHANGED diskKey
     \/ At(d, "write") /\ Asks(d, "boot", job[d].plain) /\ diskKey' = Blob(d)
FindsNone(d) ==
  /\ At(d, "vault") /\ Sets(d, Record("absent", None, None)) /\ diskVault = NoBlob
  /\ UNCHANGED <<phase, busy, memVault, shown, toWeb, disk>>
Offers(d) ==
  /\ At(d, "absent") /\ Sets(d, Idle)
  /\ phase' = "onboarding" /\ memVault' = None
  /\ UNCHANGED <<shown, toWeb, disk>>
FindsVault(d) ==
  /\ At(d, "vault") /\ Sets(d, Record("open", diskVault.plain, diskVault.under))
  /\ UNCHANGED <<phase, busy, memVault, shown, toWeb, disk>>
AsksRestore(d) ==
  /\ At(d, "open") /\ Asks(d, "restore", job[d].plain) /\ memVault' = job[d].plain
  /\ UNCHANGED disk
AsksRegister(f) ==
  /\ At(f, "write") /\ Asks(f, "register", job[f].plain)
  /\ diskVault' = Blob(f)
  /\ UNCHANGED <<memVault, keystore, diskKey, store>>
EndsReady(f) ==
  /\ At(f, "save") /\ Sets(f, Idle) /\ phase' = "ready" /\ shown' = memVault
  /\ diskVault' = [plain |-> memVault, under |-> keystore]
  /\ UNCHANGED <<memVault, toWeb, keystore, diskKey, store>>

BootMoves(d) == \/ Drops(d) \/ Proceeds(d) \/ ReadsKey(d) \/ Looks(d) \/ Generates(d) \/ AsksBoot(d)
                \/ FindsNone(d) \/ Offers(d) \/ FindsVault(d) \/ AsksRestore(d)
FlowMoves(f) == Drops(f) \/ Looks(f) \/ Generates(f) \/ AsksRegister(f) \/ EndsReady(f)
JobMoves(j) == (j \in Docs /\ BootMoves(j)) \/ (j \in Onboardings /\ FlowMoves(j))

\* A call that does not pass by a notice, with no crash on record.
LEMMA CallAsks ==
  ASSUME NEW j, NEW method, NEW plain, Call(j, method, plain), UNCHANGED shown, ~crashed, ~stale'
  PROVE  Asks(j, method, plain)
  BY DEF Call, Asks, Sets, Record

\* The steps of a continuation in the form the invariants look at.
LEMMA Moving ==
  ASSUME JobsOK, DiskOK, NEW j \in Jobs, JobStep(j), ~crashed, ~stale'
  PROVE  JobMoves(j)
<1>j. job[j] \in JobRecords /\ (j \in Onboardings <=> j \notin Docs)
  BY JobSorts DEF JobsOK
<1>t. ASSUME Throw(j), Active(j), UNCHANGED <<memVault, shown, channels, disk>> PROVE Drops(j)
  BY <1>t DEF Throw, Drops, Sets, channels
<1>1. CASE Timeout(j)
  BY <1>1, <1>j, <1>t DEF Timeout, counters, Waiting, CallSteps, Active, JobMoves, BootMoves, FlowMoves
<1>2. CASE SealLooks(j)
  <2>1. [job EXCEPT ![j].step = "generate"] = [job EXCEPT ![j] = Record("generate", job[j].plain, job[j].under)]
    BY JobGoes DEF AllSteps, Record
  <2>2. keystore \in Nat
    BY DEF DiskOK
  <2>3. [job EXCEPT ![j].step = "write", ![j].under = keystore] = [job EXCEPT ![j] = Record("write", job[j].plain, keystore)]
    BY <2>2, WriteSet DEF Record
  <2>4. Looks(j)
    BY <1>2, <2>1, <2>3 DEF SealLooks, Looks, Sets, channels, counters
  <2>5. QED
    BY <1>j, <2>4 DEF JobMoves, BootMoves, FlowMoves
<1>3. CASE SealGenerates(j)
  <2>1. keystore' \in Nat
    BY <1>3 DEF DiskOK, SealGenerates
  <2>2. [job EXCEPT ![j].step = "write", ![j].under = keystore'] = [job EXCEPT ![j] = Record("write", job[j].plain, keystore')]
    BY <2>1, WriteSet DEF Record
  <2>3. Generates(j)
    BY <1>3, <2>2 DEF SealGenerates, Generates, Sets, channels, counters
  <2>4. QED
    BY <1>j, <2>3 DEF JobMoves, BootMoves, FlowMoves
<1>4. CASE j \in Docs /\ BootStep(j)
  <2>1. CASE SrsReturns(j)
    <3>1. CASE Goto(j, "key") /\ UNCHANGED <<phase, busy>>
      <4>1. [job EXCEPT ![j].step = "key"] = [job EXCEPT ![j] = Record("key", job[j].plain, job[j].under)]
        BY JobGoes DEF AllSteps, Record
      <4>2. Proceeds(j)
        BY <2>1, <3>1, <4>1 DEF SrsReturns, Goto, Proceeds, Sets, channels, counters
      <4>3. QED
        BY <1>4, <4>2 DEF JobMoves, BootMoves
    <3>2. CASE Throw(j)
      BY <1>4, <1>t, <2>1, <3>2 DEF SrsReturns, counters, At, Active, JobMoves, BootMoves
    <3>3. QED
      BY <2>1, <3>1, <3>2 DEF SrsReturns
  <2>2. CASE KeyRead(j)
    <3>1. ReadsKey(j)
      BY <2>2 DEF KeyRead, ReadsKey, Sets, Record, channels, counters
    <3>2. QED
      BY <1>4, <3>1 DEF JobMoves, BootMoves
  <2>3. CASE KeyUnsealed(j) \/ KeySaved(j) \/ KeyUnavailable(j)
    <3>1. AsksBoot(j)
      BY <2>3, CallAsks DEF KeyUnsealed, KeySaved, KeyUnavailable, AsksBoot, disk, counters
    <3>2. QED
      BY <1>4, <3>1 DEF JobMoves, BootMoves
  <2>4. CASE VaultRead(j) \/ VaultMissing(j)
    <3>1. [Idle EXCEPT !.step = "absent"] = Record("absent", None, None)
      BY DEF Idle, Record
    <3>2. FindsNone(j) \/ FindsVault(j) \/ Offers(j)
      BY <2>4, <3>1 DEF VaultRead, VaultMissing, FindsNone, FindsVault, Offers, Sets, Record, channels, counters
    <3>3. QED
      BY <1>4, <3>2 DEF JobMoves, BootMoves
  <2>5. CASE VaultUnsealed(j)
    <3>1. AsksRestore(j)
      BY <2>5, CallAsks DEF VaultUnsealed, AsksRestore, counters
    <3>2. QED
      BY <1>4, <3>1 DEF JobMoves, BootMoves
  <2>6. CASE VaultUnreadable(j)
    BY <1>4, <1>t, <2>6 DEF VaultUnreadable, counters, Active, JobMoves, BootMoves
  <2>7. QED
    BY <1>4, <2>1, <2>2, <2>3, <2>4, <2>5, <2>6 DEF BootStep
<1>5. CASE j \in Onboardings /\ FlowStep(j)
  <2>1. VaultSaved(j) => AsksRegister(j)
    BY CallAsks DEF VaultSaved, AsksRegister, counters
  <2>2. OnboardingEnds(j) => EndsReady(j)
    BY DEF OnboardingEnds, ShowWallet, EndsReady, Sets, channels
  <2>3. OnboardingFails(j) => Drops(j)
    BY <1>5, <1>t DEF OnboardingFails, Active, counters
  <2>4. QED
    BY <1>5, <1>j, <2>1, <2>2, <2>3 DEF FlowStep, JobMoves, FlowMoves
<1>6. QED
  BY <1>1, <1>2, <1>3, <1>4, <1>5 DEF JobStep

\* A move is of a job under way, and touches no other.
LEMMA MoveFrame ==
  ASSUME JobsOK, NEW j \in Jobs, JobMoves(j)
  PROVE  /\ Active(j)
         /\ \A k \in Jobs \ {j} : job'[k] = job[k]
         /\ \/ Active(j)' /\ phase' = phase /\ busy' = busy
            \/ ~Active(j)' /\ (phase' = phase \/ (j \in Docs /\ phase' \in {"fatal", "onboarding"})
                               \/ (j \in Onboardings /\ phase' = "ready"))
<1>r. ASSUME NEW r, Sets(j, r)
      PROVE  job'[j] = r /\ \A k \in Jobs \ {j} : job'[k] = job[k]
  BY <1>r DEF Sets, JobsOK
<1>n. /\ Idle.step = "none"
      /\ \A step, plain, under : Record(step, plain, under).step = step
  BY DEF Idle, Record
<1>1. CASE Drops(j)
  BY <1>1, <1>n, <1>r, JobSorts DEF Drops, Active
<1>2. CASE Proceeds(j)
  BY <1>2, <1>n, <1>r DEF Proceeds, Active, At
<1>3. CASE ReadsKey(j)
  BY <1>3, <1>n, <1>r DEF ReadsKey, Active, At
<1>4. CASE Looks(j)
  BY <1>4, <1>n, <1>r DEF Looks, Active, At
<1>5. CASE Generates(j)
  BY <1>5, <1>n, <1>r DEF Generates, Active, At
<1>6. CASE AsksBoot(j)
  BY <1>6, <1>n, <1>r DEF AsksBoot, Asks, Active, At
<1>7. CASE FindsNone(j)
  BY <1>7, <1>n, <1>r DEF FindsNone, Active, At
<1>13. CASE j \in Docs /\ Offers(j)
  BY <1>13, <1>n, <1>r DEF Offers, Active, At
<1>8. CASE FindsVault(j)
  BY <1>8, <1>n, <1>r DEF FindsVault, Active, At
<1>9. CASE AsksRestore(j)
  BY <1>9, <1>n, <1>r DEF AsksRestore, Asks, Active, At
<1>10. CASE AsksRegister(j)
  BY <1>10, <1>n, <1>r DEF AsksRegister, Asks, Active, At
<1>11. CASE j \in Onboardings /\ EndsReady(j)
  BY <1>11, <1>n, <1>r DEF EndsReady, Active, At
<1>12. QED
  BY <1>1, <1>2, <1>3, <1>4, <1>5, <1>6, <1>7, <1>8, <1>9, <1>10, <1>11, <1>13 DEF JobMoves, BootMoves, FlowMoves

\* The answer that a job waits for: m is the oldest event.
Answered(j, m) == /\ j \in Jobs /\ m.method = job[j].step /\ m.plain = job[j].plain /\ m.ok
GoesOn(d, step) == Sets(d, Record(step, job[d].plain, job[d].under)) /\ UNCHANGED <<phase, busy, shown>>

LEMMA Answering ==
  ASSUME JobsOK, toHost \in Seq(Events), OnResult
  PROVE  /\ toHost # <<>> /\ toHost' = Tail(toHost)
         /\ UNCHANGED <<origin, crashed, memVault, toWeb, web, disk, stale>>
         /\ \E j \in Jobs, m \in Answers :
              /\ m = Head(toHost) /\ m.type = "result"
              /\ \/ UNCHANGED <<phase, busy, job, shown>>
                 \/ Drops(j)
                 \/ j \in Docs /\ At(j, "restore") /\ Answered(j, m) /\ Sets(j, Idle) /\ ShowWallet
                 \/ j \in Docs /\ At(j, "probe") /\ Answered(j, m) /\ GoesOn(j, "srs")
                 \/ j \in Docs /\ At(j, "boot") /\ Answered(j, m) /\ GoesOn(j, "vault")
                 \/ j \in Onboardings /\ At(j, "register") /\ Answered(j, m) /\ GoesOn(j, "save")
<1>a. toHost # <<>> /\ Head(toHost).type = "result" /\ toHost' = Tail(toHost)
  BY DEF OnResult, Receive
<1>b. Head(toHost) \in Answers
  BY <1>a, EventTaken, EventTypes
<1>2. PICK m \in Answers : m = Head(toHost)
  BY <1>b
<1>c. m.job \in Jobs /\ m.method \in CallSteps /\ m.ok \in BOOLEAN
  BY DEF Answers
<1>d. PICK j \in Jobs : j = m.job
  BY <1>c
<1>1. toHost # <<>> /\ m.type = "result" /\ toHost' = Tail(toHost)
  BY <1>a, <1>2
<1>3. j \in Jobs /\ m.method \in CallSteps /\ m.ok \in BOOLEAN
  BY <1>c
<1>4. UNCHANGED <<origin, crashed, memVault, toWeb, web, disk, stale>>
  BY DEF OnResult
<1>5. CASE ~At(j, m.method) \/ job[j].plain # m.plain
  BY <1>1, <1>2, <1>3, <1>4, <1>5, <1>d DEF OnResult
<1>6. ASSUME At(j, m.method), job[j].plain = m.plain
      PROVE  \/ Drops(j)
             \/ j \in Docs /\ At(j, "restore") /\ Answered(j, m) /\ Sets(j, Idle) /\ ShowWallet
             \/ j \in Docs /\ At(j, "probe") /\ Answered(j, m) /\ GoesOn(j, "srs")
             \/ j \in Docs /\ At(j, "boot") /\ Answered(j, m) /\ GoesOn(j, "vault")
             \/ j \in Onboardings /\ At(j, "register") /\ Answered(j, m) /\ GoesOn(j, "save")
  <2>1. job[j].step = m.method /\ CarriedBy(j, job[j])
    BY <1>3, <1>6 DEF At, JobsOK
  <2>2. CASE ~m.ok
    <3>1. Throw(j) /\ UNCHANGED shown
      BY <1>2, <1>d, <1>6, <2>2 DEF OnResult
    <3>2. QED
      BY <1>3, <1>4, <2>1, <3>1 DEF Throw, Drops, Active, Sets, CallSteps
  <2>3. CASE m.ok
    <3>1. Answered(j, m)
      BY <1>3, <1>6, <2>1, <2>3 DEF Answered
    <3>2. CASE m.method = "restore"
      <4>1. j \in Docs
        BY <1>3, <2>1, <3>2, JobSorts DEF CarriedBy, FlowSteps
      <4>2. ShowWallet /\ Sets(j, Idle)
        BY <1>2, <1>d, <1>6, <2>3, <3>2 DEF OnResult, Sets
      <4>3. QED
        BY <1>6, <3>1, <3>2, <4>1, <4>2
    <3>3. ASSUME NEW step \in AllSteps, Goto(j, step), UNCHANGED <<phase, busy, shown>> PROVE GoesOn(j, step)
      BY <1>3, <3>3, JobGoes DEF Goto, GoesOn, Sets, Record
    <3>4. CASE m.method = "probe"
      <4>1. j \in Docs
        BY <1>3, <2>1, <3>4, JobSorts DEF CarriedBy, FlowSteps
      <4>2. Goto(j, "srs") /\ UNCHANGED <<phase, busy, shown>>
        BY <1>2, <1>d, <1>6, <2>3, <3>4 DEF OnResult
      <4>3. QED
        BY <1>6, <3>1, <3>3, <3>4, <4>1, <4>2 DEF AllSteps
    <3>5. CASE m.method = "boot"
      <4>1. j \in Docs
        BY <1>3, <2>1, <3>5, JobSorts DEF CarriedBy, FlowSteps
      <4>2. Goto(j, "vault") /\ UNCHANGED <<phase, busy, shown>>
        BY <1>2, <1>d, <1>6, <2>3, <3>5 DEF OnResult
      <4>3. QED
        BY <1>6, <3>1, <3>3, <3>5, <4>1, <4>2 DEF AllSteps
    <3>6. CASE m.method = "register"
      <4>1. j \in Onboardings
        BY <1>3, <2>1, <3>6, JobSorts DEF CarriedBy, BootSteps, PreSteps, PostSteps
      <4>2. Goto(j, "save") /\ UNCHANGED <<phase, busy, shown>>
        BY <1>2, <1>d, <1>6, <2>3, <3>6 DEF OnResult
      <4>3. QED
        BY <1>6, <3>1, <3>3, <3>6, <4>1, <4>2 DEF AllSteps
    <3>7. QED
      BY <1>3, <3>2, <3>4, <3>5, <3>6 DEF CallSteps
  <2>4. QED
    BY <1>3, <2>2, <2>3
<1>7. QED
  BY <1>1, <1>2, <1>4, <1>5, <1>6

\* What has gone unaware stays so.
LEMMA StaleStays ==
  ASSUME [Next]_vars, stale \in BOOLEAN, ~stale'
  PROVE  ~stale
<1> SUFFICES ASSUME stale PROVE FALSE
  OBVIOUS
<1>c. \A j, method, plain : Call(j, method, plain) => stale'
  BY DEF Call
<1>1. \A j \in Jobs : ~JobStep(j)
  BY <1>c DEF JobStep, Timeout, SealLooks, SealGenerates, BootStep, SrsReturns, KeyRead, KeyUnsealed, KeySaved,
              KeyUnavailable, VaultRead, VaultMissing, VaultUnsealed, VaultUnreadable, FlowStep, VaultSaved, OnboardingEnds,
              OnboardingFails
<1>2. ~PageStep
  BY DEF PageStep, StorageProbe, BootCalled, OpfsProbed, StoreOpens, StoreFallsBack, WalletCreated, BootReturns,
         BootThrows, AccountCalled, AccountCreated, AccountFails
<1>3. ~HostEvent
  BY DEF HostEvent, OnReady, OnCrash, OnResult
<1>4. QED
  BY <1>1, <1>2, <1>3 DEF Next, Start, Restart, Onboard, Loaded, SilentReload, PageGone, Kill, vars

\* A 'ready' that no job is unaware of.
LEMMA Readying ==
  ASSUME JobsOK, toHost \in Seq(Events), OnReady, ~stale'
  PROVE  /\ toHost # <<>> /\ toHost' = Tail(toHost) /\ Head(toHost).type = "ready"
         /\ UNCHANGED <<origin, crashed, memVault, shown, web, disk>>
         /\ \E d \in Docs :
              /\ \A k \in Jobs \ {d} : ~Active(k)'
              /\ \/ crashed /\ ~Active(d)' /\ phase' = "fatal" /\ toWeb' = toWeb
                 \/ ~crashed /\ job'[d] = Booting /\ phase' \in {"boot", "fatal"} /\ Post(ProbeOf(d))
<1>1. toHost # <<>> /\ toHost' = Tail(toHost) /\ Head(toHost).type = "ready"
  BY DEF OnReady, Receive
<1>a. Head(toHost).doc \in Docs
  BY <1>1, EventTaken, EventTypes
<1>2. PICK d \in Docs : d = Head(toHost).doc
  BY <1>a
<1>d. d \in Jobs
  BY JobSorts
<1>3. \A k \in Jobs : job[k].step = "none" \/ Waiting(k)
  BY DEF OnReady, Unnoticed, At
<1>4. job' = [RejectPending(job) EXCEPT ![d] = IF crashed THEN Idle ELSE Booting]
  BY <1>2 DEF OnReady
<1>5. \A k \in Jobs : RejectPending(job)[k].step = "none"
  BY <1>3, RejectTypes DEF Idle
<1>6. DOMAIN RejectPending(job) = Jobs
  BY DEF RejectPending
<1>7. job'[d] = (IF crashed THEN Idle ELSE Booting) /\ \A k \in Jobs \ {d} : job'[k] = RejectPending(job)[k]
  BY <1>d, <1>4, <1>6
<1>8. UNCHANGED <<origin, crashed, memVault, shown, web, disk>>
  BY DEF OnReady, counters
<1>9. \/ crashed /\ phase' = "fatal" /\ toWeb' = toWeb
      \/ ~crashed /\ phase' \in {"boot", "fatal"} /\ Post(ProbeOf(d))
  BY <1>2 DEF OnReady, PhaseAfter
<1>10. \A k \in Jobs \ {d} : ~Active(k)'
  BY <1>5, <1>7 DEF Active
<1>11. crashed => ~Active(d)'
  BY <1>7 DEF Active, Idle
<1>12. QED
  BY <1>1, <1>7, <1>8, <1>9, <1>10, <1>11

\* A crash that no job is unaware of.
LEMMA Crashing ==
  ASSUME JobsOK, OnCrash, ~stale'
  PROVE  /\ toHost # <<>> /\ toHost' = Tail(toHost) /\ Head(toHost).type = "crash"
         /\ UNCHANGED <<origin, memVault, shown, toWeb, web, disk>>
         /\ phase' \in {"crashed", "fatal"}
         /\ \A k \in Jobs : ~Active(k)'
<1>1. \A k \in Jobs : job[k].step = "none" \/ Waiting(k)
  BY DEF OnCrash, Unnoticed, At
<1>2. \A k \in Jobs : job'[k].step = "none"
  BY <1>1, RejectTypes DEF OnCrash, HandleCrash, Idle
<1>3. QED
  BY <1>2 DEF OnCrash, Receive, PhaseAfter, Active, counters

\* Only a job under way takes a step.
LEMMA JobActive ==
  ASSUME NEW j \in Jobs, JobStep(j)
  PROVE  Active(j)
  BY JobSorts DEF JobStep, Timeout, Waiting, CallSteps, SealLooks, SealGenerates, BootStep, SrsReturns, KeyRead,
         KeyUnsealed, KeySaved, KeyUnavailable, VaultRead, VaultMissing, VaultUnsealed, VaultUnreadable, FlowStep, VaultSaved,
         OnboardingEnds, OnboardingFails, At, Active

Settled == TypeOK /\ Carried /\ Linked /\ LoadAwaited

\* One job at a time, and it is the job of the document there is.
LEMMA SoloStep ==
  ASSUME Settled, Solo, [Next]_vars, ~stale, ~stale'
  PROVE  Solo'
<1>p. /\ JobsOK /\ DiskOK /\ RequestsOK /\ CountersOK /\ WebOK /\ toHost \in Seq(Events) /\ (NoticePosted <=> Notices(toHost))
  BY Parts, QueueTypes DEF Settled
<1>q. toHost' \in Seq(Events) /\ (NoticePosted' <=> Notices(toHost'))
  BY TypedStep, QueueTypesNext DEF Settled
<1>i. \A j \in Jobs : j \in Onboardings <=> j \notin Docs
  BY JobSorts
<1>e. ASSUME \A k \in Jobs : ~Active(k)', phase' \notin {"onboarding", "ready"},
             crashed' => phase' \in {"crashed", "fatal"}
      PROVE  Solo'
  BY <1>e, JobSorts DEF Solo
<1>f. ASSUME UNCHANGED <<phase, busy, crashed, job>>, Noticing \/ page = "live" => Noticing' \/ page' = "live"
      PROVE  Solo'
  BY <1>f DEF Solo, Active
<1>1. CASE Start
  <2>1. phase = "init" /\ phase' \in {"webview", "fatal"} /\ UNCHANGED <<crashed, job>>
    BY <1>1 DEF Start
  <2>2. \A k \in Jobs : ~Active(k)'
    BY <1>i, <2>1 DEF Solo, Active
  <2>3. QED
    BY <1>e, <2>1, <2>2 DEF Solo
<1>2. CASE Restart
  <2>1. phase \in {"fatal", "crashed"} /\ phase' = "webview" /\ crashed' = FALSE /\ UNCHANGED <<busy, job, toHost>>
    BY <1>2 DEF Restart, RestartSession, RestartOffered
  <2>2. Noticing' \/ page = "none"
    BY <1>2 DEF Restart, BeginLoad, Noticing, Settled, Linked
  <2>3. page = "none" => ~Noticing
    BY <1>p DEF Noticing, Notices, Settled, Linked
  <2>4. QED
    BY <1>i, <2>1, <2>2, <2>3, JobSorts DEF Solo, Active
<1>3. CASE Onboard
  <2>f. PICK f \in Onboardings : \A k \in Jobs \ {f} : job'[k] = job[k]
    <3>1. generated' \in Accounts
      BY <1>3, <1>p, BoundsAssumption DEF Onboard, CountersOK, Accounts
    <3>2. QED
      BY <1>3, <1>p, <3>1, JobSorts DEF Onboard, JobsOK
  <2>1. phase = "onboarding" /\ phase' = phase /\ ~busy /\ busy' = TRUE /\ UNCHANGED <<crashed, toHost, page>>
    BY <1>3 DEF Onboard, CreateAccountOffered, channels, web
  <2>2. Noticing' = Noticing
    BY <2>1 DEF Noticing, NoticePosted
  <2>3. \A k \in Jobs : ~Active(k)
    BY <1>i, <2>1 DEF Solo
  <2>4. \A k \in Jobs : Active(k)' => k = f
    BY <2>f, <2>3 DEF Active
  <2>5. f \notin Docs
    BY <1>i, <2>f, JobSorts
  <2>6. \A d \in Docs : ~Active(d)'
    BY <2>4, <2>5, JobSorts
  <2>7. QED
    BY <2>1, <2>2, <2>4, <2>6 DEF Solo
<1>4. CASE OnReady
  <2>a. /\ toHost # <<>> /\ toHost' = Tail(toHost) /\ Head(toHost).type = "ready"
        /\ UNCHANGED <<crashed, page>>
    BY <1>4, <1>p, Readying DEF web
  <2>b. PICK d \in Docs :
              /\ \A k \in Jobs \ {d} : ~Active(k)'
              /\ \/ crashed /\ ~Active(d)' /\ phase' = "fatal"
                 \/ ~crashed /\ phase' \in {"boot", "fatal"}
    BY <1>4, <1>p, Readying
  <2>1. /\ d \in Docs /\ toHost # <<>> /\ toHost' = Tail(toHost) /\ Head(toHost).type = "ready"
        /\ UNCHANGED <<crashed, page>>
        /\ \A k \in Jobs \ {d} : ~Active(k)'
        /\ \/ crashed /\ ~Active(d)' /\ phase' = "fatal"
           \/ ~crashed /\ phase' \in {"boot", "fatal"}
    BY <2>a, <2>b
  <2>2. Noticing' \/ page' = "live"
    <3>1. SUFFICES ASSUME ~Notices(toHost'), page # "loading" PROVE page = "live"
      BY <1>q, <2>1 DEF Noticing
    <3>2. Last(toHost, 1) /\ 1 \in 1..Len(toHost) /\ toHost[1].type = "ready"
      BY <1>p, <2>1, <3>1, EventTaken
    <3>3. QED
      BY <3>1, <3>2 DEF Settled, Linked
  <2>3. d \in Jobs /\ d \notin Onboardings
    BY <2>1, JobSorts
  <2>4. CASE crashed
    <3>1. \A k \in Jobs : ~Active(k)'
      BY <2>1, <2>4
    <3>2. QED
      BY <1>e, <2>1, <2>4, <3>1
  <2>5. CASE ~crashed
    BY <1>i, <2>1, <2>2, <2>3, <2>5, JobSorts DEF Solo
  <2>6. QED
    BY <2>4, <2>5
<1>5. CASE OnCrash
  BY <1>5, <1>e, <1>p, Crashing
<1>6. ASSUME NEW j \in Jobs, Active(j), ~crashed, \A k \in Jobs \ {j} : job'[k] = job[k],
             UNCHANGED <<crashed, page>>, Noticing' = Noticing,
             \/ Active(j)' /\ phase' = phase /\ busy' = busy
             \/ ~Active(j)' /\ (phase' = phase \/ (j \in Docs /\ phase' \in {"fatal", "onboarding", "ready"})
                                \/ (j \in Onboardings /\ phase' = "ready"))
      PROVE  Solo'
  <2>1. \A k \in Jobs : Active(k)' => k = j
    BY <1>6 DEF Solo, Active
  <2>2. CASE Active(j)'
    BY <1>6, <2>1, <2>2, JobSorts DEF Solo
  <2>3. CASE ~Active(j)'
    BY <1>6, <2>1, <2>3, <1>i, JobSorts DEF Solo
  <2>4. QED
    BY <2>2, <2>3
<1>7. ASSUME NEW j \in Jobs, JobStep(j) PROVE Solo'
  <2>1. ~crashed
    BY <1>7, JobActive DEF Solo
  <2>2. JobMoves(j)
    BY <1>7, <1>p, <2>1, Moving
  <2>3. UNCHANGED <<crashed, toHost, page>>
    BY <1>7, JobFrame DEF web
  <2>4. Noticing' = Noticing
    BY <2>3 DEF Noticing, NoticePosted
  <2>5. QED
    BY <1>6, <1>p, <2>1, <2>2, <2>3, <2>4, MoveFrame
<1>8. CASE OnResult
  <2>1. toHost # <<>> /\ toHost' = Tail(toHost) /\ UNCHANGED <<crashed, page>>
    BY <1>8, <1>p, Answering DEF web
  <2>a. Head(toHost).type = "result"
    BY <1>8 DEF OnResult, Receive
  <2>2. Noticing' = Noticing
    BY <1>p, <1>q, <2>1, <2>a, EventTaken DEF Noticing
  <2>3. PICK j \in Jobs :
        \/ UNCHANGED <<phase, busy, job, shown>>
        \/ Drops(j)
        \/ j \in Docs /\ At(j, "restore") /\ Sets(j, Idle) /\ ShowWallet
        \/ At(j, "probe") /\ GoesOn(j, "srs")
        \/ At(j, "boot") /\ GoesOn(j, "vault")
        \/ At(j, "register") /\ GoesOn(j, "save")
    BY <1>8, <1>p, Answering
  <2>r. ASSUME NEW r, Sets(j, r) PROVE job'[j] = r /\ \A k \in Jobs \ {j} : job'[k] = job[k]
    BY <1>p, <2>1, <2>r DEF Sets, JobsOK
  <2>n. Idle.step = "none" /\ \A step, plain, under : Record(step, plain, under).step = step
    BY DEF Idle, Record
  <2>4. CASE UNCHANGED <<phase, busy, job, shown>>
    BY <1>f, <2>1, <2>2, <2>4
  <2>5. CASE Drops(j)
    <3>1. Active(j) /\ ~crashed
      BY <2>1, <2>5 DEF Drops, Solo
    <3>2. job'[j] = Idle /\ \A k \in Jobs \ {j} : job'[k] = job[k]
      BY <2>5, <2>r DEF Drops
    <3>3. ~Active(j)' /\ (phase' = phase \/ (j \in Docs /\ phase' = "fatal"))
      BY <1>i, <2>1, <2>5, <2>n, <3>2 DEF Drops, Active
    <3>4. QED
      BY <1>6, <2>1, <2>2, <3>1, <3>2, <3>3
  <2>6. CASE j \in Docs /\ At(j, "restore") /\ Sets(j, Idle) /\ ShowWallet
    <3>1. Active(j) /\ ~crashed
      BY <2>1, <2>6 DEF At, Active, Solo
    <3>2. job'[j] = Idle /\ \A k \in Jobs \ {j} : job'[k] = job[k]
      BY <2>6, <2>r
    <3>3. ~Active(j)' /\ phase' = "ready"
      BY <2>6, <2>n, <3>2 DEF Active, ShowWallet
    <3>4. QED
      BY <1>6, <2>1, <2>2, <2>6, <3>1, <3>2, <3>3
  <2>7. ASSUME NEW step, step # "none", NEW old, old # "none", At(j, old), GoesOn(j, step) PROVE Solo'
    <3>1. Active(j) /\ ~crashed
      BY <2>1, <2>7 DEF At, Active, Solo
    <3>2. job'[j].step = step /\ (\A k \in Jobs \ {j} : job'[k] = job[k]) /\ UNCHANGED <<phase, busy>>
      BY <2>7, <2>r, <2>n DEF GoesOn
    <3>3. Active(j)'
      BY <2>7, <3>2 DEF Active
    <3>4. QED
      BY <1>6, <2>1, <2>2, <3>1, <3>2, <3>3
  <2>8. QED
    BY <2>3, <2>4, <2>5, <2>6, <2>7
<1>9. CASE PageStep
  <2>1. UNCHANGED <<phase, busy, crashed, job, page>>
    BY <1>9, <1>p, PageTypes DEF host
  <2>2. NoticePosted' <=> NoticePosted
    <3>1. toHost' = toHost \/ \E e \in Answers : toHost' = Append(toHost, e)
      BY <1>9, PageAnswers DEF Settled
    <3>2. ASSUME NEW e \in Answers, toHost' = Append(toHost, e) PROVE Notices(toHost') <=> Notices(toHost)
      BY <1>p, <3>2, AnswerAppended
    <3>3. QED
      BY <1>p, <1>q, <3>1, <3>2
  <2>3. QED
    BY <1>f, <2>1, <2>2 DEF Noticing
<1>10. CASE Loaded
  BY <1>10, <1>f DEF Loaded, host
<1>11. CASE SilentReload
  BY <1>11, <1>f DEF SilentReload, BeginLoad, Noticing, host
<1>12. CASE PageGone
  <2>1. [type |-> "crash"] \in Events /\ toHost' = Append(toHost, [type |-> "crash"])
    BY <1>12 DEF PageGone, Events
  <2>2. Noticing'
    BY <1>p, <1>q, <2>1, NoticeAppended DEF Noticing
  <2>3. QED
    BY <1>12, <1>f, <2>2 DEF PageGone, host
<1>13. CASE Kill
  <2>1. \A k \in Jobs : ~Active(k)'
    BY <1>13 DEF Kill, Active, Idle
  <2>2. QED
    BY <1>13, <1>e, <2>1 DEF Kill
<1>14. CASE UNCHANGED vars
  BY <1>14, <1>f DEF vars, host, channels, web, Noticing, NoticePosted
<1>15. QED
  BY <1>1, <1>2, <1>3, <1>4, <1>5, <1>7, <1>8, <1>9, <1>10, <1>11, <1>12, <1>13, <1>14
     DEF Next, HostEvent


-------------------------------------------------------------------------------
(* What the document does, by what it does to the queues and the handlers. *)

Takes(method) == toWeb # <<>> /\ Head(toWeb).method = method /\ toWeb' = Tail(toWeb)
Answer(e) == toHost' = Append(toHost, e)
Handles(d, h) == handler' = [handler EXCEPT ![d] = h]

Probes ==
  /\ Takes("probe") /\ UNCHANGED <<session, accounts, handler>>
  /\ \E e \in Answers : e.method = "probe" /\ Answer(e)
BootRefused ==
  /\ Takes("boot") /\ UNCHANGED <<session, accounts, handler>>
  /\ \E e \in Answers : e.method = "boot" /\ ~e.ok /\ Answer(e)
BootTaken ==
  /\ Takes("boot") /\ UNCHANGED <<toHost, session, accounts>>
  /\ \E d \in Docs : \E h \in Handlers : h.step \in {"opfs", "create"} /\ Handles(d, h)
Advances(d) ==
  /\ handler[d].step \notin {"none", "account"} /\ UNCHANGED <<toWeb, toHost>> /\ (session => session')
  /\ handler'[d].step \notin {"none", "account", "orphan"} /\ (HandlerAt(d, "info")' => session')
  /\ \A k \in Jobs \ {d} : handler[k].step # "account" => handler'[k] = handler[k]
Returns(d) ==
  /\ handler[d].step \notin {"none", "account"} /\ UNCHANGED <<toWeb, session, accounts>> /\ Handles(d, NoHandler)
  /\ \E e \in Answers : e.method = "boot" /\ (e.ok => HandlerAt(d, "info")) /\ Answer(e)
AccountRefused ==
  /\ ~session /\ UNCHANGED <<session, accounts, handler>>
  /\ \E method \in {"restore", "register"} :
       Takes(method) /\ \E e \in Answers : e.method = method /\ ~e.ok /\ Answer(e)
AccountTaken ==
  /\ UNCHANGED <<toHost, session, accounts>>
  /\ \E method \in {"restore", "register"} : Takes(method)
  /\ \E j \in Jobs : \E h \in Handlers : h.step = "account" /\ Handles(j, h)
Registers(j) ==
  /\ handler[j].step \in {"account", "orphan"} /\ UNCHANGED <<toWeb, session>> /\ accounts \subseteq accounts'
  /\ Handles(j, NoHandler)
  /\ \E e \in Answers : /\ e.method \in {"restore", "register"} /\ Answer(e)
                        /\ HandlerAt(j, "account") /\ e.ok => e.plain \in accounts'

LEMMA PageMoving ==
  ASSUME TypeOK, Carried, PageStep
  PROVE  \/ Probes \/ BootRefused \/ BootTaken \/ AccountRefused \/ AccountTaken
         \/ \E d \in Docs : Advances(d) \/ Returns(d)
         \/ \E j \in Jobs : Registers(j)
<1>p. RequestsOK /\ WebOK
  BY Parts
<1>h. HandlersOK /\ handler \in [Jobs -> Handlers]
  BY <1>p DEF WebOK, HandlersOK
<1>k. (\A j \in Jobs : handler[j].key \in Nat) /\ Docs \subseteq Jobs
  BY <1>h, JobSorts DEF Handlers
<1>m. ASSUME toWeb # <<>>
      PROVE  /\ Head(toWeb).job \in Jobs /\ Head(toWeb).plain \in Nat
             /\ Head(toWeb).method = "boot" => Head(toWeb).job \in Docs
  <2>1. Head(toWeb) \in Messages /\ Head(toWeb) = toWeb[1] /\ 1 \in 1..Len(toWeb)
    BY <1>m, <1>p, Taken DEF RequestsOK
  <2>2. Asked(Head(toWeb))
    BY <1>p, <2>1 DEF RequestsOK
  <2>3. QED
    BY <2>1, <2>2 DEF Messages, Asked
<1>r. ASSUME NEW j \in Jobs, NEW method \in CallSteps, NEW plain \in Nat, NEW ok \in BOOLEAN,
             Reply(j, method, plain, ok)
      PROVE  \E e \in Answers : e.method = method /\ e.plain = plain /\ e.ok = ok /\ Answer(e)
  <2>1. [type |-> "result", job |-> j, method |-> method, plain |-> plain, ok |-> ok] \in Answers
    BY DEF Answers
  <2>2. QED
    BY <1>r, <2>1 DEF Reply, Answer
<1>s. {"probe", "boot", "restore", "register"} \subseteq CallSteps
  BY DEF CallSteps
<1>1. CASE StorageProbe
  <2>1. Takes("probe") /\ UNCHANGED <<session, accounts, handler>>
    BY <1>1 DEF StorageProbe, Incoming, Takes, web
  <2>2. None \in Nat
    BY DEF None
  <2>3. \E e \in Answers : e.method = "probe" /\ Answer(e)
    BY <1>1, <1>m, <1>r, <1>s, <2>1, <2>2 DEF StorageProbe, Takes
  <2>4. QED
    BY <2>1, <2>3 DEF Probes
<1>2. CASE BootCalled
  <2>1. Takes("boot") /\ UNCHANGED <<session, accounts>>
    BY <1>2 DEF BootCalled, Incoming, Takes
  <2>2. PICK m : m = Head(toWeb)
    OBVIOUS
  <2>3. m.job \in Docs /\ m.job \in Jobs /\ m.plain \in Nat
    BY <1>m, <2>1, <2>2 DEF Takes
  <2>4. CASE session
    <3>1. Reply(m.job, "boot", m.plain, FALSE) /\ handler' = handler
      BY <1>2, <2>2, <2>4 DEF BootCalled
    <3>2. \E e \in Answers : e.method = "boot" /\ ~e.ok /\ Answer(e)
      BY <1>r, <1>s, <2>3, <3>1
    <3>3. QED
      BY <2>1, <3>1, <3>2 DEF BootRefused
  <2>5. CASE ~session
    <3>1. /\ Handles(m.job, [step |-> IF m.plain = None THEN "create" ELSE "opfs", key |-> m.plain])
          /\ toHost' = toHost
      BY <1>2, <2>2, <2>5 DEF BootCalled, Handles
    <3>2. PICK h : h = [step |-> IF m.plain = None THEN "create" ELSE "opfs", key |-> m.plain]
      OBVIOUS
    <3>3. h \in Handlers /\ h.step \in {"opfs", "create"}
      BY <2>3, <3>2 DEF Handlers, HandlerSteps
    <3>4. QED
      BY <2>1, <2>3, <3>1, <3>2, <3>3 DEF BootTaken
  <2>6. QED
    BY <2>4, <2>5
<1>3. ASSUME NEW d \in Docs, OpfsProbed(d) \/ StoreOpens(d) \/ StoreFallsBack(d)
      PROVE  Advances(d)
  <2>1. handler[d].step \in {"opfs", "open"} /\ UNCHANGED <<toWeb, toHost, session>>
    BY <1>3 DEF OpfsProbed, StoreOpens, StoreFallsBack, HandlerAt, channels
  <2>2. PICK step \in {"open", "create"} : handler' = [handler EXCEPT ![d].step = step]
    BY <1>3 DEF OpfsProbed, StoreOpens, StoreFallsBack
  <2>3. handler'[d].step = step /\ \A k \in Jobs \ {d} : handler'[k] = handler[k]
    BY <1>h, <1>k, <2>2, HandlerGoes DEF HandlerSteps
  <2>4. QED
    BY <2>1, <2>3 DEF Advances, HandlerAt
<1>4. ASSUME NEW d \in Docs, WalletCreated(d) PROVE Advances(d)
  BY <1>4, <1>h, WalletHandlers DEF WalletCreated, Advances, HandlerAt, channels
<1>5. ASSUME NEW d \in Docs, BootReturns(d) \/ BootThrows(d) PROVE Returns(d)
  <2>1. /\ handler[d].step \in {"create", "info"} /\ UNCHANGED <<toWeb, session, accounts>> /\ Handles(d, NoHandler)
        /\ \E ok \in BOOLEAN : Reply(d, "boot", handler[d].key, ok) /\ (ok => HandlerAt(d, "info"))
    BY <1>5 DEF BootReturns, BootThrows, HandlerAt, Handles
  <2>2. \E e \in Answers : e.method = "boot" /\ (e.ok => HandlerAt(d, "info")) /\ Answer(e)
    BY <1>k, <1>r, <1>s, <2>1, JobSorts
  <2>3. QED
    BY <2>1, <2>2 DEF Returns
<1>6. ASSUME NEW method \in {"restore", "register"}, AccountCalled(method) PROVE AccountRefused \/ AccountTaken
  <2>1. Takes(method) /\ UNCHANGED <<session, accounts>> /\ method \in CallSteps
    BY <1>6, <1>s DEF AccountCalled, Incoming, Takes
  <2>2. PICK m : m = Head(toWeb)
    OBVIOUS
  <2>3. m.job \in Jobs /\ m.plain \in Nat
    BY <1>m, <2>1, <2>2 DEF Takes
  <2>4. CASE session
    <3> DEFINE h == [step |-> "account", key |-> m.plain]
    <3>1. Handles(m.job, h) /\ toHost' = toHost
      BY <1>6, <2>2, <2>4 DEF AccountCalled, RequireSession, Handles
    <3>2. h \in Handlers /\ h.step = "account"
      BY <2>3 DEF Handlers, HandlerSteps
    <3> HIDE DEF h
    <3>3. QED
      BY <2>1, <2>3, <3>1, <3>2 DEF AccountTaken
  <2>5. CASE ~session
    <3>1. Reply(m.job, method, m.plain, FALSE) /\ handler' = handler
      BY <1>6, <2>2, <2>5 DEF AccountCalled, RequireSession
    <3>2. \E e \in Answers : e.method = method /\ ~e.ok /\ Answer(e)
      BY <1>r, <2>1, <2>3, <3>1
    <3>3. QED
      BY <2>1, <2>5, <3>1, <3>2 DEF AccountRefused
  <2>6. QED
    BY <2>4, <2>5
<1>7. ASSUME NEW j \in Jobs, AccountCreated(j) \/ AccountFails(j) PROVE Registers(j)
  <2>1. /\ handler[j].step \in {"account", "orphan"} /\ UNCHANGED <<toWeb, session>> /\ Handles(j, NoHandler)
        /\ accounts \subseteq accounts'
    BY <1>7 DEF AccountCreated, AccountFails, Handles
  <2>2. PICK method \in {"restore", "register"}, ok \in BOOLEAN :
          /\ Reply(j, method, handler[j].key, ok)
          /\ HandlerAt(j, "account") /\ ok => handler[j].key \in accounts'
    BY <1>7 DEF AccountCreated, AccountFails, AccountReply
  <2>3. method \in CallSteps
    BY <1>s
  <2>4. PICK e \in Answers : e.method = method /\ e.plain = handler[j].key /\ e.ok = ok /\ Answer(e)
    BY <1>k, <1>r, <2>2, <2>3
  <2>5. QED
    BY <2>1, <2>2, <2>4 DEF Registers
<1>8. QED
  BY <1>1, <1>2, <1>3, <1>4, <1>5, <1>6, <1>7 DEF PageStep


-------------------------------------------------------------------------------
(* The stages of a document. *)

\* React Native takes an event.
LEMMA StageTaken ==
  ASSUME toHost \in Seq(Events), toHost # <<>>, toHost' = Tail(toHost),
         UNCHANGED <<toWeb, session, accounts, handler>>
  PROVE  /\ Untouched => Untouched'
         /\ Opening => Opening'
         /\ Opened => Opened'
<1>1. \A i \in 1..Len(toHost') :
        \E k \in 1..Len(toHost) : toHost'[i] = toHost[k] /\ (Last(toHost', i) => Last(toHost, k))
  BY EventTaken
<1>2. /\ \A set : Results(set) => Results(set)'
      /\ \A set : Requests(set) => Requests(set)'
      /\ NoneHandled' = NoneHandled
      /\ \A j \in Jobs : handler'[j] = handler[j]
  BY <1>1 DEF Results, Requests, NoneHandled, Handling, HandlerAt
<1>3. Untouched => Untouched'
  BY <1>2 DEF Untouched
<1>4. Opening => Opening'
  BY <1>1, <1>2 DEF Opening, Handling, HandlerAt
<1>5. Opened => Opened'
  BY <1>1, <1>2 DEF Opened
<1>6. QED
  BY <1>3, <1>4, <1>5

\* React Native posts a request.
LEMMA StageAsked ==
  ASSUME toWeb \in Seq(Messages), NEW m \in Messages, toWeb' = Append(toWeb, m),
         UNCHANGED <<session, accounts, handler>>
  PROVE  /\ m.method = "probe" /\ Untouched =>
              NoneHandled' /\ Requests({"probe"})'
         /\ m.method = "boot" /\ toHost' = toHost /\ toHost \in Seq(Events) /\ ~Notices(toHost) /\ Untouched =>
              Opening'
         /\ m.method \in {"restore", "register"} /\ toHost' = toHost /\ Opened => Opened'
<1>1. \A i \in 1..Len(toWeb') : \/ i \in 1..Len(toWeb) /\ toWeb'[i] = toWeb[i]
                                \/ i = Len(toWeb) + 1 /\ toWeb'[i] = m
  BY Appended
<1>2. NoneHandled' = NoneHandled /\ \A j \in Jobs : handler'[j] = handler[j]
  BY DEF NoneHandled, Handling, HandlerAt
<1>3. ASSUME m.method = "probe", Untouched PROVE NoneHandled' /\ Requests({"probe"})'
  BY <1>1, <1>2, <1>3 DEF Untouched, Requests
<1>4. ASSUME m.method = "boot", toHost' = toHost, toHost \in Seq(Events), ~Notices(toHost), Untouched
      PROVE  Opening'
  <2>1. Requests({"probe", "boot"})'
    BY <1>1, <1>4 DEF Untouched, Requests
  <2>2. \A i, k \in 1..Len(toWeb') : toWeb'[i].method = "boot" /\ toWeb'[k].method = "boot" => i = k
    <3>1. \A i \in 1..Len(toWeb) : toWeb[i].method # "boot"
      BY <1>4 DEF Untouched, Requests
    <3>2. QED
      BY <1>1, <3>1
  <2>3. \A i \in 1..Len(toHost) : toHost[i].type = "result" => toHost[i].method = "probe"
    <3>1. \A i \in 1..Len(toHost) : Last(toHost, i)
      BY <1>4, AllAnswers
    <3>2. QED
      BY <1>4, <3>1 DEF Untouched, Results
  <2>4. \A j \in Jobs : ~Handling(j) /\ ~Handling(j)'
    BY <1>2, <1>4 DEF Untouched, NoneHandled, Handling, HandlerAt
  <2>5. Results({"probe", "boot"})'
    BY <1>4, <2>3 DEF Results
  <2>6. \A i \in 1..Len(toHost') : ~(toHost'[i].type = "result" /\ toHost'[i].method = "boot")
    BY <1>4, <2>3
  <2>7. \A j \in Jobs : ~HandlerAt(j, "info")' /\ handler'[j].step \notin {"account", "orphan"}
    BY <2>4 DEF Handling, HandlerAt
  <2>8. QED
    BY <2>1, <2>2, <2>4, <2>5, <2>6, <2>7, JobSorts DEF Opening
<1>5. ASSUME m.method \in {"restore", "register"}, toHost' = toHost, Opened PROVE Opened'
  <2>1. Requests({"probe", "restore", "register"})'
    BY <1>1, <1>5 DEF Opened, Requests
  <2>2. QED
    BY <1>2, <1>5, <2>1 DEF Opened
<1>6. QED
  BY <1>3, <1>4, <1>5

\* What the queues become as the document takes a request and answers it.
LEMMA PageTakes ==
  ASSUME TypeOK, NEW method, Takes(method)
  PROVE  /\ 1 \in 1..Len(toWeb) /\ toWeb[1].method = method
         /\ \A i \in 1..Len(toWeb') : i + 1 \in 1..Len(toWeb) /\ toWeb'[i] = toWeb[i + 1]
<1>1. toWeb \in Seq(Messages)
  BY QueueTypes
<1>2. QED
  BY <1>1, Taken DEF Takes

LEMMA PagePosts ==
  ASSUME TypeOK, NEW e \in Answers, Answer(e)
  PROVE  /\ \A i \in 1..Len(toHost') :
              \/ i \in 1..Len(toHost) /\ toHost'[i] = toHost[i] /\ (Last(toHost', i) <=> Last(toHost, i))
              \/ toHost'[i] = e
         /\ e.type = "result"
<1>1. toHost \in Seq(Events)
  BY QueueTypes
<1>2. QED
  BY <1>1, AnswerAppended DEF Answer, Answers

LEMMA PageHandles ==
  ASSUME TypeOK, NEW j \in Jobs, NEW h \in Handlers, Handles(j, h)
  PROVE  handler'[j] = h /\ \A k \in Jobs \ {j} : handler'[k] = handler[k]
<1>1. handler \in [Jobs -> Handlers]
  BY DEF TypeOK, Handlers, HandlerSteps
<1>2. QED
  BY <1>1, HandlerSet DEF Handles

\* A document that no job has called answers probes.
LEMMA UntouchedPage ==
  ASSUME TypeOK, Carried, PageStep, Untouched
  PROVE  Untouched' /\ session' = session /\ accounts' = accounts
<1>1. \A i \in 1..Len(toWeb) : toWeb[i].method = "probe"
  BY DEF Untouched, Requests
<1>2. ASSUME NEW method, method # "probe" PROVE ~Takes(method)
  BY <1>1, <1>2, PageTakes
<1>3. Probes
  <2>1. \A j \in Jobs : handler[j].step = "none"
    BY DEF Untouched, NoneHandled, Handling, HandlerAt
  <2>2. ~BootRefused /\ ~BootTaken /\ ~AccountRefused /\ ~AccountTaken
    BY <1>2 DEF BootRefused, BootTaken, AccountRefused, AccountTaken
  <2>3. (\A d \in Docs : ~Advances(d) /\ ~Returns(d)) /\ \A j \in Jobs : ~Registers(j)
    BY <2>1, JobSorts DEF Advances, Returns, Registers
  <2>4. QED
    BY <2>2, <2>3, PageMoving
<1>4. Takes("probe") /\ UNCHANGED <<session, accounts, handler>>
  BY <1>3 DEF Probes
<1>5. PICK e \in Answers : e.method = "probe" /\ Answer(e)
  BY <1>3 DEF Probes
<1>6. Requests({"probe"})'
  BY <1>1, <1>4, PageTakes DEF Requests
<1>7. Results({"probe"})'
  BY <1>5, PagePosts DEF Untouched, Results
<1>8. NoneHandled'
  BY <1>4 DEF Untouched, NoneHandled, Handling, HandlerAt
<1>9. QED
  BY <1>4, <1>6, <1>7, <1>8 DEF Untouched


\* A document asked to boot goes through its boot.
LEMMA OpeningPage ==
  ASSUME TypeOK, Carried, PageStep, Opening
  PROVE  Opening'
<1>o. /\ \A i \in 1..Len(toWeb) : toWeb[i].method \in {"probe", "boot"}
      /\ Results({"probe", "boot"})
      /\ \A j, k \in Jobs : Handling(j) /\ Handling(k) => j = k
      /\ (\E j \in Jobs : Handling(j)) => \A i \in 1..Len(toWeb) : toWeb[i].method = "probe"
      /\ \A i, k \in 1..Len(toWeb) : toWeb[i].method = "boot" /\ toWeb[k].method = "boot" => i = k
      /\ \A i \in 1..Len(toHost) : toHost[i].type = "result" /\ toHost[i].method = "boot" =>
           /\ \A j \in Jobs : ~Handling(j)
           /\ \A k \in 1..Len(toWeb) : toWeb[k].method = "probe"
           /\ toHost[i].ok => session
      /\ \A d \in Docs : HandlerAt(d, "info") => session
      /\ \A j \in Jobs : handler[j].step \notin {"account", "orphan"}
  BY DEF Opening, Requests, NoneHandled
<1>w. ASSUME /\ \A i \in 1..Len(toWeb') : toWeb'[i].method \in {"probe", "boot"}
             /\ Results({"probe", "boot"})'
             /\ \A j, k \in Jobs : Handling(j)' /\ Handling(k)' => j = k
             /\ (\E j \in Jobs : Handling(j)') => \A i \in 1..Len(toWeb') : toWeb'[i].method = "probe"
             /\ \A i, k \in 1..Len(toWeb') : toWeb'[i].method = "boot" /\ toWeb'[k].method = "boot" => i = k
             /\ \A i \in 1..Len(toHost') : toHost'[i].type = "result" /\ toHost'[i].method = "boot" =>
                  /\ \A j \in Jobs : ~Handling(j)'
                  /\ \A k \in 1..Len(toWeb') : toWeb'[k].method = "probe"
                  /\ toHost'[i].ok => session'
             /\ \A d \in Docs : HandlerAt(d, "info")' => session'
             /\ \A j \in Jobs : handler'[j].step \notin {"account", "orphan"}
      PROVE  Opening'
  BY <1>w DEF Opening, Requests, NoneHandled
<1>r. ASSUME NEW e \in Answers, e.method \in {"probe", "boot"}, Answer(e)
      PROVE  Results({"probe", "boot"})'
  BY <1>o, <1>r, PagePosts DEF Results
<1>1. CASE Probes
  <2>1. Takes("probe") /\ UNCHANGED <<session, handler>>
    BY <1>1 DEF Probes
  <2>2. PICK e \in Answers : e.method = "probe" /\ Answer(e)
    BY <1>1 DEF Probes
  <2>3. \A i \in 1..Len(toWeb') : i + 1 \in 1..Len(toWeb) /\ toWeb'[i] = toWeb[i + 1]
    BY <2>1, PageTakes
  <2>4. \A i \in 1..Len(toHost') : toHost'[i].method = "boot" => i \in 1..Len(toHost) /\ toHost'[i] = toHost[i]
    BY <2>2, PagePosts
  <2>5. \A j \in Jobs : /\ Handling(j)' = Handling(j) /\ HandlerAt(j, "info")' = HandlerAt(j, "info")
                        /\ handler'[j] = handler[j]
    BY <2>1 DEF Handling, HandlerAt
  <2>6. Results({"probe", "boot"})'
    BY <1>r, <2>2
  <2>7. \A i, k \in 1..Len(toWeb') : toWeb'[i].method = "boot" /\ toWeb'[k].method = "boot" => i = k
    <3> SUFFICES ASSUME NEW i \in 1..Len(toWeb'), NEW k \in 1..Len(toWeb'),
                        toWeb'[i].method = "boot", toWeb'[k].method = "boot"
                 PROVE  i = k
      OBVIOUS
    <3>1. i + 1 = k + 1
      BY <1>o, <2>3
    <3>2. QED
      BY <3>1
  <2>8. \A i \in 1..Len(toHost') : toHost'[i].type = "result" /\ toHost'[i].method = "boot" =>
            /\ \A j \in Jobs : ~Handling(j)'
            /\ \A k \in 1..Len(toWeb') : toWeb'[k].method = "probe"
            /\ toHost'[i].ok => session'
    BY <1>o, <2>1, <2>3, <2>4, <2>5
  <2>9. QED
    BY <1>o, <1>w, <2>1, <2>3, <2>5, <2>6, <2>7, <2>8, JobSorts
<1>2. ASSUME Takes("boot")
      PROVE  /\ \A j \in Jobs : ~Handling(j)
             /\ \A i \in 1..Len(toHost) : ~(toHost[i].type = "result" /\ toHost[i].method = "boot")
             /\ \A i \in 1..Len(toWeb') : toWeb'[i].method = "probe"
  <2>1. /\ 1 \in 1..Len(toWeb) /\ toWeb[1].method = "boot"
        /\ \A i \in 1..Len(toWeb') : i + 1 \in 1..Len(toWeb) /\ toWeb'[i] = toWeb[i + 1]
    BY <1>2, PageTakes
  <2>2. \A i \in 1..Len(toWeb') : toWeb'[i].method # "boot"
    <3>1. \A i \in 1..Len(toWeb') : i + 1 # 1
      OBVIOUS
    <3>2. QED
      BY <1>o, <2>1, <3>1
  <2>3. QED
    BY <1>o, <2>1, <2>2
<1>3. CASE BootRefused
  <2>1. Takes("boot") /\ UNCHANGED <<session, handler>>
    BY <1>3 DEF BootRefused
  <2>2. PICK e \in Answers : e.method = "boot" /\ ~e.ok /\ Answer(e)
    BY <1>3 DEF BootRefused
  <2>3. \A i \in 1..Len(toHost') : toHost'[i].type = "result" /\ toHost'[i].method = "boot" => ~toHost'[i].ok
    BY <1>2, <2>1, <2>2, PagePosts
  <2>4. \A j \in Jobs : /\ ~Handling(j)' /\ ~HandlerAt(j, "info")'
                        /\ handler'[j].step \notin {"account", "orphan"}
    BY <1>2, <2>1 DEF Handling, HandlerAt
  <2>5. Results({"probe", "boot"})'
    BY <1>r, <2>2
  <2>6. QED
    BY <1>2, <1>w, <2>1, <2>3, <2>4, <2>5, JobSorts
<1>4. CASE BootTaken
  <2>1. Takes("boot") /\ UNCHANGED <<toHost, session>>
    BY <1>4 DEF BootTaken
  <2>2. PICK d \in Docs, h \in Handlers : h.step \in {"opfs", "create"} /\ Handles(d, h)
    BY <1>4 DEF BootTaken
  <2>3. d \in Jobs /\ handler'[d] = h /\ \A c \in Jobs \ {d} : handler'[c] = handler[c]
    BY <2>2, PageHandles, JobSorts
  <2>4. \A c \in Jobs : /\ Handling(c)' => c = d
                        /\ ~HandlerAt(c, "info")' /\ handler'[c].step \notin {"account", "orphan"}
    BY <1>2, <2>1, <2>2, <2>3 DEF Handling, HandlerAt
  <2>5. Results({"probe", "boot"})'
    BY <1>o, <2>1 DEF Results, Last
  <2>6. \A i \in 1..Len(toHost') : ~(toHost'[i].type = "result" /\ toHost'[i].method = "boot")
    BY <1>2, <2>1
  <2>7. QED
    BY <1>2, <1>w, <2>1, <2>4, <2>5, <2>6, JobSorts
<1>5. ASSUME NEW d \in Docs, Advances(d) PROVE Opening'
  <2>1. Handling(d) /\ d \in Jobs /\ UNCHANGED <<toWeb, toHost>> /\ (session => session')
    BY <1>5, JobSorts DEF Advances, Handling, HandlerAt
  <2>3. /\ handler'[d].step \notin {"none", "account", "orphan"} /\ (HandlerAt(d, "info")' => session')
        /\ \A c \in Jobs \ {d} : handler'[c] = handler[c]
    BY <1>5, <1>o DEF Advances
  <2>4. \A c \in Jobs \ {d} : ~Handling(c)
    BY <1>o, <2>1
  <2>5. \A c \in Jobs \ {d} : /\ ~Handling(c)' /\ ~HandlerAt(c, "info")'
                              /\ handler'[c].step \notin {"account", "orphan"}
    BY <2>3, <2>4 DEF Handling, HandlerAt
  <2>7. Results({"probe", "boot"})'
    BY <1>o, <2>1 DEF Results, Last
  <2>8. \A i \in 1..Len(toHost') : ~(toHost'[i].type = "result" /\ toHost'[i].method = "boot")
    BY <1>o, <2>1
  <2>9. QED
    BY <1>o, <1>w, <2>1, <2>3, <2>5, <2>7, <2>8, JobSorts
<1>6. ASSUME NEW d \in Docs, Returns(d) PROVE Opening'
  <2>1. Handling(d) /\ d \in Jobs /\ UNCHANGED <<toWeb, session>> /\ Handles(d, NoHandler)
    BY <1>6, JobSorts DEF Returns, Handling, HandlerAt
  <2>2. PICK e \in Answers : e.method = "boot" /\ (e.ok => HandlerAt(d, "info")) /\ Answer(e)
    BY <1>6 DEF Returns
  <2>3. handler'[d] = NoHandler /\ \A c \in Jobs \ {d} : handler'[c] = handler[c]
    BY <2>1, HandlerNone, PageHandles
  <2>4. \A c \in Jobs \ {d} : ~Handling(c)
    BY <1>o, <2>1
  <2>5. \A c \in Jobs : /\ ~Handling(c)' /\ ~HandlerAt(c, "info")'
                        /\ handler'[c].step \notin {"account", "orphan"}
    BY <2>3, <2>4 DEF Handling, HandlerAt, NoHandler
  <2>6. \A i \in 1..Len(toWeb') : toWeb'[i].method = "probe"
    BY <1>o, <2>1
  <2>7. \A i \in 1..Len(toHost') : toHost'[i].type = "result" /\ toHost'[i].method = "boot" /\ toHost'[i].ok => session'
    BY <1>o, <2>1, <2>2, PagePosts
  <2>8. Results({"probe", "boot"})'
    BY <1>r, <2>2
  <2>9. QED
    BY <1>w, <2>5, <2>6, <2>7, <2>8, JobSorts
<1>7. ~AccountRefused /\ ~AccountTaken /\ \A j \in Jobs : ~Registers(j)
  <2>1. \A i \in 1..Len(toWeb) : toWeb[i].method \notin {"restore", "register"}
    BY <1>o
  <2>2. \A method \in {"restore", "register"} : ~Takes(method)
    BY <2>1, PageTakes
  <2>3. QED
    BY <1>o, <2>2 DEF AccountRefused, AccountTaken, Registers
<1>8. QED
  BY <1>1, <1>3, <1>4, <1>5, <1>6, <1>7, PageMoving

\* A booted document keeps its session, and forgets no account.
LEMMA OpenedPage ==
  ASSUME TypeOK, Carried, PageStep, Opened
  PROVE  Opened' /\ accounts \subseteq accounts'
<1>o. /\ session /\ \A j \in Jobs : handler[j].step \in {"none", "account"}
      /\ \A i \in 1..Len(toWeb) : toWeb[i].method \in {"probe", "restore", "register"}
      /\ \A i \in 1..Len(toHost) :
           toHost[i].type = "result" /\ toHost[i].method \in {"restore", "register"} /\ toHost[i].ok =>
             toHost[i].plain \in accounts
  BY DEF Opened, Requests
<1>1. ~AccountRefused /\ \A d \in Docs : ~Advances(d) /\ ~Returns(d)
  BY <1>o, JobSorts DEF AccountRefused, Advances, Returns
<1>2. ~Takes("boot")
  <2>1. \A i \in 1..Len(toWeb) : toWeb[i].method # "boot"
    BY <1>o
  <2>2. QED
    BY <2>1, PageTakes
<1>3. \A method : Takes(method) => \A i \in 1..Len(toWeb') : toWeb'[i].method \in {"probe", "restore", "register"}
  BY <1>o, PageTakes
<1>4. CASE Probes
  <2>1. Takes("probe") /\ UNCHANGED <<session, accounts, handler>>
    BY <1>4 DEF Probes
  <2>2. PICK e \in Answers : e.method = "probe" /\ Answer(e)
    BY <1>4 DEF Probes
  <2>3. \A i \in 1..Len(toHost') :
           toHost'[i].type = "result" /\ toHost'[i].method \in {"restore", "register"} /\ toHost'[i].ok =>
             toHost'[i].plain \in accounts'
    BY <1>o, <2>1, <2>2, PagePosts
  <2>4. QED
    BY <1>3, <1>o, <2>1, <2>3 DEF Opened, Requests
<1>5. CASE AccountTaken
  <2>1. UNCHANGED <<toHost, session, accounts>> /\ \E method : Takes(method)
    BY <1>5 DEF AccountTaken
  <2>2. PICK j \in Jobs, h \in Handlers : h.step = "account" /\ Handles(j, h)
    BY <1>5 DEF AccountTaken
  <2>3. \A k \in Jobs : handler'[k].step \in {"none", "account"}
    BY <1>o, <2>2, PageHandles
  <2>4. QED
    BY <1>3, <1>o, <2>1, <2>3 DEF Opened, Requests
<1>7. ASSUME NEW j \in Jobs, Registers(j) PROVE Opened' /\ accounts \subseteq accounts'
  <2>1. UNCHANGED <<toWeb, session>> /\ accounts \subseteq accounts' /\ Handles(j, NoHandler) /\ HandlerAt(j, "account")
    BY <1>7, <1>o DEF Registers, HandlerAt
  <2>2. PICK e \in Answers : Answer(e) /\ (e.ok => e.plain \in accounts')
    BY <1>7, <2>1 DEF Registers
  <2>3. \A i \in 1..Len(toHost') :
           toHost'[i].type = "result" /\ toHost'[i].method \in {"restore", "register"} /\ toHost'[i].ok =>
             toHost'[i].plain \in accounts'
    BY <1>o, <2>1, <2>2, PagePosts
  <2>4. \A k \in Jobs : handler'[k].step \in {"none", "account"}
    BY <1>o, <2>1, PageHandles, HandlerNone DEF NoHandler
  <2>5. QED
    BY <1>o, <2>1, <2>3, <2>4 DEF Opened, Requests
<1>6. QED
  <2>1. ~BootRefused /\ ~BootTaken
    BY <1>2 DEF BootRefused, BootTaken
  <2>2. CASE Probes \/ AccountTaken
    BY <1>4, <1>5, <2>2 DEF Probes, AccountTaken
  <2>3. QED
    BY <1>1, <1>7, <2>1, <2>2, PageMoving


-------------------------------------------------------------------------------
(* Of the keys. *)

\* Where another job is under way, this one is not.
LEMMA Alone ==
  ASSUME Solo, NEW j \in Jobs, Active(j), NEW k \in Jobs \ {j}
  PROVE  job[k].step = "none"
  BY DEF Solo, Active

\* A request posted is the newest.
LEMMA Asking ==
  ASSUME TypeOK, NEW j \in Jobs, NEW method \in CallSteps, NEW plain \in Nat,
         Post([job |-> j, method |-> method, plain |-> plain])
  PROVE  /\ \A i \in 1..Len(toWeb') : \/ i \in 1..Len(toWeb) /\ toWeb'[i] = toWeb[i]
                                      \/ toWeb'[i].method = method /\ toWeb'[i].plain = plain
         /\ [job |-> j, method |-> method, plain |-> plain] \in Messages
         /\ page = "live" => toWeb' = Append(toWeb, [job |-> j, method |-> method, plain |-> plain])
<1> DEFINE m == [job |-> j, method |-> method, plain |-> plain]
<1>1. toWeb \in Seq(Messages) /\ m \in Messages /\ m.method = method /\ m.plain = plain
  BY QueueTypes DEF Messages
<1> HIDE DEF m
<1>2. toWeb' = toWeb \/ toWeb' = Append(toWeb, m)
  BY DEF Post, m
<1>3. \A i \in 1..Len(toWeb') : (i \in 1..Len(toWeb) /\ toWeb'[i] = toWeb[i]) \/ toWeb'[i] = m
  BY <1>1, <1>2, Appended
<1>4. QED
  BY <1>1, <1>3 DEF Post, m

\* Every job is where it was, or at a step that promises nothing of the keys.
Uncommitted == {"none", "probe", "srs", "key", "boot", "vault", "absent", "open", "restore"}
NoNewKeys ==
  /\ UNCHANGED disk
  /\ \A j \in Jobs : \/ job'[j] = job[j]
                     \/ job'[j].step \in Uncommitted
                     \/ j \in Onboardings /\ job'[j].step = "seal"
                     \/ j \in Onboardings /\ At(j, "register") /\ job'[j].step = "save"
  /\ \A i \in 1..Len(toWeb') : \/ i \in 1..Len(toWeb) /\ toWeb'[i] = toWeb[i]
                               \/ toWeb'[i].method # "boot"
                               \/ toWeb'[i].plain \in {None, diskKey.plain}
  /\ \A d \in Docs : handler'[d] = handler[d] \/ handler'[d].step \notin {"opfs", "open"}

LEMMA KeysKept ==
  ASSUME KeysInOrder, NoNewKeys
  PROVE  KeysInOrder'
<1>d. UNCHANGED <<keystore, diskKey, diskVault, store>>
  BY DEF NoNewKeys, disk
<1>j. \A j \in Jobs : \/ job'[j] = job[j]
                      \/ job'[j].step \in Uncommitted
                      \/ j \in Onboardings /\ job'[j].step = "seal"
                      \/ j \in Onboardings /\ At(j, "register") /\ job'[j].step = "save"
  BY DEF NoNewKeys
<1>1. (\A blob \in {diskKey, diskVault} \ {NoBlob} : blob.under = keystore /\ keystore # None)'
  BY <1>d DEF KeysInOrder
<1>2. (\A j \in Jobs : At(j, "generate") => keystore = None)'
  BY <1>d, <1>j DEF KeysInOrder, At, Uncommitted
<1>3. (\A j \in Jobs : At(j, "write") => job[j].under = keystore /\ keystore # None)'
  BY <1>d, <1>j DEF KeysInOrder, At, Uncommitted
<1>4. (\A d \in Docs : job[d].step \in {"seal", "generate", "write"} => diskKey = NoBlob)'
  BY <1>d, <1>j, JobSorts DEF KeysInOrder, Uncommitted
<1>5. (\A d \in Docs : At(d, "unseal") => job[d].plain = diskKey.plain)'
  BY <1>d, <1>j, JobSorts DEF KeysInOrder, At, Uncommitted
<1>6. (\A f \in Onboardings : job[f].step \in {"register", "save"} => keystore # None)'
  BY <1>d, <1>j, JobSorts DEF KeysInOrder, At, Uncommitted
<1>7. (\A i \in 1..Len(toWeb) : toWeb[i].method = "boot" => toWeb[i].plain \in {None, diskKey.plain})'
  BY <1>d DEF KeysInOrder, NoNewKeys
<1>8. (\A d \in Docs : handler[d].step \in {"opfs", "open"} =>
        handler[d].key # None /\ handler[d].key = diskKey.plain)'
  BY <1>d DEF KeysInOrder, NoNewKeys
<1>9. (store # None => diskKey.plain = store)'
  BY <1>d DEF KeysInOrder
<1>10. QED
  BY <1>1, <1>2, <1>3, <1>4, <1>5, <1>6, <1>7, <1>8, <1>9 DEF KeysInOrder


\* The step of a continuation keeps the keys in order.
LEMMA KeysMove ==
  ASSUME Settled, Solo, KeysInOrder, NEW j \in Jobs, JobStep(j), ~stale'
  PROVE  KeysInOrder'
<1>p. /\ JobsOK /\ DiskOK /\ TypeOK
      /\ job[j] \in JobRecords
  BY Parts DEF Settled, JobsOK
<1>a. Active(j) /\ ~crashed
  BY JobActive DEF Solo
<1>k. \A k \in Jobs \ {j} : job[k].step = "none"
  BY <1>a, Alone
<1>m. JobMoves(j)
  BY <1>a, <1>p, Moving
<1>o. \A k \in Jobs \ {j} : job'[k] = job[k]
  BY <1>m, <1>p, MoveFrame
<1>h. handler' = handler
  BY JobFrame DEF web
<1>r. ASSUME NEW r, Sets(j, r) PROVE job'[j] = r
  BY <1>p, <1>r DEF Sets, JobsOK
<1>n. /\ Idle.step = "none"
      /\ \A step, plain, under : /\ Record(step, plain, under).step = step
                                 /\ Record(step, plain, under).plain = plain
                                 /\ Record(step, plain, under).under = under
  BY DEF Idle, Record
<1>b. NoBlob.plain = None /\ None \in Nat
  BY DEF NoBlob, None
<1>K. /\ \A blob \in {diskKey, diskVault} \ {NoBlob} : blob.under = keystore /\ keystore # None
      /\ At(j, "generate") => keystore = None
      /\ At(j, "write") => job[j].under = keystore /\ keystore # None
      /\ j \in Docs => (job[j].step \in {"seal", "generate", "write"} => diskKey = NoBlob)
      /\ j \in Docs => (At(j, "unseal") => job[j].plain = diskKey.plain)
      /\ j \in Onboardings => (job[j].step \in {"register", "save"} => keystore # None)
      /\ \A i \in 1..Len(toWeb) : toWeb[i].method = "boot" => toWeb[i].plain \in {None, diskKey.plain}
      /\ \A d \in Docs : handler[d].step \in {"opfs", "open"} =>
           handler[d].key # None /\ handler[d].key = diskKey.plain
      /\ store # None => diskKey.plain = store
  BY DEF KeysInOrder
\* What is left to show, where every other job is idle.
<1>w. ASSUME /\ \A blob \in {diskKey', diskVault'} \ {NoBlob} : blob.under = keystore' /\ keystore' # None
             /\ job'[j].step = "generate" => keystore' = None
             /\ job'[j].step = "write" => job'[j].under = keystore' /\ keystore' # None
             /\ j \in Docs => (job'[j].step \in {"seal", "generate", "write"} => diskKey' = NoBlob)
             /\ j \in Docs => (job'[j].step = "unseal" => job'[j].plain = diskKey'.plain)
             /\ j \in Onboardings => (job'[j].step \in {"register", "save"} => keystore' # None)
             /\ \A i \in 1..Len(toWeb') : toWeb'[i].method = "boot" => toWeb'[i].plain \in {None, diskKey'.plain}
             /\ \A d \in Docs : handler[d].step \in {"opfs", "open"} =>
                  handler[d].key # None /\ handler[d].key = diskKey'.plain
             /\ store' # None => diskKey'.plain = store'
      PROVE  KeysInOrder'
  <2>1. \A k \in Jobs \ {j} : job'[k].step = "none"
    BY <1>k, <1>o
  <2>2. \A f \in Onboardings : f # j => job'[f].step = "none"
    BY <2>1, JobSorts
  <2>3. \A d \in Docs : d # j => job'[d].step = "none"
    BY <2>1, JobSorts
  <2>4. \A k \in Jobs : /\ job'[k].step = "generate" => keystore' = None
                        /\ job'[k].step = "write" => job'[k].under = keystore' /\ keystore' # None
    BY <1>w, <2>1
  <2>5. \A d \in Docs : /\ job'[d].step \in {"seal", "generate", "write"} => diskKey' = NoBlob
                        /\ job'[d].step = "unseal" => job'[d].plain = diskKey'.plain
    BY <1>w, <2>3
  <2>6. \A f \in Onboardings : job'[f].step \in {"register", "save"} => keystore' # None
    BY <1>w, <2>2
  <2>7. QED
    BY <1>h, <1>w, <2>4, <2>5, <2>6 DEF KeysInOrder, At
<1>u. ASSUME UNCHANGED <<disk, toWeb>>, NEW r, Sets(j, r),
             /\ r.step = "generate" => keystore = None
             /\ r.step = "write" => r.under = keystore /\ keystore # None
             /\ j \in Docs => (r.step \in {"seal", "generate", "write"} => diskKey = NoBlob)
             /\ j \in Docs => (r.step = "unseal" => r.plain = diskKey.plain)
             /\ j \in Onboardings => r.step \notin {"register", "save"}
      PROVE  KeysInOrder'
  <2>1. job'[j] = r
    BY <1>r, <1>u
  <2>2. UNCHANGED <<keystore, diskKey, diskVault, store, toWeb>>
    BY <1>u DEF disk
  <2>3. QED
    BY <1>K, <1>u, <1>w, <2>1, <2>2
<1>1. CASE Drops(j)
  BY <1>1, <1>n, <1>u DEF Drops
<1>2. CASE j \in Docs /\ Proceeds(j)
  BY <1>2, <1>n, <1>u, JobSorts DEF Proceeds
<1>3. CASE j \in Docs /\ ReadsKey(j)
  <2>1. UNCHANGED <<disk, toWeb>>
    BY <1>3 DEF ReadsKey
  <2>2. \/ diskKey = NoBlob /\ Sets(j, Record("seal", j, None))
        \/ diskKey # NoBlob /\ Sets(j, Record("unseal", diskKey.plain, diskKey.under))
    BY <1>3 DEF ReadsKey
  <2>3. QED
    BY <1>3, <1>n, <1>u, <2>1, <2>2, JobSorts
<1>4. CASE Looks(j)
  <2>1. UNCHANGED <<disk, toWeb>> /\ At(j, "seal")
    BY <1>4 DEF Looks
  <2>2. \/ keystore = None /\ Sets(j, Record("generate", job[j].plain, job[j].under))
        \/ keystore # None /\ Sets(j, Record("write", job[j].plain, keystore))
    BY <1>4 DEF Looks
  <2>3. j \in Docs => diskKey = NoBlob
    BY <1>K, <2>1 DEF At
  <2>4. QED
    BY <1>n, <1>u, <2>1, <2>2, <2>3
<1>5. CASE Generates(j)
  <2>1. /\ At(j, "generate") /\ keystore' = keystore + 1
        /\ Sets(j, Record("write", job[j].plain, keystore'))
        /\ UNCHANGED <<toWeb, diskKey, diskVault, store>>
    BY <1>5 DEF Generates
  <2>2. job'[j].step = "write" /\ job'[j].under = keystore'
    BY <1>n, <1>r, <2>1
  <2>3. keystore = None /\ keystore' # None
    BY <1>K, <2>1 DEF None
  <2>4. diskKey = NoBlob /\ diskVault = NoBlob
    BY <1>K, <2>3
  <2>5. QED
    BY <1>K, <1>w, <2>1, <2>2, <2>3, <2>4
<1>6. CASE j \in Docs /\ AsksBoot(j)
  <2>1. j \notin Onboardings /\ UNCHANGED <<keystore, diskVault, store>>
    BY <1>6, JobSorts DEF AsksBoot
  <2>2. ASSUME NEW plain \in Nat, Asks(j, "boot", plain)
        PROVE  /\ job'[j].step = "boot"
               /\ \A i \in 1..Len(toWeb') : toWeb'[i].method = "boot" =>
                    toWeb'[i].plain = plain \/ toWeb'[i].plain \in {None, diskKey.plain}
    <3>1. job'[j].step = "boot"
      BY <1>n, <1>r, <2>2 DEF Asks
    <3>2. \A i \in 1..Len(toWeb') : \/ i \in 1..Len(toWeb) /\ toWeb'[i] = toWeb[i]
                                    \/ toWeb'[i].plain = plain
      BY <1>p, <2>2, Asking DEF Asks, CallSteps
    <3>3. QED
      BY <1>K, <3>1, <3>2
  <2>3. job[j].plain \in Nat
    BY <1>p DEF JobRecords
  <2>4. CASE Asks(j, "boot", None) /\ UNCHANGED diskKey
    BY <1>K, <1>b, <1>w, <2>1, <2>2, <2>4
  <2>5. CASE At(j, "unseal") /\ Asks(j, "boot", job[j].plain) /\ UNCHANGED diskKey
    <3>1. job[j].plain = diskKey.plain
      BY <1>6, <1>K, <2>5
    <3>2. QED
      BY <1>K, <1>w, <2>1, <2>2, <2>3, <2>5, <3>1
  <2>6. CASE At(j, "write") /\ Asks(j, "boot", job[j].plain) /\ diskKey' = Blob(j)
    <3>1. diskKey = NoBlob /\ diskKey.plain = None
      BY <1>6, <1>K, <1>b, <2>6 DEF At
    <3>2. diskKey'.plain = job[j].plain /\ diskKey'.under = keystore /\ keystore # None
      BY <1>K, <2>6 DEF Blob
    <3>3. store = None /\ \A d \in Docs : handler[d].step \notin {"opfs", "open"}
      BY <1>K, <3>1
    <3>4. QED
      BY <1>K, <1>w, <2>1, <2>2, <2>3, <2>6, <3>1, <3>2, <3>3
  <2>7. QED
    BY <1>6, <2>4, <2>5, <2>6 DEF AsksBoot
<1>7. CASE j \in Docs /\ FindsNone(j)
  BY <1>7, <1>n, <1>u, JobSorts DEF FindsNone
<1>14. CASE j \in Docs /\ Offers(j)
  BY <1>14, <1>n, <1>u, JobSorts DEF Offers
<1>8. CASE j \in Docs /\ FindsVault(j)
  BY <1>8, <1>n, <1>u, JobSorts DEF FindsVault
<1>9. ASSUME NEW method \in {"restore", "register"}, NEW plain \in Nat, Asks(j, method, plain),
             keystore' = keystore, diskKey' = diskKey, store' = store,
             diskVault' = diskVault \/ (diskVault'.under = keystore /\ keystore # None),
             j \in Onboardings => keystore # None
      PROVE  KeysInOrder'
  <2>1. job'[j].step = method
    BY <1>9, <1>n, <1>r DEF Asks
  <2>2. \A i \in 1..Len(toWeb') : \/ i \in 1..Len(toWeb) /\ toWeb'[i] = toWeb[i]
                                  \/ toWeb'[i].method = method
    BY <1>9, <1>p, Asking DEF Asks, CallSteps
  <2>3. \A i \in 1..Len(toWeb') : toWeb'[i].method = "boot" => toWeb'[i].plain \in {None, diskKey'.plain}
    BY <1>9, <1>K, <2>2
  <2>4. \A blob \in {diskKey', diskVault'} \ {NoBlob} : blob.under = keystore' /\ keystore' # None
    BY <1>9, <1>K
  <2>5. QED
    BY <1>9, <1>K, <1>w, <2>1, <2>3, <2>4
<1>10. CASE j \in Docs /\ AsksRestore(j)
  <2>1. job[j].plain \in Nat /\ j \notin Onboardings
    BY <1>10, <1>p, JobSorts DEF JobRecords
  <2>2. QED
    BY <1>9, <1>10, <2>1 DEF AsksRestore, disk
<1>11. CASE j \in Onboardings /\ AsksRegister(j)
  <2>1. job[j].plain \in Nat
    BY <1>p DEF JobRecords
  <2>2. /\ At(j, "write") /\ Asks(j, "register", job[j].plain)
        /\ UNCHANGED <<keystore, diskKey, store>> /\ diskVault' = Blob(j)
    BY <1>11 DEF AsksRegister
  <2>3. diskVault'.under = keystore /\ keystore # None
    BY <1>K, <2>2 DEF Blob
  <2>4. QED
    BY <1>9, <2>1, <2>2, <2>3
<1>12. CASE j \in Onboardings /\ EndsReady(j)
  <2>1. /\ At(j, "save") /\ Sets(j, Idle) /\ UNCHANGED <<toWeb, keystore, diskKey, store>>
        /\ diskVault'.under = keystore
    BY <1>12 DEF EndsReady
  <2>2. job'[j].step = "none"
    BY <1>n, <1>r, <2>1
  <2>3. keystore # None
    BY <1>12, <1>K, <2>1 DEF At
  <2>4. \A blob \in {diskKey', diskVault'} \ {NoBlob} : blob.under = keystore' /\ keystore' # None
    BY <1>K, <2>1, <2>3
  <2>5. QED
    BY <1>12, <1>K, <1>w, <2>1, <2>2, <2>3, <2>4
<1>13. QED
  BY <1>m, <1>1, <1>2, <1>3, <1>4, <1>5, <1>6, <1>7, <1>8, <1>10, <1>11, <1>12, <1>14
     DEF JobMoves, BootMoves, FlowMoves


\* The document keeps the keys in order: only a stored key comes to its store.
LEMMA KeysPage ==
  ASSUME Settled, KeysInOrder, PageStep
  PROVE  KeysInOrder'
<1>p. /\ RequestsOK /\ WebOK /\ TypeOK /\ Carried
      /\ handler \in [Jobs -> Handlers] /\ HandlersOK /\ Docs \subseteq Jobs
  BY Parts, JobSorts DEF Settled, WebOK, HandlersOK
<1>h. UNCHANGED <<job, keystore, diskKey, diskVault>>
  BY <1>p DEF PageStep, StorageProbe, BootCalled, OpfsProbed, StoreOpens, StoreFallsBack, WalletCreated, BootReturns,
              BootThrows, AccountCalled, AccountCreated, AccountFails, host, disk
<1>K. /\ \A i \in 1..Len(toWeb) : toWeb[i].method = "boot" => toWeb[i].plain \in {None, diskKey.plain}
      /\ \A d \in Docs : handler[d].step \in {"opfs", "open"} =>
           handler[d].key # None /\ handler[d].key = diskKey.plain
      /\ store # None => diskKey.plain = store
  BY DEF KeysInOrder
<1>w. ASSUME /\ \A i \in 1..Len(toWeb') : \E k \in 1..Len(toWeb) : toWeb'[i] = toWeb[k]
             /\ \A d \in Docs : \/ handler'[d] = handler[d]
                                \/ handler'[d].step \in {"opfs", "open"} =>
                                     handler'[d].key # None /\ handler'[d].key = diskKey.plain
             /\ store' # None => diskKey.plain = store'
      PROVE  KeysInOrder'
  <2>1. \A i \in 1..Len(toWeb') : toWeb'[i].method = "boot" => toWeb'[i].plain \in {None, diskKey.plain}
    BY <1>K, <1>w
  <2>2. \A d \in Docs : handler'[d].step \in {"opfs", "open"} =>
           handler'[d].key # None /\ handler'[d].key = diskKey.plain
    BY <1>K, <1>w
  <2>3. QED
    BY <1>h, <1>w, <2>1, <2>2 DEF KeysInOrder, At
<1>t. ASSUME NEW method, Takes(method)
      PROVE  \A i \in 1..Len(toWeb') : \E k \in 1..Len(toWeb) : toWeb'[i] = toWeb[k]
  BY <1>p, <1>t, PageTakes
<1>1. CASE StorageProbe \/ \E method \in {"restore", "register"} : AccountCalled(method)
  <2>1. store' = store /\ \E method : Takes(method)
    BY <1>1 DEF StorageProbe, AccountCalled, Incoming, Takes, disk
  <2>2. \A d \in Docs : handler'[d] = handler[d] \/ handler'[d].step = "account"
    <3>1. CASE StorageProbe
      BY <3>1 DEF StorageProbe, web
    <3>2. ASSUME NEW method \in {"restore", "register"}, AccountCalled(method)
          PROVE  \A d \in Docs : handler'[d] = handler[d] \/ handler'[d].step = "account"
      <4>1. handler' = handler \/ \E j, key : handler' = [handler EXCEPT ![j] = [step |-> "account", key |-> key]]
        BY <3>2 DEF AccountCalled
      <4>2. QED
        BY <1>p, <4>1
    <3>3. QED
      BY <1>1, <3>1, <3>2
  <2>3. QED
    BY <1>K, <1>t, <1>w, <2>1, <2>2
<1>2. CASE BootCalled
  <2>1. Takes("boot") /\ UNCHANGED store
    BY <1>2 DEF BootCalled, Incoming, Takes, disk
  <2>2. PICK m : m = Head(toWeb)
    OBVIOUS
  <2>3. toWeb \in Seq(Messages) /\ toWeb # <<>> /\ m = toWeb[1] /\ m \in Messages /\ 1 \in 1..Len(toWeb)
    BY <1>p, <2>1, <2>2, Taken DEF RequestsOK, Takes
  <2>4. m.method = "boot" /\ m.plain \in Nat
    BY <2>1, <2>2, <2>3 DEF Takes, Messages
  <2>5. m.plain \in {None, diskKey.plain} /\ m.job \in Docs
    BY <1>K, <1>p, <2>3, <2>4 DEF RequestsOK, Asked
  <2>6. CASE session
    BY <1>2, <1>K, <1>t, <1>w, <2>1, <2>6 DEF BootCalled
  <2>7. CASE ~session
    <3>1. handler' = [handler EXCEPT ![m.job] = [step |-> IF m.plain = None THEN "create" ELSE "opfs", key |-> m.plain]]
      BY <1>2, <2>2, <2>7 DEF BootCalled
    <3>2. PICK h : h = [step |-> IF m.plain = None THEN "create" ELSE "opfs", key |-> m.plain]
      OBVIOUS
    <3>3. h \in Handlers /\ h.key = m.plain /\ (h.step = "create" \/ m.plain # None)
      BY <2>4, <3>2 DEF Handlers, HandlerSteps
    <3>4. handler'[m.job] = h /\ \A c \in Jobs \ {m.job} : handler'[c] = handler[c]
      BY <1>p, <2>5, <3>1, <3>2, <3>3, HandlerSet
    <3>5. handler'[m.job].step \in {"opfs", "open"} => handler'[m.job].key # None /\ handler'[m.job].key = diskKey.plain
      BY <2>5, <3>2, <3>3, <3>4
    <3>6. QED
      BY <1>K, <1>p, <1>t, <1>w, <2>1, <3>4, <3>5
  <2>8. QED
    BY <2>6, <2>7
<1>3. ASSUME NEW d \in Docs, NEW step \in {"opfs", "open", "create", "info"},
             handler' = [handler EXCEPT ![d].step = step], toWeb' = toWeb,
             store' \in {store, handler[d].key},
             (step = "open" \/ store' # store) => handler[d].step \in {"opfs", "open"}, step # "opfs"
      PROVE  KeysInOrder'
  <2>1. /\ handler'[d].step = step /\ handler'[d].key = handler[d].key
        /\ \A c \in Jobs \ {d} : handler'[c] = handler[c]
    BY <1>3, <1>p, HandlerGoes DEF HandlerSteps
  <2>2. handler'[d].step \in {"opfs", "open"} => handler'[d].key # None /\ handler'[d].key = diskKey.plain
    BY <1>3, <1>K, <2>1
  <2>3. store' # None => diskKey.plain = store'
    BY <1>3, <1>K
  <2>4. QED
    BY <1>3, <1>w, <2>1, <2>2, <2>3
<1>4. ASSUME NEW d \in Docs, OpfsProbed(d) PROVE KeysInOrder'
  <2>1. PICK step \in {"open", "create"} : handler' = [handler EXCEPT ![d].step = step]
    BY <1>4 DEF OpfsProbed
  <2>2. toWeb' = toWeb /\ store' = store /\ handler[d].step = "opfs"
    BY <1>4 DEF OpfsProbed, HandlerAt, channels, disk
  <2>3. QED
    BY <1>3, <2>1, <2>2
<1>5. ASSUME NEW d \in Docs, StoreOpens(d) \/ StoreFallsBack(d) PROVE KeysInOrder'
  <2>1. toWeb' = toWeb /\ handler[d].step = "open" /\ handler' = [handler EXCEPT ![d].step = "create"]
    BY <1>5 DEF StoreOpens, StoreFallsBack, HandlerAt, channels
  <2>2. store' \in {store, handler[d].key}
    BY <1>5 DEF StoreOpens, StoreFallsBack
  <2>3. QED
    BY <1>3, <2>1, <2>2
<1>6. ASSUME NEW d \in Docs, WalletCreated(d) PROVE KeysInOrder'
  <2>1. UNCHANGED <<toWeb, store>> /\ handler'[d].step = "info"
    BY <1>6, <1>p, WalletHandlers DEF WalletCreated, HandlerAt, channels, disk
  <2>2. \A c \in Docs \ {d} : handler'[c] = handler[c] \/ handler'[c].step = "orphan"
    BY <1>6, <1>p, WalletHandlers
  <2>3. QED
    BY <1>K, <1>w, <2>1, <2>2
<1>7. ASSUME NEW j \in Jobs, handler' = [handler EXCEPT ![j] = NoHandler], UNCHANGED <<toWeb, store>>
      PROVE  KeysInOrder'
  <2>1. handler'[j] = NoHandler /\ \A c \in Jobs \ {j} : handler'[c] = handler[c]
    BY <1>7, <1>p, HandlerNone, HandlerSet
  <2>2. handler'[j].step \notin {"opfs", "open"}
    BY <2>1 DEF NoHandler
  <2>3. QED
    BY <1>7, <1>K, <1>p, <1>w, <2>1, <2>2
<1>8. ASSUME NEW d \in Docs, BootReturns(d) \/ BootThrows(d) PROVE KeysInOrder'
  BY <1>7, <1>8, <1>p DEF BootReturns, BootThrows, disk
<1>9. ASSUME NEW j \in Jobs, AccountCreated(j) \/ AccountFails(j) PROVE KeysInOrder'
  BY <1>7, <1>9 DEF AccountCreated, AccountFails, disk
<1>10. QED
  BY <1>1, <1>2, <1>4, <1>5, <1>6, <1>8, <1>9 DEF PageStep

\* The keys stay in order.
LEMMA KeysStep ==
  ASSUME Settled, Solo, KeysInOrder, [Next]_vars, ~stale, ~stale'
  PROVE  KeysInOrder'
<1>p. /\ JobsOK /\ DiskOK /\ TypeOK /\ CountersOK /\ toHost \in Seq(Events)
      /\ job \in [Jobs -> JobRecords]
  BY Parts, QueueTypes DEF Settled, JobsOK
<1>n. Idle.step \in Uncommitted /\ Booting.step \in Uncommitted /\ NoHandler.step \notin {"opfs", "open"}
  BY DEF Idle, Booting, Uncommitted, NoHandler
<1>a. \A j \in Jobs : ~Active(j)' => job'[j].step \in Uncommitted
  BY DEF Active, Uncommitted
<1>w. ASSUME UNCHANGED disk,
             \A j \in Jobs : \/ job'[j] = job[j] \/ job'[j].step \in Uncommitted
                             \/ j \in Onboardings /\ job'[j].step = "seal"
                             \/ j \in Onboardings /\ At(j, "register") /\ job'[j].step = "save",
             toWeb' \in {toWeb, <<>>}, handler' \in {handler, NoHandlers}
      PROVE  KeysInOrder'
  <2>1. \A i \in 1..Len(toWeb') : i \in 1..Len(toWeb) /\ toWeb'[i] = toWeb[i]
    BY <1>w
  <2>2. \A d \in Docs : handler'[d] = handler[d] \/ handler'[d].step \notin {"opfs", "open"}
    BY <1>n, <1>w, HandlerNone, JobSorts DEF NoHandlers
  <2>3. QED
    BY <1>w, <2>1, <2>2, KeysKept DEF NoNewKeys
<1>1. CASE Start \/ Restart
  <2>1. UNCHANGED <<disk, job>>
    BY <1>1 DEF Start, Restart
  <2>2. toWeb' \in {toWeb, <<>>} /\ handler' \in {handler, NoHandlers}
    BY <1>1 DEF Start, Restart, BeginLoad, web
  <2>3. QED
    BY <1>w, <2>1, <2>2
<1>2. CASE Onboard
  <2>1. UNCHANGED <<disk, toWeb, handler>>
    BY <1>2 DEF Onboard, channels, web
  <2>2. generated' \in Accounts
    BY <1>2, <1>p, BoundsAssumption DEF Onboard, CountersOK, Accounts
  <2>4. Flow(generated') \in Onboardings
    BY <2>2, JobSorts
  <2>5. job' = [job EXCEPT ![Flow(generated')] = [step |-> "seal", plain |-> generated', under |-> None]]
    BY <1>2 DEF Onboard
  <2>6. \A j \in Jobs : job'[j] = job[j] \/ (j \in Onboardings /\ job'[j].step = "seal")
    BY <1>p, <2>4, <2>5
  <2>3. QED
    BY <1>w, <2>1, <2>6
<1>3. CASE OnReady
  <2>1. UNCHANGED disk /\ handler' = handler
    BY <1>3, <1>p, Readying DEF web
  <2>2. PICK d \in Docs : /\ \A k \in Jobs \ {d} : ~Active(k)'
                          /\ \/ ~Active(d)' /\ toWeb' = toWeb
                             \/ job'[d] = Booting /\ Post(ProbeOf(d))
    BY <1>3, <1>p, Readying
  <2>3. \A j \in Jobs : job'[j].step \in Uncommitted
    BY <1>a, <1>n, <2>2
  <2>4. CASE toWeb' = toWeb
    BY <1>w, <2>1, <2>3, <2>4
  <2>5. CASE Post(ProbeOf(d))
    <3>1. \A i \in 1..Len(toWeb') : \/ i \in 1..Len(toWeb) /\ toWeb'[i] = toWeb[i]
                                    \/ toWeb'[i].method = "probe"
      BY <1>p, <2>5, Asking, JobSorts DEF ProbeOf, CallSteps, None
    <3>2. QED
      BY <2>1, <2>3, <3>1, KeysKept DEF NoNewKeys
  <2>6. QED
    BY <2>2, <2>4, <2>5
<1>4. CASE OnCrash
  <2>1. UNCHANGED <<disk, toWeb>> /\ handler' = handler /\ \A k \in Jobs : ~Active(k)'
    BY <1>4, <1>p, Crashing DEF web
  <2>2. QED
    BY <1>a, <1>w, <2>1
<1>5. CASE OnResult
  <2>1. UNCHANGED <<disk, toWeb>> /\ handler' = handler
    BY <1>5, <1>p, Answering DEF web
  <2>2. PICK j \in Jobs :
          \/ job' = job
          \/ Sets(j, Idle)
          \/ Sets(j, Record("srs", job[j].plain, job[j].under))
          \/ Sets(j, Record("vault", job[j].plain, job[j].under))
          \/ j \in Onboardings /\ At(j, "register") /\ Sets(j, Record("save", job[j].plain, job[j].under))
    BY <1>5, <1>p, Answering DEF Drops, GoesOn
  <2>3. \A k \in Jobs : \/ job'[k] = job[k] \/ job'[k].step \in Uncommitted
                        \/ k \in Onboardings /\ At(k, "register") /\ job'[k].step = "save"
    BY <1>n, <1>p, <2>2 DEF Sets, Record, Uncommitted
  <2>4. QED
    BY <1>w, <2>1, <2>3
<1>6. ASSUME NEW j \in Jobs, JobStep(j) PROVE KeysInOrder'
  BY <1>6, KeysMove
<1>7. CASE PageStep
  BY <1>7, KeysPage
<1>8. CASE Loaded \/ SilentReload \/ PageGone \/ UNCHANGED vars
  <2>1. UNCHANGED <<disk, job>>
    BY <1>8 DEF Loaded, SilentReload, PageGone, host, vars
  <2>2. toWeb' \in {toWeb, <<>>} /\ handler' \in {handler, NoHandlers}
    BY <1>8 DEF Loaded, SilentReload, PageGone, BeginLoad, vars, channels, web
  <2>3. QED
    BY <1>w, <2>1, <2>2
<1>9. CASE Kill
  <2>1. UNCHANGED disk /\ toWeb' = <<>> /\ handler' = NoHandlers /\ \A j \in Jobs : job'[j] = Idle
    BY <1>9 DEF Kill
  <2>2. QED
    BY <1>n, <1>w, <2>1
<1>10. QED
  BY <1>1, <1>2, <1>3, <1>4, <1>5, <1>6, <1>7, <1>8, <1>9 DEF Next, HostEvent


-------------------------------------------------------------------------------
(* Of the account. *)

\* The account in memory stays the one at hand.
LEMMA AccountMove ==
  ASSUME Settled, Solo, AccountAtHand, NEW j \in Jobs, JobStep(j), ~stale'
  PROVE  AccountAtHand'
<1>p. JobsOK /\ DiskOK /\ TypeOK
  BY Parts DEF Settled
<1>a. Active(j) /\ ~crashed
  BY JobActive DEF Solo
<1>k. \A k \in Jobs \ {j} : job[k].step = "none"
  BY <1>a, Alone
<1>m. JobMoves(j)
  BY <1>a, <1>p, Moving
<1>o. \A k \in Jobs \ {j} : job'[k].step = "none"
  BY <1>m, <1>k, <1>p, MoveFrame
<1>r. ASSUME NEW r, Sets(j, r) PROVE job'[j] = r
  BY <1>p, <1>r DEF Sets, JobsOK
<1>n. /\ Idle.step = "none"
      /\ \A step, plain, under : /\ Record(step, plain, under).step = step
                                 /\ Record(step, plain, under).plain = plain
  BY DEF Idle, Record
<1>s. /\ j \in Docs \/ j \in Onboardings
      /\ j \in Docs => j \notin Onboardings /\ phase \notin {"onboarding", "ready"}
      /\ j \in Onboardings => phase = "onboarding"
      /\ \A k \in Docs : k # j => k \in Jobs \ {j}
      /\ \A k \in Onboardings : k # j => k \in Jobs \ {j}
  BY <1>a, JobSorts DEF Solo
<1>A. /\ j \in Docs => (job[j].step \in {"open", "restore"} => job[j].plain = diskVault.plain)
      /\ j \in Docs => (At(j, "absent") => diskVault = NoBlob)
      /\ j \in Onboardings => memVault = job[j].plain
      /\ phase = "ready" => diskVault.plain = memVault
      /\ shown # None => diskVault.plain = shown /\ phase # "onboarding"
  BY <1>a DEF AccountAtHand
\* What is left to show, where every other job is idle.
<1>w. ASSUME /\ j \in Docs => (job'[j].step \in {"open", "restore"} => job'[j].plain = diskVault'.plain)
             /\ j \in Docs => (job'[j].step = "restore" => memVault' = job'[j].plain)
             /\ j \in Docs => (job'[j].step = "absent" => diskVault' = NoBlob)
             /\ j \in Onboardings => (job'[j].step # "none" => memVault' = job'[j].plain)
             /\ phase' = "ready" => diskVault'.plain = memVault'
             /\ shown' # None => diskVault'.plain = shown' /\ phase' # "onboarding"
      PROVE  AccountAtHand'
  <2>1. \A d \in Docs : d # j => job'[d].step = "none"
    BY <1>o, <1>s
  <2>2. \A f \in Onboardings : f # j => job'[f].step = "none"
    BY <1>o, <1>s
  <2>3. \A d \in Docs : /\ job'[d].step \in {"open", "restore"} => job'[d].plain = diskVault'.plain
                        /\ job'[d].step = "restore" => memVault' = job'[d].plain
                        /\ job'[d].step = "absent" => diskVault' = NoBlob
    BY <1>w, <2>1
  <2>4. \A f \in Onboardings : job'[f].step # "none" => memVault' = job'[f].plain
    BY <1>w, <2>2
  <2>5. QED
    BY <1>w, <2>3, <2>4 DEF AccountAtHand, At, Active
<1>u. ASSUME NEW r, Sets(j, r), UNCHANGED <<memVault, shown, diskVault>>, phase' # "ready",
             phase' = phase \/ phase' # "onboarding",
             r.step \notin {"absent", "open", "restore"},
             j \in Onboardings /\ r.step # "none" => r.plain = job[j].plain
      PROVE  AccountAtHand'
  BY <1>A, <1>r, <1>u, <1>w
<1>1. CASE Drops(j)
  BY <1>1, <1>n, <1>s, <1>u DEF Drops, disk
<1>2. CASE j \in Docs /\ (Proceeds(j) \/ ReadsKey(j))
  BY <1>2, <1>n, <1>s, <1>u DEF Proceeds, ReadsKey, disk
<1>3. CASE Looks(j)
  BY <1>3, <1>n, <1>s, <1>u DEF Looks, disk
<1>4. CASE Generates(j)
  BY <1>4, <1>n, <1>s, <1>u DEF Generates
<1>5. CASE j \in Docs /\ AsksBoot(j)
  BY <1>5, <1>n, <1>s, <1>u DEF AsksBoot, Asks
<1>6. CASE j \in Docs /\ FindsNone(j)
  <2>1. job'[j].step = "absent" /\ UNCHANGED <<phase, memVault, shown, diskVault>> /\ diskVault = NoBlob
    BY <1>6, <1>n, <1>r DEF FindsNone, disk
  <2>2. QED
    BY <1>6, <1>A, <1>s, <1>w, <2>1
<1>12. CASE j \in Docs /\ Offers(j)
  <2>1. diskVault = NoBlob /\ diskVault' = diskVault /\ shown' = shown /\ phase' = "onboarding"
    BY <1>12, <1>A DEF Offers, disk
  <2>2. job'[j].step = "none"
    BY <1>12, <1>n, <1>r DEF Offers
  <2>3. shown = None
    BY <1>A, <2>1 DEF NoBlob
  <2>4. QED
    BY <1>12, <1>s, <1>w, <2>1, <2>2, <2>3
<1>7. CASE j \in Docs /\ FindsVault(j)
  <2>1. job'[j].step = "open" /\ job'[j].plain = diskVault.plain /\ UNCHANGED <<phase, memVault, shown, diskVault>>
    BY <1>7, <1>n, <1>r DEF FindsVault, disk
  <2>2. QED
    BY <1>7, <1>A, <1>s, <1>w, <2>1
<1>8. CASE j \in Docs /\ AsksRestore(j)
  <2>1. /\ job'[j].step = "restore" /\ job'[j].plain = job[j].plain /\ memVault' = job[j].plain
        /\ UNCHANGED <<phase, shown, diskVault>> /\ job[j].plain = diskVault.plain
    BY <1>8, <1>A, <1>n, <1>r DEF AsksRestore, Asks, At, disk
  <2>2. QED
    BY <1>8, <1>A, <1>s, <1>w, <2>1
<1>9. CASE j \in Onboardings /\ AsksRegister(j)
  <2>1. /\ job'[j].plain = job[j].plain /\ phase' # "ready" /\ j \notin Docs /\ memVault' = memVault
        /\ shown = None /\ shown' = None
    BY <1>9, <1>A, <1>n, <1>r, <1>s DEF AsksRegister, Asks
  <2>2. QED
    BY <1>9, <1>A, <1>w, <2>1
<1>10. CASE j \in Onboardings /\ EndsReady(j)
  <2>1. job'[j].step = "none" /\ diskVault'.plain = memVault' /\ shown' = memVault' /\ phase' = "ready"
    BY <1>10, <1>n, <1>r DEF EndsReady
  <2>2. QED
    BY <1>10, <1>s, <1>w, <2>1
<1>11. QED
  BY <1>m, <1>1, <1>2, <1>3, <1>4, <1>5, <1>6, <1>7, <1>8, <1>9, <1>10, <1>12 DEF JobMoves, BootMoves, FlowMoves

LEMMA AccountStep ==
  ASSUME Settled, Solo, AccountAtHand, [Next]_vars, ~stale, ~stale'
  PROVE  AccountAtHand'
<1>p. /\ JobsOK /\ DiskOK /\ TypeOK /\ CountersOK /\ toHost \in Seq(Events)
      /\ job \in [Jobs -> JobRecords]
  BY Parts, QueueTypes DEF Settled, JobsOK
<1>n. /\ Idle.step = "none" /\ Booting.step = "probe"
      /\ \A step, plain, under : /\ Record(step, plain, under).step = step
                                 /\ Record(step, plain, under).plain = plain
  BY DEF Idle, Booting, Record
<1>e. ASSUME \A k \in Jobs : ~Active(k)', phase' \notin {"onboarding", "ready"}, UNCHANGED <<shown, diskVault>>
      PROVE  AccountAtHand'
  BY <1>e, JobSorts DEF AccountAtHand, Active, At
<1>f. ASSUME UNCHANGED <<memVault, shown, diskVault, job>>, phase' = phase \/ phase' \notin {"onboarding", "ready"}
      PROVE  AccountAtHand'
  BY <1>f DEF AccountAtHand, Active, At
<1>1. CASE Start \/ Restart
  BY <1>1, <1>f DEF Start, Restart, RestartSession, disk, counters
<1>2. CASE Onboard
  <2>1. /\ phase = "onboarding" /\ phase' = phase /\ memVault' = generated' /\ UNCHANGED <<shown, diskVault>>
        /\ job' = [job EXCEPT ![Flow(generated')] = [step |-> "seal", plain |-> generated', under |-> None]]
    BY <1>2 DEF Onboard, CreateAccountOffered, disk
  <2>a. generated' \in Accounts
    BY <1>2, <1>p, BoundsAssumption DEF Onboard, CountersOK, Accounts
  <2>f. PICK f \in Onboardings : f = Flow(generated')
    BY <2>a, JobSorts
  <2>2. /\ job'[f].plain = generated'
        /\ \A k \in Jobs \ {f} : job'[k] = job[k]
    BY <1>p, <2>1, <2>f, JobSorts
  <2>3. \A d \in Jobs : job[d].step = "none"
    BY <1>2, JobSorts DEF Solo, Active, Onboard, CreateAccountOffered
  <2>4. \A d \in Docs : job'[d].step = "none"
    BY <2>2, <2>3, JobSorts
  <2>5. \A k \in Onboardings : Active(k)' => memVault' = job'[k].plain
    BY <2>1, <2>2, <2>3, JobSorts DEF Active
  <2>6. shown' = None
    BY <2>1 DEF AccountAtHand
  <2>7. QED
    BY <2>1, <2>4, <2>5, <2>6 DEF AccountAtHand, At
<1>3. CASE OnReady
  <2>1. PICK d \in Docs : /\ \A k \in Jobs \ {d} : ~Active(k)'
                          /\ ~Active(d)' \/ job'[d] = Booting
                          /\ phase' \notin {"onboarding", "ready"}
    BY <1>3, <1>p, Readying
  <2>2. \A k \in Docs : job'[k].step \in {"none", "probe"}
    BY <1>n, <2>1, JobSorts DEF Active
  <2>3. \A f \in Onboardings : ~Active(f)'
    BY <2>1, JobSorts
  <2>5. UNCHANGED <<shown, diskVault>>
    BY <1>3, <1>p, Readying DEF disk
  <2>4. QED
    BY <2>1, <2>2, <2>3, <2>5 DEF AccountAtHand, At
<1>4. CASE OnCrash
  BY <1>4, <1>e, <1>p, Crashing DEF disk
<1>5. CASE OnResult
  <2>1. UNCHANGED <<memVault, diskVault>>
    BY <1>5, <1>p, Answering DEF disk
  <2>2. PICK j \in Jobs :
          \/ UNCHANGED <<phase, busy, job, shown>>
          \/ Drops(j)
          \/ j \in Docs /\ At(j, "restore") /\ Sets(j, Idle) /\ ShowWallet
          \/ \E step \in {"srs", "vault", "save"} : ~At(j, "none") /\ GoesOn(j, step)
    BY <1>5, <1>p, Answering DEF At
  <2>r. ASSUME NEW r, Sets(j, r) PROVE job'[j] = r /\ \A k \in Jobs \ {j} : job'[k] = job[k]
    BY <1>p, <2>r DEF Sets, JobsOK
  <2>3. CASE UNCHANGED <<phase, busy, job, shown>>
    BY <1>f, <2>1, <2>3
  <2>4. ASSUME NEW r, Sets(j, r), r.step \in {"none", "srs", "vault", "save"}, r.step # "none" => r.plain = job[j].plain,
               ~At(j, "none"), phase' = phase \/ phase' \notin {"onboarding", "ready"}, shown' = shown
        PROVE  AccountAtHand'
    <3>1. job'[j] = r /\ \A k \in Jobs \ {j} : job'[k] = job[k]
      BY <2>4, <2>r
    <3>2. \A d \in Docs : /\ job'[d].step \in {"open", "restore"} => job'[d].plain = diskVault.plain
                          /\ job'[d].step = "restore" => memVault = job'[d].plain
                          /\ job'[d].step = "absent" => diskVault = NoBlob
      BY <2>4, <3>1, JobSorts DEF AccountAtHand, At
    <3>3. \A f \in Onboardings : job'[f].step # "none" => memVault = job'[f].plain
      BY <2>4, <3>1, JobSorts DEF AccountAtHand, At, Active
    <3>4. QED
      BY <2>1, <2>4, <3>2, <3>3 DEF AccountAtHand, At, Active
  <2>5. CASE Drops(j)
    <3>1. (phase' = phase \/ phase' \notin {"onboarding", "ready"}) /\ shown' = shown
      BY <2>5 DEF Drops
    <3>2. QED
      BY <1>n, <2>4, <2>5, <3>1 DEF Drops, Active, At
  <2>6. CASE j \in Docs /\ At(j, "restore") /\ Sets(j, Idle) /\ ShowWallet
    <3>1. memVault = job[j].plain /\ job[j].plain = diskVault.plain /\ Active(j)
      BY <2>6 DEF AccountAtHand, At, Active
    <3>2. \A k \in Jobs : job'[k].step = "none"
      BY <1>n, <2>6, <2>r, <3>1, Alone
    <3>3. QED
      BY <2>1, <2>6, <3>1, <3>2, JobSorts DEF AccountAtHand, At, Active, ShowWallet
  <2>7. CASE \E step \in {"srs", "vault", "save"} : ~At(j, "none") /\ GoesOn(j, step)
    <3>1. PICK step \in {"srs", "vault", "save"} : ~At(j, "none") /\ GoesOn(j, step)
      BY <2>7
    <3>2. QED
      BY <1>n, <2>4, <3>1 DEF GoesOn
  <2>8. QED
    BY <2>2, <2>3, <2>5, <2>6, <2>7
<1>6. ASSUME NEW j \in Jobs, JobStep(j) PROVE AccountAtHand'
  BY <1>6, AccountMove
<1>7. CASE PageStep
  <2>1. UNCHANGED <<memVault, shown, job, phase, diskVault>>
    BY <1>7 DEF PageStep, StorageProbe, BootCalled, OpfsProbed, StoreOpens, StoreFallsBack, WalletCreated, BootReturns,
              BootThrows, AccountCalled, AccountCreated, AccountFails, host, disk, counters
  <2>2. QED
    BY <1>f, <2>1
<1>8. CASE Loaded \/ SilentReload \/ PageGone \/ UNCHANGED vars
  BY <1>8, <1>f DEF Loaded, SilentReload, PageGone, host, disk, counters, vars
<1>9. CASE Kill
  <2>1. phase' = "init" /\ UNCHANGED <<shown, diskVault>> /\ \A j \in Jobs : job'[j] = Idle
    BY <1>9 DEF Kill, disk
  <2>2. QED
    BY <1>e, <1>n, <2>1 DEF Active
<1>10. QED
  BY <1>1, <1>2, <1>3, <1>4, <1>5, <1>6, <1>7, <1>8, <1>9 DEF Next, HostEvent


-------------------------------------------------------------------------------
(* Of the document and its stages. *)

\* A document that RN has yet to hear of has only been probed.
LEMMA CleanStep ==
  ASSUME Settled, Solo, Clean, [Next]_vars, ~stale, ~stale'
  PROVE  Clean'
<1>p. /\ JobsOK /\ DiskOK /\ TypeOK /\ Carried
      /\ toHost \in Seq(Events) /\ (NoticePosted <=> Notices(toHost))
      /\ toHost' \in Seq(Events) /\ (NoticePosted' <=> Notices(toHost'))
  BY Parts, QueueTypes, QueueTypesNext, TypedStep DEF Settled
<1>e. ASSUME page' # "live" PROVE Clean'
  BY <1>e DEF Clean
<1>f. ASSUME UNCHANGED <<page, session, accounts, handler, toHost>>, toWeb' = toWeb \/ ~NoticePosted PROVE Clean'
  BY <1>f DEF Clean, Untouched, NoneHandled, Handling, HandlerAt, Requests, Results, Last, NoticePosted
<1>1. CASE Start
  <2>1. page = "none"
    BY <1>1 DEF Start, Settled, Linked
  <2>2. QED
    BY <1>1, <1>e, <2>1 DEF Start, BeginLoad, web
<1>2. CASE Restart
  <2>1. ~origin => page = "none"
    BY DEF Settled, Linked
  <2>2. QED
    BY <1>2, <1>e, <2>1 DEF Restart, BeginLoad, web
<1>3. ASSUME toHost # <<>>, toHost' = Tail(toHost), UNCHANGED web,
             toWeb' = toWeb \/ \E m \in Messages : m.method = "probe" /\ toWeb' = Append(toWeb, m)
      PROVE  Clean'
  <2>1. SUFFICES ASSUME NoticePosted', page' = "live" PROVE Untouched' /\ ~session'
    BY DEF Clean
  <2>2. NoticePosted /\ page = "live"
    BY <1>3, <1>p, <2>1, EventTaken DEF web
  <2>3. Untouched /\ ~session
    BY <2>2 DEF Clean
  <2>4. UNCHANGED <<session, accounts, handler>>
    BY <1>3 DEF web
  <2>5. Results({"probe"})'
    <3>1. \A i \in 1..Len(toHost') :
            \E k \in 1..Len(toHost) : toHost'[i] = toHost[k] /\ (Last(toHost', i) => Last(toHost, k))
      BY <1>3, <1>p, EventTaken
    <3>2. QED
      BY <2>3, <3>1 DEF Untouched, Results
  <2>6. CASE toWeb' = toWeb
    BY <2>3, <2>4, <2>5, <2>6 DEF Untouched, NoneHandled, Handling, HandlerAt, Requests
  <2>7. ASSUME NEW m \in Messages, m.method = "probe", toWeb' = Append(toWeb, m) PROVE Untouched' /\ ~session'
    <3>1. toWeb \in Seq(Messages)
      BY <1>p, QueueTypes
    <3>2. NoneHandled' /\ Requests({"probe"})'
      BY <2>3, <2>4, <2>7, <3>1, StageAsked
    <3>3. QED
      BY <2>3, <2>4, <2>5, <3>2 DEF Untouched
  <2>8. QED
    BY <1>3, <2>6, <2>7
<1>4. CASE OnReady
  <2>1. toHost # <<>> /\ toHost' = Tail(toHost) /\ UNCHANGED web
    BY <1>4, <1>p, Readying
  <2>2. PICK d \in Docs : toWeb' = toWeb \/ Post(ProbeOf(d))
    BY <1>4, <1>p, Readying
  <2>3. ProbeOf(d) \in Messages /\ ProbeOf(d).method = "probe"
    BY JobSorts DEF ProbeOf, Messages, CallSteps, None
  <2>4. toWeb' = toWeb \/ toWeb' = Append(toWeb, ProbeOf(d))
    BY <2>2 DEF Post
  <2>5. QED
    BY <1>3, <2>1, <2>3, <2>4
<1>5. CASE OnCrash
  BY <1>3, <1>5, <1>p, Crashing
<1>6. CASE OnResult
  BY <1>3, <1>6, <1>p, Answering
<1>7. ASSUME NEW j \in Jobs, JobStep(j) PROVE Clean'
  <2>1. ~crashed
    BY <1>7, JobActive DEF Solo
  <2>2. JobMoves(j)
    BY <1>7, <1>p, <2>1, Moving
  <2>3. UNCHANGED <<page, session, accounts, handler, toHost>>
    BY <1>7, JobFrame DEF web
  <2>4. toWeb' = toWeb \/ ~NoticePosted
    BY <2>2 DEF JobMoves, BootMoves, FlowMoves, Drops, Proceeds, ReadsKey, Looks, Generates, AsksBoot, FindsNone, Offers, FindsVault,
                AsksRestore, AsksRegister, EndsReady, Asks
  <2>5. QED
    BY <1>f, <2>3, <2>4
<1>8. CASE PageStep
  <2>1. SUFFICES ASSUME NoticePosted', page' = "live" PROVE Untouched' /\ ~session'
    BY DEF Clean
  <2>2. page = "live"
    BY <1>8, <1>p, <2>1, PageTypes, Parts
  <2>3. NoticePosted
    <3>1. toHost' = toHost \/ \E e \in Answers : toHost' = Append(toHost, e)
      BY <1>8, <1>p, PageAnswers
    <3>2. ASSUME NEW e \in Answers, toHost' = Append(toHost, e) PROVE Notices(toHost)
      BY <1>p, <2>1, <3>2, AnswerAppended
    <3>3. QED
      BY <1>p, <2>1, <3>1, <3>2
  <2>4. QED
    BY <1>8, <1>p, <2>2, <2>3, UntouchedPage DEF Clean
<1>9. CASE Loaded
  <2>1. /\ page = "loading" /\ toHost' = Append(toHost, [type |-> "ready", doc |-> doc])
        /\ UNCHANGED <<toWeb, session, handler>> /\ doc \in Docs
    BY <1>9, <1>p DEF Loaded, Carried
  <2>2. toWeb = <<>> /\ ~session /\ handler = NoHandlers
    BY <2>1 DEF Settled, Linked
  <2>3. [type |-> "ready", doc |-> doc] \in Events
    BY <2>1 DEF Events
  <2>4. \A i \in 1..Len(toHost') : Last(toHost', i) => toHost'[i].type = "ready"
    BY <1>p, <2>1, <2>3, NoticeAppended
  <2>5. Results({"probe"})'
    BY <2>4 DEF Results
  <2>6. NoneHandled' /\ Requests({"probe"})' /\ ~session'
    BY <2>1, <2>2, HandlerNone DEF NoneHandled, Handling, HandlerAt, Requests, NoHandlers, NoHandler
  <2>7. QED
    BY <2>5, <2>6 DEF Clean, Untouched
<1>10. CASE SilentReload \/ PageGone \/ Kill
  BY <1>10, <1>e DEF SilentReload, BeginLoad, PageGone, Kill
<1>11. CASE Onboard
  BY <1>11, <1>f DEF Onboard, channels, web
<1>12. CASE UNCHANGED vars
  BY <1>12, <1>f DEF vars, channels, web
<1>13. QED
  BY <1>1, <1>2, <1>4, <1>5, <1>6, <1>7, <1>8, <1>9, <1>10, <1>11, <1>12 DEF Next, HostEvent


\* While RN knows its document, what it believes of it is so.
LEMMA StagedMove ==
  ASSUME Settled, Solo, AccountAtHand, Staged, NEW j \in Jobs, JobStep(j), ~stale'
  PROVE  Staged'
<1>p. /\ JobsOK /\ DiskOK /\ TypeOK /\ toWeb \in Seq(Messages)
      /\ toHost \in Seq(Events) /\ (NoticePosted <=> Notices(toHost))
      /\ job[j] \in JobRecords
  BY Parts, QueueTypes DEF Settled, JobsOK
<1>a. Active(j) /\ ~crashed
  BY JobActive DEF Solo
<1>m. JobMoves(j)
  BY <1>a, <1>p, Moving
<1>k. \A k \in Jobs \ {j} : job'[k].step = "none"
  <2>1. \A k \in Jobs \ {j} : job[k].step = "none"
    BY <1>a, Alone
  <2>2. QED
    BY <1>m, <1>p, <2>1, MoveFrame
<1>c. UNCHANGED <<page, session, accounts, handler, toHost>>
  BY JobFrame DEF web
<1>n. /\ Idle.step = "none"
      /\ \A step, plain, under : Record(step, plain, under).step = step
  BY DEF Idle, Record
<1>r. ASSUME NEW r, Sets(j, r) PROVE job'[j] = r
  BY <1>p, <1>r DEF Sets, JobsOK
<1>s. /\ j \in Docs \/ j \in Onboardings
      /\ j \in Docs => j \notin Onboardings /\ phase \notin {"onboarding", "ready"}
      /\ j \in Onboardings => phase = "onboarding" /\ j \notin Docs
      /\ \A k \in Docs : k # j => k \in Jobs \ {j}
      /\ \A k \in Onboardings : k # j => k \in Jobs \ {j}
  BY <1>a, JobSorts DEF Solo
<1> SUFFICES ASSUME ~Noticing'
             PROVE  /\ (\E d \in Docs : job'[d].step \in PreSteps) => Untouched'
                    /\ (\E d \in Docs : job'[d].step = "boot") => Opening'
                    /\ (\E d \in Docs : job'[d].step \in PostSteps) => Opened'
                    /\ phase' \in {"onboarding", "ready"} => Opened'
                    /\ phase' = "ready" \/ (\E f \in Onboardings : job'[f].step = "save") => memVault' \in accounts'
  BY DEF Staged, At
<1>q. ~Noticing /\ ~NoticePosted /\ ~Notices(toHost)
  BY <1>c, <1>p DEF Noticing, NoticePosted
<1>v. page = "live"
  BY <1>a, <1>q, <1>s DEF Solo
<1>S. /\ j \in Docs => (job[j].step \in PreSteps => Untouched)
      /\ j \in Docs => (job[j].step \in PostSteps => Opened)
      /\ j \in Onboardings => Opened
      /\ j \in Onboardings /\ At(j, "save") => memVault \in accounts
  BY <1>q, <1>s DEF Staged, At
\* What is left to show, where every other job is idle.
<1>w. ASSUME /\ j \in Docs => (job'[j].step \in PreSteps => Untouched')
             /\ j \in Docs => (job'[j].step = "boot" => Opening')
             /\ j \in Docs => (job'[j].step \in PostSteps => Opened')
             /\ phase' \in {"onboarding", "ready"} => Opened'
             /\ phase' = "ready" \/ (j \in Onboardings /\ job'[j].step = "save") => memVault' \in accounts
      PROVE  /\ (\E d \in Docs : job'[d].step \in PreSteps) => Untouched'
             /\ (\E d \in Docs : job'[d].step = "boot") => Opening'
             /\ (\E d \in Docs : job'[d].step \in PostSteps) => Opened'
             /\ phase' \in {"onboarding", "ready"} => Opened'
             /\ phase' = "ready" \/ (\E f \in Onboardings : job'[f].step = "save") => memVault' \in accounts'
  <2>1. \A d \in Docs : job'[d].step # "none" => d = j
    BY <1>k, <1>s
  <2>2. \A f \in Onboardings : job'[f].step = "save" => f = j
    BY <1>k, <1>s
  <2>3. "none" \notin PreSteps /\ "none" \notin PostSteps
    BY DEF PreSteps, PostSteps
  <2>4. QED
    BY <1>c, <1>w, <2>1, <2>2, <2>3
<1>u. ASSUME toWeb' = toWeb PROVE (Untouched => Untouched') /\ (Opened => Opened')
  BY <1>c, <1>u DEF Untouched, Opened, NoneHandled, Handling, HandlerAt, Requests, Results, Last
<1>x. ASSUME NEW method \in CallSteps, NEW plain \in Nat, Asks(j, method, plain)
      PROVE  /\ method = "boot" /\ Untouched => Opening'
             /\ method \in {"restore", "register"} /\ Opened => Opened'
             /\ job'[j].step = method /\ phase' = phase
  <2>1. Post([job |-> j, method |-> method, plain |-> plain]) /\ phase' = phase
    BY <1>x DEF Asks
  <2>2. PICK m : m = [job |-> j, method |-> method, plain |-> plain]
    OBVIOUS
  <2>3. m \in Messages /\ m.method = method /\ toWeb' = Append(toWeb, m)
    BY <1>p, <1>v, <2>1, <2>2, Asking
  <2>4. /\ method = "boot" /\ Untouched => Opening'
        /\ method \in {"restore", "register"} /\ Opened => Opened'
    BY <1>c, <1>p, <1>q, <2>3, StageAsked
  <2>5. job'[j].step = method
    BY <1>n, <1>r, <1>x DEF Asks
  <2>6. QED
    BY <2>1, <2>4, <2>5
<1>y. job[j].plain \in Nat /\ None \in Nat /\ {"boot", "restore", "register"} \subseteq CallSteps
  BY <1>p DEF JobRecords, None, CallSteps
<1>z. /\ \A step \in PreSteps : step # "boot" /\ step \notin PostSteps /\ step # "none"
      /\ \A step \in PostSteps : step # "boot" /\ step \notin PreSteps /\ step # "none"
      /\ {"srs", "key", "seal", "unseal", "generate", "write"} \subseteq PreSteps
      /\ {"vault", "absent", "open", "restore"} \subseteq PostSteps
  BY DEF PreSteps, PostSteps
<1>1. CASE Drops(j)
  <2>1. toWeb' = toWeb /\ job'[j].step = "none" /\ phase' # "ready" /\ (phase' = "onboarding" => j \in Onboardings)
    BY <1>1, <1>n, <1>r, <1>s DEF Drops
  <2>2. QED
    BY <1>S, <1>u, <1>w, <1>z, <2>1
<1>2. ASSUME NEW old \in PreSteps, At(j, old), NEW new \in PreSteps, NEW r, Sets(j, r), r.step = new, toWeb' = toWeb,
             phase' = phase
      PROVE  /\ (\E d \in Docs : job'[d].step \in PreSteps) => Untouched'
             /\ (\E d \in Docs : job'[d].step = "boot") => Opening'
             /\ (\E d \in Docs : job'[d].step \in PostSteps) => Opened'
             /\ phase' \in {"onboarding", "ready"} => Opened'
             /\ phase' = "ready" \/ (\E f \in Onboardings : job'[f].step = "save") => memVault' \in accounts'
  <2>1. job'[j].step = new /\ new # "save"
    BY <1>2, <1>r DEF PreSteps
  <2>2. QED
    BY <1>2, <1>S, <1>s, <1>u, <1>w, <1>z, <2>1 DEF At
<1>3. CASE j \in Docs /\ (Proceeds(j) \/ ReadsKey(j))
  BY <1>2, <1>3, <1>n, <1>z DEF Proceeds, ReadsKey
<1>4. CASE Looks(j)
  BY <1>2, <1>4, <1>n, <1>z DEF Looks
<1>5. CASE Generates(j)
  BY <1>2, <1>5, <1>n, <1>z DEF Generates
<1>6. CASE j \in Docs /\ AsksBoot(j)
  <2>1. job[j].step \in PreSteps /\ \E plain \in Nat : Asks(j, "boot", plain)
    BY <1>6, <1>y, <1>z DEF AsksBoot, At
  <2>2. Opening' /\ job'[j].step = "boot" /\ phase' = phase
    BY <1>6, <1>S, <1>x, <1>y, <2>1
  <2>3. QED
    BY <1>6, <1>s, <1>w, <1>z, <2>2
<1>7. CASE j \in Docs /\ FindsNone(j)
  <2>1. Opened /\ toWeb' = toWeb /\ job'[j].step = "absent" /\ phase' = phase
    BY <1>7, <1>S, <1>n, <1>r, <1>z DEF FindsNone, At
  <2>2. QED
    BY <1>7, <1>s, <1>u, <1>w, <1>z, <2>1
<1>13. CASE j \in Docs /\ Offers(j)
  <2>1. Opened /\ toWeb' = toWeb /\ job'[j].step = "none" /\ phase' = "onboarding"
    BY <1>13, <1>S, <1>n, <1>r, <1>z DEF Offers, At
  <2>2. QED
    BY <1>13, <1>s, <1>u, <1>w, <1>z, <2>1
<1>8. CASE j \in Docs /\ FindsVault(j)
  <2>1. Opened /\ toWeb' = toWeb /\ job'[j].step = "open" /\ phase' = phase
    BY <1>8, <1>S, <1>n, <1>r, <1>z DEF FindsVault, At
  <2>2. QED
    BY <1>8, <1>s, <1>u, <1>w, <1>z, <2>1
<1>9. CASE j \in Docs /\ AsksRestore(j)
  <2>1. Opened /\ Asks(j, "restore", job[j].plain)
    BY <1>9, <1>S, <1>z DEF AsksRestore, At
  <2>2. Opened' /\ job'[j].step = "restore" /\ phase' = phase
    BY <1>x, <1>y, <2>1
  <2>3. QED
    BY <1>9, <1>s, <1>w, <1>z, <2>2
<1>10. CASE j \in Onboardings /\ AsksRegister(j)
  <2>1. Opened /\ Asks(j, "register", job[j].plain)
    BY <1>10, <1>S DEF AsksRegister
  <2>2. Opened' /\ job'[j].step = "register" /\ phase' = phase
    BY <1>x, <1>y, <2>1
  <2>3. QED
    BY <1>10, <1>s, <1>w, <2>2
<1>11. CASE j \in Onboardings /\ EndsReady(j)
  <2>1. /\ Opened /\ toWeb' = toWeb /\ job'[j].step = "none" /\ phase' = "ready"
        /\ memVault \in accounts /\ memVault' = memVault
    BY <1>11, <1>S, <1>n, <1>r DEF EndsReady
  <2>2. QED
    BY <1>11, <1>s, <1>u, <1>w, <2>1
<1>12. QED
  BY <1>m, <1>1, <1>3, <1>4, <1>5, <1>6, <1>7, <1>8, <1>9, <1>10, <1>11, <1>13 DEF JobMoves, BootMoves, FlowMoves


LEMMA StagedStep ==
  ASSUME Settled, Aware, [Next]_vars, ~stale, ~stale'
  PROVE  Staged'
<1>p. /\ JobsOK /\ DiskOK /\ TypeOK /\ CountersOK /\ Carried /\ WebOK /\ RequestsOK
      /\ toHost \in Seq(Events) /\ (NoticePosted <=> Notices(toHost))
      /\ toHost' \in Seq(Events) /\ (NoticePosted' <=> Notices(toHost'))
      /\ job \in [Jobs -> JobRecords]
  BY Parts, QueueTypes, QueueTypesNext, TypedStep DEF Settled, JobsOK
<1>o. Solo /\ AccountAtHand /\ Clean /\ Staged
  BY DEF Aware
<1>n. /\ Idle.step = "none" /\ Booting.step = "probe"
      /\ \A step, plain, under : Record(step, plain, under).step = step
      /\ "none" \notin PreSteps /\ "none" \notin PostSteps
  BY DEF Idle, Booting, Record, PreSteps, PostSteps
<1>e. ASSUME \A k \in Jobs : ~Active(k)', phase' \notin {"onboarding", "ready"}
      PROVE  Staged'
  BY <1>e, <1>n, JobSorts DEF Staged, At, Active
<1>g. ASSUME Noticing' PROVE Staged'
  BY <1>g DEF Staged
<1>1. CASE Start
  <2>1. phase = "init" /\ phase' \notin {"onboarding", "ready"} /\ job' = job
    BY <1>1 DEF Start
  <2>2. \A k \in Jobs : ~Active(k)'
    BY <1>o, <2>1, JobSorts DEF Solo, Active
  <2>3. QED
    BY <1>e, <2>1, <2>2
<1>2. CASE Restart
  <2>1. CASE origin
    BY <1>2, <1>g, <2>1 DEF Restart, BeginLoad, Noticing
  <2>2. CASE ~origin
    <3>1. page = "none" /\ ~Noticing
      BY <1>p, <2>2 DEF Settled, Linked, Noticing, Notices
    <3>2. phase \in {"fatal", "crashed"} /\ phase' = "webview" /\ job' = job
      BY <1>2 DEF Restart, RestartOffered, RestartSession
    <3>3. \A k \in Jobs : ~Active(k)'
      BY <1>o, <3>1, <3>2, JobSorts DEF Solo, Active
    <3>4. QED
      BY <1>e, <3>2, <3>3
  <2>3. QED
    BY <2>1, <2>2
<1>3. CASE Onboard
  <2>1. /\ phase = "onboarding" /\ phase' = phase /\ UNCHANGED <<toHost, toWeb, page, session, accounts, handler>>
    BY <1>3 DEF Onboard, CreateAccountOffered, channels, web
  <2>a. generated' \in Accounts
    BY <1>3, <1>p, BoundsAssumption DEF Onboard, CountersOK, Accounts
  <2>f. PICK f \in Onboardings : f = Flow(generated')
    BY <2>a, JobSorts
  <2>2. job'[f].step = "seal" /\ \A k \in Jobs \ {f} : job'[k] = job[k]
    BY <1>3, <1>p, <2>f, JobSorts DEF Onboard
  <2>3. \A k \in Jobs : k # f => job'[k].step = "none"
    BY <1>3, <1>o, <2>1, <2>2, JobSorts DEF Solo, Active, Onboard, CreateAccountOffered
  <2>g. \A d \in Docs : job'[d].step = "none"
    BY <2>3, JobSorts
  <2>h. \A k \in Onboardings : job'[k].step # "save"
    BY <2>2, <2>3, JobSorts
  <2>4. Noticing' <=> Noticing
    BY <2>1 DEF Noticing, NoticePosted
  <2>5. Opened => Opened'
    BY <2>1 DEF Opened, NoneHandled, Handling, HandlerAt, Requests
  <2>6. QED
    BY <1>n, <1>o, <2>1, <2>g, <2>h, <2>4, <2>5 DEF Staged, At
<1>4. CASE OnReady
  <2> SUFFICES ASSUME ~Noticing' PROVE Staged'
    BY <1>g
  <2>1. /\ toHost # <<>> /\ toHost' = Tail(toHost) /\ Head(toHost).type = "ready"
        /\ UNCHANGED <<page, session, accounts, handler>>
    BY <1>4, <1>p, Readying DEF web
  <2>2. ~Notices(toHost') /\ page # "loading"
    BY <1>p, <2>1 DEF Noticing
  <2>3. Last(toHost, 1) /\ 1 \in 1..Len(toHost) /\ toHost[1].type = "ready"
    BY <1>p, <2>1, <2>2, EventTaken
  <2>4. page = "live"
    BY <2>2, <2>3 DEF Settled, Linked
  <2>5. NoticePosted
    BY <1>p, <2>3 DEF Notices
  <2>6. Untouched
    BY <1>o, <2>4, <2>5 DEF Clean
  <2>7. PICK d \in Docs : /\ \A k \in Jobs \ {d} : ~Active(k)'
                          /\ \/ ~Active(d)' /\ phase' = "fatal"
                             \/ job'[d] = Booting /\ phase' \in {"boot", "fatal"} /\ Post(ProbeOf(d))
    BY <1>4, <1>p, Readying
  <2>8. CASE ~Active(d)' /\ phase' = "fatal"
    BY <1>e, <2>7, <2>8
  <2>9. CASE job'[d] = Booting /\ phase' \in {"boot", "fatal"} /\ Post(ProbeOf(d))
    <3>1. PICK m : m = ProbeOf(d)
      OBVIOUS
    <3>2. m \in Messages /\ m.method = "probe" /\ toWeb' = Append(toWeb, m)
      BY <2>4, <2>9, <3>1, JobSorts DEF ProbeOf, Messages, CallSteps, None, Post
    <3>3. NoneHandled' /\ Requests({"probe"})'
      BY <1>p, <2>1, <2>6, <3>2, StageAsked DEF RequestsOK
    <3>4. \A i \in 1..Len(toHost') :
            \E k \in 1..Len(toHost) : toHost'[i] = toHost[k] /\ (Last(toHost', i) => Last(toHost, k))
      BY <1>p, <2>1, EventTaken
    <3>5. Results({"probe"})'
      BY <2>6, <3>4 DEF Untouched, Results
    <3>6. Untouched'
      BY <3>3, <3>5 DEF Untouched
    <3>7. /\ \A k \in Docs : job'[k].step \in {"none", "probe"}
          /\ \A f \in Onboardings : job'[f].step = "none"
      BY <1>n, <2>7, <2>9, JobSorts DEF Active
    <3>8. "probe" \notin PostSteps
      BY DEF PostSteps
    <3>9. QED
      BY <1>n, <2>9, <3>6, <3>7, <3>8 DEF Staged, At
  <2>10. QED
    BY <2>7, <2>8, <2>9
<1>5. CASE OnCrash
  BY <1>5, <1>e, <1>p, Crashing
<1>6. CASE OnResult
  <2> SUFFICES ASSUME ~Noticing'
               PROVE  /\ (\E d \in Docs : job'[d].step \in PreSteps) => Untouched'
                      /\ (\E d \in Docs : job'[d].step = "boot") => Opening'
                      /\ (\E d \in Docs : job'[d].step \in PostSteps) => Opened'
                      /\ phase' \in {"onboarding", "ready"} => Opened'
                      /\ phase' = "ready" \/ (\E f \in Onboardings : job'[f].step = "save") => memVault' \in accounts'
    BY DEF Staged, At
  <2>1. /\ toHost # <<>> /\ toHost' = Tail(toHost)
        /\ UNCHANGED <<memVault, toWeb, page, session, accounts, handler>>
    BY <1>6, <1>p, Answering DEF web
  <2>a. Head(toHost).type = "result"
    BY <1>6 DEF OnResult, Receive
  <2>2. ~Noticing
    BY <1>p, <2>1, <2>a, EventTaken DEF Noticing
  <2>3. (Untouched => Untouched') /\ (Opening => Opening') /\ (Opened => Opened')
    BY <1>p, <2>1, StageTaken
  <2>4. PICK j \in Jobs, m \in Answers :
          /\ m = Head(toHost) /\ m.type = "result"
          /\ \/ UNCHANGED <<phase, busy, job, shown>>
             \/ Drops(j)
             \/ j \in Docs /\ At(j, "restore") /\ Answered(j, m) /\ Sets(j, Idle) /\ ShowWallet
             \/ j \in Docs /\ At(j, "probe") /\ Answered(j, m) /\ GoesOn(j, "srs")
             \/ j \in Docs /\ At(j, "boot") /\ Answered(j, m) /\ GoesOn(j, "vault")
             \/ j \in Onboardings /\ At(j, "register") /\ Answered(j, m) /\ GoesOn(j, "save")
    BY <1>6, <1>p, Answering
  <2>5. 1 \in 1..Len(toHost) /\ toHost[1] = m
    BY <1>p, <2>1, <2>4, EventTaken
  <2>S. /\ (\E d \in Docs : job[d].step \in PreSteps) => Untouched
        /\ (\E d \in Docs : job[d].step = "boot") => Opening
        /\ (\E d \in Docs : job[d].step \in PostSteps) => Opened
        /\ phase \in {"onboarding", "ready"} => Opened
        /\ phase = "ready" \/ (\E f \in Onboardings : job[f].step = "save") => memVault \in accounts
    BY <1>o, <2>2 DEF Staged, At
  <2>r. ASSUME NEW r, Sets(j, r), Active(j)
        PROVE  job'[j] = r /\ \A k \in Jobs \ {j} : job'[k].step = "none"
    <3>1. \A k \in Jobs \ {j} : job[k].step = "none"
      BY <1>o, <2>r, Alone
    <3>2. QED
      BY <1>p, <2>r, <3>1 DEF Sets
  <2>6. CASE UNCHANGED <<phase, busy, job, shown>>
    BY <2>1, <2>3, <2>6, <2>S
  <2>7. CASE Drops(j)
    <3>1. /\ \A k \in Jobs : job'[k].step = "none"
          /\ phase' = "fatal" \/ phase' = phase
      BY <1>n, <2>7, <2>r DEF Drops
    <3>2. QED
      BY <1>n, <2>1, <2>3, <2>S, <3>1, JobSorts
  <2>8. CASE j \in Docs /\ At(j, "restore") /\ Answered(j, m) /\ Sets(j, Idle) /\ ShowWallet
    <3>1. Active(j) /\ memVault = job[j].plain /\ "restore" \in PostSteps
      BY <1>o, <2>8 DEF At, Active, AccountAtHand, PostSteps
    <3>2. \A k \in Jobs : job'[k].step = "none"
      BY <1>n, <2>8, <2>r, <3>1
    <3>3. Opened
      BY <2>8, <2>S, <3>1 DEF At
    <3>4. memVault \in accounts
      BY <2>4, <2>5, <2>8, <3>1, <3>3 DEF Opened, Answered, At
    <3>5. QED
      BY <1>n, <2>1, <2>3, <2>8, <3>2, <3>3, <3>4, JobSorts DEF ShowWallet
  <2>9. CASE j \in Docs /\ At(j, "probe") /\ GoesOn(j, "srs")
    <3>1. Active(j) /\ {"probe", "srs"} \subseteq PreSteps /\ "srs" \notin PostSteps
      BY <2>9 DEF At, Active, PreSteps, PostSteps
    <3>2. /\ \A k \in Jobs : k # j => job'[k].step = "none"
          /\ job'[j].step = "srs" /\ phase' = phase
      BY <1>n, <2>9, <2>r, <3>1 DEF GoesOn
    <3>3. Untouched
      BY <2>9, <2>S, <3>1 DEF At
    <3>4. phase \notin {"onboarding", "ready"}
      BY <1>o, <2>9, <3>1 DEF Solo
    <3>5. QED
      BY <1>n, <2>3, <2>9, <3>1, <3>2, <3>3, <3>4, JobSorts
  <2>10. CASE j \in Docs /\ At(j, "boot") /\ Answered(j, m) /\ GoesOn(j, "vault")
    <3>1. Active(j) /\ "vault" \notin PreSteps
      BY <2>10 DEF At, Active, PreSteps
    <3>2. /\ \A k \in Jobs : k # j => job'[k].step = "none"
          /\ job'[j].step = "vault" /\ phase' = phase
      BY <1>n, <2>10, <2>r, <3>1 DEF GoesOn
    <3>3. Opening
      BY <2>10, <2>S DEF At
    <3>4. m.method = "boot" /\ m.ok
      BY <2>10 DEF Answered, At
    <3>5. NoneHandled /\ Requests({"probe"}) /\ session
      BY <2>4, <2>5, <3>3, <3>4 DEF Opening
    <3>6. \A i \in 1..Len(toHost) : toHost[i].type = "result" => toHost[i].method \in {"probe", "boot"}
      <4>1. ~Notices(toHost)
        BY <1>p, <2>2 DEF Noticing
      <4>2. \A i \in 1..Len(toHost) : Last(toHost, i)
        BY <1>p, <4>1, AllAnswers
      <4>3. QED
        BY <3>3, <4>2 DEF Opening, Results
    <3>7. Opened
      BY <3>5, <3>6 DEF Opened, Requests, NoneHandled, Handling, HandlerAt
    <3>8. phase \notin {"onboarding", "ready"}
      BY <1>o, <2>10, <3>1 DEF Solo
    <3>9. QED
      BY <1>n, <2>3, <2>10, <3>1, <3>2, <3>7, <3>8, JobSorts
  <2>11. CASE j \in Onboardings /\ At(j, "register") /\ Answered(j, m) /\ GoesOn(j, "save")
    <3>1. Active(j) /\ phase = "onboarding" /\ memVault = job[j].plain
      BY <1>o, <2>11 DEF At, Active, Solo, AccountAtHand
    <3>2. /\ \A k \in Jobs : k # j => job'[k].step = "none"
          /\ job'[j].step = "save" /\ phase' = phase
      BY <1>n, <2>11, <2>r, <3>1 DEF GoesOn
    <3>3. Opened
      BY <2>S, <3>1
    <3>4. memVault \in accounts
      BY <2>4, <2>5, <2>11, <3>1, <3>3 DEF Opened, Answered, At
    <3>5. \A d \in Docs : job'[d].step = "none"
      BY <2>11, <3>2, JobSorts
    <3>6. QED
      BY <1>n, <2>1, <2>3, <3>3, <3>4, <3>5
  <2>12. QED
    BY <2>4, <2>6, <2>7, <2>8, <2>9, <2>10, <2>11
<1>7. ASSUME NEW j \in Jobs, JobStep(j) PROVE Staged'
  BY <1>7, <1>o, StagedMove
<1>8. CASE PageStep
  <2> SUFFICES ASSUME ~Noticing' PROVE Staged'
    BY <1>g
  <2>1. UNCHANGED <<phase, job, memVault, page>>
    BY <1>8, <1>p, PageTypes DEF host
  <2>2. ~Noticing
    <3>1. toHost' = toHost \/ \E e \in Answers : toHost' = Append(toHost, e)
      BY <1>8, <1>p, PageAnswers
    <3>2. ASSUME NEW e \in Answers, toHost' = Append(toHost, e) PROVE Notices(toHost') <=> Notices(toHost)
      BY <1>p, <3>2, AnswerAppended
    <3>3. QED
      BY <1>p, <2>1, <3>1, <3>2 DEF Noticing
  <2>3. /\ Untouched => Untouched'
        /\ Opening => Opening'
        /\ Opened => Opened' /\ accounts \subseteq accounts'
    BY <1>8, <1>p, UntouchedPage, OpeningPage, OpenedPage
  <2>4. \A f \in Onboardings : job[f].step = "save" => phase = "onboarding"
    BY <1>o DEF Solo, Active
  <2>5. QED
    BY <1>o, <2>1, <2>2, <2>3, <2>4 DEF Staged, At
<1>9. CASE Loaded
  <2>1. toHost' = Append(toHost, [type |-> "ready", doc |-> doc]) /\ doc \in Docs
    BY <1>9, <1>p DEF Loaded, Carried
  <2>2. [type |-> "ready", doc |-> doc] \in Events
    BY <2>1 DEF Events
  <2>3. QED
    BY <1>g, <1>p, <2>1, <2>2, NoticeAppended DEF Noticing
<1>10. CASE SilentReload
  BY <1>10, <1>g DEF SilentReload, BeginLoad, Noticing
<1>11. CASE PageGone
  <2>1. [type |-> "crash"] \in Events /\ toHost' = Append(toHost, [type |-> "crash"])
    BY <1>11 DEF PageGone, Events
  <2>2. QED
    BY <1>g, <1>p, <2>1, NoticeAppended DEF Noticing
<1>12. CASE Kill
  <2>1. \A k \in Jobs : ~Active(k)'
    BY <1>12 DEF Kill, Active, Idle
  <2>2. QED
    BY <1>12, <1>e, <2>1 DEF Kill
<1>13. CASE UNCHANGED vars
  BY <1>13, <1>o DEF vars, host, channels, web, Staged, Noticing, NoticePosted, At, Untouched, Opening, Opened,
     NoneHandled, Handling, HandlerAt, Requests, Results, Last
<1>14. QED
  BY <1>1, <1>2, <1>3, <1>4, <1>5, <1>6, <1>7, <1>8, <1>9, <1>10, <1>11, <1>12, <1>13 DEF Next, HostEvent


-------------------------------------------------------------------------------
(* The inductive invariant, and what follows. *)

LEMMA Initially == Init => IInv
<1> SUFFICES ASSUME Init PROVE IInv
  OBVIOUS
<1>1. TypeOK
  <2>1. job \in [Jobs -> JobRecords]
    BY IdleOK DEF Init
  <2>2. handler \in [Jobs -> Handlers]
    BY HandlerNone DEF Init
  <2>3. NoBlob \in Blobs /\ None \in Nat
    BY DEF NoBlob, Blobs, None
  <2>4. 0 \in 0..MaxLoads /\ 0 \in 0..MaxAccounts /\ 0 \in 0..MaxKills
    BY BoundsAssumption
  <2>5. /\ diskKey \in Blobs /\ diskVault \in Blobs /\ {keystore, store} \subseteq Nat
        /\ doc \in 0..MaxLoads /\ generated \in 0..MaxAccounts /\ kills \in 0..MaxKills
    BY <2>3, <2>4 DEF Init
  <2>6. /\ toWeb \in Seq([job : Jobs, method : CallSteps, plain : Nat])
        /\ toHost \in Seq([type : {"ready"}, doc : Docs] \cup [type : {"crash"}]
                       \cup [type : {"result"}, job : Jobs, method : CallSteps, plain : Nat, ok : BOOLEAN])
    BY DEF Init
  <2>7. /\ phase \in {"init", "webview", "boot", "ready", "onboarding", "fatal", "crashed"}
        /\ busy \in BOOLEAN /\ booted \in BOOLEAN /\ shown \in Accounts \cup {None}
        /\ origin \in BOOLEAN /\ crashed \in BOOLEAN /\ session \in BOOLEAN /\ stale \in BOOLEAN
        /\ memVault \in Accounts \cup {None} /\ accounts \subseteq Accounts
        /\ page \in {"none", "loading", "live", "gone"}
    BY DEF Init
  <2>8. QED
    BY <2>1, <2>2, <2>5, <2>6, <2>7 DEF TypeOK, JobRecords, AllSteps, Handlers, HandlerSteps
<1>2. \A j \in Jobs : job[j] = Idle /\ job[j].step = "none"
  BY DEF Init, Idle
<1>3. toWeb = <<>> /\ toHost = <<>> /\ Len(toWeb) = 0 /\ Len(toHost) = 0
  BY DEF Init
<1>7. \A j \in Jobs : handler[j].step = "none"
  BY HandlerNone DEF Init, NoHandlers, NoHandler
<1>4. Carried
  BY <1>2, <1>3, <1>7, IdleOK DEF Init, Carried, NoBlob, Accountable
<1>5. Linked /\ LoadAwaited
  BY <1>3 DEF Init, Linked, LoadAwaited
<1>6. Solo /\ AccountAtHand
  BY <1>2, JobSorts DEF Init, Solo, AccountAtHand, Active, At
<1>8. KeysInOrder
  BY <1>2, <1>3, <1>7, JobSorts DEF Init, KeysInOrder, At
<1>9. Clean /\ Staged
  BY <1>2, JobSorts DEF Init, Clean, Staged, At, PreSteps, PostSteps
<1>10. QED
  BY <1>1, <1>4, <1>5, <1>6, <1>8, <1>9 DEF IInv, Aware

LEMMA Kept == IInv /\ [Next]_vars => IInv'
<1> SUFFICES ASSUME IInv, [Next]_vars PROVE IInv'
  OBVIOUS
<1>1. Settled
  BY DEF IInv, Settled
<1>2. TypeOK' /\ Carried'
  BY <1>1, TypedStep DEF Settled
<1>3. Linked' /\ LoadAwaited'
  BY <1>1, LinkedStep DEF Settled
<1>4. ASSUME ~stale' PROVE Aware'
  <2>1. ~stale
    BY <1>1, <1>4, StaleStays DEF Settled, TypeOK
  <2>2. Aware
    BY <2>1 DEF IInv
  <2>3. Solo /\ KeysInOrder /\ AccountAtHand /\ Clean
    BY <2>2 DEF Aware
  <2>4. Solo'
    BY <1>1, <1>4, <2>1, <2>3, SoloStep
  <2>5. KeysInOrder'
    BY <1>1, <1>4, <2>1, <2>3, KeysStep
  <2>6. AccountAtHand'
    BY <1>1, <1>4, <2>1, <2>3, AccountStep
  <2>7. Clean'
    BY <1>1, <1>4, <2>1, <2>3, CleanStep
  <2>8. Staged'
    BY <1>1, <1>4, <2>1, <2>2, StagedStep
  <2>9. QED
    BY <2>4, <2>5, <2>6, <2>7, <2>8 DEF Aware
<1>5. QED
  BY <1>2, <1>3, <1>4 DEF IInv

THEOREM Inductive == Spec => []IInv
  BY Initially, Kept, PTL DEF Spec

\* Type correctness.
THEOREM Typing == Spec => []TypeOK
<1>1. IInv => TypeOK
  BY DEF IInv
<1>2. QED
  BY <1>1, Inductive, PTL

\* "Loading PXE" is shown only while a load is under way or its end is on its way,
\* if the server ever came up.
THEOREM LoadIsAwaited == Spec => []LoadAwaited
<1>1. IInv => LoadAwaited
  BY DEF IInv
<1>2. QED
  BY <1>1, Inductive, PTL

\* Until a job goes on unaware, the wallet on the screen is the one in the page
\* and on disk, whatever reloads, crashes, times out or is killed.
THEOREM ScreenBacked == Spec => []ScreenIsBacked
<1>1. IInv => ScreenIsBacked
  BY DEF IInv, Aware, Solo, AccountAtHand, Staged, Opened, ScreenIsBacked
<1>2. QED
  BY <1>1, Inductive, PTL

\* Until then, what is on disk can be opened with what else is on disk.
THEOREM StorageCanOpen == Spec => []StorageOpens
<1>1. IInv => StorageOpens
  BY DEF IInv, Aware, KeysInOrder, StorageOpens
<1>2. QED
  BY <1>1, Inductive, PTL

\* Until then, the account that the wallet was shown with keeps its keys, and no
\* boot offers to onboard over it.
THEOREM AccountIsKept == Spec => []AccountKept
<1>1. IInv => AccountKept
  BY DEF IInv, Aware, AccountAtHand, AccountKept
<1>2. QED
  BY <1>1, Inductive, PTL

\* A working wallet is not taken down by a boot that came before it.
THEOREM ReadyRemains == Spec => ReadyStays
<1>1. ASSUME IInv, [Next]_vars, phase = "ready", phase' = "fatal", ~stale PROVE FALSE
  <2>1. Solo /\ TypeOK /\ Carried
    BY <1>1 DEF IInv, Aware
  <2>2. (\A j \in Jobs : ~Active(j)) /\ ~crashed
    BY <1>1, <2>1, JobSorts DEF Solo
  <2>3. \A d \in Docs : ~Waiting(d)
    BY <2>2, JobSorts DEF Waiting, Active, CallSteps
  <2>4. ~OnReady /\ ~OnCrash
    BY <1>1, <2>2, <2>3 DEF OnReady, OnCrash, PhaseAfter, Boots
  <2>5. ~OnResult
    <3>1. SUFFICES ASSUME OnResult PROVE FALSE
      OBVIOUS
    <3>2. JobsOK /\ toHost \in Seq(Events)
      BY <2>1, Parts, QueueTypes
    <3>3. PICK j \in Jobs : phase' = phase \/ Active(j) \/ phase' = "ready"
      BY <3>1, <3>2, Answering DEF Drops, GoesOn, ShowWallet
    <3>4. QED
      BY <1>1, <2>2, <3>3
  <2>6. \A j \in Jobs : ~JobStep(j)
    BY <2>2, JobActive
  <2>7. ~PageStep
    BY <1>1 DEF PageStep, StorageProbe, BootCalled, OpfsProbed, StoreOpens, StoreFallsBack, WalletCreated,
                BootReturns, BootThrows, AccountCalled, AccountCreated, AccountFails, host
  <2>8. ~(Start \/ Restart \/ Onboard)
    BY <1>1 DEF Start, Restart, RestartSession, Onboard
  <2>9. ~(Loaded \/ SilentReload \/ PageGone \/ Kill \/ UNCHANGED vars)
    BY <1>1 DEF Loaded, SilentReload, PageGone, Kill, vars, host
  <2>10. QED
    BY <1>1, <2>4, <2>5, <2>6, <2>7, <2>8, <2>9 DEF Next, HostEvent
<1>2. QED
  BY <1>1, Inductive, PTL DEF Spec, ReadyStays
================================================================================
