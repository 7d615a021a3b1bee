------------------------------ MODULE TxStoreProofs ------------------------------
(***************************************************************************)
(* Proofs about TxStore, for any number of overlapping polls, of           *)
(* transactions, of accounts and of faults: every safety property of the   *)
(* store, and that it implements TxLifecycle.                              *)
(*                                                                         *)
(* What a vault or a table of transactions may say depends on the chain    *)
(* only; facts about them take it as parameters (n for node, o for owner,  *)
(* k for mined).                                                           *)
(***************************************************************************)
EXTENDS TxStore, WellFoundedInduction, TLAPS

\* A table knows only transactions the node has accepted, and has settled them as
\* a block has, or as the node has dropped them.
TableIn(n, k, t) ==
  \A h \in Hashes :
    /\ t[h] # "none" => n[h] # "absent"
    /\ t[h] = "dropped" => n[h] = "gone"
    /\ t[h] \in Mined => t[h] \in k[h]

VaultIn(o, k, v) == v.deployed => \E h \in Hashes : o[h] = v.account /\ "success" \in k[h]

QueueIn(n, k, q) == \A i \in 1..Len(q) : TableIn(n, k, q[i].value)

\* Whatever is kept, and whatever is on its way to the disk, is true.
Sound ==
  /\ VaultIn(owner, mined, memVault) /\ VaultIn(owner, mined, diskVault)
  /\ \A s \in seals : VaultIn(owner, mined, s.value)
  /\ TableIn(node, mined, memTxs) /\ TableIn(node, mined, diskTxs)
  /\ QueueIn(node, mined, writes)

\* Who waits for the table w, given the flow fl and the polls pl: everybody waits
\* for at most one.
Awaited(fl, pl, w) ==
  /\ w.by = "flow" => fl.step = "track" /\ w.value[fl.tx] # "none"
  /\ \A p \in Polls : w.by = p => pl[p].step = "apply"

Queue(fl, pl, q) ==
  \A i \in 1..Len(q) :
    /\ Awaited(fl, pl, q[i])
    /\ \A j \in 1..Len(q) : i # j => q[i].by # q[j].by

\* Who waits for a vault: everybody for at most one, and all are of one account.
Sealing(fl, pl, account, S) ==
  \A s \in S :
    /\ s.by = "flow" => fl.step \in {"seal", "cache", "hash"}
    /\ \A p \in Polls : s.by = p => pl[p].step = "mark"
    /\ s.value.account = account
    /\ \A t \in S : s.by = t.by => s = t

\* The tables t and u are one step of the life cycle apart, or equal.
Leaves(from, to) ==
  \/ from = "none" /\ to = "submitted"
  \/ from = "submitted" /\ to = "pending"
  \/ from \in {"submitted", "pending"} /\ to \in Settled

Moves(t, u) ==
  \/ u = t
  \/ \E h \in Hashes, status \in Statuses :
       u = [t EXCEPT ![h] = status] /\ Leaves(t[h], status)

\* u knows every transaction that t knows.
Below(t, u) == \A h \in Hashes : t[h] # "none" => u[h] # "none"

\* From the table t on disk the writes of q lead to the table u, step by step: f[i]
\* is what the disk will hold when i of them have landed.
Leads(f, t, q, u) ==
  /\ f \in [0..Len(q) -> Tables]
  /\ f[0] = t /\ f[Len(q)] = u
  /\ \A i \in 1..Len(q) : f[i] = q[i].value /\ Moves(f[i - 1], f[i])
  /\ \A i \in 0..Len(q) : Below(f[i], u)

Linked(t, q, u) == \E f : Leads(f, t, q, u)

PollsIdle == \A p \in Polls : poll[p] = IdlePoll

\* Nothing has run since the app started, and nothing has been tracked.
Asleep ==
  /\ memVault = NoVault /\ flow = IdleFlow /\ ~poller /\ PollsIdle
  /\ seals = {} /\ writes = <<>>
Untracked == ~poller /\ PollsIdle /\ memTxs = NoTxs

\* What each phase of the snapshot excludes, and what an onboarding does.
Phases ==
  /\ phase = "down" => Asleep /\ memTxs = NoTxs /\ ~booting
  /\ phase = "boot" => booting
  /\ phase = "onboarding" => ~booting /\ ~poller /\ PollsIdle /\ (At("track") \/ memTxs = NoTxs)
  /\ phase = "ready" => flow.step \in {"idle", "send", "track"}
  /\ At("send") => phase = "ready"
  /\ flow.step \in {"seal", "create", "cache", "deploy", "hash"} => Untracked
  /\ diskVault.account = None => Untracked /\ flow.step \notin {"send", "track"}

\* The transaction in the hands of the flow.
Flowing ==
  /\ flow.step \in {"idle", "seal", "create", "cache"} => flow.tx = None
  /\ flow.step \in {"hash", "track"} => flow.tx # None
  /\ flow.tx # None =>
       /\ node[flow.tx] # "absent" /\ owner[flow.tx] \in {None, memVault.account}
       /\ At("track") \/ memTxs[flow.tx] = "none"
       /\ phase = "onboarding" \/ flow.step \in {"deploy", "hash"} => owner[flow.tx] # None

\* What a poll holds in its hands is known to the store; a receipt may be stale, but
\* the result it tells was that of a block, and "dropped" is right once the grace
\* window has ended.
Polling ==
  /\ \A p \in Polls :
       /\ poll[p].step # "idle" => poll[p].todo # {}
       /\ \A h \in poll[p].todo : memTxs[h] # "none"
       /\ poll[p].step = "answered" =>
            /\ poll[p].receipt # "none"
            /\ poll[p].receipt \in Mined => poll[p].receipt \in mined[Polled(p)]
            /\ poll[p].receipt = "dropped" /\ Polled(p) \in old => node[Polled(p)] = "gone"
  /\ \A h \in Hashes :
       /\ node[h] \in Mined => node[h] \in mined[h]
       /\ mined[h] # {} => node[h] # "absent"
  /\ \A h \in old : node[h] \notin {"absent", "unseen"}

\* Accounts: the vault on disk is that of the flow but while it is first sealed, or
\* before a boot has read it; an accepted deployment is sealed, a tracked one is
\* that of the vault.
Accounted ==
  /\ memVault.account <= generated /\ diskVault.account <= generated
  /\ At("seal") => memVault.account = generated /\ phase \in {"onboarding", "boot"}
  /\ \/ phase \in {"down", "boot"} /\ Asleep
     \/ At("seal")
     \/ diskVault.account = memVault.account
  /\ phase = "ready" \/ flow.step # "idle" => memVault.account # None
  /\ \A h \in Hashes :
       /\ owner[h] <= diskVault.account
       /\ memTxs[h] # "none" => owner[h] \in {None, diskVault.account}
       /\ diskTxs[h] # "none" => owner[h] \in {None, diskVault.account} /\ diskVault.account # None

\* Memory, the disk and what is on its way between them.
Stored ==
  /\ memVault \in Vaults /\ diskVault \in Vaults
  /\ memTxs \in Tables /\ diskTxs \in Tables
  /\ seals \subseteq Writes(Vaults)
  /\ writes \in Seq(Writes(Tables))
  /\ Sound
  /\ Queue(flow, poll, writes)
  /\ Sealing(flow, poll, memVault.account, seals)
  /\ phase # "down" => Linked(diskTxs, writes, memTxs)

IInv == TypeOK /\ Stored /\ Phases /\ Flowing /\ Polling /\ Accounted /\ TrackedIsDurable /\ PollerRuns

\* How the chain may change: what is gone stays, and so does what is known of the
\* transactions that have been accepted.
Grows(n, o, k, m, b, l) ==
  \A h \in Hashes :
    /\ n[h] = "gone" => m[h] = "gone"
    /\ n[h] # "absent" => m[h] # "absent" /\ b[h] = o[h]
    /\ k[h] \subseteq l[h]
    /\ k[h] # {} => n[h] # "absent"

USE BoundsAssumption, PollsAssumption

-------------------------------------------------------------------------------
(* Facts about values. *)

\* The least element that a poll takes is one of its own.
LEMMA MinIn ==
  ASSUME NEW S \in SUBSET Nat, S # {}
  PROVE  Min(S) \in S
<1> DEFINE R == OpToRel(<, Nat)
<1>1. IsWellFoundedOn(R, Nat)
  BY NatLessThanWellFounded
<1>2. \A x, y \in Nat : x < y => <<x, y>> \in R
  BY DEF OpToRel
<1> HIDE DEF R
<1>3. PICK x \in S : \A y \in S : ~(<<y, x>> \in R)
  BY <1>1, WFMin
<1>4. \A y \in S : x <= y
  <2>1. SUFFICES ASSUME NEW y \in S, ~(x <= y) PROVE FALSE
    OBVIOUS
  <2>2. x \in Nat /\ y \in Nat
    OBVIOUS
  <2>3. y < x
    BY <2>1, <2>2
  <2>4. QED
    BY <1>2, <1>3, <2>2, <2>3
<1>5. QED
  BY <1>4 DEF Min

\* A table that the node bears out is borne out by a node that knows more,
LEMMA TableKept ==
  ASSUME NEW n, NEW o, NEW k, NEW m, NEW b, NEW l, Grows(n, o, k, m, b, l),
         NEW t, TableIn(n, k, t)
  PROVE  TableIn(m, l, t)
  BY DEF Grows, TableIn

\* and a vault is.
LEMMA VaultKept ==
  ASSUME NEW n, NEW o, NEW k, NEW m, NEW b, NEW l, Grows(n, o, k, m, b, l),
         NEW v, VaultIn(o, k, v)
  PROVE  VaultIn(b, l, v)
  BY DEF Grows, VaultIn

\* The queue when the oldest write lands ...
LEMMA TailShape ==
  ASSUME NEW q \in Seq(Writes(Tables)), q # <<>>
  PROVE  /\ Tail(q) \in Seq(Writes(Tables)) /\ Head(q) = q[1] /\ Head(q) \in Writes(Tables)
         /\ Len(q) >= 1 /\ Len(Tail(q)) = Len(q) - 1
         /\ \A i \in 1..Len(Tail(q)) : Tail(q)[i] = q[i + 1] /\ i + 1 \in 2..Len(q)
<1> DEFINE W == Writes(Tables)
<1> HIDE DEF W
<1>1. q \in Seq(W)
  BY DEF W
<1>2. Len(q) >= 1 /\ Tail(q) \in Seq(W) /\ Len(Tail(q)) = Len(q) - 1 /\ Head(q) = q[1] /\ q[1] \in W
  BY <1>1
<1>3. \A i \in 1..Len(Tail(q)) : Tail(q)[i] = q[i + 1] /\ i + 1 \in 2..Len(q)
  BY <1>1, <1>2
<1>4. QED
  BY <1>2, <1>3 DEF W

\* ... and when one is issued.
LEMMA PersistShape ==
  ASSUME NEW q \in Seq(Writes(Tables)), NEW w \in Writes(Tables)
  PROVE  /\ Append(q, w) \in Seq(Writes(Tables))
         /\ Len(q) \in Nat /\ Len(Append(q, w)) = Len(q) + 1
         /\ \A i \in 1..Len(q) : Append(q, w)[i] = q[i]
         /\ Append(q, w)[Len(q) + 1] = w
<1> DEFINE W == Writes(Tables)
<1> HIDE DEF W
<1>1. q \in Seq(W) /\ w \in W
  BY DEF W
<1>2. /\ Append(q, w) \in Seq(W)
      /\ Len(q) \in Nat /\ Len(Append(q, w)) = Len(q) + 1
      /\ \A i \in 1..Len(q) : Append(q, w)[i] = q[i]
      /\ Append(q, w)[Len(q) + 1] = w
  BY <1>1
<1>3. QED
  BY <1>2 DEF W

\* A move forgets nothing.
LEMMA MovesBelow ==
  ASSUME NEW t \in Tables, NEW u \in Tables, Moves(t, u)
  PROVE  Below(t, u)
  BY DEF Moves, Leaves, Below, Settled, Mined, Tables

\* The chain of tables when nothing is on its way ...
LEMMA LinkedNothing ==
  ASSUME NEW t \in Tables
  PROVE  Linked(t, <<>>, t)
<1> DEFINE f == [i \in 0..0 |-> t]
<1>1. Len(<<>>) = 0
  OBVIOUS
<1>2. Leads(f, t, <<>>, t)
  BY <1>1 DEF Leads, Below
<1>3. QED
  BY <1>2 DEF Linked

\* ... when the oldest write lands: the disk takes the next one.
LEMMA LinkedTail ==
  ASSUME NEW q \in Seq(Writes(Tables)), q # <<>>, NEW t, NEW u, Linked(t, q, u)
  PROVE  LET d == Head(q).value IN
         /\ d \in Tables /\ Moves(t, d) /\ Below(t, d) /\ Below(d, u)
         /\ Linked(d, Tail(q), u)
<1> DEFINE d == Head(q).value
<1>1. PICK f : Leads(f, t, q, u)
  BY DEF Linked
<1>2. d = f[1] /\ 1 \in 1..Len(q) /\ f[0] = t /\ f[0] \in Tables /\ f[1] \in Tables
  BY <1>1, TailShape DEF Leads
<1>3. Moves(t, d) /\ Below(d, u)
  BY <1>1, <1>2 DEF Leads
<1>4. Below(t, d)
  BY <1>2, <1>3, MovesBelow
<1> DEFINE g == [i \in 0..Len(Tail(q)) |-> f[i + 1]]
<1> HIDE DEF d
<1>5. Leads(g, d, Tail(q), u)
  <2>1. /\ Len(Tail(q)) \in Nat /\ Len(q) = Len(Tail(q)) + 1
        /\ \A i \in 1..Len(Tail(q)) : Tail(q)[i] = q[i + 1]
    BY TailShape
  <2>2. \A i \in 0..Len(Tail(q)) : g[i] = f[i + 1] /\ i + 1 \in 1..Len(q)
    BY <2>1
  <2>3. g \in [0..Len(Tail(q)) -> Tables]
    BY <1>1, <2>1, <2>2 DEF Leads
  <2>4. g[0] = d /\ g[Len(Tail(q))] = u
    BY <1>1, <1>2, <2>1, <2>2 DEF Leads
  <2>5. ASSUME NEW i \in 1..Len(Tail(q))
        PROVE  g[i] = Tail(q)[i].value /\ Moves(g[i - 1], g[i])
    <3>1. i - 1 \in 0..Len(Tail(q)) /\ i \in 0..Len(Tail(q)) /\ (i - 1) + 1 = i
      BY <2>1
    <3>2. g[i - 1] = f[i] /\ g[i] = f[i + 1] /\ i + 1 \in 1..Len(q) /\ (i + 1) - 1 = i
      BY <2>2, <3>1
    <3>3. f[i + 1] = q[i + 1].value /\ Moves(f[i], f[i + 1])
      BY <1>1, <3>2 DEF Leads
    <3>4. QED
      BY <2>1, <3>2, <3>3
  <2>6. \A i \in 0..Len(Tail(q)) : Below(g[i], u)
    BY <1>1, <2>1, <2>2 DEF Leads
  <2>7. QED
    BY <2>3, <2>4, <2>5, <2>6 DEF Leads
<1>6. QED
  BY <1>2, <1>3, <1>4, <1>5 DEF Linked, d

\* ... and when a table one move on is issued.
LEMMA LinkedPersist ==
  ASSUME NEW q \in Seq(Writes(Tables)), NEW t, NEW u, Linked(t, q, u),
         NEW w \in Writes(Tables), Moves(u, w.value)
  PROVE  Linked(t, Append(q, w), w.value)
<1> DEFINE r == Append(q, w)
           v == w.value
<1>1. PICK f : Leads(f, t, q, u)
  BY DEF Linked
<1> DEFINE g == [i \in 0..Len(r) |-> IF i = Len(r) THEN v ELSE f[i]]
<1>2. /\ Len(q) \in Nat /\ Len(r) = Len(q) + 1
      /\ \A i \in 1..Len(q) : r[i] = q[i]
      /\ r[Len(r)].value = v /\ v \in Tables
  BY PersistShape DEF Writes
<1> HIDE DEF r, v
<1>3. /\ f[0] = t /\ f[Len(q)] = u
      /\ \A i \in 0..Len(q) : f[i] \in Tables /\ Below(f[i], u)
  BY <1>1, <1>2 DEF Leads
<1>4. \A i \in 0..Len(q) : i # Len(r) /\ i \in 0..Len(r) /\ g[i] = f[i]
  BY <1>2
<1>5. g[Len(r)] = v
  BY <1>2
<1>6. g \in [0..Len(r) -> Tables]
  <2>1. \A i \in 0..Len(r) : i \in 0..Len(q) \/ i = Len(r)
    BY <1>2
  <2>2. QED
    BY <1>2, <1>3, <2>1
<1>7. Below(u, v) /\ Moves(u, v)
  <2>1. u \in Tables
    BY <1>2, <1>3
  <2>2. QED
    BY <1>2, <2>1, MovesBelow DEF v
<1>8. ASSUME NEW i \in 1..Len(r)
      PROVE  g[i] = r[i].value /\ Moves(g[i - 1], g[i])
  <2>1. i - 1 \in 0..Len(q) /\ g[i - 1] = f[i - 1]
    BY <1>2, <1>4
  <2>2. CASE i = Len(r)
    <3>1. i - 1 = Len(q) /\ g[i - 1] = u /\ g[i] = v
      BY <1>2, <1>3, <1>5, <2>1, <2>2
    <3>2. QED
      BY <1>2, <1>7, <2>2, <3>1
  <2>3. CASE i # Len(r)
    <3>1. i \in 1..Len(q) /\ i \in 0..Len(q)
      BY <1>2, <2>3
    <3>2. g[i] = f[i] /\ r[i] = q[i]
      BY <1>2, <1>4, <3>1
    <3>3. f[i] = q[i].value /\ Moves(f[i - 1], f[i])
      BY <1>1, <3>1 DEF Leads
    <3>4. QED
      BY <2>1, <3>2, <3>3
  <2>4. QED
    BY <2>2, <2>3
<1>9. ASSUME NEW i \in 0..Len(r) PROVE Below(g[i], v)
  <2>1. CASE i = Len(r)
    BY <1>5, <2>1 DEF Below
  <2>2. CASE i # Len(r)
    <3>1. i \in 0..Len(q)
      BY <1>2, <2>2
    <3>2. QED
      BY <1>3, <1>4, <1>7, <3>1 DEF Below
  <2>3. QED
    BY <2>1, <2>2
<1>10. g[0] = t
  BY <1>2, <1>3, <1>4
<1>11. Leads(g, t, r, v)
  BY <1>5, <1>6, <1>8, <1>9, <1>10 DEF Leads
<1>12. QED
  BY <1>11 DEF Linked, r, v

\* Memory knows what the disk knows.
LEMMA LinkedBelow ==
  ASSUME NEW t, NEW q \in Seq(Writes(Tables)), NEW u, Linked(t, q, u)
  PROVE  Below(t, u)
<1>1. PICK f : Leads(f, t, q, u)
  BY DEF Linked
<1>2. 0 \in 0..Len(q)
  BY PersistShape
<1>3. QED
  BY <1>1, <1>2 DEF Leads

\* What is said of every write in the queue: when the oldest lands, the others are
\* not its issuer's ...
LEMMA QueueTail ==
  ASSUME NEW q \in Seq(Writes(Tables)), q # <<>>, NEW fl, NEW pl, NEW n, NEW k,
         Queue(fl, pl, q), QueueIn(n, k, q)
  PROVE  /\ Awaited(fl, pl, Head(q)) /\ Queue(fl, pl, Tail(q))
         /\ \A i \in 1..Len(Tail(q)) : Tail(q)[i].by # Head(q).by
         /\ TableIn(n, k, Head(q).value) /\ QueueIn(n, k, Tail(q))
<1>1. /\ Head(q) = q[1] /\ 1 \in 1..Len(q)
      /\ \A i \in 1..Len(Tail(q)) : Tail(q)[i] = q[i + 1] /\ i + 1 \in 2..Len(q) /\ i + 1 \in 1..Len(q)
  BY TailShape
<1>2. \A i, j \in 1..Len(Tail(q)) : i # j => i + 1 # j + 1
  BY <1>1
<1>3. Awaited(fl, pl, Head(q)) /\ Queue(fl, pl, Tail(q))
  BY <1>1, <1>2 DEF Queue
<1>4. \A i \in 1..Len(Tail(q)) : Tail(q)[i].by # Head(q).by
  <2>1. \A i \in 1..Len(Tail(q)) : i + 1 # 1
    BY <1>1
  <2>2. QED
    BY <1>1, <2>1 DEF Queue
<1>5. TableIn(n, k, Head(q).value) /\ QueueIn(n, k, Tail(q))
  BY <1>1 DEF QueueIn
<1>6. QED
  BY <1>3, <1>4, <1>5

\* ... when one is issued by somebody who waits for none ...
LEMMA QueuePersist ==
  ASSUME NEW q \in Seq(Writes(Tables)), NEW fl, NEW pl, NEW n, NEW k,
         Queue(fl, pl, q), QueueIn(n, k, q),
         NEW w \in Writes(Tables), Awaited(fl, pl, w), TableIn(n, k, w.value),
         \A i \in 1..Len(q) : q[i].by # w.by
  PROVE  Queue(fl, pl, Append(q, w)) /\ QueueIn(n, k, Append(q, w))
<1> DEFINE r == Append(q, w)
<1>1. /\ Len(q) \in Nat /\ Len(r) = Len(q) + 1
      /\ \A i \in 1..Len(q) : r[i] = q[i]
      /\ r[Len(r)] = w
  BY PersistShape
<1> HIDE DEF r
<1>2. \A i \in 1..Len(r) : i \in 1..Len(q) \/ i = Len(r)
  BY <1>1
<1>3. ASSUME NEW i \in 1..Len(r) PROVE Awaited(fl, pl, r[i])
  BY <1>1, <1>2 DEF Queue
<1>4. ASSUME NEW i \in 1..Len(r), NEW j \in 1..Len(r), i # j PROVE r[i].by # r[j].by
  BY <1>1, <1>2, <1>4 DEF Queue
<1>5. QueueIn(n, k, r)
  BY <1>1, <1>2 DEF QueueIn
<1>6. QED
  BY <1>3, <1>4, <1>5 DEF Queue, r

\* ... and when somebody who waits for none goes on.
LEMMA QueueOther ==
  ASSUME NEW q, NEW fl, NEW pl, Queue(fl, pl, q), NEW gl, NEW ql,
         gl = fl \/ \A i \in 1..Len(q) : q[i].by # "flow",
         \A p \in Polls : ql[p].step = pl[p].step \/ \A i \in 1..Len(q) : q[i].by # p
  PROVE  Queue(gl, ql, q)
<1>1. ASSUME NEW i \in 1..Len(q) PROVE Awaited(gl, ql, q[i])
  BY DEF Queue, Awaited
<1>2. QED
  BY <1>1 DEF Queue

\* The same of the vaults.
LEMMA SealOther ==
  ASSUME NEW S, NEW fl, NEW pl, NEW account, Sealing(fl, pl, account, S), NEW gl, NEW ql,
         gl.step = fl.step \/ \A s \in S : s.by # "flow",
         \A p \in Polls : ql[p].step = pl[p].step \/ \A s \in S : s.by # p
  PROVE  Sealing(gl, ql, account, S)
  BY DEF Sealing

\* A vault of somebody who waits for none is sealed.
LEMMA SealAdds ==
  ASSUME NEW S, NEW fl, NEW pl, NEW account, Sealing(fl, pl, account, S),
         NEW v, v.account = account, NEW by \in Writers, \A s \in S : s.by # by,
         IF by = "flow" THEN fl.step \in {"seal", "cache", "hash"} ELSE pl[by].step = "mark"
  PROVE  Sealing(fl, pl, account, S \cup {[value |-> v, by |-> by]})
<1> DEFINE w == [value |-> v, by |-> by]
<1>1. w.value = v /\ w.by = by
  OBVIOUS
<1> HIDE DEF w
<1>2. /\ w.by = "flow" => fl.step \in {"seal", "cache", "hash"}
      /\ \A p \in Polls : w.by = p => pl[p].step = "mark"
      /\ w.value.account = account
  BY <1>1
<1>3. Sealing(fl, pl, account, S \cup {w})
  BY <1>1, <1>2 DEF Sealing
<1>4. QED
  BY <1>3 DEF w

\* Who stands elsewhere waits for none.
LEMMA NotWaiting ==
  ASSUME NEW q, NEW S, NEW fl, NEW pl, NEW account, Queue(fl, pl, q), Sealing(fl, pl, account, S)
  PROVE  /\ fl.step # "track" => \A i \in 1..Len(q) : q[i].by # "flow"
         /\ \A p \in Polls : pl[p].step # "apply" => \A i \in 1..Len(q) : q[i].by # p
         /\ fl.step \notin {"seal", "cache", "hash"} => \A s \in S : s.by # "flow"
         /\ \A p \in Polls : pl[p].step # "mark" => \A s \in S : s.by # p
  BY DEF Queue, Awaited, Sealing

-------------------------------------------------------------------------------
(* The invariant. *)

\* The idle flow, the idle poll, the empty vault and the empty table are values.
LEMMA Idle ==
  /\ NoVault \in Vaults /\ NoTxs \in Tables /\ IdleFlow \in Flows /\ IdlePoll \in PollStates
  /\ \A h \in Hashes : NoTxs[h] = "none"
  /\ NoVault.account = None /\ ~NoVault.deployed
  /\ IdleFlow.step = "idle" /\ IdleFlow.tx = None
  /\ IdlePoll.step = "idle" /\ IdlePoll.todo = {}
  BY DEF NoVault, Vaults, None, NoTxs, Tables, Statuses, IdleFlow, Flows, FlowSteps, IdlePoll, PollStates

\* The first start: nothing stored, nothing under way.
LEMMA InitIInv == Init => IInv
<1> SUFFICES ASSUME Init PROVE IInv
  OBVIOUS
<1> USE DEF Init
<1>1. TypeOK
  <2>1. /\ poll \in [Polls -> PollStates] /\ node \in [Hashes -> NodeStates]
        /\ owner \in [Hashes -> Accounts \cup {None}] /\ mined \in [Hashes -> SUBSET Mined]
    BY Idle DEF NodeStates
  <2>2. writes \in Seq(Writes(Tables)) /\ generated \in 0..MaxAccounts /\ faults \in 0..MaxFaults
    OBVIOUS
  <2>3. QED
    BY Idle, <2>1, <2>2 DEF TypeOK
<1>2. Sound
  BY Idle DEF Sound, VaultIn, TableIn, QueueIn, Mined
<1>3. Phases /\ Flowing /\ Polling
  BY Idle DEF Phases, Flowing, Polling, PollsIdle, Untracked, At, Mined
<1>4. Accounted
  BY Idle DEF Accounted, At, None
<1>5. Queue(flow, poll, writes) /\ Sealing(flow, poll, memVault.account, seals)
  BY DEF Queue, Sealing
<1>6. Linked(diskTxs, writes, memTxs)
  BY Idle, LinkedNothing
<1>7. TrackedIsDurable /\ PollerRuns
  BY Idle DEF TrackedIsDurable, PollerRuns
<1>8. QED
  BY <1>1, <1>2, <1>3, <1>4, <1>5, <1>6, <1>7 DEF IInv, TypeOK, Stored

\* Which part of the state a step leaves alone.
LEMMA Frames ==
  ASSUME Next \/ UNCHANGED vars
  PROVE  /\ FlowStep => UNCHANGED <<poll, booting, chain, faults>>
         /\ PollStep => UNCHANGED <<phase, booting, flow, chain, generated, faults>>
         /\ ExternalStep =>
              UNCHANGED <<phase, booting, memVault, memTxs, poll, poller, disk, generated>>
         /\ Kill \/ PageLost \/ Start \/ Boot \/ UNCHANGED vars => UNCHANGED chain
<1>1. ASSUME FlowStep PROVE UNCHANGED <<poll, booting, chain, faults>>
  BY <1>1 DEF FlowStep, Onboard, Sealed, CreateReturns, StartSend, FlowFails, DeployReturns,
              HashSealed, SendReturns, Tracked
<1>2. ASSUME PollStep PROVE UNCHANGED <<phase, booting, flow, chain, generated, faults>>
  BY <1>2 DEF PollStep, Tick, NodeAnswers, ReceiptFails, ReceiptApplied, ReceiptSaved, MarkSaved
<1>3. ASSUME ExternalStep
      PROVE  UNCHANGED <<phase, booting, memVault, memTxs, poll, poller, disk, generated>>
  BY <1>3 DEF ExternalStep, Submit, NodeSees, NodeDrops, NodePrunes, NodeMines, NodeStep,
              GraceEnds, memory
<1>4. ASSUME Kill \/ PageLost \/ Start \/ Boot \/ UNCHANGED vars PROVE UNCHANGED chain
  BY <1>4 DEF Kill, PageLost, Start, Boot, vars
<1>5. QED
  BY <1>1, <1>2, <1>3, <1>4

\* The chain grows by every step: the node accepts, sees, mines, prunes and drops,
\* and forgets nothing.
LEMMA ChainGrows ==
  ASSUME IInv, [Next]_vars
  PROVE  Grows(node, owner, mined, node', owner', mined')
<1> USE DEF IInv, TypeOK, Polling
<1>1. ASSUME NEW h \in Hashes, Submit(h) PROVE Grows(node, owner, mined, node', owner', mined')
  BY <1>1 DEF Submit, Grows
<1>2. ASSUME NEW h \in Hashes, NEW from, NEW to, NodeStep(h, from, to),
             from \in SUBSET {"unseen", "pending", "success", "reverted"}, to # "absent"
      PROVE  Grows(node, owner, mined, node', owner', mined')
  BY <1>2 DEF NodeStep, Grows
<1>3. ASSUME NEW h \in Hashes,
             \/ NodeSees(h) \/ NodeDrops(h) \/ NodePrunes(h) \/ GraceEnds(h)
             \/ \E result \in Mined : NodeMines(h, result)
      PROVE  Grows(node, owner, mined, node', owner', mined')
  <2>1. CASE NodeSees(h)
    BY <1>2, <2>1 DEF NodeSees
  <2>2. CASE NodeDrops(h)
    BY <1>2, <2>2 DEF NodeDrops
  <2>3. CASE NodePrunes(h)
    BY <1>2, <2>3 DEF NodePrunes, Mined
  <2>4. CASE GraceEnds(h)
    BY <2>4 DEF GraceEnds, Grows
  <2>5. CASE \E result \in Mined : NodeMines(h, result)
    BY <1>2, <2>5 DEF NodeMines, Mined
  <2>6. QED
    BY <1>3, <2>1, <2>2, <2>3, <2>4, <2>5
<1>4. CASE UNCHANGED chain
  BY <1>4 DEF Grows, chain
<1>5. CASE ExternalStep
  BY <1>1, <1>3, <1>5 DEF ExternalStep
<1>6. QED
  BY <1>4, <1>5, Frames DEF Next

\* What happens when the oldest table lands ...
LEMMA WhenTableLands ==
  ASSUME IInv, NEW by, TableLands(by)
  PROVE  /\ phase # "down" /\ Head(writes) \in Writes(Tables) /\ Head(writes).by = by
         /\ Awaited(flow, poll, Head(writes))
         /\ writes' \in Seq(Writes(Tables)) /\ writes' = Tail(writes)
         /\ \A i \in 1..Len(writes') : writes'[i].by # by
         /\ QueueIn(node, mined, writes') /\ Queue(flow, poll, writes')
         /\ diskVault' = diskVault /\ diskTxs' = Head(writes).value
         /\ diskTxs' \in Tables /\ TableIn(node, mined, diskTxs')
         /\ Moves(diskTxs, diskTxs') /\ Below(diskTxs, diskTxs') /\ Below(diskTxs', memTxs)
         /\ Linked(diskTxs', writes', memTxs)
<1> USE DEF IInv, TypeOK, Stored
<1>1. /\ writes \in Seq(Writes(Tables)) /\ writes # <<>> /\ phase # "down" /\ Head(writes).by = by
      /\ writes' = Tail(writes) /\ diskVault' = diskVault /\ diskTxs' = Head(writes).value
  BY DEF TableLands, Phases, Asleep
<1>2. Head(writes) \in Writes(Tables) /\ Tail(writes) \in Seq(Writes(Tables))
  BY <1>1, TailShape
<1>3. /\ Awaited(flow, poll, Head(writes)) /\ Queue(flow, poll, Tail(writes))
      /\ \A i \in 1..Len(Tail(writes)) : Tail(writes)[i].by # by
      /\ TableIn(node, mined, Head(writes).value) /\ QueueIn(node, mined, Tail(writes))
  BY <1>1, QueueTail DEF Sound
<1>4. /\ diskTxs' \in Tables /\ Moves(diskTxs, diskTxs') /\ Below(diskTxs, diskTxs')
      /\ Below(diskTxs', memTxs) /\ Linked(diskTxs', Tail(writes), memTxs)
  BY <1>1, LinkedTail
<1>5. QED
  BY <1>1, <1>2, <1>3, <1>4

\* ... and when a vault does.
LEMMA WhenVaultLands ==
  ASSUME IInv, NEW by, VaultLands(by)
  PROVE  /\ phase # "down" /\ seals' \in SUBSET seals /\ \A s \in seals' : s.by # by
         /\ diskVault' \in Vaults /\ VaultIn(owner, mined, diskVault')
         /\ diskVault'.account = memVault.account /\ diskTxs' = diskTxs
         /\ by = "flow" => flow.step \in {"seal", "cache", "hash"}
<1> USE DEF IInv, TypeOK, Stored
<1>1. PICK s \in seals : s.by = by /\ diskVault' = s.value /\ seals' = seals \ {s}
  BY DEF VaultLands
<1>2. phase # "down"
  BY <1>1 DEF Phases, Asleep
<1>3. s.value \in Vaults
  BY <1>1 DEF Writes
<1>4. QED
  BY <1>1, <1>2, <1>3 DEF VaultLands, Sealing, Sound

\* A poll that is under way is about a transaction of its own that is known.
LEMMA PolledIn ==
  ASSUME IInv, NEW p \in Polls, poll[p].step # "idle"
  PROVE  /\ Polled(p) \in poll[p].todo /\ Polled(p) \in Hashes
         /\ memTxs[Polled(p)] # "none" /\ node[Polled(p)] # "absent"
<1>1. poll[p].todo \in SUBSET Hashes /\ poll[p].todo # {} /\ poll[p].todo \in SUBSET Nat
  BY DEF IInv, TypeOK, PollStates, Polling, Hashes
<1>2. Polled(p) \in poll[p].todo
  BY <1>1, MinIn DEF Polled
<1>3. QED
  BY <1>1, <1>2 DEF IInv, Stored, Polling, Sound, TableIn

\* What is left of a poll that goes on.
LEMMA ContinuedIs ==
  ASSUME IInv, NEW p \in Polls
  PROVE  /\ Continued(p) \in PollStates
         /\ Continued(p).step = "idle" \/ (Continued(p).step = "ask" /\ Continued(p).todo # {})
         /\ Continued(p).todo \subseteq poll[p].todo
<1> DEFINE rest == poll[p].todo \ {Polled(p)}
<1>1. rest \in SUBSET Hashes /\ rest \subseteq poll[p].todo
  BY DEF IInv, TypeOK, PollStates
<1>2. Continued(p) = IF rest = {} THEN IdlePoll ELSE [IdlePoll EXCEPT !.step = "ask", !.todo = rest]
  BY DEF Continued
<1> HIDE DEF rest
<1>3. Continued(p) = [step |-> IF rest = {} THEN "idle" ELSE "ask", todo |-> rest,
                      before |-> "none", receipt |-> "none"]
  BY <1>2 DEF IdlePoll
<1>4. Continued(p) \in PollStates
  BY <1>1, <1>3 DEF PollStates, Statuses
<1>5. QED
  BY <1>1, <1>3, <1>4

\* The fields of a poll that a step sets.
LEMMA PollFields ==
  ASSUME NEW s \in PollStates, NEW a, NEW b
  PROVE  /\ [s EXCEPT !.step = "ask", !.todo = a] =
              [step |-> "ask", todo |-> a, before |-> s.before, receipt |-> s.receipt]
         /\ [s EXCEPT !.step = "answered", !.receipt = a] =
              [step |-> "answered", todo |-> s.todo, before |-> s.before, receipt |-> a]
         /\ [s EXCEPT !.step = "apply", !.before = b, !.receipt = "none"] =
              [step |-> "apply", todo |-> s.todo, before |-> b, receipt |-> "none"]
         /\ [s EXCEPT !.step = "mark", !.before = "none"] =
              [step |-> "mark", todo |-> s.todo, before |-> "none", receipt |-> s.receipt]
<1>1. s = [step |-> s.step, todo |-> s.todo, before |-> s.before, receipt |-> s.receipt]
  BY DEF PollStates
<1> DEFINE at(step) == [s EXCEPT !.step = step]
<1>2. \A step : at(step) = [step |-> step, todo |-> s.todo, before |-> s.before, receipt |-> s.receipt]
  BY <1>1
<1>3. /\ [s EXCEPT !.step = "ask", !.todo = a] = [at("ask") EXCEPT !.todo = a]
      /\ [s EXCEPT !.step = "answered", !.receipt = a] = [at("answered") EXCEPT !.receipt = a]
      /\ [s EXCEPT !.step = "apply", !.before = b, !.receipt = "none"] =
           [at("apply") EXCEPT !.before = b, !.receipt = "none"]
      /\ [s EXCEPT !.step = "mark", !.before = "none"] = [at("mark") EXCEPT !.before = "none"]
  BY Zenon
<1> HIDE DEF at
<1>4. [at("ask") EXCEPT !.todo = a] = [step |-> "ask", todo |-> a, before |-> s.before, receipt |-> s.receipt]
  BY <1>2
<1>5. [at("answered") EXCEPT !.receipt = a] = [step |-> "answered", todo |-> s.todo, before |-> s.before, receipt |-> a]
  BY <1>2
<1>6. [at("apply") EXCEPT !.before = b, !.receipt = "none"] =
        [step |-> "apply", todo |-> s.todo, before |-> b, receipt |-> "none"]
  <2> DEFINE t == [at("apply") EXCEPT !.before = b]
  <2>1. t = [step |-> "apply", todo |-> s.todo, before |-> b, receipt |-> s.receipt]
    BY <1>2
  <2>2. [at("apply") EXCEPT !.before = b, !.receipt = "none"] = [t EXCEPT !.receipt = "none"]
    BY Zenon
  <2> HIDE DEF t
  <2>3. QED
    BY <2>1, <2>2
<1>7. [at("mark") EXCEPT !.before = "none"] =
        [step |-> "mark", todo |-> s.todo, before |-> "none", receipt |-> s.receipt]
  BY <1>2
<1>8. QED
  BY <1>3, <1>4, <1>5, <1>6, <1>7

\* What a poll may look like after a step: nothing is new but its receipt.
Resumed(p, r) ==
  /\ r.step # "idle" => r.todo # {}
  /\ r.todo \subseteq poll[p].todo \cup Unsettled
  /\ r.step = "answered" =>
       \/ r = poll[p]
       \/ NodeAnswers(p) /\ r.todo = poll[p].todo /\ r.receipt = Report(Polled(p))

\* How a step of a poll changes it.
LEMMA PollMoves ==
  ASSUME IInv, NEW p \in Polls,
         \/ Tick(p) \/ NodeAnswers(p) \/ ReceiptFails(p)
         \/ ReceiptApplied(p) \/ ReceiptSaved(p) \/ MarkSaved(p)
  PROVE  \E r \in PollStates : poll' = [poll EXCEPT ![p] = r] /\ Resumed(p, r)
<1> USE DEF IInv, TypeOK, Stored, Resumed
<1>0. poll[p] \in PollStates /\ (poll[p].step # "idle" => poll[p].todo # {})
      /\ poll = [poll EXCEPT ![p] = poll[p]]
  BY DEF Polling
<1>1. CASE Tick(p)
  <2> DEFINE r == [poll[p] EXCEPT !.step = "ask", !.todo = Unsettled]
  <2>1. Unsettled \in SUBSET Hashes
    BY DEF Unsettled
  <2>2. CASE UNCHANGED poll
    BY <1>0, <2>2
  <2>3. CASE poll' # poll
    <3>1. poll' = [poll EXCEPT ![p] = r] /\ Unsettled # {}
      BY <1>0, <1>1, <2>3 DEF Tick
    <3>2. r = [step |-> "ask", todo |-> Unsettled, before |-> poll[p].before, receipt |-> poll[p].receipt]
      BY <1>0, PollFields
    <3> HIDE DEF r
    <3>3. r \in PollStates
      BY <1>0, <2>1, <3>2 DEF PollStates
    <3>4. QED
      BY <2>3, <3>1, <3>2, <3>3
  <2>4. QED
    BY <2>2, <2>3
<1>2. CASE NodeAnswers(p)
  <2> DEFINE r == [poll[p] EXCEPT !.step = "answered", !.receipt = Report(Polled(p))]
  <2>1. poll' = [poll EXCEPT ![p] = r] /\ poll[p].step = "ask"
    BY <1>0, <1>2 DEF NodeAnswers
  <2>2. Report(Polled(p)) \in {"pending"} \cup Settled
    BY <2>1, PolledIn DEF Report, NodeStates, Settled, Mined
  <2>3. r = [step |-> "answered", todo |-> poll[p].todo, before |-> poll[p].before, receipt |-> Report(Polled(p))]
    BY <1>0, PollFields
  <2> HIDE DEF r
  <2>4. r \in PollStates
    BY <1>0, <2>2, <2>3 DEF PollStates
  <2>5. QED
    BY <1>0, <1>2, <2>1, <2>3, <2>4
<1>3. ASSUME Continue(p)
      PROVE  \E r \in PollStates : poll' = [poll EXCEPT ![p] = r] /\ Resumed(p, r)
  BY <1>3, ContinuedIs DEF Continue
<1>4. CASE ReceiptApplied(p)
  <2> DEFINE r == [poll[p] EXCEPT !.step = "apply", !.before = memTxs[Polled(p)], !.receipt = "none"]
  <2>1. poll[p].step = "answered" /\ (Continue(p) \/ poll' = [poll EXCEPT ![p] = r])
    BY <1>0, <1>4 DEF ReceiptApplied
  <2>2. memTxs[Polled(p)] \in Statuses
    BY <2>1, PolledIn DEF Tables
  <2>3. r = [step |-> "apply", todo |-> poll[p].todo, before |-> memTxs[Polled(p)], receipt |-> "none"]
    BY <1>0, PollFields
  <2> HIDE DEF r
  <2>4. r \in PollStates
    BY <1>0, <2>2, <2>3 DEF PollStates
  <2>5. QED
    BY <1>0, <1>3, <2>1, <2>3, <2>4
<1>5. CASE ReceiptSaved(p)
  <2> DEFINE r == [poll[p] EXCEPT !.step = "mark", !.before = "none"]
  <2>1. poll[p].step = "apply" /\ (Continue(p) \/ poll' = [poll EXCEPT ![p] = r])
    BY <1>0, <1>5 DEF ReceiptSaved
  <2>2. r = [step |-> "mark", todo |-> poll[p].todo, before |-> "none", receipt |-> poll[p].receipt]
    BY <1>0, PollFields
  <2> HIDE DEF r
  <2>3. r \in PollStates
    BY <1>0, <2>2 DEF PollStates, Statuses
  <2>4. QED
    BY <1>0, <1>3, <2>1, <2>2, <2>3
<1>6. CASE ReceiptFails(p) \/ MarkSaved(p)
  BY <1>3, <1>6 DEF ReceiptFails, MarkSaved
<1>7. QED
  BY <1>1, <1>2, <1>4, <1>5, <1>6

\* What Add and applyReceipt make of the table of transactions.
LEMMA Added ==
  ASSUME IInv, flow.tx # None, ~At("track"),
         memTxs' = [memTxs EXCEPT ![flow.tx] = "submitted"]
  PROVE  /\ flow.tx \in Hashes /\ memTxs' \in Tables /\ Moves(memTxs, memTxs')
         /\ TableIn(node, mined, memTxs') /\ memTxs'[flow.tx] = "submitted"
         /\ \A h \in Hashes : h # flow.tx => memTxs'[h] = memTxs[h]
<1> USE DEF IInv, TypeOK, Stored
<1>1. flow.tx \in Hashes /\ memTxs[flow.tx] = "none" /\ node[flow.tx] # "absent"
  BY DEF Flowing, Flows
<1>2. memTxs' \in Tables
  BY DEF Tables, Statuses
<1>3. memTxs'[flow.tx] = "submitted" /\ \A h \in Hashes : h # flow.tx => memTxs'[h] = memTxs[h]
  BY <1>1 DEF Tables
<1>4. TableIn(node, mined, memTxs')
  BY <1>1, <1>3 DEF TableIn, Sound, Mined
<1>5. Moves(memTxs, memTxs')
  BY <1>1 DEF Moves, Leaves, Statuses
<1>6. QED
  BY <1>1, <1>2, <1>3, <1>4, <1>5

\* A receipt moves the record it was asked for, to what the node says.
LEMMA Applied ==
  ASSUME IInv, NEW p \in Polls, poll[p].step = "answered", Polled(p) \in Unsettled,
         memTxs' = [memTxs EXCEPT ![Polled(p)] = Judged(Polled(p), poll[p].receipt)]
  PROVE  /\ memTxs' \in Tables /\ Moves(memTxs, memTxs') /\ TableIn(node, mined, memTxs')
         /\ \A h \in Hashes : (memTxs'[h] # "none" <=> memTxs[h] # "none")
         /\ \A h \in Hashes : memTxs'[h] \in {"submitted", "pending"} => h \in Unsettled
<1> USE DEF IInv, TypeOK, Stored
<1> DEFINE h == Polled(p)
           status == Judged(h, poll[p].receipt)
<1>1. h \in Hashes /\ memTxs[h] \in {"submitted", "pending"} /\ node[h] # "absent"
  BY PolledIn DEF Unsettled
<1>2. poll[p].receipt \in {"pending"} \cup Settled
  BY DEF Polling, PollStates
<1>3. status = memTxs[h] \/ (status = poll[p].receipt /\ (status = "dropped" => h \in old))
  BY DEF Judged
<1> HIDE DEF status
<1>4. status \in Statuses /\ status # "none"
  BY <1>1, <1>2, <1>3 DEF Statuses, Settled, Mined
<1>5. (status = "dropped" => node[h] = "gone") /\ (status \in Mined => status \in mined[h])
  BY <1>1, <1>3 DEF Polling, Mined
<1>6. memTxs' = [memTxs EXCEPT ![h] = status]
  BY DEF status
<1> HIDE DEF h
<1>7. memTxs' \in Tables /\ memTxs'[h] = status /\ \A g \in Hashes : g # h => memTxs'[g] = memTxs[g]
  BY <1>1, <1>4, <1>6 DEF Tables
<1>8. TableIn(node, mined, memTxs')
  BY <1>1, <1>5, <1>7 DEF TableIn, Sound
<1>9. Moves(memTxs, memTxs')
  <2>1. CASE status = memTxs[h]
    <3>1. memTxs' = memTxs
      BY <1>6, <2>1 DEF Tables
    <3>2. QED
      BY <3>1 DEF Moves
  <2>2. CASE status # memTxs[h]
    <3>1. Leaves(memTxs[h], status)
      BY <1>1, <1>2, <1>3, <2>2 DEF Leaves, Settled, Mined
    <3>2. QED
      BY <1>1, <1>4, <1>6, <3>1 DEF Moves
  <2>3. QED
    BY <2>1, <2>2
<1>10. QED
  BY <1>1, <1>4, <1>7, <1>8, <1>9 DEF Unsettled

\* The flow of a page that is lost, and its polls.
LEMMA WhenPageLost ==
  ASSUME IInv, PageLost
  PROVE  /\ poller' \in BOOLEAN /\ (poller' => poller)
         /\ flow' = flow \/ (flow' = IdleFlow /\ flow.step \in {"create", "deploy", "send"})
         /\ poll' \in [Polls -> PollStates]
         /\ \A p \in Polls :
              \/ poll'[p] = poll[p] /\ poll[p].step \notin {"ask", "answered"}
              \/ /\ poll[p].step \in {"ask", "answered"} /\ poll'[p] = Continued(p)
                 /\ poll'[p].step \in {"idle", "ask"}
                 /\ poll'[p].step # "idle" => poll'[p].todo # {}
                 /\ poll'[p].todo \subseteq poll[p].todo
<1> USE DEF IInv, TypeOK
<1>1. \A p \in Polls :
        poll'[p] = IF poll[p].step \in {"ask", "answered"} THEN Continued(p) ELSE poll[p]
  BY DEF PageLost
<1>2. \A p \in Polls : poll[p] \in PollStates /\ Continued(p) \in PollStates
  BY ContinuedIs
<1>3. poll' \in [Polls -> PollStates]
  BY <1>2 DEF PageLost
<1>4. flow' = flow \/ (flow' = IdleFlow /\ flow.step \in {"create", "deploy", "send"})
  BY DEF PageLost
<1>5. poller' \in BOOLEAN /\ (poller' => poller)
  <2>1. poller' = poller \/ poller' = FALSE
    BY Zenon DEF PageLost
  <2>2. CASE poller' = poller
    BY <2>2, Zenon
  <2>3. CASE poller' = FALSE
    BY <2>3, Zenon
  <2>4. QED
    BY <2>1, <2>2, <2>3
<1>6. QED
  BY <1>1, <1>3, <1>4, <1>5, ContinuedIs

\* What a step stores, in memory or on its way to the disk, is well-typed, true,
\* awaited by whoever issued it, and one move on: the steps of the flows.
LEMMA FlowStored ==
  ASSUME IInv, FlowStep
  PROVE  Stored'
<1> USE DEF IInv, TypeOK, Stored, Sound
<1>f. /\ \A step : Goto(step) => flow'.step = step /\ flow'.tx = flow.tx
      /\ "flow" \in Writers /\ IdleFlow.step = "idle"
  BY DEF Goto, Flows, Writers, IdleFlow
<1>q. /\ flow.step # "track" => \A i \in 1..Len(writes) : writes[i].by # "flow"
      /\ flow.step \notin {"seal", "cache", "hash"} => \A s \in seals : s.by # "flow"
  BY NotWaiting
<1>1. CASE Onboard
  <2>1. flow.step = "idle" /\ \A p \in Polls : poll[p].step = "idle"
    BY <1>1, Idle DEF Onboard, At, Phases, PollsIdle
  <2>2. seals = {}
    <3>1. \A s \in seals : s.by = "flow" \/ s.by \in Polls
      BY DEF Writes, Writers
    <3>2. QED
      BY <2>1, <3>1, NotWaiting
  <2>3. memVault' = [account |-> generated + 1, deployTx |-> None, deployed |-> FALSE]
    BY <1>1 DEF Onboard, NoVault
  <2>4. memVault' \in Vaults
    <3>1. generated + 1 \in Accounts
      BY <1>1 DEF Onboard, Accounts
    <3>2. QED
      BY <2>3, <3>1 DEF Vaults
  <2>5. VaultIn(owner, mined, memVault')
    BY <2>3 DEF VaultIn
  <2>6. flow'.step = "seal" /\ seals' = {} \cup {[value |-> memVault', by |-> "flow"]}
    BY <1>1, <1>f, <2>2 DEF Onboard, Seal
  <2>7. Sealing(flow', poll, memVault'.account, {})
    BY DEF Sealing
  <2>8. Sealing(flow', poll, memVault'.account, seals')
    BY <1>f, <2>6, <2>7, SealAdds
  <2>9. seals' \subseteq Writes(Vaults) /\ \A s \in seals' : VaultIn(owner, mined, s.value)
    BY <1>f, <2>4, <2>5, <2>6 DEF Writes
  <2>10. Queue(flow', poll, writes)
    BY <1>q, <2>1, QueueOther
  <2>11. QED
    BY <1>1, <2>4, <2>5, <2>8, <2>9, <2>10 DEF Onboard, chain
<1>2. ASSUME UNCHANGED <<memVault, memTxs, writes, diskTxs, poll, chain>>,
             flow.step # "track", phase' # "down" => phase # "down",
             diskVault' \in Vaults, VaultIn(owner, mined, diskVault'), seals' \in SUBSET seals,
             flow.step \in {"seal", "cache", "hash"} => \A s \in seals' : s.by # "flow"
      PROVE  Stored'
  <2>1. Queue(flow', poll, writes)
    BY <1>2, <1>q, QueueOther
  <2>2. Sealing(flow, poll, memVault.account, seals')
    BY <1>2 DEF Sealing
  <2>3. Sealing(flow', poll, memVault.account, seals')
    BY <1>2, <1>q, <2>2, SealOther
  <2>4. QED
    BY <1>2, <2>1, <2>3 DEF chain
<1>3. CASE Sealed
  BY <1>2, <1>3, WhenVaultLands DEF Sealed
<1>4. CASE StartSend \/ FlowFails
  BY <1>2, <1>4 DEF StartSend, FlowFails, At, disk
<1>5. ASSUME flow.step \in {"create", "deploy"}, flow'.step \in {"cache", "hash"},
             Seal(memVault', "flow"),
             memVault' \in Vaults, memVault'.account = memVault.account,
             VaultIn(owner, mined, memVault'),
             UNCHANGED <<phase, memTxs, poll, writes, diskVault, diskTxs, chain>>
      PROVE  Stored'
  <2>1. seals' \subseteq Writes(Vaults) /\ \A s \in seals' : VaultIn(owner, mined, s.value)
    BY <1>5, <1>f DEF Seal, Writes
  <2>2. Sealing(flow', poll, memVault.account, seals)
    BY <1>5, <1>q, SealOther
  <2>3. Sealing(flow', poll, memVault.account, seals')
    BY <1>5, <1>f, <1>q, <2>2, SealAdds DEF Seal
  <2>4. Queue(flow', poll, writes)
    BY <1>5, <1>q, QueueOther
  <2>5. QED
    BY <1>5, <2>1, <2>3, <2>4 DEF chain
<1>6. CASE CreateReturns
  BY <1>5, <1>6, <1>f DEF CreateReturns, At
<1>7. CASE DeployReturns
  <2>1. flow.tx \in Hashes
    BY <1>7 DEF DeployReturns, Flows
  <2>2. memVault' = [account |-> memVault.account, deployTx |-> flow.tx, deployed |-> memVault.deployed]
    BY <1>7 DEF DeployReturns, Vaults
  <2>3. memVault' \in Vaults /\ VaultIn(owner, mined, memVault')
    BY <2>1, <2>2 DEF Vaults, VaultIn
  <2>4. QED
    BY <1>5, <1>7, <1>f, <2>2, <2>3 DEF DeployReturns, At
<1>8. ASSUME flow.tx # None, flow.step \notin {"track", "idle"}, Add,
             UNCHANGED <<phase, memVault, poll, diskTxs, chain>>,
             diskVault' \in Vaults, VaultIn(owner, mined, diskVault'),
             seals' \in SUBSET seals, \A s \in seals' : s.by # "flow"
      PROVE  Stored'
  <2> DEFINE w == [value |-> memTxs', by |-> "flow"]
  <2>1. /\ memTxs' \in Tables /\ TableIn(node, mined, memTxs') /\ Moves(memTxs, memTxs')
        /\ memTxs'[flow.tx] = "submitted" /\ writes' = Append(writes, w)
        /\ flow'.step = "track" /\ flow'.tx = flow.tx
    BY <1>8, <1>f, Added DEF Add, Persist, At
  <2>2. w.value = memTxs' /\ w.by = "flow" /\ w \in Writes(Tables)
    BY <1>f, <2>1 DEF Writes
  <2> HIDE DEF w
  <2>3. Awaited(flow', poll, w)
    BY <1>8, <2>1, <2>2, PollsAssumption DEF Awaited
  <2>4. Queue(flow', poll, writes)
    BY <1>8, <1>q, QueueOther
  <2>5. Queue(flow', poll, writes') /\ QueueIn(node, mined, writes') /\ writes' \in Seq(Writes(Tables))
    BY <1>8, <1>q, <2>1, <2>2, <2>3, <2>4, QueuePersist, PersistShape
  <2>6. phase # "down" => Linked(diskTxs, writes', memTxs')
    BY <1>8, <2>1, <2>2, LinkedPersist
  <2>7. Sealing(flow, poll, memVault.account, seals')
    BY <1>8 DEF Sealing
  <2>8. Sealing(flow', poll, memVault.account, seals')
    BY <1>8, <2>7, SealOther
  <2>9. QED
    BY <1>8, <2>1, <2>5, <2>6, <2>8 DEF chain
<1>9. CASE HashSealed
  <2>1. flow.tx # None /\ flow.step = "hash"
    BY <1>9 DEF HashSealed, Flowing, At
  <2>2. QED
    BY <1>8, <1>9, <2>1, WhenVaultLands DEF HashSealed
<1>10. CASE SendReturns
  BY <1>8, <1>10, <1>q DEF SendReturns, At
<1>11. CASE Tracked
  <2>1. /\ TableLands("flow") /\ flow.step = "track" /\ flow'.step = "idle"
        /\ UNCHANGED <<memVault, memTxs, poll, seals, chain>>
    BY <1>11, <1>f, Frames DEF Tracked, At, Next
  <2>2. Queue(flow', poll, writes')
    BY <2>1, WhenTableLands, QueueOther
  <2>3. Sealing(flow', poll, memVault.account, seals)
    BY <1>q, <2>1, SealOther
  <2>4. QED
    BY <2>1, <2>2, <2>3, WhenTableLands DEF chain
<1>12. QED
  BY <1>1, <1>3, <1>4, <1>6, <1>7, <1>9, <1>10, <1>11 DEF FlowStep

\* ... and the steps of the polls.
LEMMA PollStored ==
  ASSUME IInv, PollStep
  PROVE  Stored'
<1> USE DEF IInv, TypeOK, Stored, Sound
<1>1. PICK p \in Polls :
        \/ Tick(p) \/ NodeAnswers(p) \/ ReceiptFails(p)
        \/ ReceiptApplied(p) \/ ReceiptSaved(p) \/ MarkSaved(p)
  BY DEF PollStep
<1>2. PICK r \in PollStates : poll' = [poll EXCEPT ![p] = r]
  BY <1>1, PollMoves
<1>3. /\ poll'[p] = r /\ \A s \in Polls : s # p => poll'[s] = poll[s]
      /\ p # "flow" /\ p \in Writers
  BY <1>2, PollsAssumption DEF Writers
<1>q. /\ poll[p].step # "apply" => \A i \in 1..Len(writes) : writes[i].by # p
      /\ poll[p].step # "mark" => \A s \in seals : s.by # p
  BY NotWaiting
<1>4. ASSUME NEW q, Queue(flow, poll, q), \A i \in 1..Len(q) : q[i].by # p
      PROVE  Queue(flow, poll', q)
  BY <1>3, <1>4, QueueOther
<1>5. ASSUME NEW S, Sealing(flow, poll, memVault.account, S), \A s \in S : s.by # p
      PROVE  Sealing(flow, poll', memVault.account, S)
  BY <1>3, <1>5, SealOther
<1>6. ASSUME poll[p].step \in {"idle", "ask", "answered"},
             UNCHANGED <<phase, memVault, memTxs, flow, disk, chain>>
      PROVE  Stored'
  <2>1. Queue(flow, poll', writes) /\ Sealing(flow, poll', memVault.account, seals)
    BY <1>4, <1>5, <1>6, <1>q
  <2>2. QED
    BY <1>6, <2>1 DEF disk, chain
<1>7. CASE Tick(p) \/ NodeAnswers(p) \/ ReceiptFails(p)
  BY <1>6, <1>7 DEF Tick, NodeAnswers, ReceiptFails
<1>8. CASE ReceiptApplied(p)
  <2>1. poll[p].step = "answered" /\ phase # "down"
    BY <1>8, Idle DEF ReceiptApplied, Phases, Asleep, PollsIdle
  <2>2. CASE Polled(p) \notin Unsettled
    BY <1>6, <1>8, <2>1, <2>2 DEF ReceiptApplied, disk
  <2>3. CASE Polled(p) \in Unsettled
    <3> DEFINE w == [value |-> memTxs', by |-> p]
    <3>1. /\ memTxs' = [memTxs EXCEPT ![Polled(p)] = Judged(Polled(p), poll[p].receipt)]
          /\ writes' = Append(writes, w)
          /\ poll' = [poll EXCEPT ![p].step = "apply", ![p].before = memTxs[Polled(p)], ![p].receipt = "none"]
          /\ UNCHANGED <<phase, memVault, flow, seals, diskVault, diskTxs, chain>>
      BY <1>8, <2>3 DEF ReceiptApplied, Persist
    <3>2. memTxs' \in Tables /\ Moves(memTxs, memTxs') /\ TableIn(node, mined, memTxs')
      BY <2>1, <2>3, <3>1, Applied
    <3>3. poll'[p].step = "apply"
      <4>1. poll' = [poll EXCEPT ![p] = [poll[p] EXCEPT !.step = "apply", !.before = memTxs[Polled(p)], !.receipt = "none"]]
        BY <3>1
      <4> DEFINE a == [poll[p] EXCEPT !.step = "apply", !.before = memTxs[Polled(p)], !.receipt = "none"]
      <4>2. poll[p] \in PollStates
        OBVIOUS
      <4>3. a = [step |-> "apply", todo |-> poll[p].todo, before |-> memTxs[Polled(p)], receipt |-> "none"]
        BY <4>2, PollFields
      <4> HIDE DEF a
      <4>4. poll' = [poll EXCEPT ![p] = a]
        BY <4>1 DEF a
      <4>5. QED
        BY <4>3, <4>4
    <3>4. w.value = memTxs' /\ w.by = p /\ w \in Writes(Tables)
      BY <1>3, <3>2 DEF Writes
    <3> HIDE DEF w
    <3>5. Awaited(flow, poll', w)
      BY <1>3, <3>3, <3>4 DEF Awaited
    <3>6. Queue(flow, poll', writes)
      BY <1>4, <1>q, <2>1
    <3>7. Queue(flow, poll', writes') /\ QueueIn(node, mined, writes') /\ writes' \in Seq(Writes(Tables))
      <4>1. writes' = Append(writes, w) /\ \A i \in 1..Len(writes) : writes[i].by # w.by
        BY <2>1, <3>1, <3>4, <1>q
      <4>2. writes \in Seq(Writes(Tables)) /\ QueueIn(node, mined, writes) /\ TableIn(node, mined, w.value)
        BY <3>2, <3>4 DEF Sound
      <4>3. QED
        BY <3>4, <3>5, <3>6, <4>1, <4>2, QueuePersist, PersistShape
    <3>8. Linked(diskTxs, writes', memTxs')
      BY <2>1, <3>1, <3>2, <3>4, LinkedPersist
    <3>9. Sealing(flow, poll', memVault.account, seals)
      BY <1>5, <1>q, <2>1
    <3>10. QED
      BY <3>1, <3>2, <3>7, <3>8, <3>9 DEF chain
  <2>4. QED
    BY <2>2, <2>3
<1>9. CASE ReceiptSaved(p)
  <2>1. TableLands(p) /\ poll[p].step = "apply" /\ UNCHANGED <<phase, memTxs, flow, chain>>
    BY <1>9 DEF ReceiptSaved
  <2>2. Queue(flow, poll', writes')
    BY <1>4, <2>1, WhenTableLands
  <2>3. Sealing(flow, poll', memVault.account, seals) /\ \A s \in seals : s.by # p
    BY <1>5, <1>q, <2>1
  <2>4. CASE DeployConfirmed(p) /\ memVault.account # None /\ ~memVault.deployed
    <3>1. /\ memVault' = [memVault EXCEPT !.deployed = TRUE]
          /\ seals' = seals \cup {[value |-> memVault', by |-> p]}
          /\ poll' = [poll EXCEPT ![p].step = "mark", ![p].before = "none"]
      BY <1>9, <2>4 DEF ReceiptSaved, Seal
    <3>2. memVault' = [account |-> memVault.account, deployTx |-> memVault.deployTx, deployed |-> TRUE]
      BY <3>1 DEF Vaults
    <3>3. memVault' \in Vaults /\ memVault'.account = memVault.account
      BY <3>2 DEF Vaults
    <3>4. VaultIn(owner, mined, memVault')
      <4>1. /\ Polled(p) \in Hashes /\ memTxs[Polled(p)] = "success"
            /\ owner[Polled(p)] # None /\ memTxs[Polled(p)] # "none"
        BY <2>1, <2>4, PolledIn DEF DeployConfirmed
      <4>2. diskVault.account = memVault.account
        <5>1. ~PollsIdle
          BY <2>1, Idle DEF PollsIdle
        <5>2. ~Asleep /\ ~At("seal")
          BY <5>1 DEF Asleep, Phases, Untracked, At
        <5>3. QED
          BY <5>2 DEF Accounted
      <4>3. owner[Polled(p)] = memVault.account
        BY <4>1, <4>2 DEF Accounted
      <4>4. "success" \in mined[Polled(p)]
        BY <4>1 DEF TableIn, Mined
      <4>5. QED
        BY <3>3, <4>1, <4>3, <4>4 DEF VaultIn
    <3>5. poll'[p].step = "mark"
      BY <3>1 DEF PollStates
    <3>6. Sealing(flow, poll', memVault.account, seals')
      BY <1>3, <2>3, <3>1, <3>3, <3>5, SealAdds
    <3> DEFINE w == [value |-> memVault', by |-> p]
    <3>w. w.value = memVault' /\ w \in Writes(Vaults) /\ seals' = seals \cup {w}
      BY <1>3, <3>1, <3>3 DEF Writes
    <3> HIDE DEF w
    <3>7. seals' \subseteq Writes(Vaults) /\ \A s \in seals' : VaultIn(owner, mined, s.value)
      BY <3>4, <3>w
    <3>8. QED
      BY <2>1, <2>2, <3>3, <3>4, <3>6, <3>7, WhenTableLands DEF chain
  <2>5. CASE ~(DeployConfirmed(p) /\ memVault.account # None /\ ~memVault.deployed)
    <3>1. UNCHANGED <<memVault, seals>>
      BY <1>9, <2>5 DEF ReceiptSaved
    <3>2. QED
      BY <2>1, <2>2, <2>3, <3>1, WhenTableLands DEF chain
  <2>6. QED
    BY <2>4, <2>5
<1>10. CASE MarkSaved(p)
  <2>1. /\ VaultLands(p) /\ poll[p].step = "mark"
        /\ UNCHANGED <<phase, memVault, memTxs, flow, writes, chain>>
    BY <1>10 DEF MarkSaved
  <2>2. Queue(flow, poll', writes)
    BY <1>4, <1>q, <2>1
  <2>3. Sealing(flow, poll, memVault.account, seals')
    BY <2>1, WhenVaultLands DEF Sealing
  <2>4. Sealing(flow, poll', memVault.account, seals')
    BY <1>5, <2>1, <2>3, WhenVaultLands
  <2>5. QED
    BY <2>1, <2>2, <2>4, WhenVaultLands DEF chain
<1>11. QED
  BY <1>1, <1>7, <1>8, <1>9, <1>10

\* ... and those of the node, the faults and the starts.
LEMMA OtherStored ==
  ASSUME IInv, ExternalStep \/ Kill \/ Start \/ PageLost \/ Boot \/ UNCHANGED vars
  PROVE  Stored'
<1> USE DEF IInv, TypeOK, Stored
<1>1. CASE ExternalStep
  <2>1. UNCHANGED <<phase, memVault, memTxs, poll, disk>>
    BY <1>1, Frames DEF Next
  <2>2. UNCHANGED flow \/ (flow'.step = flow.step /\ flow.step \in {"deploy", "send"})
    BY <1>1 DEF ExternalStep, Submit, NodeSees, NodeDrops, NodePrunes, NodeMines, NodeStep,
                GraceEnds, memory, Flows
  <2>3. Grows(node, owner, mined, node', owner', mined')
    BY <1>1, ChainGrows DEF Next
  <2>4. Queue(flow', poll, writes) /\ Sealing(flow', poll, memVault.account, seals)
    BY <2>2, NotWaiting, QueueOther, SealOther
  <2>5. /\ VaultIn(owner', mined', memVault) /\ VaultIn(owner', mined', diskVault)
        /\ TableIn(node', mined', memTxs) /\ TableIn(node', mined', diskTxs)
        /\ \A s \in seals : VaultIn(owner', mined', s.value)
        /\ QueueIn(node', mined', writes)
    BY <2>3, TableKept, VaultKept DEF Sound, QueueIn
  <2>6. QED
    BY <2>1, <2>4, <2>5 DEF Sound, disk
<1>2. CASE Kill
  <2>1. VaultIn(owner, mined, NoVault) /\ TableIn(node, mined, NoTxs)
    BY Idle DEF VaultIn, TableIn, Mined
  <2>2. /\ Queue(flow', poll', <<>>) /\ QueueIn(node, mined, <<>>) /\ <<>> \in Seq(Writes(Tables))
        /\ Sealing(flow', poll', memVault'.account, {}) /\ {} \subseteq Writes(Vaults)
    BY DEF Queue, QueueIn, Sealing
  <2>3. QED
    BY <1>2, <2>1, <2>2, Idle DEF Kill, chain, Sound
<1>3. CASE Start
  <2>1. writes = <<>>
    BY <1>3 DEF Start, Phases, Asleep
  <2>2. Linked(diskTxs, <<>>, diskTxs)
    BY LinkedNothing
  <2>3. QED
    BY <1>3, <2>1, <2>2 DEF Start, chain, disk, Sound
<1>4. CASE PageLost
  <2>1. Queue(flow', poll', writes)
    BY <1>4, WhenPageLost, NotWaiting, QueueOther
  <2>2. Sealing(flow', poll', memVault.account, seals)
    <3>1. flow'.step = flow.step \/ \A s \in seals : s.by # "flow"
      BY <1>4, WhenPageLost, NotWaiting
    <3>2. \A p \in Polls : poll'[p].step = poll[p].step \/ \A s \in seals : s.by # p
      BY <1>4, WhenPageLost, NotWaiting
    <3>3. QED
      BY <3>1, <3>2, SealOther
  <2>3. QED
    BY <1>4, <2>1, <2>2 DEF PageLost, chain, disk, Sound
<1>5. CASE Boot
  <2>1. Sealing(flow, poll, diskVault.account, seals)
    <3>1. seals = {} \/ diskVault.account = memVault.account
      BY <1>5 DEF Boot, Accounted, Asleep, At
    <3>2. QED
      BY <3>1 DEF Sealing
  <2>2. phase # "down"
    BY <1>5 DEF Boot, Phases
  <2>3. QED
    BY <1>5, <2>1, <2>2 DEF Boot, chain, disk, Sound
<1>6. CASE UNCHANGED vars
  BY <1>6 DEF vars, memory, disk, chain, Sound
<1>7. QED
  BY <1>1, <1>2, <1>3, <1>4, <1>5, <1>6

\* What is stored is borne out after every step.
LEMMA StoredStep ==
  ASSUME IInv, [Next]_vars
  PROVE  Stored'
  BY FlowStored, PollStored, OtherStored DEF Next

\* Every step keeps the types.
LEMMA TypeStep ==
  ASSUME IInv, [Next]_vars
  PROVE  TypeOK'
<1> USE DEF IInv, TypeOK
<1>1. Stored'
  BY StoredStep
<1>2. CASE FlowStep
  <2>1. ASSUME NEW step \in FlowSteps, Goto(step) PROVE flow' \in Flows
    BY <2>1 DEF Goto, Flows
  <2>2. flow' \in Flows
    BY <1>2, <2>1, Idle DEF FlowStep, Onboard, Sealed, CreateReturns, StartSend, FlowFails,
                            DeployReturns, HashSealed, SendReturns, Tracked, Add, FlowSteps
  <2>3. generated' \in 0..MaxAccounts
    BY <1>2 DEF FlowStep, Onboard, Sealed, CreateReturns, StartSend, FlowFails,
                DeployReturns, HashSealed, SendReturns, Tracked
  <2>4. phase' \in {"down", "boot", "onboarding", "ready"} /\ poller' \in BOOLEAN
    BY <1>2 DEF FlowStep, Onboard, Sealed, CreateReturns, StartSend, FlowFails,
                DeployReturns, HashSealed, SendReturns, Tracked, Shown
  <2>5. QED
    BY <1>1, <1>2, <2>2, <2>3, <2>4, Frames DEF Stored, chain, Next
<1>3. CASE PollStep
  <2>1. PICK p \in Polls :
          \/ Tick(p) \/ NodeAnswers(p) \/ ReceiptFails(p)
          \/ ReceiptApplied(p) \/ ReceiptSaved(p) \/ MarkSaved(p)
    BY <1>3 DEF PollStep
  <2>2. poller' \in BOOLEAN
    BY <2>1 DEF Tick, NodeAnswers, ReceiptFails, ReceiptApplied, ReceiptSaved, MarkSaved
  <2>3. poll' \in [Polls -> PollStates]
    BY <2>1, PollMoves
  <2>4. QED
    BY <1>1, <1>3, <2>2, <2>3, Frames DEF Stored, chain, Next
<1>4. CASE ExternalStep
  <2>1. PICK h \in Hashes :
          \/ Submit(h) \/ NodeSees(h) \/ NodeDrops(h) \/ NodePrunes(h) \/ GraceEnds(h)
          \/ \E result \in Mined : NodeMines(h, result)
    BY <1>4 DEF ExternalStep
  <2>2. /\ flow' \in Flows /\ node' \in [Hashes -> NodeStates] /\ faults' \in 0..MaxFaults
        /\ owner' \in [Hashes -> Accounts \cup {None}] /\ old' \subseteq Hashes
        /\ mined' \in [Hashes -> SUBSET Mined]
    <3>1. CASE Submit(h)
      <4>1. memVault.account \in Accounts \cup {None}
        BY DEF Vaults
      <4>2. flow' \in Flows
        BY <3>1 DEF Submit, Flows
      <4>3. QED
        BY <3>1, <4>1, <4>2 DEF Submit, NodeStates
    <3>2. CASE GraceEnds(h)
      BY <3>2 DEF GraceEnds, memory
    <3>3. ASSUME NEW from, NEW to \in NodeStates, NodeStep(h, from, to)
          PROVE  /\ flow' = flow /\ owner' = owner /\ old' = old
                 /\ node' \in [Hashes -> NodeStates] /\ mined' \in [Hashes -> SUBSET Mined]
      BY <3>3 DEF NodeStep, memory
    <3>4. CASE NodeSees(h) \/ NodeDrops(h) \/ NodePrunes(h)
      BY <3>3, <3>4 DEF NodeSees, NodeDrops, NodePrunes, NodeStates
    <3>5. CASE \E result \in Mined : NodeMines(h, result)
      BY <3>3, <3>5 DEF NodeMines, NodeStates, Mined
    <3>6. QED
      BY <2>1, <3>1, <3>2, <3>4, <3>5
  <2>3. QED
    BY <1>1, <1>4, <2>2, Frames DEF Stored, Next
<1>5. CASE Kill
  <2>1. faults' \in 0..MaxFaults
    BY <1>5 DEF Kill
  <2>2. QED
    BY <1>1, <1>5, <2>1, Idle DEF Kill, Stored, chain
<1>6. CASE Start
  BY <1>1, <1>6 DEF Start, Stored, disk, chain
<1>7. CASE PageLost
  <2>1. flow' \in Flows /\ poll' \in [Polls -> PollStates] /\ poller' \in BOOLEAN
    BY <1>7, WhenPageLost, Idle
  <2>2. faults' \in 0..MaxFaults
    BY <1>7 DEF PageLost
  <2>3. QED
    BY <1>1, <1>7, <2>1, <2>2 DEF PageLost, Stored, chain
<1>8. CASE Boot
  BY <1>1, <1>8 DEF Boot, Stored, disk, chain
<1>9. CASE UNCHANGED vars
  BY <1>9 DEF vars, memory, disk, chain
<1>10. QED
  BY <1>2, <1>3, <1>4, <1>5, <1>6, <1>7, <1>8, <1>9 DEF Next

\* A poll at work rules out much.
LEMMA PollAtWork ==
  ASSUME IInv, PollStep
  PROVE  /\ phase \in {"boot", "ready"} /\ ~Untracked /\ ~Asleep
         /\ flow.step \in {"idle", "send", "track"}
         /\ diskVault.account # None /\ diskVault.account = memVault.account
<1> USE DEF IInv, TypeOK
<1>1. ~Untracked /\ ~Asleep /\ ~(~poller /\ PollsIdle)
  BY Idle DEF PollStep, Tick, NodeAnswers, ReceiptFails, ReceiptApplied, ReceiptSaved,
              MarkSaved, Untracked, Asleep, PollsIdle
<1>2. phase \in {"boot", "ready"} /\ diskVault.account # None
  BY <1>1 DEF Phases
<1>3. flow.step \in {"idle", "send", "track"}
  BY <1>1 DEF Phases, Flows, FlowSteps
<1>4. QED
  BY <1>1, <1>2, <1>3 DEF Accounted, At

\* The phases, and the poller.
LEMMA PhasesStep ==
  ASSUME IInv, [Next]_vars
  PROVE  Phases' /\ PollerRuns'
<1> USE DEF IInv, TypeOK, PollerRuns
<1>1. \A step : Goto(step) => flow'.step = step /\ flow'.tx = flow.tx
  BY DEF Goto, Flows
<1>2. CASE FlowStep
  <2>1. phase # "down" /\ UNCHANGED <<poll, booting>>
    BY <1>2, WhenTableLands, WhenVaultLands, Frames, Idle
       DEF FlowStep, Onboard, Sealed, CreateReturns, StartSend, FlowFails,
           DeployReturns, HashSealed, SendReturns, Tracked, At, Phases, Asleep, Next
  <2>2. CASE Onboard
    <3>1. ~poller /\ PollsIdle /\ memTxs = NoTxs /\ ~booting /\ flow'.step = "seal"
      BY <1>1, <2>2 DEF Onboard, Phases, At
    <3>2. UNCHANGED <<phase, poller, memTxs, diskVault>> /\ phase = "onboarding"
      BY <2>2 DEF Onboard
    <3>3. QED
      BY <2>1, <3>1, <3>2 DEF Phases, At, Untracked, PollsIdle
  <2>3. CASE Sealed
    <3>1. /\ diskVault'.account = memVault.account /\ flow.step \in {"seal", "cache"}
          /\ flow'.step \in {"create", "deploy"} /\ UNCHANGED <<phase, poller, memTxs>>
      BY <1>1, <2>3, WhenVaultLands DEF Sealed
    <3>2. memVault.account # None /\ Untracked /\ phase # "ready"
      BY <3>1 DEF Accounted, Phases
    <3>3. QED
      BY <2>1, <3>1, <3>2 DEF Phases, At, Untracked, PollsIdle
  <2>4. CASE CreateReturns \/ DeployReturns
    <3>1. /\ flow.step \in {"create", "deploy"} /\ flow'.step \in {"cache", "hash"}
          /\ UNCHANGED <<phase, poller, memTxs, diskVault>>
      BY <1>1, <2>4 DEF CreateReturns, DeployReturns, At
    <3>2. QED
      BY <2>1, <3>1 DEF Phases, At, Untracked, PollsIdle
  <2>5. CASE StartSend
    <3>1. /\ flow'.step = "send" /\ phase = "ready" /\ flow.step = "idle"
          /\ UNCHANGED <<phase, poller, memTxs, diskVault, memVault>>
      BY <1>1, <2>5 DEF StartSend, At, disk
    <3>2. diskVault.account # None
      BY <3>1 DEF Accounted, At
    <3>3. QED
      BY <2>1, <3>1, <3>2 DEF Phases, At, Untracked, PollsIdle, Unsettled
  <2>6. CASE FlowFails
    <3>1. /\ flow.step \in {"create", "deploy", "send"} /\ flow'.step = "idle"
          /\ UNCHANGED <<phase, poller, memTxs, diskVault>>
      BY <2>6, Idle DEF FlowFails, disk
    <3>2. QED
      BY <2>1, <3>1 DEF Phases, At, Untracked, PollsIdle, Unsettled
  <2>7. CASE HashSealed
    <3>1. /\ flow.step = "hash" /\ flow'.step = "track" /\ diskVault'.account = memVault.account
          /\ UNCHANGED <<phase, poller>>
      BY <1>1, <2>7, WhenVaultLands DEF HashSealed, Add, At
    <3>2. memVault.account # None /\ phase # "ready"
      BY <3>1 DEF Accounted, Phases
    <3>3. QED
      BY <2>1, <3>1, <3>2 DEF Phases, At, Untracked, PollsIdle
  <2>8. CASE SendReturns
    <3>1. /\ flow.step = "send" /\ flow'.step = "track" /\ UNCHANGED <<phase, poller, diskVault>>
      BY <1>1, <2>8 DEF SendReturns, Add, At
    <3>2. QED
      BY <2>1, <3>1 DEF Phases, At, Untracked, PollsIdle
  <2>9. CASE Tracked
    <3>1. /\ flow.step = "track" /\ flow'.step = "idle" /\ diskVault' = diskVault /\ poller'
          /\ phase' = Shown /\ memTxs' = memTxs
      BY <2>9, Idle, WhenTableLands DEF Tracked, At
    <3>2. diskVault.account # None
      BY <3>1 DEF Phases
    <3>3. phase' # "onboarding"
      <4>1. CASE phase = "onboarding"
        <5>1. flow.tx \in Hashes /\ flow.tx # None
          BY <3>1 DEF Flowing, Flows
        <5>2. owner[flow.tx] # None
          BY <3>1, <4>1, <5>1 DEF Flowing
        <5>3. QED
          BY <3>1, <5>2 DEF Shown
      <4>2. CASE phase # "onboarding"
        BY <3>1, <4>2 DEF Shown
      <4>3. QED
        BY <4>1, <4>2
    <3>4. phase' \in {"boot", "ready"} /\ (phase' = "boot" => phase = "boot")
      BY <2>1, <3>1, <3>3 DEF Shown
    <3>5. QED
      BY <2>1, <3>1, <3>2, <3>4 DEF Phases, At, Untracked, PollsIdle
  <2>10. QED
    BY <1>2, <2>2, <2>3, <2>4, <2>5, <2>6, <2>7, <2>8, <2>9 DEF FlowStep
<1>3. CASE PollStep
  <2>1. PICK p \in Polls :
          \/ Tick(p) \/ NodeAnswers(p) \/ ReceiptFails(p)
          \/ ReceiptApplied(p) \/ ReceiptSaved(p) \/ MarkSaved(p)
    BY <1>3 DEF PollStep
  <2>2. /\ UNCHANGED <<phase, booting, flow>> /\ phase \in {"boot", "ready"}
        /\ flow.step \in {"idle", "send", "track"} /\ diskVault.account = memVault.account
        /\ diskVault.account # None
    BY <1>3, PollAtWork, Frames DEF Next
  <2>3. diskVault'.account # None
    BY <2>1, <2>2, WhenTableLands, WhenVaultLands
       DEF Tick, NodeAnswers, ReceiptFails, ReceiptApplied, ReceiptSaved, MarkSaved, disk
  <2>4. Phases'
    BY <2>2, <2>3 DEF Phases, At
  <2>5. Unsettled' \subseteq Unsettled
    <3>1. CASE UNCHANGED memTxs
      BY <3>1 DEF Unsettled
    <3>2. CASE memTxs' # memTxs
      BY <2>1, <3>2, Applied DEF Tick, NodeAnswers, ReceiptFails, ReceiptApplied, ReceiptSaved,
                                 MarkSaved, Unsettled
    <3>3. QED
      BY <3>1, <3>2
  <2>6. poller' = poller \/ Unsettled = {}
    BY <2>1 DEF Tick, NodeAnswers, ReceiptFails, ReceiptApplied, ReceiptSaved, MarkSaved
  <2>7. QED
    BY <2>2, <2>4, <2>5, <2>6 DEF At
<1>4. CASE ExternalStep
  <2>1. UNCHANGED <<phase, booting, memVault, memTxs, poll, poller, seals, writes, diskVault>>
    BY <1>4, Frames DEF Next, disk
  <2>2. flow' = flow \/ (flow'.step = flow.step /\ flow.step \in {"deploy", "send"})
    BY <1>4 DEF ExternalStep, Submit, NodeSees, NodeDrops, NodePrunes, NodeMines, NodeStep,
                GraceEnds, memory, Flows
  <2>3. Asleep => Asleep'
    BY <2>1, <2>2, Idle DEF Asleep, PollsIdle
  <2>4. QED
    BY <2>1, <2>2, <2>3 DEF Phases, Untracked, PollsIdle, At, Unsettled
<1>5. CASE Kill
  <2>1. /\ Asleep' /\ memTxs' = NoTxs /\ ~booting' /\ phase' = "down" /\ Untracked' /\ flow'.step = "idle"
    BY <1>5, Idle DEF Kill, Asleep, Untracked, PollsIdle
  <2>2. QED
    BY <2>1 DEF Phases, At
<1>6. CASE Start
  <2>1. /\ phase' = "boot" /\ booting' /\ UNCHANGED <<flow, poll, poller, diskVault>>
        /\ memTxs' = diskTxs /\ Asleep /\ flow.step = "idle"
    BY <1>6, Idle DEF Start, disk, Phases, Asleep
  <2>2. diskVault.account = None => diskTxs = NoTxs
    BY DEF Accounted, Tables, NoTxs, Stored
  <2>3. QED
    BY <2>1, <2>2 DEF Phases, At, Untracked, PollsIdle, Asleep
<1>7. CASE PageLost
  <2>1. /\ phase' = "boot" /\ booting' /\ UNCHANGED <<memTxs, diskVault>> /\ (poller' => poller)
    BY <1>7, WhenPageLost DEF PageLost, disk
  <2>2. flow' = flow \/ flow'.step = "idle"
    BY <1>7, WhenPageLost, Idle
  <2>3. PollsIdle => PollsIdle'
    <3>1. \A p \in Polls : poll[p] = IdlePoll => poll'[p] = IdlePoll
      BY <1>7, WhenPageLost, Idle
    <3>2. QED
      BY <3>1 DEF PollsIdle
  <2>4. flow'.step # "send"
    BY <1>7, Idle DEF PageLost
  <2>5. QED
    BY <2>1, <2>2, <2>3, <2>4 DEF Phases, At, Untracked
<1>8. CASE Boot
  <2>1. /\ ~booting' /\ UNCHANGED <<memTxs, flow, poll, diskVault>>
        /\ phase' = IF diskVault.account = None THEN "onboarding" ELSE "ready"
        /\ poller' = (poller \/ diskVault.account # None)
        /\ flow.step \notin {"seal", "create", "cache", "deploy", "hash"}
    BY <1>8 DEF Boot, disk
  <2>2. flow.step \in {"idle", "send", "track"}
    BY <2>1 DEF Flows, FlowSteps
  <2>3. QED
    BY <2>1, <2>2 DEF Phases, At, Untracked, PollsIdle
<1>9. CASE UNCHANGED vars
  BY <1>9 DEF vars, memory, disk, Unsettled, At, Phases, Asleep, Untracked, PollsIdle
<1>10. QED
  BY <1>2, <1>3, <1>4, <1>5, <1>6, <1>7, <1>8, <1>9 DEF Next

\* A step of a poll leaves the accounts alone; no transaction becomes known or is
\* forgotten.
LEMMA PollFrame ==
  ASSUME IInv, PollStep
  PROVE  /\ memVault'.account = memVault.account /\ diskVault'.account = diskVault.account
         /\ Below(diskTxs, diskTxs') /\ Below(diskTxs', memTxs)
         /\ \A h \in Hashes : memTxs'[h] # "none" <=> memTxs[h] # "none"
<1> USE DEF IInv, TypeOK, Stored
<1>1. PICK p \in Polls :
        \/ Tick(p) \/ NodeAnswers(p) \/ ReceiptFails(p)
        \/ ReceiptApplied(p) \/ ReceiptSaved(p) \/ MarkSaved(p)
  BY DEF PollStep
<1>2. memVault'.account = memVault.account
  BY <1>1 DEF Tick, NodeAnswers, ReceiptFails, ReceiptApplied, ReceiptSaved, MarkSaved, Vaults
<1>3. Below(diskTxs, memTxs) /\ Below(diskTxs, diskTxs)
  BY PollAtWork, LinkedBelow DEF Below
<1>4. /\ diskVault'.account = diskVault.account
      /\ Below(diskTxs, diskTxs') /\ Below(diskTxs', memTxs)
  <2>1. CASE TableLands(p)
    BY <2>1, WhenTableLands
  <2>2. CASE VaultLands(p)
    BY <1>3, <2>2, WhenVaultLands, PollAtWork
  <2>3. CASE UNCHANGED <<diskVault, diskTxs>>
    BY <1>3, <2>3
  <2>4. QED
    BY <1>1, <2>1, <2>2, <2>3 DEF Tick, NodeAnswers, ReceiptFails, ReceiptApplied, ReceiptSaved, MarkSaved, disk
<1>5. \A h \in Hashes : memTxs'[h] # "none" <=> memTxs[h] # "none"
  <2>1. CASE UNCHANGED memTxs
    BY <2>1
  <2>2. CASE memTxs' # memTxs
    BY <1>1, <2>2, Applied DEF Tick, NodeAnswers, ReceiptFails, ReceiptApplied, ReceiptSaved, MarkSaved
  <2>3. QED
    BY <2>1, <2>2
<1>6. QED
  BY <1>2, <1>4, <1>5

\* What a flow's step does to what is known of transactions, on disk and in memory.
LEMMA FlowFrame ==
  ASSUME IInv, FlowStep
  PROVE  /\ phase # "down"
         /\ Below(diskTxs, diskTxs') /\ Below(diskTxs', memTxs)
         /\ \A h \in Hashes : memTxs'[h] # "none" =>
              memTxs[h] # "none" \/ (h = flow.tx /\ flow'.step = "track" /\ flow'.tx = flow.tx)
         /\ \A h \in Hashes : memTxs[h] # "none" => memTxs'[h] # "none"
         /\ flow.step = "track" => flow' = IdleFlow /\ diskTxs'[flow.tx] # "none"
<1> USE DEF IInv, TypeOK, Stored
<1>1. phase # "down"
  BY WhenTableLands, WhenVaultLands, Idle
     DEF FlowStep, Onboard, Sealed, CreateReturns, StartSend, FlowFails,
         DeployReturns, HashSealed, SendReturns, Tracked, At, Phases, Asleep
<1>2. Below(diskTxs, memTxs) /\ Below(diskTxs, diskTxs)
  BY <1>1, LinkedBelow DEF Below
<1>3. Below(diskTxs, diskTxs') /\ Below(diskTxs', memTxs)
  <2>1. CASE TableLands("flow")
    BY <2>1, WhenTableLands
  <2>2. CASE UNCHANGED diskTxs
    BY <1>2, <2>2
  <2>3. QED
    BY <2>1, <2>2 DEF FlowStep, Onboard, Sealed, CreateReturns, StartSend, FlowFails,
                      DeployReturns, HashSealed, SendReturns, Tracked, VaultLands, disk
<1>4. \/ UNCHANGED memTxs
      \/ /\ \A h \in Hashes : memTxs'[h] = IF h = flow.tx THEN "submitted" ELSE memTxs[h]
         /\ flow'.step = "track" /\ flow'.tx = flow.tx
  <2>1. CASE HashSealed \/ SendReturns
    <3>1. flow.tx # None /\ ~At("track") /\ Add
      BY <2>1 DEF HashSealed, SendReturns, At, Flowing
    <3>2. flow'.step = "track" /\ flow'.tx = flow.tx
      BY <3>1 DEF Add, Goto, Flows
    <3>3. QED
      BY <3>1, <3>2, Added DEF Add
  <2>2. CASE ~(HashSealed \/ SendReturns)
    BY <2>2 DEF FlowStep, Onboard, Sealed, CreateReturns, StartSend, FlowFails,
                DeployReturns, Tracked
  <2>3. QED
    BY <2>1, <2>2
<1>5. ASSUME flow.step = "track" PROVE flow' = IdleFlow /\ diskTxs'[flow.tx] # "none"
  <2>1. Tracked
    BY <1>5 DEF FlowStep, Onboard, Sealed, CreateReturns, StartSend, FlowFails,
                DeployReturns, HashSealed, SendReturns, At
  <2>2. TableLands("flow") /\ flow' = IdleFlow
    BY <2>1 DEF Tracked
  <2>3. QED
    BY <2>2, WhenTableLands DEF Awaited
<1>6. QED
  BY <1>1, <1>3, <1>4, <1>5

\* The flow and the transaction in its hands.
LEMMA FlowingStep ==
  ASSUME IInv, [Next]_vars
  PROVE  Flowing'
<1> USE DEF IInv, TypeOK, Stored, Flowing
<1>1. \A step : Goto(step) => flow'.step = step /\ flow'.tx = flow.tx
  BY DEF Goto, Flows
<1>2. flow.tx # None => flow.tx \in Hashes
  BY DEF Flows
<1>3. CASE FlowStep
  <2>1. UNCHANGED chain
    BY <1>3, Frames DEF Next
  <2>2. CASE Onboard
    BY <1>1, <2>2 DEF Onboard, At
  <2>3. CASE Sealed
    BY <1>1, <2>3 DEF Sealed, At
  <2>4. CASE CreateReturns \/ StartSend
    BY <1>1, <2>4 DEF CreateReturns, StartSend, At
  <2>5. CASE FlowFails \/ Tracked
    BY <2>5, Idle DEF FlowFails, Tracked
  <2>6. CASE DeployReturns
    <3>1. memVault'.account = memVault.account
      BY <2>6 DEF DeployReturns, Vaults
    <3>2. QED
      BY <1>1, <2>1, <2>6, <3>1 DEF DeployReturns, At, chain
  <2>7. CASE HashSealed \/ SendReturns
    BY <1>1, <2>1, <2>7 DEF HashSealed, SendReturns, Add, At, chain
  <2>8. QED
    BY <1>3, <2>2, <2>3, <2>4, <2>5, <2>6, <2>7 DEF FlowStep
<1>4. CASE PollStep
  BY <1>2, <1>4, PollFrame, Frames DEF At, chain, Next
<1>5. CASE ExternalStep
  <2>1. Grows(node, owner, mined, node', owner', mined')
    BY <1>5, ChainGrows DEF Next
  <2>2. UNCHANGED <<phase, memVault, memTxs>>
    BY <1>5, Frames DEF Next
  <2>3. CASE UNCHANGED flow
    BY <1>2, <2>1, <2>2, <2>3 DEF Grows, At
  <2>4. CASE flow' # flow
    <3>1. PICK h \in Hashes : Submit(h)
      BY <1>5, <2>4 DEF ExternalStep, NodeSees, NodeDrops, NodePrunes, NodeMines, NodeStep, GraceEnds, memory
    <3>2. flow'.step = flow.step /\ flow'.tx = h /\ flow.step \in {"deploy", "send"}
      BY <3>1 DEF Submit, Flows
    <3>3. node'[h] = "unseen" /\ owner'[h] = IF At("deploy") THEN memVault.account ELSE None
      BY <3>1 DEF Submit
    <3>4. memTxs[h] = "none"
      BY <3>1 DEF Submit, Sound, TableIn
    <3>5. memVault.account # None /\ (flow.step = "send" => phase # "onboarding")
      BY <3>2 DEF Accounted, Phases, At
    <3>6. QED
      BY <2>2, <3>1, <3>2, <3>3, <3>4, <3>5 DEF Submit, At
  <2>5. QED
    BY <2>3, <2>4
<1>6. CASE Kill
  BY <1>6, Idle DEF Kill
<1>7. CASE Start
  BY <1>7, Idle DEF Start, Phases, Asleep, chain
<1>8. CASE PageLost
  BY <1>8, WhenPageLost, Idle DEF PageLost, chain, At
<1>9. CASE Boot
  <2>1. /\ flow' = flow /\ memVault' = diskVault /\ UNCHANGED <<memTxs, chain>>
        /\ phase' = "onboarding" => diskVault.account = None
        /\ flow.step \notin {"seal", "create", "cache", "deploy", "hash"}
    BY <1>9 DEF Boot
  <2>2. flow.tx # None => diskVault.account = memVault.account /\ flow.step \in {"send", "track"}
    BY <2>1, Idle DEF Accounted, Asleep, At, Flows, FlowSteps
  <2>3. phase' = "onboarding" => flow.tx = None
    BY <2>1, <2>2 DEF Phases
  <2>4. QED
    BY <2>1, <2>2, <2>3 DEF chain, At
<1>10. CASE UNCHANGED vars
  BY <1>10 DEF vars, memory, disk, chain, At
<1>11. QED
  BY <1>3, <1>4, <1>5, <1>6, <1>7, <1>8, <1>9, <1>10 DEF Next

\* What the polls hold in their hands, and the grace windows.
LEMMA PollingStep ==
  ASSUME IInv, [Next]_vars
  PROVE  Polling'
<1> USE DEF IInv, TypeOK, Stored
<1>p. \A p \in Polls : poll[p].todo \in SUBSET Hashes
  BY DEF PollStates
<1>1. ASSUME UNCHANGED <<poll, chain>>, \A h \in Hashes : memTxs[h] # "none" => memTxs'[h] # "none"
      PROVE  Polling'
  BY <1>1, <1>p DEF Polling, Polled, chain
<1>2. CASE FlowStep
  BY <1>1, <1>2, FlowFrame, Frames DEF Next
<1>3. CASE PollStep
  <2>1. PICK p \in Polls :
          \/ Tick(p) \/ NodeAnswers(p) \/ ReceiptFails(p)
          \/ ReceiptApplied(p) \/ ReceiptSaved(p) \/ MarkSaved(p)
    BY <1>3 DEF PollStep
  <2>2. PICK r \in PollStates : poll' = [poll EXCEPT ![p] = r] /\ Resumed(p, r)
    BY <2>1, PollMoves
  <2>3. /\ poll'[p] = r /\ \A s \in Polls : s # p => poll'[s] = poll[s]
        /\ UNCHANGED chain
        /\ \A h \in Hashes : memTxs[h] # "none" => memTxs'[h] # "none"
    BY <1>3, <2>2, PollFrame, Frames DEF Next
  <2>4. ASSUME NEW s \in Polls, poll'[s] = poll[s]
        PROVE  /\ poll'[s].step # "idle" => poll'[s].todo # {}
               /\ \A h \in poll'[s].todo : memTxs'[h] # "none"
               /\ poll'[s].step = "answered" =>
                    /\ poll'[s].receipt # "none"
                    /\ poll'[s].receipt \in Mined => poll'[s].receipt \in mined'[Polled(s)']
                    /\ poll'[s].receipt = "dropped" /\ Polled(s)' \in old' => node'[Polled(s)'] = "gone"
    <3>1. poll[s].todo \in SUBSET Hashes /\ Polled(s)' = Polled(s)
      BY <2>4 DEF PollStates, Polled
    <3>2. QED
      BY <2>3, <2>4, <3>1 DEF Polling, chain
  <2>5. \A h \in r.todo : memTxs'[h] # "none"
    <3>1. \A h \in poll[p].todo : memTxs[h] # "none" /\ h \in Hashes
      BY DEF Polling, PollStates
    <3>2. \A h \in Unsettled : memTxs[h] # "none" /\ h \in Hashes
      BY DEF Unsettled
    <3>3. QED
      BY <2>2, <2>3, <3>1, <3>2 DEF Resumed
  <2>6. CASE r = poll[p]
    BY <2>3, <2>4, <2>6 DEF Polling, chain
  <2>7. CASE r # poll[p] /\ r.step = "answered"
    <3>1. NodeAnswers(p) /\ r.todo = poll[p].todo /\ r.receipt = Report(Polled(p))
      BY <2>2, <2>7 DEF Resumed
    <3>2. poll[p].step = "ask"
      BY <3>1 DEF NodeAnswers
    <3>3. Polled(p) \in Hashes /\ node[Polled(p)] # "absent" /\ Polled(p)' = Polled(p)
      BY <2>3, <3>1, <3>2, PolledIn DEF Polled
    <3>4. /\ r.receipt # "none"
          /\ r.receipt \in Mined => r.receipt \in mined[Polled(p)]
          /\ r.receipt = "dropped" => node[Polled(p)] \in {"unseen", "gone"}
      BY <3>1, <3>3 DEF Report, NodeStates, Polling, Mined
    <3>5. QED
      BY <2>2, <2>3, <2>4, <2>5, <3>3, <3>4 DEF Polling, Resumed, chain
  <2>8. CASE r # poll[p] /\ r.step # "answered"
    BY <2>2, <2>3, <2>4, <2>5, <2>8 DEF Polling, Resumed, chain
  <2>9. QED
    BY <2>6, <2>7, <2>8
<1>4. CASE ExternalStep
  <2>1. PICK h \in Hashes :
          \/ Submit(h) \/ NodeSees(h) \/ NodeDrops(h) \/ NodePrunes(h) \/ GraceEnds(h)
          \/ \E result \in Mined : NodeMines(h, result)
    BY <1>4 DEF ExternalStep
  <2>2. Grows(node, owner, mined, node', owner', mined') /\ UNCHANGED <<memTxs, poll>>
    BY <1>4, ChainGrows, Frames DEF Next
  <2>3. \A p \in Polls : /\ Polled(p)' = Polled(p)
                         /\ poll[p].step # "idle" => Polled(p) \in Hashes
    BY <2>2, PolledIn DEF Polled
  <2>4. ASSUME NEW p \in Polls, poll[p].step = "answered"
        PROVE  /\ poll[p].receipt \in Mined => poll[p].receipt \in mined'[Polled(p)]
               /\ poll[p].receipt = "dropped" /\ Polled(p) \in old => node'[Polled(p)] = "gone"
    BY <2>2, <2>3, <2>4 DEF Polling, Grows
  <2>5. CASE GraceEnds(h)
    <3>1. old' = old \cup {h} /\ node' = node /\ mined' = mined /\ node[h] # "unseen"
      BY <2>5 DEF GraceEnds
    <3>2. node[h] # "absent"
      BY <2>5 DEF GraceEnds, Sound, TableIn
    <3>3. \A p \in Polls :
            poll[p].step = "answered" /\ poll[p].receipt = "dropped" /\ Polled(p) = h => node[h] = "gone"
      BY <2>5 DEF GraceEnds
    <3>4. QED
      BY <2>2, <2>3, <2>4, <3>1, <3>2, <3>3 DEF Polling
  <2>6. CASE Submit(h)
    <3>1. /\ node[h] = "absent" /\ node' = [node EXCEPT ![h] = "unseen"]
          /\ old' = old /\ mined' = mined
      BY <2>6 DEF Submit
    <3>2. node'[h] = "unseen" /\ \A g \in Hashes : g # h => node'[g] = node[g]
      BY <3>1
    <3>3. h \notin old
      BY <3>1 DEF Polling
    <3>4. QED
      BY <2>2, <2>3, <2>4, <3>1, <3>2, <3>3 DEF Polling, Mined
  <2>7. ASSUME NEW from \in SUBSET (NodeStates \ {"absent"}),
               NEW to \in NodeStates \ {"absent", "unseen"}, NodeStep(h, from, to)
        PROVE  Polling'
    <3>1. /\ old' = old /\ node'[h] = to /\ node[h] # "absent"
          /\ \A g \in Hashes : g # h => node'[g] = node[g] /\ mined'[g] = mined[g]
          /\ to \in Mined => to \in mined'[h]
      BY <2>7 DEF NodeStep
    <3>2. \A g \in Hashes : /\ node'[g] \in Mined => node'[g] \in mined'[g]
                            /\ mined'[g] # {} => node'[g] # "absent"
                            /\ g \in old => node'[g] \notin {"absent", "unseen"}
      BY <3>1 DEF Polling
    <3>3. QED
      BY <2>2, <2>3, <2>4, <3>1, <3>2 DEF Polling
  <2>8. CASE NodeSees(h) \/ NodeDrops(h) \/ NodePrunes(h)
    BY <2>7, <2>8 DEF NodeSees, NodeDrops, NodePrunes, NodeStates, Mined
  <2>9. CASE \E result \in Mined : NodeMines(h, result)
    BY <2>7, <2>9 DEF NodeMines, NodeStates, Mined
  <2>10. QED
    BY <2>1, <2>5, <2>6, <2>8, <2>9
<1>5. CASE Kill
  <2>1. \A p \in Polls : poll'[p].step = "idle" /\ poll'[p].todo = {}
    BY <1>5, Idle DEF Kill
  <2>2. QED
    BY <1>5, <2>1 DEF Kill, Polling, chain
<1>6. CASE Start
  <2>1. memTxs = NoTxs /\ UNCHANGED <<poll, chain>>
    BY <1>6 DEF Start, Phases
  <2>2. QED
    BY <1>1, <2>1, Idle
<1>7. CASE PageLost
  <2>1. UNCHANGED <<memTxs, chain>>
    BY <1>7 DEF PageLost
  <2>2. ASSUME NEW p \in Polls
        PROVE  /\ poll'[p].step # "idle" => poll'[p].todo # {}
               /\ \A h \in poll'[p].todo : memTxs'[h] # "none"
               /\ poll'[p].step # "answered"
    BY <1>7, <2>1, WhenPageLost DEF Polling
  <2>3. QED
    BY <2>1, <2>2 DEF Polling, chain
<1>8. CASE Boot \/ UNCHANGED vars
  BY <1>1, <1>8 DEF Boot, vars, memory
<1>9. QED
  BY <1>2, <1>3, <1>4, <1>5, <1>6, <1>7, <1>8 DEF Next

\* What the store knows and no flow has in its hands is on disk.
LEMMA DurableStep ==
  ASSUME IInv, [Next]_vars
  PROVE  TrackedIsDurable'
<1> USE DEF IInv, TypeOK, Stored
<1>1. CASE FlowStep
  <2>1. SUFFICES ASSUME NEW h \in Hashes, memTxs'[h] # "none",
                        ~(flow'.step = "track" /\ flow'.tx = h)
                 PROVE  diskTxs'[h] # "none"
    BY DEF TrackedIsDurable, At
  <2>2. memTxs[h] # "none"
    BY <1>1, <2>1, FlowFrame
  <2>3. CASE flow.step = "track" /\ flow.tx = h
    BY <1>1, <2>3, FlowFrame
  <2>4. CASE ~(flow.step = "track" /\ flow.tx = h)
    <3>1. diskTxs[h] # "none"
      BY <2>2, <2>4 DEF TrackedIsDurable, At
    <3>2. QED
      BY <1>1, <3>1, FlowFrame DEF Below
  <2>5. QED
    BY <2>3, <2>4
<1>2. CASE PollStep
  BY <1>2, PollFrame, Frames DEF TrackedIsDurable, At, Below, Next
<1>3. CASE ExternalStep
  <2>1. UNCHANGED <<memTxs, diskTxs>>
    BY <1>3, Frames DEF Next, disk
  <2>2. flow' = flow \/ flow.step \in {"deploy", "send"}
    BY <1>3 DEF ExternalStep, Submit, NodeSees, NodeDrops, NodePrunes, NodeMines, NodeStep, GraceEnds, memory
  <2>3. QED
    BY <2>1, <2>2 DEF TrackedIsDurable, At
<1>4. CASE Kill
  BY <1>4, Idle DEF Kill, TrackedIsDurable
<1>5. CASE Start
  BY <1>5 DEF Start, TrackedIsDurable, disk
<1>6. CASE PageLost
  BY <1>6, WhenPageLost DEF PageLost, TrackedIsDurable, disk, At
<1>7. CASE Boot
  BY <1>7 DEF Boot, TrackedIsDurable, disk, At
<1>8. CASE UNCHANGED vars
  BY <1>8 DEF vars, memory, disk, TrackedIsDurable, At
<1>9. QED
  BY <1>1, <1>2, <1>3, <1>4, <1>5, <1>6, <1>7, <1>8 DEF Next

\* Whose vault is on disk, and whose transactions are in the tables.
LEMMA AccountedStep ==
  ASSUME IInv, [Next]_vars
  PROVE  Accounted'
<1> USE DEF IInv, TypeOK, Stored, Accounted
<1>1. /\ memVault.account \in Nat /\ diskVault.account \in Nat /\ generated \in Nat
      /\ \A h \in Hashes : owner[h] \in Nat
  BY DEF Vaults, Accounts, None
<1>2. \A step : Goto(step) => flow'.step = step /\ flow'.tx = flow.tx
  BY DEF Goto, Flows
<1>3. flow.step # "idle" => ~Asleep
  BY Idle DEF Asleep
<1>4. CASE FlowStep
  <2>1. /\ phase # "down" /\ UNCHANGED chain
        /\ \A h \in Hashes : diskTxs'[h] # "none" => memTxs[h] # "none"
        /\ \A h \in Hashes : memTxs'[h] # "none" =>
             memTxs[h] # "none" \/ (h = flow.tx /\ flow'.step = "track" /\ flow'.tx = flow.tx)
    BY <1>4, FlowFrame, Frames DEF Below, Next
  <2>2. \A h \in Hashes : h = flow.tx => owner[h] \in {None, memVault.account}
    BY DEF Flowing, Hashes, None
  <2>3. CASE Onboard
    <3>1. memVault'.account = generated + 1 /\ generated' = generated + 1
      BY <2>3 DEF Onboard, NoVault
    <3>2. /\ UNCHANGED <<phase, memTxs, diskVault, diskTxs, chain>>
          /\ flow'.step = "seal" /\ phase = "onboarding"
      BY <1>2, <2>3 DEF Onboard
    <3>3. QED
      BY <1>1, <3>1, <3>2 DEF At, chain, None
  <2>4. ASSUME diskVault'.account = memVault.account, UNCHANGED <<memVault, generated>>,
               flow.step # "idle", flow'.step # "seal",
               At("seal") => \A h \in Hashes : memTxs'[h] = "none" /\ diskTxs'[h] = "none"
        PROVE  Accounted'
    <3>1. At("seal") \/ diskVault.account = memVault.account
      BY <1>3, <2>4
    <3>2. \A h \in Hashes : owner[h] <= memVault.account
      BY <1>1, <3>1
    <3>3. memVault.account # None
      BY <2>4
    <3>4. \A h \in Hashes : memTxs'[h] # "none" => owner[h] \in {None, memVault.account}
      BY <2>1, <2>2, <2>4, <3>1
    <3>5. \A h \in Hashes : diskTxs'[h] # "none" => owner[h] \in {None, memVault.account}
      BY <2>1, <2>4, <3>1
    <3>6. QED
      BY <1>1, <2>1, <2>4, <3>2, <3>3, <3>4, <3>5 DEF At, chain
  <2>5. CASE Sealed
    <3>1. /\ diskVault'.account = memVault.account /\ UNCHANGED <<memVault, generated, memTxs>>
          /\ flow.step \in {"seal", "cache"} /\ flow'.step # "seal"
      BY <1>2, <2>5, WhenVaultLands DEF Sealed
    <3>2. memTxs = NoTxs
      BY <3>1 DEF Phases, Untracked
    <3>3. QED
      BY <2>1, <2>4, <3>1, <3>2, Idle
  <2>6. CASE Tracked
    <3>1. /\ diskVault' = diskVault /\ UNCHANGED <<memVault, generated>>
          /\ flow.step = "track" /\ flow'.step = "idle"
      BY <2>6, WhenTableLands, Idle DEF Tracked, At
    <3>2. QED
      BY <1>3, <2>4, <3>1 DEF At
  <2>7. CASE HashSealed
    <3>1. /\ diskVault'.account = memVault.account /\ UNCHANGED <<memVault, generated>>
          /\ flow.step = "hash" /\ flow'.step = "track"
      BY <1>2, <2>7, WhenVaultLands DEF HashSealed, Add, At
    <3>2. QED
      BY <2>4, <3>1 DEF At
  <2>8. CASE SendReturns
    <3>1. /\ diskVault' = diskVault /\ UNCHANGED <<memVault, generated>>
          /\ flow.step = "send" /\ flow'.step = "track"
      BY <1>2, <2>8 DEF SendReturns, Add, At
    <3>2. QED
      BY <1>3, <2>4, <3>1 DEF At
  <2>9. CASE CreateReturns \/ DeployReturns
    <3>1. memVault'.account = memVault.account
      BY <2>9 DEF CreateReturns, DeployReturns, Vaults
    <3>2. /\ flow'.step \in {"cache", "hash"} /\ flow.step \in {"create", "deploy"}
          /\ UNCHANGED <<phase, memTxs, diskVault, diskTxs, generated>>
      BY <1>2, <2>9 DEF CreateReturns, DeployReturns, At
    <3>3. QED
      BY <1>1, <1>3, <2>1, <3>1, <3>2 DEF At, chain
  <2>10. CASE StartSend \/ FlowFails
    <3>1. /\ UNCHANGED <<phase, memVault, memTxs, diskVault, diskTxs, generated, chain>>
          /\ flow.step # "seal" /\ flow'.step # "seal"
          /\ flow'.step # "idle" => phase = "ready"
          /\ phase = "ready" \/ flow.step # "idle"
      BY <1>2, <2>10, Idle DEF StartSend, FlowFails, At, disk
    <3>2. diskVault.account = memVault.account
      BY <1>3, <3>1 DEF At
    <3>3. QED
      BY <1>1, <3>1, <3>2 DEF At, chain
  <2>11. QED
    BY <1>4, <2>3, <2>5, <2>6, <2>7, <2>8, <2>9, <2>10 DEF FlowStep
<1>5. CASE PollStep
  <2>1. /\ UNCHANGED <<phase, flow, chain, generated>> /\ diskVault.account = memVault.account
        /\ ~At("seal") /\ diskVault.account # None
    BY <1>5, PollAtWork, Frames DEF Next, At
  <2>2. /\ memVault'.account = memVault.account /\ diskVault'.account = memVault.account
        /\ \A h \in Hashes : memTxs'[h] # "none" \/ diskTxs'[h] # "none" => memTxs[h] # "none"
    BY <1>5, <2>1, PollFrame DEF Below
  <2>3. QED
    BY <1>1, <2>1, <2>2 DEF At, chain
<1>6. CASE ExternalStep
  <2>1. UNCHANGED <<phase, memVault, memTxs, poll, poller, seals, writes, diskVault, diskTxs, generated>>
    BY <1>6, Frames DEF Next, disk
  <2>2. flow'.step = flow.step
    BY <1>6 DEF ExternalStep, Submit, NodeSees, NodeDrops, NodePrunes, NodeMines, NodeStep, GraceEnds, memory, Flows
  <2>3. CASE UNCHANGED <<owner, flow>>
    BY <2>1, <2>2, <2>3 DEF At, Asleep, PollsIdle
  <2>4. CASE ~UNCHANGED <<owner, flow>>
    <3>1. PICK h \in Hashes : Submit(h)
      BY <1>6, <2>4 DEF ExternalStep, NodeSees, NodeDrops, NodePrunes, NodeMines, NodeStep, GraceEnds, memory
    <3>2. /\ flow.step \in {"deploy", "send"} /\ node[h] = "absent"
          /\ owner' = [owner EXCEPT ![h] = IF At("deploy") THEN memVault.account ELSE None]
      BY <3>1 DEF Submit
    <3>3. memTxs[h] = "none" /\ diskTxs[h] = "none"
      BY <3>2 DEF Sound, TableIn
    <3>4. diskVault.account = memVault.account
      BY <1>3, <3>2 DEF At
    <3>5. /\ owner'[h] \in {None, memVault.account}
          /\ \A g \in Hashes : g # h => owner'[g] = owner[g]
      BY <3>2
    <3>6. \A g \in Hashes : owner'[g] <= diskVault.account
      BY <1>1, <3>4, <3>5 DEF None
    <3>7. QED
      BY <2>1, <2>2, <3>3, <3>4, <3>5, <3>6 DEF At
  <2>5. QED
    BY <2>3, <2>4
<1>7. CASE Kill
  <2>1. /\ Asleep' /\ phase' = "down" /\ memVault'.account = None /\ memTxs' = NoTxs
        /\ flow'.step = "idle" /\ UNCHANGED <<diskVault, diskTxs, chain, generated>>
    BY <1>7, Idle DEF Kill, Asleep, PollsIdle
  <2>2. QED
    BY <1>1, <2>1, Idle DEF At, chain, None
<1>8. CASE Start
  <2>1. /\ Asleep' /\ phase' = "boot" /\ memTxs' = diskTxs /\ flow'.step = "idle"
        /\ UNCHANGED <<memVault, flow, diskVault, diskTxs, chain, generated>>
    BY <1>8, Idle DEF Start, disk, Phases, Asleep, PollsIdle
  <2>2. QED
    BY <1>1, <2>1 DEF At, chain
<1>9. CASE PageLost
  <2>1. /\ phase # "down" /\ phase' = "boot"
        /\ UNCHANGED <<memVault, memTxs, seals, writes, diskVault, diskTxs, chain, generated>>
    BY <1>9 DEF PageLost, disk
  <2>2. flow' = flow \/ (flow' = IdleFlow /\ flow.step \in {"create", "deploy", "send"})
    BY <1>9, WhenPageLost
  <2>3. Asleep => Asleep'
    <3>1. ASSUME Asleep PROVE Asleep'
      <4>1. \A p \in Polls : poll[p] = IdlePoll => poll'[p] = IdlePoll
        BY <1>9, WhenPageLost, Idle
      <4>2. QED
        BY <1>9, <2>1, <2>2, <3>1, <4>1, WhenPageLost DEF Asleep, PollsIdle
    <3>2. QED
      BY <3>1
  <2>4. /\ flow'.step = "seal" <=> flow.step = "seal"
        /\ flow'.step # "idle" => flow.step # "idle"
    BY <2>2, Idle
  <2>5. At("seal") => phase \in {"onboarding", "boot"}
    OBVIOUS
  <2>6. QED
    BY <1>1, <2>1, <2>3, <2>4, <2>5 DEF At, chain
<1>10. CASE Boot
  <2>1. /\ memVault' = diskVault /\ UNCHANGED <<memTxs, flow, diskVault, diskTxs, chain, generated>>
        /\ phase' = "ready" => diskVault.account # None
        /\ flow.step # "seal"
    BY <1>10 DEF Boot, disk
  <2>2. flow.step # "idle" => diskVault.account = memVault.account
    BY <1>3, <2>1 DEF At
  <2>3. QED
    BY <1>1, <2>1, <2>2 DEF At, chain
<1>11. CASE UNCHANGED vars
  BY <1>11 DEF vars, memory, disk, chain, At, Asleep, PollsIdle
<1>12. QED
  BY <1>4, <1>5, <1>6, <1>7, <1>8, <1>9, <1>10, <1>11 DEF Next

\* The invariant that the theorems below are read off.
LEMMA Inductive == Spec => []IInv
<1>1. IInv /\ [Next]_vars => IInv'
  <2> SUFFICES ASSUME IInv, [Next]_vars PROVE IInv'
    OBVIOUS
  <2>1. TypeOK' /\ Stored' /\ Phases' /\ Flowing' /\ Polling' /\ Accounted' /\ TrackedIsDurable' /\ PollerRuns'
    BY TypeStep, StoredStep, PhasesStep, FlowingStep, PollingStep, AccountedStep, DurableStep
  <2>2. QED
    BY <2>1 DEF IInv
<1>2. QED
  BY <1>1, InitIInv, PTL DEF Spec

-------------------------------------------------------------------------------
(* The theorems. *)

\* Type correctness.
THEOREM Typing == Spec => []TypeOK
<1>1. IInv => TypeOK
  BY DEF IInv
<1>2. QED
  BY <1>1, Inductive, PTL

\* The keys of an account whose deployment the node has accepted are sealed on
\* disk, or newer ones are, however often the app or its page has died since.
THEOREM KeysAreSealed == Spec => []KeysSealed
<1>1. IInv => KeysSealed
  BY DEF IInv, Accounted, KeysSealed
<1>2. QED
  BY <1>1, Inductive, PTL

\* What the store knows once its flow has ended is on disk: no write of an
\* overlapping poll takes it back, for any number of polls.
THEOREM TrackedSurvives == Spec => []TrackedIsDurable
<1>1. IInv => TrackedIsDurable
  BY DEF IInv
<1>2. QED
  BY <1>1, Inductive, PTL

\* A settled transaction has been in a block with that result, or is gone, whichever
\* receipts the polls have seen and in whichever order.
THEOREM SettledIsTrue == Spec => []SettledAgrees
<1>1. IInv => SettledAgrees
  <2> SUFFICES ASSUME IInv PROVE SettledAgrees
    OBVIOUS
  <2>1. TableIn(node, mined, memTxs) /\ TableIn(node, mined, diskTxs)
    BY DEF IInv, Stored, Sound
  <2>2. QED
    BY <2>1 DEF TableIn, Settled, SettledAgrees
<1>2. QED
  BY <1>1, Inductive, PTL

\* A vault marked deployed is that of an account whose own deployment succeeded.
THEOREM DeployedIsTrue == Spec => []DeployedIsConfirmed
<1>1. IInv => DeployedIsConfirmed
  <2> SUFFICES ASSUME IInv PROVE DeployedIsConfirmed
    OBVIOUS
  <2>1. VaultIn(owner, mined, memVault) /\ VaultIn(owner, mined, diskVault)
    BY DEF IInv, Stored, Sound
  <2>2. QED
    BY <2>1 DEF VaultIn, DeployedIsConfirmed
<1>2. QED
  BY <1>1, Inductive, PTL

\* Unsettled transactions are watched: the poller runs, or a flow is about to start it.
THEOREM UnsettledIsPolled == Spec => []PollerRuns
<1>1. IInv => PollerRuns
  BY DEF IInv
<1>2. QED
  BY <1>1, Inductive, PTL

\* One write lands at a time, and it is one move away from what the disk holds.
LEMMA DiskMoves ==
  ASSUME IInv, [Next]_vars
  PROVE  diskTxs \in Tables /\ Moves(diskTxs, diskTxs')
<1>1. UNCHANGED diskTxs \/ \E by : TableLands(by)
  <2>1. CASE ExternalStep
    BY <2>1, Frames DEF disk, Next
  <2>2. CASE ~ExternalStep
    BY <2>2 DEF Next, vars, disk, FlowStep, Onboard, Sealed, CreateReturns, StartSend, FlowFails,
           DeployReturns, HashSealed, SendReturns, Tracked, PollStep, Tick, NodeAnswers,
           ReceiptFails, ReceiptApplied, ReceiptSaved, MarkSaved, VaultLands,
           Kill, Start, PageLost, Boot
  <2>3. QED
    BY <2>1, <2>2
<1>2. QED
  BY <1>1, WhenTableLands DEF Moves, IInv, Stored

\* What a restart finds recorded follows the life cycle: whatever polls overlap and
\* whenever the app dies, a record is made once, never lost, and settled once.
THEOREM Refinement == Spec => RecordsLifecycle
<1>1. Init => Lifecycle!Init
  BY DEF Init, NoTxs, Lifecycle!Init
<1>2. IInv /\ [Next]_vars => [Lifecycle!Next]_diskTxs
  <2> SUFFICES ASSUME IInv, [Next]_vars, diskTxs' # diskTxs PROVE Lifecycle!Next
    OBVIOUS
  <2>1. PICK h \in Hashes, status \in Statuses :
          diskTxs' = [diskTxs EXCEPT ![h] = status] /\ Leaves(diskTxs[h], status)
    BY DiskMoves DEF Moves
  <2>2. CASE diskTxs[h] = "none" /\ status = "submitted"
    BY <2>1, <2>2 DEF Lifecycle!Next, Lifecycle!Submit, Lifecycle!Move
  <2>3. CASE diskTxs[h] = "submitted" /\ status = "pending"
    BY <2>1, <2>3 DEF Lifecycle!Next, Lifecycle!Pend, Lifecycle!Move
  <2>4. CASE diskTxs[h] \in {"submitted", "pending"} /\ status \in Settled
    BY <2>1, <2>4 DEF Lifecycle!Next, Lifecycle!Settle, Lifecycle!Move, Lifecycle!Settled, Settled, Mined
  <2>5. QED
    BY <2>1, <2>2, <2>3, <2>4 DEF Leaves
<1>3. QED
  BY <1>1, <1>2, Inductive, PTL DEF Spec, RecordsLifecycle, Lifecycle!Spec

================================================================================
