-------------------------- MODULE WalletSessionProofs --------------------------
(***************************************************************************)
(* Proofs about WalletSession, for any number of calls, documents and      *)
(* proves, and for messages that any reload or crash may drop.             *)
(*                                                                         *)
(* The part named Exclusive holds where SlowStorage does not: the flow     *)
(* behind the lock is alone, and that is what a cancel relies on.          *)
(***************************************************************************)
EXTENDS WalletSession, SequenceTheorems, TLAPS

IsRpc(m) == m.type = "rpc"
IsAbort(m) == m.type = "abort"
IsResult(m) == m.type = "rpcResult"

\* The messages of a channel.
In(q) == {q[i] : i \in 1..Len(q)}

\* No request is posted twice.
Once(q) ==
  \A i, j \in 1..Len(q) : i < j /\ IsRpc(q[i]) /\ IsRpc(q[j]) => q[i].call # q[j].call

\* After the request of c comes no request of a flow (k is what each call is).
Last(q, k, c) ==
  \A i, j \in 1..Len(q) :
    i < j /\ IsRpc(q[i]) /\ q[i].call = c => ~(IsRpc(q[j]) /\ k[q[j].call] \in Flows)

\* The promise of a call, and what has become of it.
Promises ==
  /\ pending = {c \in Calls : caller[c] = "waiting"}
  /\ \A c \in Calls :
       /\ caller[c] = "idle" <=> kind[c] = "none"
       /\ caller[c] = "idle" => handler[c] = "none"
       /\ caller[c] \in {"idle", "waiting"} <=> outcome[c] = "none"
       /\ caller[c] = "tracking" => outcome[c] = "ok" /\ Cancellable(c)
       /\ caller[c] = "done" /\ outcome[c] = "ok" /\ Cancellable(c) => <<c, 1>> \in tracked

\* How far a handler is, and how many transactions it has sent.
Handlers ==
  \A c \in Calls :
    /\ handler[c] \in {"simulate", "prove", "send", "sent"} => Cancellable(c)
    /\ handler[c] \in {"check", "simulate", "prove", "send"} => sends[c] < Sends(c)
    /\ handler[c] = "none" => sends[c] = 0
    /\ handler[c] = "sent" => sends[c] > 0

\* A prove that is pending in the page is the one its handler waits for.
Bridge ==
  \A i \in ProveIds :
    /\ provePending[i].call = NoCall => provePending[i].listens = NoCall
    /\ provePending[i].call # NoCall =>
         /\ handler[provePending[i].call] = "prove"
         /\ \A j \in ProveIds : provePending[j].call = provePending[i].call => i = j

\* A call is posted once, and answered by a handler that has ended.
Channels ==
  /\ Once(toWeb)
  /\ \A m \in In(toWeb) : IsRpc(m) => kind[m.call] # "none" /\ handler[m.call] = "none"
  /\ \A m \in In(toHost) : IsResult(m) => handler[m.call] = "finished"

\* The call failed, and not because its page was slow or died: the node has no
\* transaction of it, or has answered in vain.
Unsent(c) == kind[c] = "single" => <<c, 1>> \notin chain \/ c \in lostReply

\* What the node has accepted comes from a handler that has sent it.
Submitted ==
  /\ \A tx \in chain :
       /\ handler[tx[1]] # "none"
       /\ kind[tx[1]] = "single" => handler[tx[1]] \in {"sent", "finished", "gone"}
  /\ \A m \in In(toHost) : IsResult(m) /\ m.how # "ok" => Unsent(m.call)
  /\ \A c \in Calls : outcome[c] \in {"error", "aborted"} => handler[c] = "finished" /\ Unsent(c)

\* What is aborted was cancelled.
Cancels ==
  /\ aborted \subseteq cancelled
  /\ \A m \in In(toWeb) : IsAbort(m) => m.call \in cancelled

\* The lock: outside the phase "ready" no flow's call is pending.
Lock ==
  /\ OneFlow
  /\ phase # "ready" => busy = NoCall /\ \A c \in pending : ~Cancellable(c)

\* The request of the pending flow is the last request of a flow in the channel;
\* once it is handled there is none.
LastRequest ==
  \A c \in pending : Cancellable(c) =>
    /\ c \in Live => \A m \in In(toWeb) : IsRpc(m) => ~Cancellable(m.call)
    /\ Last(toWeb, kind, c)

\* The pending flow listens to its own controller, and its abort is on its behalf.
OwnAborts ==
  /\ \A i \in ProveIds : provePending[i].call \in pending => provePending[i].listens = provePending[i].call
  /\ \A m \in In(toHost) :
       IsResult(m) /\ m.how = "aborted" /\ m.call \in pending => m.call \in cancelled

Exclusive == Lock /\ CancelReachesFlow /\ LastRequest /\ OwnAborts /\ OnlyCancelledAborts

IInv ==
  /\ TypeOK /\ Promises /\ Handlers /\ Bridge /\ Channels /\ Submitted /\ Cancels
  /\ ~SlowStorage => Exclusive

USE NoCallAssumption, BoundsAssumption, SlowStorageAssumption

-------------------------------------------------------------------------------
(* Channels. *)

\* The oldest message of a channel is handled ...
LEMMA TailShape ==
  ASSUME NEW S, NEW q \in Seq(S), q # <<>>
  PROVE  /\ Tail(q) \in Seq(S) /\ Head(q) \in S
         /\ Len(q) \in Nat /\ Len(q) >= 1 /\ Head(q) = q[1]
         /\ Len(Tail(q)) = Len(q) - 1
         /\ \A i \in 1..Len(Tail(q)) : Tail(q)[i] = q[i + 1] /\ i + 1 \in 2..Len(q)
<1>1. Len(q) \in Nat /\ Len(q) >= 1 /\ Tail(q) \in Seq(S) /\ Len(Tail(q)) = Len(q) - 1
  OBVIOUS
<1>2. Head(q) = q[1] /\ Head(q) \in S
  BY <1>1
<1>3. \A i \in 1..Len(Tail(q)) : Tail(q)[i] = q[i + 1] /\ i + 1 \in 2..Len(q)
  BY <1>1
<1>4. QED
  BY <1>1, <1>2, <1>3

\* What is left in a channel was in it.
LEMMA InTail ==
  ASSUME NEW S, NEW q \in Seq(S), q # <<>>
  PROVE  In(Tail(q)) \subseteq In(q) /\ Head(q) \in In(q) /\ In(q) \subseteq S
<1>1. \A i \in 1..Len(Tail(q)) : Tail(q)[i] = q[i + 1] /\ i + 1 \in 1..Len(q)
  BY TailShape
<1>2. Head(q) = q[1] /\ 1 \in 1..Len(q)
  BY TailShape
<1>3. QED
  BY <1>1, <1>2 DEF In

\* ... and a message is posted.
LEMMA AppendShape ==
  ASSUME NEW S, NEW q \in Seq(S), NEW m \in S
  PROVE  /\ Append(q, m) \in Seq(S) /\ Len(q) \in Nat /\ Len(Append(q, m)) = Len(q) + 1
         /\ \A i \in 1..Len(q) : Append(q, m)[i] = q[i]
         /\ Append(q, m)[Len(q) + 1] = m
         /\ In(Append(q, m)) = In(q) \cup {m}
<1>1. /\ Append(q, m) \in Seq(S) /\ Len(q) \in Nat /\ Len(Append(q, m)) = Len(q) + 1
      /\ \A i \in 1..Len(q) : Append(q, m)[i] = q[i]
      /\ Append(q, m)[Len(q) + 1] = m
  OBVIOUS
<1> DEFINE r == Append(q, m)
<1> HIDE DEF r
<1>2. \A i \in 1..Len(r) : i \in 1..Len(q) \/ i = Len(q) + 1
  BY <1>1 DEF r
<1>3. \A i \in 1..Len(q) : i \in 1..Len(r) /\ r[i] = q[i]
  BY <1>1 DEF r
<1>4. Len(q) + 1 \in 1..Len(r) /\ r[Len(q) + 1] = m
  BY <1>1 DEF r
<1>5. In(r) = In(q) \cup {m}
  BY <1>2, <1>3, <1>4 DEF In
<1>6. QED
  BY <1>1, <1>5 DEF r

\* A batch of messages is posted.
LEMMA InConcat ==
  ASSUME NEW S, NEW q \in Seq(S), NEW r \in Seq(S)
  PROVE  q \o r \in Seq(S) /\ In(q \o r) = In(q) \cup In(r)
<1> DEFINE s == q \o r
<1>1. /\ s \in Seq(S) /\ Len(s) = Len(q) + Len(r) /\ Len(q) \in Nat /\ Len(r) \in Nat
      /\ \A i \in 1..Len(q) + Len(r) : s[i] = IF i <= Len(q) THEN q[i] ELSE r[i - Len(q)]
  BY ConcatProperties
<1> HIDE DEF s
<1>2. \A i \in 1..Len(q) : i \in 1..Len(s) /\ s[i] = q[i]
  BY <1>1
<1>3. \A i \in 1..Len(r) : Len(q) + i \in 1..Len(s) /\ s[Len(q) + i] = r[i]
  BY <1>1
<1>4. \A i \in 1..Len(s) : (i \in 1..Len(q) /\ s[i] = q[i])
                           \/ (i - Len(q) \in 1..Len(r) /\ s[i] = r[i - Len(q)])
  BY <1>1
<1>5. In(s) = In(q) \cup In(r)
  <2>1. \A m \in In(s) : m \in In(q) \/ m \in In(r)
    BY <1>4 DEF In
  <2>2. \A m \in In(q) : m \in In(s)
    BY <1>2 DEF In
  <2>3. \A m \in In(r) : m \in In(s)
    BY <1>3 DEF In
  <2>4. QED
    BY <2>1, <2>2, <2>3
<1>6. QED
  BY <1>1, <1>5 DEF s

\* Once a request is handled, it is in the channel no more.
LEMMA OnceTail ==
  ASSUME NEW S, NEW q \in Seq(S), q # <<>>, Once(q)
  PROVE  /\ Once(Tail(q))
         /\ IsRpc(Head(q)) => \A m \in In(Tail(q)) : IsRpc(m) => m.call # Head(q).call
<1>1. /\ Head(q) = q[1] /\ 1 \in 1..Len(q) /\ Len(Tail(q)) \in Nat
      /\ \A i \in 1..Len(Tail(q)) : Tail(q)[i] = q[i + 1] /\ i + 1 \in 1..Len(q) /\ 1 < i + 1
  BY TailShape
<1>2. \A i, j \in 1..Len(Tail(q)) : i < j => i + 1 < j + 1
  BY <1>1
<1>3. QED
  BY <1>1, <1>2 DEF Once, In

\* A message that is no request, or a new one, leaves requests unique.
LEMMA OnceAppend ==
  ASSUME NEW S, NEW q \in Seq(S), NEW m \in S, Once(q),
         IsRpc(m) => \A n \in In(q) : IsRpc(n) => n.call # m.call
  PROVE  Once(Append(q, m))
<1> DEFINE r == Append(q, m)
<1>1. /\ Len(q) \in Nat /\ Len(r) = Len(q) + 1
      /\ \A i \in 1..Len(q) : r[i] = q[i]
      /\ r[Len(q) + 1] = m
  BY AppendShape
<1> HIDE DEF r
<1>2. \A i, j \in 1..Len(r) : i < j => i \in 1..Len(q) /\ (j \in 1..Len(q) \/ j = Len(q) + 1)
  BY <1>1
<1>3. Once(r)
  BY <1>1, <1>2 DEF Once, In
<1>4. QED
  BY <1>3 DEF r

\* The last request stays the last, until a flow posts another.
LEMMA LastTail ==
  ASSUME NEW S, NEW q \in Seq(S), q # <<>>, NEW k, NEW c, Last(q, k, c)
  PROVE  /\ Last(Tail(q), k, c)
         /\ IsRpc(Head(q)) /\ Head(q).call = c =>
              \A m \in In(Tail(q)) : IsRpc(m) => k[m.call] \notin Flows
<1>1. /\ Head(q) = q[1] /\ 1 \in 1..Len(q) /\ Len(Tail(q)) \in Nat
      /\ \A i \in 1..Len(Tail(q)) : Tail(q)[i] = q[i + 1] /\ i + 1 \in 1..Len(q) /\ 1 < i + 1
  BY TailShape
<1>2. \A i, j \in 1..Len(Tail(q)) : i < j => i + 1 < j + 1
  BY <1>1
<1>3. QED
  BY <1>1, <1>2 DEF Last, In

\* A message that is no request of a flow leaves the last one last.
LEMMA LastAppend ==
  ASSUME NEW S, NEW q \in Seq(S), NEW m \in S, NEW k, NEW c, Last(q, k, c),
         \/ ~(IsRpc(m) /\ k[m.call] \in Flows)
         \/ \A n \in In(q) : IsRpc(n) => n.call # c
  PROVE  Last(Append(q, m), k, c)
<1> DEFINE r == Append(q, m)
<1>1. /\ Len(q) \in Nat /\ Len(r) = Len(q) + 1
      /\ \A i \in 1..Len(q) : r[i] = q[i]
      /\ r[Len(q) + 1] = m
  BY AppendShape
<1> HIDE DEF r
<1>2. \A i, j \in 1..Len(r) : i < j => i \in 1..Len(q) /\ (j \in 1..Len(q) \/ j = Len(q) + 1)
  BY <1>1
<1>3. Last(r, k, c)
  BY <1>1, <1>2 DEF Last, In
<1>4. QED
  BY <1>3 DEF r

\* The fields of the messages, by their types.
LEMMA MessageFields ==
  ASSUME TRUE
  PROVE  /\ \A m \in ToWebMessages :
              /\ m.type \in {"rpc", "abort", "proveResult"} /\ m.call \in Calls
              /\ m.type = "proveResult" => m.id \in ProveIds /\ m.verified \in BOOLEAN
         /\ \A m \in ToHostMessages :
              /\ m.type \in {"ready", "crash", "proveRequest", "rpcResult"}
              /\ m.type \in {"proveRequest", "rpcResult"} => m.call \in Calls
              /\ m.type = "proveRequest" => m.id \in ProveIds
              /\ m.type = "rpcResult" => m.how \in {"ok", "error", "aborted"}
         /\ \A c \in Calls :
              /\ [type |-> "rpc", call |-> c] \in ToWebMessages
              /\ [type |-> "abort", call |-> c] \in ToWebMessages
              /\ \A i \in ProveIds, v \in BOOLEAN :
                   [type |-> "proveResult", id |-> i, call |-> c, verified |-> v] \in ToWebMessages
              /\ \A i \in ProveIds : [type |-> "proveRequest", id |-> i, call |-> c] \in ToHostMessages
              /\ \A how \in {"ok", "error", "aborted"} :
                   [type |-> "rpcResult", call |-> c, how |-> how] \in ToHostMessages
         /\ \A type \in {"ready", "crash"} : [type |-> type] \in ToHostMessages
  BY DEF ToWebMessages, ToHostMessages

\* What posting to the document does to its channel.
LEMMA Posted ==
  ASSUME TypeOK, NEW m \in ToWebMessages, Post(m)
  PROVE  /\ toWeb' \in Seq(ToWebMessages) /\ In(toWeb') \subseteq In(toWeb) \cup {m}
         /\ Once(toWeb) /\ (IsRpc(m) => \A n \in In(toWeb) : IsRpc(n) => n.call # m.call) => Once(toWeb')
         /\ \A k, c :
              /\ Last(toWeb, k, c)
              /\ \/ ~(IsRpc(m) /\ k[m.call] \in Flows)
                 \/ \A n \in In(toWeb) : IsRpc(n) => n.call # c
              => Last(toWeb', k, c)
<1> toWeb \in Seq(ToWebMessages)
  BY DEF TypeOK
<1>1. CASE toWeb' = Append(toWeb, m)
  BY <1>1, AppendShape, OnceAppend, LastAppend
<1>2. CASE toWeb' = toWeb
  BY <1>2
<1>3. QED
  BY <1>1, <1>2 DEF Post

\* What the document takes from its channel ...
LEMMA Taken ==
  ASSUME IInv, NEW type, Incoming(type)
  PROVE  /\ toWeb' \in Seq(ToWebMessages) /\ In(toWeb') \subseteq In(toWeb) /\ In(toWeb) \subseteq ToWebMessages
         /\ Head(toWeb) \in ToWebMessages /\ Head(toWeb) \in In(toWeb) /\ Head(toWeb).type = type
         /\ Once(toWeb')
         /\ type = "rpc" => \A m \in In(toWeb') : IsRpc(m) => m.call # Head(toWeb).call
         /\ \A k, c : Last(toWeb, k, c) =>
              /\ Last(toWeb', k, c)
              /\ type = "rpc" /\ Head(toWeb).call = c =>
                   \A m \in In(toWeb') : IsRpc(m) => k[m.call] \notin Flows
<1>1. toWeb \in Seq(ToWebMessages) /\ toWeb # <<>> /\ toWeb' = Tail(toWeb) /\ Head(toWeb).type = type /\ Once(toWeb)
  BY DEF IInv, TypeOK, Incoming, Channels
<1>2. QED
  BY <1>1, TailShape, InTail, OnceTail, LastTail DEF IsRpc

\* ... and RN from its own.
LEMMA Received ==
  ASSUME IInv, NEW type, Receive(type)
  PROVE  /\ toHost' \in Seq(ToHostMessages) /\ In(toHost') \subseteq In(toHost)
         /\ Head(toHost) \in ToHostMessages /\ Head(toHost) \in In(toHost) /\ Head(toHost).type = type
<1>1. toHost \in Seq(ToHostMessages) /\ toHost # <<>> /\ toHost' = Tail(toHost) /\ Head(toHost).type = type
  BY DEF IInv, TypeOK, Receive
<1>2. QED
  BY <1>1, TailShape, InTail

\* How a handler ends.
LEMMA Finished ==
  ASSUME TypeOK, NEW c \in Calls, NEW how \in {"ok", "error", "aborted"}, Finish(c, how)
  PROVE  \E h \in {"ok", "error", "aborted"} :
           /\ h = "ok" <=> how = "ok"
           /\ h = "aborted" => Cancellable(c) /\ (how = "aborted" \/ c \in aborted)
           /\ [type |-> "rpcResult", call |-> c, how |-> h] \in ToHostMessages
           /\ toHost' \in Seq(ToHostMessages)
           /\ In(toHost') = In(toHost) \cup {[type |-> "rpcResult", call |-> c, how |-> h]}
           /\ handler' = [handler EXCEPT ![c] = "finished"]
           /\ signal' = IF signal = c THEN NoCall ELSE signal
<1> DEFINE h == IF how # "ok" /\ Cancellable(c) /\ (how = "aborted" \/ c \in aborted)
                THEN "aborted" ELSE IF how = "ok" THEN "ok" ELSE "error"
           m == [type |-> "rpcResult", call |-> c, how |-> h]
<1>1. /\ toHost' = Append(toHost, m) /\ handler' = [handler EXCEPT ![c] = "finished"]
      /\ signal' = IF signal = c THEN NoCall ELSE signal
  BY DEF Finish
<1>2. h \in {"ok", "error", "aborted"} /\ (h = "ok" <=> how = "ok")
      /\ (h = "aborted" => Cancellable(c) /\ (how = "aborted" \/ c \in aborted))
  OBVIOUS
<1> HIDE DEF h
<1>3. m \in ToHostMessages
  BY <1>2, MessageFields
<1>4. toHost' \in Seq(ToHostMessages) /\ In(toHost') = In(toHost) \cup {m}
  BY <1>1, <1>3, AppendShape DEF TypeOK
<1>5. QED
  BY <1>1, <1>2, <1>3, <1>4

\* The order in which an abort unwinds is a sequence of proves.
LEMMA OrderShape ==
  ASSUME NEW S, NEW order \in OldestFirst(S)
  PROVE  \E k \in 0..MaxProves : order \in [1..k -> S]
  BY DEF OldestFirst

\* The handlers that an abort unwinds.
LEMMA Unwound ==
  ASSUME IInv, OnAbort
  PROVE  LET c == Head(toWeb).call
             hits == {i \in ProveIds : provePending[i].listens = c}
             unwound == {provePending[i].call : i \in hits}
         IN  /\ c \in Calls /\ c \in cancelled /\ toHost' \in Seq(ToHostMessages)
             /\ \/ UNCHANGED <<handler, toHost, signal, aborted, provePending>>
                \/ /\ aborted' = aborted \cup {c}
                   /\ provePending' = [i \in ProveIds |-> IF i \in hits THEN NoProve ELSE provePending[i]]
                   /\ handler' = [d \in Calls |-> IF d \in unwound THEN "finished" ELSE handler[d]]
                   /\ signal' = IF signal \in unwound THEN NoCall ELSE signal
                   /\ unwound \subseteq Calls /\ \A d \in unwound : handler[d] = "prove"
                   /\ \A m \in In(toHost') : m \in In(toHost)
                        \/ \E d \in unwound : m = [type |-> "rpcResult", call |-> d, how |-> "aborted"]
<1> DEFINE c == Head(toWeb).call
           hits == {i \in ProveIds : provePending[i].listens = c}
           unwound == {provePending[i].call : i \in hits}
<1> USE DEF IInv, TypeOK
<1>1. c \in Calls /\ c \in cancelled
  <2>1. Incoming("abort")
    BY DEF OnAbort
  <2>2. Head(toWeb) \in ToWebMessages /\ Head(toWeb) \in In(toWeb) /\ Head(toWeb).type = "abort"
    BY <2>1, Taken
  <2>3. QED
    BY <2>2, MessageFields DEF Cancels, IsAbort
<1>2. CASE UNCHANGED <<handler, toHost, signal, aborted, provePending>>
  BY <1>1, <1>2
<1>3. ASSUME c \in Live
      PROVE  /\ aborted' = aborted \cup {c}
             /\ provePending' = [i \in ProveIds |-> IF i \in hits THEN NoProve ELSE provePending[i]]
             /\ handler' = [d \in Calls |-> IF d \in unwound THEN "finished" ELSE handler[d]]
             /\ signal' = IF signal \in unwound THEN NoCall ELSE signal
             /\ \E order \in OldestFirst(hits) :
                  toHost' = toHost \o [n \in DOMAIN order |->
                    [type |-> "rpcResult", call |-> provePending[order[n]].call, how |-> "aborted"]]
  BY <1>3 DEF OnAbort
<1>4. \A i \in hits : provePending[i].call \in Calls /\ handler[provePending[i].call] = "prove"
  BY <1>1 DEF Bridge, CallsOrNone
<1>5. CASE c \in Live
  <2>1. PICK order \in OldestFirst(hits) :
          toHost' = toHost \o [n \in DOMAIN order |->
            [type |-> "rpcResult", call |-> provePending[order[n]].call, how |-> "aborted"]]
    BY <1>3, <1>5
  <2>2. PICK k \in 0..MaxProves : order \in [1..k -> hits]
    BY <2>1, OrderShape
  <2> DEFINE r == [n \in 1..k |-> [type |-> "rpcResult", call |-> provePending[order[n]].call, how |-> "aborted"]]
  <2>3. toHost' = toHost \o r
    BY <2>1, <2>2
  <2>4. \A n \in 1..k : order[n] \in hits
    BY <2>2
  <2> HIDE DEF hits
  <2>5. \A n \in 1..k : r[n] \in ToHostMessages
    BY <1>4, <2>4, MessageFields
  <2>6. k \in Nat
    BY <2>2
  <2>7. r \in Seq(ToHostMessages) /\ Len(r) = k
    BY <2>5, <2>6
  <2>9. \A m \in In(r) : \E d \in unwound : m = [type |-> "rpcResult", call |-> d, how |-> "aborted"]
    BY <2>4, <2>7 DEF In
  <2> HIDE DEF r
  <2>8. toHost' \in Seq(ToHostMessages) /\ In(toHost') = In(toHost) \cup In(r)
    <3>1. toHost \in Seq(ToHostMessages)
      OBVIOUS
    <3>2. QED
      BY <2>3, <2>7, <3>1, InConcat
  <2>10. \A m \in In(toHost') : m \in In(toHost)
           \/ \E d \in unwound : m = [type |-> "rpcResult", call |-> d, how |-> "aborted"]
    BY <2>8, <2>9
  <2>11. unwound \subseteq Calls /\ \A d \in unwound : handler[d] = "prove"
    BY <1>4
  <2> HIDE DEF unwound, c
  <2>12. /\ aborted' = aborted \cup {c}
         /\ provePending' = [i \in ProveIds |-> IF i \in hits THEN NoProve ELSE provePending[i]]
         /\ handler' = [d \in Calls |-> IF d \in unwound THEN "finished" ELSE handler[d]]
         /\ signal' = IF signal \in unwound THEN NoCall ELSE signal
    BY <1>3, <1>5
  <2>13. QED
    BY <1>1, <2>8, <2>10, <2>11, <2>12 DEF unwound, hits, c
<1>6. QED
  <2>1. c \notin Live => UNCHANGED <<handler, toHost, signal, aborted, provePending>>
    BY DEF OnAbort
  <2>2. QED
    BY <1>2, <1>5, <2>1

\* The types of what a handler leaves when it ends.
LEMMA FinishedTypes ==
  ASSUME TypeOK, NEW c \in Calls, NEW how \in {"ok", "error", "aborted"}, Finish(c, how)
  PROVE  /\ toHost' \in Seq(ToHostMessages) /\ signal' \in Calls \cup {NoCall}
         /\ handler' \in [Calls -> {"none", "check", "simulate", "prove", "send", "sent", "finished", "gone"}]
<1>1. /\ toHost' \in Seq(ToHostMessages)
      /\ handler' = [handler EXCEPT ![c] = "finished"]
      /\ signal' = IF signal = c THEN NoCall ELSE signal
  BY Finished
<1>2. QED
  BY <1>1 DEF TypeOK, CallsOrNone

\* The empty slot of the bridge has the type of a slot.
LEMMA NoProveType ==
  ASSUME TRUE
  PROVE  NoProve \in [call : Calls \cup {NoCall}, listens : Calls \cup {NoCall}]
  BY DEF NoProve

-------------------------------------------------------------------------------
(* The invariant. *)

\* The session starts idle, with empty channels.
LEMMA InitIInv == Init => IInv
<1> SUFFICES ASSUME Init PROVE IInv
  OBVIOUS
<1>1. TypeOK
  <2>1. provePending \in [ProveIds -> [call : Calls \cup {NoCall}, listens : Calls \cup {NoCall}]]
    BY NoProveType DEF Init
  <2>2. toWeb \in Seq(ToWebMessages) /\ toHost \in Seq(ToHostMessages)
    BY DEF Init
  <2>3. loads \in 1..MaxLoads /\ proveSeq \in 0..MaxProves /\ sends \in [Calls -> 0..2]
    BY DEF Init
  <2>4. QED
    BY <2>1, <2>2, <2>3 DEF Init, TypeOK, CallsOrNone
<1>2. In(toWeb) = {} /\ In(toHost) = {} /\ Once(toWeb) /\ \A k, c : Last(toWeb, k, c)
  BY DEF Init, In, Once, Last
<1>3. Promises /\ Handlers /\ Bridge /\ Channels /\ Submitted /\ Cancels
  BY <1>2 DEF Init, Promises, Handlers, Bridge, Channels, Submitted, Cancels, NoProve, Cancellable, Flows
<1>4. \A c \in Calls : ~InFlow(c)
  BY DEF Init, InFlow
<1>5. Exclusive
  BY <1>2, <1>4 DEF Init, Exclusive, Lock, OneFlow, CancelReachesFlow, LastRequest, OwnAborts, OnlyCancelledAborts
<1>6. QED
  BY <1>1, <1>3, <1>5 DEF IInv

\* Types: the steps of RN ...
LEMMA HostTypes ==
  ASSUME IInv, HostStep
  PROVE  TypeOK'
<1> USE DEF IInv, TypeOK, CallsOrNone, host, page, bridge, web, history
<1>1. ASSUME NEW c \in Calls, NEW k \in Kinds, Call(c, k)
      PROVE  /\ toWeb' \in Seq(ToWebMessages) /\ pending' \subseteq Calls
             /\ kind' \in [Calls -> Kinds \cup {"none"}]
             /\ caller' \in [Calls -> {"idle", "waiting", "tracking", "done"}]
  <2>1. toWeb' \in Seq(ToWebMessages)
    BY <1>1, MessageFields, Posted DEF Call
  <2>2. QED
    BY <1>1, <2>1 DEF Call
<1>2. ASSUME NEW S \in SUBSET Calls, NEW r \in {"error", "aborted", "timeout", "lost"}, Reject(S, r)
      PROVE  /\ outcome' \in [Calls -> {"none", "ok", "error", "aborted", "timeout", "lost"}]
             /\ caller' \in [Calls -> {"idle", "waiting", "tracking", "done"}]
             /\ pending' \subseteq Calls
  BY <1>2 DEF Reject
<1>3. \A S : FinallyOf(S) => busy' \in CallsOrNone /\ activeCall' \in CallsOrNone
  BY DEF FinallyOf, Finally
<1>4. ASSUME NEW c \in Calls, NEW k \in Flows, StartFlow(c, k) PROVE TypeOK'
  <2>1. k \in Kinds
    BY DEF Kinds
  <2>2. QED
    BY <1>1, <1>4, <2>1 DEF StartFlow
<1>5. ASSUME NEW c \in Calls, NEW k \in {"sync", "read"}, StartBackground(c, k) PROVE TypeOK'
  <2>1. k \in Kinds
    BY DEF Kinds
  <2>2. QED
    BY <1>1, <1>5, <2>1 DEF StartBackground
<1>6. CASE Cancel
  <2>1. activeCall \in Calls
    BY <1>6 DEF Cancel
  <2>2. toWeb' \in Seq(ToWebMessages)
    BY <1>6, <2>1, MessageFields, Posted DEF Cancel
  <2>3. QED
    BY <1>6, <2>1, <2>2 DEF Cancel
<1>7. ASSUME NEW c \in Calls, Timeout(c) PROVE TypeOK'
  BY <1>2, <1>3, <1>7 DEF Timeout
<1>8. ASSUME NEW c \in Calls, Track(c) PROVE TypeOK'
  <2>1. \A n \in 1..Sends(c) : <<c, n>> \in Txs
    BY DEF Sends, Txs
  <2>2. QED
    BY <1>8, <2>1 DEF Track, Finally
<1>9. CASE OnRpcResult
  <2>1. /\ toHost' \in Seq(ToHostMessages)
        /\ Head(toHost).call \in Calls /\ Head(toHost).how \in {"ok", "error", "aborted"}
    BY <1>9, Received, MessageFields DEF OnRpcResult
  <2>2. /\ outcome' \in [Calls -> {"none", "ok", "error", "aborted", "timeout", "lost"}]
        /\ caller' \in [Calls -> {"idle", "waiting", "tracking", "done"}]
        /\ pending' \subseteq Calls /\ busy' \in CallsOrNone /\ activeCall' \in CallsOrNone
    <3> DEFINE c == Head(toHost).call
               how == Head(toHost).how
    <3>1. CASE c \notin pending
      BY <1>9, <3>1 DEF OnRpcResult
    <3>2. CASE c \in pending /\ how # "ok"
      <4>1. Reject({c}, how) /\ FinallyOf({c})
        BY <1>9, <3>2 DEF OnRpcResult
      <4>2. {c} \in SUBSET Calls /\ how \in {"error", "aborted", "timeout", "lost"}
        BY <2>1, <3>2
      <4>3. QED
        BY <1>2, <1>3, <4>1, <4>2
    <3>3. CASE c \in pending /\ how = "ok"
      BY <1>9, <2>1, <3>3 DEF OnRpcResult
    <3>4. QED
      BY <3>1, <3>2, <3>3
  <2>3. QED
    BY <1>9, <2>1, <2>2 DEF OnRpcResult
<1>10. CASE OnProveRequest
  <2>1. /\ toHost' \in Seq(ToHostMessages)
        /\ Head(toHost).call \in Calls /\ Head(toHost).id \in ProveIds
    BY <1>10, Received, MessageFields DEF OnProveRequest
  <2>2. QED
    BY <1>10, <2>1 DEF OnProveRequest
<1>11. CASE OnReady
  <2>1. toHost' \in Seq(ToHostMessages)
    BY <1>11, Received DEF OnReady
  <2>2. QED
    BY <1>2, <1>11, <2>1 DEF OnReady, Reset
<1>12. CASE OnCrash
  <2>1. toHost' \in Seq(ToHostMessages)
    BY <1>12, Received DEF OnCrash
  <2>2. QED
    BY <1>2, <1>12, <2>1 DEF OnCrash, Reset
<1>13. CASE Restart
  <2>1. toHost' \in Seq(ToHostMessages)
    BY <1>13, MessageFields, AppendShape DEF Restart
  <2>2. loads' \in 1..MaxLoads
    BY <1>13 DEF Restart
  <2>3. provePending' \in [ProveIds -> [call : CallsOrNone, listens : CallsOrNone]]
    BY <1>13, NoProveType DEF Restart
  <2>4. handler' \in [Calls -> {"none", "check", "simulate", "prove", "send", "sent", "finished", "gone"}]
    BY <1>13 DEF Restart
  <2>5. /\ toWeb' = <<>> /\ signal' = NoCall /\ aborted' = {} /\ proveSeq' = 0
        /\ phase' = "webview" /\ crashed' = FALSE /\ alive' = TRUE /\ booted' = FALSE
        /\ UNCHANGED <<busy, activeCall, pending, kind, caller, outcome, tracked, sends, proving, chain>>
        /\ UNCHANGED <<cancelled, lostReply, proofOf>>
    BY <1>13 DEF Restart
  <2>6. toWeb' \in Seq(ToWebMessages) /\ proveSeq' \in 0..MaxProves
    BY <2>5
  <2>7. QED
    BY <2>1, <2>2, <2>3, <2>4, <2>5, <2>6
<1>14. CASE Booted
  BY <1>14 DEF Booted
<1>15. QED
  BY <1>4, <1>5, <1>6, <1>7, <1>8, <1>9, <1>10, <1>11, <1>12, <1>13, <1>14 DEF HostStep

\* ... of the document ...
LEMMA WebTypes ==
  ASSUME IInv, WebStep
  PROVE  TypeOK'
<1> USE DEF IInv, TypeOK, CallsOrNone, host, page, bridge, web, history
<1>1. ASSUME NEW c \in Calls, NEW how \in {"ok", "error", "aborted"}, Finish(c, how)
      PROVE  /\ toHost' \in Seq(ToHostMessages) /\ signal' \in CallsOrNone
             /\ handler' \in [Calls -> {"none", "check", "simulate", "prove", "send", "sent", "finished", "gone"}]
  BY <1>1, FinishedTypes
<1>2. CASE Dispatch
  <2>1. toWeb' \in Seq(ToWebMessages) /\ Head(toWeb).call \in Calls
    BY <1>2, Taken, MessageFields DEF Dispatch
  <2>2. /\ toHost' \in Seq(ToHostMessages) /\ signal' \in CallsOrNone
        /\ handler' \in [Calls -> {"none", "check", "simulate", "prove", "send", "sent", "finished", "gone"}]
    BY <1>1, <1>2, <2>1 DEF Dispatch
  <2>3. QED
    BY <1>2, <2>1, <2>2 DEF Dispatch
<1>3. CASE OnAbort
  <2>1. toWeb' \in Seq(ToWebMessages)
    BY <1>3, Taken DEF OnAbort
  <2> DEFINE c == Head(toWeb).call
             hits == {i \in ProveIds : provePending[i].listens = c}
             unwound == {provePending[i].call : i \in hits}
  <2>2. /\ c \in Calls /\ toHost' \in Seq(ToHostMessages)
        /\ \/ UNCHANGED <<handler, signal, aborted, provePending>>
           \/ /\ aborted' = aborted \cup {c}
              /\ provePending' = [i \in ProveIds |-> IF i \in hits THEN NoProve ELSE provePending[i]]
              /\ handler' = [d \in Calls |-> IF d \in unwound THEN "finished" ELSE handler[d]]
              /\ signal' = IF signal \in unwound THEN NoCall ELSE signal
    BY <1>3, Unwound
  <2> HIDE DEF c, hits, unwound
  <2>3. provePending' \in [ProveIds -> [call : CallsOrNone, listens : CallsOrNone]]
    <3>1. CASE UNCHANGED provePending
      BY <3>1
    <3>2. CASE provePending' = [i \in ProveIds |-> IF i \in hits THEN NoProve ELSE provePending[i]]
      BY <3>2, NoProveType
    <3>3. QED
      BY <2>2, <3>1, <3>2
  <2>4. /\ handler' \in [Calls -> {"none", "check", "simulate", "prove", "send", "sent", "finished", "gone"}]
        /\ signal' \in CallsOrNone /\ aborted' \subseteq Calls
    BY <2>2
  <2>5. QED
    BY <1>3, <2>1, <2>2, <2>3, <2>4 DEF OnAbort
<1>4. CASE OnProveResult
  <2>1. /\ toWeb' \in Seq(ToWebMessages) /\ Head(toWeb).call \in Calls
        /\ Head(toWeb).id \in ProveIds
    BY <1>4, Taken, MessageFields DEF OnProveResult
  <2>2. CASE provePending[Head(toWeb).id].call = NoCall
    BY <1>4, <2>1, <2>2 DEF OnProveResult
  <2>3. CASE provePending[Head(toWeb).id].call # NoCall
    <3>1. /\ provePending' = [provePending EXCEPT ![Head(toWeb).id] = NoProve]
          /\ proofOf' = [proofOf EXCEPT ![provePending[Head(toWeb).id].call] = Head(toWeb).call]
          /\ \/ handler' = [handler EXCEPT ![provePending[Head(toWeb).id].call] = "send"] /\ UNCHANGED <<toHost, signal>>
             \/ Finish(provePending[Head(toWeb).id].call, "error")
          /\ UNCHANGED <<host, page, sends, aborted, proveSeq, proving, chain, cancelled, lostReply>>
      BY <1>4, <2>3 DEF OnProveResult
    <3>2. provePending[Head(toWeb).id].call \in Calls
      BY <2>1, <2>3
    <3>3. /\ toHost' \in Seq(ToHostMessages) /\ signal' \in CallsOrNone
          /\ handler' \in [Calls -> {"none", "check", "simulate", "prove", "send", "sent", "finished", "gone"}]
      BY <1>1, <3>1, <3>2
    <3>4. QED
      BY <2>1, <3>1, <3>2, <3>3 DEF NoProve
  <2>4. QED
    BY <2>2, <2>3
<1>5. ASSUME NEW i \in ProveIds, ProveTimeout(i) PROVE TypeOK'
  <2>1. provePending[i].call \in Calls
    BY <1>5 DEF ProveTimeout
  <2>2. QED
    BY <1>1, <1>5, <2>1 DEF ProveTimeout, NoProve
<1>6. ASSUME NEW c \in Calls, Check(c) PROVE TypeOK'
  BY <1>1, <1>6 DEF Check
<1>7. ASSUME NEW c \in Calls, BackgroundReturns(c) \/ HandlerFails(c) \/ SendReturns(c) PROVE TypeOK'
  BY <1>1, <1>7 DEF BackgroundReturns, HandlerFails, SendReturns
<1>8. ASSUME NEW c \in Calls, ProveOverBridge(c) PROVE TypeOK'
  <2>1. CASE SignalAborted
    BY <1>1, <1>8, <2>1 DEF ProveOverBridge
  <2>2. CASE ~SignalAborted
    <3>1. proveSeq' \in ProveIds /\ proveSeq' \in 0..MaxProves
      BY <1>8, <2>2 DEF ProveOverBridge, ProveIds
    <3>2. toHost' \in Seq(ToHostMessages)
      <4> DEFINE m == [type |-> "proveRequest", id |-> proveSeq', call |-> c]
      <4>1. m \in ToHostMessages
        BY <3>1, MessageFields
      <4>2. toHost' = Append(toHost, m)
        BY <1>8, <2>2 DEF ProveOverBridge
      <4> HIDE DEF m
      <4>3. QED
        BY <4>1, <4>2
    <3>3. provePending' \in [ProveIds -> [call : CallsOrNone, listens : CallsOrNone]]
      <4>1. provePending' = [provePending EXCEPT ![proveSeq'] = [call |-> c, listens |-> signal]]
        BY <1>8, <2>2 DEF ProveOverBridge
      <4>2. QED
        BY <4>1
    <3>4. QED
      BY <1>8, <2>2, <3>1, <3>2, <3>3 DEF ProveOverBridge
  <2>3. QED
    BY <2>1, <2>2
<1>9. QED
  BY <1>2, <1>3, <1>4, <1>5, <1>6, <1>7, <1>8 DEF WebStep

\* ... and of what is outside.
LEMMA ExternalTypes ==
  ASSUME IInv, ExternalStep
  PROVE  TypeOK'
<1> USE DEF IInv, TypeOK, CallsOrNone, host, page, bridge, web, history
<1>1. ASSUME NEW c \in Calls, NEW how \in {"ok", "error", "aborted"}, Finish(c, how)
      PROVE  /\ toHost' \in Seq(ToHostMessages) /\ signal' \in CallsOrNone
             /\ handler' \in [Calls -> {"none", "check", "simulate", "prove", "send", "sent", "finished", "gone"}]
  BY <1>1, FinishedTypes
<1>2. ASSUME NEW p \in proving, NEW v \in BOOLEAN, NativeAnswers(p, v) PROVE TypeOK'
  <2>1. p.id \in ProveIds /\ p.call \in Calls
    OBVIOUS
  <2>2. toWeb' \in Seq(ToWebMessages)
    BY <1>2, <2>1, MessageFields, Posted DEF NativeAnswers
  <2>3. QED
    BY <1>2, <2>2 DEF NativeAnswers
<1>3. ASSUME NEW c \in Calls, NodeAccepts(c) PROVE TypeOK'
  <2>1. sends[c] \in 0..1
    BY <1>3 DEF NodeAccepts, Handlers, Sends
  <2>2. sends' \in [Calls -> 0..2] /\ sends'[c] \in 1..2
    BY <1>3, <2>1 DEF NodeAccepts
  <2>3. QED
    BY <1>3, <2>2 DEF NodeAccepts, Txs
<1>4. ASSUME NEW c \in Calls, NodeRejects(c) \/ ReplyLost(c) PROVE TypeOK'
  BY <1>1, <1>4 DEF NodeRejects, ReplyLost
<1>7. ASSUME Forget
      PROVE  /\ toWeb' \in Seq(ToWebMessages) /\ booted' \in BOOLEAN
             /\ handler' \in [Calls -> {"none", "check", "simulate", "prove", "send", "sent", "finished", "gone"}]
             /\ signal' \in CallsOrNone /\ aborted' \subseteq Calls
             /\ provePending' \in [ProveIds -> [call : CallsOrNone, listens : CallsOrNone]]
             /\ proveSeq' \in 0..MaxProves
             /\ UNCHANGED <<host, sends, proving, chain, history>>
  <2>1. provePending' \in [ProveIds -> [call : CallsOrNone, listens : CallsOrNone]]
    BY <1>7, NoProveType DEF Forget
  <2>2. handler' \in [Calls -> {"none", "check", "simulate", "prove", "send", "sent", "finished", "gone"}]
    BY <1>7 DEF Forget
  <2>3. toWeb' = <<>> /\ booted' = FALSE /\ signal' = NoCall /\ aborted' = {} /\ proveSeq' = 0
        /\ UNCHANGED <<host, sends, proving, chain, history>>
    BY <1>7 DEF Forget
  <2>4. toWeb' \in Seq(ToWebMessages) /\ proveSeq' \in 0..MaxProves
    BY <2>3
  <2>5. signal' \in CallsOrNone /\ aborted' \subseteq Calls /\ booted' \in BOOLEAN
    BY <2>3
  <2>6. QED
    BY <2>1, <2>2, <2>3, <2>4, <2>5
<1>5. CASE RendererGone
  <2>1. toHost' \in Seq(ToHostMessages)
    BY <1>5, MessageFields, AppendShape DEF RendererGone
  <2>2. QED
    BY <1>5, <1>7, <2>1 DEF RendererGone
<1>6. CASE SilentReload
  <2>1. toHost' \in Seq(ToHostMessages)
    BY <1>6, MessageFields, AppendShape DEF SilentReload
  <2>2. loads' \in 1..MaxLoads
    BY <1>6 DEF SilentReload
  <2>3. QED
    BY <1>6, <1>7, <2>1, <2>2 DEF SilentReload
<1>8. QED
  BY <1>2, <1>3, <1>4, <1>5, <1>6 DEF ExternalStep

\* Every step keeps the types.
LEMMA TypeStep ==
  ASSUME IInv, [Next]_vars
  PROVE  TypeOK'
<1>1. CASE UNCHANGED vars
  BY <1>1 DEF IInv, TypeOK, CallsOrNone, vars, host, page, bridge, web, history
<1>2. QED
  BY <1>1, HostTypes, WebTypes, ExternalTypes DEF Next

\* The steps of RN that only change what RN knows ...
Inside ==
  \/ \E c \in Calls, k \in Flows : StartFlow(c, k)
  \/ \E c \in Calls, k \in {"sync", "read"} : StartBackground(c, k)
  \/ Cancel
  \/ \E c \in Calls : Timeout(c) \/ Track(c)
  \/ OnRpcResult \/ OnProveRequest \/ OnReady \/ OnCrash \/ Booted

\* They leave the page and the node alone.
LEMMA InsideFrame ==
  ASSUME Inside
  PROVE  UNCHANGED <<handler, sends, signal, aborted, bridge, chain, lostReply>>
  BY DEF Inside, StartFlow, StartBackground, Cancel, Timeout, Track, OnRpcResult, OnProveRequest,
         OnReady, OnCrash, Booted, web, history

\* ... and those that change nothing of it.
Outside == WebStep \/ ExternalStep \/ Restart

\* They leave the promises and the lock alone.
LEMMA OutsideFrame ==
  ASSUME Outside
  PROVE  /\ UNCHANGED <<busy, activeCall, pending, kind, caller, outcome, tracked, cancelled>>
         /\ phase' = phase \/ (phase = "crashed" /\ phase' = "webview")
<1>1. CASE WebStep
  BY <1>1 DEF WebStep, Dispatch, OnAbort, OnProveResult, ProveTimeout, Check, BackgroundReturns,
              HandlerFails, ProveOverBridge, SendReturns, host, history
<1>2. CASE ExternalStep
  BY <1>2 DEF ExternalStep, NativeAnswers, NodeAccepts, NodeRejects, ReplyLost, RendererGone,
              SilentReload, Forget, host, history
<1>3. CASE Restart
  BY <1>3 DEF Restart, history
<1>4. QED
  BY <1>1, <1>2, <1>3 DEF Outside

\* There is no other kind of step.
LEMMA StepKinds ==
  ASSUME [Next]_vars
  PROVE  Inside \/ Outside \/ UNCHANGED vars
  BY DEF Next, HostStep, Inside, Outside

\* The request of c is handled.
Begins(c) == Dispatch /\ c = Head(toWeb).call

\* How a handler goes on: `to` after `from`, for the call c.
Advances(c, from, to) ==
  \/ from = "none" /\ to \in {"check", "finished"} /\ Begins(c)
  \/ from = "check" /\ to = "simulate" /\ Cancellable(c)
  \/ from = "simulate" /\ to = "prove"
  \/ from = "prove" /\ to = "send"
  \/ from = "send" /\ to = "sent" /\ NodeAccepts(c)
  \/ from = "sent" /\ to = "simulate" /\ sends[c] < Sends(c)
  \/ c \in Live /\ to \in {"finished", "gone"}

\* A step of the document moves handlers on, and answers only those that end with
\* it; an answer other than "ok" comes before the node has accepted, or is lost.
LEMMA HandlerFrame ==
  ASSUME IInv, Outside
  PROVE  /\ \A c \in Calls : handler'[c] = handler[c] \/ Advances(c, handler[c], handler'[c])
         /\ \A m \in In(toHost') : IsResult(m) =>
              \/ m \in In(toHost)
              \/ /\ m.call \in Calls /\ handler[m.call] \notin {"finished", "gone"}
                 /\ handler'[m.call] = "finished" /\ kind[m.call] # "none"
                 /\ m.how # "ok" => handler[m.call] # "sent" \/ m.call \in lostReply'
                 /\ m.how = "aborted" /\ m.call \in pending /\ ~SlowStorage => m.call \in cancelled
<1> USE DEF IInv, Outside
<1>t. /\ handler \in [Calls -> {"none", "check", "simulate", "prove", "send", "sent", "finished", "gone"}]
      /\ toHost \in Seq(ToHostMessages)
  BY DEF TypeOK
<1> DEFINE Moved == \A c \in Calls : handler'[c] = handler[c] \/ Advances(c, handler[c], handler'[c])
           Answered(m) ==
              \/ m \in In(toHost)
              \/ /\ m.call \in Calls /\ handler[m.call] \notin {"finished", "gone"}
                 /\ handler'[m.call] = "finished" /\ kind[m.call] # "none"
                 /\ m.how # "ok" => handler[m.call] # "sent" \/ m.call \in lostReply'
                 /\ m.how = "aborted" /\ m.call \in pending /\ ~SlowStorage => m.call \in cancelled
           Goal == Moved /\ \A m \in In(toHost') : IsResult(m) => Answered(m)
<1>1. ASSUME NEW c \in Calls, NEW how \in {"ok", "error", "aborted"}, Finish(c, how),
             kind[c] # "none",
             c \in Live \/ (handler[c] = "none" /\ Begins(c)),
             how # "ok" => handler[c] # "sent" \/ c \in lostReply',
             how = "aborted" => SignalAborted /\ c \in Live
      PROVE  Goal
  <2>0. TypeOK /\ Finish(c, how)
    BY <1>1
  <2>1. PICK h \in {"ok", "error", "aborted"} :
           /\ h = "ok" <=> how = "ok"
           /\ h = "aborted" => Cancellable(c) /\ (how = "aborted" \/ c \in aborted)
           /\ In(toHost') = In(toHost) \cup {[type |-> "rpcResult", call |-> c, how |-> h]}
           /\ handler' = [handler EXCEPT ![c] = "finished"]
    BY ONLY <2>0, Finished, c \in Calls, how \in {"ok", "error", "aborted"}
  <2>2. Moved
    BY <1>1, <1>t, <2>1 DEF Advances, Live
  <2>3. h = "aborted" /\ c \in pending /\ ~SlowStorage => c \in cancelled
    BY <1>1, <2>1 DEF SignalAborted, Exclusive, CancelReachesFlow, Cancels
  <2>4. handler[c] \notin {"finished", "gone"}
    BY <1>1 DEF Live
  <2>5. \A m \in In(toHost') : Answered(m)
    BY <1>1, <1>t, <2>1, <2>3, <2>4
  <2>6. QED
    BY <2>2, <2>5
<1>2. ASSUME UNCHANGED toHost, Moved PROVE Goal
  BY <1>2
<1>3. ASSUME NEW m \in ToHostMessages, toHost' = Append(toHost, m), ~IsResult(m), Moved PROVE Goal
  BY <1>3, <1>t, AppendShape
<1>4. \A c \in Calls : handler[c] # "none" => kind[c] # "none"
  BY DEF Promises
<1>5. CASE Dispatch
  <2> DEFINE c == Head(toWeb).call
  <2>1. /\ c \in Calls /\ Head(toWeb) \in In(toWeb) /\ IsRpc(Head(toWeb))
    BY <1>5, Taken, MessageFields DEF Dispatch, IsRpc
  <2>2. handler[c] = "none" /\ kind[c] # "none" /\ Begins(c)
    BY <1>5, <2>1 DEF Channels, Begins
  <2>3. CASE booted
    <3>1. handler' = [handler EXCEPT ![c] = "check"] /\ UNCHANGED toHost
      BY <1>5, <2>3 DEF Dispatch
    <3>2. Moved
      BY <1>5, <1>t, <2>1, <2>2, <3>1 DEF Advances
    <3>3. QED
      BY <1>2, <3>1, <3>2
  <2>4. CASE ~booted
    <3>1. Finish(c, "error")
      BY <1>5, <2>4 DEF Dispatch
    <3>2. QED
      BY <1>1, <1>5, <2>1, <2>2, <3>1
  <2>5. QED
    BY <2>3, <2>4
<1>6. CASE OnAbort
  <2> DEFINE d == Head(toWeb).call
             hits == {i \in ProveIds : provePending[i].listens = d}
             unwound == {provePending[i].call : i \in hits}
  <2>1. /\ d \in cancelled
        /\ \/ UNCHANGED <<handler, toHost>>
           \/ /\ handler' = [c \in Calls |-> IF c \in unwound THEN "finished" ELSE handler[c]]
              /\ unwound \subseteq Calls /\ \A c \in unwound : handler[c] = "prove"
              /\ \A m \in In(toHost') : m \in In(toHost)
                   \/ \E c \in unwound : m = [type |-> "rpcResult", call |-> c, how |-> "aborted"]
    BY <1>6, Unwound
  <2>2. \A c \in unwound : c \in pending /\ ~SlowStorage => c = d
    BY DEF Exclusive, OwnAborts
  <2> HIDE DEF unwound, d
  <2>3. CASE UNCHANGED <<handler, toHost>>
    BY <1>2, <2>3
  <2>4. CASE ~UNCHANGED <<handler, toHost>>
    <3>1. Moved
      BY <1>t, <2>1, <2>4 DEF Advances, Live
    <3>2. \A c \in unwound : /\ c \in Calls /\ handler[c] = "prove" /\ handler'[c] = "finished" /\ kind[c] # "none"
                             /\ c \in pending /\ ~SlowStorage => c \in cancelled
      BY <1>4, <2>1, <2>2, <2>4
    <3>3. \A m \in In(toHost') : Answered(m)
      BY <2>1, <2>4, <3>2
    <3>4. QED
      BY <3>1, <3>3
  <2>5. QED
    BY <2>3, <2>4
<1>7. ASSUME NEW c \in Calls, handler[c] \in {"check", "simulate", "prove", "send"}, Finish(c, "error") PROVE Goal
  <2>1. c \in Live /\ kind[c] # "none"
    BY <1>4, <1>7 DEF Live
  <2>2. QED
    BY <1>1, <1>7, <2>1
<1>8. CASE OnProveResult
  <2> DEFINE i == Head(toWeb).id
             c == provePending[i].call
  <2>1. i \in ProveIds
    BY <1>8, Taken, MessageFields DEF OnProveResult
  <2>2. CASE c = NoCall
    <3>1. UNCHANGED <<handler, toHost>>
      BY <1>8, <2>2 DEF OnProveResult
    <3>2. QED
      BY <1>2, <3>1
  <2>3. CASE c # NoCall
    <3>1. handler[c] = "prove" /\ c \in Calls
      BY <2>1, <2>3 DEF Bridge, TypeOK, CallsOrNone
    <3>2. \/ handler' = [handler EXCEPT ![c] = "send"] /\ UNCHANGED <<toHost, signal>>
          \/ Finish(c, "error")
      BY <1>8, <2>3 DEF OnProveResult
    <3> HIDE DEF c
    <3>3. handler' = [handler EXCEPT ![c] = "send"] => Moved
      BY <1>t, <3>1 DEF Advances
    <3>4. QED
      BY <1>2, <1>7, <3>1, <3>2, <3>3
  <2>4. QED
    BY <2>2, <2>3
<1>9. ASSUME NEW i \in ProveIds, ProveTimeout(i) PROVE Goal
  <2>1. handler[provePending[i].call] = "prove" /\ provePending[i].call \in Calls
    BY <1>9 DEF ProveTimeout, Bridge, TypeOK, CallsOrNone
  <2>2. QED
    BY <1>7, <1>9, <2>1 DEF ProveTimeout
<1>10. ASSUME NEW c \in Calls, Check(c) PROVE Goal
  <2>1. CASE SignalAborted
    <3>1. Finish(c, "aborted") /\ handler[c] = "check"
      BY <1>10, <2>1 DEF Check
    <3>2. QED
      BY <1>1, <1>4, <2>1, <3>1 DEF Live
  <2>2. CASE ~SignalAborted
    <3>1. Cancellable(c) /\ handler[c] = "check" /\ handler' = [handler EXCEPT ![c] = "simulate"] /\ UNCHANGED toHost
      BY <1>10, <2>2 DEF Check
    <3>2. QED
      BY <1>2, <1>t, <3>1 DEF Advances
  <2>3. QED
    BY <2>1, <2>2
<1>11. ASSUME NEW c \in Calls, BackgroundReturns(c) PROVE Goal
  BY <1>1, <1>4, <1>11 DEF BackgroundReturns, Live
<1>12. ASSUME NEW c \in Calls, HandlerFails(c) \/ NodeRejects(c) PROVE Goal
  BY <1>7, <1>12 DEF HandlerFails, NodeRejects
<1>13. ASSUME NEW c \in Calls, ProveOverBridge(c) PROVE Goal
  <2>1. CASE SignalAborted
    <3>1. Finish(c, "aborted") /\ handler[c] = "simulate"
      BY <1>13, <2>1 DEF ProveOverBridge
    <3>2. QED
      BY <1>1, <1>4, <2>1, <3>1 DEF Live
  <2>2. CASE ~SignalAborted
    <3> DEFINE m == [type |-> "proveRequest", id |-> proveSeq', call |-> c]
    <3>1. /\ handler[c] = "simulate" /\ handler' = [handler EXCEPT ![c] = "prove"]
          /\ toHost' = Append(toHost, m) /\ proveSeq' \in ProveIds
      BY <1>13, <2>2 DEF ProveOverBridge, TypeOK, ProveIds
    <3>2. Moved
      BY <1>t, <3>1 DEF Advances
    <3>3. m \in ToHostMessages /\ ~IsResult(m)
      BY <3>1, MessageFields DEF IsResult
    <3>4. QED
      BY <1>3, <3>1, <3>2, <3>3
  <2>3. QED
    BY <2>1, <2>2
<1>14. ASSUME NEW c \in Calls, SendReturns(c) PROVE Goal
  <2>1. CASE sends[c] < Sends(c)
    <3>1. handler[c] = "sent" /\ handler' = [handler EXCEPT ![c] = "simulate"] /\ UNCHANGED toHost
      BY <1>14, <2>1 DEF SendReturns
    <3>2. QED
      BY <1>2, <1>t, <2>1, <3>1 DEF Advances
  <2>2. CASE ~(sends[c] < Sends(c))
    <3>1. handler[c] = "sent" /\ Finish(c, "ok")
      BY <1>14, <2>2 DEF SendReturns
    <3>2. QED
      BY <1>1, <1>4, <3>1 DEF Live
  <2>3. QED
    BY <2>1, <2>2
<1>15. ASSUME NEW c \in Calls, NodeAccepts(c) PROVE Goal
  <2>1. handler[c] = "send" /\ handler' = [handler EXCEPT ![c] = "sent"] /\ UNCHANGED toHost
    BY <1>15 DEF NodeAccepts
  <2>2. QED
    BY <1>2, <1>15, <1>t, <2>1 DEF Advances
<1>16. ASSUME NEW c \in Calls, ReplyLost(c) PROVE Goal
  <2>1. handler[c] = "sent" /\ Finish(c, "error") /\ c \in lostReply'
    BY <1>16 DEF ReplyLost
  <2>2. QED
    BY <1>1, <1>4, <2>1 DEF Live
<1>17. ASSUME handler' = [c \in Calls |-> IF c \in Live THEN "gone" ELSE handler[c]] PROVE Moved
  BY <1>17 DEF Advances
<1>18. CASE Restart \/ RendererGone \/ SilentReload
  <2>1. PICK type \in {"ready", "crash"} : toHost' = Append(toHost, [type |-> type])
    BY <1>18 DEF Restart, RendererGone, SilentReload
  <2>2. Moved
    BY <1>17, <1>18 DEF Restart, RendererGone, SilentReload, Forget
  <2>3. [type |-> type] \in ToHostMessages /\ ~IsResult([type |-> type])
    BY MessageFields DEF IsResult
  <2>4. QED
    BY <1>3, <2>1, <2>2, <2>3
<1>19. ASSUME NEW p \in proving, NEW v \in BOOLEAN, NativeAnswers(p, v) PROVE Goal
  BY <1>2, <1>19 DEF NativeAnswers, web
<1>20. QED
  <2>1. Goal
    BY <1>5, <1>6, <1>8, <1>9, <1>10, <1>11, <1>12, <1>13, <1>14, <1>15, <1>16, <1>18, <1>19
       DEF WebStep, ExternalStep
  <2>2. QED
    BY <2>1

\* What RN posts, and what becomes of the requests in the channel.
LEMMA RequestFrame ==
  ASSUME IInv, Inside \/ Outside
  PROVE  /\ Once(toWeb')
         /\ \A m \in In(toWeb') :
              \/ m \in In(toWeb) /\ (IsRpc(m) => handler'[m.call] = "none")
              \/ /\ IsRpc(m) /\ m.call \in Calls /\ caller[m.call] = "idle" /\ caller'[m.call] = "waiting"
                 /\ kind'[m.call] # "none" /\ handler'[m.call] = "none"
                 /\ kind'[m.call] \in Flows => phase = "ready" /\ busy = NoCall
              \/ IsAbort(m) /\ m.call \in cancelled'
              \/ m.type = "proveResult"
<1> USE DEF IInv
<1>t. toWeb \in Seq(ToWebMessages) /\ \A m \in In(toWeb) : m \in ToWebMessages
  BY DEF TypeOK, In
<1>1. ASSUME UNCHANGED <<toWeb, handler>>
      PROVE  Once(toWeb') /\ \A m \in In(toWeb') : m \in In(toWeb) /\ (IsRpc(m) => handler'[m.call] = "none")
  BY <1>1 DEF Channels
<1>2. ASSUME NEW c \in Calls, NEW k \in Kinds, Call(c, k), UNCHANGED handler,
             k \in Flows => phase = "ready" /\ busy = NoCall
      PROVE  /\ Once(toWeb')
             /\ \A m \in In(toWeb') :
                  \/ m \in In(toWeb) /\ (IsRpc(m) => handler'[m.call] = "none")
                  \/ /\ IsRpc(m) /\ m.call \in Calls /\ caller[m.call] = "idle" /\ caller'[m.call] = "waiting"
                     /\ kind'[m.call] # "none" /\ handler'[m.call] = "none"
                     /\ kind'[m.call] \in Flows => phase = "ready" /\ busy = NoCall
  <2> DEFINE n == [type |-> "rpc", call |-> c]
  <2>1. n \in ToWebMessages /\ Post(n) /\ IsRpc(n) /\ n.call = c
    BY <1>2, MessageFields DEF Call, IsRpc
  <2>2. \A m \in In(toWeb) : IsRpc(m) => m.call # c
    BY <1>2 DEF Call, Channels, Promises
  <2>3. /\ caller[c] = "idle" /\ caller'[c] = "waiting" /\ kind'[c] = k /\ kind'[c] # "none"
        /\ handler'[c] = "none"
    <3>1. caller[c] = "idle" /\ caller'[c] = "waiting" /\ kind'[c] = k
      BY <1>2 DEF Call, TypeOK
    <3>2. k # "none"
      BY DEF Kinds, Flows
    <3>3. handler'[c] = "none"
      BY <1>2, <3>1 DEF Promises
    <3>4. QED
      BY <3>1, <3>2, <3>3
  <2> HIDE DEF n
  <2>4. Once(toWeb') /\ In(toWeb') \subseteq In(toWeb) \cup {n}
    BY <2>1, <2>2, Posted DEF Channels
  <2>5. QED
    BY <1>2, <2>1, <2>3, <2>4 DEF Channels
<1>3. CASE Inside
  <2>1. UNCHANGED handler
    BY <1>3, InsideFrame
  <2>2. CASE Cancel
    <3> DEFINE n == [type |-> "abort", call |-> activeCall]
    <3>1. activeCall \in Calls /\ Post(n) /\ activeCall \in cancelled'
      BY <2>2 DEF Cancel, TypeOK, CallsOrNone
    <3>2. n \in ToWebMessages /\ IsAbort(n) /\ ~IsRpc(n) /\ n.call \in cancelled'
      BY <3>1, MessageFields DEF IsAbort, IsRpc
    <3> HIDE DEF n
    <3>3. Once(toWeb') /\ In(toWeb') \subseteq In(toWeb) \cup {n}
      BY <3>1, <3>2, Posted DEF Channels
    <3>4. QED
      BY <2>1, <3>2, <3>3 DEF Channels
  <2>3. ASSUME NEW c \in Calls, NEW k \in Flows, StartFlow(c, k)
        PROVE  k \in Kinds /\ Call(c, k) /\ phase = "ready" /\ busy = NoCall
    BY <2>3 DEF StartFlow, Kinds
  <2>4. ASSUME NEW c \in Calls, NEW k \in {"sync", "read"}, StartBackground(c, k)
        PROVE  k \in Kinds /\ Call(c, k) /\ k \notin Flows
    BY <2>4 DEF StartBackground, Kinds, Flows
  <2>5. CASE \E c \in Calls, k \in Flows : StartFlow(c, k)
    BY <1>2, <2>1, <2>3, <2>5
  <2>6. CASE \E c \in Calls, k \in {"sync", "read"} : StartBackground(c, k)
    BY <1>2, <2>1, <2>4, <2>6
  <2>7. CASE UNCHANGED toWeb
    BY <1>1, <2>1, <2>7
  <2>8. QED
    BY <1>3, <2>2, <2>5, <2>6, <2>7
       DEF Inside, Timeout, Track, OnRpcResult, OnProveRequest, OnReady, OnCrash, Booted
<1>4. CASE Outside
  <2>1. ASSUME NEW m \in In(toWeb), IsRpc(m), Dispatch => m \in In(toWeb')
        PROVE  handler'[m.call] = "none"
    <3>1. handler[m.call] = "none" /\ m.call \in Calls
      BY <1>t, <2>1, MessageFields DEF Channels
    <3>2. ~Begins(m.call)
      BY <2>1, Taken DEF Dispatch, Begins
    <3>3. handler'[m.call] = handler[m.call] \/ Advances(m.call, handler[m.call], handler'[m.call])
      BY <1>4, <3>1, HandlerFrame
    <3>4. QED
      BY <3>1, <3>2, <3>3 DEF Advances, Live
  <2>2. CASE \E type : Incoming(type)
    <3>1. Once(toWeb') /\ In(toWeb') \subseteq In(toWeb)
      BY <2>2, Taken
    <3>2. QED
      BY <2>1, <3>1
  <2>3. CASE toWeb' = <<>>
    BY <2>3 DEF In, Once
  <2>4. ASSUME NEW p \in proving, NEW v \in BOOLEAN, NativeAnswers(p, v)
        PROVE  Once(toWeb') /\ \A m \in In(toWeb') : m \in In(toWeb) \/ m.type = "proveResult"
    <3> DEFINE n == [type |-> "proveResult", id |-> p.id, call |-> p.call, verified |-> v]
    <3>1. p.id \in ProveIds /\ p.call \in Calls
      BY DEF TypeOK
    <3>2. n \in ToWebMessages /\ Post(n) /\ ~IsRpc(n) /\ n.type = "proveResult"
      BY <2>4, <3>1, MessageFields DEF NativeAnswers, IsRpc
    <3> HIDE DEF n
    <3>3. Once(toWeb') /\ In(toWeb') \subseteq In(toWeb) \cup {n}
      BY <3>2, Posted DEF Channels
    <3>4. QED
      BY <3>2, <3>3
  <2>5. CASE \E p \in proving, v \in BOOLEAN : NativeAnswers(p, v)
    <3>1. ~Dispatch
      BY <2>5 DEF Dispatch, NativeAnswers, Incoming
    <3>2. QED
      BY <2>1, <2>4, <2>5
  <2>6. CASE UNCHANGED toWeb
    <3>1. QED
      BY <2>1, <2>6 DEF Channels
  <2>7. QED
    BY <1>4, <2>2, <2>3, <2>5, <2>6
       DEF Outside, WebStep, ExternalStep, Dispatch, OnAbort, OnProveResult, ProveTimeout, Check,
           BackgroundReturns, HandlerFails, ProveOverBridge, SendReturns, NodeAccepts, NodeRejects,
           ReplyLost, RendererGone, SilentReload, Forget, Restart
<1>5. QED
  BY <1>3, <1>4

\* What becomes of the promise of a call when RN steps: it is registered, it
\* settles with the answer of the page or for want of one, or nothing happens.
LEMMA PromiseFrame ==
  ASSUME IInv, Inside
  PROVE  /\ Promises'
         /\ In(toHost') \subseteq In(toHost) /\ cancelled \subseteq cancelled'
         /\ \A c \in Calls :
              /\ kind[c] # "none" => kind'[c] = kind[c]
              /\ \/ outcome'[c] = outcome[c]
                 \/ outcome'[c] \in {"ok", "timeout", "lost"}
                 \/ \E m \in In(toHost) : IsResult(m) /\ m.call = c /\ m.how = outcome'[c] /\ c \in pending
<1> USE DEF IInv
<1> DEFINE Kept == /\ In(toHost') \subseteq In(toHost) /\ cancelled \subseteq cancelled'
                   /\ \A c \in Calls : kind[c] # "none" => kind'[c] = kind[c]
           Settled == \A c \in Calls :
              \/ outcome'[c] = outcome[c]
              \/ outcome'[c] \in {"ok", "timeout", "lost"}
              \/ \E m \in In(toHost) : IsResult(m) /\ m.call = c /\ m.how = outcome'[c] /\ c \in pending
           Goal == Promises' /\ Kept /\ Settled
<1>t. /\ kind \in [Calls -> Kinds \cup {"none"}]
      /\ caller \in [Calls -> {"idle", "waiting", "tracking", "done"}]
      /\ outcome \in [Calls -> {"none", "ok", "error", "aborted", "timeout", "lost"}]
      /\ pending = {c \in Calls : caller[c] = "waiting"}
  BY DEF TypeOK, Promises
<1>h. UNCHANGED handler
  BY InsideFrame
<1>1. ASSUME NEW c \in Calls, NEW k \in Kinds, Call(c, k),
             UNCHANGED <<outcome, tracked, toHost, cancelled>>
      PROVE  Goal
  <2>1. /\ caller[c] = "idle" /\ kind[c] = "none" /\ outcome[c] = "none"
        /\ kind' = [kind EXCEPT ![c] = k] /\ caller' = [caller EXCEPT ![c] = "waiting"]
        /\ pending' = pending \cup {c}
    BY <1>1, <1>t DEF Call, Promises
  <2>2. k # "none"
    BY DEF Kinds, Flows
  <2>3. pending' = {d \in Calls : caller'[d] = "waiting"}
    BY <1>t, <2>1
  <2>4. ASSUME NEW d \in Calls
        PROVE  /\ caller'[d] = "idle" <=> kind'[d] = "none"
               /\ caller'[d] = "idle" => handler'[d] = "none"
               /\ caller'[d] \in {"idle", "waiting"} <=> outcome'[d] = "none"
               /\ caller'[d] = "tracking" => outcome'[d] = "ok" /\ Cancellable(d)'
               /\ caller'[d] = "done" /\ outcome'[d] = "ok" /\ Cancellable(d)' => <<d, 1>> \in tracked'
    BY <1>1, <1>t, <1>h, <2>1, <2>2 DEF Promises, Cancellable
  <2>5. Kept
    BY <1>1, <1>t, <2>1
  <2>6. QED
    BY <1>1, <2>3, <2>4, <2>5 DEF Promises
<1>2. ASSUME NEW S \in SUBSET pending, NEW r \in {"error", "aborted", "timeout", "lost"}, Reject(S, r),
             UNCHANGED <<kind, tracked>>
      PROVE  Promises'
  <2>1. ASSUME NEW d \in Calls
        PROVE  /\ caller'[d] = IF d \in S THEN "done" ELSE caller[d]
               /\ outcome'[d] = IF d \in S THEN r ELSE outcome[d]
    BY <1>2 DEF Reject
  <2>2. pending' = {d \in Calls : caller'[d] = "waiting"}
    BY <1>2, <1>t, <2>1 DEF Reject
  <2>3. ASSUME NEW d \in Calls
        PROVE  /\ caller'[d] = "idle" <=> kind'[d] = "none"
               /\ caller'[d] = "idle" => handler'[d] = "none"
               /\ caller'[d] \in {"idle", "waiting"} <=> outcome'[d] = "none"
               /\ caller'[d] = "tracking" => outcome'[d] = "ok" /\ Cancellable(d)'
               /\ caller'[d] = "done" /\ outcome'[d] = "ok" /\ Cancellable(d)' => <<d, 1>> \in tracked'
    BY <1>2, <1>t, <1>h, <2>1 DEF Promises, Cancellable
  <2>4. QED
    BY <2>2, <2>3 DEF Promises
<1>3. ASSUME UNCHANGED <<pending, kind, caller, outcome, tracked>> PROVE Promises'
  BY <1>3, <1>h DEF Promises, Cancellable
<1>4. CASE \E c \in Calls, k \in Flows : StartFlow(c, k)
  BY <1>1, <1>4 DEF StartFlow, Kinds, history
<1>5. CASE \E c \in Calls, k \in {"sync", "read"} : StartBackground(c, k)
  BY <1>1, <1>5 DEF StartBackground, Kinds, history
<1>6. CASE Cancel
  BY <1>3, <1>6 DEF Cancel, host
<1>7. ASSUME NEW c \in Calls, Timeout(c) PROVE Goal
  <2>1. Promises'
    BY <1>2, <1>7, <1>t DEF Timeout
  <2>2. QED
    BY <1>7, <2>1 DEF Timeout, Reject, history
<1>8. ASSUME NEW c \in Calls, Track(c) PROVE Goal
  <2>1. /\ caller[c] = "tracking" /\ outcome[c] = "ok" /\ Cancellable(c)
        /\ caller' = [caller EXCEPT ![c] = "done"]
        /\ UNCHANGED <<pending, kind, outcome, toHost, cancelled>>
        /\ tracked \subseteq tracked' /\ <<c, 1>> \in tracked'
    BY <1>8 DEF Track, Promises, Sends, history
  <2>2. ASSUME NEW d \in Calls
        PROVE  /\ caller'[d] = "idle" <=> kind'[d] = "none"
               /\ caller'[d] = "idle" => handler'[d] = "none"
               /\ caller'[d] \in {"idle", "waiting"} <=> outcome'[d] = "none"
               /\ caller'[d] = "tracking" => outcome'[d] = "ok" /\ Cancellable(d)'
               /\ caller'[d] = "done" /\ outcome'[d] = "ok" /\ Cancellable(d)' => <<d, 1>> \in tracked'
    BY <1>t, <1>h, <2>1 DEF Promises, Cancellable
  <2>3. pending' = {d \in Calls : caller'[d] = "waiting"}
    BY <1>t, <2>1
  <2>4. QED
    BY <2>1, <2>2, <2>3 DEF Promises
<1>9. CASE OnRpcResult
  <2> DEFINE c == Head(toHost).call
             how == Head(toHost).how
  <2>1. /\ In(toHost') \subseteq In(toHost) /\ Head(toHost) \in In(toHost) /\ IsResult(Head(toHost))
        /\ c \in Calls /\ how \in {"ok", "error", "aborted"}
    BY <1>9, Received, MessageFields DEF OnRpcResult, IsResult
  <2>2. UNCHANGED <<kind, tracked, cancelled>>
    BY <1>9 DEF OnRpcResult, history
  <2>3. CASE c \notin pending
    <3>1. UNCHANGED <<pending, caller, outcome>>
      BY <1>9, <2>3 DEF OnRpcResult
    <3>2. QED
      BY <1>3, <2>1, <2>2, <3>1
  <2>4. CASE c \in pending /\ how # "ok"
    <3>1. Reject({c}, how)
      BY <1>9, <2>4 DEF OnRpcResult
    <3>2. {c} \in SUBSET pending /\ how \in {"error", "aborted", "timeout", "lost"}
      BY <2>1, <2>4
    <3>3. Promises'
      BY <1>2, <2>2, <3>1, <3>2
    <3>4. \A d \in Calls : outcome'[d] = outcome[d] \/ (d = c /\ outcome'[d] = how)
      BY <3>1 DEF Reject
    <3>5. QED
      BY <2>1, <2>2, <2>4, <3>3, <3>4
  <2>5. CASE c \in pending /\ how = "ok"
    <3>1. /\ pending' = pending \ {c}
          /\ outcome' = [outcome EXCEPT ![c] = "ok"]
          /\ caller' = [caller EXCEPT ![c] = IF Cancellable(c) THEN "tracking" ELSE "done"]
      BY <1>9, <2>5 DEF OnRpcResult
    <3> HIDE DEF c, how
    <3>2. ASSUME NEW d \in Calls
          PROVE  /\ caller'[d] = "idle" <=> kind'[d] = "none"
                 /\ caller'[d] = "idle" => handler'[d] = "none"
                 /\ caller'[d] \in {"idle", "waiting"} <=> outcome'[d] = "none"
                 /\ caller'[d] = "tracking" => outcome'[d] = "ok" /\ Cancellable(d)'
                 /\ caller'[d] = "done" /\ outcome'[d] = "ok" /\ Cancellable(d)' => <<d, 1>> \in tracked'
      BY <1>t, <1>h, <2>2, <2>5, <3>1 DEF Promises, Cancellable
    <3>3. pending' = {d \in Calls : caller'[d] = "waiting"}
      BY <1>t, <3>1
    <3>4. \A d \in Calls : outcome'[d] = outcome[d] \/ outcome'[d] = "ok"
      BY <1>t, <3>1
    <3>5. QED
      BY <2>1, <2>2, <3>2, <3>3, <3>4 DEF Promises
  <2>6. QED
    BY <2>1, <2>3, <2>4, <2>5
<1>10. CASE OnProveRequest
  <2>1. In(toHost') \subseteq In(toHost)
    BY <1>10, Received DEF OnProveRequest
  <2>2. QED
    BY <1>3, <1>10, <2>1 DEF OnProveRequest, host, history
<1>11. CASE OnReady \/ OnCrash
  <2>1. In(toHost') \subseteq In(toHost)
    BY <1>11, Received DEF OnReady, OnCrash
  <2>2. Reject(pending, "lost") /\ UNCHANGED <<kind, tracked, cancelled>>
    BY <1>11 DEF OnReady, OnCrash, Reset, history
  <2>3. Promises'
    BY <1>2, <2>2
  <2>4. \A d \in Calls : outcome'[d] = outcome[d] \/ outcome'[d] = "lost"
    BY <2>2 DEF Reject
  <2>5. QED
    BY <2>1, <2>2, <2>3, <2>4
<1>12. CASE Booted
  BY <1>3, <1>12 DEF Booted, history
<1>13. QED
  <2>1. Goal
    BY <1>4, <1>5, <1>6, <1>7, <1>8, <1>9, <1>10, <1>11, <1>12 DEF Inside
  <2>2. QED
    BY <2>1

\* The promises, whoever steps.
LEMMA PromisesStep ==
  ASSUME IInv, Inside \/ Outside
  PROVE  Promises'
<1> USE DEF IInv
<1>1. CASE Inside
  BY <1>1, PromiseFrame
<1>2. CASE Outside
  <2>1. UNCHANGED <<pending, kind, caller, outcome, tracked>>
    BY <1>2, OutsideFrame
  <2>2. ASSUME NEW c \in Calls, caller[c] = "idle" PROVE handler'[c] = "none"
    <3>1. handler[c] = "none" /\ kind[c] = "none"
      BY <2>2 DEF Promises
    <3>2. ~Begins(c)
      BY <3>1, Taken DEF Begins, Dispatch, Channels, IsRpc
    <3>3. handler'[c] = handler[c] \/ Advances(c, handler[c], handler'[c])
      BY <1>2, HandlerFrame
    <3>4. QED
      BY <3>1, <3>2, <3>3 DEF Advances, Live
  <2>3. QED
    BY <2>1, <2>2 DEF Promises, Cancellable
<1>3. QED
  BY <1>1, <1>2

-------------------------------------------------------------------------------
(* The document. *)

\* Handlers only go forward, and only the node counts what they send.
LEMMA HandlersStep ==
  ASSUME IInv, Inside \/ Outside
  PROVE  Handlers'
<1> USE DEF IInv
<1>1. CASE Inside
  <2>1. UNCHANGED <<handler, sends>> /\ \A c \in Calls : kind[c] # "none" => kind'[c] = kind[c]
    BY <1>1, InsideFrame, PromiseFrame
  <2>2. \A c \in Calls : handler[c] # "none" => kind'[c] = kind[c]
    BY <2>1 DEF Promises
  <2>3. QED
    BY <2>1, <2>2 DEF Handlers, Cancellable, Sends
<1>2. CASE Outside
  <2>1. UNCHANGED kind /\ \A c \in Calls : handler'[c] = handler[c] \/ Advances(c, handler[c], handler'[c])
    BY <1>2, OutsideFrame, HandlerFrame
  <2>t. /\ handler \in [Calls -> {"none", "check", "simulate", "prove", "send", "sent", "finished", "gone"}]
        /\ sends \in [Calls -> 0..2]
    BY DEF TypeOK
  <2>2. ASSUME NEW d \in Calls, NodeAccepts(d) PROVE Handlers'
    <3>1. /\ handler[d] = "send" /\ handler' = [handler EXCEPT ![d] = "sent"]
          /\ sends' = [sends EXCEPT ![d] = @ + 1]
      BY <2>2 DEF NodeAccepts
    <3>2. Cancellable(d) /\ sends'[d] > 0
      BY <2>t, <3>1 DEF Handlers
    <3>3. \A c \in Calls : c # d => handler'[c] = handler[c] /\ sends'[c] = sends[c]
      BY <2>t, <3>1
    <3>4. handler'[d] = "sent"
      BY <2>t, <3>1
    <3>5. QED
      BY <2>1, <3>2, <3>3, <3>4 DEF Handlers, Cancellable, Sends
  <2>3. CASE \A d \in Calls : ~NodeAccepts(d)
    <3>1. UNCHANGED sends
      BY <1>2, <2>3
         DEF Outside, WebStep, ExternalStep, Dispatch, OnAbort, OnProveResult, ProveTimeout, Check,
             BackgroundReturns, HandlerFails, ProveOverBridge, SendReturns, NativeAnswers, NodeRejects,
             ReplyLost, RendererGone, SilentReload, Forget, Restart, web
    <3>2. ASSUME NEW c \in Calls
          PROVE  /\ handler'[c] \in {"simulate", "prove", "send", "sent"} => Cancellable(c)
                 /\ handler'[c] \in {"check", "simulate", "prove", "send"} => sends[c] < Sends(c)
                 /\ handler'[c] = "none" => sends[c] = 0
                 /\ handler'[c] = "sent" => sends[c] > 0
      <4>1. CASE handler'[c] = handler[c]
        BY <4>1 DEF Handlers
      <4>2. CASE handler[c] = "none" /\ handler'[c] \in {"check", "finished"}
        BY <4>2 DEF Handlers, Sends
      <4>3. QED
        BY <2>1, <2>3, <4>1, <4>2 DEF Handlers, Advances
    <3>3. QED
      BY <2>1, <3>1, <3>2 DEF Handlers, Cancellable, Sends
  <2>4. QED
    BY <2>2, <2>3
<1>3. QED
  BY <1>1, <1>2

\* A prove leaves the bridge with the handler that waits for it.
LEMMA BridgeStep ==
  ASSUME IInv, Inside \/ Outside
  PROVE  Bridge'
<1> USE DEF IInv
<1>t. /\ handler \in [Calls -> {"none", "check", "simulate", "prove", "send", "sent", "finished", "gone"}]
      /\ provePending \in [ProveIds -> [call : Calls \cup {NoCall}, listens : Calls \cup {NoCall}]]
      /\ signal \in Calls \cup {NoCall} /\ NoProve.call = NoCall /\ NoProve.listens = NoCall
  BY DEF TypeOK, CallsOrNone, NoProve
<1>1. ASSUME UNCHANGED provePending, \A d \in Calls : handler[d] = "prove" => handler'[d] = "prove"
      PROVE  Bridge'
  BY <1>1, <1>t DEF Bridge
<1>2. CASE Inside
  BY <1>1, <1>2, InsideFrame DEF bridge
<1>3. ASSUME NEW c \in Calls, handler[c] # "prove", UNCHANGED provePending,
             NEW to, handler' = [handler EXCEPT ![c] = to]
      PROVE  Bridge'
  BY <1>1, <1>3, <1>t
<1>4. ASSUME NEW i \in ProveIds, provePending[i].call # NoCall,
             provePending' = [provePending EXCEPT ![i] = NoProve],
             NEW to, handler' = [handler EXCEPT ![provePending[i].call] = to]
      PROVE  Bridge'
  <2>1. \A j \in ProveIds : provePending'[j] = IF j = i THEN NoProve ELSE provePending[j]
    BY <1>4, <1>t
  <2>2. \A j \in ProveIds : j # i => provePending[j].call # provePending[i].call
    BY <1>4 DEF Bridge
  <2>3. \A d \in Calls : d # provePending[i].call => handler'[d] = handler[d]
    BY <1>4, <1>t
  <2>4. QED
    BY <1>t, <2>1, <2>2, <2>3 DEF Bridge
<1>5. ASSUME provePending' = [i \in ProveIds |-> NoProve] PROVE Bridge'
  BY <1>5, <1>t DEF Bridge
<1>6. CASE Dispatch
  <2>1. /\ Head(toWeb).call \in Calls /\ Head(toWeb) \in In(toWeb) /\ IsRpc(Head(toWeb))
    BY <1>6, Taken, MessageFields DEF Dispatch, IsRpc
  <2>2. handler[Head(toWeb).call] = "none"
    BY <2>1 DEF Channels
  <2>3. UNCHANGED provePending /\ \E to : handler' = [handler EXCEPT ![Head(toWeb).call] = to]
    BY <1>6 DEF Dispatch, Finish, bridge
  <2>4. QED
    BY <1>3, <2>1, <2>2, <2>3
<1>7. CASE OnAbort
  <2> DEFINE c == Head(toWeb).call
             hits == {i \in ProveIds : provePending[i].listens = c}
             unwound == {provePending[i].call : i \in hits}
  <2>1. CASE UNCHANGED <<handler, provePending>>
    BY <1>1, <2>1
  <2>2. CASE ~UNCHANGED <<handler, provePending>>
    <3>1. /\ provePending' = [i \in ProveIds |-> IF i \in hits THEN NoProve ELSE provePending[i]]
          /\ handler' = [d \in Calls |-> IF d \in unwound THEN "finished" ELSE handler[d]]
          /\ c # NoCall
      BY <1>7, <2>2, Unwound
    <3>2. \A i \in hits : provePending[i].call # NoCall
      BY <3>1 DEF Bridge
    <3>3. \A j \in ProveIds \ hits : provePending[j].call \notin unwound
      BY <3>2 DEF Bridge
    <3> HIDE DEF unwound, hits
    <3>4. QED
      BY <1>t, <3>1, <3>3 DEF Bridge
  <2>3. QED
    BY <2>1, <2>2
<1>8. CASE OnProveResult
  <2> DEFINE i == Head(toWeb).id
             c == provePending[i].call
  <2>1. i \in ProveIds
    BY <1>8, Taken, MessageFields DEF OnProveResult
  <2>2. CASE c = NoCall
    BY <1>1, <1>8, <2>2 DEF OnProveResult
  <2>3. CASE c # NoCall
    <3>1. /\ provePending' = [provePending EXCEPT ![i] = NoProve]
          /\ \E to : handler' = [handler EXCEPT ![c] = to]
      BY <1>8, <2>3 DEF OnProveResult, Finish
    <3>2. QED
      BY <1>4, <2>1, <2>3, <3>1
  <2>4. QED
    BY <2>2, <2>3
<1>9. ASSUME NEW i \in ProveIds, ProveTimeout(i) PROVE Bridge'
  BY <1>4, <1>9 DEF ProveTimeout, Finish
<1>10. ASSUME NEW c \in Calls, ProveOverBridge(c) PROVE Bridge'
  <2>1. CASE SignalAborted
    BY <1>3, <1>10, <2>1 DEF ProveOverBridge, Finish, bridge
  <2>2. CASE ~SignalAborted
    <3>1. /\ handler[c] = "simulate" /\ handler' = [handler EXCEPT ![c] = "prove"]
          /\ provePending' = [provePending EXCEPT ![proveSeq'] = [call |-> c, listens |-> signal]]
      BY <1>10, <2>2 DEF ProveOverBridge
    <3>2. \A j \in ProveIds : provePending[j].call # c
      BY <3>1 DEF Bridge
    <3>3. \A j \in ProveIds : \/ provePending'[j] = provePending[j]
                              \/ j = proveSeq' /\ provePending'[j].call = c
      BY <1>t, <3>1
    <3>4. handler'[c] = "prove" /\ \A d \in Calls : d # c => handler'[d] = handler[d]
      BY <1>t, <3>1
    <3>5. QED
      BY <1>t, <3>2, <3>3, <3>4 DEF Bridge
  <2>3. QED
    BY <2>1, <2>2
<1>11. ASSUME NEW c \in Calls,
              \/ Check(c) \/ BackgroundReturns(c) \/ HandlerFails(c) \/ SendReturns(c)
              \/ NodeAccepts(c) \/ NodeRejects(c) \/ ReplyLost(c)
       PROVE  Bridge'
  <2>1. /\ UNCHANGED provePending /\ handler[c] # "prove"
        /\ \E to : handler' = [handler EXCEPT ![c] = to]
    BY <1>11 DEF Check, BackgroundReturns, HandlerFails, SendReturns, NodeAccepts, NodeRejects, ReplyLost,
                 Finish, bridge
  <2>2. QED
    BY <1>3, <2>1
<1>12. CASE Restart \/ RendererGone \/ SilentReload
  BY <1>5, <1>12 DEF Restart, RendererGone, SilentReload, Forget
<1>13. ASSUME NEW p \in proving, NEW v \in BOOLEAN, NativeAnswers(p, v) PROVE Bridge'
  BY <1>1, <1>13 DEF NativeAnswers, web, bridge
<1>14. QED
  BY <1>2, <1>6, <1>7, <1>8, <1>9, <1>10, <1>11, <1>12, <1>13 DEF Outside, WebStep, ExternalStep

\* What a channel holds.
LEMMA Contents ==
  ASSUME TypeOK
  PROVE  /\ \A m \in In(toWeb) : m \in ToWebMessages /\ m.call \in Calls
         /\ \A m \in In(toHost) : m \in ToHostMessages /\ (IsResult(m) => m.call \in Calls)
<1>1. \A m \in In(toWeb) : m \in ToWebMessages
  BY DEF TypeOK, In
<1>2. \A m \in In(toHost) : m \in ToHostMessages
  BY DEF TypeOK, In
<1>3. QED
  BY <1>1, <1>2, MessageFields DEF IsResult

\* A request in the channel has no handler yet; an answer has one that ended.
LEMMA ChannelsStep ==
  ASSUME IInv, Inside \/ Outside
  PROVE  Channels'
<1> USE DEF IInv
<1>t. /\ \A m \in In(toWeb) : m.call \in Calls
      /\ \A m \in In(toHost) : IsResult(m) => m.call \in Calls
  BY Contents
<1>k. \A c \in Calls : kind[c] # "none" => kind'[c] = kind[c]
  BY PromiseFrame, OutsideFrame
<1>1. Once(toWeb')
  BY RequestFrame
<1>2. ASSUME NEW m \in In(toWeb'), IsRpc(m) PROVE kind'[m.call] # "none" /\ handler'[m.call] = "none"
  <2>1. \/ m \in In(toWeb) /\ handler'[m.call] = "none"
        \/ kind'[m.call] # "none" /\ handler'[m.call] = "none"
    BY <1>2, RequestFrame DEF IsRpc, IsAbort
  <2>2. QED
    BY <1>2, <1>t, <1>k, <2>1 DEF Channels
<1>3. ASSUME NEW m \in In(toHost'), IsResult(m) PROVE handler'[m.call] = "finished"
  <2>1. CASE m \in In(toHost)
    <3>1. handler[m.call] = "finished" /\ m.call \in Calls
      BY <1>3, <1>t, <2>1 DEF Channels
    <3>2. UNCHANGED handler \/ handler'[m.call] = handler[m.call]
          \/ Advances(m.call, handler[m.call], handler'[m.call])
      BY <3>1, InsideFrame, HandlerFrame
    <3>3. QED
      BY <3>1, <3>2 DEF Advances, Live
  <2>2. CASE m \notin In(toHost)
    BY <1>3, <2>2, PromiseFrame, HandlerFrame
  <2>3. QED
    BY <2>1, <2>2
<1>4. QED
  BY <1>1, <1>2, <1>3 DEF Channels

\* The node accepts from a handler at its send; a lost reply stays lost.
LEMMA ChainFrame ==
  ASSUME IInv, Inside \/ Outside
  PROVE  /\ lostReply \subseteq lostReply'
         /\ \A tx \in chain' :
              \/ tx \in chain
              \/ tx[1] \in Calls /\ handler[tx[1]] = "send" /\ handler'[tx[1]] = "sent"
<1> DEFINE Sent(tx) == tx[1] \in Calls /\ handler[tx[1]] = "send" /\ handler'[tx[1]] = "sent"
<1>1. ASSUME NEW c \in Calls, NodeAccepts(c)
      PROVE  /\ lostReply' = lostReply /\ handler[c] = "send" /\ handler'[c] = "sent"
             /\ \A tx \in chain' : tx \in chain \/ tx[1] = c
  BY <1>1 DEF IInv, TypeOK, NodeAccepts, history
<1>2. \A c \in Calls : NodeAccepts(c) =>
        lostReply \subseteq lostReply' /\ \A tx \in chain' : tx \in chain \/ Sent(tx)
  BY <1>1
<1> HIDE DEF Sent
<1>3. CASE Inside
  <2>1. UNCHANGED <<chain, lostReply>>
    BY <1>3, InsideFrame
  <2>2. QED
    BY <2>1 DEF Sent
<1>4. CASE Outside /\ \A c \in Calls : ~NodeAccepts(c)
  <2>1. UNCHANGED chain /\ (UNCHANGED lostReply \/ \E c \in Calls : lostReply' = lostReply \cup {c})
    BY <1>4
       DEF Outside, WebStep, ExternalStep, Dispatch, OnAbort, OnProveResult, ProveTimeout, Check,
           BackgroundReturns, HandlerFails, ProveOverBridge, SendReturns, NativeAnswers, NodeRejects,
           ReplyLost, RendererGone, SilentReload, Forget, Restart, history
  <2>2. lostReply \subseteq lostReply'
    BY <2>1
  <2>3. \A tx \in chain' : tx \in chain
    BY <2>1
  <2>4. QED
    BY <2>2, <2>3 DEF Sent
<1>5. QED
  BY <1>2, <1>3, <1>4 DEF Sent

\* What the node accepts is known to the wallet, or the reply was lost.
LEMMA SubmittedStep ==
  ASSUME IInv, Inside \/ Outside
  PROVE  Submitted'
<1> USE DEF IInv
<1>t. /\ \A tx \in chain : tx[1] \in Calls
      /\ \A m \in In(toHost) : IsResult(m) => m.call \in Calls
      /\ sends \in [Calls -> 0..2]
  BY Contents DEF TypeOK, Txs
<1>k. \A c \in Calls : kind[c] # "none" => kind'[c] = kind[c]
  BY PromiseFrame, OutsideFrame
<1>h. \A c \in Calls : handler'[c] = handler[c] \/ (Outside /\ Advances(c, handler[c], handler'[c]))
  BY InsideFrame, HandlerFrame
<1>f. \A c \in Calls : handler[c] = "finished" => handler'[c] = "finished" /\ kind'[c] = kind[c]
  BY <1>h, <1>k DEF Advances, Live, Promises
<1>1. ASSUME NEW tx \in chain'
      PROVE  /\ handler'[tx[1]] # "none"
             /\ kind'[tx[1]] = "single" => handler'[tx[1]] \in {"sent", "finished", "gone"}
  <2>1. CASE tx \in chain
    <3> DEFINE c == tx[1]
    <3>1. /\ c \in Calls /\ handler[c] # "none"
          /\ kind[c] = "single" => handler[c] \in {"sent", "finished", "gone"}
      BY <1>t, <2>1 DEF Submitted
    <3> HIDE DEF c
    <3>2. kind'[c] = kind[c]
      BY <1>k, <3>1 DEF Promises
    <3>3. handler[c] = "sent" /\ kind[c] = "single" => ~(sends[c] < Sends(c))
      BY <1>t, <3>1 DEF Handlers, Sends
    <3>4. handler'[c] # "none" /\ (kind'[c] = "single" => handler'[c] \in {"sent", "finished", "gone"})
      BY <1>h, <3>1, <3>2, <3>3 DEF Advances, Live
    <3>5. QED
      BY <3>4 DEF c
  <2>2. CASE tx \notin chain
    BY <2>2, ChainFrame
  <2>3. QED
    BY <2>1, <2>2
<1>2. ASSUME NEW c \in Calls, handler[c] = "finished", Unsent(c) PROVE Unsent(c)'
  BY <1>2, <1>f, ChainFrame DEF Unsent
<1>3. ASSUME NEW m \in In(toHost'), IsResult(m), m.how # "ok" PROVE Unsent(m.call)'
  <2>1. CASE m \in In(toHost)
    <3>1. m.call \in Calls /\ handler[m.call] = "finished" /\ Unsent(m.call)
      BY <1>3, <1>t, <2>1 DEF Channels, Submitted
    <3>2. QED
      BY <1>2, <3>1
  <2>2. CASE m \notin In(toHost)
    <3> DEFINE c == m.call
    <3>1. /\ c \in Calls /\ handler[c] \notin {"finished", "gone"} /\ handler'[c] = "finished"
          /\ kind[c] # "none" /\ (handler[c] # "sent" \/ c \in lostReply')
      BY <1>3, <2>2, PromiseFrame, HandlerFrame
    <3> HIDE DEF c
    <3>2. <<c, 1>> \in chain' => <<c, 1>> \in chain
      BY <3>1, ChainFrame
    <3>3. kind[c] = "single" /\ <<c, 1>> \in chain => handler[c] \in {"sent", "finished", "gone"}
      <4>1. <<c, 1>>[1] = c
        OBVIOUS
      <4>2. QED
        BY <4>1 DEF Submitted
    <3>4. Unsent(c)'
      BY <1>k, <3>1, <3>2, <3>3 DEF Unsent
    <3>5. QED
      BY <3>4 DEF c
  <2>3. QED
    BY <2>1, <2>2
<1>4. ASSUME NEW c \in Calls, outcome'[c] \in {"error", "aborted"}
      PROVE  handler'[c] = "finished" /\ Unsent(c)'
  <2>1. \/ outcome'[c] = outcome[c]
        \/ \E m \in In(toHost) : IsResult(m) /\ m.call = c /\ m.how = outcome'[c]
    BY <1>4, PromiseFrame, OutsideFrame
  <2>2. handler[c] = "finished" /\ Unsent(c)
    BY <1>4, <2>1 DEF Submitted, Channels
  <2>3. QED
    BY <1>2, <1>f, <2>2
<1>5. QED
  BY <1>1, <1>3, <1>4 DEF Submitted

\* Only what the user cancelled is aborted.
LEMMA CancelsStep ==
  ASSUME IInv, Inside \/ Outside
  PROVE  Cancels'
<1> USE DEF IInv
<1>1. cancelled \subseteq cancelled'
  BY PromiseFrame, OutsideFrame
<1>2. \A m \in In(toWeb') : IsAbort(m) => m.call \in cancelled'
  BY <1>1, RequestFrame DEF Cancels, IsAbort, IsRpc
<1>3. aborted' \subseteq cancelled
  <2>1. CASE Inside
    BY <2>1, InsideFrame DEF Cancels
  <2>2. CASE OnAbort
    BY <2>2, Unwound DEF Cancels
  <2>3. CASE Outside /\ ~OnAbort
    <3>1. UNCHANGED aborted \/ aborted' = {}
      BY <2>3
         DEF Outside, WebStep, ExternalStep, Dispatch, OnProveResult, ProveTimeout, Check,
             BackgroundReturns, HandlerFails, ProveOverBridge, SendReturns, NativeAnswers, NodeAccepts,
             NodeRejects, ReplyLost, RendererGone, SilentReload, Forget, Restart, web
    <3>2. QED
      BY <3>1 DEF Cancels
  <2>4. QED
    BY <2>1, <2>2, <2>3
<1>4. QED
  BY <1>1, <1>2, <1>3 DEF Cancels

-------------------------------------------------------------------------------
(* The flow behind the lock. *)

\* The flow behind the lock is the only one, whatever settles it.
LEMMA LockStep ==
  ASSUME IInv, ~SlowStorage, Inside \/ Outside
  PROVE  Lock'
<1> USE DEF IInv
<1>t. /\ kind \in [Calls -> Kinds \cup {"none"}]
      /\ caller \in [Calls -> {"idle", "waiting", "tracking", "done"}]
      /\ pending = {c \in Calls : caller[c] = "waiting"}
      /\ busy \in Calls \cup {NoCall}
  BY DEF TypeOK, Promises, CallsOrNone
<1>l. /\ phase = "ready" => {c \in Calls : InFlow(c)} = {busy} \ {NoCall}
      /\ phase # "ready" => busy = NoCall /\ \A c \in pending : kind[c] \notin Flows
  BY DEF Exclusive, Lock, OneFlow, Cancellable
<1>1. ASSUME UNCHANGED <<busy, pending, kind>>, phase' = phase \/ (phase' # "ready" /\ phase # "ready"),
             \A c \in Calls : InFlow(c)' <=> InFlow(c)
      PROVE  Lock'
  BY <1>1, <1>l DEF Lock, OneFlow, Cancellable
<1>2. ASSUME UNCHANGED <<phase, kind>>, NEW c \in Calls, InFlow(c), ~InFlow(c)', busy' = NoCall, pending' \subseteq pending,
             \A d \in Calls : d # c => (InFlow(d)' <=> InFlow(d))
      PROVE  Lock'
  <2>1. CASE phase = "ready"
    BY <1>2, <1>l, <2>1 DEF Lock, OneFlow
  <2>2. CASE phase # "ready"
    BY <1>2, <1>l, <2>2 DEF Lock, OneFlow, Cancellable
  <2>3. QED
    BY <2>1, <2>2
<1>3. ASSUME NEW c \in pending, NEW r, Reject({c}, r), FinallyOf({c}), UNCHANGED <<phase, kind>>
      PROVE  Lock'
  <2>1. /\ c \in Calls /\ caller[c] = "waiting"
        /\ \A d \in Calls : caller'[d] = IF d = c THEN "done" ELSE caller[d]
        /\ pending' \subseteq pending
    BY <1>3, <1>l, <1>t DEF Reject
  <2>2. CASE Cancellable(c)
    <3>1. busy' = NoCall
      BY <1>3, <2>2 DEF FinallyOf, Finally
    <3>2. QED
      BY <1>2, <1>3, <2>1, <2>2, <3>1 DEF InFlow, Cancellable
  <2>3. CASE ~Cancellable(c)
    <3>1. busy' = busy
      BY <1>3, <2>3 DEF FinallyOf
    <3>2. \A d \in Calls : InFlow(d)' <=> InFlow(d)
      BY <1>3, <2>1, <2>3 DEF InFlow, Cancellable
    <3>3. QED
      BY <1>3, <1>l, <2>1, <3>1, <3>2 DEF Lock, OneFlow, Cancellable
  <2>4. QED
    BY <2>2, <2>3
<1>4. ASSUME NEW c \in Calls, NEW k \in Flows, StartFlow(c, k) PROVE Lock'
  <2>1. /\ phase = "ready" /\ busy = NoCall /\ busy' = c /\ UNCHANGED phase
        /\ caller[c] = "idle" /\ kind' = [kind EXCEPT ![c] = k] /\ caller' = [caller EXCEPT ![c] = "waiting"]
    BY <1>4 DEF StartFlow, Call
  <2>2. /\ kind'[c] = k /\ caller'[c] = "waiting"
        /\ \A d \in Calls : d # c => kind'[d] = kind[d] /\ caller'[d] = caller[d]
    BY <1>t, <2>1
  <2>3. \A d \in Calls : InFlow(d)' <=> d = c
    BY <1>l, <2>1, <2>2 DEF InFlow, Cancellable
  <2>4. QED
    BY <2>1, <2>3 DEF Lock, OneFlow
<1>5. ASSUME NEW c \in Calls, NEW k \in {"sync", "read"}, StartBackground(c, k) PROVE Lock'
  <2>1. /\ UNCHANGED <<phase, busy>> /\ pending' = pending \cup {c}
        /\ kind[c] = "none" /\ kind' = [kind EXCEPT ![c] = k] /\ caller' = [caller EXCEPT ![c] = "waiting"]
    BY <1>5 DEF StartBackground, Call, Promises
  <2>2. \A d \in Calls : InFlow(d)' <=> InFlow(d)
    BY <1>t, <2>1 DEF InFlow, Cancellable, Flows
  <2>3. \A d \in pending' : (d \in pending /\ kind'[d] = kind[d]) \/ kind'[d] \notin Flows
    BY <1>t, <2>1 DEF Flows
  <2>4. QED
    BY <1>l, <2>1, <2>2, <2>3 DEF Lock, OneFlow, Cancellable
<1>6. CASE Cancel \/ OnProveRequest
  BY <1>1, <1>6 DEF Cancel, OnProveRequest, host, InFlow, Cancellable
<1>7. ASSUME NEW c \in Calls, Timeout(c) PROVE Lock'
  BY <1>3, <1>7 DEF Timeout
<1>8. ASSUME NEW c \in Calls, Track(c) PROVE Lock'
  <2>1. /\ caller[c] = "tracking" /\ Cancellable(c) /\ busy' = NoCall /\ UNCHANGED <<phase, pending, kind>>
        /\ caller' = [caller EXCEPT ![c] = "done"]
    BY <1>8 DEF Track, Promises, Finally
  <2>2. \A d \in Calls : caller'[d] = IF d = c THEN "done" ELSE caller[d]
    BY <1>t, <2>1
  <2>3. QED
    BY <1>2, <2>1, <2>2 DEF InFlow, Cancellable
<1>9. CASE OnRpcResult
  <2> DEFINE c == Head(toHost).call
             how == Head(toHost).how
  <2>1. UNCHANGED <<phase, kind>>
    BY <1>9 DEF OnRpcResult
  <2>2. CASE c \notin pending
    BY <1>1, <1>9, <2>1, <2>2 DEF OnRpcResult, InFlow, Cancellable
  <2>3. CASE c \in pending /\ how # "ok"
    BY <1>3, <1>9, <2>1, <2>3 DEF OnRpcResult
  <2>4. CASE c \in pending /\ how = "ok"
    <3>1. /\ pending' = pending \ {c} /\ UNCHANGED busy
          /\ caller' = [caller EXCEPT ![c] = IF Cancellable(c) THEN "tracking" ELSE "done"]
      BY <1>9, <2>4 DEF OnRpcResult
    <3> HIDE DEF c, how
    <3>2. caller[c] = "waiting"
      BY <1>t, <2>4
    <3>3. \A d \in Calls : InFlow(d)' <=> InFlow(d)
      BY <1>t, <2>1, <3>1, <3>2 DEF InFlow, Cancellable
    <3>4. QED
      BY <1>l, <2>1, <3>1, <3>2, <3>3 DEF Lock, OneFlow, Cancellable
  <2>5. QED
    BY <2>2, <2>3, <2>4
<1>10. CASE OnReady \/ OnCrash
  BY <1>10 DEF OnReady, OnCrash, Reset, Reject, Lock, OneFlow
<1>11. CASE Booted
  <2>1. /\ phase = "boot" /\ \A c \in Calls : caller[c] # "tracking"
        /\ UNCHANGED <<busy, kind, caller>> /\ phase' = "ready"
    BY <1>11 DEF Booted
  <2>2. \A c \in Calls : ~InFlow(c)'
    BY <1>l, <1>t, <2>1 DEF InFlow, Cancellable
  <2>3. QED
    BY <1>l, <2>1, <2>2 DEF Lock, OneFlow
<1>12. CASE Outside
  <2>1. /\ UNCHANGED <<busy, pending, kind, caller>>
        /\ phase' = phase \/ (phase = "crashed" /\ phase' = "webview")
    BY <1>12, OutsideFrame
  <2>2. QED
    BY <1>1, <2>1 DEF InFlow, Cancellable
<1>13. QED
  BY <1>4, <1>5, <1>6, <1>7, <1>8, <1>9, <1>10, <1>11, <1>12 DEF Inside

\* A promise is pending because it was, or because the call is new.
LEMMA StaysPending ==
  ASSUME IInv, Inside \/ Outside, NEW c \in pending'
  PROVE  c \in Calls /\ (c \in pending \/ (caller[c] = "idle" /\ handler[c] = "none" /\ kind[c] = "none"))
<1> USE DEF IInv
<1>1. CASE Inside
  <2>0. Promises'
    BY <1>1, PromiseFrame
  <2>1. c \in Calls /\ outcome'[c] = "none"
    BY ONLY <2>0, c \in pending' DEF Promises
  <2>2. \A m \in In(toHost) : IsResult(m) => m.how # "none"
    BY Contents, MessageFields DEF IsResult
  <2>3. outcome[c] = "none"
    BY <1>1, <2>1, <2>2, PromiseFrame
  <2>4. QED
    BY <2>1, <2>3 DEF Promises
<1>2. CASE Outside
  BY <1>2, OutsideFrame DEF Promises
<1>3. QED
  BY <1>1, <1>2

\* What the document does to the signal: an armed call takes it, an ended one
\* gives it back.
LEMMA SignalFrame ==
  ASSUME IInv, Outside
  PROVE  /\ \/ signal' = signal
            \/ signal \notin Live'
            \/ \E c \in Calls : Begins(c) /\ Cancellable(c) /\ signal' = c
         /\ \A c \in Calls : Begins(c) /\ Cancellable(c) /\ c \in Live' => signal' = c
<1> USE DEF IInv, Outside
<1>t. handler \in [Calls -> {"none", "check", "simulate", "prove", "send", "sent", "finished", "gone"}]
  BY DEF TypeOK
<1> DEFINE Goal ==
      \/ signal' = signal
      \/ signal \notin Live'
      \/ \E c \in Calls : Begins(c) /\ Cancellable(c) /\ signal' = c
<1>1. ASSUME NEW c, NEW how, Finish(c, how) PROVE (signal' = signal \/ signal \notin Live') /\ c \notin Live'
  <2>1. handler' = [handler EXCEPT ![c] = "finished"] /\ signal' = IF signal = c THEN NoCall ELSE signal
    BY <1>1 DEF Finish
  <2>2. c \in Calls => handler'[c] = "finished"
    BY <1>t, <2>1
  <2>3. QED
    BY <2>1, <2>2 DEF Live
<1>2. CASE Dispatch
  <2> DEFINE c == Head(toWeb).call
  <2>1. c \in Calls
    BY <1>2, Taken, MessageFields DEF Dispatch
  <2>2. CASE booted
    BY <1>2, <2>1, <2>2 DEF Dispatch, Begins
  <2>3. CASE ~booted
    <3>1. Finish(c, "error")
      BY <1>2, <2>3 DEF Dispatch
    <3>2. Goal /\ c \notin Live'
      BY <1>1, <3>1
    <3>3. QED
      BY <3>2 DEF Begins
  <2>4. QED
    BY <2>2, <2>3
<1>3. ASSUME ~Dispatch PROVE Goal
  <2>1. CASE OnAbort
    <3> DEFINE d == Head(toWeb).call
               hits == {i \in ProveIds : provePending[i].listens = d}
               unwound == {provePending[i].call : i \in hits}
    <3>1. \/ UNCHANGED signal
          \/ /\ handler' = [c \in Calls |-> IF c \in unwound THEN "finished" ELSE handler[c]]
             /\ signal' = IF signal \in unwound THEN NoCall ELSE signal
      BY <2>1, Unwound
    <3> HIDE DEF unwound
    <3>2. QED
      BY <3>1 DEF Live
  <2>2. CASE OnProveResult
    BY <1>1, <2>2 DEF OnProveResult
  <2>3. ASSUME NEW i \in ProveIds, ProveTimeout(i) PROVE Goal
    BY <1>1, <2>3 DEF ProveTimeout
  <2>4. ASSUME NEW c \in Calls, \/ Check(c) \/ BackgroundReturns(c) \/ HandlerFails(c) \/ ProveOverBridge(c)
                                \/ SendReturns(c) \/ NodeRejects(c) \/ ReplyLost(c)
        PROVE  Goal
    BY <1>1, <2>4 DEF Check, BackgroundReturns, HandlerFails, ProveOverBridge, SendReturns, NodeRejects, ReplyLost
  <2>5. CASE \/ \E c \in Calls : NodeAccepts(c)
             \/ \E p \in proving, v \in BOOLEAN : NativeAnswers(p, v)
    BY <2>5 DEF NodeAccepts, NativeAnswers, web
  <2>6. CASE Restart \/ RendererGone \/ SilentReload
    <3>1. handler' = [c \in Calls |-> IF c \in Live THEN "gone" ELSE handler[c]]
      BY <2>6 DEF Restart, RendererGone, SilentReload, Forget
    <3>2. \A c \in Calls : c \notin Live'
      BY <3>1 DEF Live
    <3>3. QED
      BY <3>2 DEF Live
  <2>7. QED
    BY <1>3, <2>1, <2>2, <2>3, <2>4, <2>5, <2>6 DEF WebStep, ExternalStep
<1>4. QED
  BY <1>2, <1>3 DEF Begins

\* While the page works on the pending flow, the signal is that flow's.
LEMMA CancelReachesFlowStep ==
  ASSUME IInv, ~SlowStorage, Inside \/ Outside
  PROVE  CancelReachesFlow'
<1> USE DEF IInv, Exclusive
<1> SUFFICES ASSUME NEW c \in pending', c \in Live', Cancellable(c)' PROVE signal' = c
  BY DEF CancelReachesFlow
<1>1. c \in Calls /\ (c \in pending \/ (handler[c] = "none" /\ kind[c] = "none"))
  BY StaysPending
<1>2. CASE Inside
  <2>1. UNCHANGED <<handler, signal>> /\ (kind[c] # "none" => kind'[c] = kind[c])
    BY <1>1, <1>2, InsideFrame, PromiseFrame
  <2>2. c \in Live
    BY <2>1 DEF Live
  <2>3. c \in pending /\ kind[c] # "none"
    BY <1>1, <2>2 DEF Live, Promises
  <2>4. QED
    BY <2>1, <2>2, <2>3 DEF CancelReachesFlow, Cancellable
<1>3. CASE Outside
  <2>1. c \in pending /\ Cancellable(c)
    BY <1>3, OutsideFrame DEF Cancellable
  <2>2. CASE Begins(c)
    BY <1>1, <1>3, <2>1, <2>2, SignalFrame
  <2>3. CASE ~Begins(c)
    <3>1. handler'[c] = handler[c] \/ Advances(c, handler[c], handler'[c])
      BY <1>1, <1>3, HandlerFrame
    <3>2. c \in Live
      BY <1>1, <2>3, <3>1 DEF Advances, Live
    <3>3. signal = c
      BY <2>1, <3>2 DEF CancelReachesFlow
    <3>4. ASSUME NEW d \in Calls, Begins(d), Cancellable(d) PROVE FALSE
      <4>1. Head(toWeb) \in In(toWeb) /\ IsRpc(Head(toWeb)) /\ d = Head(toWeb).call
        BY <3>4, Taken DEF Begins, Dispatch, IsRpc
      <4>2. QED
        BY <2>1, <3>2, <3>4, <4>1 DEF LastRequest
    <3>5. QED
      BY <1>3, <3>3, <3>4, SignalFrame
  <2>4. QED
    BY <2>2, <2>3
<1>4. QED
  BY <1>2, <1>3

\* A flow is posted behind a free lock, and after every request before it.
LEMMA LastFrame ==
  ASSUME IInv, Inside \/ Outside
  PROVE  /\ \A k, c :
              /\ Last(toWeb, k, c)
              /\ \A d \in Calls : caller[d] = "idle" /\ caller'[d] = "waiting" =>
                   k[d] \notin Flows \/ \A m \in In(toWeb) : IsRpc(m) => m.call # c
              => Last(toWeb', k, c)
         /\ \A d \in Calls : caller[d] = "idle" /\ caller'[d] = "waiting" /\ kind'[d] \in Flows =>
              phase = "ready" /\ busy = NoCall
<1> USE DEF IInv
<1>t. /\ caller \in [Calls -> {"idle", "waiting", "tracking", "done"}]
      /\ kind \in [Calls -> Kinds \cup {"none"}]
  BY DEF TypeOK
<1> DEFINE Lasts == \A k, c :
             /\ Last(toWeb, k, c)
             /\ \A d \in Calls : caller[d] = "idle" /\ caller'[d] = "waiting" =>
                  k[d] \notin Flows \/ \A m \in In(toWeb) : IsRpc(m) => m.call # c
             => Last(toWeb', k, c)
           Behind == \A d \in Calls : caller[d] = "idle" /\ caller'[d] = "waiting" /\ kind'[d] \in Flows =>
             phase = "ready" /\ busy = NoCall
<1>1. ASSUME NEW c \in Calls, NEW k, Call(c, k), k \in Flows => phase = "ready" /\ busy = NoCall
      PROVE  Lasts /\ Behind
  <2> DEFINE n == [type |-> "rpc", call |-> c]
  <2>1. /\ n \in ToWebMessages /\ Post(n) /\ n.call = c
        /\ caller[c] = "idle" /\ caller'[c] = "waiting" /\ kind'[c] = k
        /\ \A d \in Calls : d # c => caller'[d] = caller[d]
    <3>1. n \in ToWebMessages /\ n.call = c
      BY MessageFields
    <3>2. QED
      BY <1>1, <1>t, <3>1 DEF Call
  <2> HIDE DEF n
  <2>2. Lasts
    <3>1. \A l, d : /\ Last(toWeb, l, d)
                    /\ \/ ~(IsRpc(n) /\ l[n.call] \in Flows)
                       \/ \A m \in In(toWeb) : IsRpc(m) => m.call # d
                    => Last(toWeb', l, d)
      BY <2>1, Posted
    <3>2. QED
      BY <2>1, <3>1
  <2>3. Behind
    BY <1>1, <2>1
  <2>4. QED
    BY <2>2, <2>3
<1>2. ASSUME \A d \in Calls : caller[d] = "idle" => caller'[d] # "waiting" PROVE Behind
  BY <1>2
<1>3. ASSUME UNCHANGED toWeb PROVE Lasts
  BY <1>3
<1>4. ASSUME NEW m \in ToWebMessages, Post(m), ~IsRpc(m) PROVE Lasts
  <2>1. \A k, c : Last(toWeb, k, c) => Last(toWeb', k, c)
    BY <1>4, Posted
  <2>2. QED
    BY <2>1
<1>5. CASE Inside
  <2>1. CASE \E c \in Calls, k \in Flows : StartFlow(c, k)
    BY <1>1, <2>1 DEF StartFlow
  <2>2. CASE \E c \in Calls, k \in {"sync", "read"} : StartBackground(c, k)
    BY <1>1, <2>2 DEF StartBackground, Flows
  <2>3. CASE Cancel
    <3>1. activeCall \in Calls /\ Post([type |-> "abort", call |-> activeCall]) /\ UNCHANGED caller
      BY <2>3 DEF Cancel, TypeOK, CallsOrNone, host
    <3>2. [type |-> "abort", call |-> activeCall] \in ToWebMessages /\ ~IsRpc([type |-> "abort", call |-> activeCall])
      BY <3>1, MessageFields DEF IsRpc
    <3>3. Lasts
      BY <1>4, <3>1, <3>2
    <3>4. QED
      BY <1>2, <3>1, <3>3
  <2>4. CASE \/ \E c \in Calls : Timeout(c) \/ Track(c)
             \/ OnRpcResult \/ OnProveRequest \/ OnReady \/ OnCrash \/ Booted
    <3>1. UNCHANGED toWeb
      BY <2>4 DEF Timeout, Track, OnRpcResult, OnProveRequest, OnReady, OnCrash, Booted
    <3>2. \A d \in Calls : caller'[d] \in {caller[d], "tracking", "done"}
      <4>1. ASSUME NEW S, NEW r, Reject(S, r) PROVE \A d \in Calls : caller'[d] \in {caller[d], "done"}
        BY <4>1 DEF Reject
      <4>2. CASE OnRpcResult
        BY <1>t, <4>1, <4>2 DEF OnRpcResult
      <4>3. CASE \E c \in Calls : Timeout(c) \/ Track(c)
        BY <1>t, <4>1, <4>3 DEF Timeout, Track
      <4>4. CASE OnProveRequest \/ Booted
        BY <4>4 DEF OnProveRequest, Booted, host
      <4>5. CASE OnReady \/ OnCrash
        BY <4>1, <4>5 DEF OnReady, OnCrash, Reset
      <4>6. QED
        BY <2>4, <4>2, <4>3, <4>4, <4>5
    <3>3. QED
      BY <1>2, <1>3, <3>1, <3>2
  <2>5. QED
    BY <1>5, <2>1, <2>2, <2>3, <2>4 DEF Inside
<1>6. CASE Outside
  <2>1. UNCHANGED caller
    BY <1>6, OutsideFrame
  <2>2. ASSUME NEW type, Incoming(type) PROVE Lasts
    BY <2>2, Taken
  <2>3. ASSUME toWeb' = <<>> PROVE Lasts
    BY <2>3 DEF Last
  <2>4. ASSUME NEW p \in proving, NEW v \in BOOLEAN, NativeAnswers(p, v) PROVE Lasts
    <3> DEFINE n == [type |-> "proveResult", id |-> p.id, call |-> p.call, verified |-> v]
    <3>1. p.id \in ProveIds /\ p.call \in Calls
      BY DEF TypeOK
    <3>4. n \in ToWebMessages /\ ~IsRpc(n)
      BY <3>1, MessageFields DEF IsRpc
    <3>2. n \in ToWebMessages /\ Post(n) /\ ~IsRpc(n)
      BY <2>4, <3>4 DEF NativeAnswers
    <3> HIDE DEF n
    <3>3. QED
      BY <1>4, <3>2
  <2>5. ASSUME UNCHANGED toWeb PROVE Lasts
    BY <1>3, <2>5
  <2>6. Lasts
    BY <1>6, <2>2, <2>3, <2>4, <2>5
       DEF Outside, WebStep, ExternalStep, Dispatch, OnAbort, OnProveResult, ProveTimeout, Check,
           BackgroundReturns, HandlerFails, ProveOverBridge, SendReturns, NodeAccepts, NodeRejects,
           ReplyLost, RendererGone, SilentReload, Forget, Restart
  <2>7. QED
    BY <1>2, <2>1, <2>6
<1>7. QED
  BY <1>5, <1>6

\* No other flow posts while one is pending.
LEMMA LastRequestStep ==
  ASSUME IInv, ~SlowStorage, Inside \/ Outside
  PROVE  LastRequest'
<1> USE DEF IInv, Exclusive
<1> SUFFICES ASSUME NEW c \in pending', Cancellable(c)'
             PROVE  /\ c \in Live' => \A m \in In(toWeb') : IsRpc(m) => ~Cancellable(m.call)'
                    /\ Last(toWeb', kind', c)
  BY DEF LastRequest
<1>1. c \in Calls /\ (c \in pending \/ (caller[c] = "idle" /\ handler[c] = "none" /\ kind[c] = "none"))
  BY StaysPending
<1>2. \A m \in In(toWeb) : m.call \in Calls /\ (IsRpc(m) => kind[m.call] # "none" /\ kind'[m.call] = kind[m.call])
  <2>1. \A d \in Calls : kind[d] # "none" => kind'[d] = kind[d]
    BY PromiseFrame, OutsideFrame
  <2>2. QED
    BY <2>1, Contents DEF Channels
<1>3. CASE c \in pending
  <2>1. Cancellable(c) /\ kind[c] # "none"
    <3>1. kind[c] # "none"
      BY <1>1, <1>3 DEF Promises
    <3>2. QED
      BY <1>1, <3>1, PromiseFrame, OutsideFrame DEF Cancellable
  <2>2. ~(phase = "ready" /\ busy = NoCall)
    BY <1>1, <1>3, <2>1 DEF Lock, OneFlow, InFlow, Promises
  <2>3. \A d \in Calls : caller[d] = "idle" /\ caller'[d] = "waiting" => kind'[d] \notin Flows
    BY <2>2, LastFrame
  <2>4. Last(toWeb', kind', c)
    <3>1. Last(toWeb, kind, c)
      BY <1>3, <2>1 DEF LastRequest
    <3>2. \A i \in 1..Len(toWeb) : toWeb[i] \in In(toWeb)
      BY DEF In
    <3>3. Last(toWeb, kind', c)
      BY <1>2, <3>1, <3>2 DEF Last
    <3>4. QED
      BY <2>3, <3>3, LastFrame
  <2>5. ASSUME c \in Live', NEW m \in In(toWeb'), IsRpc(m) PROVE ~Cancellable(m.call)'
    <3>1. CASE m \notin In(toWeb)
      <4>1. /\ m.call \in Calls /\ caller[m.call] = "idle" /\ caller'[m.call] = "waiting"
        BY <2>5, <3>1, RequestFrame DEF IsRpc, IsAbort
      <4>2. QED
        BY <2>3, <4>1 DEF Cancellable
    <3>2. CASE m \in In(toWeb) /\ c \in Live
      BY <1>2, <1>3, <2>1, <2>5, <3>2 DEF LastRequest, Cancellable
    <3>3. CASE m \in In(toWeb) /\ c \notin Live
      <4>1. Outside
        BY <2>5, <3>3, InsideFrame DEF Live
      <4>2. Begins(c)
        <5>1. handler'[c] = handler[c] \/ Advances(c, handler[c], handler'[c])
          BY <1>1, <4>1, HandlerFrame
        <5>2. QED
          BY <1>1, <2>5, <3>3, <5>1 DEF Advances, Live
      <4>3. kind[m.call] \notin Flows
        <5>1. Incoming("rpc") /\ Head(toWeb).call = c /\ Last(toWeb, kind, c)
          BY <1>3, <2>1, <4>2 DEF Begins, Dispatch, LastRequest
        <5>2. QED
          BY <2>5, <5>1, Taken
      <4>4. QED
        BY <1>2, <2>5, <3>3, <4>3 DEF Cancellable
    <3>4. QED
      BY <3>1, <3>2, <3>3
  <2>6. QED
    BY <2>4, <2>5
<1>4. CASE caller[c] = "idle" /\ handler[c] = "none" /\ kind[c] = "none"
  <2>1. \A m \in In(toWeb) : IsRpc(m) => m.call # c
    BY <1>4 DEF Channels
  <2>2. \A i \in 1..Len(toWeb) : toWeb[i] \in In(toWeb)
    BY DEF In
  <2>3. Last(toWeb, kind', c)
    BY <2>1, <2>2 DEF Last
  <2>4. Last(toWeb', kind', c)
    BY <2>1, <2>3, LastFrame
  <2>5. c \notin Live'
    <3>1. ~Begins(c)
      BY <2>1, Taken DEF Begins, Dispatch, IsRpc
    <3>2. handler'[c] = "none"
      BY <1>1, <1>4, <3>1, InsideFrame, HandlerFrame DEF Advances, Live
    <3>3. QED
      BY <3>2 DEF Live
  <2>6. QED
    BY <2>4, <2>5
<1>5. QED
  BY <1>1, <1>3, <1>4

\* A prove listens to the signal of the flow that asked for it.
LEMMA OwnAbortsStep ==
  ASSUME IInv, ~SlowStorage, Inside \/ Outside
  PROVE  OwnAborts'
<1> USE DEF IInv, Exclusive
<1>p. \A c \in pending' : c \in Calls /\ (c \in pending \/ (handler[c] = "none" /\ kind[c] = "none"))
  BY StaysPending
<1>1. ASSUME NEW i \in ProveIds, provePending'[i].call \in pending'
      PROVE  provePending'[i].listens = provePending'[i].call
  <2>1. CASE provePending'[i] = provePending[i]
    <3>1. provePending[i].call \in Calls /\ provePending[i].call # NoCall
      BY <1>1, <1>p, <2>1
    <3>2. handler[provePending[i].call] = "prove"
      BY <3>1 DEF Bridge
    <3>3. provePending[i].call \in pending
      BY <1>1, <1>p, <2>1, <3>2
    <3>4. QED
      BY <2>1, <3>3 DEF OwnAborts
  <2>2. ASSUME NEW c \in Calls, ProveOverBridge(c), provePending'[i] # provePending[i]
        PROVE  provePending'[i].listens = provePending'[i].call
    <3>1. /\ handler[c] = "simulate" /\ provePending'[i].call = c /\ provePending'[i].listens = signal
      BY <2>2 DEF ProveOverBridge, bridge, TypeOK
    <3>2. c \in pending
      BY <1>1, <1>p, <3>1
    <3>3. signal = c
      BY <3>1, <3>2 DEF CancelReachesFlow, Live, Handlers
    <3>4. QED
      BY <3>1, <3>3
  <2>3. CASE /\ provePending'[i] # provePending[i] /\ \A c \in Calls : ~ProveOverBridge(c)
    <3>1. Outside
      BY <2>3, InsideFrame DEF bridge
    <3>2. provePending'[i] = NoProve
      <4>1. CASE OnAbort
        <5> DEFINE hits == {j \in ProveIds : provePending[j].listens = Head(toWeb).call}
        <5>1. \/ UNCHANGED provePending
              \/ provePending' = [j \in ProveIds |-> IF j \in hits THEN NoProve ELSE provePending[j]]
          BY <4>1 DEF OnAbort
        <5> HIDE DEF hits
        <5>2. QED
          BY <2>3, <5>1
      <4>2. CASE OnProveResult \/ \E j \in ProveIds : ProveTimeout(j)
        <5>1. \/ UNCHANGED provePending
              \/ \E j : provePending' = [provePending EXCEPT ![j] = NoProve]
          BY <4>2 DEF OnProveResult, ProveTimeout
        <5>2. QED
          BY <2>3, <5>1 DEF TypeOK
      <4>3. CASE Restart \/ RendererGone \/ SilentReload
        BY <4>3 DEF Restart, RendererGone, SilentReload, Forget
      <4>4. CASE \/ Dispatch
                 \/ \E c \in Calls : \/ Check(c) \/ BackgroundReturns(c) \/ HandlerFails(c) \/ SendReturns(c)
                                     \/ NodeAccepts(c) \/ NodeRejects(c) \/ ReplyLost(c)
                 \/ \E p \in proving, v \in BOOLEAN : NativeAnswers(p, v)
        BY <2>3, <4>4
           DEF Dispatch, Check, BackgroundReturns, HandlerFails, SendReturns, NodeAccepts, NodeRejects,
               ReplyLost, NativeAnswers, web, bridge
      <4>5. QED
        BY <2>3, <3>1, <4>1, <4>2, <4>3, <4>4 DEF Outside, WebStep, ExternalStep
    <3>3. QED
      BY <1>1, <1>p, <3>2 DEF NoProve
  <2>4. QED
    BY <2>1, <2>2, <2>3
<1>2. ASSUME NEW m \in In(toHost'), IsResult(m), m.how = "aborted", m.call \in pending'
      PROVE  m.call \in cancelled'
  <2>1. m.call \in pending
    <3>1. \/ m \in In(toHost) /\ handler[m.call] = "finished"
          \/ kind[m.call] # "none"
      BY <1>2, PromiseFrame, HandlerFrame DEF Channels
    <3>2. QED
      BY <1>2, <1>p, <3>1
  <2>2. m.call \in cancelled
    BY <1>2, <2>1, PromiseFrame, HandlerFrame DEF OwnAborts
  <2>3. QED
    BY <2>2, PromiseFrame, OutsideFrame
<1>3. QED
  BY <1>1, <1>2 DEF OwnAborts

\* The answer "aborted" settles only what was cancelled.
LEMMA OnlyCancelledAbortsStep ==
  ASSUME IInv, ~SlowStorage, Inside \/ Outside
  PROVE  OnlyCancelledAborts'
<1> USE DEF IInv, Exclusive
<1> SUFFICES ASSUME NEW c \in Calls, outcome'[c] = "aborted" PROVE c \in cancelled'
  BY DEF OnlyCancelledAborts
<1>1. \/ outcome[c] = "aborted"
      \/ \E m \in In(toHost) : IsResult(m) /\ m.call = c /\ m.how = "aborted" /\ c \in pending
  BY PromiseFrame, OutsideFrame
<1>2. c \in cancelled
  BY <1>1 DEF OnlyCancelledAborts, OwnAborts
<1>3. QED
  BY <1>2, PromiseFrame, OutsideFrame

-------------------------------------------------------------------------------
(* Theorems. *)

\* The parts together: every step keeps the invariant.
LEMMA InvariantStep == IInv /\ [Next]_vars => IInv'
<1> SUFFICES ASSUME IInv, [Next]_vars PROVE IInv'
  OBVIOUS
<1>1. TypeOK'
  BY TypeStep
<1>2. CASE Inside \/ Outside
  <2>1. Promises' /\ Handlers' /\ Bridge' /\ Channels' /\ Submitted' /\ Cancels'
    BY <1>2, PromisesStep, HandlersStep, BridgeStep, ChannelsStep, SubmittedStep, CancelsStep
  <2>2. ~SlowStorage => Exclusive'
    BY <1>2, LockStep, CancelReachesFlowStep, LastRequestStep, OwnAbortsStep, OnlyCancelledAbortsStep
       DEF Exclusive
  <2>3. QED
    BY <1>1, <2>1, <2>2 DEF IInv
<1>3. CASE UNCHANGED vars
  <2> USE <1>3 DEF vars, host, page, bridge, web, history
  <2>1. Promises' /\ Handlers' /\ Bridge' /\ Channels' /\ Submitted' /\ Cancels'
    BY DEF IInv, Promises, Handlers, Bridge, Channels, Submitted, Cancels, Unsent, Cancellable, Sends
  <2>2. ~SlowStorage => Exclusive'
    BY DEF IInv, Exclusive, Lock, OneFlow, InFlow, CancelReachesFlow, LastRequest, OwnAborts,
           OnlyCancelledAborts, Live, Cancellable
  <2>3. QED
    BY <1>1, <2>1, <2>2 DEF IInv
<1>4. QED
  BY <1>2, <1>3, StepKinds

\* The invariant that the theorems below are read off.
LEMMA Inductive == Spec => []IInv
<1>1. Init => IInv
  BY InitIInv
<1>2. IInv /\ [Next]_vars => IInv'
  BY InvariantStep
<1>3. QED
  BY <1>1, <1>2, PTL DEF Spec

\* Type correctness of RN, the WebView and the channels between them.
THEOREM Typing == Spec => []TypeOK
<1>1. IInv => TypeOK
  BY DEF IInv
<1>2. QED
  BY <1>1, Inductive, PTL

\* A cancel, a failure or an abort that overtakes the send never makes the
\* wallet forget a transaction that the node accepted from it: only a lost
\* reply, a timeout or the death of the page does.
THEOREM NothingForgotten == Spec => []NoForgottenTx
<1>1. IInv => NoForgottenTx
  BY DEF IInv, TypeOK, Promises, Submitted, Unsent, NoForgottenTx, Cancellable, Flows
<1>2. QED
  BY <1>1, Inductive, PTL

\* The busy lock admits one flow, if the flow's storage writes end before the
\* page has booted again (the code has no guard for the other case).
THEOREM LockIsExclusive ==
  ASSUME ~SlowStorage
  PROVE  Spec => []OneFlow
<1>1. IInv => OneFlow
  BY DEF IInv, Exclusive, Lock
<1>2. QED
  BY <1>1, Inductive, PTL

\* So the one abort signal of the page is the signal of the flow on the screen ...
THEOREM CancelReaches ==
  ASSUME ~SlowStorage
  PROVE  Spec => []CancelReachesFlow
<1>1. IInv => CancelReachesFlow
  BY DEF IInv, Exclusive
<1>2. QED
  BY <1>1, Inductive, PTL

\* ... and no flow is reported as cancelled that its user did not cancel.
THEOREM AbortsAreCancels ==
  ASSUME ~SlowStorage
  PROVE  Spec => []OnlyCancelledAborts
<1>1. IInv => OnlyCancelledAborts
  BY DEF IInv, Exclusive
<1>2. QED
  BY <1>1, Inductive, PTL
================================================================================
