----------------------------- MODULE NativeProver -----------------------------
(***************************************************************************)
(* The native prover: the JNI entry points of crates/noir-prover-jni,      *)
(* which ProverModule.kt calls each on a thread of its own, the global     *)
(* PROVER mutex with its poisoning, the cooperative abort flag, and the    *)
(* ClientIVC flow of crates/noir-prover that runs under the mutex.         *)
(*                                                                         *)
(* A member of Calls is one call and the thread that serves it.            *)
(***************************************************************************)
EXTENDS Naturals

CONSTANTS
  Calls,        \* the calls the host makes
  NoCall,       \* stands for "no call"
  MaxCircuits   \* bound on the circuits of one flow

ASSUME NoCallAssumption == NoCall \notin Calls
ASSUME MaxCircuitsAssumption == MaxCircuits \in Nat \ {0}

VARIABLES
  kind,        \* the entry point each call invoked, "none" before it is made
  pc,          \* where the thread of each call stands
  result,      \* what each call returned
  owner,       \* the call that holds the PROVER mutex
  poisoned,    \* a thread panicked while it held PROVER
  prover,      \* PROVER holds Some(NoirProver)
  lastProof,   \* LAST_PROOF holds Some(StoredProof)
  abortFlag,   \* ABORT_REQUESTED
  circuits,    \* the steps of each call's flow
  done,        \* the steps each call's loop has been through
  bb,          \* barretenberg's global ClientIVC state: whose flow, circuits in it
  aim          \* the prove an abort request was meant for (what the user saw running)

hostVars == <<kind, aim>>
stored == <<prover, lastProof>>
flow == <<circuits, done, bb>>

vars == <<hostVars, pc, result, owner, poisoned, stored, abortFlag, flow>>

Kinds == {"initSrs", "chonkProve", "requestAbort", "prove", "verifyLast", "blake2s"}

\* Inside chonkProve's critical section, after the flag was cleared.
FlowPcs == {"begin", "boundary", "accumulate", "final"}

\* Holding the guard of PROVER.
GuardPcs == FlowPcs \cup {"clear", "ultrahonk"}

\* Inside a foreign call that reaches barretenberg's global state.
BbPcs == {"srs", "accumulate", "final", "ultrahonk", "blake2s"}

Pcs == {"idle", "storeProver", "lock", "setFlag", "returned"} \cup GuardPcs \cup BbPcs

Results == {"none", "ok", "proof", "aborted", "error"}

Init ==
  /\ kind = [c \in Calls |-> "none"]
  /\ pc = [c \in Calls |-> "idle"]
  /\ result = [c \in Calls |-> "none"]
  /\ owner = NoCall
  /\ poisoned = FALSE
  /\ prover = FALSE
  /\ lastProof = FALSE
  /\ abortFlag = FALSE
  /\ circuits = [c \in Calls |-> 0]
  /\ done = [c \in Calls |-> 0]
  /\ bb = [flow |-> NoCall, acc |-> 0]
  /\ aim = [c \in Calls |-> NoCall]

-------------------------------------------------------------------------------
(* The host's side: each call starts a thread at its entry point. *)

Enter(c, k, at) ==
  /\ pc[c] = "idle"
  /\ kind' = [kind EXCEPT ![c] = k]
  /\ pc' = [pc EXCEPT ![c] = at]
  /\ UNCHANGED <<result, owner, poisoned, abortFlag, stored, flow>>

Return(c, r) ==
  /\ pc' = [pc EXCEPT ![c] = "returned"]
  /\ result' = [result EXCEPT ![c] = r]

CallInitSrs(c) == Enter(c, "initSrs", "srs") /\ UNCHANGED aim

\* Mutant: the flag is cleared before the mutex is taken.
CallChonkProveClearing(c) ==
  /\ pc[c] = "idle"
  /\ kind' = [kind EXCEPT ![c] = "chonkProve"]
  /\ pc' = [pc EXCEPT ![c] = "lock"]
  /\ abortFlag' = FALSE
  /\ UNCHANGED <<aim, result, owner, poisoned, stored, flow>>

CallChonkProve(c) == Enter(c, "chonkProve", "lock") /\ UNCHANGED aim
CallProve(c) == Enter(c, "prove", "lock") /\ UNCHANGED aim
CallVerifyLast(c) == Enter(c, "verifyLast", "lock") /\ UNCHANGED aim
CallBlake2s(c) == Enter(c, "blake2s", "blake2s") /\ UNCHANGED aim

\* Base64 that does not decode, or an argument JNI cannot convert: the call fails
\* before it comes to the mutex.
CallUnreadable(c) ==
  /\ pc[c] = "idle"
  /\ \E k \in {"chonkProve", "prove"} : kind' = [kind EXCEPT ![c] = k]
  /\ Return(c, "error")
  /\ UNCHANGED <<aim, owner, poisoned, abortFlag, stored, flow>>

InFlight(t) == kind[t] = "chonkProve" /\ pc[t] # "returned"

\* The user cancels: the flow shown has prove t in flight, or is in a JS phase.
CallRequestAbort(c, t) ==
  /\ Enter(c, "requestAbort", "setFlag")
  /\ t # NoCall => InFlight(t)
  /\ aim' = [aim EXCEPT ![c] = t]

-------------------------------------------------------------------------------
(* The threads. *)

Step(c, from, to) == pc[c] = from /\ pc' = [pc EXCEPT ![c] = to]

\* A return from inside the critical section drops the guard.
ReturnUnlocking(c, r) == Return(c, r) /\ owner' = NoCall

\* The barretenberg calls of initSrs come before it takes the mutex.
SrsLoaded(c) ==
  /\ Step(c, "srs", "storeProver")
  /\ UNCHANGED <<hostVars, result, owner, poisoned, abortFlag, stored, flow>>

\* A buffer of the wrong size, or an error or panic of barretenberg: no guard is held.
SrsFails(c) ==
  /\ pc[c] = "srs"
  /\ Return(c, "error")
  /\ UNCHANGED <<hostVars, owner, poisoned, abortFlag, stored, flow>>

\* *PROVER.lock().unwrap() = Some(prover): the guard is dropped with the statement.
StoreProver(c) ==
  /\ pc[c] = "storeProver"
  /\ owner = NoCall
  /\ ~poisoned
  /\ prover' = TRUE
  /\ Return(c, "ok")
  /\ UNCHANGED <<hostVars, owner, poisoned, lastProof, abortFlag, flow>>

\* Mutant: the prover is used without waiting for the mutex.
LockProverFree(c) ==
  /\ ~poisoned
  /\ Step(c, "lock", IF kind[c] = "chonkProve" THEN "clear" ELSE "ultrahonk")
  /\ owner' = c
  /\ UNCHANGED <<hostVars, result, poisoned, abortFlag, stored, flow>>

LockProver(c) ==
  /\ owner = NoCall
  /\ ~poisoned
  /\ Step(c, "lock", IF kind[c] = "chonkProve" THEN "clear" ELSE "ultrahonk")
  /\ owner' = c
  /\ UNCHANGED <<hostVars, result, poisoned, abortFlag, stored, flow>>

\* lock() on a poisoned mutex is an Err: unwrap panics, catch_unwind reports it.
LockPoisoned(c) ==
  /\ pc[c] \in {"lock", "storeProver"}
  /\ owner = NoCall
  /\ poisoned
  /\ Return(c, "error")
  /\ UNCHANGED <<hostVars, owner, poisoned, abortFlag, stored, flow>>

ClearAbort(c) ==
  /\ Step(c, "clear", "begin")
  /\ abortFlag' = FALSE
  /\ UNCHANGED <<hostVars, result, owner, poisoned, stored, flow>>

\* chonk_start with n circuits.
BeginFlow(c, n) ==
  /\ prover
  /\ Step(c, "begin", "boundary")
  /\ circuits' = [circuits EXCEPT ![c] = n]
  /\ done' = [done EXCEPT ![c] = 0]
  /\ bb' = [flow |-> c, acc |-> 0]
  /\ UNCHANGED <<hostVars, result, owner, poisoned, abortFlag, stored>>

\* No prover stored yet, inputs that do not parse, or no steps.
BeginFails(c) ==
  /\ pc[c] = "begin"
  /\ ReturnUnlocking(c, "error")
  /\ UNCHANGED <<hostVars, poisoned, abortFlag, stored, flow>>

\* The cancel point before each circuit and before the final prove.
CheckAbort(c) ==
  /\ pc[c] = "boundary"
  /\ abortFlag
  /\ ReturnUnlocking(c, "aborted")
  /\ UNCHANGED <<hostVars, poisoned, abortFlag, stored, flow>>

\* Mutant: one circuit too many.
ProceedPastEnd(c) ==
  /\ ~abortFlag
  /\ Step(c, "boundary", IF done[c] <= circuits[c] THEN "accumulate" ELSE "final")
  /\ UNCHANGED <<hostVars, result, owner, poisoned, abortFlag, stored, flow>>

Proceed(c) ==
  /\ ~abortFlag
  /\ Step(c, "boundary", IF done[c] < circuits[c] THEN "accumulate" ELSE "final")
  /\ UNCHANGED <<hostVars, result, owner, poisoned, abortFlag, stored, flow>>

\* chonk_load and chonk_accumulate of the next circuit.
Accumulate(c) ==
  /\ Step(c, "accumulate", "boundary")
  /\ done' = [done EXCEPT ![c] = @ + 1]
  /\ bb' = [bb EXCEPT !.acc = @ + 1]
  /\ UNCHANGED <<hostVars, result, owner, poisoned, abortFlag, circuits, stored>>

\* chonk_prove, chonk_compute_vk and chonk_verify.
FinalProve(c) ==
  /\ pc[c] = "final"
  /\ ReturnUnlocking(c, "proof")
  /\ UNCHANGED <<hostVars, poisoned, abortFlag, stored, flow>>

\* An error of barretenberg in the flow unwinds it with `?`.
FlowFails(c) ==
  /\ pc[c] \in {"accumulate", "final"}
  /\ ReturnUnlocking(c, "error")
  /\ UNCHANGED <<hostVars, poisoned, abortFlag, stored, flow>>

\* UltraHonk prove: the proof is kept for verifyLast.
UltraHonkProve(c) ==
  /\ kind[c] = "prove"
  /\ pc[c] = "ultrahonk"
  /\ prover
  /\ lastProof' = TRUE
  /\ ReturnUnlocking(c, "ok")
  /\ UNCHANGED <<hostVars, poisoned, prover, abortFlag, flow>>

UltraHonkVerifyLast(c) ==
  /\ kind[c] = "verifyLast"
  /\ pc[c] = "ultrahonk"
  /\ prover
  /\ lastProof
  /\ ReturnUnlocking(c, "ok")
  /\ UNCHANGED <<hostVars, poisoned, abortFlag, stored, flow>>

UltraHonkFails(c) ==
  /\ pc[c] = "ultrahonk"
  /\ ReturnUnlocking(c, "error")
  /\ UNCHANGED <<hostVars, poisoned, abortFlag, stored, flow>>

\* Mutant: the unwinding thread never gives the mutex up.
PanicHolding(c) ==
  /\ owner = c
  /\ pc[c] \in GuardPcs
  /\ poisoned' = TRUE
  /\ Return(c, "error")
  /\ UNCHANGED <<hostVars, owner, abortFlag, stored, flow>>

\* A panic under the guard: catch_unwind turns it into an exception for the
\* caller, and the guard, dropped while unwinding, poisons the mutex.
Panic(c) ==
  /\ owner = c
  /\ pc[c] \in GuardPcs
  /\ poisoned' = TRUE
  /\ ReturnUnlocking(c, "error")
  /\ UNCHANGED <<hostVars, abortFlag, stored, flow>>

SetAbort(c) ==
  /\ pc[c] = "setFlag"
  /\ abortFlag' = TRUE
  /\ Return(c, "ok")
  /\ UNCHANGED <<hostVars, owner, poisoned, stored, flow>>

Blake2sReturns(c) ==
  /\ pc[c] = "blake2s"
  /\ \E r \in {"ok", "error"} : Return(c, r)
  /\ UNCHANGED <<hostVars, owner, poisoned, abortFlag, stored, flow>>

-------------------------------------------------------------------------------

HostStep(c) ==
  \/ CallInitSrs(c)
  \/ CallChonkProve(c)
  \/ CallProve(c)
  \/ CallVerifyLast(c)
  \/ CallBlake2s(c)
  \/ CallUnreadable(c)
  \/ \E t \in Calls \cup {NoCall} : CallRequestAbort(c, t)

ThreadStep(c) ==
  \/ SrsLoaded(c)
  \/ SrsFails(c)
  \/ StoreProver(c)
  \/ LockProver(c)
  \/ LockPoisoned(c)
  \/ ClearAbort(c)
  \/ \E n \in 1..MaxCircuits : BeginFlow(c, n)
  \/ BeginFails(c)
  \/ CheckAbort(c)
  \/ Proceed(c)
  \/ Accumulate(c)
  \/ FinalProve(c)
  \/ FlowFails(c)
  \/ UltraHonkProve(c)
  \/ UltraHonkVerifyLast(c)
  \/ UltraHonkFails(c)
  \/ Panic(c)
  \/ SetAbort(c)
  \/ Blake2sReturns(c)

Next == \E c \in Calls : HostStep(c) \/ ThreadStep(c)

Spec == Init /\ [][Next]_vars

\* The operating system runs every thread, and every foreign call returns; the
\* host is never obliged to call.
FairSpec == Spec /\ \A c \in Calls : WF_vars(ThreadStep(c))

-------------------------------------------------------------------------------
(* Properties. *)

\* Type correctness; the loop of chonk_prove_flow never passes its last step.
TypeOK ==
  /\ kind \in [Calls -> Kinds \cup {"none"}]
  /\ pc \in [Calls -> Pcs]
  /\ result \in [Calls -> Results]
  /\ owner \in Calls \cup {NoCall}
  /\ poisoned \in BOOLEAN
  /\ prover \in BOOLEAN
  /\ lastProof \in BOOLEAN
  /\ abortFlag \in BOOLEAN
  /\ circuits \in [Calls -> 0..MaxCircuits]
  /\ done \in [Calls -> 0..MaxCircuits]
  /\ bb \in [flow : Calls \cup {NoCall}, acc : 0..MaxCircuits]
  /\ aim \in [Calls -> Calls \cup {NoCall}]

\* The ClientIVC state that barretenberg keeps in globals between the commands
\* of one flow is that flow's own, whatever aborted, failed or panicked before
\* it and whoever waits beside it: no circuit of another call is ever in it, and
\* the final prove runs over exactly the circuits of its call.
FlowIntact ==
  \A c \in Calls :
    /\ pc[c] \in {"boundary", "accumulate", "final"} => bb = [flow |-> c, acc |-> done[c]]
    /\ pc[c] = "final" => done[c] = circuits[c]

\* The abstract prover this one implements: the flow that runs is the one that
\* holds the mutex past clear_abort, and it is committed in its final step.
Running == IF owner # NoCall /\ pc[owner] \in FlowPcs THEN owner ELSE NoCall
Committed == Running # NoCall /\ pc[Running] = "final"

Asked == Running # NoCall /\ ~Committed /\ abortFlag
Outcome == [c \in Calls |-> IF kind[c] = "chonkProve" THEN result[c] ELSE "none"]

Serial == INSTANCE SerialProver WITH
  running <- Running, asked <- Asked, committed <- Committed, outcome <- Outcome

\* Flows run one at a time, and a cancel that lands before the last cancel point
\* of the running flow is never lost to a call that waits for the mutex (the
\* order of lock and clear_abort in chonkProve).
ImplementsSerialProver == Serial!Spec

\* Every entry point returns, after a panic and on a poisoned mutex too.
EveryCallReturns == \A c \in Calls : (pc[c] # "idle") ~> (pc[c] = "returned")

\* prover.rs, lib.rs: the FfiBackend must not be called concurrently, the mutex
\* serializes access; so no SRS load runs beside a flow.
NoSrsLoadDuringFlow ==
  \A c, d \in Calls : pc[c] \in {"accumulate", "final"} => pc[d] # "srs"

\* abort.rs: a stale request, meant for a flow that already finished, cannot
\* cancel a fresh one. A prove that aborts owes it to a request for it, for a flow
\* in a JS phase, or for a prove that has not returned yet.
NoStaleAbort ==
  [][\A c \in Calls : result[c] = "none" /\ result'[c] = "aborted" =>
       \E a \in Calls :
         /\ kind[a] = "requestAbort"
         /\ aim[a] \in {c, NoCall} \/ pc[aim[a]] # "returned"]_vars
===============================================================================
