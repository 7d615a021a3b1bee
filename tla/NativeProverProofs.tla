--------------------------- MODULE NativeProverProofs ---------------------------
(***************************************************************************)
(* Proofs about NativeProver, for any set of calls and any bound on the    *)
(* circuits of a flow: mutual exclusion of the guarded sections, integrity *)
(* of barretenberg's flow state, and the refinement of SerialProver.       *)
(***************************************************************************)
EXTENDS NativeProver, TLAPS

\* Whoever stands in a guarded section owns the mutex, and the owner stands in one.
Exclusive ==
  /\ \A c \in Calls : pc[c] \in GuardPcs => owner = c
  /\ owner # NoCall => pc[owner] \in GuardPcs

\* Where a thread stands tells its entry point, and a call has no result before
\* it returns.
Shape ==
  \A c \in Calls :
    /\ pc[c] \in FlowPcs \cup {"clear"} => kind[c] = "chonkProve"
    /\ pc[c] = "ultrahonk" => kind[c] \in {"prove", "verifyLast"}
    /\ pc[c] = "lock" => kind[c] \in {"chonkProve", "prove", "verifyLast"}
    /\ pc[c] \in {"srs", "storeProver"} => kind[c] = "initSrs"
    /\ pc[c] = "setFlag" => kind[c] = "requestAbort"
    /\ pc[c] = "blake2s" => kind[c] = "blake2s"
    /\ pc[c] # "returned" => result[c] = "none"

\* The loop of chonk_prove_flow: what FlowIntact needs to be inductive.
Loop ==
  \A c \in Calls :
    /\ pc[c] \in {"boundary", "accumulate", "final"} =>
         done[c] <= circuits[c] /\ bb = [flow |-> c, acc |-> done[c]]
    /\ pc[c] = "accumulate" => done[c] < circuits[c]
    /\ pc[c] = "final" => done[c] = circuits[c]

IInv == TypeOK /\ Exclusive /\ Shape /\ Loop

USE NoCallAssumption, MaxCircuitsAssumption

\* The initial states satisfy the inductive invariant.
LEMMA InitIInv == Init => IInv
<1> SUFFICES ASSUME Init PROVE IInv
  OBVIOUS
<1> USE DEF Init, Kinds, Pcs, GuardPcs, FlowPcs, BbPcs, Results
<1>1. TypeOK
  <2>1. bb \in [flow : Calls \cup {NoCall}, acc : 0..MaxCircuits]
    OBVIOUS
  <2>2. circuits \in [Calls -> 0..MaxCircuits] /\ done \in [Calls -> 0..MaxCircuits]
    OBVIOUS
  <2>3. pc \in [Calls -> Pcs]
    OBVIOUS
  <2>4. kind \in [Calls -> Kinds \cup {"none"}] /\ result \in [Calls -> Results]
    OBVIOUS
  <2>5. QED
    BY <2>1, <2>2, <2>3, <2>4 DEF TypeOK
<1>2. Exclusive
  BY DEF Exclusive
<1>3. Shape /\ Loop
  BY DEF Shape, Loop
<1>4. QED
  BY <1>1, <1>2, <1>3 DEF IInv

\* Every step keeps the types, the bounds of the loop among them.
LEMMA TypeStep ==
  ASSUME IInv, NEW c \in Calls, HostStep(c) \/ ThreadStep(c)
  PROVE  TypeOK'
<1> USE DEF IInv, TypeOK, Exclusive, Loop, Kinds, Pcs, GuardPcs, FlowPcs, BbPcs, Results, hostVars, stored, flow
<1>1. ASSUME CallInitSrs(c) PROVE TypeOK'
  BY <1>1 DEF CallInitSrs, Enter
<1>2. ASSUME CallChonkProve(c) PROVE TypeOK'
  BY <1>2 DEF CallChonkProve, Enter
<1>3. ASSUME CallProve(c) PROVE TypeOK'
  BY <1>3 DEF CallProve, Enter
<1>4. ASSUME CallVerifyLast(c) PROVE TypeOK'
  BY <1>4 DEF CallVerifyLast, Enter
<1>5. ASSUME CallBlake2s(c) PROVE TypeOK'
  BY <1>5 DEF CallBlake2s, Enter
<1>6. ASSUME NEW t \in Calls \cup {NoCall}, CallRequestAbort(c, t) PROVE TypeOK'
  BY <1>6 DEF CallRequestAbort, Enter
<1>7. ASSUME SrsLoaded(c) PROVE TypeOK'
  BY <1>7 DEF SrsLoaded, Step
<1>8. ASSUME SrsFails(c) PROVE TypeOK'
  BY <1>8 DEF SrsFails, Return
<1>9. ASSUME StoreProver(c) PROVE TypeOK'
  BY <1>9 DEF StoreProver, Return
<1>10. ASSUME LockProver(c) PROVE TypeOK'
  BY <1>10 DEF LockProver, Step
<1>11. ASSUME LockPoisoned(c) PROVE TypeOK'
  BY <1>11 DEF LockPoisoned, Return
<1>12. ASSUME ClearAbort(c) PROVE TypeOK'
  BY <1>12 DEF ClearAbort, Step
<1>13. ASSUME NEW n \in 1..MaxCircuits, BeginFlow(c, n) PROVE TypeOK'
  BY <1>13 DEF BeginFlow, Step
<1>14. ASSUME BeginFails(c) PROVE TypeOK'
  BY <1>14 DEF BeginFails, ReturnUnlocking, Return
<1>15. ASSUME CheckAbort(c) PROVE TypeOK'
  BY <1>15 DEF CheckAbort, ReturnUnlocking, Return
<1>16. ASSUME Proceed(c) PROVE TypeOK'
  BY <1>16 DEF Proceed, Step
<1>17. ASSUME Accumulate(c) PROVE TypeOK'
  BY <1>17 DEF Accumulate, Step
<1>18. ASSUME FinalProve(c) PROVE TypeOK'
  BY <1>18 DEF FinalProve, ReturnUnlocking, Return
<1>19. ASSUME FlowFails(c) PROVE TypeOK'
  BY <1>19 DEF FlowFails, ReturnUnlocking, Return
<1>20. ASSUME UltraHonkProve(c) PROVE TypeOK'
  BY <1>20 DEF UltraHonkProve, ReturnUnlocking, Return
<1>21. ASSUME UltraHonkVerifyLast(c) PROVE TypeOK'
  BY <1>21 DEF UltraHonkVerifyLast, ReturnUnlocking, Return
<1>22. ASSUME UltraHonkFails(c) PROVE TypeOK'
  BY <1>22 DEF UltraHonkFails, ReturnUnlocking, Return
<1>23. ASSUME Panic(c) PROVE TypeOK'
  BY <1>23 DEF Panic, ReturnUnlocking, Return
<1>24. ASSUME SetAbort(c) PROVE TypeOK'
  BY <1>24 DEF SetAbort, Return
<1>25. ASSUME Blake2sReturns(c) PROVE TypeOK'
  BY <1>25 DEF Blake2sReturns, Return
<1>26. ASSUME CallUnreadable(c) PROVE TypeOK'
  BY <1>26 DEF CallUnreadable, Return
<1>27. QED
  BY <1>1, <1>2, <1>3, <1>4, <1>5, <1>6, <1>7, <1>8, <1>9, <1>10, <1>11, <1>12, <1>13, <1>14, <1>15, <1>16, <1>17, <1>18, <1>19, <1>20, <1>21, <1>22, <1>23, <1>24, <1>25, <1>26 DEF HostStep, ThreadStep

\* Every step keeps the guarded sections exclusive.
LEMMA ExclusiveStep ==
  ASSUME IInv, NEW c \in Calls, HostStep(c) \/ ThreadStep(c)
  PROVE  Exclusive'
<1> USE DEF IInv, TypeOK, Exclusive, Kinds, Pcs, GuardPcs, FlowPcs, BbPcs, Results, hostVars, stored, flow
<1>1. ASSUME CallInitSrs(c) PROVE Exclusive'
  BY <1>1 DEF CallInitSrs, Enter
<1>2. ASSUME CallChonkProve(c) PROVE Exclusive'
  BY <1>2 DEF CallChonkProve, Enter
<1>3. ASSUME CallProve(c) PROVE Exclusive'
  BY <1>3 DEF CallProve, Enter
<1>4. ASSUME CallVerifyLast(c) PROVE Exclusive'
  BY <1>4 DEF CallVerifyLast, Enter
<1>5. ASSUME CallBlake2s(c) PROVE Exclusive'
  BY <1>5 DEF CallBlake2s, Enter
<1>6. ASSUME NEW t \in Calls \cup {NoCall}, CallRequestAbort(c, t) PROVE Exclusive'
  BY <1>6 DEF CallRequestAbort, Enter
<1>7. ASSUME SrsLoaded(c) PROVE Exclusive'
  BY <1>7 DEF SrsLoaded, Step
<1>8. ASSUME SrsFails(c) PROVE Exclusive'
  BY <1>8 DEF SrsFails, Return
<1>9. ASSUME StoreProver(c) PROVE Exclusive'
  BY <1>9 DEF StoreProver, Return
<1>10. ASSUME LockProver(c) PROVE Exclusive'
  BY <1>10 DEF LockProver, Step
<1>11. ASSUME LockPoisoned(c) PROVE Exclusive'
  BY <1>11 DEF LockPoisoned, Return
<1>12. ASSUME ClearAbort(c) PROVE Exclusive'
  BY <1>12 DEF ClearAbort, Step
<1>13. ASSUME NEW n \in 1..MaxCircuits, BeginFlow(c, n) PROVE Exclusive'
  BY <1>13 DEF BeginFlow, Step
<1>14. ASSUME BeginFails(c) PROVE Exclusive'
  BY <1>14 DEF BeginFails, ReturnUnlocking, Return
<1>15. ASSUME CheckAbort(c) PROVE Exclusive'
  BY <1>15 DEF CheckAbort, ReturnUnlocking, Return
<1>16. ASSUME Proceed(c) PROVE Exclusive'
  BY <1>16 DEF Proceed, Step
<1>17. ASSUME Accumulate(c) PROVE Exclusive'
  BY <1>17 DEF Accumulate, Step
<1>18. ASSUME FinalProve(c) PROVE Exclusive'
  BY <1>18 DEF FinalProve, ReturnUnlocking, Return
<1>19. ASSUME FlowFails(c) PROVE Exclusive'
  BY <1>19 DEF FlowFails, ReturnUnlocking, Return
<1>20. ASSUME UltraHonkProve(c) PROVE Exclusive'
  BY <1>20 DEF UltraHonkProve, ReturnUnlocking, Return
<1>21. ASSUME UltraHonkVerifyLast(c) PROVE Exclusive'
  BY <1>21 DEF UltraHonkVerifyLast, ReturnUnlocking, Return
<1>22. ASSUME UltraHonkFails(c) PROVE Exclusive'
  BY <1>22 DEF UltraHonkFails, ReturnUnlocking, Return
<1>23. ASSUME Panic(c) PROVE Exclusive'
  BY <1>23 DEF Panic, ReturnUnlocking, Return
<1>24. ASSUME SetAbort(c) PROVE Exclusive'
  BY <1>24 DEF SetAbort, Return
<1>25. ASSUME Blake2sReturns(c) PROVE Exclusive'
  BY <1>25 DEF Blake2sReturns, Return
<1>26. ASSUME CallUnreadable(c) PROVE Exclusive'
  BY <1>26 DEF CallUnreadable, Return
<1>27. QED
  BY <1>1, <1>2, <1>3, <1>4, <1>5, <1>6, <1>7, <1>8, <1>9, <1>10, <1>11, <1>12, <1>13, <1>14, <1>15, <1>16, <1>17, <1>18, <1>19, <1>20, <1>21, <1>22, <1>23, <1>24, <1>25, <1>26 DEF HostStep, ThreadStep

\* Every step keeps the shape of the calls.
LEMMA ShapeStep ==
  ASSUME IInv, NEW c \in Calls, HostStep(c) \/ ThreadStep(c)
  PROVE  Shape'
<1> USE DEF IInv, TypeOK, Shape, Kinds, Pcs, GuardPcs, FlowPcs, BbPcs, Results, hostVars, stored, flow
<1>1. ASSUME CallInitSrs(c) PROVE Shape'
  BY <1>1 DEF CallInitSrs, Enter
<1>2. ASSUME CallChonkProve(c) PROVE Shape'
  BY <1>2 DEF CallChonkProve, Enter
<1>3. ASSUME CallProve(c) PROVE Shape'
  BY <1>3 DEF CallProve, Enter
<1>4. ASSUME CallVerifyLast(c) PROVE Shape'
  BY <1>4 DEF CallVerifyLast, Enter
<1>5. ASSUME CallBlake2s(c) PROVE Shape'
  BY <1>5 DEF CallBlake2s, Enter
<1>6. ASSUME NEW t \in Calls \cup {NoCall}, CallRequestAbort(c, t) PROVE Shape'
  BY <1>6 DEF CallRequestAbort, Enter
<1>7. ASSUME SrsLoaded(c) PROVE Shape'
  BY <1>7 DEF SrsLoaded, Step
<1>8. ASSUME SrsFails(c) PROVE Shape'
  BY <1>8 DEF SrsFails, Return
<1>9. ASSUME StoreProver(c) PROVE Shape'
  BY <1>9 DEF StoreProver, Return
<1>10. ASSUME LockProver(c) PROVE Shape'
  BY <1>10 DEF LockProver, Step
<1>11. ASSUME LockPoisoned(c) PROVE Shape'
  BY <1>11 DEF LockPoisoned, Return
<1>12. ASSUME ClearAbort(c) PROVE Shape'
  BY <1>12 DEF ClearAbort, Step
<1>13. ASSUME NEW n \in 1..MaxCircuits, BeginFlow(c, n) PROVE Shape'
  BY <1>13 DEF BeginFlow, Step
<1>14. ASSUME BeginFails(c) PROVE Shape'
  BY <1>14 DEF BeginFails, ReturnUnlocking, Return
<1>15. ASSUME CheckAbort(c) PROVE Shape'
  BY <1>15 DEF CheckAbort, ReturnUnlocking, Return
<1>16. ASSUME Proceed(c) PROVE Shape'
  BY <1>16 DEF Proceed, Step
<1>17. ASSUME Accumulate(c) PROVE Shape'
  BY <1>17 DEF Accumulate, Step
<1>18. ASSUME FinalProve(c) PROVE Shape'
  BY <1>18 DEF FinalProve, ReturnUnlocking, Return
<1>19. ASSUME FlowFails(c) PROVE Shape'
  BY <1>19 DEF FlowFails, ReturnUnlocking, Return
<1>20. ASSUME UltraHonkProve(c) PROVE Shape'
  BY <1>20 DEF UltraHonkProve, ReturnUnlocking, Return
<1>21. ASSUME UltraHonkVerifyLast(c) PROVE Shape'
  BY <1>21 DEF UltraHonkVerifyLast, ReturnUnlocking, Return
<1>22. ASSUME UltraHonkFails(c) PROVE Shape'
  BY <1>22 DEF UltraHonkFails, ReturnUnlocking, Return
<1>23. ASSUME Panic(c) PROVE Shape'
  BY <1>23 DEF Panic, ReturnUnlocking, Return
<1>24. ASSUME SetAbort(c) PROVE Shape'
  BY <1>24 DEF SetAbort, Return
<1>25. ASSUME Blake2sReturns(c) PROVE Shape'
  BY <1>25 DEF Blake2sReturns, Return
<1>26. ASSUME CallUnreadable(c) PROVE Shape'
  BY <1>26 DEF CallUnreadable, Return
<1>27. QED
  BY <1>1, <1>2, <1>3, <1>4, <1>5, <1>6, <1>7, <1>8, <1>9, <1>10, <1>11, <1>12, <1>13, <1>14, <1>15, <1>16, <1>17, <1>18, <1>19, <1>20, <1>21, <1>22, <1>23, <1>24, <1>25, <1>26 DEF HostStep, ThreadStep

\* Every step keeps the flow's circuits its own.
LEMMA LoopStep ==
  ASSUME IInv, NEW c \in Calls, HostStep(c) \/ ThreadStep(c)
  PROVE  Loop'
<1> USE DEF IInv, TypeOK, Exclusive, Loop, Kinds, Pcs, GuardPcs, FlowPcs, BbPcs, Results, hostVars, stored, flow
<1>1. ASSUME CallInitSrs(c) PROVE Loop'
  BY <1>1 DEF CallInitSrs, Enter
<1>2. ASSUME CallChonkProve(c) PROVE Loop'
  BY <1>2 DEF CallChonkProve, Enter
<1>3. ASSUME CallProve(c) PROVE Loop'
  BY <1>3 DEF CallProve, Enter
<1>4. ASSUME CallVerifyLast(c) PROVE Loop'
  BY <1>4 DEF CallVerifyLast, Enter
<1>5. ASSUME CallBlake2s(c) PROVE Loop'
  BY <1>5 DEF CallBlake2s, Enter
<1>6. ASSUME NEW t \in Calls \cup {NoCall}, CallRequestAbort(c, t) PROVE Loop'
  BY <1>6 DEF CallRequestAbort, Enter
<1>7. ASSUME SrsLoaded(c) PROVE Loop'
  BY <1>7 DEF SrsLoaded, Step
<1>8. ASSUME SrsFails(c) PROVE Loop'
  BY <1>8 DEF SrsFails, Return
<1>9. ASSUME StoreProver(c) PROVE Loop'
  BY <1>9 DEF StoreProver, Return
<1>10. ASSUME LockProver(c) PROVE Loop'
  BY <1>10 DEF LockProver, Step
<1>11. ASSUME LockPoisoned(c) PROVE Loop'
  BY <1>11 DEF LockPoisoned, Return
<1>12. ASSUME ClearAbort(c) PROVE Loop'
  BY <1>12 DEF ClearAbort, Step
<1>13. ASSUME NEW n \in 1..MaxCircuits, BeginFlow(c, n) PROVE Loop'
  BY <1>13 DEF BeginFlow, Step
<1>14. ASSUME BeginFails(c) PROVE Loop'
  BY <1>14 DEF BeginFails, ReturnUnlocking, Return
<1>15. ASSUME CheckAbort(c) PROVE Loop'
  BY <1>15 DEF CheckAbort, ReturnUnlocking, Return
<1>16. ASSUME Proceed(c) PROVE Loop'
  BY <1>16 DEF Proceed, Step
<1>17. ASSUME Accumulate(c) PROVE Loop'
  BY <1>17 DEF Accumulate, Step
<1>18. ASSUME FinalProve(c) PROVE Loop'
  BY <1>18 DEF FinalProve, ReturnUnlocking, Return
<1>19. ASSUME FlowFails(c) PROVE Loop'
  BY <1>19 DEF FlowFails, ReturnUnlocking, Return
<1>20. ASSUME UltraHonkProve(c) PROVE Loop'
  BY <1>20 DEF UltraHonkProve, ReturnUnlocking, Return
<1>21. ASSUME UltraHonkVerifyLast(c) PROVE Loop'
  BY <1>21 DEF UltraHonkVerifyLast, ReturnUnlocking, Return
<1>22. ASSUME UltraHonkFails(c) PROVE Loop'
  BY <1>22 DEF UltraHonkFails, ReturnUnlocking, Return
<1>23. ASSUME Panic(c) PROVE Loop'
  BY <1>23 DEF Panic, ReturnUnlocking, Return
<1>24. ASSUME SetAbort(c) PROVE Loop'
  BY <1>24 DEF SetAbort, Return
<1>25. ASSUME Blake2sReturns(c) PROVE Loop'
  BY <1>25 DEF Blake2sReturns, Return
<1>26. ASSUME CallUnreadable(c) PROVE Loop'
  BY <1>26 DEF CallUnreadable, Return
<1>27. QED
  BY <1>1, <1>2, <1>3, <1>4, <1>5, <1>6, <1>7, <1>8, <1>9, <1>10, <1>11, <1>12, <1>13, <1>14, <1>15, <1>16, <1>17, <1>18, <1>19, <1>20, <1>21, <1>22, <1>23, <1>24, <1>25, <1>26 DEF HostStep, ThreadStep

\* Every step preserves the inductive invariant.
LEMMA StepIInv == IInv /\ [Next]_vars => IInv'
<1> SUFFICES ASSUME IInv, [Next]_vars PROVE IInv'
  OBVIOUS
<1>1. ASSUME NEW c \in Calls, HostStep(c) \/ ThreadStep(c) PROVE IInv'
  BY <1>1, TypeStep, ExclusiveStep, ShapeStep, LoopStep DEF IInv
<1>2. CASE UNCHANGED vars
  BY <1>2 DEF vars, hostVars, stored, flow, IInv, TypeOK, Exclusive, Shape, Loop
<1>3. QED
  BY <1>1, <1>2 DEF Next

\* The inductive invariant holds in every reachable state.
THEOREM Inductive == Spec => []IInv
  BY InitIInv, StepIInv, PTL DEF Spec

\* Type correctness of the native prover.
THEOREM Typing == Spec => []TypeOK
<1>1. IInv => TypeOK
  BY DEF IInv
<1>2. QED
  BY <1>1, Inductive, PTL

\* No circuit of another call is ever in the flow a call proves, whatever was
\* aborted, failed or panicked before, for any number of concurrent calls.
THEOREM FlowIsIntact == Spec => []FlowIntact
<1>1. IInv => FlowIntact
  BY DEF IInv, Loop, FlowIntact
<1>2. QED
  BY <1>1, Inductive, PTL

-------------------------------------------------------------------------------
(* The refinement: every step is a step of SerialProver or leaves it alone. *)

Same == UNCHANGED <<Running, Asked, Committed, Outcome>>

\* What one step of a call does to the abstract prover.
LEMMA StepRefines ==
  ASSUME IInv, NEW c \in Calls, HostStep(c) \/ ThreadStep(c)
  PROVE  Serial!Next \/ Same
<1> USE DEF IInv, TypeOK, Exclusive, Shape, Loop, GuardPcs, FlowPcs, Running, Committed, Asked, Outcome, Same, hostVars, stored, flow
<1>1. ASSUME CallInitSrs(c) PROVE Same
  BY <1>1 DEF CallInitSrs, Enter
<1>2. ASSUME CallChonkProve(c) PROVE Same
  BY <1>2 DEF CallChonkProve, Enter
<1>3. ASSUME CallProve(c) PROVE Same
  BY <1>3 DEF CallProve, Enter
<1>4. ASSUME CallVerifyLast(c) PROVE Same
  BY <1>4 DEF CallVerifyLast, Enter
<1>5. ASSUME CallBlake2s(c) PROVE Same
  BY <1>5 DEF CallBlake2s, Enter
<1>6. ASSUME NEW t \in Calls \cup {NoCall}, CallRequestAbort(c, t) PROVE Same
  BY <1>6 DEF CallRequestAbort, Enter
<1>7. ASSUME SrsLoaded(c) PROVE Same
  BY <1>7 DEF SrsLoaded, Step
<1>8. ASSUME SrsFails(c) PROVE Same
  BY <1>8 DEF SrsFails, Return
<1>9. ASSUME StoreProver(c) PROVE Same
  BY <1>9 DEF StoreProver, Return
<1>10. ASSUME LockProver(c) PROVE Same
  BY <1>10 DEF LockProver, Step
<1>11. ASSUME LockPoisoned(c) PROVE Same \/ Serial!Refuse(c)
  BY <1>11 DEF LockPoisoned, Return, Serial!Refuse
<1>12. ASSUME ClearAbort(c) PROVE Serial!Begin(c)
  BY <1>12 DEF ClearAbort, Step, Serial!Begin
<1>13. ASSUME NEW n \in 1..MaxCircuits, BeginFlow(c, n) PROVE Same
  BY <1>13 DEF BeginFlow, Step
<1>14. ASSUME BeginFails(c) PROVE Serial!End(c, "error")
  BY <1>14 DEF BeginFails, ReturnUnlocking, Return, Serial!End
<1>15. ASSUME CheckAbort(c) PROVE Serial!End(c, "aborted")
  BY <1>15 DEF CheckAbort, ReturnUnlocking, Return, Serial!End
<1>16. ASSUME Proceed(c) PROVE Same \/ Serial!Commit
  BY <1>16 DEF Proceed, Step, Serial!Commit
<1>17. ASSUME Accumulate(c) PROVE Same
  BY <1>17 DEF Accumulate, Step
<1>18. ASSUME FinalProve(c) PROVE Serial!End(c, "proof")
  BY <1>18 DEF FinalProve, ReturnUnlocking, Return, Serial!End
<1>19. ASSUME FlowFails(c) PROVE Serial!End(c, "error")
  BY <1>19 DEF FlowFails, ReturnUnlocking, Return, Serial!End
<1>20. ASSUME UltraHonkProve(c) PROVE Same
  BY <1>20 DEF UltraHonkProve, ReturnUnlocking, Return
<1>21. ASSUME UltraHonkVerifyLast(c) PROVE Same
  BY <1>21 DEF UltraHonkVerifyLast, ReturnUnlocking, Return
<1>22. ASSUME UltraHonkFails(c) PROVE Same
  BY <1>22 DEF UltraHonkFails, ReturnUnlocking, Return
<1>23. ASSUME Panic(c) PROVE Same \/ Serial!Refuse(c) \/ Serial!End(c, "error")
  BY <1>23 DEF Panic, ReturnUnlocking, Return, Serial!Refuse, Serial!End
<1>24. ASSUME SetAbort(c) PROVE Same \/ Serial!Ask
  BY <1>24 DEF SetAbort, Return, Serial!Ask
<1>25. ASSUME Blake2sReturns(c) PROVE Same
  BY <1>25 DEF Blake2sReturns, Return
<1>26. ASSUME CallUnreadable(c) PROVE Same \/ Serial!Refuse(c)
  <2>1. pc[c] = "idle" /\ owner # c /\ result[c] = "none"
    BY <1>26 DEF CallUnreadable
  <2>2. UNCHANGED <<Running, Asked, Committed>>
    BY <1>26, <2>1 DEF CallUnreadable, Return
  <2>3. PICK k \in {"chonkProve", "prove"} : kind' = [kind EXCEPT ![c] = k]
    BY <1>26 DEF CallUnreadable
  <2>4. Outcome[c] = "none" /\ c # Running
    BY <2>1
  <2>5. CASE k = "chonkProve"
    BY <1>26, <2>2, <2>3, <2>4, <2>5 DEF CallUnreadable, Return, Serial!Refuse
  <2>6. CASE k = "prove"
    BY <1>26, <2>1, <2>2, <2>3, <2>6 DEF CallUnreadable, Return
  <2>7. QED
    BY <2>5, <2>6
<1>27. QED
  BY <1>1, <1>2, <1>3, <1>4, <1>5, <1>6, <1>7, <1>8, <1>9, <1>10, <1>11, <1>12, <1>13, <1>14, <1>15, <1>16, <1>17, <1>18, <1>19, <1>20, <1>21, <1>22, <1>23, <1>24, <1>25, <1>26 DEF HostStep, ThreadStep, Serial!Next

\* The native prover implements SerialProver: one flow at a time, and no cancel
\* that lands in time is lost, for any number of calls.
THEOREM Refinement == Spec => ImplementsSerialProver
<1>1. Init => Serial!Init
  BY DEF Init, Serial!Init, Running, Asked, Committed, Outcome
<1>2. IInv /\ [Next]_vars => [Serial!Next]_(Serial!vars)
  <2> SUFFICES ASSUME IInv, [Next]_vars PROVE Serial!Next \/ Same
    BY DEF Serial!vars, Same
  <2>1. CASE Next
    BY <2>1, StepRefines DEF Next
  <2>2. CASE UNCHANGED vars
    BY <2>2 DEF vars, hostVars, Same, Running, Asked, Committed, Outcome
  <2>3. QED
    BY <2>1, <2>2
<1>3. QED
  BY <1>1, <1>2, Inductive, PTL DEF Spec, ImplementsSerialProver, Serial!Spec
===============================================================================
