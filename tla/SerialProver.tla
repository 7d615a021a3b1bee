----------------------------- MODULE SerialProver -----------------------------
(***************************************************************************)
(* What the native prover promises its callers: ClientIVC flows run one at *)
(* a time; a stop that is asked for before the running flow commits to its *)
(* final, uninterruptible step is honoured and is never lost to another    *)
(* call; a flow ends with a proof only after it committed.                 *)
(***************************************************************************)
CONSTANTS
  Calls,   \* the prove calls
  NoCall   \* stands for "no call"

VARIABLES
  running,    \* the flow in progress, or NoCall
  asked,      \* a stop has been asked of the running flow
  committed,  \* the running flow has passed its last cancel point
  outcome     \* what each call ended with

vars == <<running, asked, committed, outcome>>

Init ==
  /\ running = NoCall
  /\ asked = FALSE
  /\ committed = FALSE
  /\ outcome = [c \in Calls |-> "none"]

Begin(c) ==
  /\ running = NoCall
  /\ outcome[c] = "none"
  /\ running' = c
  /\ asked' = FALSE
  /\ committed' = FALSE
  /\ UNCHANGED outcome

\* A call may fail before its flow begins.
Refuse(c) ==
  /\ c # running
  /\ outcome[c] = "none"
  /\ outcome' = [outcome EXCEPT ![c] = "error"]
  /\ UNCHANGED <<running, asked, committed>>

Ask ==
  /\ running # NoCall
  /\ ~committed
  /\ asked' = TRUE
  /\ UNCHANGED <<running, committed, outcome>>

Commit ==
  /\ running # NoCall
  /\ ~asked
  /\ committed' = TRUE
  /\ UNCHANGED <<running, asked, outcome>>

End(c, o) ==
  /\ running = c
  /\ o = "proof" => committed
  /\ o = "aborted" => asked /\ ~committed
  /\ outcome' = [outcome EXCEPT ![c] = o]
  /\ running' = NoCall
  /\ asked' = FALSE
  /\ committed' = FALSE

Next ==
  \/ Ask
  \/ Commit
  \/ \E c \in Calls :
       \/ Begin(c)
       \/ Refuse(c)
       \/ \E o \in {"proof", "aborted", "error"} : End(c, o)

Spec == Init /\ [][Next]_vars
===============================================================================
