--------------------------- MODULE SessionContract ---------------------------
(***************************************************************************)
(* What internal/session/session.go promises of every backend, and nothing *)
(* of how: Connect acquires resources and, on error, has released them;    *)
(* Run is called once and has released everything when it returns; Close   *)
(* may come at any moment after Connect, from any goroutine, and once it   *)
(* has released the session nothing is acquired again.                     *)
(***************************************************************************)

VARIABLES
    stage,  \* where the caller of the session stands
    held    \* does the session hold any resource?

contract == <<stage, held>>

Stages == {"setup", "failed", "open", "running", "ended"}

ContractInit == stage = "setup" /\ held = FALSE

\* Connect is at work.
Acquire ==
    /\ stage = "setup"
    /\ held' = TRUE
    /\ UNCHANGED stage

\* ... undoes what it has acquired,
Unwind ==
    /\ stage = "setup"
    /\ held' = FALSE
    /\ UNCHANGED stage

\* ... and only then returns its error.
ConnectFails ==
    /\ stage = "setup"
    /\ ~held
    /\ stage' = "failed"
    /\ UNCHANGED held

ConnectReturns ==
    /\ stage = "setup"
    /\ held
    /\ stage' = "open"
    /\ UNCHANGED held

RunCalled ==
    /\ stage = "open"
    /\ stage' = "running"
    /\ UNCHANGED held

\* Teardown, by Run or by a caller of Close.
Release ==
    /\ stage \in {"open", "running"}
    /\ held' = FALSE
    /\ UNCHANGED stage

RunReturns ==
    /\ stage = "running"
    /\ ~held
    /\ stage' = "ended"
    /\ UNCHANGED held

ContractNext ==
    \/ Acquire \/ Unwind \/ ConnectFails \/ ConnectReturns
    \/ RunCalled \/ Release \/ RunReturns

ContractSpec == ContractInit /\ [][ContractNext]_contract

=============================================================================
