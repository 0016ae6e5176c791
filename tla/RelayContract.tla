---------------------------- MODULE RelayContract ----------------------------
(***************************************************************************)
(* The TCP relay as its owner, the IPsec session, sees it: it comes up once, *)
(* goes down once, for a reason that Err() reports from the moment Done() is *)
(* closed, and is gone when its sockets are closed and its goroutines have   *)
(* ended.  It never comes up again.                                        *)
(***************************************************************************)

VARIABLES
    link,   \* "none", "up", "down" (Done is closed) or "gone"
    reason  \* what Err() returns: "none" as long as nothing is recorded

relayVars == <<link, reason>>

RelayContractInit == link = "none" /\ reason = "none"

Dialled ==
    /\ link = "none"
    /\ link' = "up"
    /\ UNCHANGED reason

\* One of the two goroutines meets an error.
Breaks ==
    /\ link = "up"
    /\ link' = "down"
    /\ reason' = "error"

\* Close, before either of them does.
Closes ==
    /\ link = "up"
    /\ link' = "down"
    /\ reason' = "nil"

\* Sockets closed, goroutines ended: a Close of the relay can return.
Ends ==
    /\ link = "down"
    /\ link' = "gone"
    /\ UNCHANGED reason

RelayContractNext == Dialled \/ Breaks \/ Closes \/ Ends

RelayContractSpec == RelayContractInit /\ [][RelayContractNext]_relayVars

=============================================================================
