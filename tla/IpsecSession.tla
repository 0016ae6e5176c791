---------------------------- MODULE IpsecSession ----------------------------
(***************************************************************************)
(* The life of one IPsec session (internal/ipsec/backend.go) under the     *)
(* command `ipsec connect` (cmd/fortivpn/ipsec.go): what it loads into the *)
(* strongSwan daemon over the VICI socket, how it watches it, and how it   *)
(* takes it out again.                                                     *)
(*                                                                         *)
(* The daemon is a separate process.  A command that returns an error may  *)
(* or may not have been carried out, but has ended either way.             *)
(***************************************************************************)
EXTENDS Naturals, Sequences, FiniteSets

CONSTANTS
    Main,       \* the goroutine that calls Connect, then Run
    Closers,    \* the other goroutines that call Close
    Children    \* how many child SAs: one for IPv4, two for dual stack

ASSUME IpsecAssumption == Main \notin Closers /\ Children \in Nat \ {0}

Threads == {Main} \cup Closers

KeyOrder == <<"ike", "eap">>        \* the two secrets, as Connect loads them

\* What the daemon may have negotiated: the IKE SA, 0, and its children.
SAs == 0..Children

VARIABLES
    ctx,        \* the set-up context is done
    run,        \* Run's context: "live", "due" (its deadline has passed but
                \* nobody has been told yet) or "done"
    tcp,        \* --transport tcp
    \* the calling goroutine
    pc,         \* where Main stands
    child,      \* the child SA to initiate next
    poll,       \* what the poll in hand has found
    failures,   \* of Run
    result,     \* what Run returns, errors of Close aside
    \* the connection
    keys, loaded, initiated,
    once,       \* connection.once
    done,       \* connection.done is closed
    close,      \* where each thread stands in connection.Close
    left,       \* how many keys are still to be unloaded
    errs,       \* some command of Close has failed: closeErr # nil
    \* the daemon
    shared,     \* secrets
    conf,       \* is the connection configured?
    sas,        \* SAs
    \* the relay, see RelayContract
    link, reason,
    \* ghost
    streak      \* polls since the last one that found the session up

contexts == <<ctx, run, tcp>>
calling == <<pc, child, poll, failures, result, streak>>
recorded == <<keys, loaded, initiated>>
closing == <<once, done, close, left, errs>>
daemon == <<shared, conf, sas>>
relay == <<link, reason>>
vars == <<contexts, calling, recorded, closing, daemon, relay>>

R == INSTANCE RelayContract

Setup == {"preflight", "dial", "token", "shared", "conn", "initiate", "list",
          "check", "unwind", "relay", "relayWait"}

Running == {"select", "transport", "poll", "polled", "deferRun"}

Errors == {"transport", "unexplained", "monitor", "lost"}

IpsecTypeOK ==
    /\ ctx \in BOOLEAN
    /\ run \in {"live", "due", "done"}
    /\ tcp \in BOOLEAN
    /\ pc \in Setup \cup {"failed", "connected"} \cup Running \cup {"deferMain", "ended"}
    /\ child \in 1..Children
    /\ poll \in {"none", "interrupted", "refused", "good", "bad"}
    /\ failures \in 0..3
    /\ result \in {"none", "nil"} \cup Errors
    /\ keys \in Seq({"ike", "eap"})
    /\ loaded \in BOOLEAN
    /\ initiated \in BOOLEAN
    /\ once \in {"new", "busy", "done"}
    /\ done \in BOOLEAN
    /\ close \in [Threads -> {"out", "enter", "terminate", "conn", "keys",
                              "relay", "wait", "back"}]
    /\ left \in 0..2
    /\ errs \in BOOLEAN
    /\ shared \in SUBSET {"ike", "eap"}
    /\ conf \in BOOLEAN
    /\ sas \in SUBSET SAs
    /\ link \in {"none", "up", "down", "gone"}
    /\ reason \in {"none", "nil", "error"}
    /\ streak \in 0..3

IpsecInit ==
    /\ ctx = FALSE
    /\ run = "live"
    /\ tcp \in BOOLEAN
    /\ pc = "preflight"
    /\ child = 1
    /\ poll = "none"
    /\ failures = 0
    /\ result = "none"
    /\ keys = <<>>
    /\ loaded = FALSE
    /\ initiated = FALSE
    /\ once = "new"
    /\ done = FALSE
    /\ close = [t \in Threads |-> "out"]
    /\ left = 0
    /\ errs = FALSE
    /\ shared = {}
    /\ conf = FALSE
    /\ sas = {}
    /\ R!RelayContractInit
    /\ streak = 0

-----------------------------------------------------------------------------
(* Contexts, the peer and the relay *)

Interrupt ==
    /\ run # "done"
    /\ ctx' = TRUE
    /\ run' = "done"
    /\ UNCHANGED <<tcp, calling, recorded, closing, daemon, relay>>

SetupTimeout ==
    /\ ~ctx
    /\ ctx' = TRUE
    /\ UNCHANGED <<run, tcp, calling, recorded, closing, daemon, relay>>

\* --duration is over: the deadline passes, then the timer cancels.
Duration ==
    /\ pc \in Running
    /\ \/ run = "live" /\ run' = "due"
       \/ run = "due" /\ run' = "done"
    /\ UNCHANGED <<ctx, tcp, calling, recorded, closing, daemon, relay>>

\* The gateway, or dead-peer detection, takes down a child or everything.
\* dpd_action and close_action of the configuration start nothing anew.
PeerDeletes ==
    /\ \E gone \in {sas} \cup {{c} : c \in sas \ {0}} :
          gone # {} /\ sas' = sas \ gone
    /\ UNCHANGED <<contexts, calling, recorded, closing, shared, conf, relay>>

RelayStep ==
    /\ R!Breaks \/ R!Ends
    /\ UNCHANGED <<contexts, calling, recorded, closing, daemon>>

-----------------------------------------------------------------------------
(* Backend.Connect.  A command whose context is done does not succeed. *)

Goto(place) == pc' = place /\ UNCHANGED <<child, poll, failures, result, streak>>

\* Main goes on to a place that begins with a call of connection.Close.
CloseAt(place) ==
    /\ Goto(place)
    /\ close' = [close EXCEPT ![Main] = "enter"]
    /\ UNCHANGED <<once, done, left, errs>>

\* The daemon has none of the forbidden plugins, all of the required ones, and
\* neither connections nor secrets: it stays as it is.
Preflight ==
    /\ pc = "preflight"
    /\ \/ Goto("failed")
       \/ ~ctx /\ Goto(IF tcp THEN "dial" ELSE "token")
    /\ UNCHANGED <<contexts, recorded, closing, daemon, relay>>

Dial ==
    /\ pc = "dial"
    /\ \/ Goto("failed") /\ UNCHANGED relay
       \/ ~ctx /\ Goto("token") /\ R!Dialled
    /\ UNCHANGED <<contexts, recorded, closing, daemon>>

Token ==
    /\ pc = "token"
    /\ \/ Goto(IF tcp THEN "relay" ELSE "failed")
       \/ Goto("shared")
    /\ UNCHANGED <<contexts, recorded, closing, daemon, relay>>

\* A command of Connect: success, and on to `place`, or an error, and out.
Command(place) ==
    \/ ~ctx /\ Goto(place) /\ UNCHANGED closing
    \/ CloseAt("unwind")

Succeeds == pc' # "unwind"

LoadShared ==
    /\ pc = "shared"
    /\ LET k == KeyOrder[Len(keys) + 1] IN
          /\ keys' = Append(keys, k)
          /\ Command(IF Len(keys) + 1 < Len(KeyOrder) THEN "shared" ELSE "conn")
          /\ shared' \in {shared \cup {k}} \cup IF Succeeds THEN {} ELSE {shared}
    /\ UNCHANGED <<contexts, loaded, initiated, conf, sas, relay>>

LoadConnMut ==
    /\ pc = "conn"
    /\ Command("initiate")
    /\ loaded' = Succeeds
    /\ conf' \in {TRUE} \cup IF Succeeds THEN {} ELSE {conf}
    /\ UNCHANGED <<contexts, keys, initiated, shared, sas, relay>>

LoadConn ==
    /\ pc = "conn"
    /\ loaded' = TRUE
    /\ Command("initiate")
    /\ conf' \in {TRUE} \cup IF Succeeds THEN {} ELSE {conf}
    /\ UNCHANGED <<contexts, keys, initiated, shared, sas, relay>>

NextChildMut == child + 1

NextChild == IF child < Children THEN child + 1 ELSE child

\* An error may leave the IKE SA, with the child or without.
Initiate ==
    /\ pc = "initiate"
    /\ initiated' = TRUE
    /\ \/ /\ ~ctx
          /\ sas' = sas \cup {0, child}
          /\ pc' = IF child < Children THEN "initiate" ELSE "list"
          /\ child' = NextChild
          /\ UNCHANGED <<poll, failures, result, streak, closing>>
       \/ /\ CloseAt("unwind")
          /\ sas' \in {sas, sas \cup {0}, sas \cup {0, child}}
    /\ UNCHANGED <<contexts, keys, loaded, shared, conf, relay>>

\* list-sas and info: every child is installed, as negotiated.
Negotiated ==
    /\ pc = "list"
    /\ \/ sas = SAs /\ ~ctx /\ Goto("check") /\ UNCHANGED closing
       \/ CloseAt("unwind")
    /\ UNCHANGED <<contexts, recorded, daemon, relay>>

ConnectReturns ==
    /\ pc = "check"
    /\ IF ctx THEN CloseAt("unwind") ELSE Goto("connected") /\ UNCHANGED closing
    /\ UNCHANGED <<contexts, recorded, daemon, relay>>

\* The deferred calls: connection.Close, then Relay.Close.
Unwound ==
    /\ pc = "unwind"
    /\ close[Main] = "back"
    /\ Goto(IF tcp THEN "relay" ELSE "failed")
    /\ UNCHANGED <<contexts, recorded, closing, daemon, relay>>

ShutRelayMut == UNCHANGED relay

ShutRelay == IF link = "up" THEN R!Closes ELSE UNCHANGED relay

UnwindRelayMut ==
    /\ pc = "relay"
    /\ Goto("failed")
    /\ UNCHANGED <<contexts, recorded, closing, daemon, relay>>

UnwindRelay ==
    /\ pc = "relay"
    /\ ShutRelay
    /\ Goto("relayWait")
    /\ UNCHANGED <<contexts, recorded, closing, daemon>>

RelayUnwound ==
    /\ pc = "relayWait"
    /\ link = "gone"
    /\ Goto("failed")
    /\ UNCHANGED <<contexts, recorded, closing, daemon, relay>>

-----------------------------------------------------------------------------
(* connection.Close, in thread t *)

CloseStep(t, from, to) ==
    /\ close[t] = from
    /\ close' = [close EXCEPT ![t] = to]

EnterOnceMut(t) ==
    /\ \/ /\ once = "new"
          /\ once' = "busy"
          /\ done' = TRUE
          /\ left' = Len(keys)
          /\ IF tcp THEN ShutRelay ELSE UNCHANGED relay
          /\ CloseStep(t, "enter", "terminate")
       \/ /\ once = "done"
          /\ CloseStep(t, "enter", "back")
          /\ UNCHANGED <<once, done, left, relay>>
    /\ UNCHANGED <<contexts, calling, recorded, errs, daemon>>

EnterOnce(t) ==
    /\ \/ /\ once = "new"
          /\ once' = "busy"
          /\ done' = TRUE
          /\ left' = Len(keys)
          /\ CloseStep(t, "enter", "terminate")
       \/ /\ once = "done"
          /\ CloseStep(t, "enter", "back")
          /\ UNCHANGED <<once, done, left>>
    /\ UNCHANGED <<contexts, calling, recorded, errs, daemon, relay>>

\* The outcomes of a command of Close that is to take x from `value` to `gone`.
Cleans(x, value, gone) ==
    \/ x = gone /\ UNCHANGED errs
    \/ x \in {value, gone} /\ errs' = TRUE

\* An error that reports no matches is not one.
Terminate(t) ==
    /\ CloseStep(t, "terminate", "conn")
    /\ IF initiated
       THEN \/ sas = {} /\ UNCHANGED <<sas, errs>>
            \/ Cleans(sas', sas, {})
       ELSE UNCHANGED <<sas, errs>>
    /\ UNCHANGED <<contexts, calling, recorded, once, done, left, shared, conf, relay>>

UnloadConn(t) ==
    /\ CloseStep(t, "conn", "keys")
    /\ IF loaded THEN Cleans(conf', conf, FALSE) ELSE UNCHANGED <<conf, errs>>
    /\ UNCHANGED <<contexts, calling, recorded, once, done, left, shared, sas, relay>>

UnloadShared(t) ==
    /\ close[t] = "keys"
    /\ left > 0
    /\ Cleans(shared', shared, shared \ {keys[left]})
    /\ left' = left - 1
    /\ UNCHANGED <<contexts, calling, recorded, once, done, close, conf, sas, relay>>

KeysUnloaded(t) ==
    /\ left = 0
    /\ CloseStep(t, "keys", "relay")
    /\ UNCHANGED <<contexts, calling, recorded, once, done, left, errs, daemon, relay>>

\* Deferred first, so run last.
CloseRelay(t) ==
    /\ CloseStep(t, "relay", "wait")
    /\ IF tcp THEN ShutRelay ELSE UNCHANGED relay
    /\ UNCHANGED <<contexts, calling, recorded, once, done, left, errs, daemon>>

LeaveOnceMut(t) ==
    /\ CloseStep(t, "wait", "back")
    /\ once' = "done"
    /\ UNCHANGED <<contexts, calling, recorded, done, left, errs, daemon, relay>>

LeaveOnce(t) ==
    /\ link \in {"none", "gone"}
    /\ CloseStep(t, "wait", "back")
    /\ once' = "done"
    /\ UNCHANGED <<contexts, calling, recorded, done, left, errs, daemon, relay>>

CloseSteps(t) ==
    \/ EnterOnce(t) \/ Terminate(t) \/ UnloadConn(t) \/ UnloadShared(t)
    \/ KeysUnloaded(t) \/ CloseRelay(t) \/ LeaveOnce(t)

\* Anyone may close a session that Connect has returned.
ExternalClose(t) ==
    /\ t \in Closers
    /\ pc \notin Setup \cup {"failed"}
    /\ CloseStep(t, "out", "enter")
    /\ UNCHANGED <<contexts, calling, recorded, once, done, left, errs, daemon, relay>>

-----------------------------------------------------------------------------
(* connection.Run *)

\* The command cancels the set-up context and calls Run.
CallRun ==
    /\ pc = "connected"
    /\ Goto("select")
    /\ ctx' = TRUE
    /\ UNCHANGED <<run, tcp, recorded, closing, daemon, relay>>

\* Run returns r, after its deferred Close.
Finish(r) ==
    /\ result' = r
    /\ pc' = "deferRun"
    /\ close' = [close EXCEPT ![Main] = "enter"]
    /\ UNCHANGED <<child, poll, failures, streak, once, done, left, errs>>
    /\ UNCHANGED <<contexts, recorded, daemon, relay>>

SelectStop ==
    /\ pc = "select"
    /\ run = "done" \/ done
    /\ Finish("nil")

SelectTransport ==
    /\ pc = "select"
    /\ link \in {"down", "gone"}
    /\ Goto("transport")
    /\ UNCHANGED <<contexts, recorded, closing, daemon, relay>>

SelectTick ==
    /\ pc = "select"
    /\ Goto("poll")
    /\ UNCHANGED <<contexts, recorded, closing, daemon, relay>>

TransportResult ==
    IF done \/ run = "done" THEN "nil"
    ELSE IF reason = "error" THEN "transport" ELSE "unexplained"

TransportDone ==
    /\ pc = "transport"
    /\ Finish(TransportResult)

\* The daemon's answer: an IKE SA that is being rekeyed is not established, so
\* a session in order may look down for a while.
Answers == IF sas = SAs THEN {"good", "bad"} ELSE {"bad"}

\* list-sas, for three seconds at most.
Poll ==
    /\ pc = "poll"
    /\ poll' \in {"refused"} \cup (IF run = "done" THEN {} ELSE Answers)
                             \cup (IF run = "live" THEN {} ELSE {"interrupted"})
    /\ pc' = "polled"
    /\ streak' = IF poll' = "good" THEN 0
                 ELSE IF poll' = "bad" /\ streak < 3 THEN streak + 1 ELSE streak
    /\ UNCHANGED <<child, failures, result>>
    /\ UNCHANGED <<contexts, recorded, closing, daemon, relay>>

\* Asked for after the poll, whose error may come of nothing else.
StoppedNoDeadline == run = "done" \/ done

StoppedNoDone == run # "live"

Stopped == run # "live" \/ done

PollStopped == pc = "polled" /\ Stopped /\ Finish("nil")

PollFailed ==
    /\ pc = "polled"
    /\ ~Stopped
    /\ poll \in {"refused", "interrupted"}
    /\ Finish("monitor")

CountedAtMostOne == IF poll = "bad" THEN 1 ELSE 0

Counted == IF poll = "bad" THEN failures + 1 ELSE 0

Back ==
    /\ pc = "polled"
    /\ ~Stopped
    /\ poll \in {"good", "bad"}
    /\ Counted < 3
    /\ failures' = Counted
    /\ pc' = "select"
    /\ poll' = "none"
    /\ UNCHANGED <<child, result, streak>>
    /\ UNCHANGED <<contexts, recorded, closing, daemon, relay>>

Lost ==
    /\ pc = "polled"
    /\ ~Stopped
    /\ poll \in {"good", "bad"}
    /\ Counted >= 3
    /\ failures' = Counted
    /\ result' = "lost"
    /\ pc' = "deferRun"
    /\ close' = [close EXCEPT ![Main] = "enter"]
    /\ UNCHANGED <<child, poll, streak, once, done, left, errs>>
    /\ UNCHANGED <<contexts, recorded, daemon, relay>>

\* The deferred Close of Run returns, then that of the command is called.
RunReturns ==
    /\ pc = "deferRun"
    /\ close[Main] = "back"
    /\ CloseAt("deferMain")
    /\ UNCHANGED <<contexts, recorded, daemon, relay>>

CommandReturns ==
    /\ pc = "deferMain"
    /\ close[Main] = "back"
    /\ Goto("ended")
    /\ UNCHANGED <<contexts, recorded, closing, daemon, relay>>

-----------------------------------------------------------------------------
(* The specification *)

Connect ==
    \/ Preflight \/ Dial \/ Token \/ LoadShared \/ LoadConn \/ Initiate
    \/ Negotiated \/ ConnectReturns \/ Unwound \/ UnwindRelay \/ RelayUnwound

Run ==
    \/ CallRun \/ SelectStop \/ SelectTransport \/ SelectTick \/ TransportDone
    \/ Poll \/ PollStopped \/ PollFailed \/ Back \/ Lost
    \/ RunReturns \/ CommandReturns

Quiet ==
    /\ pc \in {"failed", "ended"}
    /\ \A t \in Closers : close[t] \in {"out", "back"}

IpsecNext ==
    \/ Interrupt \/ SetupTimeout \/ Duration \/ PeerDeletes \/ RelayStep
    \/ Connect \/ Run
    \/ \E t \in Threads : CloseSteps(t) \/ ExternalClose(t)
    \/ Quiet /\ UNCHANGED vars

\* Commands of Connect end with their context, those of Close after 15 s, polls
\* after 3 s; the relay ends once it is down (module Relay); the select that
\* finds several channels ready picks each of them sooner or later.
IpsecFairness ==
    /\ WF_vars(Connect)
    /\ WF_vars(Run)
    /\ SF_vars(SelectTransport)
    /\ WF_vars(RelayStep /\ link' = "gone")
    /\ \A t \in Threads : WF_vars(CloseSteps(t))

IpsecSpec == IpsecInit /\ [][IpsecNext]_vars /\ IpsecFairness

-----------------------------------------------------------------------------
(* Properties *)

Clean == shared = {} /\ ~conf /\ sas = {}

\* "Record attempted writes as well, so uncertain command outcomes are
\* cleaned": when connection.Close reports no error, the daemon holds nothing
\* of this session, whatever became of the commands that failed.
CleanOrReported == once = "done" /\ ~errs => Clean

\* When Connect has failed or Run has returned, Close has run to its end (or
\* nothing was ever loaded) and the relay is gone, whoever called Close.
ReturnReleases ==
    pc \in {"failed", "deferMain", "ended"} =>
        /\ once = "done" \/ Clean
        /\ link \in {"none", "gone"}

\* The daemon can still reach the gateway while it is told to delete the SAs:
\* the session does not close its relay before the last command.
RelayClosedLast ==
    reason = "nil" => \A t \in Threads : close[t] \notin {"terminate", "conn", "keys"}

\* Run does not report as an error what a Close or a cancellation causes: no
\* error is chosen once either has happened ...
OrderlyStop ==
    [][result = "none" /\ result' \in Errors => ~done /\ run # "done"]_vars

\* ... nor is a poll that only the caller's deadline has interrupted, nor a
\* relay that the session itself has closed; and one or two polls in a row that
\* find the session down, as while the IKE SA is being rekeyed, are no loss.
ErrorsAreReal ==
    /\ result = "monitor" => poll = "refused"
    /\ result # "unexplained"
    /\ result = "lost" => streak = 3

\* An SA that is gone stays gone: Run notices, and ends.
LossDetected == pc \in Running /\ sas # SAs ~> pc = "ended"

\* An interrupt at any moment, a deadline, a Close or a relay that breaks under
\* Run ends the command.
StopsWhenTold ==
    (run # "live" \/ done \/ (pc \in Running /\ link \in {"down", "gone"}))
        ~> pc \in {"failed", "ended"}

Session == INSTANCE SessionContract WITH
    stage <- IF pc \in Setup THEN "setup"
             ELSE IF pc = "connected" THEN "open"
             ELSE IF pc \in Running THEN "running"
             ELSE IF pc = "failed" THEN "failed" ELSE "ended",
    held <- link \in {"up", "down"} \/ (once # "done" /\ ~Clean)

\* The IPsec backend keeps the promises of session.go; what Close could not
\* remove, and has reported, counts as released.
ImplementsContract == Session!ContractSpec

=============================================================================
