------------------------ MODULE IpsecSession_proofs ------------------------
(***************************************************************************)
(* Theorems about IpsecSession, for any number of child SAs and of         *)
(* concurrent callers of Close.                                            *)
(***************************************************************************)
EXTENDS IpsecSession, SequenceTheorems, TLAPS

-----------------------------------------------------------------------------
(* The invariant, in parts.                                                *)

\* Places of Connect before its deferred calls, and where it loads.
Loading == {"preflight", "dial", "token", "shared", "conn", "initiate", "list",
            "check"}

Inside == {"terminate", "conn", "keys", "relay", "wait"}

\* connection.Close: one thread at most is inside once.Do; nobody closes while
\* Connect is at work, and what Main waits for has happened when it goes on.
OnceInv ==
    /\ \A t \in Threads :
           /\ close[t] \in Inside => once = "busy"
           /\ close[t] = "back" => once = "done"
    /\ \A t, u \in Threads : close[t] \in Inside /\ close[u] \in Inside => t = u
    /\ once = "new" <=> ~done
    /\ pc \in Loading => once = "new"
    /\ pc \in Loading \cup {"connected"} \cup (Running \ {"deferRun"}) =>
           close[Main] = "out"
    /\ pc \in Setup \cup {"failed"} =>
           /\ \A t \in Closers : close[t] = "out"
           /\ pc \in {"relay", "relayWait", "failed"} =>
                  once = "done" \/ (once = "new" /\ close[Main] = "out")
    /\ pc \in {"deferMain", "ended"} => once = "done"

\* The relay: there is one if and only if --transport tcp asks for it; Close,
\* or the unwinding of Connect, shuts it and waits for its end.
LinkInv ==
    /\ link \in {"none", "up"} <=> reason = "none"
    /\ ~tcp => link = "none"
    /\ pc \in {"preflight", "dial"} => link = "none"
    /\ pc \notin {"preflight", "dial", "failed"} /\ tcp => link # "none"
    /\ \A t \in Threads : close[t] = "wait" => link # "up"
    /\ once = "done" => link \in {"none", "gone"}
    /\ pc = "relayWait" => link # "up"
    /\ pc = "failed" => link \in {"none", "gone"}
    /\ pc \in {"relay", "relayWait", "dial"} => tcp
    /\ pc = "transport" => link \in {"down", "gone"}
    /\ reason = "nil" =>
           /\ done \/ pc \in {"relayWait", "failed"}
           /\ \A t \in Threads : close[t] \notin {"terminate", "conn", "keys"}

\* The first n secrets on record; Connect loads each of KeyOrder once.
KeysUpTo(n) == {keys[i] : i \in 1..n}

\* What the daemon holds is on record, at every place of Connect.
RecordInv ==
    /\ shared \subseteq KeysUpTo(Len(keys))
    /\ conf => loaded
    /\ sas # {} => initiated
    /\ pc \in {"initiate", "list", "check"} => conf
    /\ pc \in {"preflight", "dial", "token"} => keys = <<>> /\ ~loaded /\ ~initiated
    /\ Len(keys) <= 2
    /\ pc = "shared" => Len(keys) < 2

\* Close counts down from the number of secrets on record.
LeftInv ==
    \A t \in Threads :
        /\ close[t] \in {"terminate", "conn"} => left = Len(keys)
        /\ close[t] = "keys" => left <= Len(keys)

\* Unless a command of Close has failed, what Close has gone past is gone.
GoneInv ==
    /\ ~errs => \A t \in Threads :
           /\ close[t] \in Inside \ {"terminate"} => sas = {}
           /\ close[t] \in Inside \ {"terminate", "conn"} => ~conf
           /\ close[t] = "keys" => shared \subseteq KeysUpTo(left)
           /\ close[t] \in {"relay", "wait"} => shared = {}
    /\ once = "done" /\ ~errs => Clean
    /\ pc \in {"relay", "relayWait", "failed"} => once = "done" \/ Clean

DaemonInv == RecordInv /\ LeftInv /\ GoneInv

\* The watch that Run keeps.
WatchInv ==
    /\ poll = "interrupted" => run # "live"
    /\ result = "none" <=> pc \notin {"deferRun", "deferMain", "ended"}
    /\ pc \in Setup \cup {"connected", "failed"} => failures = 0 /\ streak = 0
    /\ pc \in {"select", "transport", "poll"} => failures = streak /\ streak < 3
    /\ pc = "polled" => failures < 3
    /\ pc = "polled" /\ poll = "bad" => streak = failures + 1
    /\ pc = "polled" /\ poll = "good" => streak = 0
    /\ ErrorsAreReal

IpsecInv == IpsecTypeOK /\ OnceInv /\ LinkInv /\ DaemonInv /\ WatchInv

\* The type invariant in two parts: what is finite whatever the constants, and
\* the rest.
Places ==
    {"preflight", "dial", "token", "shared", "conn", "initiate", "list",
     "check", "unwind", "relay", "relayWait", "failed", "connected", "select",
     "transport", "poll", "polled", "deferRun", "deferMain", "ended"}

CloseSpots ==
    {"out", "enter", "terminate", "conn", "keys", "relay", "wait", "back"}

ControlTypeOK ==
    /\ ctx \in BOOLEAN
    /\ run \in {"live", "due", "done"}
    /\ tcp \in BOOLEAN
    /\ pc \in Places
    /\ poll \in {"none", "interrupted", "refused", "good", "bad"}
    /\ result \in {"none", "nil", "transport", "unexplained", "monitor", "lost"}
    /\ loaded \in BOOLEAN
    /\ initiated \in BOOLEAN
    /\ once \in {"new", "busy", "done"}
    /\ done \in BOOLEAN
    /\ errs \in BOOLEAN
    /\ conf \in BOOLEAN
    /\ link \in {"none", "up", "down", "gone"}
    /\ reason \in {"none", "nil", "error"}

CloseTypeOK == close \in [Threads -> CloseSpots]

DataTypeOK ==
    /\ child \in 1..Children
    /\ failures \in 0..3
    /\ keys \in Seq({"ike", "eap"})
    /\ left \in 0..2
    /\ shared \in SUBSET {"ike", "eap"}
    /\ sas \in SUBSET SAs
    /\ streak \in 0..3

LEMMA TypeParts == IpsecTypeOK <=> ControlTypeOK /\ CloseTypeOK /\ DataTypeOK
<1>1. pc \in Places <=>
      pc \in Setup \cup {"failed", "connected"} \cup Running \cup {"deferMain", "ended"}
  BY DEF Places, Setup, Running
<1>2. result \in {"none", "nil", "transport", "unexplained", "monitor", "lost"} <=>
      result \in {"none", "nil"} \cup Errors
  BY DEF Errors
<1> QED
  BY <1>1, <1>2, Zenon
  DEF IpsecTypeOK, ControlTypeOK, CloseTypeOK, DataTypeOK, CloseSpots

LEMMA IpsecInvInit == IpsecInit => IpsecInv
<1> SUFFICES ASSUME IpsecInit PROVE IpsecInv
  OBVIOUS
<1> USE IpsecAssumption DEF IpsecInit, R!RelayContractInit
<1>1. keys \in Seq({"ike", "eap"}) /\ Len(keys) = 0
  BY EmptySeq
<1>2. ControlTypeOK
  BY DEF ControlTypeOK, Places
<1>3. CloseTypeOK
  BY DEF CloseTypeOK, CloseSpots
<1>4. DataTypeOK
  BY <1>1 DEF DataTypeOK
<1>5. OnceInv
  BY DEF OnceInv, Inside, Threads, Setup
<1>6. LinkInv
  BY DEF LinkInv
<1>7. DaemonInv
  BY <1>1 DEF DaemonInv, RecordInv, LeftInv, GoneInv, KeysUpTo, Inside, Clean
<1>8. WatchInv
  BY DEF WatchInv, ErrorsAreReal, Setup
<1> QED
  BY <1>2, <1>3, <1>4, <1>5, <1>6, <1>7, <1>8, TypeParts DEF IpsecInv

-----------------------------------------------------------------------------
(* Type correctness *)

LEMMA ControlNext ==
  ASSUME ControlTypeOK, [IpsecNext]_vars
  PROVE  ControlTypeOK'
<1> USE DEF ControlTypeOK, Places, contexts, calling, recorded, closing,
            daemon, relay
<1>1. CASE Interrupt \/ SetupTimeout
  <2>1. ctx' \in BOOLEAN /\ run' \in {"live", "due", "done"}
    BY <1>1 DEF Interrupt, SetupTimeout
  <2>2. UNCHANGED <<tcp, calling, recorded, closing, daemon, relay>>
    BY <1>1 DEF Interrupt, SetupTimeout
  <2> QED
    BY <2>1, <2>2
<1>2. CASE Duration
  BY <1>2 DEF Duration
<1>3. CASE PeerDeletes
  BY <1>3 DEF PeerDeletes
<1>4. CASE RelayStep
  BY <1>4 DEF RelayStep, R!Breaks, R!Ends
<1>5. CASE Preflight \/ Token
  BY <1>5 DEF Preflight, Token, Goto
<1>6. CASE Dial
  BY <1>6 DEF Dial, R!Dialled, Goto
<1>7. CASE LoadShared
  BY <1>7 DEF LoadShared, Command, CloseAt, Goto
<1>8. CASE LoadConn
  <2>1. conf' \in BOOLEAN /\ loaded' \in BOOLEAN
    BY <1>8 DEF LoadConn
  <2>2. pc' \in Places
    BY <1>8 DEF LoadConn, Command, CloseAt, Goto
  <2>3. UNCHANGED <<ctx, run, tcp, poll, result, initiated, once, done, errs,
                    link, reason>>
    BY <1>8 DEF LoadConn, Command, CloseAt, Goto
  <2> QED
    BY <2>1, <2>2, <2>3
<1>9. CASE Initiate
  BY <1>9 DEF Initiate, CloseAt, Goto
<1>10. CASE Negotiated \/ ConnectReturns
  BY <1>10 DEF Negotiated, ConnectReturns, CloseAt, Goto
<1>11. CASE Unwound \/ RelayUnwound
  BY <1>11 DEF Unwound, RelayUnwound, Goto
<1>12. CASE UnwindRelay
  BY <1>12 DEF UnwindRelay, ShutRelay, R!Closes, Goto
<1>13. CASE CallRun \/ SelectTransport \/ SelectTick \/ CommandReturns
  BY <1>13 DEF CallRun, SelectTransport, SelectTick, CommandReturns, Goto
<1>14. CASE SelectStop \/ PollStopped \/ PollFailed
  BY <1>14 DEF SelectStop, PollStopped, PollFailed, Finish
<1>15. CASE TransportDone
  BY <1>15 DEF TransportDone, TransportResult, Finish
<1>16. CASE Poll
  BY <1>16 DEF Poll, Answers
<1>17. CASE Back \/ Lost
  BY <1>17 DEF Back, Lost
<1>18. CASE RunReturns
  BY <1>18 DEF RunReturns, CloseAt, Goto
<1>19. ASSUME NEW t \in Threads, EnterOnce(t) PROVE ControlTypeOK'
  <2>1. once' \in {"new", "busy", "done"} /\ done' \in BOOLEAN
    BY <1>19 DEF EnterOnce
  <2>2. UNCHANGED <<ctx, run, tcp, pc, poll, result, loaded, initiated, errs,
                    conf, link, reason>>
    BY <1>19 DEF EnterOnce
  <2> QED
    BY <2>1, <2>2
<1>20. ASSUME NEW t \in Threads, Terminate(t) \/ UnloadConn(t) \/ UnloadShared(t)
       PROVE  ControlTypeOK'
  <2>1. errs' \in BOOLEAN
    BY <1>20 DEF Terminate, UnloadConn, UnloadShared, Cleans
  <2>2. conf' \in BOOLEAN
    BY <1>20 DEF Terminate, UnloadConn, UnloadShared, Cleans
  <2>3. UNCHANGED <<ctx, run, tcp, pc, poll, result, loaded, initiated, once,
                    done, link, reason>>
    BY <1>20 DEF Terminate, UnloadConn, UnloadShared
  <2> QED
    BY <2>1, <2>2, <2>3
<1>21. ASSUME NEW t \in Threads,
              KeysUnloaded(t) \/ LeaveOnce(t) \/ ExternalClose(t)
       PROVE  ControlTypeOK'
  BY <1>21 DEF KeysUnloaded, LeaveOnce, ExternalClose
<1>22. ASSUME NEW t \in Threads, CloseRelay(t) PROVE ControlTypeOK'
  BY <1>22 DEF CloseRelay, ShutRelay, R!Closes
<1>23. CASE UNCHANGED vars
  BY <1>23 DEF vars
<1> QED
  BY <1>1, <1>2, <1>3, <1>4, <1>5, <1>6, <1>7, <1>8, <1>9, <1>10, <1>11,
     <1>12, <1>13, <1>14, <1>15, <1>16, <1>17, <1>18, <1>19, <1>20, <1>21,
     <1>22, <1>23
  DEF IpsecNext, Connect, Run, CloseSteps

\* The only ways in which a step moves a thread through connection.Close.
LEMMA CloseMoves ==
  ASSUME [IpsecNext]_vars
  PROVE  \/ close' = close
         \/ \E t \in Threads, spot \in CloseSpots :
                close' = [close EXCEPT ![t] = spot]
<1>1. Main \in Threads
  BY DEF Threads
<1>2. \A spot \in {"enter", "terminate", "conn", "keys", "relay", "wait", "back"} :
          spot \in CloseSpots
  BY DEF CloseSpots
<1>3. CASE close' = [close EXCEPT ![Main] = "enter"]
  BY <1>1, <1>2, <1>3
<1>4. ASSUME NEW t \in Threads, CloseSteps(t) \/ ExternalClose(t),
             close' # close
      PROVE  \E spot \in CloseSpots : close' = [close EXCEPT ![t] = spot]
  <2>1. CASE EnterOnce(t) \/ Terminate(t) \/ UnloadConn(t)
    BY <1>2, <2>1 DEF EnterOnce, Terminate, UnloadConn, CloseStep
  <2>2. CASE UnloadShared(t)
    BY <1>4, <2>2 DEF UnloadShared
  <2>3. CASE KeysUnloaded(t) \/ CloseRelay(t) \/ LeaveOnce(t) \/ ExternalClose(t)
    BY <1>2, <2>3 DEF KeysUnloaded, CloseRelay, LeaveOnce, ExternalClose, CloseStep
  <2> QED
    BY <1>4, <2>1, <2>2, <2>3 DEF CloseSteps
<1>5. CASE Interrupt \/ SetupTimeout \/ Duration \/ PeerDeletes \/ RelayStep
  BY <1>5 DEF Interrupt, SetupTimeout, Duration, PeerDeletes, RelayStep, closing
<1>6. CASE Connect
  BY <1>3, <1>6
  DEF Connect, Preflight, Dial, Token, LoadShared, LoadConn, Initiate,
      Negotiated, ConnectReturns, Unwound, UnwindRelay, RelayUnwound, Command,
      CloseAt, closing
<1>7. CASE Run
  BY <1>3, <1>7
  DEF Run, CallRun, SelectStop, SelectTransport, SelectTick, TransportDone,
      Poll, PollStopped, PollFailed, Back, Lost, RunReturns, CommandReturns,
      Finish, CloseAt, closing
<1>8. CASE UNCHANGED vars
  BY <1>8 DEF vars, closing
<1> QED
  BY <1>4, <1>5, <1>6, <1>7, <1>8 DEF IpsecNext

LEMMA KeyOrderAt ==
  ASSUME NEW n \in Nat, n < 2
  PROVE  KeyOrder[n + 1] \in {"ike", "eap"}
<1>1. CASE n = 0
  BY <1>1 DEF KeyOrder
<1>2. CASE n = 1
  BY <1>2 DEF KeyOrder
<1> QED
  BY <1>1, <1>2

LEMMA DataNext ==
  ASSUME ControlTypeOK, DataTypeOK, DaemonInv, WatchInv, [IpsecNext]_vars
  PROVE  DataTypeOK'
<1>0. Children \in Nat \ {0}
  BY IpsecAssumption
<1>1. child \in 1..Children /\ failures \in 0..3 /\ keys \in Seq({"ike", "eap"})
      /\ left \in 0..2 /\ shared \in SUBSET {"ike", "eap"} /\ sas \in SUBSET SAs
      /\ streak \in 0..3
  BY DEF DataTypeOK
<1> USE DEF contexts, calling, recorded, closing, daemon, relay
<1>2. CASE UNCHANGED <<child, failures, keys, left, shared, sas, streak>>
  BY <1>2, Zenon DEF DataTypeOK
<1>3. CASE UNCHANGED <<child, failures, left, streak>>
           /\ keys' \in Seq({"ike", "eap"}) /\ shared' \in SUBSET {"ike", "eap"}
           /\ sas' \in SUBSET SAs
  BY <1>1, <1>3, Zenon DEF DataTypeOK
<1>4. CASE Interrupt \/ SetupTimeout \/ Duration \/ RelayStep
  BY <1>2, <1>4 DEF Interrupt, SetupTimeout, Duration, RelayStep
<1>5. CASE PeerDeletes
  <2>1. sas' \in SUBSET SAs
    BY <1>1, <1>5 DEF PeerDeletes
  <2> QED
    BY <1>1, <1>3, <1>5, <2>1 DEF PeerDeletes
<1>6. CASE Preflight \/ Dial \/ Token
  BY <1>2, <1>6 DEF Preflight, Dial, Token, Goto
<1>7. CASE LoadShared
  <2>1. Len(keys) \in Nat /\ Len(keys) < 2
    <3>1. Len(keys) < 2
      BY <1>7, Zenon DEF LoadShared, DaemonInv, RecordInv
    <3> QED
      BY <1>1, <3>1, LenProperties
  <2>2. KeyOrder[Len(keys) + 1] \in {"ike", "eap"}
    BY <2>1, KeyOrderAt
  <2>3. keys' \in Seq({"ike", "eap"}) /\ shared' \in SUBSET {"ike", "eap"}
    BY <1>1, <1>7, <2>2, AppendProperties DEF LoadShared
  <2>4. UNCHANGED <<child, failures, left, streak, sas>>
    BY <1>7 DEF LoadShared, Command, CloseAt, Goto
  <2> QED
    BY <1>1, <1>3, <2>3, <2>4
<1>8. CASE LoadConn
  BY <1>2, <1>8 DEF LoadConn, Command, CloseAt, Goto
<1>9. CASE Initiate
  <2>1. child \in SAs /\ 0 \in SAs
    BY <1>0, <1>1 DEF SAs
  <2>2. child' \in 1..Children
    BY <1>0, <1>1, <1>9 DEF Initiate, NextChild, CloseAt, Goto
  <2>3. sas' \in SUBSET SAs
    BY <1>1, <1>9, <2>1 DEF Initiate
  <2>4. UNCHANGED <<failures, keys, left, shared, streak>>
    BY <1>9 DEF Initiate, CloseAt, Goto
  <2> QED
    BY <1>1, <2>2, <2>3, <2>4, Zenon DEF DataTypeOK
<1>10. CASE Negotiated \/ ConnectReturns
  BY <1>2, <1>10 DEF Negotiated, ConnectReturns, CloseAt, Goto
<1>11. CASE Unwound \/ RelayUnwound \/ UnwindRelay
  BY <1>2, <1>11 DEF Unwound, RelayUnwound, UnwindRelay, Goto
<1>12. CASE CallRun \/ SelectTransport \/ SelectTick \/ CommandReturns
  BY <1>2, <1>12 DEF CallRun, SelectTransport, SelectTick, CommandReturns, Goto
<1>13. CASE SelectStop \/ PollStopped \/ PollFailed \/ TransportDone
  BY <1>2, <1>13 DEF SelectStop, PollStopped, PollFailed, TransportDone, Finish
<1>14. CASE Poll
  <2>1. streak' \in 0..3
    BY <1>1, <1>14 DEF Poll
  <2>2. UNCHANGED <<child, failures, keys, left, shared, sas>>
    BY <1>14 DEF Poll
  <2> QED
    BY <1>1, <2>1, <2>2, Zenon DEF DataTypeOK
<1>15. CASE Back \/ Lost
  <2>1. failures' \in 0..3
    BY <1>1, <1>15 DEF Back, Lost, Counted, WatchInv
  <2>2. UNCHANGED <<child, streak, keys, left, shared, sas>>
    BY <1>15 DEF Back, Lost
  <2> QED
    BY <1>1, <2>1, <2>2, Zenon DEF DataTypeOK
<1>16. CASE RunReturns
  BY <1>2, <1>16 DEF RunReturns, CloseAt, Goto
<1>17. ASSUME NEW t \in Threads, EnterOnce(t) PROVE DataTypeOK'
  <2>1. Len(keys) \in 0..2
    <3>1. Len(keys) <= 2
      BY Zenon DEF DaemonInv, RecordInv
    <3>2. keys \in Seq({"ike", "eap"})
      BY <1>1
    <3>3. Len(keys) \in Nat
      BY <3>2
    <3>4. \A n \in Nat : n <= 2 => n \in 0..2
      OBVIOUS
    <3> QED
      BY <3>1, <3>3, <3>4, Zenon
  <2>2. left' \in 0..2
    BY <1>1, <1>17, <2>1 DEF EnterOnce
  <2>3. UNCHANGED <<child, failures, streak, keys, shared, sas>>
    BY <1>17 DEF EnterOnce
  <2> QED
    BY <1>1, <2>2, <2>3, Zenon DEF DataTypeOK
<1>18. ASSUME NEW t \in Threads, Terminate(t) PROVE DataTypeOK'
  <2>1. sas' \in SUBSET SAs
    BY <1>1, <1>18 DEF Terminate, Cleans
  <2> QED
    BY <1>1, <1>3, <1>18, <2>1 DEF Terminate
<1>19. ASSUME NEW t \in Threads, UnloadShared(t) PROVE DataTypeOK'
  <2>1. left' \in 0..2
    BY <1>1, <1>19 DEF UnloadShared
  <2>2. shared' \in SUBSET {"ike", "eap"}
    BY <1>1, <1>19 DEF UnloadShared, Cleans
  <2>3. UNCHANGED <<child, failures, streak, keys, sas>>
    BY <1>19 DEF UnloadShared
  <2> QED
    BY <1>1, <2>1, <2>2, <2>3, Zenon DEF DataTypeOK
<1>20. ASSUME NEW t \in Threads,
              UnloadConn(t) \/ KeysUnloaded(t) \/ CloseRelay(t) \/ LeaveOnce(t)
              \/ ExternalClose(t)
       PROVE  DataTypeOK'
  BY <1>2, <1>20 DEF UnloadConn, KeysUnloaded, CloseRelay, LeaveOnce, ExternalClose
<1>21. CASE UNCHANGED vars
  BY <1>2, <1>21 DEF vars
<1> QED
  BY <1>4, <1>5, <1>6, <1>7, <1>8, <1>9, <1>10, <1>11, <1>12, <1>13, <1>14,
     <1>15, <1>16, <1>17, <1>18, <1>19, <1>20, <1>21
  DEF IpsecNext, Connect, Run, CloseSteps

LEMMA TypeNext ==
  ASSUME IpsecTypeOK, DaemonInv, WatchInv, [IpsecNext]_vars
  PROVE  IpsecTypeOK'
<1>1. ControlTypeOK /\ CloseTypeOK /\ DataTypeOK
  BY TypeParts
<1>2. CloseTypeOK'
  BY <1>1, CloseMoves DEF CloseTypeOK
<1>3. ControlTypeOK' /\ DataTypeOK'
  BY <1>1, ControlNext, DataNext
<1> QED
  BY <1>2, <1>3, TypeParts, PTL

-----------------------------------------------------------------------------
(* connection.once and the relay *)

\* What loading a secret or the connection does to the control state.
LEMMA LoadsMove ==
  ASSUME LoadShared \/ LoadConn
  PROVE  /\ pc \in {"shared", "conn"}
         /\ \/ pc' \in {"shared", "conn", "initiate"} /\ close' = close
            \/ pc' = "unwind" /\ close' = [close EXCEPT ![Main] = "enter"]
         /\ UNCHANGED <<ctx, run, tcp, once, done, left, errs, link, reason>>
         /\ UNCHANGED <<child, poll, failures, result, streak, initiated, sas>>
<1> USE DEF Command, CloseAt, Goto, contexts, closing, relay
<1>1. CASE LoadShared
  BY <1>1 DEF LoadShared
<1>2. CASE LoadConn
  BY <1>2 DEF LoadConn
<1> QED
  BY <1>1, <1>2

LEMMA OnceNext ==
  ASSUME IpsecTypeOK, OnceInv, LinkInv, [IpsecNext]_vars
  PROVE  OnceInv'
<1>0. Main \in Threads /\ Main \notin Closers /\ Closers \subseteq Threads
      /\ \A t \in Threads : t # Main => t \in Closers
  BY IpsecAssumption DEF Threads
<1>1. /\ close \in [Threads -> {"out", "enter", "terminate", "conn", "keys",
                                "relay", "wait", "back"}]
      /\ once \in {"new", "busy", "done"} /\ done \in BOOLEAN
      /\ pc \in Setup \cup {"failed", "connected"} \cup Running \cup {"deferMain", "ended"}
  BY DEF IpsecTypeOK
<1> USE <1>0, <1>1
    DEF OnceInv, Setup, Running, Loading, Inside, contexts, calling, recorded,
        closing, daemon, relay
<1>2. CASE UNCHANGED <<pc, once, done, close>>
  BY <1>2
<1>3. CASE Interrupt \/ SetupTimeout \/ Duration \/ PeerDeletes \/ RelayStep
  BY <1>2, <1>3 DEF Interrupt, SetupTimeout, Duration, PeerDeletes, RelayStep
<1>4. CASE Preflight \/ Dial \/ Token
  BY <1>4 DEF Preflight, Dial, Token, Goto
<1>5. CASE LoadShared \/ LoadConn
  BY <1>5, LoadsMove
<1>6. CASE Initiate
  BY <1>6 DEF Initiate, CloseAt, Goto
<1>7. CASE Negotiated \/ ConnectReturns
  BY <1>7 DEF Negotiated, ConnectReturns, CloseAt, Goto
<1>8. CASE Unwound \/ RelayUnwound
  BY <1>8 DEF Unwound, RelayUnwound, Goto
<1>9. CASE UnwindRelay
  BY <1>9 DEF UnwindRelay, Goto
<1>10. CASE CallRun \/ SelectTransport \/ SelectTick \/ CommandReturns
  BY <1>10 DEF CallRun, SelectTransport, SelectTick, CommandReturns, Goto
<1>11. CASE SelectStop \/ PollStopped \/ PollFailed \/ TransportDone \/ Lost
  BY <1>11 DEF SelectStop, PollStopped, PollFailed, TransportDone, Finish, Lost
<1>12. CASE Poll \/ Back
  BY <1>12 DEF Poll, Back
<1>13. CASE RunReturns
  BY <1>13 DEF RunReturns, CloseAt, Goto
<1>14. ASSUME NEW t \in Threads, EnterOnce(t) PROVE OnceInv'
  BY <1>14 DEF EnterOnce, CloseStep
<1>15. ASSUME NEW t \in Threads, Terminate(t) \/ UnloadConn(t) \/ KeysUnloaded(t)
              \/ CloseRelay(t)
       PROVE  OnceInv'
  <2>1. /\ UNCHANGED <<pc, once, done>>
        /\ close[t] \in Inside
        /\ \E to \in Inside : close' = [close EXCEPT ![t] = to]
    <3>1. CASE Terminate(t)
      BY <3>1 DEF Terminate, CloseStep
    <3>2. CASE UnloadConn(t)
      BY <3>2 DEF UnloadConn, CloseStep
    <3>3. CASE KeysUnloaded(t)
      BY <3>3 DEF KeysUnloaded, CloseStep
    <3>4. CASE CloseRelay(t)
      BY <3>4 DEF CloseRelay, CloseStep
    <3> QED
      BY <1>15, <3>1, <3>2, <3>3, <3>4
  <2> QED
    BY <2>1
<1>16. ASSUME NEW t \in Threads, UnloadShared(t) PROVE OnceInv'
  BY <1>2, <1>16 DEF UnloadShared
<1>17. ASSUME NEW t \in Threads, LeaveOnce(t) PROVE OnceInv'
  BY <1>17 DEF LeaveOnce, CloseStep
<1>18. ASSUME NEW t \in Threads, ExternalClose(t) PROVE OnceInv'
  BY <1>18 DEF ExternalClose, CloseStep
<1>19. CASE UNCHANGED vars
  BY <1>2, <1>19 DEF vars
<1> QED
  BY <1>3, <1>4, <1>5, <1>6, <1>7, <1>8, <1>9, <1>10, <1>11, <1>12, <1>13,
     <1>14, <1>15, <1>16, <1>17, <1>18, <1>19
  DEF IpsecNext, Connect, Run, CloseSteps

LEMMA LinkNext ==
  ASSUME IpsecTypeOK, OnceInv, LinkInv, [IpsecNext]_vars
  PROVE  LinkInv'
<1>0. Main \in Threads /\ Main \notin Closers /\ Closers \subseteq Threads
      /\ \A t \in Threads : t # Main => t \in Closers
  BY IpsecAssumption DEF Threads
<1>1. /\ close \in [Threads -> {"out", "enter", "terminate", "conn", "keys",
                                "relay", "wait", "back"}]
      /\ once \in {"new", "busy", "done"} /\ done \in BOOLEAN /\ tcp \in BOOLEAN
      /\ link \in {"none", "up", "down", "gone"}
      /\ reason \in {"none", "nil", "error"}
      /\ pc \in Setup \cup {"failed", "connected"} \cup Running \cup {"deferMain", "ended"}
  BY DEF IpsecTypeOK
<1> USE <1>0, <1>1
    DEF LinkInv, Setup, Running, contexts, calling, recorded, closing, daemon,
        relay
<1>2. CASE UNCHANGED <<tcp, pc, once, done, close, link, reason>>
  BY <1>2
<1>3. CASE Interrupt \/ SetupTimeout \/ Duration \/ PeerDeletes
  BY <1>2, <1>3 DEF Interrupt, SetupTimeout, Duration, PeerDeletes
<1>4. CASE RelayStep
  BY <1>4 DEF RelayStep, R!Breaks, R!Ends
<1>5. CASE Preflight \/ Token
  BY <1>5 DEF Preflight, Token, Goto
<1>6. CASE Dial
  BY <1>6 DEF Dial, R!Dialled, Goto, OnceInv, Loading
<1>7. CASE LoadShared \/ LoadConn
  BY <1>7, LoadsMove
<1>8. CASE Initiate
  BY <1>8 DEF Initiate, CloseAt, Goto
<1>9. CASE Negotiated \/ ConnectReturns
  BY <1>9 DEF Negotiated, ConnectReturns, CloseAt, Goto
<1>10. CASE Unwound
  BY <1>10 DEF Unwound, Goto, OnceInv
<1>11. CASE UnwindRelay
  <2>1. \A t \in Threads : close[t] \notin {"terminate", "conn", "keys"}
    BY <1>11 DEF UnwindRelay, OnceInv, Inside
  <2> QED
    BY <1>11, <2>1 DEF UnwindRelay, ShutRelay, R!Closes, Goto
<1>12. CASE RelayUnwound
  BY <1>12 DEF RelayUnwound, Goto
<1>13. CASE CallRun \/ SelectTransport \/ SelectTick \/ CommandReturns
  BY <1>13 DEF CallRun, SelectTransport, SelectTick, CommandReturns, Goto
<1>14. CASE SelectStop \/ PollStopped \/ PollFailed \/ TransportDone \/ Lost
  BY <1>14 DEF SelectStop, PollStopped, PollFailed, TransportDone, Finish, Lost
<1>15. CASE Poll \/ Back
  BY <1>15 DEF Poll, Back
<1>16. CASE RunReturns
  BY <1>16 DEF RunReturns, CloseAt, Goto
<1>17. ASSUME NEW t \in Threads, EnterOnce(t) PROVE LinkInv'
  <2>1. once = "new" => reason # "nil"
    BY <1>17 DEF EnterOnce, CloseStep, OnceInv
  <2> QED
    BY <1>17, <2>1 DEF EnterOnce, CloseStep
<1>18. ASSUME NEW t \in Threads, Terminate(t) \/ UnloadConn(t) \/ KeysUnloaded(t)
       PROVE  LinkInv'
  <2>1. close[t] \in {"terminate", "conn", "keys"} /\ reason # "nil"
    BY <1>18 DEF Terminate, UnloadConn, KeysUnloaded, CloseStep
  <2>2. \E spot \in {"conn", "keys", "relay"} : close' = [close EXCEPT ![t] = spot]
    BY <1>18 DEF Terminate, UnloadConn, KeysUnloaded, CloseStep
  <2>3. UNCHANGED <<tcp, pc, once, done, link, reason>>
    BY <1>18 DEF Terminate, UnloadConn, KeysUnloaded
  <2> QED
    BY <2>1, <2>2, <2>3
<1>19. ASSUME NEW t \in Threads, UnloadShared(t) PROVE LinkInv'
  BY <1>2, <1>19 DEF UnloadShared
<1>20. ASSUME NEW t \in Threads, CloseRelay(t) PROVE LinkInv'
  <2>1. once = "busy" /\ done /\ \A u \in Threads \ {t} : close[u] \notin Inside
    BY <1>20 DEF CloseRelay, CloseStep, OnceInv, Inside
  <2>2. pc \notin {"preflight", "dial", "relay", "relayWait", "failed"}
    BY <1>20, <2>1 DEF OnceInv, Loading
  <2>3. link = "up" => tcp
    OBVIOUS
  <2> QED
    BY <1>20, <2>1, <2>2, <2>3
    DEF CloseRelay, ShutRelay, R!Closes, CloseStep, Inside
<1>21. ASSUME NEW t \in Threads, LeaveOnce(t) PROVE LinkInv'
  BY <1>21 DEF LeaveOnce, CloseStep
<1>22. ASSUME NEW t \in Threads, ExternalClose(t) PROVE LinkInv'
  BY <1>22 DEF ExternalClose, CloseStep
<1>23. CASE UNCHANGED vars
  BY <1>2, <1>23 DEF vars
<1> QED
  BY <1>3, <1>4, <1>5, <1>6, <1>7, <1>8, <1>9, <1>10, <1>11, <1>12, <1>13,
     <1>14, <1>15, <1>16, <1>17, <1>18, <1>19, <1>20, <1>21, <1>22, <1>23
  DEF IpsecNext, Connect, Run, CloseSteps

-----------------------------------------------------------------------------
(* The daemon: what it holds, and what Close has taken out of it.          *)

LEMMA KeysOfAppend ==
  ASSUME NEW K, NEW s \in Seq(K), NEW k \in K
  PROVE  {Append(s, k)[i] : i \in 1..Len(Append(s, k))} =
         {s[i] : i \in 1..Len(s)} \cup {k}
<1>1. Len(Append(s, k)) = Len(s) + 1 /\ Len(s) \in Nat
  BY AppendProperties, LenProperties
<1>2. \A i \in 1..Len(s) : Append(s, k)[i] = s[i]
  BY AppendProperties
<1>3. Append(s, k)[Len(s) + 1] = k
  BY AppendProperties
<1>4. 1..Len(Append(s, k)) = (1..Len(s)) \cup {Len(s) + 1}
  BY <1>1
<1> QED
  BY <1>2, <1>3, <1>4

LEMMA KeysBelow ==
  ASSUME NEW s, NEW n \in Nat, n > 0, NEW H, H \subseteq {s[i] : i \in 1..n}
  PROVE  H \ {s[n]} \subseteq {s[i] : i \in 1..(n - 1)}
<1>1. 1..n = (1..(n - 1)) \cup {n}
  OBVIOUS
<1> QED
  BY <1>1

\* Only Connect adds to what the daemon holds or to the record; while it does,
\* nobody has closed.
LEMMA OnlyShrinks ==
  ASSUME [IpsecNext]_vars, ~LoadShared, ~LoadConn, ~Initiate, ControlTypeOK
  PROVE  /\ shared' \subseteq shared
         /\ sas' \subseteq sas
         /\ conf' => conf
         /\ UNCHANGED <<keys, loaded, initiated>>
         /\ pc' \in {"initiate", "list", "check"} =>
                pc \in {"initiate", "list", "check"}
         /\ pc' \in {"preflight", "dial", "token"} =>
                pc \in {"preflight", "dial", "token"}
         /\ pc' = "shared" => pc \in {"shared", "token"}
         /\ conf' # conf => \E t \in Threads : close[t] = "conn"
<1> USE DEF contexts, calling, recorded, closing, daemon, relay
<1>0. conf \in BOOLEAN
  BY DEF ControlTypeOK
<1>1. CASE Interrupt \/ SetupTimeout \/ Duration \/ RelayStep \/ UNCHANGED vars
  BY <1>1 DEF Interrupt, SetupTimeout, Duration, RelayStep, vars
<1>2. CASE PeerDeletes
  BY <1>2 DEF PeerDeletes
<1>3. CASE Preflight \/ Dial \/ Token
  BY <1>3 DEF Preflight, Dial, Token, Goto
<1>4. CASE Negotiated \/ ConnectReturns
  BY <1>4 DEF Negotiated, ConnectReturns, CloseAt, Goto
<1>5. CASE Unwound \/ UnwindRelay \/ RelayUnwound
  BY <1>5 DEF Unwound, UnwindRelay, RelayUnwound, Goto
<1>6. CASE Run
  BY <1>6 DEF Run, CallRun, SelectStop, SelectTransport, SelectTick,
     TransportDone, Poll, PollStopped, PollFailed, Back, Lost, RunReturns,
     CommandReturns, Finish, CloseAt, Goto
<1>7. ASSUME NEW t \in Threads, EnterOnce(t) \/ KeysUnloaded(t) \/ CloseRelay(t)
             \/ LeaveOnce(t) \/ ExternalClose(t)
      PROVE  UNCHANGED <<shared, sas, conf, keys, loaded, initiated, pc>>
  BY <1>7 DEF EnterOnce, KeysUnloaded, CloseRelay, LeaveOnce, ExternalClose
<1>8. ASSUME NEW t \in Threads, Terminate(t)
      PROVE  sas' \subseteq sas
             /\ UNCHANGED <<shared, conf, keys, loaded, initiated, pc>>
  BY <1>8 DEF Terminate, Cleans
<1>9. ASSUME NEW t \in Threads, UnloadConn(t)
      PROVE  (conf' => conf) /\ close[t] = "conn"
             /\ UNCHANGED <<shared, sas, keys, loaded, initiated, pc>>
  BY <1>0, <1>9 DEF UnloadConn, Cleans, CloseStep
<1>10. ASSUME NEW t \in Threads, UnloadShared(t)
       PROVE  shared' \subseteq shared
              /\ UNCHANGED <<conf, sas, keys, loaded, initiated, pc>>
  BY <1>10 DEF UnloadShared, Cleans
<1> QED
  BY <1>1, <1>2, <1>3, <1>4, <1>5, <1>6, <1>7, <1>8, <1>9, <1>10
  DEF IpsecNext, Connect, CloseSteps

LEMMA RecordNext ==
  ASSUME ControlTypeOK, DataTypeOK, OnceInv, RecordInv, [IpsecNext]_vars
  PROVE  RecordInv'
<1>0. /\ shared \subseteq KeysUpTo(Len(keys))
      /\ conf => loaded
      /\ sas # {} => initiated
      /\ pc \in {"initiate", "list", "check"} => conf
      /\ pc \in {"preflight", "dial", "token"} => keys = <<>> /\ ~loaded /\ ~initiated
      /\ Len(keys) <= 2
      /\ pc = "shared" => Len(keys) < 2
  BY DEF RecordInv
<1>1. keys \in Seq({"ike", "eap"}) /\ Len(keys) \in Nat
  BY LenProperties DEF DataTypeOK
<1> USE DEF contexts, calling, recorded, closing, daemon, relay
<1>2. CASE LoadShared
  <2> DEFINE k == KeyOrder[Len(keys) + 1]
  <2>1. Len(keys) < 2 /\ pc = "shared"
    BY <1>0, <1>2 DEF LoadShared
  <2>2. k \in {"ike", "eap"}
    BY <1>1, <2>1, KeyOrderAt
  <2>3. keys' = Append(keys, k) /\ shared' \subseteq shared \cup {k}
    BY <1>2 DEF LoadShared
  <2>4. pc' = "shared" => Len(keys) + 1 < 2
    <3>1. Len(KeyOrder) = 2
      BY DEF KeyOrder
    <3>2. pc' = "shared" => Len(keys) + 1 < Len(KeyOrder)
      BY <1>2 DEF LoadShared, Command, CloseAt, Goto
    <3> QED
      BY <3>1, <3>2
  <2> HIDE DEF k
  <2>5. Len(keys') = Len(keys) + 1
    BY <1>1, <2>2, <2>3, AppendProperties
  <2>6. KeysUpTo(Len(keys))' = KeysUpTo(Len(keys)) \cup {k}
    BY <1>1, <2>2, <2>3, KeysOfAppend DEF KeysUpTo
  <2>7. shared' \subseteq KeysUpTo(Len(keys))'
    BY <1>0, <2>3, <2>6
  <2>8. pc' \in {"shared", "conn", "unwind"}
    BY <1>2 DEF LoadShared, Command, CloseAt, Goto
  <2>9. UNCHANGED <<loaded, initiated, conf, sas>>
    BY <1>2 DEF LoadShared
  <2>10. Len(keys)' <= 2 /\ (pc' = "shared" => Len(keys)' < 2)
    BY <1>1, <2>1, <2>4, <2>5
  <2> QED
    BY <1>0, <2>7, <2>8, <2>9, <2>10 DEF RecordInv
<1>3. CASE LoadConn
  <2>1. loaded' /\ UNCHANGED <<keys, initiated, shared, sas>>
    BY <1>3 DEF LoadConn
  <2>2. (pc' = "initiate" /\ conf') \/ pc' = "unwind"
    BY <1>3 DEF LoadConn, Command, CloseAt, Goto, Succeeds
  <2>3. KeysUpTo(Len(keys))' = KeysUpTo(Len(keys))
    BY <2>1 DEF KeysUpTo
  <2> QED
    BY <1>0, <2>1, <2>2, <2>3 DEF RecordInv
<1>4. CASE Initiate
  <2>1. initiated' /\ UNCHANGED <<keys, loaded, shared, conf>> /\ pc = "initiate"
    BY <1>4 DEF Initiate
  <2>2. pc' \in {"initiate", "list", "unwind"}
    BY <1>4 DEF Initiate, CloseAt, Goto
  <2>3. KeysUpTo(Len(keys))' = KeysUpTo(Len(keys))
    BY <2>1 DEF KeysUpTo
  <2> QED
    BY <1>0, <2>1, <2>2, <2>3 DEF RecordInv
<1>5. CASE ~LoadShared /\ ~LoadConn /\ ~Initiate
  <2>1. /\ shared' \subseteq shared
        /\ sas' \subseteq sas
        /\ conf' => conf
        /\ UNCHANGED <<keys, loaded, initiated>>
        /\ pc' \in {"initiate", "list", "check"} =>
               pc \in {"initiate", "list", "check"}
        /\ pc' \in {"preflight", "dial", "token"} =>
               pc \in {"preflight", "dial", "token"}
        /\ pc' = "shared" => pc \in {"shared", "token"}
        /\ conf' # conf => \E t \in Threads : close[t] = "conn"
    BY <1>5, OnlyShrinks
  <2>2. pc \in {"initiate", "list", "check"} => \A t \in Threads : close[t] # "conn"
    BY DEF OnceInv, Inside, Loading
  <2>3. KeysUpTo(Len(keys))' = KeysUpTo(Len(keys))
    BY <2>1 DEF KeysUpTo
  <2>4. keys = <<>> => Len(keys) < 2
    OBVIOUS
  <2> QED
    BY <1>0, <2>1, <2>2, <2>3, <2>4 DEF RecordInv
<1> QED
  BY <1>2, <1>3, <1>4, <1>5

\* A thread that is in Close has it to itself, and Connect is not loading.
LEMMA Alone ==
  ASSUME OnceInv, NEW t \in Threads, close[t] \in Inside
  PROVE  /\ once = "busy"
         /\ pc \notin Loading
         /\ \A u \in Threads : u # t => close[u] \notin Inside
BY DEF OnceInv, Inside

LEMMA LeftNext ==
  ASSUME CloseTypeOK, DataTypeOK, OnceInv, LeftInv, [IpsecNext]_vars
  PROVE  LeftInv'
<1>0. close \in [Threads -> CloseSpots] /\ Main \in Threads
  BY DEF CloseTypeOK, Threads
<1>1. /\ \A t \in Threads : close[t] \in {"terminate", "conn"} => left = Len(keys)
      /\ \A t \in Threads : close[t] = "keys" => left <= Len(keys)
  BY DEF LeftInv
<1>2. Len(keys) \in Nat /\ left \in 0..2
  BY LenProperties DEF DataTypeOK
<1> USE DEF contexts, calling, recorded, closing, daemon, relay
<1>3. CASE UNCHANGED <<close, left, keys>>
  BY <1>1, <1>3 DEF LeftInv
<1>4. CASE close' = [close EXCEPT ![Main] = "enter"] /\ UNCHANGED <<left, keys>>
  BY <1>0, <1>1, <1>4 DEF LeftInv
<1>5. CASE LoadShared \/ LoadConn \/ Initiate
  <2>1. \A t \in Threads : close[t] \notin Inside
    BY <1>5 DEF LoadShared, LoadConn, Initiate, OnceInv, Inside, Loading
  <2>2. close' = close \/ close' = [close EXCEPT ![Main] = "enter"]
    BY <1>5, LoadsMove DEF Initiate, CloseAt
  <2>3. \A t \in Threads : close'[t] \notin {"terminate", "conn", "keys"}
    BY <1>0, <2>1, <2>2 DEF Inside
  <2> QED
    BY <2>3 DEF LeftInv
<1>6. CASE Interrupt \/ SetupTimeout \/ Duration \/ PeerDeletes \/ RelayStep
  BY <1>3, <1>6 DEF Interrupt, SetupTimeout, Duration, PeerDeletes, RelayStep
<1>7. CASE Preflight \/ Dial \/ Token \/ Negotiated \/ ConnectReturns
  BY <1>3, <1>4, <1>7
  DEF Preflight, Dial, Token, Negotiated, ConnectReturns, CloseAt, Goto
<1>8. CASE Unwound \/ UnwindRelay \/ RelayUnwound
  BY <1>3, <1>8 DEF Unwound, UnwindRelay, RelayUnwound, Goto
<1>9. CASE Run
  BY <1>3, <1>4, <1>9
  DEF Run, CallRun, SelectStop, SelectTransport, SelectTick, TransportDone,
      Poll, PollStopped, PollFailed, Back, Lost, RunReturns, CommandReturns,
      Finish, CloseAt, Goto
<1>10. ASSUME NEW t \in Threads, EnterOnce(t) PROVE LeftInv'
  <2>1. CASE once = "new"
    <3>1. \A u \in Threads : close[u] \notin Inside
      BY <2>1 DEF OnceInv
    <3>2. left' = Len(keys) /\ keys' = keys
          /\ close' = [close EXCEPT ![t] = "terminate"]
      BY <1>10, <2>1 DEF EnterOnce, CloseStep
    <3> QED
      BY <1>0, <1>2, <3>1, <3>2 DEF LeftInv, Inside
  <2>2. CASE once = "done"
    <3>1. UNCHANGED <<left, keys>> /\ close' = [close EXCEPT ![t] = "back"]
      BY <1>10, <2>2 DEF EnterOnce, CloseStep
    <3> QED
      BY <1>0, <1>1, <3>1 DEF LeftInv
  <2> QED
    BY <1>10, <2>1, <2>2 DEF EnterOnce
<1>11. ASSUME NEW t \in Threads, Terminate(t) \/ UnloadConn(t) PROVE LeftInv'
  <2>1. close[t] \in {"terminate", "conn"}
        /\ \E spot \in {"conn", "keys"} : close' = [close EXCEPT ![t] = spot]
        /\ UNCHANGED <<left, keys>>
    BY <1>11 DEF Terminate, UnloadConn, CloseStep
  <2> QED
    BY <1>0, <1>1, <1>2, <2>1 DEF LeftInv
<1>12. ASSUME NEW t \in Threads, UnloadShared(t) PROVE LeftInv'
  <2>1. close[t] = "keys" /\ left > 0 /\ left' = left - 1
        /\ UNCHANGED <<close, keys>>
    BY <1>12 DEF UnloadShared
  <2>2. \A u \in Threads : close[u] \notin {"terminate", "conn"}
    BY <2>1, Alone DEF Inside
  <2>3. left' <= Len(keys)
    BY <1>1, <1>2, <2>1
  <2> QED
    BY <2>1, <2>2, <2>3 DEF LeftInv
<1>13. ASSUME NEW t \in Threads,
              KeysUnloaded(t) \/ CloseRelay(t) \/ LeaveOnce(t) \/ ExternalClose(t)
       PROVE  LeftInv'
  <2>1. UNCHANGED <<left, keys>>
        /\ \E spot \in {"enter", "relay", "wait", "back"} :
               close' = [close EXCEPT ![t] = spot]
    BY <1>13 DEF KeysUnloaded, CloseRelay, LeaveOnce, ExternalClose, CloseStep
  <2> QED
    BY <1>0, <1>1, <2>1 DEF LeftInv
<1>14. CASE UNCHANGED vars
  BY <1>3, <1>14 DEF vars
<1> QED
  BY <1>5, <1>6, <1>7, <1>8, <1>9, <1>10, <1>11, <1>12, <1>13, <1>14
  DEF IpsecNext, Connect, CloseSteps

LEMMA GoneNext ==
  ASSUME ControlTypeOK, CloseTypeOK, DataTypeOK, OnceInv, RecordInv, LeftInv,
         GoneInv, [IpsecNext]_vars
  PROVE  GoneInv'
<1>0. close \in [Threads -> CloseSpots] /\ Main \in Threads /\ conf \in BOOLEAN
      /\ errs \in BOOLEAN
  BY DEF CloseTypeOK, Threads, ControlTypeOK
<1>1. /\ ~errs => \A t \in Threads :
             /\ close[t] \in Inside \ {"terminate"} => sas = {}
             /\ close[t] \in Inside \ {"terminate", "conn"} => ~conf
             /\ close[t] = "keys" => shared \subseteq KeysUpTo(left)
             /\ close[t] \in {"relay", "wait"} => shared = {}
      /\ once = "done" /\ ~errs => Clean
      /\ pc \in {"relay", "relayWait", "failed"} => once = "done" \/ Clean
  BY DEF GoneInv
<1>2. Len(keys) \in Nat /\ left \in 0..2
  BY LenProperties DEF DataTypeOK
<1> USE DEF contexts, calling, recorded, closing, daemon, relay

\* A step that adds nothing and takes no thread a step into Close.
<1>3. ASSUME UNCHANGED <<errs, keys, left, once>>, shared' \subseteq shared,
             sas' \subseteq sas, conf' => conf,
             close' = close \/ \E t \in Threads, spot \in {"enter", "back"} :
                                   close' = [close EXCEPT ![t] = spot],
             pc' \in {"relay", "relayWait", "failed"} =>
                 \/ pc \in {"relay", "relayWait", "failed"}
                 \/ once = "done"
                 \/ Clean
      PROVE  GoneInv'
  <2>1. \A t \in Threads : close'[t] = close[t] \/ close'[t] \in {"enter", "back"}
    BY <1>0, <1>3
  <2>2. KeysUpTo(left)' = KeysUpTo(left)
    BY <1>3 DEF KeysUpTo
  <2>3. Clean => Clean'
    BY <1>3 DEF Clean
  <2>4. ASSUME ~errs, NEW t \in Threads
        PROVE  /\ close'[t] \in Inside \ {"terminate"} => sas' = {}
               /\ close'[t] \in Inside \ {"terminate", "conn"} => ~conf'
               /\ close'[t] = "keys" => shared' \subseteq KeysUpTo(left)'
               /\ close'[t] \in {"relay", "wait"} => shared' = {}
    BY <1>1, <1>3, <2>1, <2>2, <2>4 DEF Inside
  <2> QED
    BY <1>1, <1>3, <2>3, <2>4 DEF GoneInv
<1>4. CASE LoadShared \/ LoadConn \/ Initiate
  <2>1. once = "new" /\ \A t \in Threads : close[t] \notin Inside
    BY <1>4 DEF LoadShared, LoadConn, Initiate, OnceInv, Inside, Loading
  <2>2. close' = close \/ close' = [close EXCEPT ![Main] = "enter"]
    BY <1>4, LoadsMove DEF Initiate, CloseAt
  <2>3. \A t \in Threads : close'[t] \notin Inside
    BY <1>0, <2>1, <2>2 DEF Inside
  <2>4. once' = once /\ pc' \notin {"relay", "relayWait", "failed"}
    BY <1>4, LoadsMove DEF Initiate, CloseAt, Goto
  <2> QED
    BY <2>1, <2>3, <2>4 DEF GoneInv, Inside
<1>5. CASE Interrupt \/ SetupTimeout \/ Duration \/ PeerDeletes \/ RelayStep
           \/ UNCHANGED vars
  BY <1>3, <1>5
  DEF Interrupt, SetupTimeout, Duration, PeerDeletes, RelayStep, vars
<1>6. CASE Preflight \/ Dial \/ Token
  <2>1. Clean
    BY <1>6, <1>0 DEF Preflight, Dial, Token, RecordInv, KeysUpTo, Clean
  <2> QED
    BY <1>3, <1>6, <2>1 DEF Preflight, Dial, Token, Goto
<1>7. CASE Negotiated \/ ConnectReturns
  BY <1>0, <1>3, <1>7 DEF Negotiated, ConnectReturns, CloseAt, Goto
<1>8. CASE Unwound \/ UnwindRelay \/ RelayUnwound
  <2>1. pc = "unwind" /\ Unwound => once = "done"
    BY <1>0 DEF Unwound, OnceInv
  <2> QED
    BY <1>3, <1>8, <2>1 DEF Unwound, UnwindRelay, RelayUnwound, Goto
<1>9. CASE Run
  BY <1>0, <1>3, <1>9
  DEF Run, CallRun, SelectStop, SelectTransport, SelectTick, TransportDone,
      Poll, PollStopped, PollFailed, Back, Lost, RunReturns, CommandReturns,
      Finish, CloseAt, Goto
<1>10. ASSUME NEW t \in Threads, EnterOnce(t) PROVE GoneInv'
  <2>1. CASE once = "new"
    <3>1. \A u \in Threads : close[u] \notin Inside
      BY <2>1 DEF OnceInv
    <3>2. once' = "busy" /\ UNCHANGED <<errs, shared, conf, sas, pc>>
          /\ close' = [close EXCEPT ![t] = "terminate"]
      BY <1>10, <2>1 DEF EnterOnce, CloseStep
    <3>3. \A u \in Threads : close'[u] \in Inside => close'[u] = "terminate"
      BY <1>0, <3>1, <3>2
    <3>4. pc' \in {"relay", "relayWait", "failed"} => Clean'
      BY <1>1, <2>1, <3>2 DEF Clean
    <3> QED
      BY <3>2, <3>3, <3>4 DEF GoneInv, Inside
  <2>2. CASE once = "done"
    BY <1>3, <1>10, <2>2 DEF EnterOnce, CloseStep
  <2> QED
    BY <1>10, <2>1, <2>2 DEF EnterOnce
\* A step of the thread t that is inside.
<1>11. ASSUME NEW t \in Threads, close[t] \in Inside, once' = once,
              \A u \in Threads : u # t => close'[u] = close[u],
              pc' = pc, Clean => Clean',
              ~errs' =>
                 /\ close'[t] \in Inside \ {"terminate"} => sas' = {}
                 /\ close'[t] \in Inside \ {"terminate", "conn"} => ~conf'
                 /\ close'[t] = "keys" => shared' \subseteq KeysUpTo(left)'
                 /\ close'[t] \in {"relay", "wait"} => shared' = {}
       PROVE  GoneInv'
  <2>1. once = "busy" /\ \A u \in Threads : u # t => close[u] \notin Inside
    BY <1>11, Alone
  <2>2. \A u \in Threads : u # t => close'[u] \notin Inside
    BY <1>11, <2>1
  <2>3. once' # "done"
    BY <1>11, <2>1
  <2>4. pc' \in {"relay", "relayWait", "failed"} => Clean'
    BY <1>1, <1>11, <2>1
  <2> QED
    BY <1>11, <2>2, <2>3, <2>4 DEF GoneInv, Inside
<1>12. ASSUME NEW t \in Threads, Terminate(t) PROVE GoneInv'
  <2>1. close[t] = "terminate" /\ close' = [close EXCEPT ![t] = "conn"]
        /\ UNCHANGED <<once, pc, shared, conf>>
    BY <1>12 DEF Terminate, CloseStep
  <2>2. (~errs' => sas' = {}) /\ (sas = {} => sas' = {})
    BY <1>0, <1>12 DEF Terminate, Cleans, RecordInv
  <2> QED
    BY <1>0, <1>11, <2>1, <2>2 DEF Inside, Clean
<1>13. ASSUME NEW t \in Threads, UnloadConn(t) PROVE GoneInv'
  <2>1. close[t] = "conn" /\ close' = [close EXCEPT ![t] = "keys"]
        /\ UNCHANGED <<once, pc, shared, sas, left, keys>>
    BY <1>13 DEF UnloadConn, CloseStep
  <2>2. (~errs' => ~conf' /\ ~errs) /\ (~conf => ~conf')
    BY <1>0, <1>13 DEF UnloadConn, Cleans, RecordInv
  <2>3. shared' \subseteq KeysUpTo(left)'
    <3>1. left = Len(keys)
      BY <2>1 DEF LeftInv
    <3> QED
      BY <2>1, <3>1 DEF KeysUpTo, RecordInv
  <2>4. ~errs => sas = {}
    BY <1>1, <2>1 DEF Inside
  <2> QED
    BY <1>0, <1>11, <2>1, <2>2, <2>3, <2>4 DEF Inside, Clean
<1>14. ASSUME NEW t \in Threads, UnloadShared(t) PROVE GoneInv'
  <2>1. close[t] = "keys" /\ left > 0 /\ left' = left - 1
        /\ UNCHANGED <<close, once, pc, conf, sas, keys>>
    BY <1>14 DEF UnloadShared
  <2>2. (~errs' => shared' = shared \ {keys[left]} /\ ~errs)
        /\ (shared = {} => shared' = {})
    BY <1>0, <1>14 DEF UnloadShared, Cleans
  <2>3. ~errs => sas = {} /\ ~conf /\ shared \subseteq KeysUpTo(left)
    BY <1>1, <2>1 DEF Inside
  <2>4. ~errs' => shared' \subseteq KeysUpTo(left)'
    <3>1. ASSUME ~errs'
          PROVE  shared \ {keys[left]} \subseteq {keys[i] : i \in 1..(left - 1)}
      BY <1>2, <2>1, <2>2, <2>3, <3>1, KeysBelow DEF KeysUpTo
    <3> QED
      BY <2>1, <2>2, <3>1 DEF KeysUpTo
  <2> QED
    BY <1>0, <1>11, <2>1, <2>2, <2>3, <2>4 DEF Inside, Clean
<1>15. ASSUME NEW t \in Threads, KeysUnloaded(t) PROVE GoneInv'
  <2>1. close[t] = "keys" /\ left = 0 /\ close' = [close EXCEPT ![t] = "relay"]
        /\ UNCHANGED <<once, pc, errs, shared, conf, sas>>
    BY <1>15 DEF KeysUnloaded, CloseStep
  <2>2. KeysUpTo(left) = {}
    BY <2>1 DEF KeysUpTo
  <2>3. ~errs => sas = {} /\ ~conf /\ shared = {}
    BY <1>1, <2>1, <2>2 DEF Inside
  <2> QED
    BY <1>0, <1>11, <2>1, <2>3 DEF Inside, Clean
<1>16. ASSUME NEW t \in Threads, CloseRelay(t) PROVE GoneInv'
  <2>1. close[t] = "relay" /\ close' = [close EXCEPT ![t] = "wait"]
        /\ UNCHANGED <<once, pc, errs, shared, conf, sas>>
    BY <1>16 DEF CloseRelay, CloseStep
  <2>2. ~errs => sas = {} /\ ~conf /\ shared = {}
    BY <1>1, <2>1 DEF Inside
  <2> QED
    BY <1>0, <1>11, <2>1, <2>2 DEF Inside, Clean
<1>17. ASSUME NEW t \in Threads, LeaveOnce(t) PROVE GoneInv'
  <2>1. close[t] = "wait" /\ close' = [close EXCEPT ![t] = "back"] /\ once' = "done"
        /\ UNCHANGED <<pc, errs, shared, conf, sas>>
    BY <1>17 DEF LeaveOnce, CloseStep
  <2>2. ~errs => Clean'
    BY <1>1, <2>1 DEF Inside, Clean
  <2>3. \A u \in Threads : close'[u] \notin Inside
    BY <1>0, <2>1, Alone DEF Inside
  <2> QED
    BY <2>1, <2>2, <2>3 DEF GoneInv, Inside
<1>18. ASSUME NEW t \in Threads, ExternalClose(t) PROVE GoneInv'
  BY <1>3, <1>18 DEF ExternalClose, CloseStep
<1> QED
  BY <1>4, <1>5, <1>6, <1>7, <1>8, <1>9, <1>10, <1>12, <1>13, <1>14, <1>15,
     <1>16, <1>17, <1>18
  DEF IpsecNext, Connect, CloseSteps

-----------------------------------------------------------------------------
(* The watch that Run keeps                                                *)

LEMMA WatchNext ==
  ASSUME ControlTypeOK, DataTypeOK, LinkInv, WatchInv, [IpsecNext]_vars
  PROVE  WatchInv'
<1>0. /\ run \in {"live", "due", "done"}
      /\ poll \in {"none", "interrupted", "refused", "good", "bad"}
      /\ pc \in Places
  BY DEF ControlTypeOK
<1>1. failures \in 0..3 /\ streak \in 0..3
  BY DEF DataTypeOK
<1> USE <1>0, <1>1
    DEF Places, WatchInv, ErrorsAreReal, Setup, contexts, calling, recorded,
        closing, daemon, relay

\* Steps that leave the watch as it is, between places where nothing is due.
<1>2. CASE UNCHANGED <<poll, failures, result, streak, run>>
           /\ \/ pc' = pc
              \/ pc' \in Setup \cup {"failed", "connected"} /\ pc \in Setup
              \/ pc' \in {"select", "transport", "poll"}
                 /\ pc \in {"connected", "select"}
              \/ pc' \in {"deferMain", "ended"} /\ pc \in {"deferRun", "deferMain"}
  BY <1>2
<1>3. CASE Interrupt \/ SetupTimeout \/ Duration
  BY <1>3 DEF Interrupt, SetupTimeout, Duration
<1>4. CASE PeerDeletes \/ RelayStep
  BY <1>2, <1>4 DEF PeerDeletes, RelayStep
<1>5. CASE Preflight \/ Dial \/ Token
  BY <1>2, <1>5 DEF Preflight, Dial, Token, Goto
<1>6. CASE LoadShared \/ LoadConn
  BY <1>2, <1>6, LoadsMove
<1>7. CASE Initiate
  BY <1>2, <1>7 DEF Initiate, CloseAt, Goto
<1>8. CASE Negotiated \/ ConnectReturns
  BY <1>2, <1>8 DEF Negotiated, ConnectReturns, CloseAt, Goto
<1>9. CASE Unwound \/ UnwindRelay \/ RelayUnwound
  BY <1>2, <1>9 DEF Unwound, UnwindRelay, RelayUnwound, Goto
<1>10. CASE CallRun \/ SelectTransport \/ SelectTick \/ RunReturns \/ CommandReturns
  BY <1>2, <1>10
  DEF CallRun, SelectTransport, SelectTick, RunReturns, CommandReturns, CloseAt, Goto
<1>11. CASE SelectStop \/ PollStopped
  BY <1>11 DEF SelectStop, PollStopped, Finish
<1>12. CASE TransportDone
  <2>1. reason = "nil" => done
    BY <1>12 DEF TransportDone, LinkInv
  <2>2. reason \in {"nil", "error"}
    BY <1>12 DEF TransportDone, LinkInv, ControlTypeOK
  <2>3. TransportResult \in {"nil", "transport"}
    BY <2>1, <2>2 DEF TransportResult
  <2> QED
    BY <1>12, <2>3 DEF TransportDone, Finish
<1>13. CASE Poll
  <2>1. pc' = "polled" /\ pc = "poll"
        /\ UNCHANGED <<failures, result, run>>
    BY <1>13 DEF Poll
  <2>2. poll' \in {"interrupted", "refused", "good", "bad"}
        /\ (poll' = "interrupted" => run # "live")
    BY <1>13 DEF Poll, Answers
  <2>3. (poll' = "good" => streak' = 0) /\ (poll' = "bad" => streak' = streak + 1)
    BY <1>13 DEF Poll
  <2> QED
    BY <2>1, <2>2, <2>3
<1>14. CASE PollFailed
  BY <1>14 DEF PollFailed, Finish, Stopped
<1>15. CASE Back
  <2>1. pc = "polled" /\ pc' = "select" /\ poll' = "none" /\ failures' = streak
        /\ streak < 3 /\ UNCHANGED <<result, streak, run>>
    BY <1>15 DEF Back, Counted
  <2> QED
    BY <2>1
<1>16. CASE Lost
  <2>1. pc = "polled" /\ pc' = "deferRun" /\ result' = "lost" /\ streak = 3
        /\ UNCHANGED <<poll, streak, run>>
    BY <1>16 DEF Lost, Counted
  <2> QED
    BY <2>1
<1>17. ASSUME NEW t \in Threads, CloseSteps(t) \/ ExternalClose(t)
       PROVE  UNCHANGED <<pc, poll, failures, result, streak, run>>
  BY <1>17 DEF CloseSteps, ExternalClose, EnterOnce, Terminate, UnloadConn,
     UnloadShared, KeysUnloaded, CloseRelay, LeaveOnce
<1>18. CASE UNCHANGED vars
  BY <1>2, <1>18 DEF vars
<1> QED
  BY <1>2, <1>3, <1>4, <1>5, <1>6, <1>7, <1>8, <1>9, <1>10, <1>11, <1>12,
     <1>13, <1>14, <1>15, <1>16, <1>17, <1>18
  DEF IpsecNext, Connect, Run

-----------------------------------------------------------------------------
(* What every reachable state satisfies                                    *)

LEMMA IpsecInvNext == IpsecInv /\ [IpsecNext]_vars => IpsecInv'
<1> SUFFICES ASSUME IpsecInv, [IpsecNext]_vars PROVE IpsecInv'
  OBVIOUS
<1>1. IpsecTypeOK /\ OnceInv /\ LinkInv /\ DaemonInv /\ WatchInv
  BY DEF IpsecInv
<1>2. ControlTypeOK /\ CloseTypeOK /\ DataTypeOK
  BY <1>1, TypeParts
<1>3. RecordInv /\ LeftInv /\ GoneInv
  BY <1>1 DEF DaemonInv
<1>4. IpsecTypeOK'
  BY <1>1, TypeNext
<1>5. OnceInv' /\ LinkInv'
  BY <1>1, OnceNext, LinkNext
<1>6. DaemonInv'
  BY <1>1, <1>2, <1>3, RecordNext, LeftNext, GoneNext DEF DaemonInv
<1>7. WatchInv'
  BY <1>1, <1>2, WatchNext
<1> QED
  BY <1>4, <1>5, <1>6, <1>7 DEF IpsecInv

LEMMA IpsecInvariant == IpsecSpec => []IpsecInv
BY IpsecInvInit, IpsecInvNext, PTL DEF IpsecSpec

(* Every variable of the session keeps its type, for any number of children *)
(* and of callers of Close.                                                 *)
THEOREM IpsecTypeCorrect == IpsecSpec => []IpsecTypeOK
<1>1. IpsecInv => IpsecTypeOK
  BY DEF IpsecInv
<1> QED
  BY <1>1, IpsecInvariant, PTL

(* When connection.Close reports no error, the daemon holds nothing of the  *)
(* session, whatever became of the commands of Connect that failed and      *)
(* whoever called Close.                                                    *)
THEOREM CloseCleansOrReports == IpsecSpec => []CleanOrReported
<1>1. IpsecInv => CleanOrReported
  BY DEF IpsecInv, DaemonInv, GoneInv, CleanOrReported
<1> QED
  BY <1>1, IpsecInvariant, PTL

(* A Connect that has failed and a Run that has returned leave neither the  *)
(* relay nor, unless a command of Close failed, anything in the daemon.     *)
THEOREM ReturningReleases == IpsecSpec => []ReturnReleases
<1>1. IpsecInv => ReturnReleases
  BY DEF IpsecInv, OnceInv, LinkInv, DaemonInv, GoneInv, ReturnReleases
<1> QED
  BY <1>1, IpsecInvariant, PTL

(* The session does not take its relay down before the last command to the  *)
(* daemon that may need it.                                                 *)
THEOREM RelayIsClosedLast == IpsecSpec => []RelayClosedLast
<1>1. IpsecInv => RelayClosedLast
  BY DEF IpsecInv, LinkInv, RelayClosedLast
<1> QED
  BY <1>1, IpsecInvariant, PTL

(* Run reports no failed poll that its deadline has caused, no relay that   *)
(* went down without a reason, and no loss before the third bad poll in a   *)
(* row.                                                                     *)
THEOREM RunErrorsAreReal == IpsecSpec => []ErrorsAreReal
<1>1. IpsecInv => ErrorsAreReal
  BY DEF IpsecInv, WatchInv
<1> QED
  BY <1>1, IpsecInvariant, PTL

LEMMA StepIsOrderly ==
  ASSUME [IpsecNext]_vars, result = "none", result' \in Errors
  PROVE  ~done /\ run # "done"
<1> USE DEF contexts, calling, recorded, closing, daemon, relay
<1>1. CASE result' = result
  BY <1>1 DEF Errors
<1>2. CASE Interrupt \/ SetupTimeout \/ Duration \/ PeerDeletes \/ RelayStep
           \/ UNCHANGED vars
  BY <1>1, <1>2
  DEF Interrupt, SetupTimeout, Duration, PeerDeletes, RelayStep, vars
<1>3. CASE Connect
  BY <1>1, <1>3
  DEF Connect, Preflight, Dial, Token, LoadShared, LoadConn, Initiate,
      Negotiated, ConnectReturns, Unwound, UnwindRelay, RelayUnwound, Command,
      CloseAt, Goto
<1>4. CASE CallRun \/ SelectTransport \/ SelectTick \/ Poll \/ Back
           \/ RunReturns \/ CommandReturns
  BY <1>1, <1>4
  DEF CallRun, SelectTransport, SelectTick, Poll, Back, RunReturns,
      CommandReturns, CloseAt, Goto
<1>5. CASE SelectStop \/ PollStopped
  BY <1>5 DEF SelectStop, PollStopped, Finish, Errors
<1>6. CASE TransportDone
  BY <1>6 DEF TransportDone, Finish, TransportResult, Errors
<1>7. CASE PollFailed \/ Lost
  BY <1>7 DEF PollFailed, Lost, Stopped
<1>8. ASSUME NEW t \in Threads, CloseSteps(t) \/ ExternalClose(t)
      PROVE  result' = result
  BY <1>8 DEF CloseSteps, ExternalClose, EnterOnce, Terminate, UnloadConn,
     UnloadShared, KeysUnloaded, CloseRelay, LeaveOnce
<1> QED
  BY <1>1, <1>2, <1>3, <1>4, <1>5, <1>6, <1>7, <1>8 DEF IpsecNext, Run

(* Run chooses no error once its context is done or a Close has begun.      *)
THEOREM RunStopsOrderly == IpsecSpec => OrderlyStop
<1>1. [IpsecNext]_vars =>
      [result = "none" /\ result' \in Errors => ~done /\ run # "done"]_vars
  BY StepIsOrderly
<1> QED
  BY <1>1, PTL DEF IpsecSpec, OrderlyStop

-----------------------------------------------------------------------------
(* The promises of session.go                                              *)

\* What a session holds: its relay, and what it has put into the daemon until
\* a Close has come to its end.  The mapping of IpsecSession.
Held == link \in {"up", "down"} \/ (once # "done" /\ ~Clean)

Stage == IF pc \in Setup THEN "setup"
         ELSE IF pc = "connected" THEN "open"
         ELSE IF pc \in Running THEN "running"
         ELSE IF pc = "failed" THEN "failed" ELSE "ended"

\* Once Connect is over, nothing is acquired any more.
LEMMA HeldFalls ==
  ASSUME IpsecInv, [IpsecNext]_vars, pc \notin Setup
  PROVE  Held' => Held
<1>0. ControlTypeOK /\ OnceInv /\ LinkInv
  BY TypeParts DEF IpsecInv
<1>1. ~Preflight /\ ~Dial /\ ~Token /\ ~LoadShared /\ ~LoadConn /\ ~Initiate
      /\ ~Negotiated /\ ~ConnectReturns /\ ~Unwound /\ ~UnwindRelay /\ ~RelayUnwound
  BY DEF Setup, Preflight, Dial, Token, LoadShared, LoadConn, Initiate,
     Negotiated, ConnectReturns, Unwound, UnwindRelay, RelayUnwound
<1>2. Clean => Clean'
  <2>1. shared' \subseteq shared /\ sas' \subseteq sas /\ (conf' => conf)
    BY <1>0, <1>1, OnlyShrinks
  <2> QED
    BY <2>1 DEF Clean
<1> USE DEF contexts, calling, recorded, closing, daemon, relay
<1>3. link' \in {"up", "down"} => link \in {"up", "down"}
  <2>1. CASE Interrupt \/ SetupTimeout \/ Duration \/ PeerDeletes \/ UNCHANGED vars
    BY <2>1 DEF Interrupt, SetupTimeout, Duration, PeerDeletes, vars
  <2>2. CASE RelayStep
    BY <2>2 DEF RelayStep, R!Breaks, R!Ends
  <2>3. CASE Run
    BY <2>3 DEF Run, CallRun, SelectStop, SelectTransport, SelectTick,
       TransportDone, Poll, PollStopped, PollFailed, Back, Lost, RunReturns,
       CommandReturns, Finish
  <2>4. ASSUME NEW t \in Threads, CloseSteps(t) \/ ExternalClose(t)
        PROVE  link' = link \/ link = "up"
    BY <2>4 DEF CloseSteps, ExternalClose, EnterOnce, Terminate, UnloadConn,
       UnloadShared, KeysUnloaded, CloseRelay, LeaveOnce, ShutRelay, R!Closes
  <2> QED
    BY <1>1, <2>1, <2>2, <2>3, <2>4 DEF IpsecNext, Connect
<1>4. once = "done" => once' = "done"
  <2>1. CASE Interrupt \/ SetupTimeout \/ Duration \/ PeerDeletes \/ RelayStep
             \/ UNCHANGED vars
    BY <2>1 DEF Interrupt, SetupTimeout, Duration, PeerDeletes, RelayStep, vars
  <2>2. CASE Run
    BY <2>2 DEF Run, CallRun, SelectStop, SelectTransport, SelectTick,
       TransportDone, Poll, PollStopped, PollFailed, Back, Lost, RunReturns,
       CommandReturns, Finish, CloseAt
  <2>3. ASSUME NEW t \in Threads, CloseSteps(t) \/ ExternalClose(t)
        PROVE  once = "done" => once' = "done"
    BY <2>3 DEF CloseSteps, ExternalClose, EnterOnce, Terminate, UnloadConn,
       UnloadShared, KeysUnloaded, CloseRelay, LeaveOnce
  <2> QED
    BY <1>1, <2>1, <2>2, <2>3 DEF IpsecNext, Connect
<1> QED
  BY <1>2, <1>3, <1>4 DEF Held

\* The steps that move the caller of the session on, and what they leave alone.
LEMMA StageMoves ==
  ASSUME IpsecInv, [IpsecNext]_vars
  PROVE  \/ Stage' = Stage
         \/ /\ Stage = "setup" /\ Stage' = "failed" /\ ~Held
         \/ /\ Stage = "setup" /\ Stage' = "open" /\ Held
         \/ /\ Stage = "open" /\ Stage' = "running"
         \/ /\ Stage = "running" /\ Stage' = "ended" /\ ~Held
<1>0. ControlTypeOK /\ CloseTypeOK /\ OnceInv /\ LinkInv /\ RecordInv /\ GoneInv
  BY TypeParts DEF IpsecInv, DaemonInv
<1> USE DEF contexts, calling, recorded, closing, daemon, relay
<1>1. CASE pc' = pc
  BY <1>1 DEF Stage
<1>2. CASE pc \in Setup /\ pc' \in Setup
  BY <1>2 DEF Stage
<1>3. CASE pc \in Running /\ pc' \in Running
  BY <1>3 DEF Stage, Setup, Running
<1>4. CASE pc = "deferMain" /\ pc' = "ended"
  BY <1>4 DEF Stage, Setup, Running
<1>5. CASE pc \in {"preflight", "dial", "token", "unwind", "relayWait"} /\ pc' = "failed"
           /\ ~Held
  BY <1>5 DEF Stage, Setup, Running
<1>6. CASE Interrupt \/ SetupTimeout \/ Duration \/ PeerDeletes \/ RelayStep
           \/ UNCHANGED vars
  BY <1>1, <1>6 DEF Interrupt, SetupTimeout, Duration, PeerDeletes, RelayStep, vars
<1>7. CASE Preflight \/ Dial \/ Token
  <2>1. Clean
    BY <1>7, <1>0 DEF Preflight, Dial, Token, RecordInv, KeysUpTo, Clean, ControlTypeOK
  <2>2. Preflight \/ Dial => link = "none"
    BY <1>0 DEF Preflight, Dial, LinkInv
  <2>3. Token /\ pc' = "failed" => link = "none"
    BY <1>0 DEF Token, Goto, LinkInv
  <2>4. Preflight \/ Dial \/ Token =>
            pc \in {"preflight", "dial", "token"}
            /\ pc' \in Setup \cup {"failed"}
    BY DEF Preflight, Dial, Token, Goto, Setup
  <2>5. pc \in Setup
    BY <1>7, <2>4 DEF Setup
  <2>6. pc' = "failed" => link = "none"
    BY <1>7, <2>2, <2>3
  <2>7. pc' = "failed" => ~Held
    BY <2>1, <2>6 DEF Held
  <2> QED
    BY <1>2, <1>5, <1>7, <2>4, <2>5, <2>7
<1>8. CASE LoadShared \/ LoadConn \/ Initiate \/ Negotiated
  BY <1>2, <1>8, LoadsMove DEF Initiate, Negotiated, CloseAt, Goto, Setup
<1>9. CASE ConnectReturns
  <2>1. pc = "check" /\ pc' \in {"unwind", "connected"}
    BY <1>9 DEF ConnectReturns, CloseAt, Goto
  <2>2. Held
    BY <1>0, <2>1 DEF Held, RecordInv, OnceInv, Loading, Clean
  <2> QED
    BY <2>1, <2>2 DEF Stage, Setup, Running
<1>10. CASE Unwound \/ UnwindRelay \/ RelayUnwound
  <2>1. UnwindRelay => pc \in Setup /\ pc' \in Setup
    BY DEF UnwindRelay, Goto, Setup
  <2>2. Unwound => once = "done" /\ pc = "unwind"
                   /\ (pc' = "relay" \/ (pc' = "failed" /\ ~tcp))
    BY <1>0 DEF Unwound, Goto, OnceInv, CloseTypeOK, Threads
  <2>3. RelayUnwound => link = "gone" /\ pc = "relayWait" /\ pc' = "failed"
    BY DEF RelayUnwound, Goto
  <2>4. RelayUnwound => ~Held
    BY <1>0, <2>3 DEF GoneInv, Held
  <2>5. Unwound => ~Held
    BY <1>0, <2>2 DEF LinkInv, Held
  <2>6. "unwind" \in Setup /\ "relay" \in Setup
    BY DEF Setup
  <2> QED
    BY <1>2, <1>5, <1>10, <2>1, <2>2, <2>3, <2>4, <2>5, <2>6
<1>11. CASE CallRun
  BY <1>11 DEF CallRun, Goto, Stage, Setup, Running
<1>12. CASE SelectStop \/ SelectTransport \/ SelectTick \/ TransportDone \/ Poll
            \/ PollStopped \/ PollFailed \/ Back \/ Lost
  BY <1>3, <1>12 DEF SelectStop, SelectTransport, SelectTick, TransportDone,
     Poll, PollStopped, PollFailed, Back, Lost, Finish, Goto, Running
<1>13. CASE RunReturns
  <2>1. pc = "deferRun" /\ pc' = "deferMain" /\ once = "done"
    BY <1>0, <1>13 DEF RunReturns, CloseAt, Goto, OnceInv, Threads
  <2>2. ~Held
    BY <1>0, <2>1 DEF LinkInv, Held
  <2> QED
    BY <2>1, <2>2 DEF Stage, Setup, Running
<1>14. CASE CommandReturns
  BY <1>4, <1>14 DEF CommandReturns, Goto
<1>15. ASSUME NEW t \in Threads, CloseSteps(t) \/ ExternalClose(t)
       PROVE  pc' = pc
  BY <1>15 DEF CloseSteps, ExternalClose, EnterOnce, Terminate, UnloadConn,
     UnloadShared, KeysUnloaded, CloseRelay, LeaveOnce
<1> QED
  BY <1>1, <1>6, <1>7, <1>8, <1>9, <1>10, <1>11, <1>12, <1>13, <1>14, <1>15
  DEF IpsecNext, Connect, Run

\* A step that moves the caller on changes nothing that is held.
LEMMA MovesHoldStill ==
  ASSUME IpsecInv, [IpsecNext]_vars, Stage' # Stage
  PROVE  Held' = Held
<1> USE DEF contexts, calling, recorded, closing, daemon, relay
<1>1. pc' # pc /\ ~(pc \in Setup /\ pc' \in Setup)
  BY DEF Stage
<1>2. CASE UNCHANGED <<link, once, shared, conf, sas>>
  BY <1>2 DEF Held, Clean
<1>3. CASE Interrupt \/ SetupTimeout \/ Duration \/ PeerDeletes \/ RelayStep
           \/ UNCHANGED vars
  BY <1>1, <1>3 DEF Interrupt, SetupTimeout, Duration, PeerDeletes, RelayStep, vars
<1>4. CASE Preflight \/ Dial \/ Token
  BY <1>1, <1>2, <1>4 DEF Preflight, Dial, Token, Goto, Setup
<1>5. CASE LoadShared \/ LoadConn
  BY <1>1, <1>5, LoadsMove DEF Setup
<1>6. CASE Initiate
  BY <1>1, <1>6 DEF Initiate, CloseAt, Goto, Setup
<1>7. CASE Negotiated \/ ConnectReturns
  BY <1>2, <1>7 DEF Negotiated, ConnectReturns, CloseAt, Goto
<1>8. CASE Unwound \/ RelayUnwound
  BY <1>2, <1>8 DEF Unwound, RelayUnwound
<1>9. CASE UnwindRelay
  BY <1>1, <1>9 DEF UnwindRelay, Goto, Setup
<1>10. CASE Run
  BY <1>2, <1>10 DEF Run, CallRun, SelectStop, SelectTransport, SelectTick,
     TransportDone, Poll, PollStopped, PollFailed, Back, Lost, RunReturns,
     CommandReturns, Finish, CloseAt
<1>11. ASSUME NEW t \in Threads, CloseSteps(t) \/ ExternalClose(t)
       PROVE  pc' = pc
  BY <1>11 DEF CloseSteps, ExternalClose, EnterOnce, Terminate, UnloadConn,
     UnloadShared, KeysUnloaded, CloseRelay, LeaveOnce
<1> QED
  BY <1>1, <1>3, <1>4, <1>5, <1>6, <1>7, <1>8, <1>9, <1>10, <1>11
  DEF IpsecNext, Connect

LEMMA StageAndHeld ==
  [Session!ContractNext]_(Session!contract) <=>
      \/ \/ Stage = "setup" /\ Held' = TRUE /\ Stage' = Stage
         \/ Stage = "setup" /\ Held' = FALSE /\ Stage' = Stage
         \/ Stage = "setup" /\ ~Held /\ Stage' = "failed" /\ Held' = Held
         \/ Stage = "setup" /\ Held /\ Stage' = "open" /\ Held' = Held
         \/ Stage = "open" /\ Stage' = "running" /\ Held' = Held
         \/ Stage \in {"open", "running"} /\ Held' = FALSE /\ Stage' = Stage
         \/ Stage = "running" /\ ~Held /\ Stage' = "ended" /\ Held' = Held
      \/ Stage' = Stage /\ Held' = Held
BY Zenon
DEF Session!ContractNext, Session!contract, Session!Acquire, Session!Unwind,
    Session!ConnectFails, Session!ConnectReturns, Session!RunCalled,
    Session!Release, Session!RunReturns, Stage, Held

(* The IPsec session keeps the contract of session.go: a Connect that fails *)
(* has released what it acquired, Run returns with everything released, and *)
(* nothing is acquired again once Connect has returned.                     *)
THEOREM IpsecImplementsContract == IpsecSpec => ImplementsContract
<1>1. IpsecInit => Session!ContractInit
  BY DEF IpsecInit, Session!ContractInit, R!RelayContractInit, Setup, Clean
<1>2. IpsecInv /\ [IpsecNext]_vars => [Session!ContractNext]_(Session!contract)
  <2> SUFFICES ASSUME IpsecInv, [IpsecNext]_vars
               PROVE  [Session!ContractNext]_(Session!contract)
    OBVIOUS
  <2>1. CASE Stage' # Stage
    <3>1. Held' = Held
      BY <2>1, MovesHoldStill
    <3> QED
      BY <2>1, <3>1, StageMoves, StageAndHeld
  <2>2. CASE Stage' = Stage /\ pc \in Setup
    <3>1. Stage = "setup" /\ Held' \in BOOLEAN
      BY <2>2 DEF Stage, Held
    <3> QED
      BY <2>2, <3>1, StageAndHeld
  <2>3. CASE Stage' = Stage /\ pc \notin Setup /\ ~Held
    <3>1. Held' = Held
      BY <2>3, HeldFalls DEF Held
    <3> QED
      BY <2>3, <3>1, StageAndHeld
  <2>4. CASE Stage' = Stage /\ pc \notin Setup /\ Held
    <3>1. Stage \in {"open", "running"}
      <4>1. pc \notin {"failed", "deferMain", "ended"}
        BY <2>4 DEF Held, IpsecInv, OnceInv, LinkInv, DaemonInv, GoneInv
      <4>2. pc \in Places
        BY TypeParts DEF IpsecInv, ControlTypeOK
      <4> QED
        BY <2>4, <4>1, <4>2 DEF Stage, Places, Setup, Running
    <3>2. Held' \in BOOLEAN
      BY DEF Held
    <3> QED
      BY <2>4, <3>1, <3>2, StageAndHeld DEF Held
  <2> QED
    BY <2>1, <2>2, <2>3, <2>4
<1> QED
  BY <1>1, <1>2, IpsecInvariant, PTL
  DEF IpsecSpec, ImplementsContract, Session!ContractSpec

=============================================================================
