----------------------------- MODULE SslSession -----------------------------
(***************************************************************************)
(* The life of one SSL-VPN session: the command `tunnel connect` (cmd/     *)
(* fortivpn/main.go), Backend.Connect, connection.Run and connection.Close *)
(* (internal/sslvpn), and the packet engine with its two copying           *)
(* goroutines (internal/tunnel), over the routes of module Routes.         *)
(*                                                                         *)
(* Threads that may close the session: Main, the goroutine of the command, *)
(* and Closers, other callers of Close, which session.go allows at any     *)
(* moment after Connect has returned.                                      *)
(***************************************************************************)
EXTENDS Routes

CONSTANTS
    Main,       \* the goroutine that calls Connect, then Run
    Closers     \* the other goroutines that call Close

ASSUME SslAssumption == Main \notin Closers

Threads == {Main} \cup Closers

Copiers == {"d2t", "t2d"}   \* copyDeviceToTunnel and copyTunnelToDevice

VARIABLES
    \* contexts; `ctx`, of module Routes, is setupCtx, a child of sessionCtx
    sig,        \* sessionCtx is done: SIGINT or SIGTERM
    childDone,  \* childCtx of PacketEngine.Run was cancelled by its defer
    \* the calling goroutine
    pc,         \* where Main stands
    result,     \* what Connect or Run returns
    \* resources
    transport,  \* the TLS connection
    device,     \* the TUN interface, as Close leaves it
    pollable,   \* its descriptor is one that the Go runtime can poll
    \* connection.Close
    sOnce,      \* connection.once
    sOwner,     \* the thread inside it
    dOnce,      \* routeCleanupDevice.once
    close,      \* where each thread stands in connection.Close
    \* the copying goroutines
    gpc,        \* where each stands
    out,        \* the error each is about to send
    results,    \* the channel of PacketEngine.Run
    \* ghost
    cause       \* what, other than Run's own teardown, made the copiers fail

ctxs == <<ctx, sig, childDone>>
released == <<transport, device, pollable, sOnce, sOwner, dOnce>>
closing == <<released, close>>
copying == <<gpc, out, results>>
svars == <<ctxs, local, pc, result, closing, copying, cause>>

PCs == {"allocate", "open", "create", "configure", "routes", "check",
        "unwind", "failed", "connected", "run", "select", "closeAll",
        "closeDevice", "deferRun", "deferMain", "ended"}

\* Where Main is inside Close; the other places run code of their own.
ClosePCs == {"unwind", "closeAll", "closeDevice", "deferRun", "deferMain"}

CloseStages == {"out", "enter", "transport", "device", "routes", "interface",
                "back"}

Outcomes == {"none", "eof", "canceled", "error"}

ControlTypeOK ==
    /\ sig \in BOOLEAN
    /\ childDone \in BOOLEAN
    /\ pc \in PCs
    /\ result \in {"none", "nil", "error"}
    /\ transport \in {"none", "open", "closed"}
    /\ device \in {"none", "open", "closed"}
    /\ pollable \in BOOLEAN
    /\ sOnce \in {"new", "busy", "done"}
    /\ sOwner \in Threads
    /\ dOnce \in {"new", "busy", "done"}
    /\ close \in [Threads -> CloseStages]
    /\ gpc \in [Copiers -> {"off", "check", "read", "write", "send", "done"}]
    /\ out \in [Copiers -> Outcomes]
    /\ results \in Seq(Outcomes)
    /\ cause \in SUBSET {"close", "failure"}

SslTypeOK == RoutesTypeOK /\ ControlTypeOK

SslInit ==
    /\ RoutesInit
    /\ ctx = FALSE
    /\ sig = FALSE
    /\ childDone = FALSE
    /\ pc = "allocate"
    /\ result = "none"
    /\ transport = "none"
    /\ device = "none"
    /\ pollable = FALSE
    /\ sOnce = "new"
    /\ sOwner = Main
    /\ dOnce = "new"
    /\ close = [t \in Threads |-> "out"]
    /\ gpc = [g \in Copiers |-> "off"]
    /\ out = [g \in Copiers |-> "none"]
    /\ results = <<>>
    /\ cause = {}

\* Main goes on to a place that begins with a call of connection.Close.
CloseAt(place) ==
    /\ pc' = place
    /\ close' = [close EXCEPT ![Main] = "enter"]

-----------------------------------------------------------------------------
(* Contexts *)

\* The process catches SIGINT or SIGTERM; setupCtx is a child of sessionCtx.
Interrupt ==
    /\ ~sig
    /\ sig' = TRUE
    /\ ctx' = TRUE
    /\ UNCHANGED <<local, childDone, pc, result, closing, copying, cause>>

\* --timeout passes before Connect has returned.
SetupTimeout ==
    /\ pc \in {"allocate", "open", "create", "configure", "routes", "check"}
    /\ ~ctx
    /\ ctx' = TRUE
    /\ UNCHANGED <<local, sig, childDone, pc, result, closing, copying, cause>>

-----------------------------------------------------------------------------
(* Backend.Connect.  An operation that takes setupCtx may still succeed    *)
(* although it has just expired: it had finished its work before.          *)

\* Nothing to undo yet: Connect returns the error.
EarlyFailure ==
    /\ pc \in {"allocate", "open"}
    /\ pc' = "failed"
    /\ result' = "error"
    /\ UNCHANGED <<ctxs, local, closing, copying, cause>>

\* Authentication and allocation succeed, and the gateway offers `tun`.
Allocate ==
    /\ pc = "allocate"
    /\ pc' = "open"
    /\ UNCHANGED <<ctxs, local, result, closing, copying, cause>>

OpenTunnel ==
    /\ pc = "open"
    /\ transport' = "open"
    /\ pc' = "create"
    /\ UNCHANGED <<ctxs, local, result, device, pollable, sOnce, sOwner, dOnce, close,
                   copying, cause>>

\* Linux opens /dev/net/tun non-blocking, "so os.NewFile registers it with
\* netpoll"; the control socket of macOS is left blocking.
CreateTun == pollable' = TRUE

CreateUtun == pollable' = FALSE

CreateDevice ==
    /\ pc = "create"
    /\ device' = "open"
    /\ CreateTun \/ CreateUtun
    /\ pc' = "configure"
    /\ UNCHANGED <<ctxs, local, result, transport, sOnce, sOwner, dOnce, close,
                   copying, cause>>

ConfigureDevice ==
    /\ pc = "configure"
    /\ pc' = "routes"
    /\ UNCHANGED <<ctxs, local, result, closing, copying, cause>>

UnwindMut ==
    /\ result' = "error"
    /\ pc' = "failed"
    /\ UNCHANGED <<ctxs, local, closing, copying, cause>>

\* Any later error, the expiry of setupCtx included, runs the deferred Close.
Unwind ==
    /\ result' = "error"
    /\ CloseAt("unwind")
    /\ UNCHANGED <<ctxs, local, released, copying, cause>>

SetupFails == pc \in {"create", "configure"} /\ Unwind

ConfigureRoutes ==
    /\ pc = "routes"
    /\ \/ Configure
       \/ rphase = "rollback" /\ Remove
    /\ UNCHANGED <<ctxs, pc, result, closing, copying, cause>>

RoutesFail == pc = "routes" /\ rphase = "failed" /\ Unwind

RoutesReady ==
    /\ pc = "routes"
    /\ rphase = "installed"
    /\ pc' = "check"
    /\ UNCHANGED <<ctxs, local, result, closing, copying, cause>>

SetupExpired == pc = "check" /\ ctx /\ Unwind

ConnectReturns ==
    /\ pc = "check"
    /\ ~ctx
    /\ pc' = "connected"
    /\ UNCHANGED <<ctxs, local, result, closing, copying, cause>>

-----------------------------------------------------------------------------
(* connection.Close by thread t.  `back` hands control to the caller. *)

\* The function passed to connection.once.Do returns.
LeaveOnce(t) == sOnce' = IF sOwner = t /\ sOnce = "busy" THEN "done" ELSE sOnce

EnterOnceMut(t) ==
    /\ close[t] = "enter"
    /\ IF sOnce = "new"
       THEN /\ sOnce' = "busy"
            /\ sOwner' = t
            /\ close' = [close EXCEPT ![t] = "transport"]
       ELSE close' = [close EXCEPT ![t] = "back"] /\ UNCHANGED <<sOnce, sOwner>>
    /\ UNCHANGED <<ctxs, local, pc, result, transport, device, pollable, dOnce, copying, cause>>

\* A thread that calls while another one is inside once.Do waits for it.
EnterOnce(t) ==
    /\ close[t] = "enter"
    /\ \/ /\ sOnce = "new"
          /\ sOnce' = "busy"
          /\ sOwner' = t
          /\ close' = [close EXCEPT ![t] = "transport"]
       \/ /\ sOnce = "done"
          /\ close' = [close EXCEPT ![t] = "back"]
          /\ UNCHANGED <<sOnce, sOwner>>
    /\ UNCHANGED <<ctxs, local, pc, result, transport, device, pollable, dOnce, copying, cause>>

\* transport.Close, then the device unless Connect failed before it had one.
\* A Close that Run did not ask for is a cause of what the copiers then see.
CloseTransport(t) ==
    /\ close[t] = "transport"
    /\ transport' = "closed"
    /\ IF device = "none"
       THEN /\ LeaveOnce(t)
            /\ close' = [close EXCEPT ![t] = "back"]
       ELSE /\ close' = [close EXCEPT ![t] = "device"]
            /\ UNCHANGED sOnce
    /\ cause' = IF t = Main THEN cause ELSE cause \cup {"close"}
    /\ UNCHANGED <<ctxs, local, pc, result, device, pollable, sOwner, dOnce, copying>>

\* routeCleanupDevice.Close, from connection.Close or straight from closeAll.
EnterDevice(t) ==
    /\ close[t] = "device"
    /\ \/ /\ dOnce = "new"
          /\ dOnce' = "busy"
          /\ UNCHANGED sOnce
          /\ IF rphase = "installed"      \* d.cleanup # nil
             THEN close' = [close EXCEPT ![t] = "routes"] /\ StartCleanup
             ELSE close' = [close EXCEPT ![t] = "interface"] /\ UNCHANGED local
       \/ /\ dOnce = "done"
          /\ LeaveOnce(t)
          /\ close' = [close EXCEPT ![t] = "back"]
          /\ UNCHANGED <<dOnce, local>>
    /\ UNCHANGED <<ctxs, pc, result, transport, device, pollable, sOwner, copying, cause>>

CleanRoutesMut(t) ==
    /\ close[t] = "routes"
    /\ UNCHANGED local
    /\ close' = [close EXCEPT ![t] = "interface"]
    /\ UNCHANGED <<ctxs, pc, result, transport, device, pollable, sOnce, sOwner, dOnce, copying, cause>>

CleanRoutes(t) ==
    /\ close[t] = "routes"
    /\ IF rphase = "removed"
       THEN close' = [close EXCEPT ![t] = "interface"] /\ UNCHANGED local
       ELSE Remove /\ UNCHANGED close
    /\ UNCHANGED <<ctxs, pc, result, transport, device, pollable, sOnce, sOwner, dOnce, copying, cause>>

\* The interface disappears, and with it the routes the kernel still has
\* through it.  The owner of connection.once leaves it.
CloseInterface(t) ==
    /\ close[t] = "interface"
    /\ device' = "closed"
    /\ kernel' = {}
    /\ dOnce' = "done"
    /\ LeaveOnce(t)
    /\ close' = [close EXCEPT ![t] = "back"]
    /\ UNCHANGED <<ctxs, routes, rphase, rindex, installed, rem, stuck, lost,
                   pc, result, transport, pollable, sOwner, copying, cause>>

CloseStep(t) == \/ EnterOnce(t) \/ CloseTransport(t) \/ EnterDevice(t)
                \/ CleanRoutes(t) \/ CloseInterface(t)

\* Another goroutine calls Close, once, at any moment after Connect.
ExternalClose(t) ==
    /\ t \in Closers
    /\ close[t] = "out"
    /\ pc \in {"connected", "run", "select", "closeAll", "closeDevice",
               "deferRun", "deferMain", "ended"}
    /\ close' = [close EXCEPT ![t] = "enter"]
    /\ UNCHANGED <<ctxs, local, pc, result, released, copying, cause>>

-----------------------------------------------------------------------------
(* connection.Run, that is PacketEngine.Run, in the goroutine Main *)

\* The command calls cancel() on setupCtx, then Run.
CallRun ==
    /\ pc = "connected"
    /\ ctx' = TRUE
    /\ pc' = "run"
    /\ UNCHANGED <<sig, childDone, local, result, closing, copying, cause>>

RunRefusedMut ==
    /\ pc = "run"
    /\ sig
    /\ result' = "error"
    /\ CloseAt("deferMain")
    /\ UNCHANGED <<ctxs, local, released, copying, cause>>

\* Tunnel2.Connect finds the context done: Run returns its error before it
\* has registered closeAll.  The deferred connection.Close remains.
RunRefused ==
    /\ pc = "run"
    /\ sig
    /\ result' = "error"
    /\ CloseAt("deferRun")
    /\ UNCHANGED <<ctxs, local, released, copying, cause>>

StartCopiers ==
    /\ pc = "run"
    /\ ~sig
    /\ pc' = "select"
    /\ gpc' = [g \in Copiers |-> IF g = "d2t" THEN "read" ELSE "check"]
    /\ UNCHANGED <<ctxs, local, result, closing, out, results, cause>>

SelectDone ==
    /\ pc = "select"
    /\ sig
    /\ result' = "nil"
    /\ CloseAt("closeAll")
    /\ UNCHANGED <<ctxs, local, released, copying, cause>>

\* context.Canceled and io.EOF end the session in good order.
OrderlyMut(err) == err = "eof"

Orderly(err) == err \in {"eof", "canceled"}

SelectResultMut ==
    /\ pc = "select"
    /\ results # <<>>
    /\ result' = Head(results)
    /\ results' = Tail(results)
    /\ CloseAt("closeAll")
    /\ UNCHANGED <<ctxs, local, released, gpc, out, cause>>

SelectResult ==
    /\ pc = "select"
    /\ results # <<>>
    /\ result' = IF Orderly(Head(results)) THEN "nil" ELSE "error"
    /\ results' = Tail(results)
    /\ CloseAt("closeAll")
    /\ UNCHANGED <<ctxs, local, released, gpc, out, cause>>

\* closeAll goes through the session's Close (sessionTransport.Close), then
\* closes the device itself.
CloseAllDevice ==
    /\ pc = "closeAll"
    /\ close[Main] = "back"
    /\ pc' = "closeDevice"
    /\ close' = [close EXCEPT ![Main] = "device"]
    /\ UNCHANGED <<ctxs, local, result, released, copying, cause>>

\* Run's deferred cancel, then connection.Run's deferred Close.
EngineReturns ==
    /\ pc = "closeDevice"
    /\ close[Main] = "back"
    /\ childDone' = TRUE
    /\ CloseAt("deferRun")
    /\ UNCHANGED <<ctx, sig, local, result, released, copying, cause>>

\* Run has returned; the command's own deferred Close follows.
RunReturns ==
    /\ pc = "deferRun"
    /\ close[Main] = "back"
    /\ CloseAt("deferMain")
    /\ UNCHANGED <<ctxs, local, result, released, copying, cause>>

\* Connect returns its error, or the command returns.
Finish ==
    /\ close[Main] = "back"
    /\ \/ pc = "unwind" /\ pc' = "failed"
       \/ pc = "deferMain" /\ pc' = "ended"
    /\ close' = [close EXCEPT ![Main] = "out"]
    /\ UNCHANGED <<ctxs, local, result, released, copying, cause>>

-----------------------------------------------------------------------------
(* The copying goroutines.  `childCtx` is a child of sessionCtx. *)

Cancelled == sig \/ childDone

\* make(chan error, 2)
CapMut == 1

Cap == 2

Step(g, place) ==
    /\ gpc' = [gpc EXCEPT ![g] = place]
    /\ UNCHANGED <<ctxs, local, pc, result, closing, out, results, cause>>

Fail(g, err) ==
    /\ gpc' = [gpc EXCEPT ![g] = "send"]
    /\ out' = [out EXCEPT ![g] = err]
    /\ UNCHANGED <<ctxs, local, pc, result, closing, results>>

\* The gateway or the device fails, or a packet is not IP or too large.
Failure(g, err) == Fail(g, err) /\ cause' = cause \cup {"failure"}

\* What a blocked or later call returns once its resource has been closed.
ClosedError(g) == Fail(g, "error") /\ UNCHANGED cause

\* A read that began before Close ends with it only if the descriptor can be
\* polled; otherwise it goes on, and may still return a packet.
ReadDevice ==
    /\ gpc["d2t"] = "read"
    /\ \/ device = "open" /\ (Step("d2t", "check") \/ Failure("d2t", "error"))
       \/ device = "closed" /\ ClosedError("d2t")
       \/ device = "closed" /\ ~pollable /\ Step("d2t", "check")

\* Tunnel2.WritePacket looks at the packet and at the context ...
CheckWrite ==
    /\ gpc["d2t"] = "check"
    /\ \/ Failure("d2t", "error")
       \/ Cancelled /\ Fail("d2t", "canceled") /\ UNCHANGED cause
       \/ ~Cancelled /\ Step("d2t", "write")

\* ... and then writes to the connection, as long as it takes.
WriteTunnel ==
    /\ gpc["d2t"] = "write"
    /\ \/ transport = "open" /\ (Step("d2t", "read") \/ Failure("d2t", "error"))
       \/ transport = "closed" /\ ClosedError("d2t")

\* Tunnel2.ReadPacket looks at the context once, before it blocks.
CheckRead ==
    /\ gpc["t2d"] = "check"
    /\ \/ Cancelled /\ Fail("t2d", "canceled") /\ UNCHANGED cause
       \/ ~Cancelled /\ Step("t2d", "read")

\* A frame may come out of the buffered reader of a closed connection.  The
\* gateway's orderly end of stream is io.EOF between two frames only.
ReadTunnel ==
    /\ gpc["t2d"] = "read"
    /\ \/ Step("t2d", "write")
       \/ transport = "open" /\ \E err \in {"eof", "error"} : Failure("t2d", err)
       \/ transport = "closed" /\ ClosedError("t2d")

WriteDevice ==
    /\ gpc["t2d"] = "write"
    /\ \/ device = "open" /\ (Step("t2d", "check") \/ Failure("t2d", "error"))
       \/ device = "closed" /\ ClosedError("t2d")

Send(g) ==
    /\ gpc[g] = "send"
    /\ Len(results) < Cap
    /\ results' = Append(results, out[g])
    /\ gpc' = [gpc EXCEPT ![g] = "done"]
    /\ UNCHANGED <<ctxs, local, pc, result, closing, out, cause>>

Copy == \/ ReadDevice \/ CheckWrite \/ WriteTunnel
        \/ CheckRead \/ ReadTunnel \/ WriteDevice
        \/ \E g \in Copiers : Send(g)

-----------------------------------------------------------------------------
(* The specification *)

Connect == \/ EarlyFailure \/ Allocate \/ OpenTunnel \/ CreateDevice
           \/ ConfigureDevice \/ SetupFails \/ ConfigureRoutes \/ RoutesFail
           \/ RoutesReady \/ SetupExpired \/ ConnectReturns

Run == \/ CallRun \/ RunRefused \/ StartCopiers \/ SelectDone \/ SelectResult
       \/ CloseAllDevice \/ EngineReturns \/ RunReturns \/ Finish

Quiet == \A g \in Copiers : gpc[g] \in {"off", "done"}

CallersBack ==
    /\ pc \in {"failed", "ended"}
    /\ \A t \in Closers : close[t] \in {"out", "back"}

Stopped == CallersBack /\ Quiet

SslNext ==
    \/ Interrupt \/ SetupTimeout
    \/ Connect \/ Run \/ Copy
    \/ \E t \in Threads : CloseStep(t) \/ ExternalClose(t)
    \/ Stopped /\ UNCHANGED svars

\* Set-up operations return once setupCtx is done, and its timer fires; the
\* teardown, the commands it runs included, terminates; a copier that need
\* not wait for a packet goes on.  Nothing obliges a peer to send, or to
\* accept, a packet: reads and writes of open ends are not fair, nor is a read
\* that Close does not interrupt.
Fairness ==
    /\ WF_svars(SetupTimeout)
    /\ WF_svars(ctx /\ Connect)
    /\ WF_svars(Run)
    /\ \A t \in Threads : WF_svars(CloseStep(t))
    /\ WF_svars(ReadDevice /\ device = "closed" /\ pollable)
    /\ WF_svars(WriteTunnel /\ transport = "closed")
    /\ WF_svars(ReadTunnel /\ transport = "closed")
    /\ WF_svars(CheckWrite)
    /\ WF_svars(CheckRead)
    /\ WF_svars(WriteDevice)
    /\ \A g \in Copiers : WF_svars(Send(g))

SslSpec == SslInit /\ [][SslNext]_svars

SslFairSpec == SslSpec /\ Fairness

-----------------------------------------------------------------------------
(* Properties *)

\* session.go: "On error it must release all resources acquired during setup".
\* When Connect has returned an error, at whatever step it failed or expired,
\* neither the connection nor the interface is left open.
ConnectErrorReleases == pc = "failed" => transport # "open" /\ device # "open"

\* session.go: Run "releases all owned state before returning".  Even when the
\* teardown is being carried out by another caller of Close, Run does not
\* return before it has finished; what a blocked reader holds is NoReaderLeft's.
ReleasedOnReturn ==
    pc \in {"deferMain", "ended"} => transport = "closed" /\ device = "closed"

\* lifecycle.go: the session's routes are removed while the interface still
\* exists.  An interface that closes carries only routes whose deletion the
\* kernel refused, or that ConfigureRoutes kept no record of.
RoutesBeforeInterface ==
    [][device = "open" /\ device' = "closed" => kernel \subseteq stuck \cup lost]_svars

\* backend.go: closeAll's own calls are funnelled "through the session's
\* single teardown owner".  Whoever removes routes or closes the interface is
\* inside connection.once, though Run also closes the device directly.
SingleTeardownOwner ==
    \A t \in Threads :
        close[t] \in {"routes", "interface"} => sOnce = "busy" /\ sOwner = t

\* The errors that Run's own teardown provokes in the copiers never become its
\* result: an error has a cause outside, or the copiers were never started.
ErrorHasCause ==
    pc = "ended" /\ result = "error" => cause # {} \/ gpc["d2t"] = "off"

\* backend_test.go, TestSessionLifecycle: a Run that a cancelled context or a
\* Close of the session ends, with no failure of either end, returns nil.
OrderlyStopIsNil == pc = "ended" /\ result = "error" => "failure" \in cause

\* lifecycle.go: routeCleanupDevice "removes session routes while the TUN
\* interface still exists": what is left was refused by the kernel.
AllRoutesBeforeInterface ==
    [][device = "open" /\ device' = "closed" => kernel \subseteq stuck]_svars

ToldToStop == sig \/ sOnce # "new" \/ cause # {}

ReaderBlocked == gpc["d2t"] = "read" /\ device = "closed" /\ ~pollable

\* After an interrupt, a Close or a failure of either end, every caller comes
\* back and every goroutine of the session ends; on macOS all but the one that
\* reads the interface, for which nobody waits.
TeardownCompletes ==
    ToldToStop ~> /\ CallersBack
                  /\ gpc["t2d"] \in {"off", "done"}
                  /\ gpc["d2t"] \in {"off", "done"} \/ ReaderBlocked

\* tunnel.go: "cancellation always tears down the whole session rather than
\* leaving a goroutine blocked in a device read".
NoReaderLeft == ToldToStop ~> Stopped

\* The session promises what session.go asks of every backend.
Contract == INSTANCE SessionContract WITH
    stage <- CASE pc \in {"allocate", "open", "create", "configure", "routes",
                          "check", "unwind"} -> "setup"
               [] pc = "failed" -> "failed"
               [] pc = "connected" -> "open"
               [] pc \in {"run", "select", "closeAll", "closeDevice", "deferRun"} -> "running"
               [] pc \in {"deferMain", "ended"} -> "ended",
    held <- transport = "open" \/ device = "open"

ImplementsContract == Contract!ContractSpec

=============================================================================
