-------------------------- MODULE SslSession_proofs --------------------------
(***************************************************************************)
(* Theorems about SslSession, for any set of routes, lists of any length   *)
(* and any number of concurrent callers of Close.                          *)
(***************************************************************************)
EXTENDS SslSession, SequenceTheorems, TLAPS

-----------------------------------------------------------------------------
(* Type correctness.  That a command runs only for a proper route is what   *)
(* makes the type of `installed` inductive.                                *)

RunningRoute ==
    rphase = "running" => rindex <= Len(routes) /\ routes[rindex] \in Route

TInv == SslTypeOK /\ RunningRoute

LEMMA RouteListsAreSequences == RouteLists \subseteq Seq(Route \cup {Invalid})
  BY RoutesAssumption, SeqDef DEF RouteLists

LEMMA TypeInit == SslInit => TInv
<1> SUFFICES ASSUME SslInit PROVE TInv
  OBVIOUS
<1>1. RoutesTypeOK
  <2>1. routes \in Seq(Route \cup {Invalid})
    BY RouteListsAreSequences DEF SslInit, RoutesInit
  <2>2. installed \in Seq(Route) /\ rem \in 0..Len(installed)
    BY DEF SslInit, RoutesInit
  <2>3. rindex \in Nat \ {0} /\ rphase \in Phases
    BY DEF SslInit, RoutesInit, Phases
  <2>4. /\ kernel \in SUBSET Route /\ stuck \in SUBSET Route
        /\ lost \in SUBSET Route
    BY DEF SslInit, RoutesInit
  <2> QED
    BY <2>1, <2>2, <2>3, <2>4 DEF SslInit, RoutesTypeOK
<1>2. results \in Seq(Outcomes)
  BY DEF SslInit
<1>3. close \in [Threads -> CloseStages]
  BY DEF SslInit, CloseStages
<1>4. /\ gpc \in [Copiers -> {"off", "check", "read", "write", "send", "done"}]
      /\ out \in [Copiers -> Outcomes]
  BY DEF SslInit, Outcomes
<1>5. RunningRoute
  BY DEF SslInit, RoutesInit, RunningRoute
<1> QED
  BY <1>1, <1>2, <1>3, <1>4, <1>5 DEF SslInit, TInv, SslTypeOK, ControlTypeOK, PCs, Threads

(* Seen from module Routes, a step of the session is a step of              *)
(* ConfigureRoutes or of the cleanup, the end of the interface, or nothing. *)
InterfaceGone ==
    /\ kernel' = {}
    /\ UNCHANGED <<routes, rphase, rindex, installed, rem, stuck, lost>>

RoutesStep ==
    Configure \/ Remove \/ StartCleanup \/ InterfaceGone \/ UNCHANGED local

LEMMA SessionStepIsRoutesStep == [SslNext]_svars => RoutesStep
<1> SUFFICES ASSUME [SslNext]_svars PROVE RoutesStep
  OBVIOUS
<1> USE DEF RoutesStep
<1>1. CASE Interrupt \/ SetupTimeout
  BY <1>1 DEF Interrupt, SetupTimeout
<1>2. CASE Connect
  BY <1>2 DEF Connect, EarlyFailure, Allocate, OpenTunnel, CreateDevice,
     ConfigureDevice, SetupFails, ConfigureRoutes, RoutesFail, RoutesReady,
     SetupExpired, ConnectReturns, Unwind
<1>3. CASE Run
  BY <1>3 DEF Run, CallRun, RunRefused, StartCopiers, SelectDone,
     SelectResult, CloseAllDevice, EngineReturns, RunReturns, Finish
<1>4. CASE Copy
  BY <1>4 DEF Copy, ReadDevice, CheckWrite, WriteTunnel, CheckRead,
     ReadTunnel, WriteDevice, Send, Step, Failure, ClosedError, Fail
<1>5. ASSUME NEW t \in Threads, CloseStep(t) \/ ExternalClose(t)
      PROVE  RoutesStep
  BY <1>5 DEF CloseStep, ExternalClose, EnterOnce, CloseTransport,
     EnterDevice, CleanRoutes, CloseInterface, InterfaceGone
<1>6. CASE UNCHANGED svars
  BY <1>6 DEF svars
<1> QED
  BY <1>1, <1>2, <1>3, <1>4, <1>5, <1>6 DEF SslNext

LEMMA RoutesTypeStep ==
  ASSUME RoutesTypeOK, RunningRoute, ctx' \in BOOLEAN, RoutesStep
  PROVE  RoutesTypeOK' /\ RunningRoute'
<1> USE DEF RoutesTypeOK, RunningRoute, Phases
<1>1. CASE UNCHANGED local
  BY <1>1 DEF local
<1>2. CASE Call
  BY <1>2 DEF Call
<1>3. CASE SkipDuplicate
  BY <1>3 DEF SkipDuplicate
<1>4. CASE Abort
  BY <1>4 DEF Abort
<1>5. CASE StartAdd
  BY <1>5 DEF StartAdd
<1>6. CASE AddSucceeds
  BY <1>6 DEF AddSucceeds
<1>7. CASE AddFails
  BY <1>7 DEF AddFails, Rollback
<1>8. CASE AddKilled
  BY <1>8 DEF AddKilled, Rollback
<1>9. CASE Return
  BY <1>9 DEF Return
<1>10. CASE StartCleanup
  BY <1>10 DEF StartCleanup
<1>11. CASE DeleteSucceeds
  BY <1>11 DEF DeleteSucceeds
<1>12. CASE DeleteFails
  BY <1>12 DEF DeleteFails
<1>13. CASE RollbackDone \/ CleanupDone
  BY <1>13 DEF RollbackDone, CleanupDone
<1>14. CASE InterfaceGone
  BY <1>14 DEF InterfaceGone
<1> QED
  BY <1>1, <1>2, <1>3, <1>4, <1>5, <1>6, <1>7, <1>8, <1>9, <1>10, <1>11,
     <1>12, <1>13, <1>14 DEF Configure, Remove, RoutesStep

LEMMA ControlTypeStep ==
  ASSUME ControlTypeOK, ctx \in BOOLEAN, [SslNext]_svars
  PROVE  ControlTypeOK' /\ ctx' \in BOOLEAN
<1> USE DEF ControlTypeOK, PCs, CloseStages, Outcomes, Copiers, Threads
<1>1. CASE Interrupt
  BY <1>1 DEF Interrupt, ctxs, closing, released, copying
<1>2. CASE SetupTimeout
  BY <1>2 DEF SetupTimeout, ctxs, closing, released, copying
<1>3. CASE EarlyFailure
  BY <1>3 DEF EarlyFailure, ctxs, closing, released, copying
<1>4. CASE Allocate
  BY <1>4 DEF Allocate, ctxs, closing, released, copying
<1>5. CASE OpenTunnel
  BY <1>5 DEF OpenTunnel, ctxs, closing, released, copying
<1>6. CASE CreateDevice
  <2>1. pollable' \in BOOLEAN
    BY <1>6 DEF CreateDevice, CreateTun, CreateUtun
  <2>2. /\ pc' = "configure" /\ device' = "open"
        /\ UNCHANGED <<ctx, sig, childDone, result, transport, sOnce, sOwner, dOnce,
                       close, gpc, out, results, cause>>
    BY <1>6 DEF CreateDevice, ctxs, copying
  <2> QED
    BY <2>1, <2>2
<1>7. CASE ConfigureDevice
  BY <1>7 DEF ConfigureDevice, ctxs, closing, released, copying
<1>8. CASE SetupFails
  BY <1>8 DEF SetupFails, Unwind, CloseAt, ctxs, closing, released, copying
<1>9. CASE ConfigureRoutes
  BY <1>9 DEF ConfigureRoutes, ctxs, closing, released, copying
<1>10. CASE RoutesFail
  BY <1>10 DEF RoutesFail, Unwind, CloseAt, ctxs, closing, released, copying
<1>11. CASE RoutesReady
  BY <1>11 DEF RoutesReady, ctxs, closing, released, copying
<1>12. CASE SetupExpired
  BY <1>12 DEF SetupExpired, Unwind, CloseAt, ctxs, closing, released, copying
<1>13. CASE ConnectReturns
  BY <1>13 DEF ConnectReturns, ctxs, closing, released, copying
<1>14. CASE CallRun
  BY <1>14 DEF CallRun, ctxs, closing, released, copying
<1>15. CASE RunRefused
  BY <1>15 DEF RunRefused, CloseAt, ctxs, closing, released, copying
<1>16. CASE StartCopiers
  BY <1>16 DEF StartCopiers, ctxs, closing, released, copying
<1>17. CASE SelectDone
  BY <1>17 DEF SelectDone, CloseAt, ctxs, closing, released, copying
<1>18. CASE SelectResult
  BY <1>18 DEF SelectResult, CloseAt, Orderly, ctxs, closing, released, copying
<1>19. CASE CloseAllDevice
  BY <1>19 DEF CloseAllDevice, ctxs, closing, released, copying
<1>20. CASE EngineReturns
  BY <1>20 DEF EngineReturns, CloseAt, ctxs, closing, released, copying
<1>21. CASE RunReturns
  BY <1>21 DEF RunReturns, CloseAt, ctxs, closing, released, copying
<1>22. CASE Finish
  BY <1>22 DEF Finish, ctxs, closing, released, copying
<1>23. ASSUME NEW t \in Threads, EnterOnce(t)
      PROVE  ControlTypeOK' /\ ctx' \in BOOLEAN
  BY <1>23 DEF EnterOnce, LeaveOnce, ctxs, closing, released, copying
<1>24. ASSUME NEW t \in Threads, CloseTransport(t)
      PROVE  ControlTypeOK' /\ ctx' \in BOOLEAN
  BY <1>24 DEF CloseTransport, LeaveOnce, ctxs, closing, released, copying
<1>25. ASSUME NEW t \in Threads, EnterDevice(t)
      PROVE  ControlTypeOK' /\ ctx' \in BOOLEAN
  BY <1>25 DEF EnterDevice, LeaveOnce, ctxs, closing, released, copying
<1>26. ASSUME NEW t \in Threads, CleanRoutes(t)
      PROVE  ControlTypeOK' /\ ctx' \in BOOLEAN
  BY <1>26 DEF CleanRoutes, LeaveOnce, ctxs, closing, released, copying
<1>27. ASSUME NEW t \in Threads, CloseInterface(t)
      PROVE  ControlTypeOK' /\ ctx' \in BOOLEAN
  BY <1>27 DEF CloseInterface, LeaveOnce, ctxs, closing, released, copying
<1>28. ASSUME NEW t \in Threads, ExternalClose(t)
      PROVE  ControlTypeOK' /\ ctx' \in BOOLEAN
  BY <1>28 DEF ExternalClose, ctxs, closing, released, copying
<1>29. ASSUME NEW g \in Copiers, NEW place \in {"check", "read", "write"},
             Step(g, place)
      PROVE  ControlTypeOK' /\ ctx' \in BOOLEAN
  BY <1>29 DEF Step, ctxs, closing, released
<1>30. ASSUME NEW g \in Copiers, NEW err \in {"eof", "canceled", "error"},
             Failure(g, err) \/ (Fail(g, err) /\ UNCHANGED cause)
      PROVE  ControlTypeOK' /\ ctx' \in BOOLEAN
  <2>1. cause' \in SUBSET {"close", "failure"}
    BY <1>30 DEF Failure
  <2>2. Fail(g, err)
    BY <1>30 DEF Failure
  <2> QED
    BY <2>1, <2>2 DEF Fail, ctxs, closing, released
<1>31. CASE ReadDevice
  BY <1>29, <1>30, <1>31 DEF ReadDevice, ClosedError
<1>32. CASE CheckWrite \/ CheckRead
  BY <1>29, <1>30, <1>32 DEF CheckWrite, CheckRead
<1>33. CASE WriteTunnel \/ WriteDevice
  BY <1>29, <1>30, <1>33 DEF WriteTunnel, WriteDevice, ClosedError
<1>34. CASE ReadTunnel
  BY <1>29, <1>30, <1>34 DEF ReadTunnel, ClosedError
<1>35. ASSUME NEW g \in Copiers, Send(g)
      PROVE  ControlTypeOK' /\ ctx' \in BOOLEAN
  BY <1>35 DEF Send, ctxs, closing, released, copying
<1>36. CASE UNCHANGED svars
  BY <1>36 DEF svars, ctxs, closing, released, copying
<1> QED
  BY <1>1, <1>2, <1>3, <1>4, <1>5, <1>6, <1>7, <1>8, <1>9, <1>10, <1>11,
     <1>12, <1>13, <1>14, <1>15, <1>16, <1>17, <1>18, <1>19, <1>20, <1>21,
     <1>22, <1>23, <1>24, <1>25, <1>26, <1>27, <1>28, <1>29, <1>30, <1>31,
     <1>32, <1>33, <1>34, <1>35, <1>36
  DEF SslNext, Connect, Run, Copy, CloseStep

LEMMA TypeNext == TInv /\ [SslNext]_svars => TInv'
  BY ControlTypeStep, SessionStepIsRoutesStep, RoutesTypeStep
  DEF TInv, SslTypeOK, RoutesTypeOK

THEOREM TypeCorrect == SslSpec => []SslTypeOK
<1>1. SslInit => TInv
  BY TypeInit
<1>2. TInv /\ [SslNext]_svars => TInv'
  BY TypeNext
<1>3. TInv => SslTypeOK
  BY DEF TInv
<1> QED
  BY <1>1, <1>2, <1>3, PTL DEF SslSpec

-----------------------------------------------------------------------------
(* Teardown.  OnceInv: who is where in connection.Close; ResourceInv: what  *)
(* that says of the connection and the interface; PcInv: what the place of  *)
(* the calling goroutine says of both.  None is inductive without the       *)
(* others.                                                                  *)

SetupPCs == {"allocate", "open", "create", "configure", "routes", "check"}

OnceInv ==
    \A t \in Threads :
        /\ close[t] \in {"transport", "routes", "interface"} =>
               sOnce = "busy" /\ sOwner = t
        /\ close[t] = "device" =>
               \/ sOnce = "busy" /\ sOwner = t
               \/ t = Main /\ pc = "closeDevice" /\ sOnce = "done"
        /\ close[t] = "back" => sOnce = "done"

ResourceInv ==
    /\ sOnce = "done" => transport # "open" /\ device # "open"
    /\ dOnce = "done" <=> device = "closed"
    /\ \A t \in Threads : close[t] \in {"device", "routes", "interface"} =>
                              transport = "closed" /\ device # "none"

PcInv ==
    /\ pc \in {"allocate", "open"} => transport = "none"
    /\ pc \in {"allocate", "open", "create"} => device = "none"
    /\ pc \in SetupPCs => sOnce = "new" /\ dOnce = "new"
    /\ pc \in SetupPCs \cup {"connected", "run", "select", "failed", "ended"} =>
           close[Main] = "out"
    /\ pc \in SetupPCs \cup {"unwind", "failed"} =>
           \A t \in Closers : close[t] = "out"
    /\ pc \notin {"allocate", "open", "failed"} => transport # "none"
    /\ pc \notin {"allocate", "open", "create", "unwind", "failed"} =>
           device # "none"
    /\ pc = "failed" => transport # "open" /\ device # "open"
    /\ pc \in {"closeDevice", "deferMain", "ended"} => sOnce = "done"

CloseInv == OnceInv /\ ResourceInv /\ PcInv

LEMMA CloseInit == SslInit => CloseInv
  BY DEF SslInit, CloseInv, OnceInv, ResourceInv, PcInv, SetupPCs, Threads

LEMMA CloseNext ==
  ASSUME ControlTypeOK, CloseInv, [SslNext]_svars
  PROVE  CloseInv'
<1> USE SslAssumption
    DEF ControlTypeOK, PCs, CloseStages, CloseInv, OnceInv, ResourceInv, PcInv,
        SetupPCs, Threads
<1>1. CASE UNCHANGED <<pc, released, close>>
  BY <1>1 DEF released
<1>2. CASE EarlyFailure
  BY <1>2 DEF EarlyFailure, closing, released
<1>3. CASE Allocate
  BY <1>3 DEF Allocate, closing, released
<1>4. CASE OpenTunnel
  BY <1>4 DEF OpenTunnel, closing, released
<1>5. CASE CreateDevice
  BY <1>5 DEF CreateDevice, CreateTun, CreateUtun, closing, released
<1>6. CASE ConfigureDevice
  BY <1>6 DEF ConfigureDevice, closing, released
<1>7. CASE SetupFails
  BY <1>7 DEF SetupFails, Unwind, CloseAt, closing, released
<1>8. CASE RoutesFail
  BY <1>8 DEF RoutesFail, Unwind, CloseAt, closing, released
<1>9. CASE RoutesReady
  BY <1>9 DEF RoutesReady, closing, released
<1>10. CASE SetupExpired
  BY <1>10 DEF SetupExpired, Unwind, CloseAt, closing, released
<1>11. CASE ConnectReturns
  BY <1>11 DEF ConnectReturns, closing, released
<1>12. CASE CallRun
  BY <1>12 DEF CallRun, closing, released
<1>13. CASE RunRefused
  BY <1>13 DEF RunRefused, CloseAt, closing, released
<1>14. CASE StartCopiers
  BY <1>14 DEF StartCopiers, closing, released
<1>15. CASE SelectDone
  BY <1>15 DEF SelectDone, CloseAt, closing, released
<1>16. CASE SelectResult
  BY <1>16 DEF SelectResult, CloseAt, closing, released
<1>17. CASE CloseAllDevice
  BY <1>17 DEF CloseAllDevice, closing, released
<1>18. CASE EngineReturns
  BY <1>18 DEF EngineReturns, CloseAt, closing, released
<1>19. CASE RunReturns
  BY <1>19 DEF RunReturns, CloseAt, closing, released
<1>20. CASE Finish
  BY <1>20 DEF Finish, closing, released
<1>21. ASSUME NEW t \in Threads, EnterOnce(t) PROVE CloseInv'
  BY <1>21 DEF EnterOnce, LeaveOnce, released
<1>22. ASSUME NEW t \in Threads, CloseTransport(t) PROVE CloseInv'
  BY <1>22 DEF CloseTransport, LeaveOnce, released
<1>23. ASSUME NEW t \in Threads, EnterDevice(t) PROVE CloseInv'
  BY <1>23 DEF EnterDevice, LeaveOnce, released
<1>24. ASSUME NEW t \in Threads, CleanRoutes(t) PROVE CloseInv'
  BY <1>24 DEF CleanRoutes, LeaveOnce, released
<1>25. ASSUME NEW t \in Threads, CloseInterface(t) PROVE CloseInv'
  BY <1>25 DEF CloseInterface, LeaveOnce, released
<1>26. ASSUME NEW t \in Threads, ExternalClose(t) PROVE CloseInv'
  BY <1>26 DEF ExternalClose, LeaveOnce, released
<1>27. CASE Interrupt \/ SetupTimeout \/ ConfigureRoutes
  BY <1>1, <1>27 DEF Interrupt, SetupTimeout, ConfigureRoutes, closing
<1>28. CASE Copy
  BY <1>1, <1>28 DEF Copy, ReadDevice, CheckWrite, WriteTunnel, CheckRead,
     ReadTunnel, WriteDevice, Send, Step, Failure, ClosedError, Fail, closing
<1>29. CASE UNCHANGED svars
  BY <1>1, <1>29 DEF svars, closing
<1> QED
  BY <1>1, <1>2, <1>3, <1>4, <1>5, <1>6, <1>7, <1>8, <1>9, <1>10, <1>11,
     <1>12, <1>13, <1>14, <1>15, <1>16, <1>17, <1>18, <1>19, <1>20, <1>21,
     <1>22, <1>23, <1>24, <1>25, <1>26, <1>27, <1>28, <1>29
  DEF SslNext, Connect, Run, CloseStep

LEMMA CloseInvariant == SslSpec => [](TInv /\ CloseInv)
<1>1. SslInit => TInv /\ CloseInv
  BY TypeInit, CloseInit
<1>2. TInv /\ CloseInv /\ [SslNext]_svars => (TInv /\ CloseInv)'
  BY TypeNext, CloseNext DEF TInv, SslTypeOK
<1> QED
  BY <1>1, <1>2, PTL DEF SslSpec

(* Connect leaves nothing open behind an error. *)
THEOREM FailedConnectReleases == SslSpec => []ConnectErrorReleases
<1>1. CloseInv => ConnectErrorReleases
  BY DEF CloseInv, PcInv, ConnectErrorReleases
<1> QED
  BY <1>1, CloseInvariant, PTL

(* Run returns only when connection and interface are closed, whichever     *)
(* thread closed them.                                                      *)
THEOREM RunReleases == SslSpec => []ReleasedOnReturn
<1>1. TInv /\ CloseInv => ReleasedOnReturn
  BY DEF TInv, SslTypeOK, ControlTypeOK, CloseInv, ResourceInv, PcInv,
         ReleasedOnReturn
<1> QED
  BY <1>1, CloseInvariant, PTL

(* Routes are removed, and the interface closed, inside connection.once.    *)
THEOREM SingleOwner == SslSpec => []SingleTeardownOwner
<1>1. CloseInv => SingleTeardownOwner
  BY DEF CloseInv, OnceInv, SingleTeardownOwner
<1> QED
  BY <1>1, CloseInvariant, PTL

-----------------------------------------------------------------------------
(* Routes.  KernelInv: what the kernel holds is on record, or was refused,  *)
(* or was lost; RouteInv ties the phase of the routes to the teardown.      *)

\* The first n routes recorded: those removeRoutes has still to look at.
UpTo(n) == {installed[j] : j \in 1..n}

KernelInv ==
    /\ rphase \in {"adding", "running", "installed"} =>
           kernel \subseteq UpTo(Len(installed))
    /\ rphase \in {"rollback", "cleanup"} =>
           kernel \subseteq UpTo(rem) \cup stuck \cup lost
    /\ rphase = "idle" => kernel = {}
    /\ rphase \in {"failed", "removed"} => kernel \subseteq stuck \cup lost
    /\ rphase \notin {"rollback", "failed"} => lost = {}
    /\ rphase = "running" => routes[rindex] \notin kernel

RouteInv ==
    /\ pc # "routes" => rphase \notin {"adding", "running", "rollback"}
    /\ rphase \in {"cleanup", "removed"} => dOnce # "new"
    /\ \A t \in Threads :
           /\ close[t] = "routes" => rphase \in {"cleanup", "removed"}
           /\ close[t] = "interface" => kernel \subseteq stuck \cup lost

(* A recorded destination is not added twice: Recorded covers UpTo.          *)
LEMMA UpToRecorded ==
  ASSUME RoutesTypeOK, NEW spec, ~Recorded(spec)
  PROVE  spec \notin UpTo(Len(installed))
  BY DEF RoutesTypeOK, Recorded, Range, UpTo

LEMMA KernelStep ==
  ASSUME RoutesTypeOK, RunningRoute, KernelInv, RoutesStep
  PROVE  KernelInv'
<1> USE DEF RoutesTypeOK, RunningRoute, KernelInv, UpTo
<1>1. CASE UNCHANGED local
  BY <1>1 DEF local
<1>2. CASE Call \/ SkipDuplicate \/ Return
  <2>1. CASE Call
    BY <2>1 DEF Call
  <2>2. CASE SkipDuplicate
    BY <2>2 DEF SkipDuplicate
  <2>3. CASE Return
    BY <2>3 DEF Return
  <2> QED
    BY <1>2, <2>1, <2>2, <2>3
<1>3. CASE Abort
  BY <1>3 DEF Abort
<1>4. CASE StartAdd
  BY <1>4, UpToRecorded DEF StartAdd
<1>5. CASE AddSucceeds
  BY <1>5 DEF AddSucceeds
<1>6. CASE AddFails
  BY <1>6 DEF AddFails, Rollback
<1>7. CASE AddKilled
  BY <1>7 DEF AddKilled, Rollback
<1>8. CASE StartCleanup
  BY <1>8 DEF StartCleanup
<1>9. CASE DeleteSucceeds
  BY <1>9 DEF DeleteSucceeds
<1>10. CASE DeleteFails
  BY <1>10 DEF DeleteFails
<1>11. CASE RollbackDone \/ CleanupDone
  BY <1>11 DEF RollbackDone, CleanupDone
<1>12. CASE InterfaceGone
  BY <1>12 DEF InterfaceGone
<1> QED
  BY <1>1, <1>2, <1>3, <1>4, <1>5, <1>6, <1>7, <1>8, <1>9, <1>10, <1>11,
     <1>12 DEF Configure, Remove, RoutesStep

LEMMA RouteNext ==
  ASSUME SslTypeOK, CloseInv, KernelInv, RouteInv, KernelInv', [SslNext]_svars
  PROVE  RouteInv'
<1> USE SslAssumption
    DEF SslTypeOK, ControlTypeOK, CloseStages, CloseInv, OnceInv, PcInv,
        SetupPCs, Threads, RouteInv
<1>1. CASE UNCHANGED <<local, pc, dOnce, close>>
  BY <1>1 DEF local
<1>2. CASE ConfigureRoutes
  <2>1. /\ pc = "routes" /\ pc' = "routes" /\ dOnce' = "new"
        /\ close' = close /\ \A t \in Threads : close[t] = "out"
    BY <1>2 DEF ConfigureRoutes, closing, released
  <2>2. rphase' \notin {"cleanup", "removed"}
    BY <1>2, <2>1 DEF ConfigureRoutes, Configure, Remove, Call, SkipDuplicate,
       Abort, StartAdd, AddSucceeds, AddFails, AddKilled, Rollback, Return,
       DeleteSucceeds, DeleteFails, RollbackDone, CleanupDone
  <2> QED
    BY <2>1, <2>2
<1>3. CASE Connect /\ ~ConfigureRoutes
  BY <1>3 DEF Connect, EarlyFailure, Allocate, OpenTunnel, CreateDevice,
     ConfigureDevice, SetupFails, RoutesFail, RoutesReady, SetupExpired,
     ConnectReturns, Unwind, CloseAt, closing, released, local
<1>4. CASE Run
  BY <1>4 DEF Run, CallRun, RunRefused, StartCopiers, SelectDone, SelectResult,
     CloseAllDevice, EngineReturns, RunReturns, Finish, CloseAt, closing,
     released, local
<1>5. ASSUME NEW t \in Threads,
             EnterOnce(t) \/ CloseTransport(t) \/ ExternalClose(t)
      PROVE  RouteInv'
  BY <1>5 DEF EnterOnce, CloseTransport, ExternalClose, local, released
<1>6. ASSUME NEW t \in Threads, EnterDevice(t) PROVE RouteInv'
  <2>1. CASE dOnce = "new" /\ rphase = "installed"
    BY <1>6, <2>1 DEF EnterDevice, StartCleanup
  <2>2. CASE dOnce = "new" /\ rphase # "installed"
    <3>1. rphase \in {"idle", "failed"}
      BY <1>6, <2>2 DEF EnterDevice, RoutesTypeOK, Phases
    <3>2. kernel \subseteq stuck \cup lost
      BY <3>1 DEF KernelInv
    <3> QED
      BY <1>6, <2>2, <3>1, <3>2 DEF EnterDevice, local
  <2>3. CASE dOnce = "done"
    BY <1>6, <2>3 DEF EnterDevice, local
  <2> QED
    BY <1>6, <2>1, <2>2, <2>3 DEF EnterDevice
<1>7. ASSUME NEW t \in Threads, CleanRoutes(t) PROVE RouteInv'
  <2>1. CASE rphase = "removed"
    BY <1>7, <2>1 DEF CleanRoutes, KernelInv, local
  <2>2. CASE rphase # "removed" /\ Remove
    BY <1>7, <2>2 DEF CleanRoutes, Remove, DeleteSucceeds, DeleteFails,
       RollbackDone, CleanupDone
  <2> QED
    BY <1>7, <2>1, <2>2 DEF CleanRoutes
<1>8. ASSUME NEW t \in Threads, CloseInterface(t) PROVE RouteInv'
  BY <1>8 DEF CloseInterface
<1>9. CASE Interrupt \/ SetupTimeout
  BY <1>1, <1>9 DEF Interrupt, SetupTimeout, closing, released
<1>10. CASE Copy
  BY <1>1, <1>10 DEF Copy, ReadDevice, CheckWrite, WriteTunnel, CheckRead,
     ReadTunnel, WriteDevice, Send, Step, Failure, ClosedError, Fail, closing,
     released
<1>11. CASE UNCHANGED svars
  BY <1>1, <1>11 DEF svars, closing, released
<1> QED
  BY <1>1, <1>2, <1>3, <1>4, <1>5, <1>6, <1>7, <1>8, <1>9, <1>10, <1>11
  DEF SslNext, CloseStep

SslInv == TInv /\ CloseInv /\ KernelInv /\ RouteInv

LEMMA RoutesInvariant == SslSpec => []SslInv
<1>1. SslInit => SslInv
  <2>1. SslInit => KernelInv /\ RouteInv
    BY DEF SslInit, RoutesInit, KernelInv, RouteInv, Threads
  <2> QED
    BY <2>1, TypeInit, CloseInit DEF SslInv
<1>2. SslInv /\ [SslNext]_svars => SslInv'
  <2> SUFFICES ASSUME SslInv, [SslNext]_svars PROVE SslInv'
    OBVIOUS
  <2>1. TInv' /\ CloseInv'
    BY TypeNext, CloseNext DEF SslInv, TInv, SslTypeOK
  <2>2. KernelInv'
    BY KernelStep, SessionStepIsRoutesStep DEF SslInv, TInv, SslTypeOK
  <2>3. RouteInv'
    BY <2>2, RouteNext DEF SslInv, TInv
  <2> QED
    BY <2>1, <2>2, <2>3 DEF SslInv
<1> QED
  BY <1>1, <1>2, PTL DEF SslSpec

(* No `ip route add` is started for a route the kernel already holds.       *)
THEOREM AddsOnce == SslSpec => []NoDuplicateAdd
<1>1. SslInv => NoDuplicateAdd
  BY DEF SslInv, KernelInv, NoDuplicateAdd
<1> QED
  BY <1>1, RoutesInvariant, PTL

(* The cleanup function leaves only what the kernel refused to delete.      *)
THEOREM CleanupComplete == SslSpec => []CleanupRemovesAll
<1>1. SslInv => CleanupRemovesAll
  BY DEF SslInv, KernelInv, CleanupRemovesAll
<1> QED
  BY <1>1, RoutesInvariant, PTL

(* A failed ConfigureRoutes leaves only refused and unrecorded routes.      *)
THEOREM RollbackComplete == SslSpec => []RollbackRemovesRecorded
<1>1. SslInv => RollbackRemovesRecorded
  BY DEF SslInv, KernelInv, RollbackRemovesRecorded
<1> QED
  BY <1>1, RoutesInvariant, PTL

(* Whoever closes the interface, the session's routes are gone before it.   *)
THEOREM RoutesFirst == SslSpec => RoutesBeforeInterface
<1>1. SslInv /\ [SslNext]_svars =>
        [device = "open" /\ device' = "closed" => kernel \subseteq stuck \cup lost]_svars
  <2> SUFFICES ASSUME SslInv, SslNext, device = "open", device' = "closed"
               PROVE  kernel \subseteq stuck \cup lost
    OBVIOUS
  <2>1. \E t \in Threads : CloseInterface(t)
    BY DEF SslNext, Connect, EarlyFailure, Allocate, OpenTunnel, CreateDevice,
       ConfigureDevice, SetupFails, ConfigureRoutes, RoutesFail, RoutesReady,
       SetupExpired, ConnectReturns, Unwind, Run, CallRun, RunRefused,
       StartCopiers, SelectDone, SelectResult, CloseAllDevice, EngineReturns,
       RunReturns, Finish, Copy, ReadDevice, CheckWrite, WriteTunnel,
       CheckRead, ReadTunnel, WriteDevice, Send, Step, Failure, ClosedError,
       Fail, CloseStep, EnterOnce, CloseTransport, EnterDevice, CleanRoutes,
       ExternalClose, Interrupt, SetupTimeout, closing, released, svars
  <2> QED
    BY <2>1 DEF SslInv, RouteInv, CloseInterface
<1> QED
  BY <1>1, RoutesInvariant, PTL DEF SslSpec, RoutesBeforeInterface

-----------------------------------------------------------------------------
(* The cause of an error.  Until Run has chosen its result, no end is closed *)
(* and no error is on its way unless something outside is to blame; before   *)
(* Run, there is no copier that could send one.                              *)

BeforeRun == SetupPCs \cup {"unwind", "failed", "connected", "run"}

AfterSelect == {"closeAll", "closeDevice", "deferRun", "deferMain", "ended"}

NoErrorSent ==
    /\ transport # "closed" /\ device # "closed"
    /\ \A g \in Copiers : gpc[g] = "send" => Orderly(out[g])
    /\ \A i \in 1..Len(results) : Orderly(results[i])

CauseInv ==
    /\ pc \in SetupPCs => transport # "closed"
    /\ pc \in BeforeRun => results = <<>> /\ \A g \in Copiers : gpc[g] = "off"
    /\ \A t \in Closers :
           close[t] \in {"device", "routes", "interface"} => cause # {}
    /\ pc \in {"connected", "run", "select"} => cause # {} \/ NoErrorSent
    /\ pc \in AfterSelect /\ result = "error" =>
           cause # {} \/ gpc["d2t"] = "off"

LEMMA CauseInit == SslInit => CauseInv
  BY DEF SslInit, CauseInv, BeforeRun, AfterSelect, SetupPCs, Copiers, Threads

LEMMA CauseNext ==
  ASSUME SslInv, CauseInv, [SslNext]_svars
  PROVE  CauseInv'
<1> USE SslAssumption
    DEF SslInv, TInv, SslTypeOK, ControlTypeOK, PCs, CloseStages, Outcomes,
        CloseInv, OnceInv, ResourceInv, PcInv, SetupPCs, BeforeRun,
        AfterSelect, NoErrorSent, Orderly, CauseInv, Threads, Copiers
<1>1. CASE UNCHANGED <<pc, result, closing, copying, cause>>
  BY <1>1 DEF closing, released, copying
<1>2. CASE EarlyFailure \/ Allocate \/ ConfigureDevice
  BY <1>2 DEF EarlyFailure, Allocate, ConfigureDevice, closing, released, copying
<1>3. CASE OpenTunnel
  BY <1>3 DEF OpenTunnel, copying
<1>4. CASE CreateDevice
  BY <1>4 DEF CreateDevice, CreateTun, CreateUtun, copying
<1>5. CASE SetupFails \/ RoutesFail \/ SetupExpired
  BY <1>5 DEF SetupFails, RoutesFail, SetupExpired, Unwind, CloseAt, released,
     copying
<1>6. CASE RoutesReady
  BY <1>6 DEF RoutesReady, closing, released, copying
<1>7. CASE ConnectReturns
  <2>1. transport # "closed" /\ device # "closed"
    BY <1>7 DEF ConnectReturns
  <2> QED
    BY <1>7, <2>1 DEF ConnectReturns, closing, released, copying
<1>8. CASE CallRun
  BY <1>8 DEF CallRun, closing, released, copying
<1>9. CASE RunRefused
  BY <1>9 DEF RunRefused, CloseAt, released, copying
<1>10. CASE StartCopiers
  BY <1>10 DEF StartCopiers, closing, released
<1>11. CASE SelectDone
  BY <1>11 DEF SelectDone, CloseAt, released, copying
<1>12. CASE SelectResult
  <2>1. Len(results) > 0 /\ Head(results) = results[1]
    BY <1>12, EmptySeq DEF SelectResult
  <2>2. result' = "error" => cause # {}
    BY <1>12, <2>1 DEF SelectResult, Orderly
  <2>3. /\ pc' = "closeAll" /\ cause' = cause
        /\ \A t \in Closers : close'[t] = close[t]
    BY <1>12 DEF SelectResult, CloseAt
  <2> QED
    BY <2>2, <2>3
<1>13. CASE CloseAllDevice
  BY <1>13 DEF CloseAllDevice, released, copying
<1>14. CASE EngineReturns \/ RunReturns
  BY <1>14 DEF EngineReturns, RunReturns, CloseAt, released, copying
<1>15. CASE Finish
  BY <1>15 DEF Finish, released, copying
<1>16. ASSUME NEW t \in Threads, EnterOnce(t) \/ ExternalClose(t)
       PROVE  CauseInv'
  BY <1>16 DEF EnterOnce, ExternalClose, released, copying
<1>17. ASSUME NEW t \in Threads, CloseTransport(t) PROVE CauseInv'
  BY <1>17 DEF CloseTransport, copying
<1>18. ASSUME NEW t \in Threads, EnterDevice(t) \/ CleanRoutes(t)
       PROVE  CauseInv'
  BY <1>18 DEF EnterDevice, CleanRoutes, copying
<1>19. ASSUME NEW t \in Threads, CloseInterface(t) PROVE CauseInv'
  BY <1>19 DEF CloseInterface, copying
<1>20. ASSUME NEW g \in Copiers, gpc[g] # "off",
              NEW place \in {"check", "read", "write"}, Step(g, place)
       PROVE  CauseInv'
  BY <1>20 DEF Step, closing, released
<1>21. ASSUME NEW g \in Copiers, gpc[g] # "off", NEW err \in Outcomes,
              Failure(g, err)
       PROVE  CauseInv'
  BY <1>21 DEF Failure, Fail, closing, released
<1>22. ASSUME NEW g \in Copiers, gpc[g] # "off",
              Fail(g, "canceled"), UNCHANGED cause
       PROVE  CauseInv'
  BY <1>22 DEF Fail, closing, released
<1>23. ASSUME NEW g \in Copiers, gpc[g] # "off",
              transport = "closed" \/ device = "closed", ClosedError(g)
       PROVE  CauseInv'
  BY <1>23 DEF ClosedError, Fail, closing, released
<1>24. CASE ReadDevice \/ WriteDevice
  BY <1>20, <1>21, <1>23, <1>24 DEF ReadDevice, WriteDevice
<1>25. CASE CheckWrite \/ CheckRead
  BY <1>20, <1>21, <1>22, <1>25 DEF CheckWrite, CheckRead
<1>26. CASE WriteTunnel \/ ReadTunnel
  BY <1>20, <1>21, <1>23, <1>26 DEF WriteTunnel, ReadTunnel
<1>27. ASSUME NEW g \in Copiers, Send(g) PROVE CauseInv'
  <2>1. \A i \in 1..Len(results') :
            results'[i] = IF i <= Len(results) THEN results[i] ELSE out[g]
    BY <1>27 DEF Send
  <2>2. UNCHANGED <<pc, result, closing, out, cause>> /\ gpc[g] = "send"
        /\ gpc' = [gpc EXCEPT ![g] = "done"]
    BY <1>27 DEF Send
  <2> QED
    BY <2>1, <2>2 DEF closing, released
<1>28. CASE Interrupt \/ SetupTimeout \/ ConfigureRoutes
  BY <1>1, <1>28 DEF Interrupt, SetupTimeout, ConfigureRoutes
<1>29. CASE UNCHANGED svars
  BY <1>1, <1>29 DEF svars
<1> QED
  BY <1>2, <1>3, <1>4, <1>5, <1>6, <1>7, <1>8, <1>9, <1>10, <1>11, <1>12,
     <1>13, <1>14, <1>15, <1>16, <1>17, <1>18, <1>19, <1>24, <1>25, <1>26,
     <1>27, <1>28, <1>29
  DEF SslNext, Connect, Run, Copy, CloseStep

(* An error that Run returns has a cause other than Run's own teardown, or   *)
(* comes from before the copiers were started.                               *)
THEOREM ErrorsHaveCauses == SslSpec => []ErrorHasCause
<1>1. SslInit => CauseInv
  BY CauseInit
<1>2. SslInv /\ CauseInv /\ [SslNext]_svars => CauseInv'
  BY CauseNext
<1>3. CauseInv => ErrorHasCause
  BY DEF CauseInv, AfterSelect, ErrorHasCause
<1> QED
  BY <1>1, <1>2, <1>3, RoutesInvariant, PTL DEF SslSpec

-----------------------------------------------------------------------------
(* Refinement: every step of the session is a step of the contract, or leaves *)
(* stage and resources as they are.                                           *)

LEMMA SessionStepIsContractStep ==
  ASSUME SslInv, [SslNext]_svars
  PROVE  [Contract!ContractNext]_(Contract!contract)
<1> USE SslAssumption
    DEF SslInv, TInv, SslTypeOK, ControlTypeOK, PCs, CloseStages, CloseInv,
        OnceInv, ResourceInv, PcInv, SetupPCs, Threads, Contract!contract
<1>1. CASE UNCHANGED <<pc, transport, device>>
  BY <1>1
<1>2. CASE EarlyFailure
  BY <1>2 DEF EarlyFailure, closing, released,
     Contract!ContractNext, Contract!ConnectFails
<1>3. CASE Allocate \/ ConfigureDevice \/ RoutesReady
  BY <1>3 DEF Allocate, ConfigureDevice, RoutesReady, closing, released
<1>4. CASE OpenTunnel
  BY <1>4 DEF OpenTunnel, Contract!ContractNext, Contract!Acquire
<1>5. CASE CreateDevice
  BY <1>5 DEF CreateDevice, Contract!ContractNext, Contract!Acquire
<1>6. CASE SetupFails \/ RoutesFail \/ SetupExpired
  BY <1>6 DEF SetupFails, RoutesFail, SetupExpired, Unwind, CloseAt, released
<1>7. CASE ConnectReturns
  BY <1>7 DEF ConnectReturns, closing, released,
     Contract!ContractNext, Contract!ConnectReturns
<1>8. CASE CallRun
  BY <1>8 DEF CallRun, closing, released,
     Contract!ContractNext, Contract!RunCalled
<1>9. CASE RunRefused \/ StartCopiers \/ SelectDone \/ SelectResult
           \/ CloseAllDevice \/ EngineReturns
  BY <1>9 DEF RunRefused, StartCopiers, SelectDone, SelectResult,
     CloseAllDevice, EngineReturns, CloseAt, closing, released
<1>10. CASE RunReturns
  BY <1>10 DEF RunReturns, CloseAt, released,
     Contract!ContractNext, Contract!RunReturns
<1>11. CASE Finish
  BY <1>11 DEF Finish, released,
     Contract!ContractNext, Contract!ConnectFails
<1>12. ASSUME NEW t \in Threads, CloseTransport(t) \/ CloseInterface(t)
       PROVE  [Contract!ContractNext]_(Contract!contract)
  <2>1. pc' = pc /\ close[t] \in {"transport", "interface"}
    BY <1>12 DEF CloseTransport, CloseInterface
  <2>2. pc \notin SetupPCs \cup {"failed", "deferMain", "ended"}
    BY <2>1
  <2>3. transport' = "closed" /\ device' \in {device, "closed"}
    BY <1>12 DEF CloseTransport, CloseInterface
  <2>4. (device' = device /\ device = "open" /\ transport = "open")
        \/ ~(transport' = "open" \/ device' = "open")
        \/ UNCHANGED <<pc, transport, device>>
    BY <1>12, <2>3 DEF CloseTransport, CloseInterface
  <2> QED
    BY <2>1, <2>2, <2>3, <2>4
    DEF Contract!ContractNext, Contract!Unwind, Contract!Release
<1>13. ASSUME NEW t \in Threads, EnterOnce(t) \/ EnterDevice(t)
              \/ CleanRoutes(t) \/ ExternalClose(t)
       PROVE  UNCHANGED <<pc, transport, device>>
  BY <1>13 DEF EnterOnce, EnterDevice, CleanRoutes, ExternalClose, released
<1>14. CASE Interrupt \/ SetupTimeout \/ ConfigureRoutes
  BY <1>14 DEF Interrupt, SetupTimeout, ConfigureRoutes, closing, released
<1>15. CASE Copy
  BY <1>1, <1>15 DEF Copy, ReadDevice, CheckWrite, WriteTunnel, CheckRead,
     ReadTunnel, WriteDevice, Send, Step, Failure, ClosedError, Fail, closing,
     released
<1>16. CASE UNCHANGED svars
  BY <1>16 DEF svars, closing, released
<1> QED
  BY <1>1, <1>2, <1>3, <1>4, <1>5, <1>6, <1>7, <1>8, <1>9, <1>10, <1>11,
     <1>12, <1>13, <1>14, <1>15, <1>16
  DEF SslNext, Connect, Run, CloseStep

(* The session keeps the contract of session.go: a Connect that fails has    *)
(* released what it acquired, Run returns with everything released, and      *)
(* nothing is acquired again after a Close.                                  *)
THEOREM SessionImplementsContract == SslSpec => ImplementsContract
<1>1. SslInit => Contract!ContractInit
  BY DEF SslInit, Contract!ContractInit
<1>2. SslInv /\ [SslNext]_svars => [Contract!ContractNext]_(Contract!contract)
  BY SessionStepIsContractStep
<1> QED
  BY <1>1, <1>2, RoutesInvariant, PTL
  DEF SslSpec, ImplementsContract, Contract!ContractSpec

=============================================================================
