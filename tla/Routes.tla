------------------------------- MODULE Routes -------------------------------
(***************************************************************************)
(* tun.ConfigureRoutes and the cleanup function it returns (internal/tun/  *)
(* routes_linux.go; routes_darwin.go differs only in the command it runs). *)
(* Every route is one external command.  `ip route add` runs under the     *)
(* set-up context, which kills it when it expires, whether or not the      *)
(* kernel has already applied the change; `ip route delete` always runs    *)
(* under context.Background().  The module has no next-state relation of   *)
(* its own: SslSession takes its steps, as Connect and Close call them.    *)
(***************************************************************************)
EXTENDS Naturals, Sequences, Functions

CONSTANTS
    Route,       \* route specifications newLinuxRouteSpec accepts
    Invalid,    \* an argument it rejects: a network.Route without a destination
    MaxRoutes   \* bound on the length of the argument lists enumerated

ASSUME RoutesAssumption == Invalid \notin Route /\ MaxRoutes \in Nat

VARIABLES
    ctx,        \* has the set-up context expired?
    routes,     \* the argument: append(routes4, routes6)
    rphase,      \* where ConfigureRoutes, or its cleanup function, stands
    rindex,       \* index of the route the loop looks at
    installed,  \* the slice `installed`
    rem,        \* index removeRoutes looks at, going down
    kernel,     \* routes through the device that the kernel holds
    stuck,      \* routes whose deletion failed, and was reported or dropped
    lost        \* routes in the kernel that the code kept no record of

local == <<routes, rphase, rindex, installed, rem, kernel, stuck, lost>>

Phases == {"idle", "adding", "running", "rollback", "failed",
           "installed", "cleanup", "removed"}

RouteLists == UNION {[1..n -> Route \cup {Invalid}] : n \in 0..MaxRoutes}

RoutesTypeOK ==
    /\ ctx \in BOOLEAN
    /\ routes \in Seq(Route \cup {Invalid})
    /\ rphase \in Phases
    /\ rindex \in Nat \ {0}
    /\ installed \in Seq(Route)
    /\ rem \in 0..Len(installed)
    /\ kernel \in SUBSET Route
    /\ stuck \in SUBSET Route
    /\ lost \in SUBSET Route

RoutesInit ==
    /\ routes \in RouteLists
    /\ rphase = "idle"
    /\ rindex = 1
    /\ installed = <<>>
    /\ rem = 0
    /\ kernel = {}
    /\ stuck = {}
    /\ lost = {}

-----------------------------------------------------------------------------
(* ConfigureRoutes *)

Call ==
    /\ rphase = "idle"
    /\ rphase' = "adding"
    /\ UNCHANGED <<routes, rindex, installed, rem, kernel, stuck, lost>>

\* containsLinuxRoute: the list names the same destination twice.

Recorded(spec) == spec \in Range(installed)

SkipDuplicate ==
    /\ rphase = "adding"
    /\ rindex <= Len(routes)
    /\ Recorded(routes[rindex])
    /\ rindex' = rindex + 1
    /\ UNCHANGED <<routes, rphase, installed, rem, kernel, stuck, lost>>

\* newLinuxRouteSpec fails: ConfigureRoutes returns at once, with no cleanup
\* function and without removing what the earlier iterations installed.
Abort ==
    /\ rphase = "adding"
    /\ rindex <= Len(routes)
    /\ routes[rindex] = Invalid
    /\ rphase' = "failed"
    /\ lost' = lost \cup kernel
    /\ UNCHANGED <<routes, rindex, installed, rem, kernel, stuck>>

\* exec.CommandContext starts nothing once its context has expired.
StartAdd ==
    /\ rphase = "adding"
    /\ rindex <= Len(routes)
    /\ routes[rindex] \in Route
    /\ ~Recorded(routes[rindex])
    /\ ~ctx
    /\ rphase' = "running"
    /\ UNCHANGED <<routes, rindex, installed, rem, kernel, stuck, lost>>

AddSucceeds ==
    /\ rphase = "running"
    /\ routes[rindex] \notin kernel        \* the kernel refuses a second one
    /\ kernel' = kernel \cup {routes[rindex]}
    /\ installed' = Append(installed, routes[rindex])
    /\ rindex' = rindex + 1
    /\ rphase' = "adding"
    /\ UNCHANGED <<routes, rem, stuck, lost>>

\* What both failures of the command lead to: removeLinuxRoutes(installed).
RollbackMut ==
    /\ rphase' = "failed"
    /\ rem' = Len(installed)

Rollback ==
    /\ rphase' = "rollback"
    /\ rem' = Len(installed)

\* The command fails, or could not be started.
AddFails ==
    /\ \/ rphase = "running"
       \/ /\ rphase = "adding"
          /\ rindex <= Len(routes)
          /\ routes[rindex] \in Route
          /\ ~Recorded(routes[rindex])
          /\ ctx
    /\ Rollback
    /\ UNCHANGED <<routes, rindex, installed, kernel, stuck, lost>>

\* The context expires after the kernel has added the route and before the
\* command has exited: the process is killed and its route not recorded.
AddKilled ==
    /\ rphase = "running"
    /\ ctx
    /\ routes[rindex] \notin kernel
    /\ kernel' = kernel \cup {routes[rindex]}
    /\ lost' = lost \cup {routes[rindex]}
    /\ Rollback
    /\ UNCHANGED <<routes, rindex, installed, stuck>>

Return ==
    /\ rphase = "adding"
    /\ rindex > Len(routes)
    /\ rphase' = "installed"
    /\ UNCHANGED <<routes, rindex, installed, rem, kernel, stuck, lost>>

-----------------------------------------------------------------------------
(* removeLinuxRoutes, for the rollback and for the cleanup function *)

StartCleanupMut ==
    /\ rphase = "installed"
    /\ rphase' = "cleanup"
    /\ rem' = Len(installed) + 1
    /\ UNCHANGED <<routes, rindex, installed, kernel, stuck, lost>>

StartCleanup ==
    /\ rphase = "installed"
    /\ rphase' = "cleanup"
    /\ rem' = Len(installed)
    /\ UNCHANGED <<routes, rindex, installed, kernel, stuck, lost>>

DeleteSucceeds ==
    /\ rphase \in {"rollback", "cleanup"}
    /\ rem > 0
    /\ installed[rem] \in kernel
    /\ kernel' = kernel \ {installed[rem]}
    /\ rem' = rem - 1
    /\ UNCHANGED <<routes, rphase, rindex, installed, stuck, lost>>

DeleteFailsMut ==
    /\ rphase \in {"rollback", "cleanup"}
    /\ rem > 0
    /\ stuck' = stuck \cup {installed[rem]}
    /\ rem' = 0
    /\ UNCHANGED <<routes, rphase, rindex, installed, kernel, lost>>

\* The loop goes on after a failure; the failures are joined at the end.
DeleteFails ==
    /\ rphase \in {"rollback", "cleanup"}
    /\ rem > 0
    /\ stuck' = stuck \cup {installed[rem]}
    /\ rem' = rem - 1
    /\ UNCHANGED <<routes, rphase, rindex, installed, kernel, lost>>

RollbackDone ==
    /\ rphase = "rollback"
    /\ rem = 0
    /\ rphase' = "failed"
    /\ UNCHANGED <<routes, rindex, installed, rem, kernel, stuck, lost>>

CleanupDone ==
    /\ rphase = "cleanup"
    /\ rem = 0
    /\ rphase' = "removed"
    /\ UNCHANGED <<routes, rindex, installed, rem, kernel, stuck, lost>>

Configure == \/ Call \/ SkipDuplicate \/ Abort \/ StartAdd \/ AddSucceeds
             \/ AddFails \/ AddKilled \/ Return

Remove == DeleteSucceeds \/ DeleteFails \/ RollbackDone \/ CleanupDone

-----------------------------------------------------------------------------
(* Properties *)

\* The duplicate test does its work: no command is started for a route the
\* kernel already holds, which it would refuse and so fail the whole set-up.
NoDuplicateAdd == rphase = "running" => routes[rindex] \notin kernel

\* The cleanup function attempts every recorded route although earlier
\* deletions failed: what remains is only what the kernel refused to delete.
CleanupRemovesAll == rphase = "removed" => kernel \subseteq stuck

\* A failed ConfigureRoutes leaves a route behind only if its deletion failed,
\* or if no record was kept of it (a killed command, a rejected argument).
RollbackRemovesRecorded == rphase = "failed" => kernel \subseteq stuck \cup lost

=============================================================================
