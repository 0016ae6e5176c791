------------------------------ MODULE Fortinet ------------------------------
(***************************************************************************)
(* The SSL-VPN gateway as internal/fortinet talks to it, over one inspect, *)
(* probe or connect: login with its chain of host-check redirects,         *)
(* allocation with its fallback to the legacy endpoint, the opening of the *)
(* tunnel, which a gateway accepts by saying nothing, and the first packet *)
(* that is read from it.                                                   *)
(***************************************************************************)
EXTENDS Naturals

CONSTANT Modes      \* the values of --ip-mode that are tried

ASSUME FortinetAssumption == Modes \subseteq {"auto", "ipv4", "ipv6", "dual"}

MaxHops == 4        \* completeAuthentication follows as many redirects

Families == {4, 6}

\* What may arrive on the tunnel's connection: a frame, a frame whose length
\* begins with the letter H, an HTTP success or rejection, or its end, before
\* anything or after one letter.
Answers == {"frame", "hframe", "success", "rejection", "eof", "cut"}

Unasked == "unasked"

VARIABLES
    command,    \* inspect, probe or connect
    ctx,        \* the set-up context is done
    mode,
    pc,         \* where the set-up stands
    cookie,     \* the jar holds a session cookie
    redirect,   \* the last reply names a page to go on to
    hops,       \* redirects followed
    legacy,     \* the allocation asks the endpoint without dual stack
    allocated,  \* allocations that the gateway has made
    config,     \* address families of the configuration
    conn,       \* the tunnel's connection
    answer,     \* what the gateway does with the tunnel request
    arrived,    \* how much of it has: nothing, one byte, all, and as much more as a
                \* frame of that length would take, or the end of the stream
    deadline,   \* a read deadline is set on the connection
    late,       \* it has passed
    consumed,   \* bytes have been taken from the stream before it was handed over
    received    \* what ReadPacket made of what arrived first

login == <<cookie, redirect, hops>>
allocation == <<legacy, allocated, config>>
tunnel == <<conn, answer, arrived, deadline, late, consumed, received>>
vars == <<command, ctx, mode, pc, login, allocation, tunnel>>

FortinetTypeOK ==
    /\ command \in {"inspect", "probe", "connect"}
    /\ ctx \in BOOLEAN
    /\ mode \in Modes
    /\ pc \in {"login", "follow", "index", "allocate", "select", "selected", "request",
               "peek1", "peek5", "response", "refused", "failed", "tunnel", "done"}
    /\ cookie \in BOOLEAN
    /\ redirect \in BOOLEAN
    /\ hops \in 0..MaxHops
    /\ legacy \in BOOLEAN
    /\ allocated \in 0..2
    /\ config \in SUBSET Families
    /\ conn \in {"none", "open", "closed"}
    /\ answer \in Answers \cup {Unasked}
    /\ arrived \in {"nothing", "byte", "all", "more"}
    /\ deadline \in BOOLEAN
    /\ late \in BOOLEAN
    /\ consumed \in BOOLEAN
    /\ received \in {"none", "packet", "error"}

FortinetInit ==
    /\ command \in {"inspect", "probe", "connect"}
    /\ ctx = FALSE
    /\ mode \in Modes
    /\ pc = "login"
    /\ cookie = FALSE
    /\ redirect = FALSE
    /\ hops = 0
    /\ legacy = (mode = "ipv4")
    /\ allocated = 0
    /\ config = {}
    /\ conn = "none"
    /\ answer = Unasked
    /\ arrived = "nothing"
    /\ deadline = FALSE
    /\ late = FALSE
    /\ consumed = FALSE
    /\ received = "none"

Go(place) == pc' = place

Expire ==
    /\ ~ctx
    /\ ctx' = TRUE
    /\ UNCHANGED <<command, mode, pc, login, allocation, tunnel>>

-----------------------------------------------------------------------------
(* AuthenticatePassword, AuthenticateSAML, completeAuthentication *)

\* A reply with a status of 200 may set the cookie, or clear it.
Reply ==
    /\ ~ctx
    /\ cookie' \in BOOLEAN
    /\ redirect' \in BOOLEAN

Login ==
    /\ pc = "login"
    /\ \/ Reply /\ Go("follow")
       \/ Go("failed") /\ UNCHANGED <<cookie, redirect>>
    /\ UNCHANGED <<command, ctx, mode, hops, allocation, tunnel>>

Follow ==
    /\ pc = "follow"
    /\ ~cookie
    /\ redirect
    /\ hops < MaxHops
    /\ \/ Reply /\ hops' = hops + 1 /\ Go("follow")
       \/ Go("failed") /\ UNCHANGED login
    /\ UNCHANGED <<command, ctx, mode, allocation, tunnel>>

LoggedIn ==
    /\ pc = "follow"
    /\ cookie
    /\ Go("index")
    /\ UNCHANGED <<command, ctx, mode, login, allocation, tunnel>>

\* ErrInvalidPassword, for a password.
CookieMissing ==
    /\ pc = "follow"
    /\ ~cookie
    /\ ~redirect \/ hops = MaxHops
    /\ Go("refused")
    /\ UNCHANGED <<command, ctx, mode, login, allocation, tunnel>>

-----------------------------------------------------------------------------
(* NetworkConfigForIPMode *)

\* /remote/index, which may be forbidden, and /remote/fortisslvpn.
Index ==
    /\ pc = "index"
    /\ \/ ~ctx /\ Go("allocate") /\ cookie' \in BOOLEAN
       \/ Go("failed") /\ UNCHANGED cookie
    /\ UNCHANGED <<command, ctx, mode, redirect, hops, allocation, tunnel>>

MayFallBackMut == mode # "dual"

MayFallBack == ~legacy /\ mode # "dual"

\* The gateway allocates; its reply arrives, or does not.
Allocate ==
    /\ pc = "allocate"
    /\ ~ctx
    /\ allocated' = allocated + 1
    /\ \/ /\ config' \in SUBSET Families
          /\ cookie' \in BOOLEAN
          /\ Go("select")
          /\ UNCHANGED legacy
       \/ Go("failed") /\ ~MayFallBack /\ UNCHANGED <<cookie, config, legacy>>
       \/ Go("allocate") /\ MayFallBack /\ legacy' = TRUE /\ UNCHANGED <<cookie, config>>
    /\ UNCHANGED <<command, ctx, mode, redirect, hops, tunnel>>

\* Refused, perhaps with a cookie, or never sent.
AllocationFails ==
    /\ pc = "allocate"
    /\ cookie' \in IF ctx THEN {cookie} ELSE BOOLEAN
    /\ IF MayFallBack THEN legacy' = TRUE /\ Go("allocate") ELSE Go("failed") /\ UNCHANGED legacy
    /\ UNCHANGED <<command, ctx, mode, redirect, hops, allocated, config, tunnel>>

Required ==
    (IF mode \in {"ipv4", "dual"} THEN {4} ELSE {})
        \cup (IF mode \in {"ipv6", "dual"} THEN {6} ELSE {})

RestrictedMut == config

Restricted == IF mode \in {"auto", "dual"} THEN config ELSE Required

\* ParseNetworkConfig and ForIPMode.
Select ==
    /\ pc = "select"
    /\ \/ Required \subseteq config /\ config' = Restricted /\ Go("selected")
       \/ Go("failed") /\ UNCHANGED config
    /\ UNCHANGED <<command, ctx, mode, login, legacy, allocated, tunnel>>

Inspected ==
    /\ pc = "selected" /\ command = "inspect"
    /\ Go("done")
    /\ UNCHANGED <<command, ctx, mode, login, allocation, tunnel>>

\* connect, but not probe, looks at the tunnel methods of the configuration.
NoTunTransport ==
    /\ pc = "selected" /\ command = "connect"
    /\ Go("failed")
    /\ UNCHANGED <<command, ctx, mode, login, allocation, tunnel>>

-----------------------------------------------------------------------------
(* OpenTunnel2 *)

Dial ==
    /\ pc = "selected" /\ command # "inspect"
    /\ \/ Go("failed") /\ UNCHANGED conn
       \/ ~ctx /\ cookie /\ Go("request") /\ conn' = "open"
       \/ cookie /\ Go("failed") /\ conn' = "closed"    \* the TLS handshake fails
    /\ UNCHANGED <<command, ctx, mode, login, allocation, answer, arrived, deadline, late, consumed, received>>

\* As if the wait had no deadline.
RequestMut ==
    /\ pc = "request"
    /\ \/ Go("peek1") /\ answer' \in Answers /\ UNCHANGED conn
       \/ Go("failed") /\ conn' = "closed" /\ UNCHANGED answer
    /\ UNCHANGED <<command, ctx, mode, login, allocation, arrived, deadline, late, consumed, received>>

\* The request is written, and the wait of 100 ms begins.
Request ==
    /\ pc = "request"
    /\ \/ Go("peek1") /\ answer' \in Answers /\ deadline' = TRUE /\ UNCHANGED conn
       \/ Go("failed") /\ conn' = "closed" /\ UNCHANGED <<answer, deadline>>
    /\ UNCHANGED <<command, ctx, mode, login, allocation, arrived, late, consumed, received>>

\* Bytes come at any moment, also after the wait.
Arrive ==
    /\ pc \in {"peek1", "peek5", "response", "tunnel"}
    /\ \/ arrived = "nothing" /\ arrived' \in {"byte", "all"}
       \/ arrived = "byte" /\ arrived' = "all"
       \/ arrived = "all" /\ arrived' = "more"
    /\ UNCHANGED <<command, ctx, mode, pc, login, allocation, conn, answer, deadline, late, consumed, received>>

Arrived == arrived \in {"all", "more"}

WaitEnds ==
    /\ deadline
    /\ ~late
    /\ late' = TRUE
    /\ UNCHANGED <<command, ctx, mode, pc, login, allocation, conn, answer, arrived, deadline, consumed, received>>

\* The deferred call clears the deadline.
AcceptedMut ==
    /\ Go("tunnel")
    /\ UNCHANGED <<command, ctx, mode, login, allocation, tunnel>>

Accepted ==
    /\ Go("tunnel")
    /\ deadline' = FALSE
    /\ UNCHANGED <<command, ctx, mode, login, allocation, conn, answer, arrived, late, consumed, received>>

Rejected ==
    /\ Go("failed")
    /\ deadline' = FALSE
    /\ conn' = "closed"
    /\ UNCHANGED <<command, ctx, mode, login, allocation, answer, arrived, late, consumed, received>>

BeginsWithH == answer \in {"hframe", "success", "rejection", "cut"}

\* Peek(1): a read past its deadline fails though there may be something.
TimeOut ==
    /\ pc \in {"peek1", "peek5"}
    /\ late
    /\ Accepted

Peek1 ==
    /\ pc = "peek1"
    /\ arrived # "nothing"
    /\ \/ answer = "eof" /\ Rejected
       \/ answer = "frame" /\ Accepted
       \/ /\ BeginsWithH
          /\ Go("peek5")
          /\ UNCHANGED <<command, ctx, mode, login, allocation, tunnel>>

\* Peek(5).
Peek5 ==
    /\ pc = "peek5"
    /\ Arrived
    /\ \/ answer = "cut" /\ Rejected
       \/ answer = "hframe" /\ Accepted
       \/ /\ answer \in {"success", "rejection"}
          /\ Go("response")
          /\ UNCHANGED <<command, ctx, mode, login, allocation, tunnel>>

\* http.ReadResponse; an error of its own ends the same way.
Response ==
    /\ pc = "response"
    /\ consumed' = TRUE
    /\ Go("failed")
    /\ deadline' = FALSE
    /\ conn' = "closed"
    /\ UNCHANGED <<command, ctx, mode, login, allocation, answer, arrived, late, received>>

-----------------------------------------------------------------------------
(* What becomes of the tunnel *)

\* Probe closes it, and reports that it was accepted.
ProbeCloses ==
    /\ pc = "tunnel" /\ command = "probe"
    /\ Go("done")
    /\ conn' = "closed"
    /\ UNCHANGED <<command, ctx, mode, login, allocation, answer, arrived, deadline, late, consumed, received>>

IsFrame == answer \in {"frame", "hframe"}

\* "HT" is a length of 18516, of which an HTTP answer is a part; the magic that
\* follows is "TP", and no frame has it.
Readable == IF answer \in {"success", "rejection"} THEN arrived = "more" ELSE Arrived

\* ReadPacket, under a context of the session that is not done and has no
\* deadline: the next length of bytes is a frame, or it fails, once they are there
\* or will not come.
ReadPacket ==
    /\ pc = "tunnel" /\ command = "connect"
    /\ received = "none"
    /\ \/ Readable /\ received' = IF IsFrame /\ ~consumed THEN "packet" ELSE "error"
       \/ deadline /\ late /\ received' = "error"
    /\ UNCHANGED <<command, ctx, mode, pc, login, allocation, conn, answer, arrived, deadline, late, consumed>>

-----------------------------------------------------------------------------
(* The specification *)

Client ==
    \/ Login \/ Follow \/ LoggedIn \/ CookieMissing
    \/ Index \/ Allocate \/ AllocationFails \/ Select
    \/ Inspected \/ NoTunTransport
    \/ Dial \/ Request \/ TimeOut \/ Peek1 \/ Peek5 \/ Response \/ ProbeCloses

Finished == pc \in {"refused", "failed", "done", "tunnel"}

FortinetNext ==
    \/ Expire \/ Client \/ Arrive \/ WaitEnds \/ ReadPacket
    \/ Finished /\ UNCHANGED vars

\* A request ends by the 30 seconds of http.Client if the gateway does not answer;
\* the connection of the tunnel and its handshake (Dial) end by the timeout of the
\* context, which every command sets and which fires; the request for the tunnel is
\* far smaller than the buffer it is written to.  Time passes.  Nothing is assumed of
\* the gateway.
FortinetFairness == WF_vars(Client) /\ WF_vars(WaitEnds)

FortinetSpec == FortinetInit /\ [][FortinetNext]_vars /\ FortinetFairness

-----------------------------------------------------------------------------
(* Properties *)

\* What is handed to the interface has the address families that --ip-mode asks
\* for and no others, through the fallback too; where the mode leaves nothing to
\* fall back to, the gateway allocates once.
ModeHonoured ==
    /\ pc \in {"selected", "done", "request", "peek1", "peek5", "tunnel"} =>
          /\ Required \subseteq config
          /\ mode \in {"ipv4", "ipv6"} => config = Required
    /\ mode \in {"ipv4", "dual"} => allocated <= 1

\* "Give that response a brief chance to arrive without consuming a queued
\* tunnel packet": a tunnel is handed over with its stream whole, so that the
\* session's first read returns the first frame and fails only for what is none,
\* be it an HTTP answer that came too late for the wait; one that has come in time
\* is no tunnel.  Only connect ends with a connection, and only with a tunnel.
TunnelHandedOver ==
    /\ pc = "tunnel" =>
          /\ conn = "open"
          /\ answer \in {"success", "rejection", "eof", "cut"} => late
    /\ received # "none" => (received = "packet" <=> IsFrame)
    /\ pc \in {"refused", "failed", "done"} => conn # "open"

\* Whatever the gateway answers, or does not, a set-up ends: redirects and the
\* fallback are followed a bounded number of times, and no answer at all to the
\* tunnel request is waited for but briefly.
SetupEnds == <>Finished

=============================================================================
