-------------------------------- MODULE Relay --------------------------------
(***************************************************************************)
(* internal/ipsec/tcptransport: Dial, and the relay it returns, which      *)
(* copies IKE and ESP packets between one TCP connection to the gateway    *)
(* and one loopback UDP socket of the daemon, in two goroutines.           *)
(***************************************************************************)
EXTENDS Naturals, Sequences, SequencesExt

CONSTANTS
    Packets,    \* payloads that are neither empty nor a NAT keepalive
    Closers,    \* goroutines that call Relay.Close
    MaxInput    \* bound on the packets that the two sides offer together

ASSUME RelayAssumption ==
    /\ MaxInput \in Nat
    /\ {"out", "in"} \cap Closers = {}
    /\ {"keepalive", "empty", "malformed"} \cap Packets = {}

Copiers == {"out", "in"}            \* outbound() and inbound()
Threads == Copiers \cup Closers

Datagrams == Packets \cup {"keepalive", "empty"}
Records == Packets \cup {"keepalive", "empty", "malformed"}

VARIABLES
    ctx,        \* the context of Dial is done
    dial,       \* where Dial stands
    hook,       \* the function registered with context.AfterFunc
    greeting,   \* result of writing the prefix IKETCP
    tcp, udp,   \* the two sockets
    fail,       \* where each thread stands in Relay.fail
    once,       \* Relay.once
    err,        \* Relay.err: "unset" before the first assignment
    done,       \* Relay.done is closed
    at,         \* where each goroutine, and each caller of Close, stands
    offered,    \* packets each side has offered so far, in order
    taken,      \* how many of them each copier has read
    written     \* what each copier has written to the other side

dialling == <<ctx, dial, hook, greeting>>
failing == <<fail, once, err, done>>
data == <<offered, taken, written>>
vars == <<dialling, tcp, udp, failing, at, data>>

RelayTypeOK ==
    /\ ctx \in BOOLEAN
    /\ dial \in {"connect", "greet", "stop", "check", "udp", "failed", "open"}
    /\ hook \in {"unset", "armed", "running", "fired", "stopped"}
    /\ greeting \in {"none", "ok", "error"}
    /\ tcp \in {"none", "open", "closed"}
    /\ udp \in {"none", "open", "closed"}
    /\ fail \in [Threads -> {"out", "enter", "done", "tcp", "udp", "back"}]
    /\ once \in {"new", "busy", "done"}
    /\ err \in {"unset", "nil", "error"}
    /\ done \in BOOLEAN
    /\ at \in [Threads -> {"off", "read", "write", "fail", "wait", "ended"}]
    /\ offered \in [Copiers -> Seq(Records)]
    /\ taken \in [Copiers -> 0..MaxInput]
    /\ written \in [Copiers -> Seq(Datagrams)]

RelayInit ==
    /\ ctx = FALSE
    /\ dial = "connect"
    /\ hook = "unset"
    /\ greeting = "none"
    /\ tcp = "none"
    /\ udp = "none"
    /\ fail = [t \in Threads |-> "out"]
    /\ once = "new"
    /\ err = "unset"
    /\ done = FALSE
    /\ at = [t \in Threads |-> "off"]
    /\ offered = [g \in Copiers |-> <<>>]
    /\ taken = [g \in Copiers |-> 0]
    /\ written = [g \in Copiers |-> <<>>]

-----------------------------------------------------------------------------
(* Dial *)

\* The set-up context expires, or is cancelled, at any moment; also after Dial
\* has returned.
Expire ==
    /\ ~ctx
    /\ ctx' = TRUE
    /\ UNCHANGED <<dial, hook, greeting, tcp, udp, failing, at, data>>

ConnectFails ==
    /\ dial = "connect"
    /\ dial' = "failed"
    /\ UNCHANGED <<ctx, hook, greeting, tcp, udp, failing, at, data>>

\* The connection is made and AfterFunc registered.
Connects ==
    /\ dial = "connect"
    /\ tcp' = "open"
    /\ hook' = "armed"
    /\ dial' = "greet"
    /\ UNCHANGED <<ctx, greeting, udp, failing, at, data>>

\* The context starts the registered function in a goroutine of its own ...
HookStarts ==
    /\ ctx
    /\ hook = "armed"
    /\ hook' = "running"
    /\ UNCHANGED <<ctx, dial, greeting, tcp, udp, failing, at, data>>

\* ... which closes the connection whenever it is scheduled.
HookCloses ==
    /\ hook = "running"
    /\ hook' = "fired"
    /\ tcp' = "closed"
    /\ UNCHANGED <<ctx, dial, greeting, udp, failing, at, data>>

\* writeAll fails on a closed connection, at its deadline, or with the peer.
Greet ==
    /\ dial = "greet"
    /\ greeting' \in IF tcp = "open" THEN {"ok", "error"} ELSE {"error"}
    /\ dial' = "stop"
    /\ UNCHANGED <<ctx, hook, tcp, udp, failing, at, data>>

\* stop() reports whether it kept the function from starting.
Stop ==
    /\ dial = "stop"
    /\ hook' = IF hook = "armed" THEN "stopped" ELSE hook
    /\ dial' = "check"
    /\ UNCHANGED <<ctx, greeting, tcp, udp, failing, at, data>>

EstablishedMut == greeting = "ok"

Established == greeting = "ok" /\ hook = "stopped" /\ ~ctx

\* Both failures from here on close the connection.
GiveUp ==
    /\ tcp' = "closed"
    /\ dial' = "failed"
    /\ UNCHANGED <<ctx, hook, greeting, udp, failing, at, data>>

Rejected == dial = "check" /\ ~Established /\ GiveUp

Accepted ==
    /\ dial = "check"
    /\ Established
    /\ dial' = "udp"
    /\ UNCHANGED <<ctx, hook, greeting, tcp, udp, failing, at, data>>

UdpFails == dial = "udp" /\ GiveUp

\* The relay exists and both goroutines run.
DialReturns ==
    /\ dial = "udp"
    /\ udp' = "open"
    /\ dial' = "open"
    /\ at' = [t \in Threads |-> IF t \in Copiers THEN "read" ELSE "off"]
    /\ UNCHANGED <<ctx, hook, greeting, tcp, failing, data>>

-----------------------------------------------------------------------------
(* Relay.fail, in thread t *)

FailStep(t, from, to) ==
    /\ fail[t] = from
    /\ fail' = [fail EXCEPT ![t] = to]

EnterFailMut(t) ==
    /\ \/ once = "new" /\ once' = "busy" /\ FailStep(t, "enter", "done")
       \/ once = "done" /\ FailStep(t, "enter", "back") /\ UNCHANGED once
    /\ err' = IF t \in Closers THEN "nil" ELSE "error"
    /\ UNCHANGED <<dialling, tcp, udp, done, at, data>>

EnterFail(t) ==
    /\ \/ once = "new" /\ once' = "busy" /\ FailStep(t, "enter", "done")
       \/ once = "done" /\ FailStep(t, "enter", "back") /\ UNCHANGED once
    /\ err' = IF once # "new" THEN err
              ELSE IF t \in Closers THEN "nil" ELSE "error"
    /\ UNCHANGED <<dialling, tcp, udp, done, at, data>>

CloseDone(t) ==
    /\ FailStep(t, "done", "tcp")
    /\ done' = TRUE
    /\ UNCHANGED <<dialling, tcp, udp, once, err, at, data>>

CloseTcp(t) ==
    /\ FailStep(t, "tcp", "udp")
    /\ tcp' = "closed"
    /\ UNCHANGED <<dialling, udp, once, err, done, at, data>>

CloseUdpMut(t) ==
    /\ FailStep(t, "udp", "back")
    /\ once' = "done"
    /\ UNCHANGED <<dialling, tcp, udp, err, done, at, data>>

CloseUdp(t) ==
    /\ FailStep(t, "udp", "back")
    /\ udp' = "closed"
    /\ once' = "done"
    /\ UNCHANGED <<dialling, tcp, err, done, at, data>>

Fail(t) == EnterFail(t) \/ CloseDone(t) \/ CloseTcp(t) \/ CloseUdp(t)

\* Thread t calls fail.
CallFail(t) ==
    /\ at' = [at EXCEPT ![t] = "fail"]
    /\ fail' = [fail EXCEPT ![t] = "enter"]
    /\ UNCHANGED <<dialling, tcp, udp, once, err, done>>

\* fail returns: a goroutine ends (wg.Done), a caller of Close waits for both.
FailReturns(t) ==
    /\ fail[t] = "back"
    /\ at[t] = "fail"
    /\ at' = [at EXCEPT ![t] = IF t \in Copiers THEN "ended" ELSE "wait"]
    /\ UNCHANGED <<dialling, tcp, udp, failing, data>>

-----------------------------------------------------------------------------
(* Relay.Close *)

Close(t) ==
    /\ t \in Closers
    /\ dial = "open"
    /\ at[t] = "off"
    /\ CallFail(t)
    /\ UNCHANGED data

CloseReturnsMut(t) ==
    /\ at[t] = "wait"
    /\ at' = [at EXCEPT ![t] = "ended"]
    /\ UNCHANGED <<dialling, tcp, udp, failing, data>>

CloseReturns(t) ==
    /\ at[t] = "wait"
    /\ \A g \in Copiers : at[g] = "ended"      \* wg.Wait
    /\ at' = [at EXCEPT ![t] = "ended"]
    /\ UNCHANGED <<dialling, tcp, udp, failing, data>>

-----------------------------------------------------------------------------
(* The goroutines: `out` reads the UDP socket and writes records to the TCP *)
(* connection, `in` reads records and writes datagrams.                    *)

Source(g) == IF g = "out" THEN udp ELSE tcp
Sink(g) == IF g = "out" THEN tcp ELSE udp

\* The daemon sends a datagram, the gateway a record.
Offer(g) ==
    /\ dial = "open"
    /\ Len(offered["out"]) + Len(offered["in"]) < MaxInput
    /\ \E p \in IF g = "out" THEN Datagrams ELSE Records :
          offered' = [offered EXCEPT ![g] = Append(@, p)]
    /\ UNCHANGED <<dialling, tcp, udp, failing, at, taken, written>>

Next1(g) == offered[g][taken[g] + 1]

Available(g) ==
    /\ at[g] = "read"
    /\ Source(g) = "open"
    /\ taken[g] < Len(offered[g])

Consume(g) == taken' = [taken EXCEPT ![g] = @ + 1]

\* ReadFrame goes on to the next record after an empty one; both goroutines
\* drop a NAT keepalive.
SkippedMut(g) == IF g = "out" THEN {"keepalive"} ELSE {"keepalive", "malformed"}

Skipped(g) == IF g = "out" THEN {"keepalive"} ELSE {"keepalive", "empty"}

Skip(g) ==
    /\ Available(g)
    /\ Next1(g) \in Skipped(g)
    /\ Consume(g)
    /\ UNCHANGED <<dialling, tcp, udp, failing, at, offered, written>>

\* A record shorter than its own header is passed on.
ReadMut(g) ==
    /\ Available(g)
    /\ Next1(g) \notin Skipped(g)
    /\ Consume(g)
    /\ at' = [at EXCEPT ![g] = "write"]
    /\ UNCHANGED <<dialling, tcp, udp, failing, offered, written>>

Read(g) ==
    /\ Available(g)
    /\ Next1(g) \notin Skipped(g) \cup {"malformed"}
    /\ Consume(g)
    /\ at' = [at EXCEPT ![g] = "write"]
    /\ UNCHANGED <<dialling, tcp, udp, failing, offered, written>>

\* A record shorter than its own header: ReadFrame returns an error.
Malformed(g) ==
    /\ Available(g)
    /\ Next1(g) = "malformed"
    /\ Consume(g)
    /\ CallFail(g)
    /\ UNCHANGED <<offered, written>>

\* The peer goes away, or the socket has been closed.
ReadFails(g) ==
    /\ at[g] = "read"
    /\ CallFail(g)
    /\ UNCHANGED data

\* The packet in hand.  WriteFrame refuses an empty payload.
InHand(g) == offered[g][taken[g]]

Write(g) ==
    /\ at[g] = "write"
    /\ Sink(g) = "open"
    /\ ~(g = "out" /\ InHand(g) = "empty")
    /\ written' = [written EXCEPT ![g] = Append(@, InHand(g))]
    /\ at' = [at EXCEPT ![g] = "read"]
    /\ UNCHANGED <<dialling, tcp, udp, failing, offered, taken>>

\* Also when the ten seconds of the write deadline have passed.
WriteFails(g) ==
    /\ at[g] = "write"
    /\ CallFail(g)
    /\ UNCHANGED data

-----------------------------------------------------------------------------
(* The specification *)

Dial == \/ ConnectFails \/ Connects \/ Greet \/ Stop \/ Rejected \/ Accepted
        \/ UdpFails \/ DialReturns

Copy(g) == Skip(g) \/ Read(g) \/ Malformed(g) \/ ReadFails(g) \/ Write(g) \/ WriteFails(g)

Quiet ==
    \/ dial = "failed"
    \/ /\ \A g \in Copiers : at[g] = "ended"
       /\ \A t \in Closers : at[t] \in {"off", "ended"}

RelayNext ==
    \/ Expire \/ HookStarts \/ HookCloses \/ Dial
    \/ \E t \in Threads : Fail(t) \/ FailReturns(t) \/ Close(t) \/ CloseReturns(t)
    \/ \E g \in Copiers : Offer(g) \/ Copy(g)
    \/ Quiet /\ UNCHANGED vars

\* Dial ends at its context's end or its own deadline; fail takes no wait but
\* for connection's once; a read of a closed socket and a write return.  The
\* read of an open socket need not.
RelayFairness ==
    /\ WF_vars(Dial)
    /\ \A t \in Threads :
          /\ WF_vars(Fail(t))
          /\ WF_vars(FailReturns(t))
          /\ WF_vars(CloseReturns(t))
    /\ \A g \in Copiers :
          /\ WF_vars(ReadFails(g) /\ Source(g) = "closed")
          /\ WF_vars(Write(g) \/ WriteFails(g))

RelaySpec == RelayInit /\ [][RelayNext]_vars /\ RelayFairness

-----------------------------------------------------------------------------
(* Properties *)

\* relay.go: "Context applies to establishment only, not the returned session
\* lifetime".  Whatever the race between AfterFunc and stop(), once Dial has
\* returned a relay only its own fail closes the connection; and a Dial that
\* returns an error leaves no socket open.
DialSettles ==
    /\ dial = "open" /\ tcp # "open" => once # "new"
    /\ dial = "failed" => tcp # "open" /\ udp # "open"

\* Close returns only after both goroutines have ended and the sockets are
\* closed: no packet moves after a Close that has returned.  And Err() is nil
\* only for a relay that one of its callers closed, whichever of the goroutines
\* and callers it was that recorded the reason.
CloseWaits ==
    /\ err = "nil" => \E t \in Closers : at[t] # "off"
    /\ (\E t \in Closers : at[t] = "ended") =>
          /\ \A g \in Copiers : at[g] = "ended"
          /\ tcp = "closed" /\ udp = "closed"

\* Of the first n records of s those that are packets: neither a keepalive nor
\* an empty or a malformed record.
PayloadUpTo(s) ==
    LET kept[n \in 0..Len(s)] ==
            IF n = 0 THEN <<>>
            ELSE IF s[n] \in Packets THEN Append(kept[n - 1], s[n]) ELSE kept[n - 1]
    IN  kept

Payload(s) == PayloadUpTo(s)[Len(s)]

\* Every packet is relayed whole, in order, at most once, and nothing else is:
\* what is written is a prefix of the packets that were offered.
Faithful == \A g \in Copiers : IsPrefix(written[g], Payload(offered[g]))

\* A failure or a Close ends the relay: both goroutines, and every Close.
RelayEnds == (\E t \in Threads : at[t] = "fail") ~> Quiet

Contract == INSTANCE RelayContract WITH
    link <- IF dial # "open" THEN "none"
            ELSE IF ~done THEN "up"
            ELSE IF \E g \in Copiers : at[g] # "ended" THEN "down" ELSE "gone",
    reason <- IF done THEN err ELSE "none"

\* The relay behaves as the IPsec session assumes.
ImplementsRelayContract == Contract!RelayContractSpec

=============================================================================
