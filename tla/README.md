# A verification project for fortivpn-go

`fortivpn` is a command-line VPN client for FortiGate gateways. It has two
backends behind one interface: SSL-VPN, where the program itself owns a TLS
connection, a TUN interface and routes, and IPsec, where it drives a strongSwan
daemon over its VICI socket and, for IKE in TCP, runs a relay between the two.
What is hard in this program is not the protocols but the *lives* of things:
who releases what, in which order, when set-up fails half-way, when a signal, a
timeout, a failing peer and another caller of `Close` come at the same time, and
when a process dies while it rewrites the configuration that holds its passwords.

This directory holds TLA+ modules translated from that code, TLC configurations
that check them, and proofs checked by TLAPS. `PROJECT.json` is the index: which
definition stands for which lines, which run checks what, which hazards of the
code which property is for.

## The system

| Component | State | Operations | Properties that make it correct |
|---|---|---|---|
| Session contract (`internal/session`) | what a caller may assume of a backend | Connect, Run, Close, Info | an error of Connect leaves nothing; Run has released all when it returns; Close from anywhere |
| SSL-VPN session (`internal/sslvpn`) | TLS connection, interface, `connection.once`, `routeCleanupDevice.once` | Connect, Run, Close | the contract; routes go before the interface; one owner of the teardown |
| Packet engine (`internal/tunnel`) | child context, result channel, two goroutines | Run | ends whenever it is told to; own teardown is no error |
| Routes (`internal/tun/routes_*.go`) | the slice `installed`, the kernel's table | ConfigureRoutes, its rollback, its cleanup | what is installed is removed; nothing is added twice |
| TUN devices (`internal/tun`) | one file descriptor | Create, Configure, Read, Write, Close | Close unblocks a read (on Linux; not on macOS) |
| IPsec session (`internal/ipsec/backend.go`) | what has been loaded, `once`, `done` | Connect, Run (monitor), Close | what was loaded, perhaps, is unloaded or reported; a loss is noticed, a rekey is none |
| Negotiated state (`internal/ipsec/state.go`) | none | `info` | accepts what was asked for and only that |
| TCP relay (`internal/ipsec/tcptransport`) | two sockets, `once`, `err`, `done` | Dial, Done, Err, Close | no leak in Dial's race; packets in order; Close waits |
| FortiGate client (`internal/fortinet/client.go`) | cookie jar | login, allocation | the IP mode is honoured through the fallback |
| FortiGate tunnel (`internal/fortinet/tunnel.go`) | connection, buffered reader, deadline | OpenTunnel2, ReadPacket, WritePacket, Close | an accepted tunnel is handed over untouched |
| SAML login (`internal/auth/saml.go`) | listener, server, channel | Authenticate | first callback wins; the port is free afterwards |
| Configuration (`internal/config/config.go`) | one file, in layers: globals, groups, instances | Load, AddInstance | whole, private and consistent at every moment; what is added can be loaded |
| XML configuration (`internal/fortinet/xml.go`, `internal/network`) | element stack, the Config it fills | ParseNetworkConfig, ForIPMode | each route once; a default route for exactly the split tunnels that list none |
| Password entry (`cmd/fortivpn/main.go`, `ipsec.go`) | the terminal's mode, the bytes read | passwordForAuthentication, readMaskedPassword, readPassword | what is sent is what was entered, whole; the terminal is restored |

Calls go down: the command (`cmd/fortivpn`) makes the contexts, calls
`Connect(setupCtx)`, cancels that context, calls `Run(sessionCtx)`, and defers
`Close`. `Connect` of SSL-VPN logs in (perhaps through the browser and the
callback server), asks for an allocation, opens the tunnel, creates and
configures the interface and installs routes. What is shared is little, and
each piece is where the trouble is: the two `sync.Once` of the SSL session, the
result channel of the packet engine, `connection.done` and `once` of the IPsec
session, the sockets and `once` of the relay, the file that several commands
rewrite, and the daemon and the kernel, which outlive the process.

The hard behaviours are: a set-up that fails or expires at any of its steps;
commands that fail after they have taken effect; `Close` by others while `Run`
tears down; the race between `context.AfterFunc` and its `stop`; a monitor whose
poll is interrupted by the very shutdown it should not report; callbacks that
race; a power failure between a write and a rename; documents and reports of a
gateway in which parts that are each in order meet. `hazards` in `PROJECT.json`
lists them one by one, at their lines, with the properties meant for each.

## Modules

| Module | Models | Composed of |
|---|---|---|
| `SessionContract` | the promises of `session.go`, and nothing of how | |
| `Routes` | `ConfigureRoutes`, rollback, cleanup: command by command | |
| `SslSession` | `tunnel connect`, `Connect`, `Run`, `Close`, packet engine | extends `Routes`; implements `SessionContract` |
| `RelayContract` | what the IPsec session assumes of the relay | |
| `Relay` | Dial, two copying goroutines, fail, Close | implements `RelayContract` |
| `IpsecSession` | `ipsec connect`, Connect, monitor, Close, the daemon | instantiates `RelayContract`; implements `SessionContract` |
| `NegotiatedInfo` | `info`, walked as the code walks it, beside a definition without a walk | |
| `XmlConfig` | `ParseNetworkConfig` and `ForIPMode`, beside a definition without a walk | |
| `SessionConfig` | the protocol that `connect` dispatches to, and where its routes come from | extends `NegotiatedInfo` and `XmlConfig` |
| `Fortinet` | login, allocation, opening of the tunnel and its first packet, of inspect, probe and connect, against every gateway | |
| `PasswordEntry` | flags, file, credentials; terminal and standard input | |
| `SamlLogin` | Authenticate, callback server, requests | |
| `Authentication` | a command until it is authenticated | extends `PasswordEntry` and `SamlLogin` |
| `ConfigLayers` | globals, groups, instances: validation, merging, selection | |
| `ConfigFile` | AddInstance and Load by several processes, crashes, loss of power | extends `ConfigLayers` |
| `SslSession_proofs`, `Relay_proofs`, `IpsecSession_proofs`, `ConfigFile_proofs`, `Authentication_proofs`, `Fortinet_proofs`, `SessionConfig_proofs` | theorems about a module and all that it is composed of | each extends the module it is named for |
| `InductionLemmas` | induction over natural numbers, for the proofs | |

`MC...` modules hold only values for TLC. Symmetry is not used, as it would not be sound for liveness.

### SslSession and Routes

`pc` is where the goroutine of the command stands, from `allocate` to `ended`.
`close[t]` is where thread `t` stands inside `connection.Close`; `sOnce` with
`sOwner` and `dOnce` are the two `sync.Once`, busy ones included, because a
second caller waits behind the first. `gpc` and `out` are the two goroutines and
the error each is about to send, `results` the channel. Names of actions follow
the code: `SetupFails` and `Unwind` are the error returns of `Connect` and its
deferred `Close`; `CloseTransport`, `CleanRoutes`, `CloseInterface` the body of
`Close`; `SelectDone` and `SelectResult` the two cases of the engine's select.
`Routes` takes one step per `ip route` command. `AddKilled` is a command that
the set-up context kills after the kernel has applied it. `kernel`, `stuck`
(deletions refused) and `lost` (applied, never recorded) are ghosts of the
kernel's table. Each route is reduced to its identity, and one value stands for
an argument that `newLinuxRouteSpec` rejects. `routes_darwin.go` has the same
control with another command line.

`CreateTun` and `CreateUtun` differ in one thing that matters here: Linux opens
its device non-blocking, so that the Go runtime polls it and `Close` cancels a
read; macOS leaves its socket blocking, and a read that has begun goes on
(`pollable`, in `ReadDevice`). `device` is what `Close` leaves behind, not whether
such a read still holds the descriptor.

Packets are reduced to accepted and rejected. Ghost `cause` records what other
than Run's own teardown made a copier fail.

### Relay and RelayContract

`hook` is the function that `AfterFunc` registered: armed, running, or stopped;
`Stop` reads it as `stop()` does, and `Established` is the condition at
relay.go:92. `fail[t]` goes through the body of `fail` statement by statement;
`once` makes others wait. `offered`, `taken` and `written` are sequences of
packets; keepalives, empty and malformed records are values of their own. The
byte layout of a record (short reads, the length field) is left out.

### IpsecSession

Each VICI command is one step with three outcomes: done, failed, and failed
*after* it was carried out. `keys`, `loaded` and `initiated` are the fields
that `Close` goes by, `shared`, `conf` and `sas` what the daemon really holds.
The relay takes the steps of `RelayContract`. `run` tells apart a deadline that
has passed (`due`) from a context that says so (`done`), because the poll uses
the first and `Run` asks the second. The model assumes that a command has ended
when it returns an error; a daemon that carries out a command from its queue
after that is outside it.

### NegotiatedInfo

`Message`, `ReadVip`, `EndVips`, `LookAtChild`, `LookAtRemote` and `EndRemotes`
are the loops of `info`. Addresses and selectors are members of small sets,
chosen so that every test in the code separates two of them. `Acceptable`
defines without a loop what should be accepted.

### XmlConfig and SessionConfig

A step is a token of the decoder: `StartElement` and `EndElement` of an element
that holds others, `EmptyElement` for a route or an address, whose end follows
at once, `EndDocument`. `stack`, `Frame`, `MarkRoute` and `AddsDefault` are the
frames of xml.go and what it does with them; `network` is the `Config` that is
filled, `selected` what `ForIPMode` returns. The tokens are kept as a history,
and `Documented` says of that history alone what must have been read. A
destination is one of those that parse, one that does not, or `"invalid"`, which
stands for a mask that the parser keeps but cannot use. Name servers, domains,
MTU and tunnel methods are collected wherever their element is and are left out,
and so are the gateways of routes, which `appendUniqueRoute` compares too ("once" is
once for each destination here, and each destination and gateway in the code), and the
parsing of addresses and masks itself.

`SessionConfig` sets beside each other the two places that routes come from,
behind the `protocol` that `connect` (cmd/fortivpn/connect.go) dispatches on,
and `RoutesHaveAddress` is asked of both.

### Fortinet

A request has every outcome: refused, lost after the gateway acted on it, answered with
or without cookie and redirect. The tunnel's connection has six kinds of answer,
which arrive at once, after a first byte, or late, also after the tunnel has been
handed over: `ReadPacket` is the session's first read of it. It reads an HTTP answer as
the beginning of a frame (`Readable`) and fails when the rest is there or the stream ends. `command` says where
`inspect` and `probe` stop; only `connect` looks for a tunnel method that it
supports. Headers, URLs, the byte layout of frames and logout are left out.

### PasswordEntry, SamlLogin and Authentication

`Choose` is `passwordForAuthentication`: the source of the password by flags and
file, or SAML, or refusal. `entry` goes through `readTerminalPassword` and
`readMaskedPassword` byte by byte: `ReadByte`, `Erase`, `Enter`, `Control`, then
`Restore`, which is called whatever was read. `Received` is the limited reader of `readPassword`
with its one byte more. `input` is a ghost; `AreKept` says without a buffer which bytes of it
were entered. `Killed` is a signal from outside, which nothing catches here. A
password is a sequence over two bytes; masks and prompts are left out. The file
of IPsec credentials is accepted or refused.

In `SamlLogin` a request to the callback port is open, delivering, or answered; it is
active until it is answered and, if its header announced a body (`unread`), until that
has come or its sender is gone: `net/http` discards it before it sends the answer, and
`ReadHeaderTimeout` does not bound that. `result` is
the channel of capacity one, `accepted` a ghost of what was sent to it. Serve
may start late, or after `Shutdown`. `Authentication` runs it once the entry
has ended with `"saml"`.

### ConfigLayers and ConfigFile

A level keeps the settings that a rule relates to others: transport, TCP port,
and password or PSK, each of which may be unset, and, if it is a string, empty.
`ValidStructure` is `validateStructure`, `Applied` and `Merged` are
`applyGlobals` and the order in which `resolve` applies it, `Resolves` is
`resolve` with its check of the merged settings.

Files are inodes: 0 is the original, `p` the temporary file of process `p`.
`Chmod`, `StartWrite`, `FinishWrite`, `Sync`, `CloseTemp` and `Rename` are the
steps of `atomicWrite`; each may fail, and each may be the last of the process.
After a loss of power, a file that was not synced may be cut short, and the name
may stand again for any file it has stood for, because the code does not sync
the directory. `MaxInstances` stands for `maxConfigSize`, which is checked when
a file is read and not when it is written. The owner's files include some that are
not valid; parsing is reduced to whether it succeeds.

## Runs

| Run | Question | Bounds |
|---|---|---|
| `ssl` | do the safety properties and the contract hold under every interleaving of set-up, Run, signal, timeout, failures and another caller of Close? does the session end once it is told to? | 2 destinations, lists of up to 3 arguments (a duplicate, or a rejected one, in every place), 1 closer beside Run |
| `ssl_blocked_reader` | *violated*: does every goroutine end? | 1 route, 1 closer |
| `ssl_orderly_stop` | *violated*: does an orderly stop return nil? | 1 route, 1 closer |
| `ssl_route_order` | *violated*: are all routes removed before the interface? | 2 destinations, 2 arguments |
| `relay` | leaks, order, Done and Err, the end of a relay, its contract | 2 packets, 2 inputs in all, 2 closers |
| `ipsec` | is the daemon left clean, or the caller told? is nothing reported that the session itself caused? is a loss noticed, does the session end when told? the contract | dual stack (2 children), UDP and TCP, 1 closer beside Run |
| `session_config` | does each walk read what a definition without it reads? do routes lead only where there is an address, or the mode is auto? | XML: 4 elements of 11 kinds; IPsec: 15 child SAs, 3 in a report, 3 addresses, 3 routes for the code's 32 |
| `fortinet` | is the mode honoured, is the tunnel handed over whole, does a set-up end? | inspect, probe, connect; all four modes; 4 hops, as in the code |
| `authentication` | is the password what was entered? callbacks racing with timeout, failure and shutdown | passwords of 3 bytes for the code's 4096, inputs of 5; 3 connections |
| `config_safety` | whole, private, consistent, at every moment | 2 adders, 1 loader, 5 additions, 3 originals under 2 layers |
| `config_lost_update` | *violated*: is the addition atomic? | 2 adders |
| `config_unloadable` | *violated*: can what was added be loaded? | 1 adder |

Why the bounds suffice: the code treats routes, packets, requests and selectors
by identity only, so two that differ and one that repeats show every
case; three arguments let a failure come after two recorded routes, so that a
rollback has something to skip and something to remove. One closer beside Run, which
calls Close more than once itself, makes a busy `once` with a waiter and a later
call that finds it done; the theorems hold for any number.
The relay has two. One packet
per direction in flight is all a copier ever holds. The bound on routes in
`NegotiatedInfo` is a constant of the model, small enough to be exceeded both
within one family and by the two together. Four elements
are a family, a split tunnel, another inside it and a route in that, or any two of them side by side. Inputs two bytes
longer than the longest password hold one that is too long, with its line end,
and one that is erased back to fitting. Two adders are enough for every order
of two read-modify-write sequences; more would repeat them pairwise.

### What the properties say

* SSL: `ConnectErrorReleases`, `ReleasedOnReturn` (also when another thread is
  the one that closes), `RoutesBeforeInterface`, `CleanupRemovesAll`,
  `RollbackRemovesRecorded`, `ErrorHasCause` (an error of Run
  has a cause outside its own teardown), `TeardownCompletes` (but for a reader
  that macOS keeps blocked), and `ImplementsContract`, a refinement of `SessionContract`.
* Relay: `DialSettles`, `CloseWaits` (and an `Err` of nil means that it
  was closed), `Faithful` (what is
  written is a prefix of the payloads offered), `RelayEnds`, `ImplementsRelayContract`.
* IPsec: `CleanOrReported` (a `Close` without error leaves nothing in the daemon,
  whatever became of failed commands), `ReturnReleases`, `RelayClosedLast`,
  `ErrorsAreReal` (a loss of the SAs after three failed polls in a row only),
  `OrderlyStop`, `LossDetected`, `StopsWhenTold`, `ImplementsContract`.
* What a session is given: `InfoIsReference`, `XmlIsReference`, `RoutesHaveAddress`
  (but for the auto mode of SSL-VPN, its default, in which a family may be routed
  without an address: the session then has what the gateway supplied, unchanged).
* Set-up: `ModeHonoured`, `TunnelHandedOver` (up to the first packet read),
  `SetupEnds`; `PasswordIsEntered`, `FirstCallbackWins`, `PortReleased`, `LoginEnds`
  (it ends, or waits in `Shutdown` for the body of a request).
* Configuration: `FileWhole`, `SecretsPrivate` (temporary files included,
  abandoned ones too), `Consistent` (what `AddInstance` has written passes every
  later validation).

Every property of a passing run has a mutant in `PROJECT.json`: an operator
`...Mut`, or one named for the bug, that a plausible mistake in the code would
amount to, and under which the property fails.

### Fairness

Only liveness properties use it, and each conjunct has a reason in the code.
Set-up operations return when their context is done, and its timer fires
(`ssl`); a `Close` goes on, its commands terminate; a read or a write
returns once its end is *closed*, and can be polled, never merely because a peer
should send.
Commands of IPsec have timeouts of their own (15 s in Close, 3 s for a poll).
`SF` on `SelectTransport` stands for Go's select, which picks among ready cases
at random. In `Authentication` the header timeout bounds an open request and the
default case bounds its handler; nothing bounds the body of a request, which
`LoginEnds` therefore excepts; nothing makes `Serve` end but `Shutdown`; the launcher of
the browser is taken to return; nothing is assumed of who types. In `Fortinet` a request ends by the 30 seconds
of `http.Client`, the wait for an answer by its 100 ms, and the connection of the tunnel
with its handshake by the set-up timeout, which every command sets; nothing is assumed of
the gateway. In
`Relay`, reads of closed sockets return, and a write returns.

## Where code and text part

* `ssl_orderly_stop`: an interrupt between Connect and Run makes `Run` return an
  error, because `Tunnel2.Connect` reports the cancelled context; the lifecycle
  tests, whose transport ignores the context, say it returns nil. The IPsec
  session does return nil.
* `ssl_blocked_reader`: on macOS the goroutine that reads the interface, and the
  descriptor it reads from, outlive `Run` until another packet comes, against the comments on
  `PacketEngine` and `Create`; for the command, the end of the process ends both.
* `ssl_route_order`: when an argument is rejected, `ConfigureRoutes` returns
  without rollback and without a cleanup function, so that installed routes are
  left to the closing interface, against the comment on `routeCleanupDevice`.
* `config_unloadable`: `AddInstance` validates each level by itself, `resolve`
  also the merged settings. An instance with transport udp, under globals with
  transport tcp and a port, is added with success, and no command can load it,
  though the README says that invalid values are rejected. (The size limit is the
  other way there: it is checked on what is read, not on what is written.)
* `config_lost_update`: two processes adding an instance both succeed and one
  addition is lost, though the comment says the append is atomic. What is atomic
  is the replacement of the file.

* Without a run of its own: `--timeout` is documented as the "SAML authentication
  timeout" (cmd/fortivpn/main.go:54), but `Shutdown` (saml.go:64) has a context that
  never ends and waits for every active request. While a request has announced a body
  that does not come, `Authenticate` does not return, whether the login timed out,
  failed or succeeded. `LoginEnds` names this as its one exception; without the
  exception TLC finds that behaviour, with a single request.

## What is proved

Every safety property of a passing run, every action property and every
refinement is a theorem: the run shows it on a small instance, the proof for
every value of the constants that the named assumptions allow. Theorems that
state a property of a run:

| Module | Theorem | States |
|---|---|---|
| `SslSession_proofs` | `TypeCorrect` | `SslTypeOK` |
| | `FailedConnectReleases` | `ConnectErrorReleases` |
| | `RunReleases` | `ReleasedOnReturn` |
| | `CleanupComplete`, `RollbackComplete` | `CleanupRemovesAll`, `RollbackRemovesRecorded` |
| | `RoutesFirst` | the action property `RoutesBeforeInterface` |
| | `ErrorsHaveCauses` | `ErrorHasCause` |
| | `SessionImplementsContract` | `ImplementsContract`, of `SessionContract` |
| `Relay_proofs` | `RelayTypeCorrect` | `RelayTypeOK` |
| | `DialIsSettled`, `CloseHasWaited` | `DialSettles`, `CloseWaits` |
| | `RelayIsFaithful` | `Faithful` |
| | `RelayImplementsContract` | `ImplementsRelayContract` |
| `IpsecSession_proofs` | `IpsecTypeCorrect` | `IpsecTypeOK` |
| | `CloseCleansOrReports`, `ReturningReleases` | `CleanOrReported`, `ReturnReleases` |
| | `RelayIsClosedLast` | the action property `RelayClosedLast` |
| | `RunErrorsAreReal`, `RunStopsOrderly` | `ErrorsAreReal`, the action property `OrderlyStop` |
| | `IpsecImplementsContract` | `ImplementsContract`, of `SessionContract` |
| `ConfigFile_proofs` | `ConfigTypeCorrect` | `ConfigTypeOK` |
| | `ConfigurationIsWhole`, `SecretsStayPrivate`, `ConfigurationIsConsistent` | `FileWhole`, `SecretsPrivate`, `Consistent` |
| `Authentication_proofs` | `SamlTypeCorrect` | `SamlTypeOK` |
| | `PortIsReleased`, `TheFirstCallbackWins` | `PortReleased`, `FirstCallbackWins` |
| | `ThePasswordIsEntered` | `PasswordIsEntered` |
| `Fortinet_proofs` | `FortinetTypeCorrect` | `FortinetTypeOK` |
| | `ModeIsHonoured`, `TunnelIsHandedOver` | `ModeHonoured`, `TunnelHandedOver` |
| `SessionConfig_proofs` | `ReportIsUnderstood`, `DocumentsAreUnderstood` | `InfoIsReference`, `XmlIsReference` |
| | `RoutesAreAddressed` | `RoutesHaveAddress` |

`SingleOwner` (routes and interface are taken down only inside `connection.once`)
and `AddsOnce` (no route is added twice) of `SslSession_proofs` state properties
that no run checks.

### Assumptions

They are the `ASSUME`s of the modules, which TLC evaluates in the runs:

* `RoutesAssumption`, `SslAssumption`: `Invalid` is no route, the bound on the
  argument list is a number, `Main` is none of the closers.
* `RelayAssumption`: the copiers are none of the closers; a keepalive, an empty
  and a malformed record are no packets, which `Faithful` needs, as it speaks of
  what is left of a stream without them.
* `IpsecAssumption`: `Main` is no closer, there is a child.
* `ConfigAssumption`: finitely many adders; the original files are sequences of
  instances, what is added is an instance, 0 names no process.
* `EntryAssumption`, `FortinetAssumption`, `NegotiatedAssumption`,
  `XmlAssumption`: bounds are numbers, modes are those of the flags, children
  and elements are of the kinds that the code reads.

No bound is assumed to be large or small: closers, routes, packets, children of a
report, adders and loaders, connections to the callback port, bytes of a password
and elements of a document may be any number.

### SSL-VPN session

None of the properties is inductive by itself. The invariant is
`SslInv == TInv /\ CloseInv /\ KernelInv /\ RouteInv`:

* `TInv`, types, with the range of the loop index while a command runs;
* `CloseInv`: `OnceInv` says which thread may be where in `Close` given the
  state of `once`, including the one place where Run closes the device directly
  after `once` is done; `ResourceInv` ties `once` to the resources; `PcInv` says
  what each step of `Connect` has acquired so far. Without the last,
  the deferred `Close` of a failing `Connect` could not be shown to close what is open;
* `KernelInv`: while routes are installed the kernel holds at most the recorded
  ones, `UpTo(Len(installed))`; while they are removed, at most those not yet
  visited, the refused and the unrecorded;
* `RouteInv` links the two halves: a thread that is about to close the interface
  has finished the removal.

The proof goes in that order. `SessionStepIsRoutesStep` abstracts a step of the session to
what it does to `Routes`; the route lemmas then need nothing of threads. The
type and close invariants are proved action by action. `RoutesFirst` follows from
`SslInv` and the one action that closes the interface. `ErrorsHaveCauses` needs
an invariant of its own on top, `CauseInv`: until Run has chosen its result, either
there is a cause, another caller of `Close` that closes something included, or no
goroutine has an error to send and none is in the channel.

### Relay

`RelayInv` is types, `TakenInv` (a copier has in hand only what was offered),
`DialInv` (what each step of `Dial` has open, and that a socket which a fired hook
closed is not handed out) and `FailInv` (who may be inside `once`, and in which
order `fail` sets `err` and `done` and closes the sockets). `DialIsSettled` and
`CloseHasWaited` follow. `RelayIsFaithful` adds `FaithInv`: what is written is the
payloads among the first `taken` of what was offered, less the one in
hand, and while a copier fails those of some part of it.

### IPsec session

`IpsecInv` has a part for each pair of things that a property relates: `OnceInv`
(threads and `once`), `LinkInv` (the relay and why it went down), `DaemonInv` (the
daemon and what the session recorded of it) and `WatchInv` (the count of bad
polls and the streak of them). `DaemonInv` carries `CloseCleansOrReports`:
`RecordInv` says that whatever the daemon holds is on record, also when the
command failed after it was carried out; `LeftInv` and `GoneInv`, that a step of `Close`
has nothing of the earlier steps left behind it, unless an error is on record.

### Configuration file

`WasInv` says which files the name may stand for after a loss of power (those it
has ever stood for), `WholeInv` that each of them was synced before the name moved,
`WrittenInv` what a temporary file holds and under which mode at every step of
`atomicWrite`, `GrownInv` that every content is an original with one addition of each of some adders that
have renamed their file. The last bounds the contents by the number of adders, though
each reads what others have written. `Contents` has the empty file beside these,
because a temporary file is empty at first, also when no original is.

### Authentication

`SamlInv` is types, `ServerInv` (which requests may be active given the state of
the server and of `Authenticate`) and `CallbackInv` (the channel holds what was
accepted until the select takes it). `EntryInv` is about passwords: `SourceInv`,
`EnteredInv` and `TerminalInv` say what each branch of the choice has established,
`TypedInv` ties the buffer to what was typed. `AreKept` describes the kept bytes
by places: an increasing function from the buffer into the input. `KeptIn` adds how
many more bytes than erasures follow each place (`SurplusIn`), which is how many
erasures the byte outlives: `ReadByte` adds a place and one to the others,
`Erase` gives up the place whose surplus is zero and takes one from the others.

### Gateway and what it sends

`FortinetInv` follows a set-up: `AllocationInv` how many allocations of which kind
each mode can have asked for, `FamiliesInv` what was read from them, `StreamInv` and
`ReadInv` what has been consumed of the tunnel's stream, and whether a deadline
is still set.

`ReportIsUnderstood` says that three nested loops compute what `Acceptable`
says without a loop. The invariant is what each loop has found so far:
`AddressInv` the only address of each family among the virtual addresses read,
`SearchInv` that no earlier child stands for the selector, `RouteInv` that the
routes are the remote selectors passed so far, once each and none forbidden.

`DocumentsAreUnderstood` compares a stack with a history. The definitions of
`XmlConfig` about its variable `tokens` are restated for any sequence (`DepthIn`,
`AroundIn`, `IsInnermost`), and lemmas say what one more token changes of them
(`AfterStart`, `AfterEnd`, `AfterBoth`). The invariant, `DocumentInv`, has
`StackInv`: there are places in the history, in order, at which the elements of
the frames begin, they are exactly the elements without an end, and of each frame
the family is that of the innermost family element around it and the count is zero
exactly if no route has it as its innermost split tunnel. `ReadInv` says what is in
the `Config` by then: the routes listed, and a default route for the split
tunnels that have ended. A route inside a split tunnel that has ended cannot
come any more, so what was decided at its end stays right.

### Refinements

The contracts are proved as the refinement they are checked as: initial
states map to initial states, and under the invariant each step of the session or
relay maps to a step of the contract or a stutter, one case per action. The
invariants are what makes the mapped guards true, for example that no thread is in
`Close` when a failed `Connect` is reported.

### Lemmas

`InductionLemmas` has two facts on natural numbers that the library states with
an operator as parameter, restated about sets so that they can be cited:
`LeastElement` and `SetInduction`.

## What is only model-checked

Liveness under fairness: `TeardownCompletes`, `RelayEnds`, `LossDetected`,
`StopsWhenTold`, `LoginEnds`, `SetupEnds`. `ENABLED`, and with it fairness, is out of
the prover's reach. The five runs that expect a violation have nothing to prove.

## What is not modelled

The byte layout of TUN frames, tunnel frames and relay records; the ioctl
sequences of the TUN devices; the parsing of addresses, masks, name servers, MTU
and tunnel methods; how JSON and YAML are decoded, and the rules for single
settings that have nothing to do with others; URLs, headers, tracing, redaction and
all output; the scanning of flags, usage and shell completion; the browser
launcher; the shell scripts and patches that build strongSwan. They are
input and output, or functions of one value that a table of examples tests.

Three hazards have no property, and one more is not listed. An addition that makes the
file larger than `maxConfigSize`: `AddedLoads` forbids it, but its run stops at the other
violation, and its bound keeps files below the limit. The monitor of the IPsec session discards the
`Info` it reads, which the session model reduces to whether the SAs are there.
A signal while a password is read leaves the terminal raw: the model has that
step, and `PasswordIsEntered` excepts it. And
`connect` loads the file twice, for the protocol and then for the settings,
which matters only to an owner who edits it in between.

## Plan

1. Modelled, in order of importance: SSL session with its routes, relay,
   IPsec session, configuration file and its layers, authentication, gateway
   set-up, what gateways send.
2. Left to model: an owner who edits the configuration between the two loads of `connect`;
   an IPsec session whose negotiated routes change under a rekey.
3. Left to prove: the safety properties, action properties and refinements that
   are checked have their theorems. What the two additions above would need is a
   theorem with them.
