-------------------------- MODULE Fortinet_proofs --------------------------
(***************************************************************************)
(* Theorems about the SSL-VPN gateway as the client sees it (Fortinet),    *)
(* whatever it answers, in every mode.                                     *)
(***************************************************************************)
EXTENDS Fortinet, TLAPS

-----------------------------------------------------------------------------
(* The invariant, in parts.                                                *)

SettingUp == {"login", "follow", "index", "allocate", "select", "selected"}

\* An allocation is tried again only at the legacy endpoint, from which there is
\* nothing to fall back to: a mode that starts there, or may not go there, has no
\* second try.
AllocationInv ==
    /\ mode = "ipv4" => legacy
    /\ mode = "dual" => ~legacy
    /\ pc \in {"login", "follow", "index"} => allocated = 0
    /\ pc \in {"login", "follow", "index"} /\ mode # "ipv4" => ~legacy
    /\ pc = "allocate" => allocated = 0 \/ (allocated = 1 /\ legacy /\ mode # "ipv4")
    /\ mode \in {"ipv4", "dual"} => allocated <= 1

FamiliesInv ==
    pc \in {"selected", "done", "request", "peek1", "peek5", "tunnel"} =>
        /\ Required \subseteq config
        /\ mode \in {"ipv4", "ipv6"} => config = Required

\* Until the tunnel is there, nobody but the wait reads from it; the wait looks at
\* the stream without taking from it, and its deadline is set no longer than it
\* lasts.
StreamInv ==
    /\ pc \in SettingUp => conn = "none" /\ ~late /\ ~deadline /\ ~consumed
    /\ pc = "request" => conn = "open" /\ ~late /\ ~deadline /\ ~consumed
    /\ pc \in {"peek1", "peek5", "response"} => conn = "open" /\ answer \in Answers /\ ~consumed
    /\ pc = "peek5" => BeginsWithH
    /\ pc = "tunnel" =>
          /\ conn = "open" /\ ~deadline /\ ~consumed
          /\ answer \in {"success", "rejection", "eof", "cut"} => late
    /\ pc \in {"refused", "failed", "done"} => conn # "open"

ReadInv ==
    received # "none" =>
        pc = "tunnel" /\ command = "connect" /\ (received = "packet" <=> IsFrame)

FortinetInv == FortinetTypeOK /\ AllocationInv /\ FamiliesInv /\ StreamInv /\ ReadInv

-----------------------------------------------------------------------------
(* Type correctness                                                        *)

FlagTypeOK ==
    /\ ctx \in BOOLEAN
    /\ cookie \in BOOLEAN
    /\ redirect \in BOOLEAN
    /\ legacy \in BOOLEAN
    /\ deadline \in BOOLEAN
    /\ late \in BOOLEAN
    /\ consumed \in BOOLEAN

PlaceTypeOK ==
    /\ command \in {"inspect", "probe", "connect"}
    /\ mode \in Modes
    /\ pc \in {"login", "follow", "index", "allocate", "select", "selected", "request",
               "peek1", "peek5", "response", "refused", "failed", "tunnel", "done"}
    /\ hops \in 0..MaxHops
    /\ allocated \in 0..2
    /\ config \in SUBSET Families
    /\ conn \in {"none", "open", "closed"}
    /\ answer \in Answers \cup {Unasked}
    /\ arrived \in {"nothing", "byte", "all", "more"}
    /\ received \in {"none", "packet", "error"}

LEMMA TypeParts == FortinetTypeOK <=> FlagTypeOK /\ PlaceTypeOK
BY DEF FortinetTypeOK, FlagTypeOK, PlaceTypeOK

LEMMA InitInv == FortinetInit => FortinetInv
<1> SUFFICES ASSUME FortinetInit PROVE FortinetInv
  OBVIOUS
<1>1. FlagTypeOK
  BY Zenon DEF FortinetInit, FlagTypeOK
<1>2. PlaceTypeOK
  BY DEF FortinetInit, PlaceTypeOK, MaxHops
<1>3. AllocationInv /\ FamiliesInv
  <2>1. (legacy <=> mode = "ipv4") /\ pc = "login" /\ allocated = 0
    BY Zenon DEF FortinetInit
  <2> QED
    BY <2>1 DEF AllocationInv, FamiliesInv
<1>4. StreamInv /\ ReadInv
  BY DEF FortinetInit, StreamInv, ReadInv, SettingUp
<1> QED
  BY <1>1, <1>2, <1>3, <1>4, TypeParts DEF FortinetInv

LEMMA FlagNext ==
  ASSUME FlagTypeOK, [FortinetNext]_vars
  PROVE  FlagTypeOK'
<1> USE DEF FlagTypeOK, login, allocation, tunnel
<1>1. CASE Expire \/ Arrive \/ WaitEnds \/ ReadPacket
  BY <1>1, Zenon DEF Expire, Arrive, WaitEnds, ReadPacket
<1>2. CASE Login \/ Follow \/ LoggedIn \/ CookieMissing
  BY <1>2, Zenon DEF Login, Follow, LoggedIn, CookieMissing, Reply
<1>3. CASE Index \/ Allocate
  BY <1>3, Zenon DEF Index, Allocate
<1>4. CASE AllocationFails
  <2>1. cookie' \in BOOLEAN
    BY <1>4 DEF AllocationFails
  <2>2. legacy' \in BOOLEAN
    BY <1>4, Zenon DEF AllocationFails
  <2> QED
    BY <1>4, <2>1, <2>2, Zenon DEF AllocationFails
<1>5. CASE Select \/ Inspected \/ NoTunTransport \/ Dial \/ Request
  BY <1>5, Zenon DEF Select, Inspected, NoTunTransport, Dial, Request
<1>6. CASE TimeOut \/ Peek1 \/ Peek5 \/ Response \/ ProbeCloses
  BY <1>6, Zenon DEF TimeOut, Peek1, Peek5, Response, ProbeCloses, Accepted, Rejected
<1>7. CASE UNCHANGED vars
  BY <1>7, Zenon DEF vars
<1> QED
  BY <1>1, <1>2, <1>3, <1>4, <1>5, <1>6, <1>7, Zenon DEF FortinetNext, Client

LEMMA PlaceNext ==
  ASSUME FortinetInv, [FortinetNext]_vars
  PROVE  PlaceTypeOK'
<1> USE DEF PlaceTypeOK, login, allocation, tunnel, Go
<1>0. PlaceTypeOK /\ AllocationInv
  BY TypeParts DEF FortinetInv
<1>1. CASE Expire \/ Arrive \/ WaitEnds \/ ReadPacket
  BY <1>0, <1>1 DEF Expire, Arrive, WaitEnds, ReadPacket
<1>2. CASE Login \/ Follow \/ LoggedIn \/ CookieMissing
  BY <1>0, <1>2 DEF Login, Follow, LoggedIn, CookieMissing, Reply, MaxHops
<1>3. CASE Index \/ AllocationFails
  BY <1>0, <1>3 DEF Index, AllocationFails
<1>4. CASE Allocate
  <2>1. allocated' \in 0..2
    BY <1>0, <1>4 DEF Allocate, AllocationInv
  <2> QED
    BY <1>0, <1>4, <2>1 DEF Allocate
<1>5. CASE Select
  <2>1. Required \subseteq Families
    BY DEF Required, Families
  <2>2. config' \in SUBSET Families
    BY <1>0, <1>5, <2>1 DEF Select, Restricted
  <2> QED
    BY <1>0, <1>5, <2>2 DEF Select
<1>6. CASE Inspected \/ NoTunTransport \/ Dial \/ Request
  BY <1>0, <1>6 DEF Inspected, NoTunTransport, Dial, Request
<1>7. CASE TimeOut \/ Peek1 \/ Peek5 \/ Response \/ ProbeCloses
  BY <1>0, <1>7 DEF TimeOut, Peek1, Peek5, Response, ProbeCloses, Accepted, Rejected
<1>8. CASE UNCHANGED vars
  BY <1>0, <1>8 DEF vars
<1> QED
  BY <1>1, <1>2, <1>3, <1>4, <1>5, <1>6, <1>7, <1>8 DEF FortinetNext, Client

-----------------------------------------------------------------------------
(* The allocation                                                          *)

LEMMA AllocationNext ==
  ASSUME FortinetInv, [FortinetNext]_vars
  PROVE  AllocationInv'
<1> USE DEF AllocationInv, login, allocation, tunnel, Go
<1>0. AllocationInv /\ allocated \in 0..2
  BY DEF FortinetInv, FortinetTypeOK
<1>1. CASE Expire \/ Arrive \/ WaitEnds \/ ReadPacket
  BY <1>0, <1>1 DEF Expire, Arrive, WaitEnds, ReadPacket
<1>2. CASE Login \/ Follow \/ LoggedIn \/ CookieMissing \/ Index
  BY <1>0, <1>2 DEF Login, Follow, LoggedIn, CookieMissing, Reply, Index
<1>3. CASE Allocate
  BY <1>0, <1>3 DEF Allocate, MayFallBack
<1>4. CASE AllocationFails
  <2>1. CASE MayFallBack
    <3>1. pc' = "allocate" /\ legacy' = TRUE /\ ~legacy /\ mode # "dual"
          /\ UNCHANGED <<mode, allocated>>
      BY <1>4, <2>1 DEF AllocationFails, MayFallBack
    <3>2. allocated = 0
      BY <1>0, <1>4, <3>1 DEF AllocationFails
    <3> QED
      BY <1>0, <3>1, <3>2
  <2>2. CASE ~MayFallBack
    BY <1>0, <1>4, <2>2 DEF AllocationFails
  <2> QED
    BY <2>1, <2>2
<1>5. CASE Select \/ Inspected \/ NoTunTransport
  BY <1>0, <1>5 DEF Select, Inspected, NoTunTransport
<1>6. CASE Dial \/ Request \/ ProbeCloses
  BY <1>0, <1>6 DEF Dial, Request, ProbeCloses
<1>7. CASE TimeOut \/ Peek1 \/ Peek5 \/ Response
  BY <1>0, <1>7 DEF TimeOut, Peek1, Peek5, Response, Accepted, Rejected
<1>8. CASE UNCHANGED vars
  BY <1>0, <1>8 DEF vars
<1> QED
  BY <1>1, <1>2, <1>3, <1>4, <1>5, <1>6, <1>7, <1>8 DEF FortinetNext, Client

LEMMA FamiliesNext ==
  ASSUME FortinetInv, [FortinetNext]_vars
  PROVE  FamiliesInv'
<1> USE DEF login, allocation, tunnel, Go
<1>0. FamiliesInv /\ mode \in Modes
  BY DEF FortinetInv, FortinetTypeOK
<1>a. mode' = mode
  BY DEF FortinetNext, Client, Expire, Arrive, WaitEnds, ReadPacket, Login, Follow,
         LoggedIn, CookieMissing, Index, Allocate, AllocationFails, Select, Inspected,
         NoTunTransport, Dial, Request, TimeOut, Peek1, Peek5, Response, ProbeCloses,
         Accepted, Rejected, vars
<1>b. Required' = Required
  BY <1>a DEF Required
<1>c. SUFFICES ASSUME \/ pc' \notin {"selected", "done", "request", "peek1", "peek5", "tunnel"}
                      \/ /\ pc \in {"selected", "done", "request", "peek1", "peek5", "tunnel"}
                         /\ config' = config
                      \/ Select /\ pc' = "selected"
               PROVE  FamiliesInv'
  <2>1. CASE Expire \/ Arrive \/ WaitEnds \/ ReadPacket
    BY <1>c, <2>1 DEF Expire, Arrive, WaitEnds, ReadPacket
  <2>2. CASE Login \/ Follow \/ LoggedIn \/ CookieMissing \/ Index
    BY <1>c, <2>2 DEF Login, Follow, LoggedIn, CookieMissing, Reply, Index
  <2>3. CASE Allocate \/ AllocationFails
    BY <1>c, <2>3 DEF Allocate, AllocationFails
  <2>4. CASE Select \/ Inspected \/ NoTunTransport
    BY <1>c, <2>4 DEF Select, Inspected, NoTunTransport
  <2>5. CASE Dial \/ Request \/ ProbeCloses
    BY <1>c, <2>5 DEF Dial, Request, ProbeCloses
  <2>6. CASE TimeOut \/ Peek1 \/ Peek5 \/ Response
    BY <1>c, <2>6 DEF TimeOut, Peek1, Peek5, Response, Accepted, Rejected
  <2>7. CASE UNCHANGED vars
    BY <1>c, <2>7 DEF vars
  <2> QED
    BY <2>1, <2>2, <2>3, <2>4, <2>5, <2>6, <2>7 DEF FortinetNext, Client
<1>1. CASE pc' \notin {"selected", "done", "request", "peek1", "peek5", "tunnel"}
  BY <1>1 DEF FamiliesInv
<1>2. CASE /\ pc \in {"selected", "done", "request", "peek1", "peek5", "tunnel"}
           /\ config' = config
  BY <1>0, <1>a, <1>b, <1>2 DEF FamiliesInv
<1>3. CASE Select /\ pc' = "selected"
  <2>1. Required \subseteq config /\ config' = Restricted
    BY <1>3 DEF Select
  <2>2. Required \subseteq config' /\ (mode \in {"ipv4", "ipv6"} => config' = Required)
    BY <1>0, <2>1, FortinetAssumption DEF Restricted
  <2> QED
    BY <1>a, <1>b, <2>2 DEF FamiliesInv
<1> QED
  BY <1>c, <1>1, <1>2, <1>3

-----------------------------------------------------------------------------
(* The tunnel                                                              *)

LEMMA StreamNext ==
  ASSUME FortinetInv, [FortinetNext]_vars
  PROVE  StreamInv'
<1> USE DEF StreamInv, SettingUp, login, allocation, tunnel, Go
<1>0. StreamInv
  BY DEF FortinetInv
<1>1. CASE Expire \/ Arrive \/ WaitEnds \/ ReadPacket
  BY <1>0, <1>1 DEF Expire, Arrive, WaitEnds, ReadPacket, BeginsWithH
<1>2. CASE Login \/ Follow \/ LoggedIn \/ CookieMissing \/ Index
  BY <1>0, <1>2 DEF Login, Follow, LoggedIn, CookieMissing, Reply, Index
<1>3. CASE Allocate \/ AllocationFails
  BY <1>0, <1>3 DEF Allocate, AllocationFails
<1>4. CASE Select \/ Inspected \/ NoTunTransport
  BY <1>0, <1>4 DEF Select, Inspected, NoTunTransport
<1>5. CASE Dial \/ Request \/ ProbeCloses
  BY <1>0, <1>5 DEF Dial, Request, ProbeCloses
<1>6. CASE TimeOut
  BY <1>0, <1>6 DEF TimeOut, Accepted
<1>7. CASE Peek1
  BY <1>0, <1>7 DEF Peek1, Accepted, Rejected, BeginsWithH
<1>8. CASE Peek5
  BY <1>0, <1>8 DEF Peek5, Accepted, Rejected
<1>9. CASE Response
  BY <1>0, <1>9 DEF Response
<1>10. CASE UNCHANGED vars
  BY <1>0, <1>10 DEF vars, BeginsWithH
<1> QED
  BY <1>1, <1>2, <1>3, <1>4, <1>5, <1>6, <1>7, <1>8, <1>9, <1>10 DEF FortinetNext, Client

\* Only ReadPacket makes a packet, and only of a tunnel; after that only bytes and
\* the clock move.
LEMMA ReadNext ==
  ASSUME FortinetInv, [FortinetNext]_vars
  PROVE  ReadInv'
<1> USE DEF login, allocation, tunnel, Go
<1>0. ReadInv /\ StreamInv
  BY DEF FortinetInv
<1>1. CASE ReadPacket
  <2>1. pc = "tunnel" /\ command = "connect" /\ ~deadline /\ ~consumed
    BY <1>0, <1>1 DEF ReadPacket, StreamInv
  <2>2. received' = (IF IsFrame THEN "packet" ELSE "error")
    BY <1>1, <2>1 DEF ReadPacket
  <2>3. UNCHANGED <<command, pc, answer>>
    BY <1>1 DEF ReadPacket
  <2> QED
    BY <2>1, <2>2, <2>3 DEF ReadInv, IsFrame
<1>2. CASE UNCHANGED <<command, pc, answer, received>>
  BY <1>0, <1>2 DEF ReadInv, IsFrame
<1>3. CASE Expire \/ Arrive \/ WaitEnds \/ UNCHANGED vars
  BY <1>2, <1>3 DEF Expire, Arrive, WaitEnds, vars
<1>4. CASE Client
  <2>1. CASE pc # "tunnel"
    <3>1. received = "none"
      BY <1>0, <2>1 DEF ReadInv
    <3>2. received' = received
      BY <1>4
      DEF Client, Login, Follow, LoggedIn, CookieMissing, Index, Allocate, AllocationFails,
          Select, Inspected, NoTunTransport, Dial, Request, TimeOut, Peek1, Peek5,
          Response, ProbeCloses, Accepted, Rejected
    <3> QED
      BY <3>1, <3>2 DEF ReadInv
  <2>2. CASE pc = "tunnel"
    <3>1. ProbeCloses
      BY <1>4, <2>2
      DEF Client, Login, Follow, LoggedIn, CookieMissing, Index, Allocate, AllocationFails,
          Select, Inspected, NoTunTransport, Dial, Request, TimeOut, Peek1, Peek5, Response
    <3> QED
      BY <1>0, <3>1 DEF ProbeCloses, ReadInv
  <2> QED
    BY <2>1, <2>2
<1> QED
  BY <1>1, <1>3, <1>4 DEF FortinetNext

-----------------------------------------------------------------------------
(* The theorems                                                            *)

LEMMA InvariantHolds == FortinetSpec => []FortinetInv
<1>1. FortinetInit => FortinetInv
  BY InitInv
<1>2. FortinetInv /\ [FortinetNext]_vars => FortinetInv'
  <2> SUFFICES ASSUME FortinetInv, [FortinetNext]_vars PROVE FortinetInv'
    OBVIOUS
  <2>1. FlagTypeOK' /\ PlaceTypeOK'
    BY FlagNext, PlaceNext, TypeParts DEF FortinetInv
  <2>2. FortinetTypeOK'
    BY <2>1, TypeParts, PTL
  <2> QED
    BY <2>2, AllocationNext, FamiliesNext, StreamNext, ReadNext DEF FortinetInv
<1> QED
  BY <1>1, <1>2, PTL DEF FortinetSpec

\* The state is well-typed: no chain of redirects is longer than MaxHops, and no
\* more than two allocations are made of the gateway.
THEOREM FortinetTypeCorrect == FortinetSpec => []FortinetTypeOK
<1>1. FortinetInv => FortinetTypeOK
  BY DEF FortinetInv
<1> QED
  BY <1>1, InvariantHolds, PTL

\* NetworkConfigForIPMode and ForIPMode, with the fallback, bring exactly the
\* families that were asked for, and a mode without a fallback allocates once.
THEOREM ModeIsHonoured == FortinetSpec => []ModeHonoured
<1>1. FortinetInv => ModeHonoured
  BY DEF FortinetInv, FamiliesInv, AllocationInv, ModeHonoured
<1> QED
  BY <1>1, InvariantHolds, PTL

\* OpenTunnel2 hands over an open connection with its stream whole and no deadline
\* left on it, so that ReadPacket returns a packet exactly for a frame; whatever
\* else comes of a set-up, its connection does not stay open.
THEOREM TunnelIsHandedOver == FortinetSpec => []TunnelHandedOver
<1>1. FortinetInv => TunnelHandedOver
  BY DEF FortinetInv, StreamInv, ReadInv, TunnelHandedOver
<1> QED
  BY <1>1, InvariantHolds, PTL

=============================================================================
