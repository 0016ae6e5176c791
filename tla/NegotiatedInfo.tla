--------------------------- MODULE NegotiatedInfo ---------------------------
(***************************************************************************)
(* Backend.info (internal/ipsec/state.go): whether what the daemon reports *)
(* is the session that was asked for, and which addresses and routes it    *)
(* has.  The report is walked the way the code walks it, and the verdict   *)
(* is compared with a definition that does not walk.                       *)
(*                                                                         *)
(* Reports of other sessions, and of this one in another state, are passed *)
(* over; the report below is the first that is not.                        *)
(***************************************************************************)
EXTENDS Naturals, Sequences, FiniteSets, Functions

CONSTANTS
    Children,             \* the child SAs that a report is made from
    MaxChildren,          \* bound: as many in a report
    MaxVips,              \* bound: as many virtual addresses in a report
    MaxNegotiatedRoutes   \* 32 in the code

Address4 == {"a4", "b4"}
Address6 == {"a6", "b6"}
Vip == Address4 \cup Address6 \cup {"malformed"}    \* unspecified and multicast too

Route4 == {"default4", "net4", "other4", "gateway4", "loopback4"}
Route6 == {"default6", "net6"}
Remote == Route4 \cup Route6 \cup {"malformed"}     \* not masked, multicast ... too

None == "none"

ChildSA ==
    [index : 0..1,             \* of the selector in its name; 0 is IPv4
     installed : BOOLEAN,      \* INSTALLED, REKEYING or REKEYED
     natt : BOOLEAN,           \* an ESP tunnel in UDP
     locals : Seq(Vip),
     remotes : Seq(Remote)]

ASSUME NegotiatedAssumption ==
    /\ \A c \in Children : c \in ChildSA
    /\ {MaxChildren, MaxVips, MaxNegotiatedRoutes} \subseteq Nat

VARIABLES
    dual, tcp,            \* the options IPMode and Transport
    peer,                 \* what the report says of the peer
    vips,                 \* its virtual addresses, as far as they are read
    children,             \* its child SAs
    pc,
    ipv4, ipv6,           \* the addresses of cfg
    routes4, routes6,     \* the routes of cfg
    selector,             \* childSelectors()[selector] is being looked for
    at,                   \* the child looked at
    remote,               \* its remote selector looked at
    verdict

options == <<dual, tcp>>
report == <<peer, vips, children>>
cfg == <<ipv4, ipv6, routes4, routes6>>
place == <<selector, at, remote>>
vars == <<options, report, pc, cfg, place, verdict>>

InfoInit ==
    /\ dual \in BOOLEAN /\ tcp \in BOOLEAN
    /\ peer = "unread" /\ vips = <<>> /\ children = <<>>
    /\ pc = "message"
    /\ ipv4 = None /\ ipv6 = None /\ routes4 = <<>> /\ routes6 = <<>>
    /\ selector = 0 /\ at = 1 /\ remote = 1
    /\ verdict = "none"

Done(v) == pc' = "done" /\ verdict' = v

Reject == Done("error") /\ UNCHANGED <<cfg, place>>

-----------------------------------------------------------------------------
(* The steps of info *)

\* No established session; or its peer is another; or on to its addresses.
Message ==
    /\ pc = "message"
    /\ \/ Reject /\ UNCHANGED peer
       \/ Reject /\ peer' = "other"
       \/ peer' = "requested" /\ pc' = "vips" /\ UNCHANGED <<cfg, place, verdict>>
    /\ UNCHANGED <<options, vips, children>>

ReadVip(vip) ==
    /\ pc = "vips"
    /\ Len(vips) < MaxVips
    /\ vips' = Append(vips, vip)
    /\ UNCHANGED <<options, peer, children>>
    /\ \/ /\ \/ vip = "malformed"
             \/ vip \in Address4 /\ ipv4 # None
             \/ vip \in Address6 /\ ipv6 # None
          /\ Reject
       \/ /\ vip \in Address4 /\ ipv4 = None
          /\ ipv4' = vip
          /\ UNCHANGED <<pc, ipv6, routes4, routes6, place, verdict>>
       \/ /\ vip \in Address6 /\ ipv6 = None
          /\ ipv6' = vip
          /\ UNCHANGED <<pc, ipv4, routes4, routes6, place, verdict>>

FamiliesRefused == ipv4 = None \/ (dual /\ ipv6 = None) \/ (~dual /\ ipv6 # None)

EndVips ==
    /\ pc = "vips"
    /\ children' \in UNION {[1..n -> Children] : n \in 0..MaxChildren}
    /\ IF FamiliesRefused
       THEN Reject
       ELSE pc' = "child" /\ UNCHANGED <<cfg, place, verdict>>
    /\ UNCHANGED <<options, peer, vips>>

LocalOf(k) == IF k = 0 THEN ipv4 ELSE ipv6

Fits(c) == c.natt /\ c.locals = <<LocalOf(c.index)>> /\ c.remotes # <<>>

\* The first child that has the name and is installed is the one that counts.
LookAtChild ==
    /\ pc = "child"
    /\ UNCHANGED <<options, report, cfg>>
    /\ IF at > Len(children)
       THEN Done("error") /\ UNCHANGED place
       ELSE LET c == children[at] IN
            \/ /\ c.index # selector \/ ~c.installed
               /\ at' = at + 1
               /\ UNCHANGED <<pc, selector, remote, verdict>>
            \/ /\ c.index = selector /\ c.installed /\ ~Fits(c)
               /\ Done("error")
               /\ UNCHANGED place
            \/ /\ c.index = selector /\ c.installed /\ Fits(c)
               /\ pc' = "remote"
               /\ remote' = 1
               /\ UNCHANGED <<selector, at, verdict>>

Refused(p, k) ==
    \/ p \notin (IF k = 0 THEN Route4 ELSE Route6)
    \/ p = "gateway4"
    \/ p = "loopback4" /\ tcp

appendRouteMut(routes, p) == Append(routes, p)

appendRoute(routes, p) == IF p \in Range(routes) THEN routes ELSE Append(routes, p)

TooMany(n) == n > MaxNegotiatedRoutes

LookAtRemote ==
    /\ pc = "remote"
    /\ remote <= Len(children[at].remotes)
    /\ UNCHANGED <<options, report>>
    /\ LET p == children[at].remotes[remote]
           new4 == IF selector = 0 THEN appendRoute(routes4, p) ELSE routes4
           new6 == IF selector = 1 THEN appendRoute(routes6, p) ELSE routes6
       IN  IF Refused(p, selector) \/ TooMany(Len(new4) + Len(new6))
           THEN Reject
           ELSE /\ routes4' = new4
                /\ routes6' = new6
                /\ remote' = remote + 1
                /\ UNCHANGED <<pc, ipv4, ipv6, selector, at, verdict>>

\* On to the next selector, searched for from the first child again.
EndRemotes ==
    /\ pc = "remote"
    /\ remote > Len(children[at].remotes)
    /\ UNCHANGED <<options, report, cfg>>
    /\ IF dual /\ selector = 0
       THEN /\ selector' = 1
            /\ at' = 1
            /\ pc' = "child"
            /\ UNCHANGED <<remote, verdict>>
       ELSE Done("ok") /\ UNCHANGED place

InfoNext ==
    \/ Message \/ EndVips \/ LookAtChild \/ LookAtRemote \/ EndRemotes
    \/ \E vip \in Vip : ReadVip(vip)

-----------------------------------------------------------------------------
(* What the verdict has to be *)

Selectors == IF dual THEN {0, 1} ELSE {0}

AddressesOf(k) == IF k = 0 THEN Address4 ELSE Address6

IsOnly(p, k) ==
    /\ vips[p] \in AddressesOf(k)
    /\ \A q \in DOMAIN vips : vips[q] \in AddressesOf(k) => q = p

\* The child SAs that stand for a selector are those before which none does.
Stands(i, k) ==
    /\ children[i].index = k /\ children[i].installed
    /\ \A j \in 1..(i - 1) : children[j].index # k \/ ~children[j].installed

Negotiated(k) == UNION {Range(children[i].remotes) : i \in {j \in DOMAIN children : Stands(j, k)}}

Forbidden == {"malformed", "gateway4"} \cup (IF tcp THEN {"loopback4"} ELSE {})

Acceptable ==
    /\ peer = "requested"
    /\ "malformed" \notin Range(vips)
    /\ dual \/ Range(vips) \cap Address6 = {}
    /\ \A k \in Selectors : \E i \in DOMAIN children, p \in DOMAIN vips :
          /\ Stands(i, k)
          /\ children[i].natt
          /\ children[i].locals = <<vips[p]>>
          /\ IsOnly(p, k)
    /\ \A k \in Selectors :
          /\ Negotiated(k) # {}
          /\ Negotiated(k) \subseteq (IF k = 0 THEN Route4 ELSE Route6) \ Forbidden
    /\ Cardinality(UNION {Negotiated(k) : k \in Selectors}) <= MaxNegotiatedRoutes

\* A session is taken for the one asked for exactly if every selector that was
\* proposed has a child SA of the right kind, family and address, whichever
\* others are reported beside it while they are being rekeyed; and its routes
\* are then those that were negotiated, once each, none of them covering the
\* gateway or, except as a default, the relay.
InfoIsReference ==
    pc = "done" =>
        /\ verdict = "ok" <=> Acceptable
        /\ verdict = "ok" =>
              /\ Range(routes4) = Negotiated(0)
              /\ Range(routes6) = IF dual THEN Negotiated(1) ELSE {}
              /\ IsInjective(routes4) /\ IsInjective(routes6)

=============================================================================
