------------------------------ MODULE XmlConfig ------------------------------
(***************************************************************************)
(* ParseNetworkConfig (internal/fortinet/xml.go): the addresses and routes *)
(* that are read, token by token, from the XML of a gateway, and what      *)
(* Config.ForIPMode (internal/network/config.go) leaves of them.           *)
(*                                                                         *)
(* The tokens are kept as a history: what the walk has read, with its      *)
(* stack of open elements, is compared with a definition that has none.    *)
(* DNS servers, domains, MTU and tunnel methods are read without regard to *)
(* the place of an element and are left out; so are gateways of routes.    *)
(***************************************************************************)
EXTENDS Naturals, Sequences, FiniteSets, Functions

CONSTANTS
    Containers,    \* the elements that hold others
    Leaves,        \* the elements that hold none: their end follows at once
    MaxElements    \* bound: the elements of a document

Families == {4, 6}

\* An element is its name, as far as the parser knows it, with what its
\* attributes say: the destination of a route ("unparsable" for one that does
\* not parse, "invalid" for a mask or prefix length that no prefix has), the
\* family of an address, whether a split tunnel is negated.
Split(negated) == [name |-> "split-tunnel-info", negated |-> negated]
FamilyElement(f) == [name |-> "family", family |-> f]
RouteElement(f, d) == [name |-> "route", family |-> f, destination |-> d]
AddressElement(f) == [name |-> "assigned-addr", family |-> f]
OtherElement == [name |-> "other"]

ASSUME XmlAssumption ==
    /\ MaxElements \in Nat
    /\ Containers \subseteq {Split(n) : n \in BOOLEAN} \cup {FamilyElement(f) : f \in Families}
                            \cup {OtherElement}
    /\ \A e \in Leaves : /\ e.family \in Families
                          /\ \/ e = AddressElement(e.family)
                             \/ e = RouteElement(e.family, e.destination)

VARIABLES
    tokens,     \* the elements started so far, and "end" for each ended one
    stack,      \* the frames of the open elements, innermost last
    network,    \* the Config that is being filled
    selected,   \* what ForIPMode returns of it
    mode,       \* the IP mode asked for
    phase       \* "parsing", "parsed", "selected", or "error"

xmlVars == <<tokens, stack, network, selected, mode, phase>>

EmptyConfig == [assigned |-> {}, routes |-> [f \in Families |-> <<>>]]

XmlInit ==
    /\ tokens = <<>> /\ stack = <<>>
    /\ network = EmptyConfig /\ selected = EmptyConfig
    /\ mode = "unset" /\ phase = "parsing"

-----------------------------------------------------------------------------
(* ParseNetworkConfig *)

\* familyOf: 0 outside of any ipv4 or ipv6 element.
FamilyOf(frames) == IF frames = <<>> THEN 0 ELSE frames[Len(frames)].family

Frame(e) ==
    [element |-> e,
     family |-> IF e.name = "family" THEN e.family ELSE FamilyOf(stack),
     routeCount |-> 0]

IsSplit(frame) == frame.element.name = "split-tunnel-info"

\* A parsed route counts for each split tunnel around it.
MarkRouteMut(frames) ==
    [i \in DOMAIN frames |->
        IF IsSplit(frames[i]) THEN [frames[i] EXCEPT !.routeCount = @ + 1] ELSE frames[i]]

\* A parsed route counts for the innermost split tunnel around it.
MarkRoute(frames) ==
    LET around == {i \in DOMAIN frames : IsSplit(frames[i])}
    IN  [i \in DOMAIN frames |->
            IF i \in around /\ \A j \in around : j <= i
            THEN [frames[i] EXCEPT !.routeCount = @ + 1] ELSE frames[i]]

AppendUniqueRoute(routes, d) == IF d \in Range(routes) THEN routes ELSE Append(routes, d)

AddRoute(f, d) == [network EXCEPT !.routes[f] = AppendUniqueRoute(@, d)]

MoreElements == Len(SelectSeq(tokens, LAMBDA t : t.name # "end")) < MaxElements

EndToken == [name |-> "end"]

StartElement(e) ==
    /\ phase = "parsing" /\ MoreElements
    /\ tokens' = Append(tokens, e)
    /\ stack' = Append(stack, Frame(e))
    /\ UNCHANGED <<network, selected, mode, phase>>

\* An element without content: parseElement, and its end, which changes nothing.
EmptyElement(e) ==
    /\ phase = "parsing" /\ MoreElements
    /\ tokens' = tokens \o <<e, EndToken>>
    /\ \/ /\ e.name = "assigned-addr"
          /\ network' = [network EXCEPT !.assigned = @ \cup {e.family}]
          /\ UNCHANGED stack
       \/ /\ e.name = "route" /\ e.destination # "unparsable"
          /\ network' = AddRoute(e.family, e.destination)
          /\ stack' = MarkRoute(stack)
       \/ /\ e.name = "route" /\ e.destination = "unparsable"
          /\ UNCHANGED <<network, stack>>
    /\ UNCHANGED <<selected, mode, phase>>

AddsDefault(frame) == IsSplit(frame) /\ frame.routeCount = 0 /\ ~frame.element.negated

EndElement ==
    /\ phase = "parsing" /\ stack # <<>>
    /\ tokens' = Append(tokens, EndToken)
    /\ stack' = SubSeq(stack, 1, Len(stack) - 1)
    /\ LET frame == stack[Len(stack)]
       IN  IF AddsDefault(frame) /\ frame.family \in Families
           THEN network' = AddRoute(frame.family, "default")
           ELSE UNCHANGED network
    /\ UNCHANGED <<selected, mode, phase>>

\* The end of the data, which is a syntax error while an element is open.
EndDocument ==
    /\ phase = "parsing"
    /\ phase' = IF stack = <<>> THEN "parsed" ELSE "error"
    /\ UNCHANGED <<tokens, stack, network, selected, mode>>

-----------------------------------------------------------------------------
(* ForIPMode *)

Modes == {"auto", "ipv4", "ipv6", "dual"}

Required(m) ==
    (IF m \in {"ipv4", "dual"} THEN {4} ELSE {}) \cup (IF m \in {"ipv6", "dual"} THEN {6} ELSE {})

\* The routes of the family that was not asked for stay.
RestrictedMut(c, m) ==
    IF m \in {"auto", "dual"} THEN c ELSE [c EXCEPT !.assigned = Required(m)]

Restricted(c, m) ==
    IF m \in {"auto", "dual"} THEN c
    ELSE [assigned |-> Required(m),
          routes |-> [f \in Families |-> IF f \in Required(m) THEN c.routes[f] ELSE <<>>]]

ForIPMode(m) ==
    /\ phase = "parsed"
    /\ mode' = m
    /\ \/ /\ Required(m) \subseteq network.assigned
          /\ selected' = Restricted(network, m)
          /\ phase' = "selected"
       \/ /\ ~(Required(m) \subseteq network.assigned)
          /\ phase' = "error"
          /\ UNCHANGED selected
    /\ UNCHANGED <<tokens, stack, network>>

XmlNext ==
    \/ \E e \in Containers : StartElement(e)
    \/ \E e \in Leaves : EmptyElement(e)
    \/ EndElement \/ EndDocument
    \/ \E m \in Modes : ForIPMode(m)

-----------------------------------------------------------------------------
(* What has to be read from the document *)

Depth(i) == Cardinality({j \in 1..i : tokens[j].name # "end"})
            - Cardinality({j \in 1..i : tokens[j].name = "end"})

\* The element that starts at i is open at k.
Around(i, k) == i < k /\ tokens[i].name # "end" /\ \A j \in i..k : Depth(j) >= Depth(i)

Innermost(name, k) ==
    {i \in 1..k : /\ tokens[i].name = name /\ Around(i, k)
                  /\ \A j \in (i + 1)..k : ~(tokens[j].name = name /\ Around(j, k))}

RouteAt(k) == tokens[k].name = "route" /\ tokens[k].destination # "unparsable"

\* A split tunnel that lists no route, and is not the list of what to leave out,
\* stands for everything of the family it is in.
WholeFamily(i, f) ==
    /\ tokens[i].name = "split-tunnel-info" /\ ~tokens[i].negated
    /\ \E j \in Innermost("family", i) : tokens[j].family = f
    /\ ~\E k \in DOMAIN tokens : RouteAt(k) /\ i \in Innermost("split-tunnel-info", k)

Documented(f) ==
    {tokens[k].destination : k \in {j \in DOMAIN tokens : RouteAt(j) /\ tokens[j].family = f}}
    \cup (IF \E i \in DOMAIN tokens : WholeFamily(i, f) THEN {"default"} ELSE {})

AssignedFamilies == {f \in Families : AddressElement(f) \in Range(tokens)}

\* However ipv4, ipv6 and split-tunnel elements are nested, repeated and
\* interleaved with routes that parse and routes that do not, a session gets
\* exactly the routes listed anywhere, each once, a default route for exactly the
\* families of the split tunnels that list none themselves, and of all these only
\* what the IP mode asks for; and it is refused exactly if the mode asks for a
\* family that has no address or the document breaks off.
XmlIsReference ==
    /\ phase = "selected" =>
          /\ Required(mode) \subseteq AssignedFamilies
          /\ \A f \in Families :
                IF mode \in {"auto", "dual"} \/ f \in Required(mode)
                THEN Range(selected.routes[f]) = Documented(f) /\ IsInjective(selected.routes[f])
                ELSE selected.routes[f] = <<>>
          /\ selected.assigned = IF mode \in {"auto", "dual"} THEN AssignedFamilies ELSE Required(mode)
    /\ phase = "error" => \/ Depth(Len(tokens)) # 0
                          \/ ~(Required(mode) \subseteq AssignedFamilies)

=============================================================================
