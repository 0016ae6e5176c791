---------------------------- MODULE SessionConfig ----------------------------
(***************************************************************************)
(* Where a session gets its addresses and routes from: connect dispatches  *)
(* to the protocol of the configuration, and SSL-VPN reads the XML of the  *)
(* gateway (XmlConfig), IPsec the report of its daemon (NegotiatedInfo).   *)
(***************************************************************************)
EXTENDS NegotiatedInfo, XmlConfig

VARIABLES
    protocol    \* of the settings that were chosen

\* vars is NegotiatedInfo's.
sessionConfigVars == <<protocol, vars, xmlVars>>

SessionConfigInit ==
    /\ protocol \in {"sslvpn", "ipsec"}
    /\ InfoInit /\ XmlInit
    /\ protocol = "sslvpn" => ~dual /\ ~tcp    \* IPsec's options, unused

Settled ==
    /\ verdict # "none" \/ phase \in {"selected", "error"}
    /\ UNCHANGED sessionConfigVars

SessionConfigNext ==
    \/ protocol = "ipsec" /\ InfoNext /\ UNCHANGED <<protocol, xmlVars>>
    \/ protocol = "sslvpn" /\ XmlNext /\ UNCHANGED <<protocol, vars>>
    \/ Settled

SessionConfigSpec == SessionConfigInit /\ [][SessionConfigNext]_sessionConfigVars

\* The families that a session has an address in, and those it has routes of.
AddressedFamilies ==
    IF protocol = "ipsec" THEN {f \in Families : (f = 4 /\ ipv4 # None) \/ (f = 6 /\ ipv6 # None)}
    ELSE selected.assigned

RoutedFamilies ==
    IF protocol = "ipsec" THEN {f \in Families : (f = 4 /\ routes4 # <<>>) \/ (f = 6 /\ routes6 # <<>>)}
    ELSE {f \in Families : selected.routes[f] # <<>>}

\* Whatever the gateway sends, an IPsec session, and an SSL-VPN session in a mode
\* that names its families, draws traffic into the tunnel only for families in which
\* it has an address.  SSL-VPN in auto mode, the default, may have routes of a
\* family without one: those that the gateway supplied, all of which it preserves.
RoutesHaveAddress ==
    /\ verdict = "ok" => RoutedFamilies \subseteq AddressedFamilies
    /\ phase = "selected" =>
          \/ RoutedFamilies \subseteq AddressedFamilies
          \/ mode = "auto" /\ selected = network

=============================================================================
