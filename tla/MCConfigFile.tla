---------------------------- MODULE MCConfigFile ----------------------------
(* ConfigFile over files in which the settings of one level meet another's. *)
EXTENDS ConfigFile

Tcp == [NoSettings EXCEPT !.transport = "tcp", !.tcpPort = "set"]
WithSecret == [NoSettings EXCEPT !.secret = "set"]
Udp == [NoSettings EXCEPT !.transport = "udp"]
Wrong == [NoSettings EXCEPT !.transport = "other"]
Cleared == [NoSettings EXCEPT !.secret = ""]

Instance(group, name, settings) == [group |-> group, name |-> name, settings |-> settings]

MCLayers ==
    {[globals |-> NoSettings, groups |-> [g \in {"g"} |-> NoSettings]],
     [globals |-> Tcp, groups |-> [g \in {"g"} |-> WithSecret]]}

MCOriginals ==
    {<<>>, <<Instance("g", "k", NoSettings)>>,
     <<Instance("", "j", WithSecret), Instance("", "j", NoSettings)>>}

MCAdditions ==
    {Instance("g", "k", WithSecret), Instance("g", "l", Cleared), Instance("", "l", Udp),
     Instance("h", "k", NoSettings), Instance("", "k", Wrong)}
=============================================================================
