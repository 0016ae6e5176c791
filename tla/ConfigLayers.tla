---------------------------- MODULE ConfigLayers ----------------------------
(***************************************************************************)
(* What a configuration file says (internal/config/config.go): globals,    *)
(* groups and instances, each a level of settings that may be unset, and   *)
(* an instance's settings over those of its group over the globals.  The   *)
(* levels are validated one by one; what is resolved is checked once more. *)
(*                                                                         *)
(* The settings kept here are those that a rule relates to another setting *)
(* or to the file: the transport, the TCP port, and the password or PSK.   *)
(***************************************************************************)
EXTENDS Naturals, Sequences, FiniteSets

NoGroup == ""

Unset == "unset"

\* "other" is a transport that does not exist, "out" a port that is out of range.
Level == [transport : {Unset, "", "udp", "tcp", "other"},
          tcpPort : {Unset, "set", "out"},
          secret : {Unset, "", "set"}]

Instances == [group : STRING, name : STRING, settings : Level]

NoSettings == [transport |-> Unset, tcpPort |-> Unset, secret |-> Unset]

\* The selector of an instance is its group and name.
SelectorOf(i) == <<i.group, i.name>>

\* The layers of a file are its globals and its groups; its content the instances.
Secret(level) == level.secret = "set"

HasSecrets(layers, content) ==
    \/ Secret(layers.globals)
    \/ \E g \in DOMAIN layers.groups : Secret(layers.groups[g])
    \/ \E i \in DOMAIN content : Secret(content[i].settings)

ValidLevel(level) == level.transport # "other" /\ level.tcpPort # "out"

KnownGroup(layers, i) == i.group = NoGroup \/ i.group \in DOMAIN layers.groups

UniqueSelectors(content) ==
    \A i, j \in DOMAIN content : SelectorOf(content[i]) = SelectorOf(content[j]) => i = j

\* validateStructure.
ValidStructure(layers, content) ==
    /\ content # <<>>
    /\ ValidLevel(layers.globals)
    /\ \A g \in DOMAIN layers.groups : ValidLevel(layers.groups[g])
    /\ \A i \in DOMAIN content : KnownGroup(layers, content[i]) /\ ValidLevel(content[i].settings)
    /\ UniqueSelectors(content)

\* applyGlobals: what is set replaces, also by an empty string.
Applied(cfg, level) ==
    [setting \in DOMAIN cfg |-> IF level[setting] = Unset THEN cfg[setting] ELSE level[setting]]

Merged(layers, i) ==
    LET group == IF i.group = NoGroup THEN NoSettings ELSE layers.groups[i.group]
    IN  Applied(Applied(layers.globals, group), i.settings)

\* "tcp_port requires transport tcp".
Coherent(cfg) == cfg.tcpPort = "set" => cfg.transport = "tcp"

\* No selector is asked for.
AnyInstance == <<>>

Selected(content, wanted) ==
    {i \in DOMAIN content : IF wanted = AnyInstance THEN Len(content) = 1
                            ELSE SelectorOf(content[i]) = wanted}

\* resolve.
Resolves(layers, content, wanted) ==
    /\ ValidStructure(layers, content)
    /\ \E i \in Selected(content, wanted) : Coherent(Merged(layers, content[i]))

=============================================================================
