---------------------------- MODULE PasswordEntry ----------------------------
(***************************************************************************)
(* How a command comes by what it authenticates with (cmd/fortivpn): the   *)
(* flags over the configuration, or for IPsec a file of credentials, and   *)
(* the password from a flag, from standard input or from the terminal.     *)
(*                                                                         *)
(* A password is a sequence of bytes, two of which stand for all.          *)
(***************************************************************************)
EXTENDS Naturals, Sequences, FiniteSets

CONSTANTS
    MaxPasswordBytes,   \* 4096 in the code, twice
    MaxInput            \* bound: the bytes that are typed, or sent

ASSUME EntryAssumption == MaxPasswordBytes \in Nat /\ MaxInput \in Nat

Printable == {"a", "b"}
LineEnd == {"return", "newline"}
Typed == Printable \cup LineEnd \cup {"erase", "control", "interrupt", "eot"}

Lines == UNION {[1..n -> Printable \cup LineEnd] : n \in 0..MaxInput}

Configured == <<"a", "b">>      \* a password of the configuration
Given == <<"b">>                \* one of --password

VARIABLES
    flags,      \* of `ipsec connect`, or of an SSL-VPN command; saml, username and
                \* psk, as they result from file and flags; where a password is
                \* given; stdin, --password-stdin; credentials, --credentials
    isTerminal, \* standard input is a terminal
    entry,      \* where passwordForAuthentication stands, and how it ended
    terminal,   \* "cooked" or "raw"
    input,      \* ghost: the bytes read from the terminal, or sent to standard input
    password    \* what has been read, and what is returned

entryVars == <<flags, isTerminal, entry, terminal, input, password>>

EntryInit ==
    /\ flags \in [ipsec : BOOLEAN, saml : BOOLEAN, username : BOOLEAN, psk : BOOLEAN,
                  password : {"none", "file", "flag"}, stdin : BOOLEAN, credentials : BOOLEAN]
    /\ flags.psk \/ flags.credentials => flags.ipsec
    /\ flags.credentials => ~flags.saml    \* which is the configuration's
    /\ isTerminal \in BOOLEAN
    /\ entry = "flags"
    /\ terminal = "cooked"
    /\ input = <<>>
    /\ password = <<>>

-----------------------------------------------------------------------------
(* passwordForAuthentication *)

\* --password-stdin discards the password of the configuration, not --password.
GivenPassword ==
    CASE flags.password = "flag" -> Given
      [] flags.password = "file" /\ ~flags.stdin -> Configured
      [] OTHER -> <<>>

ChosenSource ==
    CASE ~flags.username -> "error"
      [] flags.username /\ GivenPassword # <<>> -> IF flags.stdin THEN "error" ELSE "entered"
      [] flags.username /\ GivenPassword = <<>> ->
            IF flags.stdin THEN "stdin" ELSE IF isTerminal THEN "makeraw" ELSE "error"

SamlAllowed == ~flags.ipsec /\ ~flags.username /\ GivenPassword = <<>> /\ ~flags.stdin

Choose ==
    /\ entry = "flags"
    /\ entry' = IF flags.saml THEN IF SamlAllowed THEN "saml" ELSE "error" ELSE ChosenSource
    /\ password' = IF entry' = "entered" THEN GivenPassword ELSE <<>>
    /\ UNCHANGED <<flags, isTerminal, terminal, input>>

\* LoadIPsecCredentials: a file that others can read, that is too large or
\* malformed; or it is named beside a configuration.
CredentialsRefused ==
    /\ entry = "flags" /\ flags.credentials
    /\ entry' = "error"
    /\ UNCHANGED <<flags, isTerminal, terminal, input, password>>

\* runIPsec looks for the PSK once it has the password.
Proceed ==
    /\ entry = "entered"
    /\ entry' = IF flags.ipsec /\ ~flags.psk THEN "error" ELSE "password"
    /\ UNCHANGED <<flags, isTerminal, terminal, input, password>>

-----------------------------------------------------------------------------
(* readTerminalPassword and readMaskedPassword *)

MakeRaw ==
    /\ entry = "makeraw"
    /\ \/ entry' = "reading" /\ terminal' = "raw"
       \/ entry' = "error" /\ UNCHANGED terminal
    /\ UNCHANGED <<flags, isTerminal, input, password>>

\* What is read goes on, or ends the reading with a password or an error.
Read(key, end) ==
    /\ entry = "reading"
    /\ entry' = end
    /\ Len(input) < MaxInput
    /\ input' = Append(input, key)
    /\ UNCHANGED <<flags, isTerminal, terminal>>

ReadByte(key) ==
    /\ key \in Printable
    /\ \/ /\ Len(password) < MaxPasswordBytes
          /\ Read(key, "reading")
          /\ password' = Append(password, key)
       \/ /\ Len(password) = MaxPasswordBytes
          /\ Read(key, "restore-error")
          /\ UNCHANGED password

\* Nothing happens where there is nothing to erase.
Erase ==
    /\ Read("erase", "reading")
    /\ password' = IF password = <<>> THEN <<>> ELSE SubSeq(password, 1, Len(password) - 1)

Enter(key) ==
    /\ key \in LineEnd
    /\ Read(key, IF password = <<>> THEN "restore-error" ELSE "restore")
    /\ UNCHANGED password

\* ^C and ^D, as the raw terminal passes them on, and other control characters.
Control(key) ==
    /\ \/ key \in {"interrupt", "eot"} /\ Read(key, "restore-error")
       \/ key = "control" /\ Read(key, "reading")
    /\ UNCHANGED password

\* The terminal is gone, or the read fails.
ReadEnds ==
    /\ entry = "reading"
    /\ entry' = "restore-error"
    /\ UNCHANGED <<flags, isTerminal, terminal, input, password>>

\* term.Restore, whatever was read; it may fail, and leave the terminal as it is.
Restore ==
    /\ entry \in {"restore", "restore-error"}
    /\ \/ /\ terminal' = "cooked"
          /\ entry' = IF entry = "restore" THEN "entered" ELSE "error"
       \/ entry' = "unrestored" /\ UNCHANGED terminal
    /\ UNCHANGED <<flags, isTerminal, input, password>>

\* A signal that the terminal does not make: nothing catches it here.
Killed ==
    /\ entry \in {"reading", "restore", "restore-error"}
    /\ entry' = "killed"
    /\ UNCHANGED <<flags, isTerminal, terminal, input, password>>

-----------------------------------------------------------------------------
(* readPassword, from standard input *)

Prefix(bytes, n) == SubSeq(bytes, 1, IF Len(bytes) < n THEN Len(bytes) ELSE n)

\* As much of standard input as ReadString('\n') returns.
UpToNewline(bytes) ==
    LET ends == {i \in DOMAIN bytes : bytes[i] = "newline"}
    IN  IF ends = {} THEN bytes ELSE Prefix(bytes, CHOOSE i \in ends : \A j \in ends : i <= j)

WithoutLast(bytes, end) ==
    IF bytes # <<>> /\ bytes[Len(bytes)] = end THEN SubSeq(bytes, 1, Len(bytes) - 1) ELSE bytes

\* The limit is the longest password: a longer one is cut, not refused.
ReceivedMut(bytes) == UpToNewline(Prefix(bytes, MaxPasswordBytes))

Received(bytes) == UpToNewline(Prefix(bytes, MaxPasswordBytes + 1))

ReadPassword(bytes) ==
    /\ entry = "stdin"
    /\ input' = bytes
    /\ LET value == Received(bytes)
           line == WithoutLast(WithoutLast(value, "newline"), "return")
       IN  IF Len(value) > MaxPasswordBytes \/ line = <<>>
           THEN entry' = "error" /\ UNCHANGED password
           ELSE entry' = "entered" /\ password' = line
    /\ UNCHANGED <<flags, isTerminal, terminal>>

ReadPasswordFails ==
    /\ entry = "stdin"
    /\ entry' = "error"
    /\ UNCHANGED <<flags, isTerminal, terminal, input, password>>

EntryNext ==
    \/ Choose \/ CredentialsRefused \/ Proceed \/ MakeRaw \/ Erase \/ ReadEnds \/ Restore \/ Killed \/ ReadPasswordFails
    \/ \E key \in Typed : ReadByte(key) \/ Enter(key) \/ Control(key)
    \/ \E bytes \in Lines : ReadPassword(bytes)

Ended == {"saml", "password", "error", "unrestored", "killed"}

-----------------------------------------------------------------------------
(* What has to be entered *)

Count(keys, from, to) == Cardinality({i \in from..to : input[i] \in keys})

\* A byte stays unless an erasure takes it back: one that outnumbers the bytes
\* that were typed after it.
Stays(k) ==
    /\ input[k] \in Printable
    /\ \A j \in (k + 1)..Len(input) :
          Count({"erase"}, k + 1, j) <= Count(Printable, k + 1, j)

\* The bytes that stay, in their order.
AreKept(bytes) ==
    \E at \in [DOMAIN bytes -> DOMAIN input] :
        /\ \A i, j \in DOMAIN bytes : i < j => at[i] < at[j]
        /\ {at[i] : i \in DOMAIN bytes} = {k \in DOMAIN input : Stays(k)}
        /\ \A i \in DOMAIN bytes : bytes[i] = input[at[i]]

\* The first line of standard input, with its end gone.
FirstLine(line) ==
    \E n \in 0..Len(input) :
        /\ n = Len(input) \/ input[n + 1] = "newline"
        /\ \A i \in 1..n : input[i] # "newline"
        /\ line = WithoutLast(SubSeq(input, 1, n), "return")

\* What the gateway is sent is what was entered, whole: the line that was typed
\* less what was erased, or the first line of standard input, never the beginning
\* of one that is too long.  It comes from one source, --password-stdin standing
\* above a file; SAML is mixed neither with a password nor with IPsec, and IPsec
\* has a PSK too; and every way out leaves the terminal as it was, except being killed or failing to restore it.
PasswordIsEntered ==
    /\ entry = "password" =>
          /\ password # <<>>
          /\ ~flags.saml /\ flags.username /\ (flags.ipsec => flags.psk)
          /\ \/ flags.password = "flag" /\ ~flags.stdin /\ password = Given
             \/ flags.password = "file" /\ ~flags.stdin /\ password = Configured
             \/ flags.password # "flag" /\ flags.stdin /\ FirstLine(password)
             \/ flags.password = "none" /\ ~flags.stdin /\ isTerminal /\ AreKept(password)
    /\ entry = "saml" => ~flags.ipsec /\ ~flags.username /\ flags.password = "none" /\ ~flags.stdin
    /\ entry \in {"entered", "saml", "password", "error"} => terminal = "cooked"

=============================================================================
