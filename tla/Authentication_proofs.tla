------------------------ MODULE Authentication_proofs ------------------------
(***************************************************************************)
(* Theorems about the login in a browser (SamlLogin), for any number of    *)
(* connections to the callback port, and about the entry of a password     *)
(* (PasswordEntry), for any limit on its length and any input, as both run *)
(* in Authentication.                                                      *)
(***************************************************************************)
EXTENDS Authentication, SequenceTheorems, FiniteSetTheorems, InductionLemmas

-----------------------------------------------------------------------------
(* The invariant, in parts.                                                *)

\* The server is there from Listen on, and is stopped before it is waited for;
\* no request is opened once it is.
ServerInv ==
    /\ pc = "listen" => serving = "off"
    /\ serving = "off" => /\ listener = "none" /\ unread = {}
                          /\ \A r \in Requests : request[r] = "off"
    /\ serving = "ended" => listener = "closed"
    /\ pc \in {"open", "select", "auth", "shutdown"} => ~stopping /\ serving # "off"
    /\ pc \in {"drain", "wait"} => stopping /\ serving # "off"
    /\ stopping => listener = "closed"
    /\ pc = "wait" => \A r \in Requests : ~Active(r)
    /\ pc = "returned" =>
           \/ serving = "off"
           \/ serving = "ended" /\ stopping /\ \A r \in Requests : ~Active(r)

\* The channel holds what was sent until the select takes it; whoever was told
\* "complete" was sent to the channel, and is told nothing else.
CallbackInv ==
    /\ pc \in {"listen", "open", "select"} => result = accepted
    /\ used # Nobody => accepted # <<>> /\ used = accepted[1]
    /\ \A i \in 1..Len(accepted) : request[accepted[i]] = "complete"

SamlInv == SamlTypeOK /\ ServerInv /\ CallbackInv

-----------------------------------------------------------------------------
(* Sequences                                                               *)

LEMMA FirstOfAppend ==
  ASSUME NEW S, NEW s \in Seq(S), NEW e \in S, s # <<>>
  PROVE  Append(s, e) # <<>> /\ Append(s, e)[1] = s[1]
<1>1. Len(s) \in Nat \ {0}
  BY EmptySeq
<1>2. Len(Append(s, e)) = Len(s) + 1 /\ Append(s, e)[1] = s[1]
  BY <1>1, AppendProperties
<1> QED
  BY <1>1, <1>2, EmptySeq

LEMMA ElementsOfAppend ==
  ASSUME NEW S, NEW s \in Seq(S), NEW e \in S, NEW i \in 1..Len(Append(s, e))
  PROVE  \/ i \in 1..Len(s) /\ Append(s, e)[i] = s[i]
         \/ Append(s, e)[i] = e
<1>1. Len(s) \in Nat /\ Len(Append(s, e)) = Len(s) + 1
  BY AppendProperties, LenProperties
<1>2. CASE i \in 1..Len(s)
  BY <1>2, AppendProperties
<1>3. CASE i = Len(s) + 1
  BY <1>3, AppendProperties
<1> QED
  BY <1>1, <1>2, <1>3

-----------------------------------------------------------------------------
(* Type correctness                                                        *)

RequestStates ==
    {"off", "open", "deliver", "rejected", "complete", "conflict", "dropped"}

ControlTypeOK ==
    /\ ctx \in BOOLEAN
    /\ pc \in {"listen", "open", "select", "auth", "shutdown", "drain", "wait", "returned"}
    /\ listener \in {"none", "open", "closed"}
    /\ serving \in {"off", "starting", "on", "ended"}
    /\ stopping \in BOOLEAN
    /\ served \in {"none", "error", "closed"}
    /\ outcome \in {"none", "session", "error"}

DataTypeOK ==
    /\ result \in Seq(Requests) /\ Len(result) <= 1
    /\ request \in [Requests -> RequestStates]
    /\ unread \subseteq Requests
    /\ used \in Requests \cup {Nobody}
    /\ accepted \in Seq(Requests)

LEMMA TypeParts == SamlTypeOK <=> ControlTypeOK /\ DataTypeOK
BY DEF SamlTypeOK, ControlTypeOK, DataTypeOK, RequestStates

LEMMA ControlNext ==
  ASSUME ControlTypeOK, [SamlNext]_vars
  PROVE  ControlTypeOK'
<1> USE DEF ControlTypeOK, server, callbacks, Go
<1>1. CASE Expire \/ ServeStarts \/ ServeEnds
  BY <1>1 DEF Expire, ServeStarts, ServeEnds
<1>2. CASE ListenFails \/ Listen \/ OpenBrowser \/ Shutdown
  BY <1>2 DEF ListenFails, Listen, OpenBrowser, Shutdown
<1>3. CASE SelectId \/ SelectEnd \/ Authenticates \/ Drained \/ Returns
  BY <1>3 DEF SelectId, SelectEnd, Authenticates, Drained, Returns
<1>4. ASSUME NEW r \in Requests, Arrive(r) \/ Receive(r) \/ BodyEnds(r) \/ Deliver(r)
      PROVE  ControlTypeOK'
  BY <1>4 DEF Arrive, Receive, BodyEnds, Deliver, Accept, Conflict, Answer
<1>5. CASE UNCHANGED vars
  BY <1>5 DEF vars
<1> QED
  BY <1>1, <1>2, <1>3, <1>4, <1>5 DEF SamlNext, Authenticate

LEMMA DataNext ==
  ASSUME DataTypeOK, [SamlNext]_vars
  PROVE  DataTypeOK'
<1>0. /\ result \in Seq(Requests) /\ Len(result) <= 1
      /\ request \in [Requests -> RequestStates]
      /\ unread \subseteq Requests
      /\ used \in Requests \cup {Nobody}
      /\ accepted \in Seq(Requests)
  BY DEF DataTypeOK
<1> USE DEF server, callbacks
<1>1. CASE UNCHANGED <<result, request, unread, used, accepted>>
  BY <1>0, <1>1 DEF DataTypeOK
<1>2. CASE Expire \/ ServeStarts \/ ServeEnds \/ UNCHANGED vars
  BY <1>1, <1>2 DEF Expire, ServeStarts, ServeEnds, vars
<1>3. CASE ListenFails \/ Listen \/ OpenBrowser \/ SelectEnd \/ Authenticates
           \/ Shutdown \/ Drained \/ Returns
  BY <1>1, <1>3
  DEF ListenFails, Listen, OpenBrowser, SelectEnd, Authenticates, Shutdown,
      Drained, Returns
<1>4. CASE SelectId
  <2>1. result # <<>> /\ used' = Head(result) /\ result' = Tail(result)
        /\ UNCHANGED <<request, unread, accepted>>
    BY <1>4 DEF SelectId
  <2>2. Head(result) \in Requests /\ Tail(result) \in Seq(Requests)
        /\ Len(Tail(result)) = Len(result) - 1 /\ Len(result) \in Nat
    BY <1>0, <2>1, HeadTailProperties, LenProperties
  <2> QED
    BY <1>0, <2>1, <2>2 DEF DataTypeOK
<1>5. ASSUME NEW r \in Requests, Arrive(r) \/ Receive(r) \/ BodyEnds(r) \/ Conflict(r)
      PROVE  DataTypeOK'
  <2>1. request' \in [Requests -> RequestStates]
    BY <1>0, <1>5 DEF Arrive, Receive, BodyEnds, Conflict, Answer, RequestStates
  <2>2. UNCHANGED <<result, used, accepted>>
    BY <1>5 DEF Arrive, Receive, BodyEnds, Conflict, Answer
  <2>3. unread' \subseteq Requests
    BY <1>0, <1>5 DEF Arrive, Receive, BodyEnds, Conflict
  <2> QED
    BY <1>0, <2>1, <2>2, <2>3 DEF DataTypeOK
<1>6. ASSUME NEW r \in Requests, Accept(r) PROVE DataTypeOK'
  <2>1. request' \in [Requests -> RequestStates] /\ used' = used /\ unread' = unread
    BY <1>0, <1>6 DEF Accept, Answer, RequestStates
  <2>2. result' \in Seq(Requests) /\ Len(result') = 1
    BY <1>6 DEF Accept
  <2>3. accepted' \in Seq(Requests)
    BY <1>0, <1>6, AppendProperties DEF Accept
  <2> QED
    BY <1>0, <2>1, <2>2, <2>3 DEF DataTypeOK
<1> QED
  BY <1>2, <1>3, <1>4, <1>5, <1>6 DEF SamlNext, Authenticate, Deliver

-----------------------------------------------------------------------------
(* The callback server                                                     *)

LEMMA ServerNext ==
  ASSUME ControlTypeOK, DataTypeOK, ServerInv, [SamlNext]_vars
  PROVE  ServerInv'
<1>0. request \in [Requests -> RequestStates]
  BY DEF DataTypeOK
<1> USE DEF ControlTypeOK, ServerInv, server, callbacks, Go
<1>1. CASE UNCHANGED <<pc, listener, serving, stopping, request, unread>>
  BY <1>1 DEF Active
<1>2. CASE Expire
  BY <1>1, <1>2 DEF Expire
<1>3. CASE ServeStarts \/ ServeEnds
  BY <1>3 DEF ServeStarts, ServeEnds, Active
<1>4. CASE ListenFails \/ Listen \/ OpenBrowser
  BY <1>4 DEF ListenFails, Listen, OpenBrowser, Active
<1>5. CASE SelectId \/ SelectEnd \/ Authenticates
  BY <1>5 DEF SelectId, SelectEnd, Authenticates, Active
<1>6. CASE Shutdown \/ Drained \/ Returns
  BY <1>6 DEF Shutdown, Drained, Returns, Active
<1>7. ASSUME NEW r \in Requests, Arrive(r) PROVE ServerInv'
  <2>1. serving = "on" /\ ~stopping /\ UNCHANGED <<pc, listener, serving, stopping>>
    BY <1>7 DEF Arrive
  <2> QED
    BY <2>1
<1>8. ASSUME NEW r \in Requests, Receive(r) \/ BodyEnds(r) \/ Deliver(r) PROVE ServerInv'
  <2>1. UNCHANGED <<pc, listener, serving, stopping>>
    BY <1>8 DEF Receive, BodyEnds, Deliver, Accept, Conflict, Answer
  <2>2. Active(r)
    BY <1>8 DEF Receive, BodyEnds, Deliver, Accept, Conflict, Answer, Active
  <2>3. \A q \in Requests : Active(q)' => Active(q)
    BY <1>0, <1>8, <2>2 DEF Receive, BodyEnds, Deliver, Accept, Conflict, Answer, Active
  <2>4. serving # "off"
    BY <2>2 DEF Active
  <2> QED
    BY <2>1, <2>3, <2>4
<1>9. CASE UNCHANGED vars
  BY <1>1, <1>9 DEF vars
<1> QED
  BY <1>2, <1>3, <1>4, <1>5, <1>6, <1>7, <1>8, <1>9 DEF SamlNext, Authenticate

-----------------------------------------------------------------------------
(* The callbacks                                                           *)

LEMMA CallbackNext ==
  ASSUME ControlTypeOK, DataTypeOK, ServerInv, CallbackInv, [SamlNext]_vars
  PROVE  CallbackInv'
<1>0. request \in [Requests -> RequestStates] /\ accepted \in Seq(Requests)
      /\ result \in Seq(Requests)
  BY DEF DataTypeOK
<1>1. /\ pc \in {"listen", "open", "select"} => result = accepted
      /\ used # Nobody => accepted # <<>> /\ used = accepted[1]
      /\ \A i \in 1..Len(accepted) : request[accepted[i]] = "complete"
  BY DEF CallbackInv
<1> USE DEF server, callbacks, Go
\* A step that takes nothing from the channel and puts nothing there.
<1>2. ASSUME UNCHANGED <<result, accepted, used>>,
             pc' \in {"listen", "open", "select"} => pc \in {"listen", "open", "select"},
             \A q \in Requests : request[q] = "complete" => request'[q] = "complete"
      PROVE  CallbackInv'
  <2>1. \A i \in 1..Len(accepted) : accepted[i] \in Requests
    BY <1>0, ElementOfSeq
  <2> QED
    BY <1>1, <1>2, <2>1 DEF CallbackInv
<1>3. CASE Expire \/ ServeStarts \/ ServeEnds \/ UNCHANGED vars
  BY <1>2, <1>3 DEF Expire, ServeStarts, ServeEnds, vars
<1>4. CASE ListenFails \/ Listen \/ OpenBrowser \/ SelectEnd \/ Authenticates
           \/ Shutdown \/ Drained \/ Returns
  BY <1>2, <1>4
  DEF ListenFails, Listen, OpenBrowser, SelectEnd, Authenticates, Shutdown,
      Drained, Returns
<1>5. CASE SelectId
  <2>1. pc = "select" /\ pc' = "auth" /\ result # <<>> /\ used' = Head(result)
        /\ UNCHANGED <<request, accepted>>
    BY <1>5 DEF SelectId
  <2>2. result = accepted
    BY <1>1, <2>1
  <2>3. Head(result) = result[1]
    BY <1>0, <2>1
  <2> QED
    BY <1>1, <2>1, <2>2, <2>3 DEF CallbackInv
<1>6. ASSUME NEW r \in Requests, Arrive(r) PROVE CallbackInv'
  BY <1>0, <1>2, <1>6 DEF Arrive
<1>7. ASSUME NEW r \in Requests, Receive(r) \/ BodyEnds(r) \/ Conflict(r)
      PROVE  CallbackInv'
  BY <1>0, <1>2, <1>7 DEF Receive, BodyEnds, Conflict, Answer
<1>8. ASSUME NEW r \in Requests, Accept(r) PROVE CallbackInv'
  <2>1. result = <<>> /\ result' = <<r>> /\ accepted' = Append(accepted, r)
        /\ request' = [request EXCEPT ![r] = "complete"]
        /\ UNCHANGED <<pc, used>>
    BY <1>8 DEF Accept, Answer
  <2>2. pc \in {"listen", "open", "select"} => accepted' = <<r>>
    <3>1. Append(<<>>, r) = <<r>>
      BY AppendIsConcat, ConcatEmptySeq
    <3> QED
      BY <1>1, <2>1, <3>1
  <2>3. used # Nobody => accepted' # <<>> /\ accepted'[1] = accepted[1]
    BY <1>0, <1>1, <2>1, FirstOfAppend
  <2>4. ASSUME NEW i \in 1..Len(accepted')
        PROVE  request'[accepted'[i]] = "complete"
    <3>1. (i \in 1..Len(accepted) /\ accepted'[i] = accepted[i]) \/ accepted'[i] = r
      BY <1>0, <2>1, <2>4, ElementsOfAppend
    <3>2. \A j \in 1..Len(accepted) : accepted[j] \in Requests
      BY <1>0, ElementOfSeq
    <3> QED
      BY <1>0, <1>1, <2>1, <3>1, <3>2
  <2> QED
    BY <1>1, <2>1, <2>2, <2>3, <2>4 DEF CallbackInv
<1> QED
  BY <1>3, <1>4, <1>5, <1>6, <1>7, <1>8 DEF SamlNext, Authenticate, Deliver

-----------------------------------------------------------------------------
(* What every reachable state satisfies                                    *)

LEMMA SamlInvInit == SamlInit => SamlInv
<1> SUFFICES ASSUME SamlInit PROVE SamlInv
  OBVIOUS
<1> USE DEF SamlInit
<1>1. <<>> \in Seq(Requests) /\ Len(<<>>) = 0
  BY EmptySeq
<1>2. ControlTypeOK
  BY DEF ControlTypeOK
<1>3. DataTypeOK
  BY <1>1 DEF DataTypeOK, RequestStates
<1>4. ServerInv
  BY DEF ServerInv
<1>5. CallbackInv
  BY <1>1 DEF CallbackInv
<1> QED
  BY <1>2, <1>3, <1>4, <1>5, TypeParts DEF SamlInv

\* The other part of a command, PasswordEntry, does not touch the login.
LEMMA AuthStep == [AuthNext]_authVars => [SamlNext]_vars
BY DEF AuthNext, authVars

LEMMA SamlInvariant == AuthSpec => []SamlInv
<1>1. AuthInit => SamlInv
  BY SamlInvInit DEF AuthInit
<1>2. SamlInv /\ [AuthNext]_authVars => SamlInv'
  <2> SUFFICES ASSUME SamlInv, [AuthNext]_authVars PROVE SamlInv'
    OBVIOUS
  <2>1. [SamlNext]_vars
    BY AuthStep
  <2>2. ControlTypeOK /\ DataTypeOK /\ ServerInv /\ CallbackInv
    BY TypeParts DEF SamlInv
  <2>3. ControlTypeOK' /\ DataTypeOK' /\ ServerInv' /\ CallbackInv'
    BY <2>1, <2>2, ControlNext, DataNext, ServerNext, CallbackNext
  <2>4. SamlTypeOK'
    BY <2>3, TypeParts, PTL
  <2> QED
    BY <2>3, <2>4 DEF SamlInv
<1> QED
  BY <1>1, <1>2, PTL DEF AuthSpec

(* Every variable of the login keeps its type; the channel of ids never     *)
(* holds more than the one it has room for.                                 *)
THEOREM SamlTypeCorrect == AuthSpec => []SamlTypeOK
<1>1. SamlInv => SamlTypeOK
  BY DEF SamlInv
<1> QED
  BY <1>1, SamlInvariant, PTL

(* Whatever ended the login, and however many connections were made, when   *)
(* Authenticate returns the port is free and nothing of the server is at    *)
(* work.                                                                    *)
THEOREM PortIsReleased == AuthSpec => []PortReleased
<1>1. SamlInv => PortReleased
  BY DEF SamlInv, ServerInv, PortReleased, Active
<1> QED
  BY <1>1, SamlInvariant, PTL

(* However callbacks race, the id presented to the gateway is the first     *)
(* that any of them delivered, and its sender was told so.                  *)
THEOREM TheFirstCallbackWins == AuthSpec => []FirstCallbackWins
<1>1. SamlInv => FirstCallbackWins
  <2> SUFFICES ASSUME SamlInv, used # Nobody
               PROVE  used = accepted[1] /\ request[used] = "complete"
    BY DEF FirstCallbackWins
  <2>1. accepted \in Seq(Requests) /\ accepted # <<>> /\ used = accepted[1]
    BY DEF SamlInv, SamlTypeOK, CallbackInv
  <2>2. 1 \in 1..Len(accepted)
    BY <2>1, EmptySeq
  <2> QED
    BY <2>1, <2>2 DEF SamlInv, CallbackInv
<1> QED
  BY <1>1, SamlInvariant, PTL

-----------------------------------------------------------------------------
(* The bytes that are typed: counting them, for one sequence after another *)
(* instead of the variable input.                                          *)

CountIn(s, keys, from, to) == Cardinality({i \in from..to : s[i] \in keys})

StaysIn(s, k) ==
    /\ s[k] \in Printable
    /\ \A j \in (k + 1)..Len(s) :
          CountIn(s, {"erase"}, k + 1, j) <= CountIn(s, Printable, k + 1, j)

\* By how much the bytes after k outnumber the erasures after it.
SurplusIn(s, k) ==
    CountIn(s, Printable, k + 1, Len(s)) - CountIn(s, {"erase"}, k + 1, Len(s))

\* The bytes that stay are at the places at, and each outlives as many erasures
\* as bytes stay after it: the next one takes the last of them.
KeptIn(s, bytes, at) ==
    /\ at \in [1..Len(bytes) -> 1..Len(s)]
    /\ \A i, j \in 1..Len(bytes) : i < j => at[i] < at[j]
    /\ \A k \in 1..Len(s) : StaysIn(s, k) <=> \E i \in 1..Len(bytes) : at[i] = k
    /\ \A i \in 1..Len(bytes) : bytes[i] = s[at[i]]
    /\ \A i \in 1..Len(bytes) : SurplusIn(s, at[i]) = Len(bytes) - i

LEMMA CountType ==
  ASSUME NEW s, NEW keys, NEW a \in Nat, NEW b \in Nat
  PROVE  IsFiniteSet({i \in a..b : s[i] \in keys}) /\ CountIn(s, keys, a, b) \in Nat
<1>1. IsFiniteSet(a..b)
  BY FS_Interval
<1>2. {i \in a..b : s[i] \in keys} \in SUBSET (a..b)
  OBVIOUS
<1>3. IsFiniteSet({i \in a..b : s[i] \in keys})
  BY <1>1, <1>2, FS_Subset
<1> QED
  BY <1>3, FS_CardinalityType DEF CountIn

LEMMA CountNone ==
  ASSUME NEW s, NEW keys, NEW a \in Nat, NEW b \in Nat, b < a
  PROVE  CountIn(s, keys, a, b) = 0
<1>1. {i \in a..b : s[i] \in keys} = {}
  OBVIOUS
<1> QED
  BY <1>1, FS_EmptySet DEF CountIn

LEMMA CountStep ==
  ASSUME NEW s, NEW keys, NEW a \in Nat, NEW b \in Nat, a <= b + 1
  PROVE  CountIn(s, keys, a, b + 1)
             = CountIn(s, keys, a, b) + (IF s[b + 1] \in keys THEN 1 ELSE 0)
<1> DEFINE A == {i \in a..b : s[i] \in keys}
           B == {i \in a..(b + 1) : s[i] \in keys}
<1>0. IsFiniteSet(A)
  BY CountType
<1>1. IsFiniteSet(A) /\ b + 1 \notin A
  BY <1>0
<1>2. B = IF s[b + 1] \in keys THEN A \cup {b + 1} ELSE A
  OBVIOUS
<1>3. Cardinality(A) \in Nat
  BY <1>1, FS_CardinalityType
<1>4. Cardinality(B) = Cardinality(A) + (IF s[b + 1] \in keys THEN 1 ELSE 0)
  <2> HIDE DEF A, B
  <2> QED
    BY <1>1, <1>2, <1>3, FS_AddElement
<1> QED
  BY <1>4 DEF CountIn

LEMMA CountSame ==
  ASSUME NEW s, NEW t, NEW keys, NEW a \in Nat, NEW b \in Nat,
         \A i \in a..b : t[i] = s[i]
  PROVE  CountIn(t, keys, a, b) = CountIn(s, keys, a, b)
<1>1. {i \in a..b : t[i] \in keys} = {i \in a..b : s[i] \in keys}
  OBVIOUS
<1> QED
  BY <1>1 DEF CountIn

\* One more byte or key.
LEMMA SurplusAppend ==
  ASSUME NEW s \in Seq(Typed), NEW key \in Typed, NEW k \in 1..Len(s)
  PROVE  /\ SurplusIn(s, k) \in Int
         /\ SurplusIn(Append(s, key), k)
                = SurplusIn(s, k) + (IF key \in Printable THEN 1 ELSE 0)
                                  - (IF key = "erase" THEN 1 ELSE 0)
         /\ StaysIn(Append(s, key), k)
                <=> StaysIn(s, k) /\ SurplusIn(Append(s, key), k) >= 0
<1> DEFINE t == Append(s, key)
           n == Len(s)
<1>1. /\ n \in Nat /\ Len(t) = n + 1 /\ t[n + 1] = key
      /\ \A i \in 1..n : t[i] = s[i]
  BY AppendProperties, LenProperties
<1> HIDE DEF t, n
<1>2. k \in 1..n /\ k + 1 \in Nat /\ k + 1 <= n + 1
  BY <1>1 DEF n
<1>3. ASSUME NEW keys, NEW j \in (k + 1)..n
      PROVE  CountIn(t, keys, k + 1, j) = CountIn(s, keys, k + 1, j)
  <2>1. j \in Nat /\ \A i \in (k + 1)..j : t[i] = s[i]
    BY <1>1, <1>2
  <2> QED
    BY <1>2, <2>1, CountSame
<1>4. ASSUME NEW keys
      PROVE  /\ CountIn(s, keys, k + 1, n) \in Nat
             /\ CountIn(t, keys, k + 1, n + 1)
                    = CountIn(s, keys, k + 1, n) + (IF key \in keys THEN 1 ELSE 0)
  <2>1. CountIn(s, keys, k + 1, n) \in Nat
    BY <1>1, <1>2, CountType
  <2>2. CountIn(t, keys, k + 1, n) = CountIn(s, keys, k + 1, n)
    <3>1. \A i \in (k + 1)..n : t[i] = s[i]
      BY <1>1, <1>2
    <3> QED
      BY <1>1, <1>2, <3>1, CountSame
  <2>3. CountIn(t, keys, k + 1, n + 1)
            = CountIn(t, keys, k + 1, n) + (IF t[n + 1] \in keys THEN 1 ELSE 0)
    <3>1. n \in Nat /\ k + 1 \in Nat /\ k + 1 <= n + 1
      BY <1>1, <1>2
    <3> QED
      BY <3>1, CountStep
  <2> QED
    BY <1>1, <2>1, <2>2, <2>3
<1>5. /\ SurplusIn(s, k) = CountIn(s, Printable, k + 1, n) - CountIn(s, {"erase"}, k + 1, n)
      /\ SurplusIn(t, k) = CountIn(t, Printable, k + 1, n + 1)
                               - CountIn(t, {"erase"}, k + 1, n + 1)
  BY <1>1 DEF SurplusIn, n
<1>6. /\ SurplusIn(s, k) \in Int
      /\ SurplusIn(t, k) = SurplusIn(s, k) + (IF key \in Printable THEN 1 ELSE 0)
                               - (IF key = "erase" THEN 1 ELSE 0)
  <2>1. /\ CountIn(s, Printable, k + 1, n) \in Nat
        /\ CountIn(t, Printable, k + 1, n + 1)
               = CountIn(s, Printable, k + 1, n) + (IF key \in Printable THEN 1 ELSE 0)
    BY <1>4
  <2>2. /\ CountIn(s, {"erase"}, k + 1, n) \in Nat
        /\ CountIn(t, {"erase"}, k + 1, n + 1)
               = CountIn(s, {"erase"}, k + 1, n) + (IF key \in {"erase"} THEN 1 ELSE 0)
    BY <1>4
  <2> QED
    BY <1>5, <2>1, <2>2
<1>7. CountIn(t, {"erase"}, k + 1, n + 1) <= CountIn(t, Printable, k + 1, n + 1)
          <=> SurplusIn(t, k) >= 0
  BY <1>4, <1>5
<1>8. (k + 1)..(n + 1) = ((k + 1)..n) \cup {n + 1}
  BY <1>1, <1>2
<1>9. StaysIn(t, k) <=> StaysIn(s, k) /\ SurplusIn(t, k) >= 0
  <2>1. StaysIn(s, k) <=>
            /\ s[k] \in Printable
            /\ \A j \in (k + 1)..n :
                  CountIn(s, {"erase"}, k + 1, j) <= CountIn(s, Printable, k + 1, j)
    BY DEF StaysIn, n
  <2>2. StaysIn(t, k) <=>
            /\ t[k] \in Printable
            /\ \A j \in (k + 1)..(n + 1) :
                  CountIn(t, {"erase"}, k + 1, j) <= CountIn(t, Printable, k + 1, j)
    BY <1>1 DEF StaysIn
  <2>3. t[k] = s[k]
    BY <1>1, <1>2
  <2> QED
    BY <1>3, <1>7, <1>8, <2>1, <2>2, <2>3
<1> QED
  BY <1>6, <1>9 DEF t

LEMMA LastStays ==
  ASSUME NEW s \in Seq(Typed), NEW key \in Typed
  PROVE  /\ StaysIn(Append(s, key), Len(s) + 1) <=> key \in Printable
         /\ SurplusIn(Append(s, key), Len(s) + 1) = 0
<1> DEFINE t == Append(s, key)
           n == Len(s)
<1>1. n \in Nat /\ Len(t) = n + 1 /\ t[n + 1] = key
  BY AppendProperties, LenProperties
<1> HIDE DEF t, n
<1>2. ((n + 1) + 1)..(n + 1) = {}
  BY <1>1
<1>3. \A keys : CountIn(t, keys, (n + 1) + 1, n + 1) = 0
  BY <1>1, CountNone
<1> QED
  BY <1>1, <1>2, <1>3 DEF StaysIn, SurplusIn, t, n

-----------------------------------------------------------------------------
(* What is kept of one more byte or key                                    *)

LEMMA PrintableKept ==
  ASSUME NEW s \in Seq(Typed), NEW bytes \in Seq(Printable), NEW at, KeptIn(s, bytes, at),
         NEW key \in Printable
  PROVE  \E places : KeptIn(Append(s, key), Append(bytes, key), places)
<1>0. key \in Typed /\ key # "erase"
  BY DEF Typed, Printable
<1>1. PICK t, n, m, more :
          /\ t = Append(s, key) /\ more = Append(bytes, key)
          /\ n = Len(s) /\ m = Len(bytes)
  OBVIOUS
<1>2. /\ n \in Nat /\ Len(t) = n + 1 /\ t[n + 1] = key
      /\ \A i \in 1..n : t[i] = s[i]
  BY <1>0, <1>1, AppendProperties, LenProperties
<1>3. /\ m \in Nat /\ Len(more) = m + 1 /\ more[m + 1] = key
      /\ \A i \in 1..m : more[i] = bytes[i]
  BY <1>1, AppendProperties, LenProperties
<1> DEFINE places == [i \in 1..(m + 1) |-> IF i = m + 1 THEN n + 1 ELSE at[i]]
<1>4. /\ at \in [1..m -> 1..n]
      /\ \A i, j \in 1..m : i < j => at[i] < at[j]
      /\ \A k \in 1..n : StaysIn(s, k) <=> \E i \in 1..m : at[i] = k
      /\ \A i \in 1..m : bytes[i] = s[at[i]]
      /\ \A i \in 1..m : SurplusIn(s, at[i]) = m - i
  BY <1>1 DEF KeptIn
<1>5. \A k \in 1..n : /\ SurplusIn(s, k) \in Int
                      /\ SurplusIn(t, k) = SurplusIn(s, k) + 1
                      /\ StaysIn(t, k) <=> StaysIn(s, k) /\ SurplusIn(t, k) >= 0
  BY <1>0, <1>1, SurplusAppend
<1>6. StaysIn(t, n + 1) /\ SurplusIn(t, n + 1) = 0
  BY <1>0, <1>1, LastStays
<1>7. places \in [1..(m + 1) -> 1..(n + 1)]
  BY <1>2, <1>3, <1>4
<1>8. \A i, j \in 1..(m + 1) : i < j => places[i] < places[j]
  BY <1>2, <1>3, <1>4
<1>9. ASSUME NEW k \in 1..(n + 1)
      PROVE  StaysIn(t, k) <=> \E i \in 1..(m + 1) : places[i] = k
  <2>1. CASE k = n + 1
    BY <1>3, <1>6, <2>1
  <2>2. CASE k \in 1..n
    <3>1. StaysIn(s, k) => SurplusIn(t, k) >= 0
      BY <1>3, <1>4, <1>5, <2>2
    <3>2. StaysIn(t, k) <=> \E i \in 1..m : at[i] = k
      BY <1>4, <1>5, <2>2, <3>1
    <3> QED
      BY <1>2, <1>3, <2>2, <3>2
  <2> QED
    BY <1>2, <2>1, <2>2
<1>10. ASSUME NEW i \in 1..(m + 1) PROVE more[i] = t[places[i]]
  <2>1. CASE i = m + 1
    BY <1>2, <1>3, <2>1
  <2>2. CASE i \in 1..m
    <3>1. more[i] = bytes[i] /\ bytes[i] = s[at[i]]
      BY <1>3, <1>4, <2>2
    <3>2. at[i] \in 1..n /\ places[i] = at[i]
      BY <1>3, <1>4, <2>2
    <3> HIDE DEF places
    <3> QED
      BY <1>2, <3>1, <3>2
  <2> QED
    BY <1>3, <2>1, <2>2
<1>11. \A i \in 1..(m + 1) : SurplusIn(t, places[i]) = (m + 1) - i
  BY <1>2, <1>3, <1>4, <1>5, <1>6
<1> HIDE DEF places
<1>12. KeptIn(t, more, places)
  BY <1>2, <1>3, <1>7, <1>8, <1>9, <1>10, <1>11 DEF KeptIn
<1> QED
  BY <1>1, <1>12

LEMMA ControlKept ==
  ASSUME NEW s \in Seq(Typed), NEW bytes, NEW at, KeptIn(s, bytes, at), Len(bytes) \in Nat,
         NEW key \in Typed, key \notin Printable, key # "erase"
  PROVE  KeptIn(Append(s, key), bytes, at)
<1>1. PICK t, n, m : t = Append(s, key) /\ n = Len(s) /\ m = Len(bytes)
  OBVIOUS
<1>2. /\ n \in Nat /\ Len(t) = n + 1 /\ \A i \in 1..n : t[i] = s[i]
  BY <1>1, AppendProperties, LenProperties
<1>4. /\ at \in [1..m -> 1..n]
      /\ \A i, j \in 1..m : i < j => at[i] < at[j]
      /\ \A k \in 1..n : StaysIn(s, k) <=> \E i \in 1..m : at[i] = k
      /\ \A i \in 1..m : bytes[i] = s[at[i]]
      /\ \A i \in 1..m : SurplusIn(s, at[i]) = m - i
  BY <1>1 DEF KeptIn
<1>5. \A k \in 1..n : /\ SurplusIn(s, k) \in Int
                      /\ SurplusIn(t, k) = SurplusIn(s, k)
                      /\ StaysIn(t, k) <=> StaysIn(s, k) /\ SurplusIn(t, k) >= 0
  BY <1>1, SurplusAppend
<1>6. ~StaysIn(t, n + 1)
  BY <1>1, LastStays
<1>7. at \in [1..m -> 1..(n + 1)]
  BY <1>2, <1>4
<1>8. ASSUME NEW k \in 1..(n + 1)
      PROVE  StaysIn(t, k) <=> \E i \in 1..m : at[i] = k
  <2>1. CASE k = n + 1
    BY <1>2, <1>4, <1>6, <2>1
  <2>2. CASE k \in 1..n
    <3>1. StaysIn(s, k) => SurplusIn(t, k) >= 0
      BY <1>1, <1>4, <1>5, <2>2
    <3> QED
      BY <1>4, <1>5, <2>2, <3>1
  <2> QED
    BY <1>2, <2>1, <2>2
<1>9. \A i \in 1..m : bytes[i] = t[at[i]] /\ SurplusIn(t, at[i]) = m - i
  BY <1>2, <1>4, <1>5
<1>10. KeptIn(t, bytes, at)
  BY <1>1, <1>2, <1>4, <1>7, <1>8, <1>9 DEF KeptIn
<1> QED
  BY <1>1, <1>10

LEMMA EraseKept ==
  ASSUME NEW s \in Seq(Typed), NEW bytes \in Seq(Printable), NEW at, KeptIn(s, bytes, at)
  PROVE  \E places :
             KeptIn(Append(s, "erase"),
                    IF bytes = <<>> THEN <<>> ELSE SubSeq(bytes, 1, Len(bytes) - 1), places)
<1>0. "erase" \in Typed /\ "erase" \notin Printable
  BY DEF Typed, Printable
<1>1. PICK t, n, m, less :
          /\ t = Append(s, "erase") /\ n = Len(s) /\ m = Len(bytes)
          /\ less = IF bytes = <<>> THEN <<>> ELSE SubSeq(bytes, 1, Len(bytes) - 1)
  OBVIOUS
<1>2. /\ n \in Nat /\ Len(t) = n + 1 /\ \A i \in 1..n : t[i] = s[i]
  BY <1>0, <1>1, AppendProperties, LenProperties
<1>3. PICK w : /\ w \in Nat /\ Len(less) = w /\ (w = m \/ w = m - 1) /\ (w = m => m = 0)
               /\ m \in Nat /\ \A i \in 1..w : less[i] = bytes[i]
  <2>1. CASE bytes = <<>>
    BY <1>1, <2>1
  <2>2. CASE bytes # <<>>
    <3>1. m \in Nat \ {0} /\ less = SubSeq(bytes, 1, m - 1)
      BY <1>1, <2>2, EmptySeq
    <3>2. \A i \in 1..(m - 1) : bytes[i] \in Printable
      BY <1>1, <3>1, ElementOfSeq
    <3>3. Len(less) = m - 1 /\ \A i \in 1..(m - 1) : less[i] = bytes[i]
      BY <3>1, <3>2, SubSeqProperties
    <3> QED
      BY <3>1, <3>3
  <2> QED
    BY <2>1, <2>2
<1> DEFINE places == [i \in 1..w |-> at[i]]
<1>4. /\ at \in [1..m -> 1..n]
      /\ \A i, j \in 1..m : i < j => at[i] < at[j]
      /\ \A k \in 1..n : StaysIn(s, k) <=> \E i \in 1..m : at[i] = k
      /\ \A i \in 1..m : bytes[i] = s[at[i]]
      /\ \A i \in 1..m : SurplusIn(s, at[i]) = m - i
  BY <1>1 DEF KeptIn
<1>5. \A k \in 1..n : /\ SurplusIn(s, k) \in Int
                      /\ SurplusIn(t, k) = SurplusIn(s, k) - 1
                      /\ StaysIn(t, k) <=> StaysIn(s, k) /\ SurplusIn(t, k) >= 0
  BY <1>0, <1>1, SurplusAppend
<1>6. ~StaysIn(t, n + 1)
  BY <1>0, <1>1, LastStays
<1>7. /\ places \in [1..w -> 1..(n + 1)]
      /\ \A i, j \in 1..w : i < j => places[i] < places[j]
  BY <1>2, <1>3, <1>4
<1>8. ASSUME NEW k \in 1..(n + 1)
      PROVE  StaysIn(t, k) <=> \E i \in 1..w : places[i] = k
  <2>1. CASE k = n + 1
    BY <1>2, <1>3, <1>4, <1>6, <2>1
  <2>2. CASE k \in 1..n
    <3>1. ASSUME NEW i \in 1..w, places[i] = k PROVE StaysIn(t, k)
      <4>1. i \in 1..m /\ at[i] = k /\ m - i >= 1
        BY <1>3, <3>1
      <4>2. StaysIn(s, k) /\ SurplusIn(t, k) = (m - i) - 1
        BY <1>4, <1>5, <2>2, <4>1
      <4> QED
        BY <1>3, <1>5, <2>2, <4>1, <4>2
    <3>2. ASSUME StaysIn(t, k) PROVE \E i \in 1..w : places[i] = k
      <4>1. StaysIn(s, k) /\ SurplusIn(t, k) >= 0
        BY <1>5, <2>2, <3>2
      <4>2. PICK i \in 1..m : at[i] = k
        BY <1>4, <2>2, <4>1
      <4>3. m - i - 1 >= 0
        BY <1>3, <1>4, <1>5, <2>2, <4>1, <4>2
      <4>4. i \in 1..w
        BY <1>3, <4>3
      <4> QED
        BY <4>2, <4>4
    <3> QED
      BY <3>1, <3>2
  <2> QED
    BY <1>2, <2>1, <2>2
<1>9. \A i \in 1..w : less[i] = t[places[i]] /\ SurplusIn(t, places[i]) = w - i
  <2> TAKE i \in 1..w
  <2>1. i \in 1..m /\ places[i] = at[i] /\ w = m - 1 /\ at[i] \in 1..n
    BY <1>3, <1>4
  <2>2. SurplusIn(t, at[i]) = (m - i) - 1
    BY <1>4, <1>5, <2>1
  <2>3. SurplusIn(t, places[i]) = w - i
    BY <1>3, <2>1, <2>2
  <2>4. less[i] = bytes[i] /\ bytes[i] = s[at[i]]
    BY <1>3, <1>4, <2>1
  <2>5. t[places[i]] = s[at[i]]
    BY <1>2, <2>1
  <2> QED
    BY <2>3, <2>4, <2>5
<1> HIDE DEF places
<1>10. KeptIn(t, less, places)
  BY <1>2, <1>3, <1>7, <1>8, <1>9 DEF KeptIn
<1> QED
  BY <1>1, <1>10

(* What is kept in this sense is what PasswordIsEntered asks for.           *)
LEMMA KeptIsKept ==
  ASSUME input \in Seq(Typed), NEW bytes \in Seq(Printable), NEW at, KeptIn(input, bytes, at)
  PROVE  AreKept(bytes)
<1>1. DOMAIN bytes = 1..Len(bytes) /\ DOMAIN input = 1..Len(input)
  BY LenProperties
<1>2. \A k : Stays(k) <=> StaysIn(input, k)
  BY DEF Stays, StaysIn, Count, CountIn
<1>3. /\ at \in [DOMAIN bytes -> DOMAIN input]
      /\ \A i, j \in DOMAIN bytes : i < j => at[i] < at[j]
      /\ \A i \in DOMAIN bytes : bytes[i] = input[at[i]]
  BY <1>1 DEF KeptIn
<1>4. \A k \in DOMAIN input : Stays(k) <=> \E i \in DOMAIN bytes : at[i] = k
  BY <1>1, <1>2 DEF KeptIn
<1>5. {at[i] : i \in DOMAIN bytes} = {k \in DOMAIN input : Stays(k)}
  BY <1>3, <1>4
<1> QED
  BY <1>3, <1>5 DEF AreKept

-----------------------------------------------------------------------------
(* The line that is sent to standard input                                 *)

FirstLineIn(s, line) ==
    \E n \in 0..Len(s) :
        /\ n = Len(s) \/ s[n + 1] = "newline"
        /\ \A i \in 1..n : s[i] # "newline"
        /\ line = WithoutLast(SubSeq(s, 1, n), "return")

LEMMA FirstLineIsFirst == \A line : FirstLine(line) <=> FirstLineIn(input, line)
BY DEF FirstLine, FirstLineIn

\* The beginning of a sequence.
LEMMA BeginningOf ==
  ASSUME NEW S, NEW s \in Seq(S), NEW n \in 0..Len(s)
  PROVE  /\ SubSeq(s, 1, n) \in Seq(S) /\ Len(SubSeq(s, 1, n)) = n
         /\ \A i \in 1..n : SubSeq(s, 1, n)[i] = s[i]
<1>1. Len(s) \in Nat /\ n \in Nat
  BY LenProperties
<1>2. \A i \in 1..n : s[i] \in S
  BY <1>1, ElementOfSeq
<1>3. /\ SubSeq(s, 1, n) \in Seq(S)
      /\ Len(SubSeq(s, 1, n)) = IF 1 <= n THEN n - 1 + 1 ELSE 0
      /\ \A i \in 1..(n - 1 + 1) : SubSeq(s, 1, n)[i] = s[1 + i - 1]
  BY <1>1, <1>2, SubSeqProperties
<1> QED
  BY <1>1, <1>3

LEMMA BeginningOfBeginning ==
  ASSUME NEW S, NEW s \in Seq(S), NEW n \in 0..Len(s), NEW m \in 0..n
  PROVE  SubSeq(SubSeq(s, 1, n), 1, m) = SubSeq(s, 1, m)
<1>1. PICK p : p = SubSeq(s, 1, n)
  OBVIOUS
<1>2. Len(s) \in Nat /\ n \in Nat /\ m \in 0..Len(s)
  BY LenProperties
<1>3. p \in Seq(S) /\ Len(p) = n /\ \A i \in 1..n : p[i] = s[i]
  BY <1>1, BeginningOf
<1>4. /\ SubSeq(p, 1, m) \in Seq(S) /\ Len(SubSeq(p, 1, m)) = m
      /\ \A i \in 1..m : SubSeq(p, 1, m)[i] = p[i]
  BY <1>3, BeginningOf
<1>5. /\ SubSeq(s, 1, m) \in Seq(S) /\ Len(SubSeq(s, 1, m)) = m
      /\ \A i \in 1..m : SubSeq(s, 1, m)[i] = s[i]
  BY <1>2, BeginningOf
<1>6. \A i \in 1..m : SubSeq(p, 1, m)[i] = SubSeq(s, 1, m)[i]
  BY <1>2, <1>3, <1>4, <1>5
<1>7. SubSeq(p, 1, m) = SubSeq(s, 1, m)
  BY <1>4, <1>5, <1>6, SeqEqual
<1> QED
  BY <1>1, <1>7

\* What is received, if it is not too long, is the first line, whole.
LEMMA ReceivedLine ==
  ASSUME NEW s \in Lines, Len(Received(s)) <= MaxPasswordBytes
  PROVE  FirstLineIn(s, WithoutLast(WithoutLast(Received(s), "newline"), "return"))
<1> DEFINE B == Printable \cup LineEnd
<1>1. s \in Seq(B) /\ Len(s) \in Nat /\ MaxPasswordBytes \in Nat
  BY EntryAssumption DEF Lines
<1> HIDE DEF B
<1>2. PICK k : k = IF Len(s) < MaxPasswordBytes + 1 THEN Len(s) ELSE MaxPasswordBytes + 1
  OBVIOUS
<1>3. k \in 0..Len(s)
  BY <1>1, <1>2
<1>4. PICK p : p = SubSeq(s, 1, k)
  OBVIOUS
<1>5. p \in Seq(B) /\ Len(p) = k /\ (\A i \in 1..k : p[i] = s[i]) /\ DOMAIN p = 1..k
  <2>1. p \in Seq(B) /\ Len(p) = k /\ \A i \in 1..k : p[i] = s[i]
    BY <1>1, <1>3, <1>4, BeginningOf
  <2> QED
    BY <2>1, LenProperties
<1>6. Received(s) = UpToNewline(p)
  BY <1>2, <1>4 DEF Received, Prefix
<1> DEFINE ends == {i \in DOMAIN p : p[i] = "newline"}
<1>7. CASE ends = {}
  <2>1. Received(s) = p
    BY <1>6, <1>7 DEF UpToNewline
  <2>2. k = Len(s)
    BY <1>1, <1>2, <1>5, <2>1
  <2>3. p = s
    BY <1>1, <1>4, <2>2, SubSeqFull
  <2>4. \A i \in 1..Len(s) : s[i] # "newline"
    BY <1>5, <1>7, <2>2, <2>3
  <2>5. WithoutLast(s, "newline") = s
    <3>1. s # <<>> => Len(s) \in 1..Len(s)
      BY <1>1, EmptySeq
    <3> QED
      BY <2>4, <3>1 DEF WithoutLast
  <2>6. SubSeq(s, 1, Len(s)) = s
    BY <1>1, SubSeqFull
  <2>7. Len(s) \in 0..Len(s)
    BY <1>1
  <2> QED
    BY <2>1, <2>3, <2>4, <2>5, <2>6, <2>7 DEF FirstLineIn
<1>8. CASE ends # {}
  <2>1. PICK e : e = CHOOSE i \in ends : \A j \in ends : i <= j
    OBVIOUS
  <2>2. e \in ends /\ \A j \in ends : e <= j
    <3>1. ends \subseteq Nat
      BY <1>5
    <3>2. \E i \in ends : \A j \in ends : i <= j
      <4> HIDE DEF ends
      <4> QED
        BY <1>8, <3>1, LeastElement
    <3> QED
      BY <2>1, <3>2
  <2>3. e \in 1..k /\ s[e] = "newline" /\ k \in Nat /\ e \in Nat
    BY <1>1, <1>3, <1>5, <2>2
  <2>4. Received(s) = Prefix(p, e)
    BY <1>6, <1>8, <2>1 DEF UpToNewline
  <2>5. Prefix(p, e) = SubSeq(p, 1, e)
    BY <1>5, <2>3 DEF Prefix
  <2>6. SubSeq(p, 1, e) = SubSeq(s, 1, e)
    <3>1. e \in 0..k
      BY <2>3
    <3> QED
      BY <1>1, <1>3, <1>4, <3>1, BeginningOfBeginning
  <2>7. PICK v : v = SubSeq(s, 1, e)
    OBVIOUS
  <2>8. e \in 0..Len(s) /\ e - 1 \in 0..e /\ e - 1 \in 0..Len(s)
    BY <1>3, <1>1, <2>3
  <2>9. v \in Seq(B) /\ Len(v) = e /\ v[e] = "newline"
    <3>1. v \in Seq(B) /\ Len(v) = e /\ \A i \in 1..e : v[i] = s[i]
      BY <1>1, <2>7, <2>8, BeginningOf
    <3> QED
      BY <2>3, <3>1
  <2>10. WithoutLast(v, "newline") = SubSeq(v, 1, e - 1)
    <3>1. v # <<>>
      BY <2>3, <2>9, EmptySeq
    <3> QED
      BY <2>9, <3>1 DEF WithoutLast
  <2>11. SubSeq(v, 1, e - 1) = SubSeq(s, 1, e - 1)
    BY <1>1, <2>7, <2>8, BeginningOfBeginning
  <2>12. \A i \in 1..(e - 1) : s[i] # "newline"
    <3> SUFFICES ASSUME NEW i \in 1..(e - 1), s[i] = "newline" PROVE FALSE
      OBVIOUS
    <3>1. i \in 1..k /\ i < e
      BY <2>3
    <3>2. i \in ends
      BY <1>5, <3>1
    <3> QED
      BY <2>2, <2>3, <3>1, <3>2
  <2>13. s[(e - 1) + 1] = "newline"
    BY <2>3
  <2>14. WithoutLast(Received(s), "newline") = SubSeq(s, 1, e - 1)
    BY <2>4, <2>5, <2>6, <2>7, <2>10, <2>11
  <2> QED
    BY <2>8, <2>12, <2>13, <2>14 DEF FirstLineIn
<1> QED
  BY <1>7, <1>8

LEMMA ReceivedType ==
  ASSUME NEW s \in Lines
  PROVE  Len(Received(s)) \in Nat
<1>1. s \in Seq(Printable \cup LineEnd) /\ Len(s) \in Nat /\ MaxPasswordBytes \in Nat
  BY EntryAssumption DEF Lines
<1>2. PICK p : p = Prefix(s, MaxPasswordBytes + 1)
  OBVIOUS
<1>3. p \in Seq(Printable \cup LineEnd) /\ Len(p) \in Nat
  <2>1. PICK k : k = IF Len(s) < MaxPasswordBytes + 1 THEN Len(s) ELSE MaxPasswordBytes + 1
    OBVIOUS
  <2>2. k \in 0..Len(s) /\ p = SubSeq(s, 1, k)
    BY <1>1, <1>2, <2>1 DEF Prefix
  <2>3. p \in Seq(Printable \cup LineEnd)
    BY <1>1, <2>2, BeginningOf
  <2> QED
    BY <2>3, LenProperties
<1> DEFINE ends == {i \in DOMAIN p : p[i] = "newline"}
<1>4. CASE ends = {}
  BY <1>2, <1>3, <1>4 DEF Received, UpToNewline
<1>5. CASE ends # {}
  <2>1. PICK e : e = CHOOSE i \in ends : \A j \in ends : i <= j
    OBVIOUS
  <2>2. DOMAIN p = 1..Len(p)
    BY <1>3, LenProperties
  <2>3. e \in ends
    <3>1. ends \subseteq Nat
      BY <1>3, <2>2
    <3>2. \E i \in ends : \A j \in ends : i <= j
      <4> HIDE DEF ends
      <4> QED
        BY <1>5, <3>1, LeastElement
    <3> QED
      BY <2>1, <3>2
  <2>4. e \in 1..Len(p)
    BY <2>2, <2>3
  <2>5. Received(s) = SubSeq(p, 1, e)
    <3>1. Received(s) = Prefix(p, e)
      BY <1>2, <1>5, <2>1 DEF Received, UpToNewline
    <3>2. Prefix(p, e) = SubSeq(p, 1, e)
      BY <1>3, <2>4 DEF Prefix
    <3> QED
      BY <3>1, <3>2
  <2>6. e \in 0..Len(p)
    BY <1>3, <2>4
  <2>7. Len(SubSeq(p, 1, e)) = e
    BY <1>3, <2>6, BeginningOf
  <2> QED
    BY <1>3, <2>4, <2>5, <2>7
<1> QED
  BY <1>4, <1>5

-----------------------------------------------------------------------------
(* The invariant of the entry, in parts.                                   *)

\* A password is only asked for where none is given, in one way; and what one
\* gives is chosen once.
SourceInv ==
    /\ flags.password \in {"none", "file", "flag"}
    /\ entry = "stdin" =>
           ~flags.saml /\ flags.username /\ flags.password # "flag" /\ flags.stdin
    /\ entry \in {"makeraw", "reading", "restore", "restore-error"} =>
           ~flags.saml /\ flags.username /\ flags.password = "none" /\ ~flags.stdin /\ isTerminal
    /\ entry = "saml" =>
           ~flags.ipsec /\ ~flags.username /\ flags.password = "none" /\ ~flags.stdin
    /\ entry = "password" => (flags.ipsec => flags.psk)

\* Of what is typed, the password holds what is kept.
TypedInv ==
    /\ entry \in {"flags", "makeraw"} => input = <<>> /\ password = <<>>
    /\ entry \in {"reading", "restore"} =>
           /\ input \in Seq(Typed) /\ password \in Seq(Printable)
           /\ \E at \in [1..Len(password) -> 1..Len(input)] : KeptIn(input, password, at)
    /\ entry = "restore" => password # <<>>

\* What was entered, by each of the ways there are.
EnteredInv ==
    entry \in {"entered", "password"} =>
        /\ ~flags.saml /\ flags.username /\ password # <<>>
        /\ \/ flags.password = "flag" /\ ~flags.stdin /\ password = Given
           \/ flags.password = "file" /\ ~flags.stdin /\ password = Configured
           \/ flags.password # "flag" /\ flags.stdin /\ FirstLine(password)
           \/ flags.password = "none" /\ ~flags.stdin /\ isTerminal /\ AreKept(password)

TerminalInv ==
    entry \in {"flags", "stdin", "makeraw", "entered", "saml", "password", "error"} =>
        terminal = "cooked"

EntryInv == SourceInv /\ TypedInv /\ EnteredInv /\ TerminalInv

LEMMA GivenIsSome == Given # <<>> /\ Configured # <<>>
BY DEF Given, Configured

\* What of flags and file gives a password, and when it is asked for.
LEMMA GivenPasswordCases ==
  /\ flags.password = "flag" => GivenPassword = Given
  /\ flags.password = "file" /\ ~flags.stdin => GivenPassword = Configured
  /\ flags.password = "file" /\ flags.stdin => GivenPassword = <<>>
  /\ flags.password = "none" => GivenPassword = <<>>
BY Zenon DEF GivenPassword

LEMMA ChosenSourceCases ==
  /\ ~flags.username => ChosenSource = "error"
  /\ flags.username /\ GivenPassword # <<>> /\ flags.stdin => ChosenSource = "error"
  /\ flags.username /\ GivenPassword # <<>> /\ ~flags.stdin => ChosenSource = "entered"
  /\ flags.username /\ GivenPassword = <<>> /\ flags.stdin => ChosenSource = "stdin"
  /\ flags.username /\ GivenPassword = <<>> /\ ~flags.stdin =>
         ChosenSource = IF isTerminal THEN "makeraw" ELSE "error"
BY Zenon DEF ChosenSource

\* Where Choose leads to, and from what.
LEMMA ChooseCases ==
  ASSUME SourceInv, Choose
  PROVE  \/ entry' = "error"
         \/ entry' = "saml" /\ SamlAllowed /\ flags.password = "none"
         \/ /\ entry' = "stdin" /\ ~flags.saml /\ flags.username
            /\ flags.stdin /\ flags.password # "flag"
         \/ /\ entry' = "makeraw" /\ ~flags.saml /\ flags.username
            /\ ~flags.stdin /\ flags.password = "none" /\ isTerminal
         \/ /\ entry' = "entered" /\ ~flags.saml /\ flags.username /\ ~flags.stdin
            /\ \/ flags.password = "flag" /\ password' = Given
               \/ flags.password = "file" /\ password' = Configured
<1>1. flags.password \in {"none", "file", "flag"}
  BY DEF SourceInv
<1>2. /\ entry' = IF flags.saml THEN IF SamlAllowed THEN "saml" ELSE "error" ELSE ChosenSource
      /\ password' = IF entry' = "entered" THEN GivenPassword ELSE <<>>
  BY DEF Choose
<1>3. CASE flags.saml
  <2>1. (entry' = "saml" /\ SamlAllowed) \/ entry' = "error"
    BY <1>2, <1>3
  <2>2. SamlAllowed => flags.password = "none"
    BY <1>1, GivenIsSome, GivenPasswordCases DEF SamlAllowed
  <2> QED
    BY <2>1, <2>2
<1>4. CASE ~flags.saml
  <2>1. entry' = ChosenSource
    BY <1>2, <1>4
  <2> QED
    BY <1>1, <1>2, <1>4, <2>1, GivenIsSome, GivenPasswordCases, ChosenSourceCases
<1> QED
  BY <1>3, <1>4

-----------------------------------------------------------------------------
(* Every step of the entry preserves it                                    *)

LEMMA SourceNext ==
  ASSUME SourceInv, [EntryNext]_entryVars
  PROVE  SourceInv'
<1> USE DEF SourceInv, entryVars
<1>1. CASE Choose
  <2>1. UNCHANGED <<flags, isTerminal>>
    BY <1>1 DEF Choose
  <2> QED
    BY <1>1, <2>1, ChooseCases DEF SamlAllowed
<1>2. CASE CredentialsRefused \/ Proceed \/ MakeRaw
  BY <1>2 DEF CredentialsRefused, Proceed, MakeRaw
<1>3. CASE ReadEnds \/ Restore \/ Killed
  BY <1>3 DEF ReadEnds, Restore, Killed
<1>4. ASSUME NEW key, NEW end, Read(key, end), end \in {"reading", "restore", "restore-error"}
      PROVE  SourceInv'
  BY <1>4 DEF Read
<1>5. CASE Erase
  BY <1>4, <1>5 DEF Erase
<1>6. ASSUME NEW key \in Typed, ReadByte(key) \/ Enter(key) \/ Control(key)
      PROVE  SourceInv'
  BY <1>4, <1>6 DEF ReadByte, Enter, Control
<1>7. CASE ReadPasswordFails
  BY <1>7 DEF ReadPasswordFails
<1>8. ASSUME NEW bytes \in Lines, ReadPassword(bytes) PROVE SourceInv'
  <2>1. entry' \in {"error", "entered"} /\ UNCHANGED <<flags, isTerminal>>
    BY <1>8 DEF ReadPassword
  <2> QED
    BY <2>1
<1>9. CASE UNCHANGED entryVars
  BY <1>9
<1> QED
  BY <1>1, <1>2, <1>3, <1>5, <1>6, <1>7, <1>8, <1>9 DEF EntryNext

LEMMA TerminalNext ==
  ASSUME TerminalInv, [EntryNext]_entryVars
  PROVE  TerminalInv'
<1> USE DEF TerminalInv, entryVars
<1>1. CASE Choose
  BY <1>1 DEF Choose
<1>2. CASE CredentialsRefused \/ Proceed \/ MakeRaw
  BY <1>2 DEF CredentialsRefused, Proceed, MakeRaw
<1>3. CASE ReadEnds \/ Restore \/ Killed
  BY <1>3 DEF ReadEnds, Restore, Killed
<1>4. ASSUME NEW key, NEW end, Read(key, end), end \in {"reading", "restore", "restore-error"}
      PROVE  TerminalInv'
  BY <1>4 DEF Read
<1>5. CASE Erase
  BY <1>4, <1>5 DEF Erase
<1>6. ASSUME NEW key \in Typed, ReadByte(key) \/ Enter(key) \/ Control(key)
      PROVE  TerminalInv'
  BY <1>4, <1>6 DEF ReadByte, Enter, Control
<1>7. CASE ReadPasswordFails
  BY <1>7 DEF ReadPasswordFails
<1>8. ASSUME NEW bytes \in Lines, ReadPassword(bytes) PROVE TerminalInv'
  BY <1>8 DEF ReadPassword
<1>9. CASE UNCHANGED entryVars
  BY <1>9
<1> QED
  BY <1>1, <1>2, <1>3, <1>5, <1>6, <1>7, <1>8, <1>9 DEF EntryNext

LEMMA TypedNext ==
  ASSUME SourceInv, TypedInv, [EntryNext]_entryVars
  PROVE  TypedInv'
<1> USE DEF entryVars
\* Nothing to say of what was typed.
<1>0. ASSUME entry' \in {"error", "saml", "stdin", "restore-error", "unrestored", "killed",
                         "entered", "password"}
      PROVE  TypedInv'
  BY <1>0 DEF TypedInv
<1>1. CASE Choose
  <2>1. /\ entry = "flags" /\ UNCHANGED input
        /\ password' = IF entry' = "entered" THEN GivenPassword ELSE <<>>
    BY <1>1 DEF Choose
  <2>2. entry' \in {"error", "saml", "stdin", "makeraw", "entered"}
    BY <1>1, ChooseCases
  <2>3. input = <<>>
    BY <2>1 DEF TypedInv
  <2> QED
    BY <2>1, <2>2, <2>3 DEF TypedInv
<1>2. CASE CredentialsRefused \/ Proceed
  BY <1>0, <1>2 DEF CredentialsRefused, Proceed
<1>3. CASE MakeRaw
  <2>1. entry = "makeraw" /\ UNCHANGED <<input, password>> /\ entry' \in {"reading", "error"}
    BY <1>3 DEF MakeRaw
  <2>2. input = <<>> /\ password = <<>>
    BY <2>1 DEF TypedInv
  <2>3. /\ <<>> \in Seq(Typed) /\ <<>> \in Seq(Printable) /\ Len(<<>>) = 0
    BY EmptySeq
  <2>4. \E at \in [1..0 -> 1..0] : KeptIn(<<>>, <<>>, at)
    <3> DEFINE at == [i \in 1..0 |-> i]
    <3>1. at \in [1..0 -> 1..0]
      OBVIOUS
    <3>2. KeptIn(<<>>, <<>>, at)
      BY <2>3, <3>1 DEF KeptIn
    <3> QED
      BY <3>1, <3>2
  <2> QED
    BY <1>0, <2>1, <2>2, <2>3, <2>4 DEF TypedInv
<1>4. CASE ReadEnds \/ Restore \/ Killed
  BY <1>0, <1>4 DEF ReadEnds, Restore, Killed
\* One more byte, or key.
<1>5. ASSUME NEW key \in Typed, NEW end, end \in {"reading", "restore"}, Read(key, end),
             password' \in Seq(Printable), end = "restore" => password' # <<>>,
             \E places : KeptIn(Append(input, key), password', places)
      PROVE  TypedInv'
  <2>1. entry = "reading" /\ entry' = end /\ input' = Append(input, key)
    BY <1>5 DEF Read
  <2>2. input \in Seq(Typed)
    BY <2>1 DEF TypedInv
  <2>3. input' \in Seq(Typed)
    BY <2>1, <2>2, AppendProperties
  <2>4. \E at \in [1..Len(password') -> 1..Len(input')] : KeptIn(input', password', at)
    <3>1. PICK places : KeptIn(Append(input, key), password', places)
      BY <1>5
    <3>2. places \in [1..Len(password') -> 1..Len(input')]
      BY <2>1, <3>1 DEF KeptIn
    <3> QED
      BY <2>1, <3>1, <3>2
  <2> QED
    BY <1>5, <2>1, <2>3, <2>4 DEF TypedInv
<1>6. ASSUME entry = "reading"
      PROVE  /\ input \in Seq(Typed) /\ password \in Seq(Printable) /\ Len(password) \in Nat
             /\ \E at : KeptIn(input, password, at)
  BY <1>6, LenProperties DEF TypedInv
<1>7. CASE Erase
  <2>1. /\ Read("erase", "reading") /\ entry = "reading"
        /\ password' = IF password = <<>> THEN <<>> ELSE SubSeq(password, 1, Len(password) - 1)
    BY <1>7 DEF Erase, Read
  <2>2. PICK at : KeptIn(input, password, at)
    BY <1>6, <2>1
  <2>3. \E places : KeptIn(Append(input, "erase"), password', places)
    BY <1>6, <2>1, <2>2, EraseKept
  <2>4. password' \in Seq(Printable)
    <3>1. CASE password = <<>>
      BY <1>6, <2>1, <3>1
    <3>2. CASE password # <<>>
      <4>1. Len(password) - 1 \in 0..Len(password)
        BY <1>6, <2>1, <3>2, EmptySeq
      <4> QED
        BY <1>6, <2>1, <3>2, <4>1, BeginningOf
    <3> QED
      BY <3>1, <3>2
  <2> QED
    BY <1>5, <2>1, <2>3, <2>4 DEF Typed
<1>8. ASSUME NEW key \in Typed, ReadByte(key) PROVE TypedInv'
  <2>1. CASE /\ key \in Printable /\ Read(key, "reading")
             /\ password' = Append(password, key)
    <3>1. entry = "reading"
      BY <2>1 DEF Read
    <3>2. PICK at : KeptIn(input, password, at)
      BY <1>6, <3>1
    <3>3. \E places : KeptIn(Append(input, key), password', places)
      BY <1>6, <2>1, <3>1, <3>2, PrintableKept
    <3>4. password' \in Seq(Printable)
      BY <1>6, <2>1, <3>1, AppendProperties
    <3> QED
      BY <1>5, <2>1, <3>3, <3>4
  <2>2. CASE Read(key, "restore-error")
    BY <1>0, <2>2 DEF Read
  <2> QED
    BY <1>8, <2>1, <2>2 DEF ReadByte
<1>9. ASSUME NEW key \in Typed, Enter(key) \/ Control(key) PROVE TypedInv'
  <2>1. PICK end : /\ Read(key, end) /\ UNCHANGED password
                   /\ end \in {"reading", "restore", "restore-error"}
                   /\ end = "restore" => password # <<>>
    BY <1>9 DEF Enter, Control
  <2>2. key \notin Printable /\ key # "erase"
    BY <1>9 DEF Enter, Control, LineEnd, Printable
  <2>3. CASE end = "restore-error"
    BY <1>0, <2>1, <2>3 DEF Read
  <2>4. CASE end \in {"reading", "restore"}
    <3>1. entry = "reading"
      BY <2>1 DEF Read
    <3>2. PICK at : KeptIn(input, password, at)
      BY <1>6, <3>1
    <3>3. KeptIn(Append(input, key), password, at)
      BY <1>6, <2>2, <3>1, <3>2, ControlKept
    <3> QED
      BY <1>5, <1>6, <2>1, <2>4, <3>1, <3>3
  <2> QED
    BY <2>1, <2>3, <2>4
<1>10. CASE ReadPasswordFails
  BY <1>0, <1>10 DEF ReadPasswordFails
<1>11. ASSUME NEW bytes \in Lines, ReadPassword(bytes) PROVE TypedInv'
  BY <1>0, <1>11 DEF ReadPassword
<1>12. CASE UNCHANGED entryVars
  BY <1>12 DEF TypedInv
<1> QED
  BY <1>1, <1>2, <1>3, <1>4, <1>7, <1>8, <1>9, <1>10, <1>11, <1>12 DEF EntryNext

LEMMA EnteredNext ==
  ASSUME SourceInv, TypedInv, EnteredInv, [EntryNext]_entryVars
  PROVE  EnteredInv'
<1> USE DEF entryVars
<1>0. ASSUME entry' \notin {"entered", "password"} PROVE EnteredInv'
  BY <1>0 DEF EnteredInv
\* Nothing is entered, or what was entered is what is used.
<1>1. ASSUME UNCHANGED <<flags, isTerminal, input, password>>,
             entry' \in {"entered", "password"} => entry \in {"entered", "password"}
      PROVE  EnteredInv'
  <2>1. FirstLine(password)' <=> FirstLine(password)
    BY <1>1 DEF FirstLine
  <2>2. AreKept(password)' <=> AreKept(password)
    BY <1>1 DEF AreKept, Stays, Count
  <2> QED
    BY <1>1, <2>1, <2>2 DEF EnteredInv
<1>2. CASE Choose
  <2>1. UNCHANGED <<flags, isTerminal>>
    BY <1>2 DEF Choose
  <2> QED
    BY <1>2, <2>1, ChooseCases, GivenIsSome DEF EnteredInv
<1>3. CASE CredentialsRefused \/ Proceed \/ MakeRaw
  BY <1>1, <1>3 DEF CredentialsRefused, Proceed, MakeRaw
<1>4. CASE ReadEnds \/ Killed
  BY <1>0, <1>4 DEF ReadEnds, Killed
<1>5. ASSUME NEW key, NEW end, Read(key, end), end \in {"reading", "restore", "restore-error"}
      PROVE  EnteredInv'
  BY <1>0, <1>5 DEF Read
<1>6. CASE Erase
  BY <1>5, <1>6 DEF Erase
<1>7. ASSUME NEW key \in Typed, ReadByte(key) \/ Enter(key) \/ Control(key)
      PROVE  EnteredInv'
  BY <1>5, <1>7 DEF ReadByte, Enter, Control
<1>8. CASE Restore
  <2>1. CASE entry = "restore" /\ entry' = "entered"
    <3>1. UNCHANGED <<flags, isTerminal, input, password>>
      BY <1>8 DEF Restore
    <3>2. /\ ~flags.saml /\ flags.username /\ flags.password = "none" /\ ~flags.stdin
          /\ isTerminal
      BY <2>1 DEF SourceInv
    <3>3. /\ password # <<>> /\ input \in Seq(Typed) /\ password \in Seq(Printable)
          /\ \E at : KeptIn(input, password, at)
      BY <2>1 DEF TypedInv
    <3>4. AreKept(password)
      BY <3>3, KeptIsKept
    <3>5. AreKept(password)'
      BY <3>1, <3>4 DEF AreKept, Stays, Count
    <3> QED
      BY <2>1, <3>1, <3>2, <3>3, <3>5 DEF EnteredInv
  <2>2. CASE ~(entry = "restore" /\ entry' = "entered")
    BY <1>0, <1>8, <2>2 DEF Restore
  <2> QED
    BY <2>1, <2>2
<1>9. CASE ReadPasswordFails
  BY <1>0, <1>9 DEF ReadPasswordFails
<1>10. ASSUME NEW bytes \in Lines, ReadPassword(bytes) PROVE EnteredInv'
  <2>1. PICK value, line :
            /\ value = Received(bytes)
            /\ line = WithoutLast(WithoutLast(value, "newline"), "return")
    OBVIOUS
  <2>2. /\ entry = "stdin" /\ input' = bytes /\ UNCHANGED <<flags, isTerminal>>
        /\ \/ entry' = "error"
           \/ /\ ~(Len(value) > MaxPasswordBytes) /\ line # <<>>
              /\ entry' = "entered" /\ password' = line
    BY <1>10, <2>1 DEF ReadPassword
  <2>3. CASE entry' = "error"
    BY <1>0, <2>3
  <2>4. CASE entry' = "entered"
    <3>1. ~flags.saml /\ flags.username /\ flags.password # "flag" /\ flags.stdin
      BY <2>2 DEF SourceInv
    <3>2. Len(value) <= MaxPasswordBytes
      <4>1. Len(value) \in Nat
        BY <2>1, ReceivedType
      <4> QED
        BY <2>2, <2>4, <4>1, EntryAssumption
    <3>3. FirstLineIn(bytes, line)
      BY <2>1, <3>2, ReceivedLine
    <3>4. FirstLine(password)'
      BY <2>2, <2>4, <3>3 DEF FirstLine, FirstLineIn
    <3> QED
      BY <2>2, <2>4, <3>1, <3>4 DEF EnteredInv
  <2> QED
    BY <2>2, <2>3, <2>4
<1>11. CASE UNCHANGED entryVars
  BY <1>1, <1>11
<1> QED
  BY <1>2, <1>3, <1>4, <1>6, <1>7, <1>8, <1>9, <1>10, <1>11 DEF EntryNext

-----------------------------------------------------------------------------
(* What every reachable state satisfies                                    *)

LEMMA EntryInvInit == EntryInit => EntryInv
<1> SUFFICES ASSUME EntryInit PROVE EntryInv
  OBVIOUS
<1>1. flags.password \in {"none", "file", "flag"}
  BY DEF EntryInit
<1>2. entry = "flags" /\ input = <<>> /\ password = <<>> /\ terminal = "cooked"
  BY DEF EntryInit
<1> QED
  BY <1>1, <1>2 DEF EntryInv, SourceInv, TypedInv, EnteredInv, TerminalInv

\* The other part of a command, SamlLogin, does not touch the entry.
LEMMA AuthEntryStep == [AuthNext]_authVars => [EntryNext]_entryVars
BY DEF AuthNext, authVars

LEMMA EntryInvariant == AuthSpec => []EntryInv
<1>1. AuthInit => EntryInv
  BY EntryInvInit DEF AuthInit
<1>2. EntryInv /\ [AuthNext]_authVars => EntryInv'
  BY AuthEntryStep, SourceNext, TypedNext, EnteredNext, TerminalNext DEF EntryInv
<1> QED
  BY <1>1, <1>2, PTL DEF AuthSpec

(* Whatever is typed or sent, of whatever length, what the gateway is sent  *)
(* is the whole of what was entered, less what was erased, and comes from   *)
(* one source; and the terminal is as it was, unless restoring it failed.   *)
THEOREM ThePasswordIsEntered == AuthSpec => []PasswordIsEntered
<1>1. EntryInv => PasswordIsEntered
  BY DEF EntryInv, SourceInv, EnteredInv, TerminalInv, PasswordIsEntered
<1> QED
  BY <1>1, EntryInvariant, PTL

=============================================================================
