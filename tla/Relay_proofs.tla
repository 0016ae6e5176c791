---------------------------- MODULE Relay_proofs ----------------------------
(***************************************************************************)
(* Theorems about Relay, for any payloads, any number of concurrent        *)
(* callers of Close, and any number of packets.                            *)
(***************************************************************************)
EXTENDS Relay, InductionLemmas, SequenceTheorems

-----------------------------------------------------------------------------
(* The invariant, in parts.                                                *)

\* What has been read was offered, and what is in hand can be written.
TakenInv ==
    /\ offered["out"] \in Seq(Datagrams)
    /\ Len(offered["out"]) + Len(offered["in"]) <= MaxInput
    /\ \A g \in Copiers :
           /\ taken[g] <= Len(offered[g])
           /\ at[g] = "write" => taken[g] > 0 /\ InHand(g) \in Datagrams
    /\ \A t \in Closers : at[t] \notin {"read", "write"}
    /\ \A g \in Copiers : at[g] # "wait"

\* Dial.  Before it has returned, nobody runs and fails; unless the function of
\* AfterFunc has run, the connection is open; a success stopped that function.
DialInv ==
    /\ dial # "open" =>
           /\ once = "new" /\ err = "unset" /\ ~done /\ udp = "none"
           /\ \A t \in Threads : at[t] = "off" /\ fail[t] = "out"
    /\ dial = "connect" => tcp = "none" /\ hook = "unset"
    /\ dial \in {"greet", "stop", "check", "udp"} =>
           tcp # "none" /\ (tcp = "open" \/ hook = "fired")
    /\ dial \in {"udp", "open"} => hook = "stopped"
    /\ dial = "failed" => tcp # "open"
    /\ dial = "open" => tcp # "none" /\ udp # "none"
    /\ dial = "open" /\ once = "new" => tcp = "open"

Inside == {"done", "tcp", "udp"}

\* Relay.fail: one thread at most is inside once.Do, and where it is says what
\* it has closed and recorded; after it, everything is closed.
FailInv ==
    /\ \A t \in Threads :
           /\ fail[t] \in Inside => once = "busy"
           /\ fail[t] = "done" => ~done
           /\ fail[t] \in {"tcp", "udp"} => done
           /\ fail[t] = "udp" => tcp = "closed"
           /\ fail[t] = "back" => once = "done"
           /\ fail[t] \in Inside \cup {"enter"} => at[t] = "fail"
           /\ at[t] \in {"wait", "ended"} => fail[t] = "back"
           /\ at[t] \in {"off", "read", "write"} => fail[t] = "out"
    /\ \A t, u \in Threads : fail[t] \in Inside /\ fail[u] \in Inside => t = u
    /\ once = "new" => ~done
    /\ once = "new" <=> err = "unset"
    /\ once = "done" => done /\ tcp = "closed" /\ udp = "closed"
    /\ err = "nil" => \E t \in Closers : at[t] # "off"
    /\ \A t \in Closers : at[t] = "ended" => \A g \in Copiers : at[g] = "ended"

-----------------------------------------------------------------------------
(* Type correctness, of the control variables and of the data apart.       *)

ControlTypeOK ==
    /\ ctx \in BOOLEAN
    /\ dial \in {"connect", "greet", "stop", "check", "udp", "failed", "open"}
    /\ hook \in {"unset", "armed", "running", "fired", "stopped"}
    /\ greeting \in {"none", "ok", "error"}
    /\ tcp \in {"none", "open", "closed"}
    /\ udp \in {"none", "open", "closed"}
    /\ fail \in [Threads -> {"out", "enter", "done", "tcp", "udp", "back"}]
    /\ once \in {"new", "busy", "done"}
    /\ err \in {"unset", "nil", "error"}
    /\ done \in BOOLEAN
    /\ at \in [Threads -> {"off", "read", "write", "fail", "wait", "ended"}]

DataTypeOK ==
    /\ offered \in [Copiers -> Seq(Records)]
    /\ taken \in [Copiers -> 0..MaxInput]
    /\ written \in [Copiers -> Seq(Datagrams)]

LEMMA TypeParts == RelayTypeOK <=> ControlTypeOK /\ DataTypeOK
  BY Zenon DEF RelayTypeOK, ControlTypeOK, DataTypeOK

LEMMA ControlTypeNext ==
  ASSUME ControlTypeOK, [RelayNext]_vars
  PROVE  ControlTypeOK'
<1> USE DEF ControlTypeOK
<1> Copiers \subseteq Threads /\ Closers \subseteq Threads
  BY DEF Threads
<1>1. CASE Expire \/ HookStarts \/ HookCloses
  BY <1>1 DEF Expire, HookStarts, HookCloses, dialling, failing
<1>2. CASE ConnectFails \/ Connects \/ Greet \/ Stop
  BY <1>2 DEF ConnectFails, Connects, Greet, Stop, failing
<1>3. CASE Rejected \/ Accepted \/ UdpFails
  BY <1>3 DEF Rejected, Accepted, UdpFails, GiveUp, failing
<1>4. CASE DialReturns
  BY <1>4 DEF DialReturns, failing
<1>5. ASSUME NEW t \in Threads, Fail(t) PROVE ControlTypeOK'
  BY <1>5 DEF Fail, EnterFail, CloseDone, CloseTcp, CloseUdp, FailStep, dialling
<1>6. ASSUME NEW t \in Threads, FailReturns(t) \/ CloseReturns(t)
      PROVE  ControlTypeOK'
  BY <1>6 DEF FailReturns, CloseReturns, dialling, failing
<1>7. ASSUME NEW t \in Threads, Close(t) PROVE ControlTypeOK'
  BY <1>7 DEF Close, CallFail, dialling
<1>8. ASSUME NEW g \in Copiers, Offer(g) \/ Skip(g) PROVE ControlTypeOK'
  <2>1. UNCHANGED <<dialling, tcp, udp, failing, at>>
    BY <1>8 DEF Offer, Skip
  <2> QED
    BY <2>1 DEF dialling, failing
<1>9. ASSUME NEW g \in Copiers, Malformed(g) \/ ReadFails(g) \/ WriteFails(g)
      PROVE  ControlTypeOK'
  BY <1>9 DEF Malformed, ReadFails, WriteFails, CallFail, dialling
<1>10. ASSUME NEW g \in Copiers, Read(g) \/ Write(g) PROVE ControlTypeOK'
  BY <1>10 DEF Read, Write, dialling, failing
<1>11. CASE UNCHANGED vars
  BY <1>11 DEF vars, dialling, failing
<1> QED
  BY <1>1, <1>2, <1>3, <1>4, <1>5, <1>6, <1>7, <1>8, <1>9, <1>10, <1>11
  DEF RelayNext, Dial, Copy

TypeInv == ControlTypeOK /\ DataTypeOK /\ TakenInv

LEMMA TypeInit == RelayInit => TypeInv
<1> SUFFICES ASSUME RelayInit PROVE TypeInv
  OBVIOUS
<1>1. ControlTypeOK
  BY DEF RelayInit, ControlTypeOK
<1>2. <<>> \in Seq(Records) /\ <<>> \in Seq(Datagrams) /\ Len(<<>>) = 0
  BY EmptySeq
<1>3. MaxInput \in Nat
  BY RelayAssumption
<1>4. DataTypeOK
  BY <1>2, <1>3 DEF RelayInit, DataTypeOK
<1>5. TakenInv
  <2>1. \A g \in Copiers : offered[g] = <<>> /\ taken[g] = 0
    BY DEF RelayInit
  <2>2. \A t \in Threads : at[t] \notin {"read", "write", "wait"}
    BY DEF RelayInit
  <2>3. /\ offered["out"] \in Seq(Datagrams)
        /\ Len(offered["out"]) + Len(offered["in"]) <= MaxInput
    <3>1. offered["out"] = <<>> /\ offered["in"] = <<>>
      BY <2>1 DEF Copiers
    <3>2. Len(offered["out"]) = 0 /\ Len(offered["in"]) = 0
      BY <1>2, <3>1
    <3> QED
      BY <1>2, <1>3, <3>1, <3>2
  <2>4. Copiers \subseteq Threads /\ Closers \subseteq Threads
    BY DEF Threads
  <2>5. \A g \in Copiers : taken[g] <= Len(offered[g])
    BY <1>2, <2>1
  <2> QED
    BY <2>2, <2>3, <2>4, <2>5 DEF TakenInv
<1> QED
  BY <1>1, <1>4, <1>5 DEF TypeInv

LEMMA DataNext ==
  ASSUME TypeInv, [RelayNext]_vars
  PROVE  DataTypeOK' /\ TakenInv'
<1> USE DEF TypeInv, ControlTypeOK, DataTypeOK, TakenInv, Copiers, InHand
<1>0. {"out", "in"} \cap Closers = {} /\ Threads = {"out", "in"} \cup Closers
  BY RelayAssumption DEF Threads
<1>1. CASE UNCHANGED <<at, data>>
  BY <1>1 DEF data
<1>2. CASE DialReturns
  BY <1>0, <1>2 DEF DialReturns, data
<1>3. ASSUME NEW t \in Threads, FailReturns(t) \/ CloseReturns(t) \/ Close(t)
      PROVE  DataTypeOK' /\ TakenInv'
  BY <1>0, <1>3 DEF FailReturns, CloseReturns, Close, CallFail, data
<1>4. ASSUME NEW g \in Copiers, ReadFails(g) \/ WriteFails(g)
      PROVE  DataTypeOK' /\ TakenInv'
  BY <1>0, <1>4 DEF ReadFails, WriteFails, CallFail, data
<1>5. ASSUME NEW g \in Copiers, Offer(g) PROVE DataTypeOK' /\ TakenInv'
  <2>1. PICK p \in IF g = "out" THEN Datagrams ELSE Records :
            offered' = [offered EXCEPT ![g] = Append(@, p)]
    BY <1>5 DEF Offer
  <2>2. /\ offered'[g] = Append(offered[g], p)
        /\ \A h \in Copiers \ {g} : offered'[h] = offered[h]
    BY <2>1
  <2>3. p \in Records
    BY DEF Datagrams, Records
  <2>4. /\ offered'[g] \in Seq(Records)
        /\ Len(offered'[g]) = Len(offered[g]) + 1
        /\ \A i \in 1..Len(offered[g]) : offered'[g][i] = offered[g][i]
    BY <2>2, <2>3, AppendProperties
  <2>5. offered' \in [Copiers -> Seq(Records)]
    BY <2>1, <2>3
  <2>6. UNCHANGED <<at, taken, written>>
        /\ Len(offered["out"]) + Len(offered["in"]) < MaxInput
    BY <1>5 DEF Offer
  <2>7. offered'["out"] \in Seq(Datagrams)
    BY <2>1, <2>2
  <2>8. Len(offered'["out"]) + Len(offered'["in"]) <= MaxInput
    <3>1. /\ MaxInput \in Nat /\ Len(offered["out"]) \in Nat
          /\ Len(offered["in"]) \in Nat
      BY RelayAssumption
    <3>2. Len(offered["out"]) + Len(offered["in"]) + 1 <= MaxInput
      BY <2>6, <3>1
    <3>3. CASE g = "out"
      <4>1. Len(offered'["out"]) = Len(offered["out"]) + 1
        BY <2>4, <3>3
      <4>2. Len(offered'["in"]) = Len(offered["in"])
        BY <2>2, <3>3
      <4> QED
        BY <3>1, <3>2, <4>1, <4>2
    <3>4. CASE g = "in"
      <4>1. Len(offered'["in"]) = Len(offered["in"]) + 1
        BY <2>4, <3>4
      <4>2. Len(offered'["out"]) = Len(offered["out"])
        BY <2>2, <3>4
      <4> QED
        BY <3>1, <3>2, <4>1, <4>2
    <3> QED
      BY <3>3, <3>4
  <2>9. ASSUME NEW h \in Copiers
        PROVE  /\ taken'[h] <= Len(offered'[h])
               /\ at'[h] = "write" =>
                      taken'[h] > 0 /\ offered'[h][taken'[h]] \in Datagrams
    <3>1. Len(offered[h]) \in Nat
      OBVIOUS
    <3>2. taken[h] \in Nat /\ taken[h] <= Len(offered[h])
      BY RelayAssumption
    <3>3. at[h] = "write" =>
              taken[h] > 0 /\ offered[h][taken[h]] \in Datagrams
      OBVIOUS
    <3>4. CASE h = g
      <4>1. /\ Len(offered'[h]) = Len(offered[h]) + 1
            /\ \A i \in 1..Len(offered[h]) : offered'[h][i] = offered[h][i]
        BY <2>4, <3>4
      <4> HIDE DEF TypeInv
      <4> QED
        BY <2>6, <3>1, <3>2, <3>3, <4>1
    <3>5. CASE h # g
      <4>1. offered'[h] = offered[h]
        BY <2>2, <3>5
      <4> HIDE DEF TypeInv
      <4> QED
        BY <2>6, <3>2, <3>3, <4>1
    <3> QED
      BY <3>4, <3>5
  <2> QED
    BY <2>5, <2>6, <2>7, <2>8, <2>9
<1>6. ASSUME NEW g \in Copiers, Available(g), Consume(g), UNCHANGED offered
      PROVE  /\ taken' \in [Copiers -> 0..MaxInput]
             /\ \A h \in Copiers : taken'[h] <= Len(offered'[h])
             /\ \A h \in Copiers \ {g} : taken'[h] = taken[h]
             /\ taken'[g] = taken[g] + 1
  <2>1. /\ MaxInput \in Nat /\ Len(offered["out"]) \in Nat
        /\ Len(offered["in"]) \in Nat
    BY RelayAssumption
  <2>2. taken[g] \in Nat /\ taken[g] < Len(offered[g])
    BY <1>6 DEF Available
  <2>3. taken[g] + 1 \in 0..MaxInput
    BY <2>1, <2>2
  <2> QED
    BY <1>6, <2>2, <2>3 DEF Consume
<1>7. ASSUME NEW g \in Copiers, Skip(g) PROVE DataTypeOK' /\ TakenInv'
  BY <1>6, <1>7 DEF Skip, Available
<1>8. ASSUME NEW g \in Copiers, Read(g) PROVE DataTypeOK' /\ TakenInv'
  <2>1. Available(g) /\ Consume(g) /\ UNCHANGED <<offered, written>>
        /\ at' = [at EXCEPT ![g] = "write"]
        /\ Next1(g) \notin {"malformed"}
    BY <1>8 DEF Read
  <2>2. taken[g] \in Nat /\ taken[g] + 1 \in 1..Len(offered[g])
    BY <2>1 DEF Available
  <2>3. Next1(g) \in Records
    BY <2>2, ElementOfSeq DEF Next1
  <2>4. Next1(g) \in Datagrams
    BY <2>1, <2>3 DEF Records, Datagrams
  <2>5. offered'[g][taken'[g]] \in Datagrams /\ taken'[g] > 0
    BY <1>6, <2>1, <2>2, <2>4 DEF Next1
  <2> QED
    BY <1>0, <1>6, <2>1, <2>5
<1>9. ASSUME NEW g \in Copiers, Malformed(g) PROVE DataTypeOK' /\ TakenInv'
  BY <1>0, <1>6, <1>9 DEF Malformed, CallFail
<1>10. ASSUME NEW g \in Copiers, Write(g) PROVE DataTypeOK' /\ TakenInv'
  <2>1. UNCHANGED <<offered, taken>> /\ at' = [at EXCEPT ![g] = "read"]
        /\ written' = [written EXCEPT ![g] = Append(@, InHand(g))]
        /\ InHand(g) \in Datagrams
    BY <1>10 DEF Write
  <2>2. written' \in [Copiers -> Seq(Datagrams)]
    BY <2>1
  <2> QED
    BY <1>0, <2>1, <2>2
<1>11. CASE \/ Expire \/ HookStarts \/ HookCloses \/ ConnectFails \/ Connects
            \/ Greet \/ Stop \/ Rejected \/ Accepted \/ UdpFails
            \/ \E t \in Threads : Fail(t)
  <2>1. UNCHANGED <<at, data>>
    BY <1>11 DEF Expire, HookStarts, HookCloses, ConnectFails, Connects, Greet,
       Stop, Rejected, Accepted, UdpFails, GiveUp, Fail, EnterFail, CloseDone,
       CloseTcp, CloseUdp, FailStep
  <2> QED
    BY <1>1, <2>1
<1>12. CASE UNCHANGED vars
  BY <1>1, <1>12 DEF vars
<1> QED
  BY <1>2, <1>3, <1>4, <1>5, <1>7, <1>8, <1>9, <1>10, <1>11, <1>12
  DEF RelayNext, Dial, Copy

(* Every variable of the relay keeps its type; in particular no copier ever *)
(* looks past the packets that were offered to it.                          *)
THEOREM RelayTypeCorrect == RelaySpec => []RelayTypeOK
<1>1. RelayInit => TypeInv
  BY TypeInit
<1>2. TypeInv /\ [RelayNext]_vars => TypeInv'
  BY ControlTypeNext, DataNext DEF TypeInv
<1>3. TypeInv => RelayTypeOK
  BY TypeParts DEF TypeInv
<1> QED
  BY <1>1, <1>2, <1>3, PTL DEF RelaySpec

-----------------------------------------------------------------------------
(* Dial and Relay.fail *)

ControlInv == DialInv /\ FailInv

LEMMA ControlInit == RelayInit => ControlInv
<1> SUFFICES ASSUME RelayInit PROVE ControlInv
  OBVIOUS
<1>1. DialInv
  BY DEF RelayInit, DialInv
<1>2. FailInv
  BY DEF RelayInit, FailInv, Inside, Threads
<1> QED
  BY <1>1, <1>2 DEF ControlInv

LEMMA ControlNext ==
  ASSUME ControlTypeOK, TakenInv, ControlInv, [RelayNext]_vars
  PROVE  ControlInv'
<1>0. /\ Threads = {"out", "in"} \cup Closers
      /\ "out" \notin Closers /\ "in" \notin Closers
  BY RelayAssumption DEF Threads, Copiers
<1>a. /\ \A t \in Closers : at[t] \notin {"read", "write"}
      /\ \A g \in Copiers : at[g] # "wait"
  BY DEF TakenInv
<1> USE <1>0, <1>a DEF ControlTypeOK, ControlInv, DialInv, FailInv, Inside, Copiers
<1> HIDE DEF TakenInv
<1>1. CASE UNCHANGED <<dial, hook, tcp, udp, failing, at>>
  BY <1>1 DEF failing
<1>2. CASE ConnectFails
  BY <1>2 DEF ConnectFails, failing
<1>3. CASE Connects
  BY <1>3 DEF Connects, failing
<1>4. CASE HookStarts
  BY <1>4 DEF HookStarts, failing
<1>5. CASE HookCloses
  BY <1>5 DEF HookCloses, failing
<1>6. CASE Greet \/ Stop
  BY <1>6 DEF Greet, Stop, failing
<1>7. CASE Rejected \/ UdpFails
  BY <1>7 DEF Rejected, UdpFails, GiveUp, failing
<1>8. CASE Accepted
  BY <1>8 DEF Accepted, Established, failing
<1>9. CASE DialReturns
  BY <1>9 DEF DialReturns, failing
<1>10. ASSUME NEW t \in Threads, EnterFail(t) PROVE ControlInv'
  BY <1>10 DEF EnterFail, FailStep, dialling
<1>11. ASSUME NEW t \in Threads, CloseDone(t) PROVE ControlInv'
  BY <1>11 DEF CloseDone, FailStep, dialling
<1>12. ASSUME NEW t \in Threads, CloseTcp(t) PROVE ControlInv'
  BY <1>12 DEF CloseTcp, FailStep, dialling
<1>13. ASSUME NEW t \in Threads, CloseUdp(t) PROVE ControlInv'
  BY <1>13 DEF CloseUdp, FailStep, dialling
<1>14. ASSUME NEW t \in Threads, FailReturns(t) PROVE ControlInv'
  BY <1>14 DEF FailReturns, dialling, failing
<1>15. ASSUME NEW t \in Threads, CloseReturns(t) PROVE ControlInv'
  BY <1>15 DEF CloseReturns, dialling, failing
<1>16. ASSUME NEW t \in Threads, Close(t) PROVE ControlInv'
  BY <1>16 DEF Close, CallFail, dialling
<1>17. ASSUME NEW g \in Copiers, at[g] \in {"read", "write"}, CallFail(g)
       PROVE  ControlInv'
  BY <1>17 DEF CallFail, dialling
<1>18. ASSUME NEW g \in Copiers, at[g] \in {"read", "write"},
              NEW place \in {"read", "write"}, at' = [at EXCEPT ![g] = place],
              UNCHANGED <<dialling, tcp, udp, failing>>
       PROVE  ControlInv'
  BY <1>18 DEF dialling, failing
<1>19. ASSUME NEW g \in Copiers, Malformed(g) \/ ReadFails(g) \/ WriteFails(g)
       PROVE  ControlInv'
  BY <1>17, <1>19 DEF Malformed, ReadFails, WriteFails, Available
<1>20. ASSUME NEW g \in Copiers, Read(g) \/ Write(g) PROVE ControlInv'
  BY <1>18, <1>20 DEF Read, Write, Available
<1>21. ASSUME NEW g \in Copiers, Offer(g) \/ Skip(g) PROVE ControlInv'
  BY <1>1, <1>21 DEF Offer, Skip, dialling
<1>22. CASE Expire \/ UNCHANGED vars
  BY <1>1, <1>22 DEF Expire, vars, dialling
<1> QED
  BY <1>2, <1>3, <1>4, <1>5, <1>6, <1>7, <1>8, <1>9, <1>10, <1>11, <1>12,
     <1>13, <1>14, <1>15, <1>16, <1>19, <1>20, <1>21, <1>22
  DEF RelayNext, Dial, Fail, Copy

RelayInv == TypeInv /\ ControlInv

LEMMA RelayInvariant == RelaySpec => []RelayInv
<1>1. RelayInit => RelayInv
  BY TypeInit, ControlInit DEF RelayInv
<1>2. RelayInv /\ [RelayNext]_vars => RelayInv'
  BY ControlTypeNext, DataNext, ControlNext DEF RelayInv, TypeInv
<1> QED
  BY <1>1, <1>2, PTL DEF RelaySpec

(* A relay that Dial has returned is not closed by the context's function,  *)
(* and a Dial that failed leaves no socket.                                 *)
THEOREM DialIsSettled == RelaySpec => []DialSettles
<1>1. RelayInv => DialSettles
  BY DEF RelayInv, TypeInv, ControlTypeOK, ControlInv, DialInv, DialSettles
<1> QED
  BY <1>1, RelayInvariant, PTL

(* A Close that has returned has outlived both goroutines and both sockets, *)
(* and Err() is nil only after a Close.                                     *)
THEOREM CloseHasWaited == RelaySpec => []CloseWaits
<1>1. RelayInv => CloseWaits
  BY DEF RelayInv, TypeInv, ControlInv, FailInv, CloseWaits, Threads
<1> QED
  BY <1>1, RelayInvariant, PTL

-----------------------------------------------------------------------------
(* Refinement: the relay goes up, down and is gone as RelayContract says.   *)

LEMMA RelayStepIsContractStep ==
  ASSUME RelayInv, RelayInv', [RelayNext]_vars
  PROVE  [Contract!RelayContractNext]_(Contract!relayVars)
<1>0. /\ Threads = {"out", "in"} \cup Closers
      /\ "out" \notin Closers /\ "in" \notin Closers
  BY RelayAssumption DEF Threads, Copiers
<1> USE <1>0
    DEF RelayInv, TypeInv, ControlTypeOK, ControlInv, DialInv, FailInv, Inside,
        Copiers, Contract!relayVars
<1>1. CASE UNCHANGED <<dial, done, err>> /\ \A g \in Copiers : at'[g] = "ended" <=> at[g] = "ended"
  BY <1>1
<1>2. CASE dial # "open" /\ dial' # "open"
  BY <1>2
<1>3. CASE DialReturns
  BY <1>3
  DEF DialReturns, failing, Contract!RelayContractNext, Contract!Dialled
<1>4. ASSUME NEW t \in Threads, EnterFail(t)
      PROVE  [Contract!RelayContractNext]_(Contract!relayVars)
  BY <1>4 DEF EnterFail, FailStep, dialling
<1>5. ASSUME NEW t \in Threads, CloseDone(t)
      PROVE  [Contract!RelayContractNext]_(Contract!relayVars)
  <2>1. /\ dial = "open" /\ dial' = "open" /\ ~done /\ done'
        /\ err' = err /\ err \in {"nil", "error"}
        /\ \E g \in Copiers : at'[g] # "ended"
    BY <1>5 DEF CloseDone, FailStep, dialling
  <2> QED
    BY <2>1 DEF Contract!RelayContractNext, Contract!Breaks, Contract!Closes
<1>6. ASSUME NEW t \in Threads, CloseTcp(t) \/ CloseUdp(t)
      PROVE  [Contract!RelayContractNext]_(Contract!relayVars)
  BY <1>1, <1>6 DEF CloseTcp, CloseUdp, dialling
<1>7. ASSUME NEW t \in Threads, FailReturns(t)
      PROVE  [Contract!RelayContractNext]_(Contract!relayVars)
  <2>1. dial = "open" /\ done /\ UNCHANGED <<dial, done, err>>
    BY <1>7 DEF FailReturns, dialling, failing
  <2>2. at[t] = "fail" /\ \A g \in Copiers \ {t} : at'[g] = at[g]
    BY <1>7 DEF FailReturns
  <2> QED
    BY <2>1, <2>2 DEF Contract!RelayContractNext, Contract!Ends
<1>8. ASSUME NEW t \in Threads, CloseReturns(t) \/ Close(t)
      PROVE  [Contract!RelayContractNext]_(Contract!relayVars)
  BY <1>1, <1>8 DEF CloseReturns, Close, CallFail, dialling, failing
<1>9. ASSUME NEW g \in Copiers, Offer(g) \/ Copy(g)
      PROVE  [Contract!RelayContractNext]_(Contract!relayVars)
  <2>1. /\ UNCHANGED <<dial, done, err>>
        /\ \/ at' = at
           \/ at[g] \in {"read", "write"} /\ \E to \in {"read", "write", "fail"} :
                                                at' = [at EXCEPT ![g] = to]
    <3>1. CASE Offer(g) \/ Skip(g)
      BY <3>1 DEF Offer, Skip, dialling, failing
    <3>2. CASE Read(g) \/ Write(g)
      BY <3>2 DEF Read, Write, Available, dialling, failing
    <3>3. CASE Malformed(g) \/ ReadFails(g) \/ WriteFails(g)
      BY <3>3 DEF Malformed, ReadFails, WriteFails, CallFail, Available, dialling
    <3> QED
      BY <1>9, <3>1, <3>2, <3>3 DEF Copy
  <2> QED
    BY <1>1, <2>1
<1>10. CASE ConnectFails \/ Connects \/ Greet \/ Stop \/ Rejected \/ Accepted
            \/ UdpFails
  BY <1>2, <1>10 DEF ConnectFails, Connects, Greet, Stop, Rejected, Accepted,
     UdpFails, GiveUp
<1>11. CASE Expire \/ HookStarts \/ HookCloses \/ UNCHANGED vars
  BY <1>1, <1>11 DEF Expire, HookStarts, HookCloses, vars, dialling, failing
<1> QED
  BY <1>3, <1>4, <1>5, <1>6, <1>7, <1>8, <1>9, <1>10, <1>11
  DEF RelayNext, Dial, Fail

(* The relay behaves as the IPsec session assumes.                          *)
THEOREM RelayImplementsContract == RelaySpec => ImplementsRelayContract
<1>1. RelayInit => Contract!RelayContractInit
  BY DEF RelayInit, Contract!RelayContractInit
<1>2. RelayInv /\ RelayInv' /\ [RelayNext]_vars =>
          [Contract!RelayContractNext]_(Contract!relayVars)
  BY RelayStepIsContractStep
<1> QED
  BY <1>1, <1>2, RelayInvariant, PTL
  DEF RelaySpec, ImplementsRelayContract, Contract!RelayContractSpec

-----------------------------------------------------------------------------
(* The recursion of PayloadUpTo.  TLA+ takes a recursive function for the   *)
(* one that satisfies its equation; that there is one is shown by induction *)
(* on the length of its domain.                                             *)

\* What PayloadUpTo(s) does at n, given a function f that is right before n.
NextPayload(s, f, n) ==
    IF n = 0 THEN <<>>
    ELSE IF s[n] \in Packets THEN Append(f[n - 1], s[n]) ELSE f[n - 1]

Solves(s, f, m) == f = [n \in 0..m |-> NextPayload(s, f, n)]

LEMMA PayloadExists ==
  ASSUME NEW s, NEW m \in Nat
  PROVE  \E f : Solves(s, f, m)
<1> DEFINE S == {k \in Nat : \E f : Solves(s, f, k)}
<1>1. 0 \in S
  <2> DEFINE f == [n \in 0..0 |-> <<>>]
  <2>1. Solves(s, f, 0)
    BY DEF Solves, NextPayload
  <2> QED
    BY <2>1
<1>2. ASSUME NEW k \in Nat, k \in S PROVE k + 1 \in S
  <2>1. PICK f : Solves(s, f, k)
    BY <1>2
  <2> DEFINE h == [n \in 0..(k + 1) |->
                     IF n = k + 1 THEN NextPayload(s, f, n) ELSE f[n]]
  <2>2. ASSUME NEW n \in 0..(k + 1) PROVE h[n] = NextPayload(s, h, n)
    <3>1. n # 0 => n - 1 \in 0..k /\ h[n - 1] = f[n - 1]
      OBVIOUS
    <3>2. NextPayload(s, h, n) = NextPayload(s, f, n)
      BY <3>1 DEF NextPayload
    <3>3. n # k + 1 => n \in 0..k
      OBVIOUS
    <3>4. n # k + 1 => f[n] = NextPayload(s, f, n)
      BY <2>1, <3>3 DEF Solves
    <3> QED
      BY <3>2, <3>4
  <2>3. h = [n \in 0..(k + 1) |-> h[n]]
    OBVIOUS
  <2> HIDE DEF h
  <2>4. Solves(s, h, k + 1)
    BY <2>2, <2>3 DEF Solves
  <2> QED
    BY <2>4
<1> HIDE DEF S
<1>3. Nat \subseteq S
  BY <1>1, <1>2, SetInduction
<1> QED
  BY <1>3 DEF S

LEMMA PayloadSolves ==
  ASSUME NEW s, Len(s) \in Nat
  PROVE  Solves(s, PayloadUpTo(s), Len(s))
<1>1. \E f : Solves(s, f, Len(s))
  BY PayloadExists
<1>2. PayloadUpTo(s) = CHOOSE f : Solves(s, f, Len(s))
  BY DEF PayloadUpTo, Solves, NextPayload
<1> QED
  BY <1>1, <1>2

(* The equation, record by record: what is kept of none is nothing, and a   *)
(* record is added if and only if it is a packet.                           *)
LEMMA PayloadSteps ==
  ASSUME NEW s \in Seq(Records)
  PROVE  /\ PayloadUpTo(s)[0] = <<>>
         /\ \A n \in 1..Len(s) :
                PayloadUpTo(s)[n] =
                    IF s[n] \in Packets
                    THEN Append(PayloadUpTo(s)[n - 1], s[n])
                    ELSE PayloadUpTo(s)[n - 1]
<1>1. Len(s) \in Nat
  OBVIOUS
<1>2. Solves(s, PayloadUpTo(s), Len(s))
  BY <1>1, PayloadSolves
<1>3. \A n \in 0..Len(s) : PayloadUpTo(s)[n] = NextPayload(s, PayloadUpTo(s), n)
  BY <1>2 DEF Solves
<1> QED
  BY <1>1, <1>3 DEF NextPayload

LEMMA PayloadType ==
  ASSUME NEW s \in Seq(Records)
  PROVE  \A n \in 0..Len(s) : PayloadUpTo(s)[n] \in Seq(Packets)
<1> DEFINE S == {k \in Nat : k <= Len(s) => PayloadUpTo(s)[k] \in Seq(Packets)}
<1>0. Len(s) \in Nat
  OBVIOUS
<1>1. 0 \in S
  BY PayloadSteps, EmptySeq
<1>2. ASSUME NEW k \in Nat, k \in S PROVE k + 1 \in S
  <2> SUFFICES ASSUME k + 1 <= Len(s) PROVE PayloadUpTo(s)[k + 1] \in Seq(Packets)
    OBVIOUS
  <2>1. k + 1 \in 1..Len(s) /\ (k + 1) - 1 = k
    BY <1>0
  <2>2. PayloadUpTo(s)[k] \in Seq(Packets)
    BY <1>0, <1>2
  <2>3. PayloadUpTo(s)[k + 1] =
            IF s[k + 1] \in Packets
            THEN Append(PayloadUpTo(s)[k], s[k + 1]) ELSE PayloadUpTo(s)[k]
    BY <2>1, PayloadSteps
  <2> QED
    BY <2>2, <2>3, AppendProperties
<1> HIDE DEF S
<1>3. Nat \subseteq S
  BY <1>1, <1>2, SetInduction
<1> QED
  BY <1>0, <1>3 DEF S

(* What is kept of fewer records is a prefix of what is kept of more.       *)
LEMMA PayloadPrefix ==
  ASSUME NEW s \in Seq(Records), NEW j \in 0..Len(s)
  PROVE  IsPrefix(PayloadUpTo(s)[j], PayloadUpTo(s)[Len(s)])
<1> DEFINE P == PayloadUpTo(s)
           S == {k \in Nat : j <= k /\ k <= Len(s) =>
                     /\ Len(P[j]) <= Len(P[k])
                     /\ \A i \in 1..Len(P[j]) : P[j][i] = P[k][i]}
<1>0. Len(s) \in Nat /\ j \in Nat /\ \A n \in 0..Len(s) : P[n] \in Seq(Packets)
  BY PayloadType
<1>1. 0 \in S
  BY <1>0
<1>2. ASSUME NEW k \in Nat, k \in S PROVE k + 1 \in S
  <2> SUFFICES ASSUME j <= k + 1, k + 1 <= Len(s)
               PROVE  /\ Len(P[j]) <= Len(P[k + 1])
                      /\ \A i \in 1..Len(P[j]) : P[j][i] = P[k + 1][i]
    OBVIOUS
  <2>0. Len(P[j]) \in Nat /\ Len(P[k]) \in Nat
    BY <1>0
  <2>1. CASE j = k + 1
    BY <2>0, <2>1
  <2>2. CASE j <= k
    <3>1. Len(P[j]) <= Len(P[k]) /\ \A i \in 1..Len(P[j]) : P[j][i] = P[k][i]
      BY <1>0, <1>2, <2>2
    <3>2. k + 1 \in 1..Len(s) /\ (k + 1) - 1 = k /\ k \in 0..Len(s)
      BY <1>0
    <3>3. P[k + 1] = IF s[k + 1] \in Packets
                     THEN Append(P[k], s[k + 1]) ELSE P[k]
      BY <3>2, PayloadSteps
    <3> HIDE DEF P
    <3>4. /\ Len(P[k]) <= Len(P[k + 1])
          /\ \A i \in 1..Len(P[k]) : P[k][i] = P[k + 1][i]
      <4>1. P[k] \in Seq(Packets)
        BY <1>0, <3>2
      <4>2. CASE s[k + 1] \in Packets
        BY <2>0, <3>3, <4>1, <4>2, AppendProperties
      <4>3. CASE s[k + 1] \notin Packets
        BY <2>0, <3>3, <4>3
      <4> QED
        BY <4>2, <4>3
    <3>5. Len(P[k + 1]) \in Nat
      BY <1>0, <3>2
    <3> QED
      BY <2>0, <3>1, <3>4, <3>5
  <2> QED
    BY <1>0, <2>1, <2>2
<1> HIDE DEF S
<1>3. Nat \subseteq S
  BY <1>1, <1>2, SetInduction
<1>4. Len(P[j]) <= Len(P[Len(s)]) /\ \A i \in 1..Len(P[j]) : P[j][i] = P[Len(s)][i]
  BY <1>0, <1>3 DEF S
<1> HIDE DEF P
<1>5. P[j] \in Seq(Packets) /\ P[Len(s)] \in Seq(Packets)
  BY <1>0
<1>6. SubSeq(P[j], 1, Len(P[j])) = SubSeq(P[Len(s)], 1, Len(P[j]))
  BY <1>4, <1>5
<1> QED
  BY <1>4, <1>6 DEF IsPrefix, P

(* An offer adds a record at the end and changes nothing before it.         *)
LEMMA PayloadOfAppend ==
  ASSUME NEW s \in Seq(Records), NEW e \in Records
  PROVE  \A n \in 0..Len(s) : PayloadUpTo(Append(s, e))[n] = PayloadUpTo(s)[n]
<1> DEFINE u == Append(s, e)
           S == {k \in Nat : k <= Len(s) => PayloadUpTo(u)[k] = PayloadUpTo(s)[k]}
<1>0. /\ Len(s) \in Nat /\ u \in Seq(Records) /\ Len(u) = Len(s) + 1
      /\ \A i \in 1..Len(s) : u[i] = s[i]
  BY AppendProperties
<1> HIDE DEF u
<1>1. 0 \in S
  BY <1>0, PayloadSteps
<1>2. ASSUME NEW k \in Nat, k \in S PROVE k + 1 \in S
  <2> SUFFICES ASSUME k + 1 <= Len(s)
               PROVE  PayloadUpTo(u)[k + 1] = PayloadUpTo(s)[k + 1]
    OBVIOUS
  <2>1. k + 1 \in 1..Len(s) /\ k + 1 \in 1..Len(u) /\ (k + 1) - 1 = k
    BY <1>0
  <2>2. PayloadUpTo(u)[k] = PayloadUpTo(s)[k] /\ u[k + 1] = s[k + 1]
    BY <1>0, <1>2, <2>1
  <2> QED
    BY <1>0, <2>1, <2>2, PayloadSteps
<1> HIDE DEF S
<1>3. Nat \subseteq S
  BY <1>1, <1>2, SetInduction
<1> QED
  BY <1>0, <1>3 DEF S, u

-----------------------------------------------------------------------------
(* What each copier has written is what it was to write of what it has read. *)

UpTo(g, n) == PayloadUpTo(offered[g])[n]

FaithOf(g) ==
    /\ \E k \in 0..taken[g] : written[g] = UpTo(g, k)
    /\ at[g] = "off" => taken[g] = 0
    /\ at[g] = "read" => written[g] = UpTo(g, taken[g])
    /\ at[g] = "write" =>
           InHand(g) \notin Skipped(g) /\ written[g] = UpTo(g, taken[g] - 1)

FaithInv == \A g \in Copiers : FaithOf(g)

LEMMA FaithInit == RelayInit => FaithInv
<1> SUFFICES ASSUME RelayInit, NEW g \in Copiers PROVE FaithOf(g)
  BY DEF FaithInv
<1>1. /\ offered[g] = <<>> /\ taken[g] = 0 /\ written[g] = <<>>
      /\ at[g] = "off"
  BY DEF RelayInit, Threads
<1>2. <<>> \in Seq(Records)
  BY EmptySeq
<1>3. written[g] = UpTo(g, 0)
  BY <1>1, <1>2, PayloadSteps DEF UpTo
<1> QED
  BY <1>1, <1>3 DEF FaithOf

\* What FaithOf(g) is about does not change.
Still(g) ==
    /\ offered'[g] = offered[g] /\ taken'[g] = taken[g]
    /\ written'[g] = written[g]

LEMMA FaithStill ==
  ASSUME NEW g \in Copiers, FaithOf(g), Still(g),
         at'[g] = at[g] \/ at'[g] \in {"fail", "ended"}
  PROVE  FaithOf(g)'
  BY DEF FaithOf, Still, UpTo, InHand, Skipped

\* Of two copiers, a step of one leaves the other alone.
LEMMA OtherStill ==
  ASSUME TypeInv, NEW g \in Copiers, Offer(g) \/ Copy(g),
         NEW h \in Copiers, h # g
  PROVE  Still(h) /\ at'[h] = at[h]
  BY DEF TypeInv, ControlTypeOK, DataTypeOK, Threads, Still, Offer, Copy, Skip,
     Read, Malformed, ReadFails, Write, WriteFails, CallFail, Consume, data

LEMMA CopierFaith ==
  ASSUME TypeInv, NEW g \in Copiers, FaithOf(g), Offer(g) \/ Copy(g)
  PROVE  FaithOf(g)'
<1> DEFINE n == taken[g]
           P(k) == PayloadUpTo(offered[g])[k]
           Q(k) == PayloadUpTo(offered'[g])[k]
<1>0. /\ g \in Threads /\ offered[g] \in Seq(Records)
      /\ Len(offered[g]) \in Nat /\ n \in 0..Len(offered[g])
  BY RelayAssumption DEF TypeInv, DataTypeOK, TakenInv, Threads
<1>1. /\ taken \in [Copiers -> 0..MaxInput]
      /\ at \in [Threads -> {"off", "read", "write", "fail", "wait", "ended"}]
      /\ written \in [Copiers -> Seq(Datagrams)]
      /\ offered \in [Copiers -> Seq(Records)]
  BY DEF TypeInv, ControlTypeOK, DataTypeOK
<1>2. /\ \E k \in 0..n : written[g] = P(k)
      /\ at[g] = "off" => n = 0
      /\ at[g] = "read" => written[g] = P(n)
      /\ at[g] = "write" => InHand(g) \notin Skipped(g) /\ written[g] = P(n - 1)
  BY DEF FaithOf, UpTo
<1>3. at[g] = "write" => n > 0 /\ InHand(g) \in Datagrams
  BY DEF TypeInv, TakenInv
<1>4. \A k \in 1..Len(offered[g]) :
          P(k) = IF offered[g][k] \in Packets
                 THEN Append(P(k - 1), offered[g][k]) ELSE P(k - 1)
  BY <1>0, PayloadSteps
<1>5. SUFFICES /\ \E k \in 0..taken'[g] : written'[g] = Q(k)
               /\ at'[g] = "off" => taken'[g] = 0
               /\ at'[g] = "read" => written'[g] = Q(taken'[g])
               /\ at'[g] = "write" =>
                      /\ offered'[g][taken'[g]] \notin Skipped(g)
                      /\ written'[g] = Q(taken'[g] - 1)
  BY DEF FaithOf, UpTo, InHand, Skipped
<1> HIDE DEF P, Q
<1>6. CASE Offer(g)
  <2>1. PICK p \in IF g = "out" THEN Datagrams ELSE Records :
            offered' = [offered EXCEPT ![g] = Append(@, p)]
    BY <1>6 DEF Offer
  <2>2. p \in Records /\ offered'[g] = Append(offered[g], p)
    BY <1>1, <2>1 DEF Datagrams, Records
  <2>3. UNCHANGED <<at, taken, written>>
    BY <1>6 DEF Offer
  <2>4. \A k \in 0..Len(offered[g]) : Q(k) = P(k)
    BY <1>0, <2>2, PayloadOfAppend DEF P, Q
  <2>5. \A k \in 1..Len(offered[g]) : offered'[g][k] = offered[g][k]
    BY <1>0, <2>2, AppendProperties
  <2>6. \A k \in 0..n : Q(k) = P(k)
    BY <1>0, <2>4
  <2>7. at[g] = "write" => Q(n - 1) = P(n - 1) /\ offered'[g][n] = InHand(g)
    BY <1>0, <1>3, <2>4, <2>5 DEF InHand
  <2>8. Q(n) = P(n)
    BY <1>0, <2>4
  <2> QED
    BY <1>2, <2>3, <2>6, <2>7, <2>8
<1>7. ASSUME Available(g), Consume(g), UNCHANGED <<offered, written>>
      PROVE  /\ n \in Nat /\ taken'[g] = n + 1 /\ n + 1 \in 1..Len(offered[g])
             /\ at[g] = "read" /\ written'[g] = P(n) /\ \A k : Q(k) = P(k)
             /\ offered'[g][n + 1] = Next1(g)
  BY <1>0, <1>1, <1>2, <1>7 DEF Available, Consume, Next1, P, Q
<1>8. CASE Skip(g)
  <2>1. Next1(g) \notin Packets /\ at' = at
    BY <1>8, RelayAssumption DEF Skip, Skipped
  <2>2. P(n + 1) = P(n)
    BY <1>4, <1>7, <1>8, <2>1 DEF Skip, Next1
  <2> QED
    BY <1>7, <1>8, <2>1, <2>2 DEF Skip
<1>9. CASE Read(g)
  <2>1. at'[g] = "write" /\ Next1(g) \notin Skipped(g)
    BY <1>0, <1>1, <1>9 DEF Read
  <2>2. n \in 0..taken'[g] /\ taken'[g] - 1 = n
    BY <1>7, <1>9 DEF Read
  <2> QED
    BY <1>7, <1>9, <2>1, <2>2 DEF Read
<1>10. CASE Malformed(g)
  <2>1. n \in 0..taken'[g] /\ at'[g] = "fail"
    BY <1>0, <1>1, <1>7, <1>10 DEF Malformed, CallFail
  <2> QED
    BY <1>7, <1>10, <2>1 DEF Malformed
<1>11. CASE ReadFails(g) \/ WriteFails(g)
  <2>1. at'[g] = "fail" /\ UNCHANGED <<offered, taken, written>>
    BY <1>0, <1>1, <1>11 DEF ReadFails, WriteFails, CallFail, data
  <2> QED
    BY <1>2, <2>1 DEF P, Q
<1>12. CASE Write(g)
  <2>1. InHand(g) \in Packets
    <3>1. InHand(g) \notin Skipped(g) /\ InHand(g) \in Datagrams
      BY <1>2, <1>3, <1>12 DEF Write
    <3>2. g = "out" => InHand(g) # "empty"
      BY <1>12 DEF Write
    <3> QED
      BY <3>1, <3>2 DEF Skipped, Datagrams, Copiers
  <2>2. n \in 1..Len(offered[g]) /\ written[g] = P(n - 1)
    BY <1>0, <1>2, <1>3, <1>12 DEF Write
  <2>3. P(n) = Append(written[g], InHand(g))
    BY <1>4, <2>1, <2>2 DEF InHand
  <2>4. /\ written'[g] = Append(written[g], InHand(g)) /\ at'[g] = "read"
        /\ UNCHANGED <<offered, taken>>
    BY <1>0, <1>1, <1>12 DEF Write
  <2> QED
    BY <1>0, <2>3, <2>4 DEF P, Q
<1> QED
  BY <1>6, <1>8, <1>9, <1>10, <1>11, <1>12 DEF Copy

LEMMA FaithNext ==
  ASSUME RelayInv, FaithInv, [RelayNext]_vars
  PROVE  FaithInv'
<1> SUFFICES ASSUME NEW g \in Copiers PROVE FaithOf(g)'
  BY DEF FaithInv
<1>0. FaithOf(g) /\ TypeInv /\ g \in Threads
  BY DEF FaithInv, RelayInv, Threads
<1>1. ASSUME NEW h \in Copiers, Offer(h) \/ Copy(h) PROVE FaithOf(g)'
  BY <1>0, <1>1, CopierFaith, OtherStill, FaithStill
<1>2. CASE DialReturns
  <2>1. at[g] = "off" /\ Still(g) /\ at'[g] = "read"
    BY <1>0, <1>2 DEF DialReturns, RelayInv, ControlInv, DialInv, Still, data
  <2>2. taken[g] = 0 /\ written[g] = UpTo(g, 0)
    BY <1>0, <2>1 DEF FaithOf
  <2> QED
    BY <2>1, <2>2 DEF FaithOf, Still, UpTo
<1>3. ASSUME NEW t \in Threads, FailReturns(t) \/ CloseReturns(t) \/ Close(t)
      PROVE  FaithOf(g)'
  <2>1. Still(g)
    BY <1>3 DEF FailReturns, CloseReturns, Close, Still, data
  <2>2. at'[g] = at[g] \/ at'[g] \in {"fail", "ended"}
    BY <1>0, <1>3
    DEF FailReturns, CloseReturns, Close, CallFail, TypeInv, ControlTypeOK
  <2> QED
    BY <1>0, <2>1, <2>2, FaithStill
<1>4. CASE UNCHANGED <<at, data>>
  <2>1. Still(g) /\ at'[g] = at[g]
    BY <1>4 DEF Still, data
  <2> QED
    BY <1>0, <2>1, FaithStill
<1>5. CASE \/ Expire \/ HookStarts \/ HookCloses \/ ConnectFails \/ Connects
           \/ Greet \/ Stop \/ Rejected \/ Accepted \/ UdpFails
           \/ \E t \in Threads : Fail(t)
  <2>1. UNCHANGED <<at, data>>
    BY <1>5 DEF Expire, HookStarts, HookCloses, ConnectFails, Connects, Greet,
       Stop, Rejected, Accepted, UdpFails, GiveUp, Fail, EnterFail, CloseDone,
       CloseTcp, CloseUdp, FailStep
  <2> QED
    BY <1>4, <2>1
<1>6. CASE UNCHANGED vars
  BY <1>4, <1>6 DEF vars
<1> QED
  BY <1>1, <1>2, <1>3, <1>5, <1>6 DEF RelayNext, Dial

(* Every packet is relayed whole, in order and at most once, and nothing    *)
(* else is: what a copier has written is a prefix of the packets offered.   *)
THEOREM RelayIsFaithful == RelaySpec => []Faithful
<1>1. RelayInit => FaithInv
  BY FaithInit
<1>2. RelayInv /\ FaithInv /\ [RelayNext]_vars => FaithInv'
  BY FaithNext
<1>3. RelayInv /\ FaithInv => Faithful
  <2> SUFFICES ASSUME RelayInv, FaithInv, NEW g \in Copiers
               PROVE  IsPrefix(written[g], Payload(offered[g]))
    BY DEF Faithful
  <2>1. /\ offered[g] \in Seq(Records) /\ Len(offered[g]) \in Nat
        /\ taken[g] \in 0..Len(offered[g])
    BY RelayAssumption DEF RelayInv, TypeInv, DataTypeOK, TakenInv
  <2>2. PICK k \in 0..taken[g] : written[g] = PayloadUpTo(offered[g])[k]
    BY DEF FaithInv, FaithOf, UpTo
  <2>3. k \in 0..Len(offered[g])
    BY <2>1
  <2> QED
    BY <2>1, <2>2, <2>3, PayloadPrefix DEF Payload
<1> QED
  BY <1>1, <1>2, <1>3, RelayInvariant, PTL DEF RelaySpec

=============================================================================
