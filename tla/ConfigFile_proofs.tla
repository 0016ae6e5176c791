--------------------------- MODULE ConfigFile_proofs ---------------------------
(***************************************************************************)
(* Theorems about ConfigFile, for any set of adders and of loaders, any    *)
(* files to start from and any instances to add.                           *)
(***************************************************************************)
EXTENDS ConfigFile, SequenceTheorems, FiniteSetTheorems, TLAPS

-----------------------------------------------------------------------------
(* The invariant, in parts.                                                *)

\* The files that were the configuration at some moment: any of them may be it
\* again after a loss of power, and everybody has one of them open.  An adder's
\* is among them only when the adder has succeeded, and no temporary file is.
WasInv ==
    /\ path \in was
    /\ was \subseteq Inodes
    /\ temps \subseteq Adders \ was
    /\ \A p \in Processes : opened[p] \in was
    /\ \A p \in Adders : p \in was => pc[p] = "ok"

\* They are complete, and on the disk; a file is before it is renamed.
WholeInv ==
    /\ \A i \in was : inodes[i].whole /\ inodes[i].synced
    /\ \A p \in Adders : pc[p] \in {"sync", "close", "rename"} => inodes[p].whole
    /\ \A p \in Adders : pc[p] \in {"close", "rename"} => inodes[p].synced

\* What an adder has made of the file that it has read.
WrittenInv ==
    \A p \in Adders :
        /\ inodes[p].content \in {<<>>, Appended(p)}
        /\ inodes[p].mode = "private" \/ ~HasSecrets(layers, Appended(p))
        /\ pc[p] \in {"start", "read", "check", "create", "chmod"} =>
               inodes[p].content = <<>> /\ inodes[p].mode = "private"
        /\ pc[p] \in {"writing", "sync", "close", "rename"} \/ p \in was =>
               inodes[p].content = Appended(p)
        /\ pc[p] \in {"create", "chmod", "write", "writing", "sync", "close", "rename"}
           \/ p \in was =>
               ValidStructure(layers, Appended(p))

\* A content that adders in W, and each of them once at most, have appended to.
Grown(c, W) ==
    \E S \in SUBSET W :
        \E o \in Originals, a \in [1..Cardinality(S) -> Additions] : c = o \o a

\* Where the contents come from: the adders of files that were in place.
GrownInv ==
    /\ \A i \in was : Grown(inodes[i].content, was \ {0})
    /\ \A p \in Processes :
           pc[p] \notin {"start", "read", "err", "dead"} =>
               Grown(got[p].content, was \ {0})

ConfigInv == ConfigTypeOK /\ WasInv /\ WholeInv /\ WrittenInv /\ GrownInv

-----------------------------------------------------------------------------
(* Contents                                                                *)

LEMMA GrownMonotone ==
  ASSUME NEW W, NEW V, W \subseteq V, NEW c, Grown(c, W)
  PROVE  Grown(c, V)
BY DEF Grown

LEMMA GrownOriginal ==
  ASSUME NEW W, NEW o \in Originals
  PROVE  Grown(o, W)
<1>1. Cardinality({}) = 0
  BY FS_EmptySet
<1>2. <<>> \in [1..0 -> Additions]
  OBVIOUS
<1>3. o \o <<>> = o
  BY ConfigAssumption, ConcatEmptySeq
<1> QED
  BY <1>1, <1>2, <1>3 DEF Grown

LEMMA GrownContents ==
  ASSUME NEW W, W \subseteq Adders, NEW c, Grown(c, W)
  PROVE  c \in Contents
<1>0. PICK S \in SUBSET W :
          \E o \in Originals, a \in [1..Cardinality(S) -> Additions] : c = o \o a
  BY DEF Grown
<1>1. PICK o \in Originals, a \in [1..Cardinality(S) -> Additions] : c = o \o a
  BY <1>0
<1>2. IsFiniteSet(Adders) /\ S \in SUBSET Adders
  BY ConfigAssumption
<1>3. IsFiniteSet(S) /\ Cardinality(S) <= Cardinality(Adders)
  BY <1>2, FS_Subset
<1>4. Cardinality(S) \in Nat /\ Cardinality(Adders) \in Nat
  BY <1>2, <1>3, FS_CardinalityType
<1>5. Cardinality(S) \in 0..Cardinality(Adders)
  BY <1>3, <1>4
<1> HIDE DEF Grown
<1> QED
  BY <1>1, <1>5 DEF Contents

\* Another adder appends another instance.
LEMMA GrownAppend ==
  ASSUME NEW W, W \subseteq Adders, NEW p \in Adders, p \notin W,
         NEW x \in Additions, NEW c, Grown(c, W)
  PROVE  Grown(Append(c, x), W \cup {p})
<1>0. PICK S \in SUBSET W :
          \E o \in Originals, a \in [1..Cardinality(S) -> Additions] : c = o \o a
  BY DEF Grown
<1>1. PICK o \in Originals, a \in [1..Cardinality(S) -> Additions] : c = o \o a
  BY <1>0
<1>2. IsFiniteSet(S) /\ Cardinality(S) \in Nat
  BY ConfigAssumption, FS_Subset, FS_CardinalityType
<1>3. Cardinality(S \cup {p}) = Cardinality(S) + 1
  BY <1>2, FS_AddElement
<1> DEFINE n == Cardinality(S)
           T == Instances
<1>4. o \in Seq(T) /\ x \in T /\ a \in Seq(Additions) /\ Additions \subseteq T
      /\ Len(a) = n
  BY <1>2, ConfigAssumption
<1> HIDE DEF n, T
<1>5. a \in Seq(T)
  BY <1>4, SeqMonotonic
<1>6. Append(a, x) \in Seq(Additions) /\ Len(Append(a, x)) = n + 1
  BY <1>4, AppendProperties
<1>7. Append(a, x) \in [1..n + 1 -> Additions]
  BY <1>6, LenProperties
<1>8. Append(o \o a, x) = o \o Append(a, x)
  <2>1. <<x>> \in Seq(T)
    BY <1>4
  <2>2. o \o a \in Seq(T)
    BY <1>4, <1>5, ConcatProperties
  <2>3. Append(o \o a, x) = (o \o a) \o <<x>>
    BY <1>4, <2>2, AppendIsConcat
  <2>4. Append(a, x) = a \o <<x>>
    BY <1>4, <1>5, AppendIsConcat
  <2> QED
    BY <1>4, <1>5, <2>1, <2>3, <2>4, ConcatAssociative
<1> QED
  BY <1>1, <1>3, <1>7, <1>8 DEF Grown, n

-----------------------------------------------------------------------------
(* Initial states                                                          *)

Places == {"start", "read", "check", "create", "chmod", "write", "writing",
           "sync", "close", "rename", "cleanup", "ok", "err", "dead"}

\* ConfigTypeOK but for the temporary files, of which WasInv says more.
FileTypeOK ==
    /\ layers \in Layers
    /\ inodes \in [Inodes -> [content : Contents, mode : Modes,
                              whole : BOOLEAN, synced : BOOLEAN]]
    /\ pc \in [Processes -> Places]
    /\ opened \in [Processes -> Inodes]
    /\ got \in [Processes -> [content : Contents, mode : Modes]]
    /\ inst \in [Adders -> Additions]

LEMMA TypeParts ==
  /\ ConfigTypeOK => FileTypeOK
  /\ FileTypeOK /\ WasInv => ConfigTypeOK
<1>1. ConfigTypeOK => FileTypeOK
  BY DEF ConfigTypeOK, FileTypeOK, Places
<1>2. WasInv => path \in Inodes /\ was \in SUBSET Inodes
                /\ temps \in SUBSET (Adders \ {path})
  BY DEF WasInv
<1>3. FileTypeOK /\ WasInv => ConfigTypeOK
  BY <1>2, Zenon DEF ConfigTypeOK, FileTypeOK, Places
<1> QED
  BY <1>1, <1>3

LEMMA ConfigInvInit == ConfigInit => ConfigInv
<1> SUFFICES ASSUME ConfigInit PROVE ConfigInv
  OBVIOUS
<1>1. PICK c \in Originals, m \in Modes :
          inodes = [i \in Inodes |->
                       [content |-> IF i = 0 THEN c ELSE <<>>,
                        mode |-> IF i = 0 THEN m ELSE "private",
                        whole |-> i = 0, synced |-> i = 0]]
  BY DEF ConfigInit
<1>2. c \in Contents /\ <<>> \in Contents /\ 0 \in Inodes
  <2>1. Grown(c, {})
    BY GrownOriginal
  <2>2. {} \subseteq Adders
    OBVIOUS
  <2>3. c \in Contents
    BY <2>1, <2>2, GrownContents
  <2> QED
    BY <2>3 DEF Contents, Inodes
<1>3. /\ layers \in Layers /\ path = 0 /\ was = {0} /\ temps = {}
      /\ pc = [p \in Processes |-> "start"] /\ opened = [p \in Processes |-> 0]
      /\ got = [p \in Processes |-> Empty] /\ inst \in [Adders -> Additions]
  BY DEF ConfigInit
<1>4. FileTypeOK
  <2>1. \A i \in Inodes :
            inodes[i] \in [content : Contents, mode : Modes,
                           whole : BOOLEAN, synced : BOOLEAN]
    BY <1>1, <1>2 DEF Modes
  <2>2. inodes \in [Inodes -> [content : Contents, mode : Modes,
                              whole : BOOLEAN, synced : BOOLEAN]]
    BY <1>1, <2>1
  <2>3. Empty \in [content : Contents, mode : Modes]
    BY <1>2 DEF Empty, Modes
  <2> QED
    BY <1>2, <1>3, <2>2, <2>3 DEF FileTypeOK, Places
<1>5. 0 \notin Adders
  BY ConfigAssumption
<1>6. WasInv
  BY <1>2, <1>3, <1>5 DEF WasInv
<1>7. WholeInv
  BY <1>1, <1>2, <1>3 DEF WholeInv, Processes
<1>8. WrittenInv
  <2> SUFFICES ASSUME NEW p \in Adders
               PROVE  inodes[p].content = <<>> /\ inodes[p].mode = "private"
                      /\ pc[p] = "start" /\ p \notin was
    BY DEF WrittenInv
  <2> QED
    BY <1>1, <1>3, <1>5 DEF Inodes, Processes
<1>9. GrownInv
  <2>1. inodes[0].content = c
    BY <1>1, <1>2
  <2>2. Grown(c, was \ {0})
    BY GrownOriginal
  <2>3. \A p \in Processes : pc[p] = "start"
    BY <1>3
  <2>4. was = {0}
    BY <1>3
  <2> QED
    BY <2>1, <2>2, <2>3, <2>4, Zenon DEF GrownInv
<1> QED
  BY <1>4, <1>6, <1>7, <1>8, <1>9, TypeParts DEF ConfigInv

-----------------------------------------------------------------------------
(* The files that were in place                                            *)

LEMMA WasNext ==
  ASSUME FileTypeOK, WasInv, [ConfigNext]_vars
  PROVE  WasInv'
<1>0. pc \in [Processes -> Places] /\ opened \in [Processes -> Inodes]
  BY DEF FileTypeOK
<1>1. 0 \notin Adders /\ Adders \subseteq Processes /\ Adders \subseteq Inodes
      /\ Loaders \subseteq Processes
  BY ConfigAssumption DEF Processes, Inodes
<1>2. /\ path \in was
      /\ was \subseteq Inodes
      /\ temps \subseteq Adders \ was
      /\ \A p \in Processes : opened[p] \in was
      /\ \A p \in Adders : p \in was => pc[p] = "ok"
  BY DEF WasInv
\* A step that lets nobody go on from success, and makes no file.
<1>3. ASSUME UNCHANGED <<path, was, opened>>, temps' \subseteq temps,
             \A p \in Adders : pc[p] = "ok" => pc'[p] = "ok"
      PROVE  WasInv'
  BY <1>2, <1>3 DEF WasInv
<1>4. ASSUME NEW p \in Processes, NEW from, NEW to, from # "ok", Step(p, from, to)
      PROVE  \A q \in Processes : pc[q] = "ok" => pc'[q] = "ok"
  BY <1>0, <1>4 DEF Step
<1>5. ASSUME NEW p \in Processes, Open(p) PROVE WasInv'
  <2>1. opened' = [opened EXCEPT ![p] = path] /\ UNCHANGED <<path, was, temps>>
    BY <1>5 DEF Open
  <2>2. \A q \in Processes : pc[q] = "ok" => pc'[q] = "ok"
    BY <1>4, <1>5 DEF Open
  <2>3. \A q \in Processes : opened'[q] \in was
    BY <1>0, <1>2, <2>1
  <2> QED
    BY <1>1, <1>2, <2>1, <2>2, <2>3 DEF WasInv
<1>6. ASSUME NEW p \in Processes, Read(p) PROVE WasInv'
  BY <1>1, <1>3, <1>4, <1>6 DEF Read
<1>7. ASSUME NEW p \in Processes, LoadFails(p) \/ Crash(p) PROVE WasInv'
  BY <1>0, <1>1, <1>3, <1>7 DEF LoadFails, Crash, Finished
<1>8. ASSUME NEW p \in Loaders, LoadReturns(p) PROVE WasInv'
  <2>1. PICK to : Step(p, "check", to)
    BY <1>8 DEF LoadReturns
  <2> QED
    BY <1>1, <1>3, <1>4, <1>8, <2>1 DEF LoadReturns
<1>9. ASSUME NEW p \in Adders, BadArguments(p) \/ Refuse(p) \/ Accept(p)
      PROVE  WasInv'
  BY <1>1, <1>3, <1>4, <1>9 DEF BadArguments, Refuse, Accept
<1>10. ASSUME NEW p \in Adders, CreateTemp(p) PROVE WasInv'
  <2>1. UNCHANGED <<path, was, opened>> /\ temps' \subseteq temps \cup {p}
    BY <1>10 DEF CreateTemp
  <2>2. pc[p] = "create"
    BY <1>10 DEF CreateTemp, Step
  <2>3. p \notin was
    BY <1>2, <2>2
  <2>4. \A q \in Processes : pc[q] = "ok" => pc'[q] = "ok"
    BY <1>1, <1>4, <1>10 DEF CreateTemp
  <2> QED
    BY <1>1, <1>2, <2>1, <2>3, <2>4 DEF WasInv
<1>11. ASSUME NEW p \in Adders, Chmod(p) \/ StartWrite(p) \/ FinishWrite(p)
              \/ Sync(p) \/ CloseTemp(p)
       PROVE  WasInv'
  <2>1. UNCHANGED <<path, was, temps, opened>>
    BY <1>11 DEF Chmod, StartWrite, FinishWrite, Sync, CloseTemp, WriteStep
  <2>2. \A q \in Processes : pc[q] = "ok" => pc'[q] = "ok"
    BY <1>1, <1>4, <1>11
    DEF Chmod, StartWrite, FinishWrite, Sync, CloseTemp, WriteStep
  <2> QED
    BY <1>1, <1>3, <2>1, <2>2
<1>12. ASSUME NEW p \in Adders, Rename(p) PROVE WasInv'
  <2>1. /\ pc' = [pc EXCEPT ![p] = "ok"] /\ path' = p /\ was' = was \cup {p}
        /\ temps' = temps \ {p} /\ opened' = opened
    BY <1>12 DEF Rename, Step
  <2> QED
    BY <1>0, <1>1, <1>2, <2>1 DEF WasInv
<1>13. ASSUME NEW p \in Adders, WriteFails(p) PROVE WasInv'
  BY <1>0, <1>1, <1>3, <1>13 DEF WriteFails
<1>14. ASSUME NEW p \in Adders, Cleanup(p) PROVE WasInv'
  <2>1. UNCHANGED <<path, was, opened>> /\ temps' \subseteq temps
    BY <1>14 DEF Cleanup
  <2>2. \A q \in Processes : pc[q] = "ok" => pc'[q] = "ok"
    BY <1>1, <1>4, <1>14 DEF Cleanup
  <2> QED
    BY <1>1, <1>3, <2>1, <2>2
<1>15. CASE PowerLoss
  <2>1. path' \in was /\ UNCHANGED <<was, temps, opened>>
    BY <1>15 DEF PowerLoss
  <2>2. \A p \in Processes : pc[p] = "ok" => pc'[p] = "ok"
    BY <1>15 DEF PowerLoss, Finished
  <2> QED
    BY <1>1, <1>2, <2>1, <2>2 DEF WasInv
<1>16. CASE UNCHANGED vars
  BY <1>3, <1>16 DEF vars
<1> QED
  BY <1>5, <1>6, <1>7, <1>8, <1>9, <1>10, <1>11, <1>12, <1>13, <1>14, <1>15, <1>16
  DEF ConfigNext, Add

-----------------------------------------------------------------------------
(* Complete files                                                          *)

LEMMA WholeNext ==
  ASSUME FileTypeOK, WasInv, WholeInv, [ConfigNext]_vars
  PROVE  WholeInv'
<1>0. pc \in [Processes -> Places]
      /\ inodes \in [Inodes -> [content : Contents, mode : Modes,
                                whole : BOOLEAN, synced : BOOLEAN]]
  BY DEF FileTypeOK
<1>1. 0 \notin Adders /\ Adders \subseteq Processes /\ Adders \subseteq Inodes
      /\ Adders \cap Loaders = {} /\ Loaders \subseteq Processes
  BY ConfigAssumption DEF Processes, Inodes
<1>2. was \subseteq Inodes /\ \A p \in Adders : p \in was => pc[p] = "ok"
  BY DEF WasInv
<1>3. /\ \A i \in was : inodes[i].whole /\ inodes[i].synced
      /\ \A p \in Adders : pc[p] \in {"sync", "close", "rename"} => inodes[p].whole
      /\ \A p \in Adders : pc[p] \in {"close", "rename"} => inodes[p].synced
  BY DEF WholeInv

\* A step that completes no file, and leaves the files alone.
<1>4. ASSUME UNCHANGED <<was, inodes>>,
             \A p \in Adders : pc'[p] \in {"sync", "close", "rename"} => pc'[p] = pc[p]
      PROVE  WholeInv'
  BY <1>3, <1>4 DEF WholeInv
<1>5. ASSUME NEW p \in Processes, NEW from, NEW to, Step(p, from, to)
      PROVE  pc[p] = from /\ pc'[p] = to /\ \A q \in Processes : q # p => pc'[q] = pc[q]
  BY <1>0, <1>5 DEF Step
<1>6. ASSUME NEW p \in Processes, Open(p) \/ Read(p) PROVE WholeInv'
  BY <1>1, <1>4, <1>5, <1>6 DEF Open, Read
<1>7. ASSUME NEW p \in Processes, LoadFails(p) \/ Crash(p) PROVE WholeInv'
  BY <1>0, <1>1, <1>4, <1>7 DEF LoadFails, Crash
<1>8. ASSUME NEW p \in Loaders, LoadReturns(p) PROVE WholeInv'
  <2>1. PICK to : Step(p, "check", to)
    BY <1>8 DEF LoadReturns
  <2>2. \A q \in Adders : pc'[q] = pc[q]
    BY <1>1, <1>5, <2>1
  <2> QED
    BY <1>4, <1>8, <2>2 DEF LoadReturns
<1>9. ASSUME NEW p \in Adders,
             BadArguments(p) \/ Refuse(p) \/ Accept(p) \/ CreateTemp(p) \/ Cleanup(p)
      PROVE  WholeInv'
  BY <1>1, <1>4, <1>5, <1>9 DEF BadArguments, Refuse, Accept, CreateTemp, Cleanup
<1>10. ASSUME NEW p \in Adders, Chmod(p) \/ StartWrite(p)
       PROVE  WholeInv'
  <2>1. p \notin was
    BY <1>1, <1>2, <1>10 DEF Chmod, StartWrite, WriteStep, Step
  <2>2. pc'[p] \in {"write", "writing"} /\ \A q \in Processes : q # p => pc'[q] = pc[q]
    BY <1>1, <1>5, <1>10 DEF Chmod, StartWrite, WriteStep
  <2>3. was' = was /\ \A i \in Inodes : i # p => inodes'[i] = inodes[i]
    BY <1>0, <1>10 DEF Chmod, StartWrite, WriteStep
  <2> QED
    BY <1>1, <1>2, <1>3, <2>1, <2>2, <2>3 DEF WholeInv
<1>11. ASSUME NEW p \in Adders, FinishWrite(p) \/ Sync(p) \/ CloseTemp(p)
       PROVE  WholeInv'
  <2>1. p \notin was
    BY <1>1, <1>2, <1>11 DEF FinishWrite, Sync, CloseTemp, WriteStep, Step
  <2>2. \A q \in Processes : q # p => pc'[q] = pc[q]
    BY <1>1, <1>5, <1>11 DEF FinishWrite, Sync, CloseTemp, WriteStep
  <2>3. was' = was /\ \A i \in Inodes : i # p => inodes'[i] = inodes[i]
    BY <1>0, <1>11 DEF FinishWrite, Sync, CloseTemp, WriteStep
  <2>4. inodes'[p].whole
    <3>1. CASE FinishWrite(p)
      BY <1>0, <1>1, <3>1 DEF FinishWrite
    <3>2. CASE Sync(p)
      <4>1. pc[p] = "sync" /\ inodes' = [inodes EXCEPT ![p].synced = TRUE]
        BY <1>1, <1>5, <3>2 DEF Sync, WriteStep
      <4> QED
        BY <1>0, <1>1, <1>3, <4>1
    <3>3. CASE CloseTemp(p)
      <4>1. pc[p] = "close" /\ inodes' = inodes
        BY <1>1, <1>5, <3>3 DEF CloseTemp, WriteStep
      <4> QED
        BY <1>1, <1>3, <4>1
    <3> QED
      BY <1>11, <3>1, <3>2, <3>3
  <2>5. pc'[p] \in {"close", "rename"} => inodes'[p].synced
    <3>1. CASE FinishWrite(p)
      BY <1>1, <1>5, <3>1 DEF FinishWrite, WriteStep
    <3>2. CASE Sync(p)
      BY <1>0, <1>1, <3>2 DEF Sync
    <3>3. CASE CloseTemp(p)
      <4>1. pc[p] = "close" /\ inodes' = inodes
        BY <1>1, <1>5, <3>3 DEF CloseTemp, WriteStep
      <4> QED
        BY <1>1, <1>3, <4>1
    <3> QED
      BY <1>11, <3>1, <3>2, <3>3
  <2> QED
    BY <1>1, <1>2, <1>3, <2>1, <2>2, <2>3, <2>4, <2>5 DEF WholeInv
<1>12. ASSUME NEW p \in Adders, Rename(p) PROVE WholeInv'
  <2>1. pc[p] = "rename" /\ pc'[p] = "ok"
        /\ \A q \in Processes : q # p => pc'[q] = pc[q]
    BY <1>1, <1>5, <1>12 DEF Rename
  <2>2. inodes' = inodes /\ was' = was \cup {p}
    BY <1>12 DEF Rename
  <2>3. inodes[p].whole /\ inodes[p].synced
    BY <1>3, <2>1
  <2> QED
    BY <1>1, <1>3, <2>1, <2>2, <2>3 DEF WholeInv
<1>13. ASSUME NEW p \in Adders, WriteFails(p) PROVE WholeInv'
  BY <1>0, <1>1, <1>4, <1>13 DEF WriteFails
<1>14. CASE PowerLoss
  <2>1. PICK cut \in SUBSET {i \in Inodes : ~inodes[i].synced} :
            inodes' = [i \in Inodes |-> IF i \in cut THEN [inodes[i] EXCEPT !.whole = FALSE]
                                        ELSE inodes[i]]
    BY <1>14 DEF PowerLoss
  <2>2. \A i \in was : inodes'[i] = inodes[i]
    BY <1>2, <1>3, <2>1
  <2>3. \A p \in Adders : pc'[p] \notin {"sync", "close", "rename"}
    BY <1>1, <1>14 DEF PowerLoss, Finished
  <2>4. was' = was
    BY <1>14 DEF PowerLoss
  <2> QED
    BY <1>3, <2>2, <2>3, <2>4 DEF WholeInv
<1>15. CASE UNCHANGED vars
  BY <1>4, <1>15 DEF vars
<1> QED
  BY <1>6, <1>7, <1>8, <1>9, <1>10, <1>11, <1>12, <1>13, <1>14, <1>15
  DEF ConfigNext, Add

-----------------------------------------------------------------------------
(* What the adders write                                                   *)

Early == {"start", "read", "check", "create", "chmod"}
Filled == {"writing", "sync", "close", "rename"}
Accepted == {"create", "chmod", "write", "writing", "sync", "close", "rename"}

LEMMA WrittenNext ==
  ASSUME FileTypeOK, WasInv, WrittenInv, [ConfigNext]_vars
  PROVE  WrittenInv'
<1>0. pc \in [Processes -> Places]
      /\ inodes \in [Inodes -> [content : Contents, mode : Modes,
                                whole : BOOLEAN, synced : BOOLEAN]]
      /\ got \in [Processes -> [content : Contents, mode : Modes]]
  BY DEF FileTypeOK
<1>1. 0 \notin Adders /\ Adders \subseteq Processes /\ Adders \subseteq Inodes
      /\ Adders \cap Loaders = {} /\ Loaders \subseteq Processes
  BY ConfigAssumption DEF Processes, Inodes
<1>2. \A p \in Adders : p \in was => pc[p] = "ok"
  BY DEF WasInv
<1>3. ASSUME NEW p \in Adders
      PROVE  /\ inodes[p].content \in {<<>>, Appended(p)}
             /\ inodes[p].mode = "private" \/ ~HasSecrets(layers, Appended(p))
             /\ pc[p] \in Early => inodes[p].content = <<>> /\ inodes[p].mode = "private"
             /\ pc[p] \in Filled \/ p \in was => inodes[p].content = Appended(p)
             /\ pc[p] \in Accepted \/ p \in was => ValidStructure(layers, Appended(p))
  BY <1>3 DEF WrittenInv, Early, Filled, Accepted
<1>4. ASSUME NEW p \in Processes, NEW from, NEW to, Step(p, from, to)
      PROVE  pc[p] = from /\ pc'[p] = to /\ \A q \in Processes : q # p => pc'[q] = pc[q]
  BY <1>0, <1>4 DEF Step

\* The step leaves what concerns the adder p alone, but that p may go on from a
\* place where nothing is said of it, or to one.
<1> DEFINE Still(p) ==
        /\ layers' = layers /\ got'[p] = got[p] /\ inst' = inst
        /\ inodes'[p].content = inodes[p].content /\ inodes'[p].mode = inodes[p].mode
        /\ p \in was' => p \in was
        /\ pc'[p] \in Early => pc[p] \in Early
        /\ pc'[p] \in Filled => pc[p] \in Filled
        /\ pc'[p] \in Accepted =>
               pc[p] \in Accepted \/ ValidStructure(layers, Appended(p))
    Written(p) ==
        /\ inodes'[p].content \in {<<>>, Appended(p)'}
        /\ inodes'[p].mode = "private" \/ ~HasSecrets(layers', Appended(p)')
        /\ pc'[p] \in Early => inodes'[p].content = <<>> /\ inodes'[p].mode = "private"
        /\ pc'[p] \in Filled \/ p \in was' => inodes'[p].content = Appended(p)'
        /\ pc'[p] \in Accepted \/ p \in was' => ValidStructure(layers', Appended(p)')
<1>5. ASSUME NEW p \in Adders, Still(p) PROVE Written(p)
  <2>1. Appended(p)' = Appended(p)
    BY <1>5 DEF Appended
  <2> QED
    BY <1>3, <1>5, <2>1
<1>6. (\A p \in Adders : Written(p)) => WrittenInv'
  BY DEF WrittenInv, Early, Filled, Accepted
<1>7. ASSUME \A p \in Adders : Still(p) PROVE WrittenInv'
  BY <1>5, <1>6, <1>7
<1> HIDE DEF Written
\* Of one adder something is to be shown, the others are not touched.
<1>8. ASSUME NEW p \in Adders, Written(p), UNCHANGED <<layers, inst>>,
             \A q \in Adders : q # p => /\ pc'[q] = pc[q] /\ got'[q] = got[q]
                                        /\ inodes'[q] = inodes[q]
                                        /\ q \in was' => q \in was
      PROVE  WrittenInv'
  BY <1>5, <1>6, <1>8
<1>9. ASSUME NEW p \in Processes, Open(p) PROVE WrittenInv'
  BY <1>1, <1>4, <1>7, <1>9 DEF Open, Early, Filled, Accepted
<1>10. ASSUME NEW p \in Processes, Read(p) PROVE WrittenInv'
  <2>1. pc[p] = "read" /\ pc'[p] = "check"
        /\ (\A q \in Processes : q # p => pc'[q] = pc[q])
    BY <1>4, <1>10 DEF Read
  <2>2. UNCHANGED <<layers, inodes, was, inst>>
        /\ \A q \in Processes : q # p => got'[q] = got[q]
    BY <1>0, <1>10 DEF Read
  <2>3. CASE p \in Adders
    <3>1. Written(p)
      BY <1>2, <1>3, <2>1, <2>2, <2>3 DEF Written, Early, Filled, Accepted
    <3> QED
      BY <1>1, <1>8, <2>1, <2>2, <2>3, <3>1
  <2>4. CASE p \notin Adders
    BY <1>1, <1>7, <2>1, <2>2, <2>4
  <2> QED
    BY <2>3, <2>4
<1>11. ASSUME NEW p \in Processes, LoadFails(p) \/ Crash(p) PROVE WrittenInv'
  BY <1>0, <1>1, <1>7, <1>11 DEF LoadFails, Crash, Early, Filled, Accepted
<1>12. ASSUME NEW p \in Loaders, LoadReturns(p) PROVE WrittenInv'
  <2>1. PICK to : Step(p, "check", to)
    BY <1>12 DEF LoadReturns
  <2>2. \A q \in Adders : pc'[q] = pc[q]
    BY <1>1, <1>4, <2>1
  <2> QED
    BY <1>7, <1>12, <2>2 DEF LoadReturns
<1>13. ASSUME NEW p \in Adders, BadArguments(p) \/ Refuse(p) \/ Cleanup(p)
       PROVE  WrittenInv'
  BY <1>1, <1>4, <1>7, <1>13
  DEF BadArguments, Refuse, Cleanup, Early, Filled, Accepted
<1>14. ASSUME NEW p \in Adders, Accept(p) PROVE WrittenInv'
  BY <1>1, <1>4, <1>7, <1>14 DEF Accept, Acceptable, Early, Filled, Accepted
<1>15. ASSUME NEW p \in Adders, CreateTemp(p) PROVE WrittenInv'
  BY <1>1, <1>4, <1>7, <1>15 DEF CreateTemp, Early, Filled, Accepted
<1>16. ASSUME NEW p \in Adders, Chmod(p) PROVE WrittenInv'
  <2>1. pc[p] = "chmod" /\ pc'[p] = "write"
        /\ \A q \in Processes : q # p => pc'[q] = pc[q]
    BY <1>1, <1>4, <1>16 DEF Chmod, WriteStep
  <2>2. inodes' = [inodes EXCEPT ![p].mode = NewMode(p)]
        /\ UNCHANGED <<layers, got, inst, was>>
    BY <1>16 DEF Chmod, WriteStep
  <2>3. inodes'[p].content = inodes[p].content /\ inodes'[p].mode = NewMode(p)
        /\ \A q \in Inodes : q # p => inodes'[q] = inodes[q]
    BY <1>0, <1>1, <2>2
  <2>4. NewMode(p) = "private" \/ ~HasSecrets(layers, Appended(p))
    BY DEF NewMode
  <2>5. Appended(p)' = Appended(p)
    BY <2>2 DEF Appended
  <2>6. Written(p)
    BY <1>2, <1>3, <2>1, <2>2, <2>3, <2>4, <2>5 DEF Written, Early, Filled, Accepted
  <2> QED
    BY <1>1, <1>8, <2>1, <2>2, <2>3, <2>6
<1>17. ASSUME NEW p \in Adders, StartWrite(p) PROVE WrittenInv'
  <2>1. pc[p] = "write" /\ pc'[p] = "writing"
        /\ \A q \in Processes : q # p => pc'[q] = pc[q]
    BY <1>1, <1>4, <1>17 DEF StartWrite, WriteStep
  <2>2. inodes' = [inodes EXCEPT ![p].content = Appended(p)]
        /\ UNCHANGED <<layers, got, inst, was>>
    BY <1>17 DEF StartWrite, WriteStep
  <2>3. inodes'[p].content = Appended(p) /\ inodes'[p].mode = inodes[p].mode
        /\ \A q \in Inodes : q # p => inodes'[q] = inodes[q]
    BY <1>0, <1>1, <2>2
  <2>4. Appended(p)' = Appended(p)
    BY <2>2 DEF Appended
  <2>5. Written(p)
    BY <1>3, <2>1, <2>2, <2>3, <2>4 DEF Written, Early, Filled, Accepted
  <2> QED
    BY <1>1, <1>8, <2>1, <2>2, <2>3, <2>5
<1>18. ASSUME NEW p \in Adders, FinishWrite(p) \/ Sync(p) \/ CloseTemp(p)
       PROVE  WrittenInv'
  <2>1. pc[p] \in {"writing", "sync", "close"} /\ pc'[p] \in {"sync", "close", "rename"}
        /\ \A q \in Processes : q # p => pc'[q] = pc[q]
    BY <1>1, <1>4, <1>18 DEF FinishWrite, Sync, CloseTemp, WriteStep
  <2>2. UNCHANGED <<layers, got, inst, was>>
    BY <1>18 DEF FinishWrite, Sync, CloseTemp, WriteStep
  <2>3. \A q \in Inodes : inodes'[q].content = inodes[q].content
                          /\ inodes'[q].mode = inodes[q].mode
    BY <1>0, <1>1, <1>18 DEF FinishWrite, Sync, CloseTemp
  <2> QED
    BY <1>1, <1>7, <2>1, <2>2, <2>3 DEF Early, Filled, Accepted
<1>19. ASSUME NEW p \in Adders, Rename(p) PROVE WrittenInv'
  <2>1. pc[p] = "rename" /\ pc'[p] = "ok"
        /\ \A q \in Processes : q # p => pc'[q] = pc[q]
    BY <1>1, <1>4, <1>19 DEF Rename
  <2>2. UNCHANGED <<layers, inodes, got, inst>> /\ was' = was \cup {p}
    BY <1>19 DEF Rename
  <2>3. Appended(p)' = Appended(p)
    BY <2>2 DEF Appended
  <2>4. Written(p)
    BY <1>3, <2>1, <2>2, <2>3 DEF Written, Early, Filled, Accepted
  <2> QED
    BY <1>1, <1>8, <2>1, <2>2, <2>4
<1>20. ASSUME NEW p \in Adders, WriteFails(p) PROVE WrittenInv'
  BY <1>0, <1>1, <1>7, <1>20 DEF WriteFails, Early, Filled, Accepted
<1>21. CASE PowerLoss
  <2>1. \A q \in Inodes : inodes'[q].content = inodes[q].content
                          /\ inodes'[q].mode = inodes[q].mode
    BY <1>0, <1>21 DEF PowerLoss
  <2>2. \A q \in Processes : pc'[q] = pc[q] \/ pc'[q] = "dead"
    BY <1>21 DEF PowerLoss
  <2>3. UNCHANGED <<layers, got, inst, was>>
    BY <1>21 DEF PowerLoss
  <2> QED
    BY <1>1, <1>7, <2>1, <2>2, <2>3 DEF Early, Filled, Accepted
<1>22. CASE UNCHANGED vars
  BY <1>7, <1>22 DEF vars
<1> QED
  BY <1>9, <1>10, <1>11, <1>12, <1>13, <1>14, <1>15, <1>16, <1>17, <1>18, <1>19,
     <1>20, <1>21, <1>22
  DEF ConfigNext, Add

-----------------------------------------------------------------------------
(* Where the contents come from                                            *)

LEMMA GrownNext ==
  ASSUME FileTypeOK, WasInv, WrittenInv, GrownInv, [ConfigNext]_vars
  PROVE  GrownInv'
<1>0. pc \in [Processes -> Places] /\ inst \in [Adders -> Additions]
      /\ inodes \in [Inodes -> [content : Contents, mode : Modes,
                                whole : BOOLEAN, synced : BOOLEAN]]
      /\ got \in [Processes -> [content : Contents, mode : Modes]]
  BY DEF FileTypeOK
<1>1. 0 \notin Adders /\ Adders \subseteq Processes /\ Adders \subseteq Inodes
      /\ Loaders \subseteq Processes
  BY ConfigAssumption DEF Processes, Inodes
<1>2. was \subseteq Inodes /\ (\A p \in Adders : p \in was => pc[p] = "ok")
      /\ \A p \in Processes : opened[p] \in was
  BY DEF WasInv
<1>3. (\A i \in was : Grown(inodes[i].content, was \ {0}))
      /\ \A p \in Processes :
             pc[p] \notin {"start", "read", "err", "dead"} =>
                 Grown(got[p].content, was \ {0})
  BY DEF GrownInv

\* A step that reads nothing and writes nothing that was in place.
<1>4. ASSUME UNCHANGED <<was, got>>,
             \A i \in was : inodes'[i].content = inodes[i].content,
             \A p \in Processes : pc'[p] \notin {"start", "read", "err", "dead"} =>
                                  pc[p] \notin {"start", "read", "err", "dead"}
      PROVE  GrownInv'
  BY <1>3, <1>4 DEF GrownInv
<1>5. ASSUME NEW p \in Processes, NEW from, NEW to, Step(p, from, to)
      PROVE  pc[p] = from /\ pc'[p] = to /\ \A q \in Processes : q # p => pc'[q] = pc[q]
  BY <1>0, <1>5 DEF Step
<1>6. ASSUME NEW p \in Processes, Open(p) PROVE GrownInv'
  BY <1>4, <1>5, <1>6 DEF Open
<1>7. ASSUME NEW p \in Processes, Read(p) PROVE GrownInv'
  <2>1. \A q \in Processes : q # p => pc'[q] = pc[q]
    BY <1>5, <1>7 DEF Read
  <2>2. UNCHANGED <<inodes, was>> /\ got'[p].content = inodes[opened[p]].content
        /\ \A q \in Processes : q # p => got'[q] = got[q]
    BY <1>0, <1>7 DEF Read
  <2>3. Grown(got'[p].content, was \ {0})
    BY <1>2, <1>3, <2>2
  <2>4. \A q \in Processes :
            pc'[q] \notin {"start", "read", "err", "dead"} =>
                Grown(got'[q].content, was \ {0})
    BY <1>3, <2>1, <2>2, <2>3
  <2> QED
    BY <1>3, <2>2, <2>4 DEF GrownInv
<1>8. ASSUME NEW p \in Processes, LoadFails(p) \/ Crash(p) PROVE GrownInv'
  BY <1>0, <1>4, <1>8 DEF LoadFails, Crash
<1>9. ASSUME NEW p \in Loaders, LoadReturns(p) PROVE GrownInv'
  <2>1. PICK to : Step(p, "check", to)
    BY <1>9 DEF LoadReturns
  <2>2. UNCHANGED <<was, got, inodes>>
    BY <1>9 DEF LoadReturns
  <2>3. pc[p] = "check" /\ \A q \in Processes : q # p => pc'[q] = pc[q]
    BY <1>1, <1>5, <2>1
  <2> QED
    BY <1>4, <2>2, <2>3
<1>10. ASSUME NEW p \in Adders, BadArguments(p) \/ Refuse(p) \/ Accept(p)
              \/ CreateTemp(p) \/ Cleanup(p)
       PROVE  GrownInv'
  BY <1>1, <1>4, <1>5, <1>10
  DEF BadArguments, Refuse, Accept, CreateTemp, Cleanup
<1>11. ASSUME NEW p \in Adders, Chmod(p) \/ StartWrite(p) \/ FinishWrite(p)
              \/ Sync(p) \/ CloseTemp(p)
       PROVE  GrownInv'
  <2>1. UNCHANGED <<was, got>>
    BY <1>11 DEF Chmod, StartWrite, FinishWrite, Sync, CloseTemp, WriteStep
  <2>2. pc[p] \in {"chmod", "write", "writing", "sync", "close"}
        /\ \A q \in Processes : q # p => pc'[q] = pc[q]
    BY <1>1, <1>5, <1>11
    DEF Chmod, StartWrite, FinishWrite, Sync, CloseTemp, WriteStep
  <2>3. p \notin was
    BY <1>2, <2>2
  <2>4. \A i \in Inodes : i # p => inodes'[i] = inodes[i]
    BY <1>0, <1>11 DEF Chmod, StartWrite, FinishWrite, Sync, CloseTemp
  <2> QED
    BY <1>2, <1>4, <2>1, <2>2, <2>3, <2>4
<1>12. ASSUME NEW p \in Adders, Rename(p) PROVE GrownInv'
  <2>1. pc[p] = "rename" /\ \A q \in Processes : q # p => pc'[q] = pc[q]
    BY <1>1, <1>5, <1>12 DEF Rename
  <2>2. UNCHANGED <<inodes, got>> /\ was' = was \cup {p}
    BY <1>12 DEF Rename
  <2>3. p \notin was \ {0} /\ was \ {0} \subseteq Adders
        /\ was' \ {0} = (was \ {0}) \cup {p}
    BY <1>1, <1>2, <2>1, <2>2 DEF Inodes
  <2>4. inodes[p].content = Append(got[p].content, inst[p])
    BY <2>1 DEF WrittenInv, Appended
  <2>5. inst[p] \in Additions /\ Grown(got[p].content, was \ {0})
    BY <1>0, <1>1, <1>3, <2>1
  <2>6. Grown(inodes[p].content, was' \ {0})
    <3>1. Grown(Append(got[p].content, inst[p]), (was \ {0}) \cup {p})
      BY <2>3, <2>5, GrownAppend
    <3> QED
      BY <2>3, <2>4, <3>1
  <2>7. \A c : Grown(c, was \ {0}) => Grown(c, was' \ {0})
    BY <2>3, GrownMonotone
  <2>8. \A i \in was' : Grown(inodes'[i].content, was' \ {0})
    BY <1>3, <2>2, <2>6, <2>7
  <2>9. \A q \in Processes :
            pc'[q] \notin {"start", "read", "err", "dead"} =>
                Grown(got'[q].content, was' \ {0})
    BY <1>3, <2>1, <2>2, <2>7
  <2> QED
    BY <2>8, <2>9 DEF GrownInv
<1>13. ASSUME NEW p \in Adders, WriteFails(p) PROVE GrownInv'
  BY <1>0, <1>4, <1>13 DEF WriteFails
<1>14. CASE PowerLoss
  <2>1. \A q \in Inodes : inodes'[q].content = inodes[q].content
    BY <1>0, <1>14 DEF PowerLoss
  <2>2. \A q \in Processes : pc'[q] = pc[q] \/ pc'[q] = "dead"
    BY <1>14 DEF PowerLoss
  <2>3. UNCHANGED <<got, was>>
    BY <1>14 DEF PowerLoss
  <2> QED
    BY <1>2, <1>4, <2>1, <2>2, <2>3
<1>15. CASE UNCHANGED vars
  BY <1>4, <1>15 DEF vars
<1> QED
  BY <1>6, <1>7, <1>8, <1>9, <1>10, <1>11, <1>12, <1>13, <1>14, <1>15
  DEF ConfigNext, Add

-----------------------------------------------------------------------------
(* Type correctness                                                        *)

LEMMA TypeNext ==
  ASSUME FileTypeOK, WasInv, GrownInv, [ConfigNext]_vars
  PROVE  FileTypeOK'
<1> DEFINE Files == [content : Contents, mode : Modes, whole : BOOLEAN, synced : BOOLEAN]
           Reads == [content : Contents, mode : Modes]
<1>0. /\ layers \in Layers /\ inodes \in [Inodes -> Files] /\ pc \in [Processes -> Places]
      /\ opened \in [Processes -> Inodes] /\ got \in [Processes -> Reads]
      /\ inst \in [Adders -> Additions]
  BY DEF FileTypeOK
<1>1. 0 \notin Adders /\ Adders \subseteq Processes /\ Adders \subseteq Inodes
      /\ Loaders \subseteq Processes
  BY ConfigAssumption DEF Processes, Inodes
<1>2. path \in Inodes /\ was \subseteq Inodes
      /\ (\A p \in Adders : p \in was => pc[p] = "ok")
  BY DEF WasInv
<1>3. ASSUME UNCHANGED <<layers, inst>>, inodes' \in [Inodes -> Files],
             pc' \in [Processes -> Places], opened' \in [Processes -> Inodes],
             got' \in [Processes -> Reads]
      PROVE  FileTypeOK'
  BY <1>0, <1>3 DEF FileTypeOK
<1>4. ASSUME NEW p \in Processes, NEW from, NEW to \in Places, Step(p, from, to)
      PROVE  pc' \in [Processes -> Places]
  BY <1>0, <1>4 DEF Step
<1> HIDE DEF Files, Reads
<1>5. ASSUME NEW p \in Processes, Open(p) PROVE FileTypeOK'
  <2>1. pc' \in [Processes -> Places]
    BY <1>4, <1>5 DEF Open, Places
  <2>2. opened' \in [Processes -> Inodes] /\ UNCHANGED <<layers, inst, inodes, got>>
    BY <1>0, <1>2, <1>5 DEF Open
  <2> QED
    BY <1>0, <1>3, <2>1, <2>2
<1>6. ASSUME NEW p \in Processes, Read(p) PROVE FileTypeOK'
  <2>1. pc' \in [Processes -> Places]
    BY <1>4, <1>6 DEF Read, Places
  <2>2. inodes[opened[p]] \in Files
    BY <1>0
  <2>3. [content |-> inodes[opened[p]].content, mode |-> inodes[opened[p]].mode] \in Reads
    BY <2>2 DEF Files, Reads
  <2>4. got' \in [Processes -> Reads] /\ UNCHANGED <<layers, inst, inodes, opened>>
    BY <1>0, <1>6, <2>3 DEF Read
  <2> QED
    BY <1>0, <1>3, <2>1, <2>4
<1>7. ASSUME NEW p \in Processes, LoadFails(p) \/ Crash(p) PROVE FileTypeOK'
  <2>1. pc' \in [Processes -> Places]
    BY <1>0, <1>7 DEF LoadFails, Crash, Places
  <2> QED
    BY <1>0, <1>3, <1>7, <2>1 DEF LoadFails, Crash
<1>8. ASSUME NEW p \in Loaders, LoadReturns(p) PROVE FileTypeOK'
  <2>1. PICK to \in {"ok", "err"} : Step(p, "check", to)
    BY <1>8 DEF LoadReturns
  <2>2. pc' \in [Processes -> Places]
    BY <1>1, <1>4, <2>1 DEF Places
  <2>3. UNCHANGED <<layers, inst, inodes, opened, got>>
    BY <1>8 DEF LoadReturns
  <2> QED
    BY <1>0, <1>3, <2>2, <2>3
<1>9. ASSUME NEW p \in Adders, BadArguments(p) \/ Refuse(p) \/ Accept(p)
             \/ CreateTemp(p) \/ Rename(p) \/ Cleanup(p)
      PROVE  FileTypeOK'
  <2>1. pc' \in [Processes -> Places]
    BY <1>1, <1>4, <1>9
    DEF BadArguments, Refuse, Accept, CreateTemp, Rename, Cleanup, Places
  <2> QED
    BY <1>0, <1>3, <1>9, <2>1
    DEF BadArguments, Refuse, Accept, CreateTemp, Rename, Cleanup
<1>10. ASSUME NEW p \in Adders, Chmod(p) \/ FinishWrite(p) \/ Sync(p) \/ CloseTemp(p)
       PROVE  FileTypeOK'
  <2>1. pc' \in [Processes -> Places]
    BY <1>1, <1>4, <1>10
    DEF Chmod, FinishWrite, Sync, CloseTemp, WriteStep, Places
  <2>2. NewMode(p) \in Modes
    BY <1>0, <1>1 DEF NewMode, Modes, Reads
  <2>3. inodes' \in [Inodes -> Files]
    <3>1. inodes[p] \in Files
      BY <1>0, <1>1
    <3>2. /\ [inodes[p] EXCEPT !.mode = NewMode(p)] \in Files
          /\ [inodes[p] EXCEPT !.whole = TRUE] \in Files
          /\ [inodes[p] EXCEPT !.synced = TRUE] \in Files
      BY <2>2, <3>1 DEF Files
    <3>3. CASE Chmod(p)
      BY <1>0, <3>2, <3>3 DEF Chmod
    <3>4. CASE FinishWrite(p)
      BY <1>0, <3>2, <3>4 DEF FinishWrite
    <3>5. CASE Sync(p)
      BY <1>0, <3>2, <3>5 DEF Sync
    <3>6. CASE CloseTemp(p)
      BY <1>0, <3>6 DEF CloseTemp
    <3> QED
      BY <1>10, <3>3, <3>4, <3>5, <3>6
  <2>4. UNCHANGED <<layers, inst, opened, got>>
    BY <1>10 DEF Chmod, FinishWrite, Sync, CloseTemp, WriteStep
  <2> QED
    BY <1>0, <1>3, <2>1, <2>3, <2>4
<1>11. ASSUME NEW p \in Adders, StartWrite(p) PROVE FileTypeOK'
  <2>1. pc' \in [Processes -> Places]
    BY <1>1, <1>4, <1>11 DEF StartWrite, WriteStep, Places
  <2>2. pc[p] = "write"
    BY <1>11 DEF StartWrite, WriteStep, Step
  <2>3. Appended(p) \in Contents
    <3>1. Grown(got[p].content, was \ {0}) /\ inst[p] \in Additions
      BY <1>0, <1>1, <2>2 DEF GrownInv
    <3>2. p \notin was \ {0} /\ was \ {0} \subseteq Adders
      BY <1>1, <1>2, <2>2 DEF Inodes
    <3>3. Grown(Appended(p), (was \ {0}) \cup {p})
      BY <3>1, <3>2, GrownAppend DEF Appended
    <3>4. (was \ {0}) \cup {p} \subseteq Adders
      BY <3>2
    <3> QED
      BY <3>3, <3>4, GrownContents
  <2>4. inodes' \in [Inodes -> Files]
    BY <1>0, <1>1, <1>11, <2>3 DEF StartWrite, Files
  <2>5. UNCHANGED <<layers, inst, opened, got>>
    BY <1>11 DEF StartWrite, WriteStep
  <2> QED
    BY <1>0, <1>3, <2>1, <2>4, <2>5
<1>12. ASSUME NEW p \in Adders, WriteFails(p) PROVE FileTypeOK'
  <2>1. pc' \in [Processes -> Places]
    BY <1>0, <1>12 DEF WriteFails, Places
  <2> QED
    BY <1>0, <1>3, <1>12, <2>1 DEF WriteFails
<1>13. CASE PowerLoss
  <2>1. pc' \in [Processes -> Places]
    BY <1>0, <1>13 DEF PowerLoss, Places
  <2>2. inodes' \in [Inodes -> Files]
    <3>1. \A f \in Files : [f EXCEPT !.whole = FALSE] \in Files
      BY DEF Files
    <3>2. PICK cut \in SUBSET {i \in Inodes : ~inodes[i].synced} :
              inodes' = [i \in Inodes |-> IF i \in cut THEN [inodes[i] EXCEPT !.whole = FALSE]
                                          ELSE inodes[i]]
      BY <1>13 DEF PowerLoss
    <3>3. \A i \in Inodes : inodes[i] \in Files
      BY <1>0
    <3> QED
      BY <3>1, <3>2, <3>3
  <2>3. UNCHANGED <<layers, inst, opened, got>>
    BY <1>13 DEF PowerLoss
  <2> QED
    BY <1>0, <1>3, <2>1, <2>2, <2>3
<1>14. CASE UNCHANGED vars
  BY <1>0, <1>3, <1>14 DEF vars
<1> QED
  BY <1>5, <1>6, <1>7, <1>8, <1>9, <1>10, <1>11, <1>12, <1>13, <1>14
  DEF ConfigNext, Add

-----------------------------------------------------------------------------
(* What every reachable state satisfies                                    *)

LEMMA ConfigInvariant == ConfigSpec => []ConfigInv
<1>1. ConfigInv /\ [ConfigNext]_vars => ConfigInv'
  <2> SUFFICES ASSUME ConfigInv, [ConfigNext]_vars PROVE ConfigInv'
    OBVIOUS
  <2>1. FileTypeOK /\ WasInv /\ WholeInv /\ WrittenInv /\ GrownInv
    BY TypeParts DEF ConfigInv
  <2>2. FileTypeOK' /\ WasInv' /\ WholeInv' /\ WrittenInv' /\ GrownInv'
    BY <2>1, TypeNext, WasNext, WholeNext, WrittenNext, GrownNext
  <2>3. ConfigTypeOK'
    BY <2>2, TypeParts, PTL
  <2> QED
    BY <2>2, <2>3 DEF ConfigInv
<1> QED
  BY <1>1, ConfigInvInit, PTL DEF ConfigSpec

(* Every variable keeps its type; in particular a file holds an original    *)
(* with an instance of each of some adders, and the configuration's name    *)
(* never stands for a temporary file.                                       *)
THEOREM ConfigTypeCorrect == ConfigSpec => []ConfigTypeOK
<1>1. ConfigInv => ConfigTypeOK
  BY DEF ConfigInv
<1> QED
  BY <1>1, ConfigInvariant, PTL

(* The configuration is a complete file at every moment, after crashes and  *)
(* losses of power too, and so is what any Load that succeeds has read,     *)
(* however many processes add and load.                                     *)
THEOREM ConfigurationIsWhole == ConfigSpec => []FileWhole
<1>1. ConfigInv => FileWhole
  BY DEF ConfigInv, WasInv, WholeInv, FileWhole, Processes
<1> QED
  BY <1>1, ConfigInvariant, PTL

(* No file that AddInstance makes shows a password or a PSK to others, at   *)
(* any moment between its creation and its replacement.                     *)
THEOREM SecretsStayPrivate == ConfigSpec => []SecretsPrivate
<1>1. ConfigInv => SecretsPrivate
  <2> SUFFICES ASSUME ConfigInv, NEW i \in {path} \cup temps, i # 0
               PROVE  ~Exposed(inodes[i])
    BY DEF SecretsPrivate
  <2>1. i \in Adders
    BY DEF ConfigInv, WasInv, Inodes
  <2>2. inodes[i].content \in {<<>>, Appended(i)}
        /\ (inodes[i].mode = "private" \/ ~HasSecrets(layers, Appended(i)))
    BY <2>1 DEF ConfigInv, WrittenInv
  <2>3. HasSecrets(layers, <<>>) => HasSecrets(layers, Appended(i))
    BY DEF HasSecrets
  <2> QED
    BY <2>2, <2>3 DEF Exposed
<1> QED
  BY <1>1, ConfigInvariant, PTL

(* A file that AddInstance has put in place passes the validation of every  *)
(* later command: unique selectors, known groups, valid values, whatever    *)
(* the owner wrote and however many processes add at once.                  *)
THEOREM ConfigurationIsConsistent == ConfigSpec => []Consistent
<1>1. ConfigInv => Consistent
  <2> SUFFICES ASSUME ConfigInv, path # 0
               PROVE  ValidStructure(layers, inodes[path].content)
    BY DEF Consistent
  <2>1. path \in Adders /\ path \in was
    BY DEF ConfigInv, WasInv, Inodes
  <2>2. inodes[path].content = Appended(path) /\ ValidStructure(layers, Appended(path))
    BY <2>1 DEF ConfigInv, WrittenInv
  <2> QED
    BY <2>2
<1> QED
  BY <1>1, ConfigInvariant, PTL

================================================================================
