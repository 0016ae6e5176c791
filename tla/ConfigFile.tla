----------------------------- MODULE ConfigFile -----------------------------
(***************************************************************************)
(* internal/config/config.go: AddInstance, run by several processes on one *)
(* configuration file, with Load beside it; processes die and the machine  *)
(* loses power at any moment.                                              *)
(*                                                                         *)
(* A file is an inode: 0 is the original, p the temporary file of process  *)
(* p, which becomes the configuration when it is renamed.                  *)
(***************************************************************************)
EXTENDS ConfigLayers, Functions

CONSTANTS
    Adders,       \* processes that run `config add-instance`, once each
    Loaders,      \* processes that load the configuration, once each
    Layers,       \* the globals and groups that files are tried with
    Originals,    \* the instances of the file as its owner wrote it
    Additions,    \* the instances that are added
    MaxInstances  \* as many as fit into maxConfigSize, 1 MiB

ASSUME ConfigAssumption ==
    /\ IsFiniteSet(Adders) /\ 0 \notin Adders /\ Adders \cap Loaders = {}
    /\ Originals \subseteq Seq(Instances) /\ Additions \subseteq Instances
    /\ MaxInstances \in Nat

Inodes == {0} \cup Adders

VARIABLES
    layers,     \* the globals and groups of the file, which no command changes
    inodes,     \* [content, mode, whole, synced] of each file
    path,       \* the inode under the configuration's name
    was,        \* every inode that has been there: a rename may be undone by
                \* a loss of power, as nothing syncs the directory
    temps,      \* the temporary files there are
    pc,         \* where each process stands
    opened,     \* the inode each has open
    got,        \* content and mode that each has read from it
    inst        \* the instance each adder adds

vars == <<layers, inodes, path, was, temps, pc, opened, got, inst>>

Processes == Adders \cup Loaders

\* A file that is still empty, or an original with an instance of each of some
\* adders.
Contents ==
    {<<>>} \cup UNION {{o \o a : o \in Originals, a \in [1..n -> Additions]} :
                          n \in 0..Cardinality(Adders)}

Modes == {"private", "open"}    \* 0600, or readable by group or others

Exposed(file) == HasSecrets(layers, file.content) /\ file.mode = "open"

Empty == [content |-> <<>>, mode |-> "private"]

ConfigTypeOK ==
    /\ layers \in Layers
    /\ inodes \in [Inodes -> [content : Contents, mode : Modes,
                              whole : BOOLEAN, synced : BOOLEAN]]
    /\ path \in Inodes
    /\ was \in SUBSET Inodes
    /\ temps \in SUBSET (Adders \ {path})
    /\ pc \in [Processes -> {"start", "read", "check", "create", "chmod", "write",
                             "writing", "sync", "close", "rename", "cleanup",
                             "ok", "err", "dead"}]
    /\ opened \in [Processes -> Inodes]
    /\ got \in [Processes -> [content : Contents, mode : Modes]]
    /\ inst \in [Adders -> Additions]

ConfigInit ==
    /\ layers \in Layers
    /\ \E c \in Originals, m \in Modes :
          inodes = [i \in Inodes |->
                       [content |-> IF i = 0 THEN c ELSE <<>>,
                        mode |-> IF i = 0 THEN m ELSE "private",
                        whole |-> i = 0, synced |-> i = 0]]
    /\ path = 0
    /\ was = {0}
    /\ temps = {}
    /\ pc = [p \in Processes |-> "start"]
    /\ opened = [p \in Processes |-> 0]
    /\ got = [p \in Processes |-> Empty]
    /\ inst \in [Adders -> Additions]

-----------------------------------------------------------------------------
(* loadFile, of AddInstance and of Load *)

Step(p, from, to) ==
    /\ pc[p] = from
    /\ pc' = [pc EXCEPT ![p] = to]

Open(p) ==
    /\ Step(p, "start", "read")
    /\ opened' = [opened EXCEPT ![p] = path]
    /\ UNCHANGED <<layers, inodes, path, was, temps, got, inst>>

\* Data and mode come from the same open file, whatever the name stands for now.
Read(p) ==
    /\ LET f == inodes[opened[p]] IN
          /\ Len(f.content) <= MaxInstances
          /\ got' = [got EXCEPT ![p] = [content |-> f.content, mode |-> f.mode]]
    /\ Step(p, "read", "check")
    /\ UNCHANGED <<layers, inodes, path, was, temps, opened, inst>>

\* The file cannot be opened, read, or parsed, or is too large.
LoadFails(p) ==
    /\ pc[p] \in {"start", "read"}
    /\ pc' = [pc EXCEPT ![p] = "err"]
    /\ UNCHANGED <<layers, inodes, path, was, temps, opened, got, inst>>

-----------------------------------------------------------------------------
(* Load and resolve *)

Wanted == {AnyInstance} \cup {SelectorOf(i) : i \in Additions \cup UNION {Range(o) : o \in Originals}}

\* For the instance that is asked for, or, for `--config` alone, the only one.
LoadReturns(p) ==
    /\ p \in Loaders
    /\ \E wanted \in Wanted :
          Step(p, "check", IF ~Exposed(got[p]) /\ Resolves(layers, got[p].content, wanted)
                           THEN "ok" ELSE "err")
    /\ UNCHANGED <<layers, inodes, path, was, temps, opened, got, inst>>

-----------------------------------------------------------------------------
(* AddInstance *)

\* runAddInstance refuses its arguments before it looks at the file.
BadArguments(p) ==
    /\ p \in Adders
    /\ Step(p, "start", "err")
    /\ UNCHANGED <<layers, inodes, path, was, temps, opened, got, inst>>

Appended(p) == Append(got[p].content, inst[p])

AcceptableMut(p) == ~Exposed(got[p])

Acceptable(p) == ~Exposed(got[p]) /\ ValidStructure(layers, Appended(p))

\* Also for an invalid value that is not modelled, or a name that is a link.
Refuse(p) ==
    /\ p \in Adders
    /\ Step(p, "check", "err")
    /\ UNCHANGED <<layers, inodes, path, was, temps, opened, got, inst>>

Accept(p) ==
    /\ p \in Adders
    /\ Acceptable(p)
    /\ Step(p, "check", "create")
    /\ UNCHANGED <<layers, inodes, path, was, temps, opened, got, inst>>

NewModeMut(p) == got[p].mode

NewMode(p) == IF HasSecrets(layers, Appended(p)) THEN "private" ELSE got[p].mode

\* os.CreateTemp makes the file with mode 0600.
CreateTemp(p) ==
    /\ \/ Step(p, "create", "err") /\ UNCHANGED temps
       \/ Step(p, "create", "chmod") /\ temps' = temps \cup {p}
    /\ UNCHANGED <<layers, inodes, path, was, opened, got, inst>>

\* A step of atomicWrite after that, which succeeds or leads to the removal.
WriteStep(p, from, to) ==
    /\ Step(p, from, to)
    /\ UNCHANGED <<layers, path, was, temps, opened, got, inst>>

WriteFails(p) ==
    /\ pc[p] \in {"chmod", "write", "writing", "sync", "close", "rename"}
    /\ pc' = [pc EXCEPT ![p] = "cleanup"]
    /\ UNCHANGED <<layers, inodes, path, was, temps, opened, got, inst>>

Chmod(p) ==
    /\ WriteStep(p, "chmod", "write")
    /\ inodes' = [inodes EXCEPT ![p].mode = NewMode(p)]

StartWrite(p) ==
    /\ WriteStep(p, "write", "writing")
    /\ inodes' = [inodes EXCEPT ![p].content = Appended(p)]

FinishWrite(p) ==
    /\ WriteStep(p, "writing", "sync")
    /\ inodes' = [inodes EXCEPT ![p].whole = TRUE]

SyncMut(p) ==
    /\ WriteStep(p, "sync", "close")
    /\ UNCHANGED inodes

Sync(p) ==
    /\ WriteStep(p, "sync", "close")
    /\ inodes' = [inodes EXCEPT ![p].synced = TRUE]

CloseTemp(p) ==
    /\ WriteStep(p, "close", "rename")
    /\ UNCHANGED inodes

\* As if the file were linked under the name: its own name stays.
RenameMut(p) ==
    /\ Step(p, "rename", "ok")
    /\ path' = p
    /\ was' = was \cup {p}
    /\ UNCHANGED <<layers, inodes, temps, opened, got, inst>>

Rename(p) ==
    /\ Step(p, "rename", "ok")
    /\ path' = p
    /\ was' = was \cup {p}
    /\ temps' = temps \ {p}
    /\ UNCHANGED <<layers, inodes, opened, got, inst>>

\* The deferred removal, whose own error nobody looks at.
Cleanup(p) ==
    /\ Step(p, "cleanup", "err")
    /\ temps' \in {temps, temps \ {p}}
    /\ UNCHANGED <<layers, inodes, path, was, opened, got, inst>>

-----------------------------------------------------------------------------
(* Failures of processes and of the machine *)

Finished == {"ok", "err", "dead"}

Crash(p) ==
    /\ pc[p] \notin Finished \cup {"start"}
    /\ pc' = [pc EXCEPT ![p] = "dead"]
    /\ UNCHANGED <<layers, inodes, path, was, temps, opened, got, inst>>

\* Everyone at work dies; a file that was not synced may be cut short; a rename
\* may not have reached the disk.
PowerLoss ==
    /\ pc' = [p \in Processes |->
                 IF pc[p] \in Finished \cup {"start"} THEN pc[p] ELSE "dead"]
    /\ \E cut \in SUBSET {i \in Inodes : ~inodes[i].synced} :
          inodes' = [i \in Inodes |-> IF i \in cut THEN [inodes[i] EXCEPT !.whole = FALSE]
                                      ELSE inodes[i]]
    /\ path' \in was
    /\ UNCHANGED <<layers, was, temps, opened, got, inst>>

-----------------------------------------------------------------------------
(* The specification *)

Add(p) ==
    \/ BadArguments(p) \/ Refuse(p) \/ Accept(p) \/ CreateTemp(p) \/ Chmod(p) \/ StartWrite(p)
    \/ FinishWrite(p) \/ Sync(p) \/ CloseTemp(p) \/ Rename(p)
    \/ WriteFails(p) \/ Cleanup(p)

ConfigNext ==
    \/ \E p \in Processes : Open(p) \/ Read(p) \/ LoadFails(p) \/ Crash(p)
    \/ \E p \in Loaders : LoadReturns(p)
    \/ \E p \in Adders : Add(p)
    \/ PowerLoss

ConfigSpec == ConfigInit /\ [][ConfigNext]_vars

-----------------------------------------------------------------------------
(* Properties *)

\* The configuration is a complete file at every moment, after a crash and a
\* loss of power too, and so is whatever a Load that succeeds has read.
FileWhole ==
    /\ inodes[path].whole
    /\ \A p \in Loaders : pc[p] = "ok" => inodes[opened[p]].whole

\* No file that AddInstance makes shows a password or PSK to others: neither
\* the configuration nor a temporary file, at any moment, abandoned or not.
SecretsPrivate ==
    \A i \in {path} \cup temps : i # 0 => ~Exposed(inodes[i])

\* However many processes add what at once, and whatever the owner wrote, a file
\* that AddInstance has made passes the validation of every later command: no
\* selector is there twice, no group unknown, no value invalid.
Consistent == path # 0 => ValidStructure(layers, inodes[path].content)

\* "AddInstance validates and atomically appends an instance to path": a process
\* that succeeds has appended its instance to what the configuration held.
AppendIsAtomic ==
    [][\A p \in Adders :
          pc[p] # "ok" /\ pc'[p] = "ok" =>
              inodes'[path'].content = Append(inodes[path].content, inst[p])]_vars

\* "The command rejects duplicate selectors and invalid values": an instance that
\* was added, while nothing else has replaced the file, is one that can be loaded.
AddedLoads ==
    \A p \in Adders :
        (pc[p] = "ok" /\ path = p) =>
            /\ Resolves(layers, inodes[p].content, SelectorOf(inst[p]))
            /\ Len(inodes[p].content) <= MaxInstances

=============================================================================
