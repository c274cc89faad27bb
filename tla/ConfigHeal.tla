----------------------------- MODULE ConfigHeal -----------------------------
(***************************************************************************)
(* The self-healing config: main()'s load, heal, write-back and validate   *)
(* (src/src/main.cpp, src/src/app_config.cpp) by the processes that open   *)
(* the same file: the service, its ExecStartPre -c, an operator's or an    *)
(* installer's -c. A process may be killed between any two system calls.   *)
(*                                                                         *)
(* A file is an inode, so that opening config.yaml.tmp again truncates     *)
(* what another process may be about to rename. A document keeps one key   *)
(* of each kind: an intrinsic without a usable default, the logging switch *)
(* an option overrides, and the port that is cut to 16 bits. Its text is   *)
(* longer than what libstdc++ holds back (1024 bytes), so all of it but    *)
(* the last newline is written, and a full disk noticed, before the test   *)
(* of the stream's state; the newline is left out.                         *)
(***************************************************************************)
EXTENDS Integers, FiniteSets

CONSTANTS
    Procs,        \* invocations of the binary, each run once
    Invocations,  \* command lines: [check, heal, verbose] of BOOLEAN
    Documents,    \* what an operator may have saved
    Ports,        \* 2^16
    DefaultPort, OtherPort,  \* 5602, and 5601 which validate() refuses
    Concurrent,   \* may two processes be alive at once?
    Killable,     \* may a process be killed?
    DiskFull,     \* may the write fail?
    MaxEdits      \* TLC bound: times the operator saves the file

\* An absent key is not in the domain; fx is unset or a verbose is off at 0.
Keys == {"fx", "verbose", "port"}
IsConfig(d) ==
    DOMAIN d \subseteq Keys /\ \A k \in DOMAIN d : d[k] \in Int

ASSUME ConfigAssumption ==
    /\ IsFiniteSet(Procs)
    /\ Invocations \subseteq [check : BOOLEAN, heal : BOOLEAN,
                              verbose : BOOLEAN]
    /\ \A d \in Documents : IsConfig(d) /\ DOMAIN d # {}
    /\ Documents # {}
    /\ Ports \in Nat \ {0}
    /\ DefaultPort \in 1..(Ports - 1) /\ OtherPort \in 1..(Ports - 1)
    /\ Concurrent \in BOOLEAN /\ Killable \in BOOLEAN
    /\ DiskFull \in BOOLEAN
    /\ MaxEdits \in Nat

NoFile == 0
Inodes == 1..(Cardinality(Procs) + 1)

\* A file without its text.
Truncated == <<>>
IsDocument(x) == DOMAIN x # {}

VARIABLES
    config,    \* the inode config.yaml names
    tmp,       \* the inode config.yaml.tmp names, or NoFile
    data,      \* what each inode holds
    pc,        \* where each process is
    args,      \* its command line
    cfg,       \* its AppConfig
    fd,        \* the inode its output stream has open
    edits,     \* history: times the operator saved the file
    approved,  \* history: a -c has exited 0 since the last of them
    healed     \* history: a heal has been renamed into place since then

files == <<config, tmp, data>>
procs == <<pc, args, cfg, fd>>
history == <<edits, approved, healed>>
vars == <<files, procs, history>>

Points == {"unstarted", "loading", "healing", "writing", "renaming",
           "validating", "exit0", "exit1", "serving", "killed"}
Over == {"unstarted", "exit0", "exit1", "serving", "killed"}

TypeOK ==
    /\ config \in Inodes \cup {NoFile} /\ tmp \in Inodes \cup {NoFile}
    /\ DOMAIN data = Inodes
    /\ \A i \in Inodes : IsConfig(data[i])
    /\ pc \in [Procs -> Points]
    /\ args \in [Procs -> [check : BOOLEAN, heal : BOOLEAN,
                           verbose : BOOLEAN]]
    /\ cfg \in [Procs -> [Keys -> Int]]
    /\ fd \in [Procs -> Inodes \cup {NoFile}]
    /\ edits \in Nat /\ approved \in BOOLEAN /\ healed \in BOOLEAN

NoArgs == [check |-> FALSE, heal |-> FALSE, verbose |-> FALSE]

\* AppConfig as constructed.
Defaults == [fx |-> 0, verbose |-> 0, port |-> DefaultPort]

-----------------------------------------------------------------------------
\* What AppConfig keeps of a key's value: the port is cut to 16 bits.
Kept(k, value) == IF k = "port" THEN value % Ports ELSE value

\* MUTANT of Filled: one key's default is never written.
FilledButOne(d) ==
    [k \in Keys \ ({"verbose"} \ DOMAIN d) |->
        IF k \in DOMAIN d THEN Kept(k, d[k]) ELSE Defaults[k]]

\* MUTANT of Filled: the port is looked for where it is not.
FilledElsewhere(d) ==
    [k \in Keys |-> IF k \in DOMAIN d \ {"port"} THEN Kept(k, d[k])
                                              ELSE Defaults[k]]

\* loadFromFile: absent keys take their defaults.
Filled(d) ==
    [k \in Keys |-> IF k \in DOMAIN d THEN Kept(k, d[k]) ELSE Defaults[k]]

\* Healer::healed.
Incomplete(d) == DOMAIN d # Keys

\* validate(), on the keys kept here.
Valid(d) == d.fx > 0 /\ d.port \notin {0, OtherPort}

Init ==
    /\ \E d \in Documents : data = [i \in Inodes |-> IF i = 1 THEN d
                                                     ELSE Truncated]
    /\ config = 1 /\ tmp = NoFile
    /\ pc = [p \in Procs |-> "unstarted"]
    /\ args = [p \in Procs |-> NoArgs]
    /\ cfg = [p \in Procs |-> Defaults]
    /\ fd = [p \in Procs |-> NoFile]
    /\ edits = 0 /\ approved = FALSE /\ healed = FALSE

Goto(p, point) == pc' = [pc EXCEPT ![p] = point]

Start(p) ==
    /\ pc[p] = "unstarted"
    /\ Concurrent \/ \A q \in Procs : pc[q] \in Over
    /\ Goto(p, "loading")
    /\ \E a \in Invocations : args' = [args EXCEPT ![p] = a]
    /\ UNCHANGED <<files, cfg, fd, history>>

\* YAML::LoadFile opens and parses it, and it has a streams list.
Readable == config # NoFile /\ IsDocument(data[config])

\* --verbose is applied to the loaded configuration before the heal.
Load(p) ==
    /\ pc[p] = "loading"
    /\ Readable
    /\ LET d == data[config] IN
         /\ cfg' = [cfg EXCEPT ![p] =
                      IF args[p].verbose
                      THEN [Filled(d) EXCEPT !.verbose = 1]
                      ELSE Filled(d)]
         /\ Goto(p, IF Incomplete(d) /\ args[p].heal THEN "healing"
                                                     ELSE "validating")
    /\ UNCHANGED <<files, args, fd, history>>

\* No file, or one without a streams list: exit 1.
LoadFails(p) ==
    /\ pc[p] = "loading"
    /\ ~Readable
    /\ Goto(p, "exit1")
    /\ UNCHANGED <<files, args, cfg, fd, history>>

\* MUTANT of TmpInode: the config is rewritten in place.
ConfigInode == {config}

\* open(path.tmp, O_CREAT | O_TRUNC): the inode that has the name, or a free
\* one.
TmpInode ==
    IF tmp # NoFile THEN {tmp}
    ELSE {i \in Inodes : i # config /\ \A p \in Procs : fd[p] # i}

OpenTmp(p) ==
    /\ pc[p] = "healing"
    /\ \E i \in TmpInode :
          /\ tmp' = i
          /\ data' = [data EXCEPT ![i] = Truncated]
          /\ fd' = [fd EXCEPT ![p] = i]
    /\ Goto(p, "writing")
    /\ UNCHANGED <<config, args, cfg, history>>

\* A read-only directory: not fatal, nothing written.
OpenTmpFails(p) ==
    /\ pc[p] = "healing"
    /\ Goto(p, "validating")
    /\ UNCHANGED <<files, args, cfg, fd, history>>

\* MUTANT of Unwritten: the stream's state is not tested.
UnwrittenUnnoticed == "renaming"

\* Where a failed write leads: the caller goes on with its configuration.
Unwritten == "validating"

WriteTmp(p) ==
    /\ pc[p] = "writing"
    /\ \/ /\ data' = [data EXCEPT ![fd[p]] = cfg[p]]
          /\ Goto(p, "renaming")
       \/ /\ DiskFull
          /\ data' = [data EXCEPT ![fd[p]] = Truncated]
          /\ Goto(p, Unwritten)
    /\ fd' = [fd EXCEPT ![p] = NoFile]
    /\ UNCHANGED <<config, tmp, args, cfg, history>>

\* MUTANT of Replace: the target is removed first.
RemoveThenReplace == config' = tmp /\ tmp' = NoFile

\* rename(2): atomic; without a source it fails and the process goes on.
Replace ==
    /\ config' = IF tmp = NoFile THEN config ELSE tmp
    /\ tmp' = NoFile

RenameTmp(p) ==
    /\ pc[p] = "renaming"
    /\ Replace
    /\ healed' = (healed \/ tmp # NoFile)
    /\ Goto(p, "validating")
    /\ UNCHANGED <<data, args, cfg, fd, edits, approved>>

Validate(p) ==
    /\ pc[p] = "validating"
    /\ \/ Valid(cfg[p]) /\ Goto(p, IF args[p].check THEN "exit0"
                                                    ELSE "serving")
       \/ ~Valid(cfg[p]) /\ Goto(p, "exit1")
    /\ approved' = (approved \/ (args[p].check /\ Valid(cfg[p])))
    /\ UNCHANGED <<files, args, cfg, fd, edits, healed>>

-----------------------------------------------------------------------------
Kill(p) ==
    /\ Killable
    /\ pc[p] \notin Over
    /\ Goto(p, "killed")
    /\ fd' = [fd EXCEPT ![p] = NoFile]
    /\ UNCHANGED <<files, args, cfg, history>>

\* The operator's editor saves a document, while nothing else runs.
Edit ==
    /\ edits < MaxEdits
    /\ config # NoFile
    /\ \A p \in Procs : pc[p] \in Over
    /\ \E d \in Documents : data' = [data EXCEPT ![config] = d]
    /\ edits' = edits + 1
    /\ approved' = FALSE /\ healed' = FALSE
    /\ UNCHANGED <<config, tmp, procs>>

Step(p) ==
    \/ Start(p) \/ Load(p) \/ LoadFails(p) \/ OpenTmp(p) \/ OpenTmpFails(p)
    \/ WriteTmp(p) \/ RenameTmp(p) \/ Validate(p) \/ Kill(p)

Next == Edit \/ \E p \in Procs : Step(p)

Spec == Init /\ [][Next]_vars

-----------------------------------------------------------------------------
\* app_config.cpp:288, "an interrupted write cannot leave a truncated config":
\* whatever is killed and whenever, and whether or not the disk fills up,
\* config.yaml is a whole document, the old one or a complete new one.
ConfigAlwaysWhole == Readable

\* Two processes healing the same file may truncate each other's temp file
\* or lose the race to rename it, but once both are done the file is whole.
WholeWhenQuiet ==
    (\A p \in Procs : pc[p] \in Over) => ConfigAlwaysWhole

\* A heal completes the file: once one has been written back, no process
\* starts another before the operator's next edit.
HealsOnce == healed => \A p \in Procs : pc[p] # "healing"

\* app_config.h:189-198: whatever is killed or fails, all that is seen to
\* happen to the file is that somebody saves it or that it is completed, at
\* once and leaving what was there.
Document == IF config = NoFile THEN Truncated ELSE data[config]
Contract == INSTANCE ConfigContract WITH doc <- Document, Default <- Defaults
ImplementsConfigContract == Contract!Spec

\* main.cpp:48, "Exit 0 = usable": a file that -c accepted is accepted by
\* every later start, whatever was killed in between, until it is edited.
ApprovedConfigStarts ==
    [][approved => \A p \in Procs : pc'[p] = "exit1" => pc[p] = "exit1"]_vars
=============================================================================
