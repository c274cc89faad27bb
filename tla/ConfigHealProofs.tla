-------------------------- MODULE ConfigHealProofs --------------------------
(***************************************************************************)
(* Theorems about ConfigHeal, for any number of processes, any documents   *)
(* and any command lines: its types always, and that the config stays      *)
(* whole, is completed once, stays approved and follows ConfigContract     *)
(* when one process runs at a time, wherever it is killed and whether or   *)
(* not a write fails; and that it ends up whole when several race.         *)
(***************************************************************************)
EXTENDS ConfigHeal, FiniteSetTheorems, TLAPS

USE DEF files, procs, history, NoFile

-----------------------------------------------------------------------------
LEMMA InodesArePositive ==
    /\ 1 \in Inodes
    /\ NoFile \notin Inodes
  <1>1. Cardinality(Procs) \in Nat
    BY FS_CardinalityType, ConfigAssumption
  <1> QED
    BY <1>1 DEF Inodes

\* A value AppConfig kept is kept again as it is.
LEMMA KeptIsKept ==
    ASSUME NEW x \in Int
    PROVE  /\ x % Ports \in 0..(Ports - 1)
           /\ x \in 0..(Ports - 1) => x % Ports = x
  BY ConfigAssumption

LEMMA DefaultsType == Defaults \in [Keys -> Int]
  BY ConfigAssumption DEF Defaults, Keys

\* Whatever was read, the loaded configuration has every key, and a port that
\* fits.
LEMMA FilledType ==
    ASSUME NEW d, IsConfig(d)
    PROVE  /\ Filled(d) \in [Keys -> Int]
           /\ Filled(d).port \in 0..(Ports - 1)
  <1>1. \A k \in Keys : (IF k \in DOMAIN d THEN Kept(k, d[k])
                                           ELSE Defaults[k]) \in Int
    BY DefaultsType, KeptIsKept DEF IsConfig, Kept
  <1>2. Filled(d) \in [Keys -> Int]
    BY <1>1 DEF Filled
  <1>3. Filled(d).port = IF "port" \in DOMAIN d THEN d["port"] % Ports
                                                ELSE DefaultPort
    BY DEF Filled, Keys, Kept, Defaults
  <1>4. Filled(d).port \in 0..(Ports - 1)
    <2>1. CASE "port" \in DOMAIN d
      BY <1>3, <2>1, KeptIsKept DEF IsConfig
    <2>2. CASE "port" \notin DOMAIN d
      BY <1>3, <2>2, ConfigAssumption
    <2> QED
      BY <2>1, <2>2
  <1> QED
    BY <1>2, <1>4

\* Reading back what was written back changes neither key.
LEMMA FilledAgain ==
    ASSUME NEW c \in [Keys -> Int], c.port \in 0..(Ports - 1)
    PROVE  Filled(c).fx = c.fx /\ Filled(c).port = c.port
  BY KeptIsKept DEF Filled, Kept, Keys

-----------------------------------------------------------------------------
LEMMA TypeInit == Init => TypeOK
  <1> SUFFICES ASSUME Init
               PROVE  TypeOK
    OBVIOUS
  <1>1. PICK d \in Documents :
            data = [i \in Inodes |-> IF i = 1 THEN d ELSE Truncated]
    BY DEF Init
  <1>2. DOMAIN data = Inodes /\ \A i \in Inodes : IsConfig(data[i])
    <2>1. IsConfig(d) /\ IsConfig(Truncated)
      BY ConfigAssumption DEF IsConfig, Truncated
    <2> QED
      BY <1>1, <2>1
  <1> QED
    BY <1>2, InodesArePositive, DefaultsType
    DEF Init, TypeOK, Points, NoArgs

LEMMA TypeStep == TypeOK /\ [Next]_vars => TypeOK'
  <1> SUFFICES ASSUME TypeOK, [Next]_vars
               PROVE  TypeOK'
    OBVIOUS
  <1> USE DEF TypeOK
  <1>1. ASSUME NEW p \in Procs, Start(p)
        PROVE  TypeOK'
    BY <1>1, ConfigAssumption DEF Start, Goto, Points
  <1>2. ASSUME NEW p \in Procs, Load(p)
        PROVE  TypeOK'
    <2>1. IsConfig(data[config])
      BY <1>2 DEF Load, Readable
    <2>2. /\ Filled(data[config]) \in [Keys -> Int]
          /\ [Filled(data[config]) EXCEPT !.verbose = 1] \in [Keys -> Int]
      BY <2>1, FilledType
    <2> QED
      BY <1>2, <2>2 DEF Load, Goto, Points
  <1>3. ASSUME NEW p \in Procs, LoadFails(p)
        PROVE  TypeOK'
    BY <1>3 DEF LoadFails, Goto, Points
  <1>4. ASSUME NEW p \in Procs, OpenTmp(p)
        PROVE  TypeOK'
    <2>1. TmpInode \subseteq Inodes
      BY DEF TmpInode
    <2>2. IsConfig(Truncated)
      BY DEF IsConfig, Truncated
    <2> QED
      BY <1>4, <2>1, <2>2 DEF OpenTmp, Goto, Points
  <1>5. ASSUME NEW p \in Procs, OpenTmpFails(p)
        PROVE  TypeOK'
    BY <1>5 DEF OpenTmpFails, Goto, Points
  <1>6. ASSUME NEW p \in Procs, WriteTmp(p)
        PROVE  TypeOK'
    <2>1. IsConfig(cfg[p]) /\ IsConfig(Truncated)
      BY DEF IsConfig, Truncated
    <2> QED
      BY <1>6, <2>1 DEF WriteTmp, Unwritten, Goto, Points
  <1>7. ASSUME NEW p \in Procs, RenameTmp(p)
        PROVE  TypeOK'
    BY <1>7 DEF RenameTmp, Replace, Goto, Points
  <1>8. ASSUME NEW p \in Procs, Validate(p)
        PROVE  TypeOK'
    BY <1>8 DEF Validate, Goto, Points
  <1>9. ASSUME NEW p \in Procs, Kill(p)
        PROVE  TypeOK'
    BY <1>9 DEF Kill, Goto, Points
  <1>10. CASE Edit
    <2>1. PICK d \in Documents : data' = [data EXCEPT ![config] = d]
      BY <1>10 DEF Edit
    <2>2. IsConfig(d)
      BY ConfigAssumption
    <2>3. DOMAIN data' = Inodes /\ \A i \in Inodes : IsConfig(data'[i])
      BY <2>1, <2>2
    <2>4. /\ UNCHANGED <<config, tmp, pc, args, cfg, fd>>
          /\ edits' \in Nat
      BY <1>10 DEF Edit
    <2>5. approved' \in BOOLEAN /\ healed' \in BOOLEAN
      BY <1>10, Zenon DEF Edit
    <2> QED
      BY <2>3, <2>4, <2>5
  <1>11. CASE UNCHANGED vars
    BY <1>11 DEF vars
  <1> QED
    BY <1>1, <1>2, <1>3, <1>4, <1>5, <1>6, <1>7, <1>8, <1>9, <1>10,
       <1>11 DEF Next, Step

\* Type correctness, whatever runs concurrently, is killed or fails.
THEOREM TypeCorrect == Spec => []TypeOK
  BY TypeInit, TypeStep, PTL DEF Spec

-----------------------------------------------------------------------------
(***************************************************************************)
(* One process at a time. The invariant follows the temp file: while a     *)
(* process writes, its stream and the temp name agree, and what it is      *)
(* about to rename is its own complete configuration. What makes an        *)
(* approval last is that every configuration in memory agrees with the     *)
(* file it was loaded from, on the keys validate() looks at.               *)
(***************************************************************************)
Alone ==
    \A p, q \in Procs : pc[p] \notin Over /\ pc[q] \notin Over => p = q

FileInv ==
    /\ config \in Inodes /\ tmp # config
    /\ IsDocument(data[config])
    /\ healed => DOMAIN data[config] = Keys
    /\ approved => Valid(Filled(data[config]))

Loaded == {"healing", "writing", "renaming", "validating"}

ProcInv(p) ==
    /\ pc[p] = "writing" => fd[p] = tmp /\ tmp # NoFile
    /\ pc[p] = "renaming" => tmp # NoFile /\ data[tmp] = cfg[p]
    /\ healed => pc[p] # "healing"
    /\ pc[p] \in Loaded => /\ cfg[p].port \in 0..(Ports - 1)
                           /\ cfg[p].fx = Filled(data[config]).fx
                           /\ cfg[p].port = Filled(data[config]).port

SoloInv ==
    /\ TypeOK
    /\ Alone
    /\ FileInv
    /\ \A p \in Procs : ProcInv(p)

LEMMA SoloInit == Init => SoloInv
  <1> SUFFICES ASSUME Init
               PROVE  SoloInv
    OBVIOUS
  <1>1. TypeOK
    BY TypeInit
  <1>2. PICK d \in Documents :
            data = [i \in Inodes |-> IF i = 1 THEN d ELSE Truncated]
    BY DEF Init
  <1>3. IsDocument(data[1])
    BY <1>2, InodesArePositive, ConfigAssumption DEF IsDocument
  <1>4. FileInv
    BY <1>3, InodesArePositive DEF Init, FileInv
  <1>5. \A p \in Procs : pc[p] = "unstarted"
    BY DEF Init
  <1> QED
    BY <1>1, <1>4, <1>5 DEF SoloInv, Alone, Over, ProcInv, Loaded

\* While one process steps, every other one is over and stays where it is.
LEMMA OthersOver ==
    ASSUME ~Concurrent, TypeOK, Alone, NEW p \in Procs, Step(p)
    PROVE  \A q \in Procs \ {p} : pc[q] \in Over /\ pc'[q] = pc[q]
  <1>1. \A q \in Procs \ {p} : pc'[q] = pc[q]
    BY DEF Step, Start, Load, LoadFails, OpenTmp, OpenTmpFails, WriteTmp,
           RenameTmp, Validate, Kill, Goto, TypeOK
  <1>2. CASE Start(p)
    BY <1>1, <1>2 DEF Start
  <1>3. CASE ~Start(p)
    <2>1. pc[p] \notin Over
      BY <1>3 DEF Step, Load, LoadFails, OpenTmp, OpenTmpFails, WriteTmp,
                  RenameTmp, Validate, Kill, Over
    <2> QED
      BY <1>1, <2>1 DEF Alone
  <1> QED
    BY <1>2, <1>3

LEMMA AloneStep ==
    ASSUME ~Concurrent, TypeOK, Alone, [Next]_vars
    PROVE  Alone'
  <1>1. ASSUME NEW p \in Procs, Step(p)
        PROVE  Alone'
    BY <1>1, OthersOver DEF Alone
  <1>2. CASE Edit \/ UNCHANGED vars
    BY <1>2 DEF Edit, vars, Alone
  <1> QED
    BY <1>1, <1>2 DEF Next

\* What a step of p does to the files and to p itself.
LEMMA StepOfOne ==
    ASSUME ~Concurrent, SoloInv, NEW p \in Procs, Step(p), TypeOK'
    PROVE  FileInv' /\ ProcInv(p)'
  <1> USE DEF SoloInv, FileInv, ProcInv, TypeOK, Loaded, Goto
  <1>1. CASE Start(p)
    BY <1>1 DEF Start
  <1>2. CASE Load(p)
    <2> DEFINE d == data[config]
    <2>1. IsConfig(d)
      OBVIOUS
    <2>2. /\ cfg'[p].fx = Filled(d).fx
          /\ cfg'[p].port = Filled(d).port
          /\ cfg'[p].port \in 0..(Ports - 1)
      BY <1>2, <2>1, FilledType DEF Load, Keys
    <2>3. healed => pc'[p] # "healing"
      BY <1>2 DEF Load, Incomplete
    <2>4. /\ UNCHANGED <<files, history>>
          /\ pc'[p] \in {"healing", "validating"}
      BY <1>2 DEF Load
    <2> QED
      BY <2>2, <2>3, <2>4
  <1>3. CASE LoadFails(p)
    BY <1>3 DEF LoadFails
  <1>4. CASE OpenTmp(p)
    <2>1. TmpInode \subseteq Inodes \ {config}
      BY DEF TmpInode
    <2>2. PICK i \in Inodes \ {config} :
              /\ tmp' = i /\ data' = [data EXCEPT ![i] = Truncated]
              /\ fd' = [fd EXCEPT ![p] = i]
      BY <1>4, <2>1 DEF OpenTmp
    <2>3. data'[config] = data[config] /\ tmp' # NoFile
      BY <2>2, InodesArePositive
    <2> QED
      BY <1>4, <2>2, <2>3 DEF OpenTmp
  <1>5. CASE OpenTmpFails(p)
    BY <1>5 DEF OpenTmpFails
  <1>6. CASE WriteTmp(p)
    <2>1. fd[p] = tmp /\ tmp \in Inodes /\ tmp # config
      BY <1>6 DEF WriteTmp
    <2>2. data'[config] = data[config]
      BY <1>6, <2>1 DEF WriteTmp
    <2>3. pc'[p] = "renaming" => data'[tmp] = cfg[p]
      BY <1>6, <2>1 DEF WriteTmp, Unwritten
    <2> QED
      BY <1>6, <2>1, <2>2, <2>3 DEF WriteTmp, Unwritten
  <1>7. CASE RenameTmp(p)
    <2>1. /\ config' = tmp /\ tmp' = NoFile /\ UNCHANGED <<data, cfg>>
          /\ data'[config'] = cfg[p] /\ config' \in Inodes
      BY <1>7 DEF RenameTmp, Replace
    <2>2. DOMAIN cfg[p] = Keys /\ Keys # {}
      BY DEF Keys
    <2>3. Filled(cfg[p]).fx = cfg[p].fx /\ Filled(cfg[p]).port = cfg[p].port
      BY <1>7, FilledAgain DEF RenameTmp
    <2>4. approved => Valid(Filled(cfg[p]))
      BY <1>7, <2>3 DEF RenameTmp, Valid
    <2> QED
      BY <1>7, <2>1, <2>2, <2>3, <2>4, InodesArePositive
      DEF RenameTmp, IsDocument
  <1>8. CASE Validate(p)
    <2>1. approved' => Valid(Filled(data[config]))
      BY <1>8 DEF Validate, Valid
    <2> QED
      BY <1>8, <2>1 DEF Validate
  <1>9. CASE Kill(p)
    BY <1>9 DEF Kill
  <1> QED
    BY <1>1, <1>2, <1>3, <1>4, <1>5, <1>6, <1>7, <1>8, <1>9 DEF Step

LEMMA SoloStep ==
    ASSUME ~Concurrent, SoloInv, [Next]_vars
    PROVE  SoloInv'
  <1>1. TypeOK' /\ Alone'
    BY TypeStep, AloneStep DEF SoloInv
  <1>2. ASSUME NEW p \in Procs, Step(p)
        PROVE  FileInv' /\ \A q \in Procs : ProcInv(q)'
    <2>1. FileInv' /\ ProcInv(p)'
      BY <1>1, <1>2, StepOfOne
    <2>2. \A q \in Procs \ {p} : pc'[q] \in Over
      BY <1>2, OthersOver DEF SoloInv
    <2>3. \A q \in Procs \ {p} : ProcInv(q)'
      BY <2>2 DEF ProcInv, Over, Loaded
    <2> QED
      BY <2>1, <2>3
  <1>3. CASE Edit
    <2>1. PICK d \in Documents : data' = [data EXCEPT ![config] = d]
      BY <1>3 DEF Edit
    <2>2. FileInv'
      BY <1>3, <2>1, ConfigAssumption
      DEF Edit, SoloInv, FileInv, TypeOK, IsDocument
    <2>3. \A q \in Procs : pc'[q] \in Over
      BY <1>3 DEF Edit
    <2> QED
      BY <1>1, <2>2, <2>3 DEF SoloInv, ProcInv, Over, Loaded
  <1>4. CASE UNCHANGED vars
    BY <1>1, <1>4 DEF vars, SoloInv, FileInv, ProcInv
  <1> QED
    BY <1>1, <1>2, <1>3, <1>4 DEF Next, SoloInv

-----------------------------------------------------------------------------
\* Whatever is killed, and whichever write fails, config.yaml is whole.
THEOREM ConfigNeverTruncated == ~Concurrent => (Spec => []ConfigAlwaysWhole)
  <1> SUFFICES ASSUME ~Concurrent
               PROVE  Spec => []ConfigAlwaysWhole
    OBVIOUS
  <1>1. SoloInv => ConfigAlwaysWhole
    BY InodesArePositive
    DEF SoloInv, FileInv, ConfigAlwaysWhole, Readable
  <1>2. SoloInv /\ [Next]_vars => SoloInv'
    BY SoloStep
  <1> QED
    BY SoloInit, <1>1, <1>2, PTL DEF Spec

\* A completed heal is the last one until the next edit.
THEOREM HealedOnce == ~Concurrent => (Spec => []HealsOnce)
  <1> SUFFICES ASSUME ~Concurrent
               PROVE  Spec => []HealsOnce
    OBVIOUS
  <1>1. SoloInv => HealsOnce
    BY DEF SoloInv, ProcInv, HealsOnce
  <1>2. SoloInv /\ [Next]_vars => SoloInv'
    BY SoloStep
  <1> QED
    BY SoloInit, <1>1, <1>2, PTL DEF Spec

\* What -c approved, every later start accepts, until the file is edited.
THEOREM ApprovalLasts == ~Concurrent => (Spec => ApprovedConfigStarts)
  <1> SUFFICES ASSUME ~Concurrent
               PROVE  Spec => ApprovedConfigStarts
    OBVIOUS
  <1> DEFINE NoNewRefusal == \A p \in Procs : pc'[p] = "exit1" => pc[p] = "exit1"
  <1>1. ASSUME SoloInv, approved, [Next]_vars
        PROVE  NoNewRefusal
    <2> USE DEF NoNewRefusal
    <2>1. ASSUME NEW p \in Procs, Step(p)
          PROVE  NoNewRefusal
      <3>1. \A q \in Procs \ {p} : pc'[q] = pc[q]
        BY <1>1, <2>1, OthersOver DEF SoloInv
      <3>2. ~LoadFails(p)
        BY <1>1, InodesArePositive DEF LoadFails, Readable, SoloInv, FileInv
      <3>3. pc[p] = "validating" => Valid(cfg[p])
        BY <1>1 DEF SoloInv, FileInv, ProcInv, Loaded, Valid
      <3>4. pc'[p] # "exit1"
        BY <1>1, <2>1, <3>2, <3>3
        DEF Step, Start, Load, OpenTmp, OpenTmpFails, WriteTmp, Unwritten,
            RenameTmp, Validate, Kill, Goto, SoloInv, TypeOK
      <3> QED
        BY <3>1, <3>4
    <2>2. CASE Edit \/ UNCHANGED vars
      BY <2>2 DEF Edit, vars
    <2> QED
      BY <1>1, <2>1, <2>2 DEF Next
  <1>2. SoloInv /\ [Next]_vars => SoloInv'
    BY SoloStep
  <1>3. SoloInv /\ [Next]_vars => [approved => NoNewRefusal]_vars
    BY <1>1
  <1> QED
    BY SoloInit, <1>2, <1>3, PTL DEF Spec, ApprovedConfigStarts

-----------------------------------------------------------------------------
(***************************************************************************)
(* The contract, one process at a time. A configuration on its way to the  *)
(* disk is the completion of the document that is there when it arrives:   *)
(* nobody else has touched the file since it was read.                     *)
(***************************************************************************)
Completes(c, d) ==
    /\ DOMAIN d # Keys
    /\ \A k \in Keys \ {"port", "verbose"} :
          c[k] = IF k \in DOMAIN d THEN d[k] ELSE Defaults[k]
    /\ c["port"] = (IF "port" \in DOMAIN d THEN d["port"]
                                           ELSE Defaults["port"]) % Ports
    /\ c["verbose"] \in
          {IF "verbose" \in DOMAIN d THEN d["verbose"] ELSE Defaults["verbose"], 1}

PendingInv ==
    \A p \in Procs :
        pc[p] \in {"healing", "writing", "renaming"} =>
            Completes(cfg[p], data[config])

\* What is loaded from an incomplete document completes it.
LEMMA LoadedCompletes ==
    ASSUME NEW d, IsConfig(d), Incomplete(d)
    PROVE  /\ Completes(Filled(d), d)
           /\ Completes([Filled(d) EXCEPT !.verbose = 1], d)
  <1> DEFINE f == Filled(d)
             g == [f EXCEPT !.verbose = 1]
  <1>1. DOMAIN d # Keys
    BY DEF Incomplete
  <1>2. \A k \in Keys \ {"port"} :
            f[k] = IF k \in DOMAIN d THEN d[k] ELSE Defaults[k]
    BY DEF Filled, Kept
  <1>3. f["port"] = (IF "port" \in DOMAIN d THEN d["port"]
                                           ELSE Defaults["port"]) % Ports
    <2>1. f["port"] = IF "port" \in DOMAIN d THEN d["port"] % Ports
                                             ELSE Defaults["port"]
      BY DEF Filled, Kept, Keys
    <2>2. Defaults["port"] % Ports = Defaults["port"]
      BY KeptIsKept, ConfigAssumption DEF Defaults
    <2> QED
      BY <2>1, <2>2
  <1>4. /\ \A k \in Keys \ {"verbose"} : g[k] = f[k]
        /\ g["verbose"] = 1
    BY FilledType DEF Keys
  <1>5. "verbose" \in Keys /\ "port" \in Keys
    BY DEF Keys
  <1> HIDE DEF f, g
  <1>6. Completes(f, d) /\ Completes(g, d)
    BY <1>1, <1>2, <1>3, <1>4, <1>5 DEF Completes
  <1> QED
    BY <1>6 DEF f, g

LEMMA PendingStep ==
    ASSUME ~Concurrent, SoloInv, PendingInv, [Next]_vars
    PROVE  PendingInv'
  <1>1. TypeOK /\ TypeOK'
    BY TypeStep DEF SoloInv
  <1>2. ASSUME NEW p \in Procs, Step(p)
        PROVE  PendingInv'
    <2>1. \A q \in Procs \ {p} :
              pc'[q] \notin {"healing", "writing", "renaming"}
      BY <1>1, <1>2, OthersOver DEF SoloInv, Over
    <2>2. SUFFICES ASSUME pc'[p] \in {"healing", "writing", "renaming"}
                   PROVE  Completes(cfg[p], data[config])'
      BY <2>1 DEF PendingInv
    <2>3. CASE Load(p)
      <3> DEFINE d == data[config]
      <3>1. IsConfig(d) /\ Incomplete(d)
        BY <1>1, <2>2, <2>3 DEF Load, Goto, Readable, TypeOK
      <3>2. cfg'[p] \in {Filled(d), [Filled(d) EXCEPT !.verbose = 1]}
        BY <1>1, <2>3 DEF Load, TypeOK
      <3>3. data'[config'] = d
        BY <2>3 DEF Load
      <3>4. Completes(cfg'[p], d)
        BY <3>1, <3>2, LoadedCompletes
      <3> QED
        BY <3>3, <3>4 DEF Completes
    <2>4. CASE ~Load(p)
      <3>1. pc[p] \in {"healing", "writing"}
        BY <1>1, <1>2, <2>2, <2>4
        DEF Step, Start, LoadFails, OpenTmp, OpenTmpFails, WriteTmp, RenameTmp,
            Validate, Kill, Goto, TypeOK
      <3>2. OpenTmp(p) \/ WriteTmp(p)
        BY <1>1, <1>2, <2>2, <2>4, <3>1
        DEF Step, Start, LoadFails, OpenTmpFails, RenameTmp, Validate, Kill,
            Goto, TypeOK
      <3>3. config' = config /\ cfg' = cfg
        BY <3>2 DEF OpenTmp, WriteTmp
      <3>4. data'[config] = data[config]
        <4>1. CASE OpenTmp(p)
          BY <1>1, <4>1 DEF OpenTmp, TmpInode, SoloInv, FileInv, TypeOK
        <4>2. CASE WriteTmp(p)
          BY <1>1, <4>2
          DEF WriteTmp, SoloInv, FileInv, ProcInv, TypeOK
        <4> QED
          BY <3>2, <4>1, <4>2
      <3>5. Completes(cfg[p], data[config])
        BY <3>1 DEF PendingInv
      <3> QED
        BY <3>3, <3>4, <3>5 DEF Completes
    <2> QED
      BY <2>3, <2>4
  <1>3. CASE Edit
    BY <1>3 DEF Edit, PendingInv, Over
  <1>4. CASE UNCHANGED vars
    BY <1>4 DEF vars, PendingInv, Completes
  <1> QED
    BY <1>2, <1>3, <1>4 DEF Next

\* A rename completes the file, an edit saves it, and no other step is seen.
LEMMA ContractStep ==
    ASSUME ~Concurrent, SoloInv, PendingInv, [Next]_vars
    PROVE  [Contract!Next]_Document
  <1>1. TypeOK /\ TypeOK' /\ SoloInv'
    BY SoloStep DEF SoloInv
  <1>2. Document = data[config] /\ Document' = data'[config']
    BY <1>1, InodesArePositive DEF Document, SoloInv, FileInv
  <1>3. ASSUME NEW p \in Procs, RenameTmp(p)
        PROVE  Contract!Complete
    <2>1. data'[config'] = cfg[p]
      BY <1>3 DEF RenameTmp, Replace, SoloInv, ProcInv
    <2>2. Completes(cfg[p], data[config])
      BY <1>3 DEF RenameTmp, PendingInv
    <2>3. DOMAIN cfg[p] = Keys
      BY <1>1 DEF TypeOK
    <2> QED
      BY <1>2, <2>1, <2>2, <2>3
      DEF Completes, Contract!Complete, Contract!Meaning
  <1>4. CASE Edit
    <2>1. PICK d \in Documents : data' = [data EXCEPT ![config] = d]
      BY <1>4 DEF Edit
    <2>2. config' = config /\ config \in DOMAIN data
      BY <1>1, <1>4 DEF Edit, SoloInv, FileInv, TypeOK
    <2>3. Document' = d
      BY <1>2, <2>1, <2>2
    <2> QED
      BY <2>3 DEF Contract!Next, Contract!Save
  <1>5. ASSUME NEW p \in Procs, Step(p), ~RenameTmp(p)
        PROVE  UNCHANGED Document
    <2>1. config' = config
      BY <1>5 DEF Step, Start, Load, LoadFails, OpenTmp, OpenTmpFails,
                  WriteTmp, Validate, Kill
    <2>2. CASE OpenTmp(p)
      BY <1>1, <1>2, <2>1, <2>2 DEF OpenTmp, TmpInode, SoloInv, FileInv, TypeOK
    <2>3. CASE WriteTmp(p)
      BY <1>1, <1>2, <2>1, <2>3
      DEF WriteTmp, SoloInv, FileInv, ProcInv, TypeOK
    <2>4. CASE ~OpenTmp(p) /\ ~WriteTmp(p)
      BY <1>2, <1>5, <2>4
      DEF Step, Start, Load, LoadFails, OpenTmpFails, Validate, Kill
    <2> QED
      BY <2>2, <2>3, <2>4
  <1>6. CASE UNCHANGED vars
    BY <1>6 DEF vars, Document
  <1> QED
    BY <1>3, <1>4, <1>5, <1>6 DEF Next, Contract!Next

\* One process at a time, killed anywhere and on a disk that may fill up, does
\* to config.yaml what app_config.h:189-198 says of it: completes it, at once,
\* from what is in it, and nothing else.
THEOREM HealImplementsContract == ~Concurrent => (Spec => ImplementsConfigContract)
  <1> SUFFICES ASSUME ~Concurrent
               PROVE  Spec => ImplementsConfigContract
    OBVIOUS
  <1>1. Init => Contract!Init
    <2> SUFFICES ASSUME Init
                 PROVE  Document \in Documents
      BY DEF Contract!Init
    <2>1. config = 1
      BY DEF Init
    <2>2. \E d \in Documents : data[1] = d
      BY InodesArePositive DEF Init
    <2> QED
      BY <2>1, <2>2 DEF Document
  <1>2. Init => SoloInv /\ PendingInv
    BY SoloInit DEF Init, PendingInv
  <1>3. SoloInv /\ PendingInv /\ [Next]_vars => SoloInv' /\ PendingInv'
    BY SoloStep, PendingStep
  <1>4. SoloInv /\ PendingInv /\ [Next]_vars => [Contract!Next]_Document
    BY ContractStep
  <1> QED
    BY <1>1, <1>2, <1>3, <1>4, PTL
    DEF Spec, ImplementsConfigContract, Contract!Spec

-----------------------------------------------------------------------------
(***************************************************************************)
(* Several processes at a time, none of them killed and the disk not full. *)
(* A file that has a name may be truncated, even config.yaml, but only     *)
(* while a process that is still to write it whole has it open.            *)
(***************************************************************************)
BeingWritten(i) == \E p \in Procs : pc[p] = "writing" /\ fd[p] = i

RacingInv ==
    /\ TypeOK
    /\ config # NoFile
    /\ \A p \in Procs : pc[p] = "writing" => fd[p] # NoFile
    /\ \A i \in {config, tmp} \ {NoFile} :
          IsDocument(data[i]) \/ BeingWritten(i)

LEMMA RacingInit == Init => RacingInv
  <1> SUFFICES ASSUME Init
               PROVE  RacingInv
    OBVIOUS
  <1>1. TypeOK
    BY TypeInit
  <1>2. config = 1 /\ tmp = NoFile /\ \A p \in Procs : pc[p] = "unstarted"
    BY DEF Init
  <1>3. PICK d \in Documents :
            data = [i \in Inodes |-> IF i = 1 THEN d ELSE Truncated]
    BY DEF Init
  <1>4. IsDocument(data[1])
    BY <1>3, InodesArePositive, ConfigAssumption DEF IsDocument
  <1> QED
    BY <1>1, <1>2, <1>4 DEF RacingInv

\* A step that leaves the files alone, and nobody's stream.
LEMMA FilesLeftAlone ==
    ASSUME RacingInv, TypeOK', UNCHANGED <<files, fd>>,
           \A p \in Procs : pc[p] = "writing" <=> pc'[p] = "writing"
    PROVE  RacingInv'
  BY DEF RacingInv, BeingWritten

LEMMA RacingStep ==
    ASSUME ~Killable, ~DiskFull, RacingInv, [Next]_vars
    PROVE  RacingInv'
  <1>1. TypeOK /\ TypeOK'
    BY TypeStep DEF RacingInv
  <1>2. ASSUME NEW p \in Procs,
               Start(p) \/ Load(p) \/ LoadFails(p) \/ OpenTmpFails(p)
                 \/ Validate(p)
        PROVE  RacingInv'
    <2>1. UNCHANGED <<files, fd>>
      BY <1>2 DEF Start, Load, LoadFails, OpenTmpFails, Validate
    <2>2. \A q \in Procs : pc[q] = "writing" <=> pc'[q] = "writing"
      BY <1>1, <1>2
      DEF Start, Load, LoadFails, OpenTmpFails, Validate, Goto, TypeOK
    <2> QED
      BY <1>1, <2>1, <2>2, FilesLeftAlone
  <1>3. ASSUME NEW p \in Procs, OpenTmp(p)
        PROVE  RacingInv'
    <2>1. PICK i \in TmpInode :
              /\ tmp' = i /\ data' = [data EXCEPT ![i] = Truncated]
              /\ fd' = [fd EXCEPT ![p] = i]
      BY <1>3 DEF OpenTmp
    <2>2. i \in Inodes
      BY <1>1, <2>1 DEF TmpInode, TypeOK
    <2>3. /\ config' = config /\ pc[p] = "healing"
          /\ pc' = [pc EXCEPT ![p] = "writing"]
      BY <1>3 DEF OpenTmp, Goto
    <2>4. /\ pc'[p] = "writing" /\ fd'[p] = i
          /\ \A q \in Procs \ {p} : pc'[q] = pc[q] /\ fd'[q] = fd[q]
      BY <1>1, <2>1, <2>3 DEF TypeOK
    <2>5. i # NoFile
      BY <2>2, InodesArePositive
    <2>6. \A q \in Procs : pc'[q] = "writing" => fd'[q] # NoFile
      BY <2>4, <2>5 DEF RacingInv
    <2>7. BeingWritten(i)'
      BY <2>4 DEF BeingWritten
    <2>8. ASSUME config # i
          PROVE  IsDocument(data'[config]) \/ BeingWritten(config)'
      <3>1. data'[config] = data[config]
        BY <1>1, <2>1, <2>8 DEF RacingInv, TypeOK
      <3>2. BeingWritten(config) => BeingWritten(config)'
        BY <2>3, <2>4 DEF BeingWritten
      <3> QED
        BY <3>1, <3>2 DEF RacingInv
    <2> QED
      BY <1>1, <2>1, <2>3, <2>6, <2>7, <2>8 DEF RacingInv
  <1>4. ASSUME NEW p \in Procs, WriteTmp(p)
        PROVE  RacingInv'
    <2>1. /\ data' = [data EXCEPT ![fd[p]] = cfg[p]]
          /\ pc' = [pc EXCEPT ![p] = "renaming"]
          /\ fd' = [fd EXCEPT ![p] = NoFile]
          /\ UNCHANGED <<config, tmp>>
          /\ pc[p] = "writing"
      BY <1>4 DEF WriteTmp, Goto
    <2>2. fd[p] \in Inodes /\ IsDocument(cfg[p])
      <3>1. fd[p] # NoFile
        BY <2>1 DEF RacingInv
      <3>2. DOMAIN cfg[p] = Keys
        BY <1>1 DEF TypeOK
      <3> QED
        BY <1>1, <3>1, <3>2 DEF TypeOK, IsDocument, Keys
    <2>3. /\ pc'[p] = "renaming"
          /\ \A q \in Procs \ {p} : pc'[q] = pc[q] /\ fd'[q] = fd[q]
      BY <1>1, <2>1 DEF TypeOK
    <2>4. ASSUME NEW i \in {config, tmp} \ {NoFile}
          PROVE  IsDocument(data'[i]) \/ BeingWritten(i)'
      <3>1. i \in Inodes
        BY <1>1 DEF TypeOK
      <3>2. CASE i = fd[p]
        BY <1>1, <2>1, <2>2, <3>2 DEF TypeOK
      <3>3. CASE i # fd[p]
        <4>1. data'[i] = data[i]
          BY <1>1, <2>1, <3>1, <3>3 DEF TypeOK
        <4>2. BeingWritten(i) => BeingWritten(i)'
          BY <2>3, <3>3 DEF BeingWritten
        <4> QED
          BY <4>1, <4>2 DEF RacingInv
      <3> QED
        BY <3>2, <3>3
    <2>5. \A q \in Procs : pc'[q] = "writing" => fd'[q] # NoFile
      BY <2>3 DEF RacingInv
    <2> QED
      BY <1>1, <2>1, <2>4, <2>5 DEF RacingInv
  <1>5. ASSUME NEW p \in Procs, RenameTmp(p)
        PROVE  RacingInv'
    <2>1. /\ config' = IF tmp = NoFile THEN config ELSE tmp
          /\ tmp' = NoFile
          /\ UNCHANGED <<data, fd>>
          /\ pc[p] = "renaming" /\ pc' = [pc EXCEPT ![p] = "validating"]
      BY <1>5 DEF RenameTmp, Replace, Goto
    <2>2. \A q \in Procs : pc[q] = "writing" <=> pc'[q] = "writing"
      BY <1>1, <2>1 DEF TypeOK
    <2>3. config' # NoFile /\ config' \in {config, tmp}
      BY <2>1 DEF RacingInv
    <2>4. \A i \in Inodes : BeingWritten(i) => BeingWritten(i)'
      BY <2>1, <2>2 DEF BeingWritten
    <2>5. config' \in Inodes
      BY <1>1, <2>3 DEF TypeOK
    <2> QED
      BY <1>1, <2>1, <2>2, <2>3, <2>4, <2>5 DEF RacingInv
  <1>6. CASE Edit
    <2>1. PICK d \in Documents : data' = [data EXCEPT ![config] = d]
      BY <1>6 DEF Edit
    <2>2. UNCHANGED <<config, tmp, pc, fd>> /\ config \in Inodes
      BY <1>1, <1>6 DEF Edit, TypeOK
    <2>3. IsDocument(d)
      BY ConfigAssumption DEF IsDocument
    <2>4. \A i \in Inodes : data'[i] = d \/ data'[i] = data[i]
      BY <1>1, <2>1 DEF TypeOK
    <2>5. \A i \in Inodes : BeingWritten(i) => BeingWritten(i)'
      BY <2>2 DEF BeingWritten
    <2> QED
      BY <1>1, <2>2, <2>3, <2>4, <2>5 DEF RacingInv, TypeOK
  <1>7. CASE UNCHANGED vars
    BY <1>1, <1>7, FilesLeftAlone DEF vars
  <1>8. ASSUME NEW p \in Procs
        PROVE  ~Kill(p)
    BY DEF Kill
  <1> QED
    BY <1>2, <1>3, <1>4, <1>5, <1>6, <1>7, <1>8 DEF Next, Step

\* However many processes heal the file at once, and in whatever order their
\* opens, writes and renames fall, once they are all done config.yaml is a
\* whole document, as long as none is killed and no write fails.
THEOREM RacesEndWhole ==
    ~Killable /\ ~DiskFull => (Spec => []WholeWhenQuiet)
  <1> SUFFICES ASSUME ~Killable, ~DiskFull
               PROVE  Spec => []WholeWhenQuiet
    OBVIOUS
  <1>1. RacingInv => WholeWhenQuiet
    BY DEF RacingInv, BeingWritten, WholeWhenQuiet, ConfigAlwaysWhole,
           Readable, Over
  <1>2. RacingInv /\ [Next]_vars => RacingInv'
    BY RacingStep
  <1> QED
    BY RacingInit, <1>1, <1>2, PTL DEF Spec
=============================================================================
