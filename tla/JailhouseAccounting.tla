------------------------ MODULE JailhouseAccounting ------------------------
(***************************************************************************)
(* What state.toml and the cells hold, for any containers, bundles and     *)
(* pool: the invariants PoolInv, SectionsInv, StartInv, ExclusiveInv and   *)
(* CellsInv of JailhouseInv are inductive, each beside IInv and under the  *)
(* conditions that its theorem names.                                      *)
(*                                                                         *)
(* The argument: most steps leave the contents and the cells alone         *)
(* (StepsAside, StepsDirAside, StepsQuiet, BesideStep); a command that     *)
(* takes one of the others is the only one there is (OneActive, Alone), so *)
(* what save_state and destroy_update_state write follows from what they   *)
(* read, by the lemmas SaveSound and DestroySound of StateFileProofs.      *)
(***************************************************************************)
EXTENDS JailhouseProofs, StateFileProofs

\* A step of the process of c, of its caronte or of its engine.
StepOf(c) ==
  \/ (Engine(c) \/ FrontStep(c)) /\ UNCHANGED backVars
  \/ CreateStep(c) \/ TeardownStep(c) \/ BootLinux(c) \/ Crash(c)

\* Labels at which a process holds contents it has not written.
Writing == Saving \cup Freeing

\* A step of c in which state.toml and what is to be written are left alone.
Aside(c) ==
  /\ UNCHANGED <<file, doc>>
  /\ pc[c] \notin Writing /\ pc'[c] \notin Writing

USE DEF Saving, Freeing, Writing

LEMMA StepsAside ==
  ASSUME NEW c \in Containers, IInv, StepOf(c),
         ~SaveRead(c), ~SaveTruncate(c), ~SaveWrite(c),
         ~FreeRead(c), ~FreeTruncate(c), ~FreeWrite(c), ~Crash(c)
  PROVE  Aside(c) \/ UNCHANGED <<file, doc, pc, crundir>>
<1> USE DEF Aside, IInv, TypeOK, Goto
<1>1. CASE Engine(c) /\ UNCHANGED backVars
  BY <1>1 DEF Engine, Invoke, backVars
<1>2. CASE FrontStep(c) /\ UNCHANGED backVars
  BY <1>2 DEF FrontStep, Exit, DecideCreate, DecideExisting, RemoveStaleDir,
     MakeDir, State, RuncExisting, FirstCall, ControlInv, VerbInv, backVars
<1>3. CASE CreateStep(c)
  BY <1>3 DEF CreateStep, RetrieveState, Compile, CreateCell, LoadCell, SpawnCaronte,
     Store, StoreBundle, StorePidfile, StoreOs, StartGuest, ReturnOk, ReturnErr,
     AfterOk, AfterErr
<1>4. CASE TeardownStep(c)
  BY <1>4 DEF TeardownStep, ShutdownCell, StopSignal, DestroyCell, SignalCaronte,
     RemoveRunDir, Cleanup, RemoveDir, ReturnOk, ReturnErr, AfterOk, AfterErr
<1>5. CASE BootLinux(c)
  BY <1>5 DEF BootLinux, BootCreate, BootStart, feVars
<1> QED BY <1>1, <1>2, <1>3, <1>4, <1>5 DEF StepOf

-----------------------------------------------------------------------------
(* One command at a time.                                                  *)

\* No other container is disturbed by a step of c.
LEMMA StepKept ==
  ASSUME NEW c \in Containers, IdOfInjective, IInv, StepOf(c)
  PROVE  IInv' /\ CInv(c)' /\ \A d \in Containers \ {c} : Same(d)
BY ContainerStep, KeptStep DEF StepOf, Kept

LEMMA OneActive ==
  ASSUME NEW c \in Containers, IdOfInjective, OneCommand, IInv, OneActiveInv, StepOf(c)
  PROVE  OneActiveInv'
<1>1. \A d \in Containers \ {c} : pc'[d] = pc[d]
  BY StepKept DEF Same
<1>2. CASE Engine(c)
  <2>1. Cardinality(Active) < 1
    BY <1>2 DEF Engine, Invoke, OneCommand
  <2>2. Active = {}
    <3>1. ASSUME NEW d \in Active PROVE FALSE
      <4>1. Active = {d}
        BY <3>1 DEF OneActiveInv
      <4>2. Cardinality(Active) = 1
        BY <4>1, FS_Singleton
      <4> QED BY <2>1, <4>2
    <3> QED BY <3>1
  <2> QED BY <1>1, <2>2 DEF OneActiveInv, Active
<1>3. CASE pc[c] # "idle" \/ pc'[c] = "idle"
  BY <1>1, <1>3 DEF OneActiveInv, Active
<1>4. CASE ~Engine(c) /\ pc[c] = "idle"
  <2>1. pc' = pc
    BY <1>4 DEF StepOf, FrontStep, Exit, DecideCreate, DecideExisting, RemoveStaleDir,
       MakeDir, State, CreateStep, RetrieveState, SaveRead, SaveTruncate, SaveWrite,
       Truncate, Write, Compile, CreateCell, LoadCell, SpawnCaronte, Store, StoreBundle,
       StorePidfile, StoreOs, StartGuest, TeardownStep, ShutdownCell, StopSignal,
       FreeRead, FreeTruncate, FreeWrite, DestroyCell, SignalCaronte, RemoveRunDir,
       Cleanup, BootLinux, BootCreate, BootStart, feVars, Crash, CrashFrontend
  <2> QED BY <2>1 DEF OneActiveInv, Active
<1> QED BY <1>2, <1>3, <1>4

LEMMA OneActiveNext ==
  ASSUME IdOfInjective, OneCommand, IInv, OneActiveInv, [Next]_vars
  PROVE  OneActiveInv'
<1>1. CASE UNCHANGED vars
  BY <1>1 DEF vars, feVars, OneActiveInv, Active
<1>2. ASSUME NEW c \in Containers, StepOf(c)
      PROVE  OneActiveInv'
  BY <1>2, OneActive
<1>3. CASE Reboot
  BY <1>3 DEF Reboot, RebootFrontend, OneActiveInv, Active
<1> QED BY <1>1, <1>2, <1>3 DEF Next, StepOf

\* The process of c is the only one.
LEMMA Alone ==
  ASSUME OneActiveInv, NEW c \in Containers, pc[c] # "idle"
  PROVE  \A d \in Containers \ {c} : pc[d] = "idle"
BY DEF OneActiveInv, Active

-----------------------------------------------------------------------------
(* The pool survives.                                                      *)

\* What save_state and destroy_update_state keep of the contents they read.
LEMMA SaveStateKeeps ==
  ASSUME NEW d, NEW i, NEW b, NEW s, DOMAIN d = DOMAIN EmptyFile
  PROVE  /\ DOMAIN SaveState(d, i, b, s) = DOMAIN EmptyFile
         /\ SaveState(d, i, b, s).intact = d.intact
         /\ DOMAIN SaveState(d, i, b, s).sections = DOMAIN d.sections \cup {i}
BY DEF SaveState, EmptyFile

LEMMA DestroyUpdateStateKeeps ==
  ASSUME NEW d, NEW i, DOMAIN d = DOMAIN EmptyFile
  PROVE  /\ DOMAIN DestroyUpdateState(d, i) = DOMAIN EmptyFile
         /\ DestroyUpdateState(d, i).intact = d.intact
         /\ DOMAIN DestroyUpdateState(d, i).sections = DOMAIN d.sections \ {i}
BY DEF DestroyUpdateState, EmptyFile, Restrict

LEMMA ContentsStep ==
  ASSUME NEW c \in Containers, IInv, ContentsInv, StepOf(c)
  PROVE  ContentsInv'
<1> USE DEF ContentsInv
<1>1. CASE SaveRead(c)
  BY <1>1, SaveStateKeeps DEF SaveRead
<1>2. CASE SaveTruncate(c) \/ FreeTruncate(c)
  BY <1>2 DEF SaveTruncate, FreeTruncate, Truncate
<1>3. CASE SaveWrite(c) \/ FreeWrite(c)
  BY <1>3 DEF SaveWrite, FreeWrite, Write
<1>4. CASE FreeRead(c)
  BY <1>4, DestroyUpdateStateKeeps DEF FreeRead
<1>5. CASE Crash(c)
  BY <1>5 DEF Crash
<1>6. CASE UNCHANGED <<file, doc>>
  BY <1>6
<1> QED BY <1>1, <1>2, <1>3, <1>4, <1>5, <1>6, StepsAside DEF Aside

LEMMA ContentsNext ==
  ASSUME IInv, ContentsInv, [Next]_vars
  PROVE  ContentsInv'
<1>1. CASE UNCHANGED vars
  BY <1>1 DEF vars, backVars, ContentsInv
<1>2. ASSUME NEW c \in Containers, StepOf(c)
      PROVE  ContentsInv'
  BY <1>2, ContentsStep
<1>3. CASE Reboot
  BY <1>3 DEF Reboot, ContentsInv
<1> QED BY <1>1, <1>2, <1>3 DEF Next, StepOf

\* A process that writes state.toml is not interrupted.
LEMMA PoolStep ==
  ASSUME NEW c \in Containers, IdOfInjective, OneCommand, WritesEnd, IInv, PoolInv, StepOf(c)
  PROVE  PoolInv'
<1>1. OneActiveInv' /\ ContentsInv'
  BY OneActive, ContentsStep DEF PoolInv
<1>2. \A d \in Containers \ {c} : pc'[d] = pc[d]
  BY StepKept DEF Same
<1>3. \A d \in Containers : pc[d] \in Writing => doc[d].intact
  BY DEF PoolInv
<1>4. SUFFICES /\ PoolSurvives'
               /\ \A d \in Containers : pc'[d] \in Writing => doc'[d].intact
  BY <1>1, <1>4 DEF PoolInv
<1>5. CASE pc[c] # "idle" /\ pc' # pc
  <2>1. \A d \in Containers \ {c} : pc[d] = "idle" /\ pc'[d] = "idle"
    BY <1>2, <1>5, Alone DEF PoolInv
  <2> USE DEF IInv, TypeOK, Goto, PoolInv, ContentsInv, PoolSurvives
  <2>2. CASE SaveRead(c)
    <3>1. file.intact /\ pc[c] = "save_state" /\ file' = file
      BY <2>1, <2>2 DEF SaveRead
    <3>2. CASE pc'[c] = "save_truncate"
      <4>1. doc'[c] = SaveState(file, IdOf[c], bundle[c], snap[c])
        BY <2>2, <3>2 DEF SaveRead, ReturnErr, AfterErr
      <4> QED BY <2>1, <3>1, <3>2, <4>1, SaveStateKeeps
    <3>3. CASE pc'[c] # "save_truncate"
      <4>1. pc'[c] = "err"
        BY <2>2, <3>3 DEF SaveRead, ReturnErr, AfterErr
      <4> QED BY <2>1, <3>1, <4>1
    <3> QED BY <3>2, <3>3
  <2>3. CASE SaveTruncate(c) \/ FreeTruncate(c)
    BY <2>1, <2>3 DEF SaveTruncate, FreeTruncate, Truncate
  <2>4. CASE SaveWrite(c) \/ FreeWrite(c)
    <3>1. file' = doc[c] /\ pc[c] \in Writing
      BY <2>4 DEF SaveWrite, FreeWrite, Write, WritesEnd, Fault
    <3>2. pc'[c] \notin Writing
      BY <2>4 DEF SaveWrite, FreeWrite, Write
    <3> QED BY <1>3, <2>1, <3>1, <3>2
  <2>5. CASE FreeRead(c)
    <3>1. file.intact /\ file' = file
      BY <2>1, <2>5 DEF FreeRead
    <3>2. CASE pc'[c] = "free_truncate"
      <4>1. doc'[c] = DestroyUpdateState(file, IdOf[c])
        BY <2>5, <3>2 DEF FreeRead
      <4> QED BY <2>1, <3>1, <3>2, <4>1, DestroyUpdateStateKeeps
    <3>3. CASE pc'[c] # "free_truncate"
      <4>1. pc'[c] = "cell_destroy"
        BY <2>5, <3>3 DEF FreeRead
      <4> QED BY <2>1, <3>1, <4>1
    <3> QED BY <3>2, <3>3
  <2>6. CASE Crash(c)
    BY <2>6 DEF Crash, CrashFrontend, WritesEnd
  <2>7. CASE Aside(c)
    BY <2>1, <2>7 DEF Aside
  <2> QED BY <1>5, <2>2, <2>3, <2>4, <2>5, <2>6, <2>7, StepsAside
<1>6. CASE pc[c] = "idle" \/ pc' = pc
  <2> USE DEF IInv, TypeOK, Goto, PoolInv, PoolSurvives
  <2>1. CASE Aside(c)
    BY <1>2, <2>1 DEF Aside
  <2>2. CASE UNCHANGED <<file, doc, pc, crundir>>
    BY <2>2
  <2>3. ~SaveRead(c) /\ ~SaveTruncate(c) /\ ~SaveWrite(c) /\ ~FreeRead(c)
        /\ ~FreeTruncate(c) /\ ~FreeWrite(c) /\ ~Crash(c)
    BY <1>6 DEF SaveRead, SaveTruncate, SaveWrite, FreeRead, FreeTruncate, FreeWrite,
       Truncate, Write, ReturnErr, AfterErr, Crash, CrashFrontend
  <2> QED BY <2>1, <2>2, <2>3, StepsAside
<1> QED BY <1>5, <1>6

\* Whenever nothing is being written, state.toml has its pool, so that further
\* containers can be created after any sequence of commands that end.
THEOREM PoolStays ==
  ASSUME IdOfInjective, OneCommand, WritesEnd
  PROVE  Spec => []PoolSurvives
<1>1. Init => PoolInv
  BY InitFileAssumption DEF Init, FrontInit, PoolInv, OneActiveInv, Active, ContentsInv,
     PoolSurvives
<1>2. IInv /\ PoolInv /\ [Next]_vars => PoolInv'
  <2> SUFFICES ASSUME IInv, PoolInv, [Next]_vars PROVE PoolInv'
    OBVIOUS
  <2>1. CASE UNCHANGED vars
    BY <2>1 DEF vars, feVars, backVars, PoolInv, OneActiveInv, Active, ContentsInv,
       PoolSurvives
  <2>2. ASSUME NEW c \in Containers, StepOf(c)
        PROVE  PoolInv'
    BY <2>2, PoolStep
  <2>3. CASE Reboot
    BY <2>3 DEF Reboot, RebootFrontend, WritesEnd
  <2> QED BY <2>1, <2>2, <2>3 DEF Next, StepOf
<1>3. PoolInv => PoolSurvives
  BY DEF PoolInv
<1> QED BY <1>1, <1>2, <1>3, Invariant, PTL DEF Spec

-----------------------------------------------------------------------------
(* Sections and state directories.                                         *)

\* The directory of c goes only when it is new or when the section is freed.
DirAside(c) ==
  /\ pc'[c] \in Freed => pc[c] \in Freed
  /\ \/ crundir' = crundir
     \/ crundir' = crundir \cup {IdOf[c]}
     \/ crundir' = crundir \ {IdOf[c]} /\ pc[c] \in Freed \cup Before

LEMMA StepsDirAside ==
  ASSUME NEW c \in Containers, IInv, StepOf(c),
         ~SaveRead(c), ~SaveTruncate(c), ~SaveWrite(c),
         ~FreeRead(c), ~FreeTruncate(c), ~FreeWrite(c), ~Crash(c)
  PROVE  DirAside(c)
<1> USE DEF DirAside, IInv, TypeOK, Goto, Freed, Before
<1>1. CASE Engine(c) /\ UNCHANGED backVars
  BY <1>1 DEF Engine, Invoke
<1>2. CASE FrontStep(c) /\ UNCHANGED backVars
  BY <1>2 DEF FrontStep, Exit, DecideCreate, DecideExisting, RemoveStaleDir,
     MakeDir, State, RuncExisting, FirstCall, ControlInv, VerbInv
<1>3. CASE CreateStep(c)
  BY <1>3 DEF CreateStep, RetrieveState, Compile, CreateCell, LoadCell, SpawnCaronte,
     Store, StoreBundle, StorePidfile, StoreOs, StartGuest, ReturnOk, ReturnErr,
     AfterOk, AfterErr
<1>4. CASE TeardownStep(c)
  BY <1>4 DEF TeardownStep, ShutdownCell, StopSignal, DestroyCell, SignalCaronte,
     RemoveRunDir, Cleanup, RemoveDir, ReturnOk, ReturnErr, AfterOk, AfterErr
<1>5. CASE BootLinux(c)
  BY <1>5 DEF BootLinux, BootCreate, BootStart, feVars
<1> QED BY <1>1, <1>2, <1>3, <1>4, <1>5 DEF StepOf

\* Only the engine and caronte act for a container without a command.
LEMMA IdleStep ==
  ASSUME NEW c \in Containers, IInv, StepOf(c), pc[c] = "idle"
  PROVE  /\ UNCHANGED <<file, doc, crundir>>
         /\ pc'[c] \in {"idle", "decide_create", "decide_existing"}
<1>1. (Engine(c) /\ UNCHANGED backVars) \/ BootLinux(c)
  BY DEF StepOf, FrontStep, Exit, DecideCreate, DecideExisting, RemoveStaleDir, MakeDir,
     State, CreateStep, RetrieveState, SaveRead, SaveTruncate, SaveWrite, Truncate, Write,
     Compile, CreateCell, LoadCell, SpawnCaronte, Store, StoreBundle, StorePidfile,
     StoreOs, StartGuest, TeardownStep, ShutdownCell, StopSignal, FreeRead, FreeTruncate,
     FreeWrite, DestroyCell, SignalCaronte, RemoveRunDir, Cleanup, Crash, CrashFrontend
<1>2. CASE Engine(c) /\ UNCHANGED backVars
  BY <1>2 DEF Engine, Invoke, backVars, IInv, TypeOK, Goto
<1>3. CASE BootLinux(c)
  BY <1>3 DEF BootLinux, BootCreate, BootStart, feVars
<1> QED BY <1>1, <1>2, <1>3

LEMMA SectionsStep ==
  ASSUME NEW c \in Containers, IdOfInjective, OneCommand, IInv, SectionsInv, StepOf(c)
  PROVE  SectionsInv'
<1>1. OneActiveInv' /\ ContentsInv'
  BY OneActive, ContentsStep DEF SectionsInv
<1>2. \A d \in Containers \ {c} : pc'[d] = pc[d]
  BY StepKept DEF Same
<1>3. SUFFICES /\ DOMAIN file'.sections \subseteq crundir'
               /\ \A d \in Containers : WriterInv(d)'
  BY <1>1, <1>3 DEF SectionsInv
<1> USE DEF IInv, TypeOK, Goto, SectionsInv, ContentsInv, Freed, WriterInv
<1>4. CASE pc[c] # "idle"
  <2>1. \A d \in Containers \ {c} : pc[d] = "idle" /\ pc'[d] = "idle"
    BY <1>2, <1>4, Alone
  <2>2. \A d \in Containers \ {c} : WriterInv(d)'
    BY <2>1
  <2>3. CASE SaveRead(c)
    <3>1. CASE pc'[c] = "save_truncate"
      <4>1. doc'[c] = SaveState(file, IdOf[c], bundle[c], snap[c]) /\ IdOf[c] \in crundir
        BY <2>3, <3>1 DEF SaveRead, ReturnErr, AfterErr
      <4>2. DOMAIN doc'[c].sections = DOMAIN file.sections \cup {IdOf[c]}
        BY <4>1, SaveStateKeeps
      <4>3. crundir' = crundir /\ file' = file
        BY <2>3 DEF SaveRead
      <4> QED BY <2>2, <3>1, <4>1, <4>2, <4>3
    <3>2. CASE pc'[c] # "save_truncate"
      <4>1. pc'[c] = "err" /\ crundir' = crundir /\ file' = file
        BY <2>3, <3>2 DEF SaveRead, ReturnErr, AfterErr
      <4> QED BY <2>2, <4>1
    <3> QED BY <3>1, <3>2
  <2>4. CASE SaveTruncate(c) \/ FreeTruncate(c)
    BY <2>2, <2>4 DEF SaveTruncate, FreeTruncate, Truncate, EmptyFile, NoSections
  <2>5. CASE SaveWrite(c) \/ FreeWrite(c)
    <3>1. /\ file' = doc[c] \/ file' = file
          /\ pc[c] \in {"save_write", "free_write"} /\ crundir' = crundir
          /\ pc'[c] = IF pc[c] = "save_write" THEN "compile" ELSE "cell_destroy"
      BY <2>5 DEF SaveWrite, FreeWrite, Write
    <3>2. DOMAIN file'.sections \subseteq crundir'
      BY <3>1
    <3>3. WriterInv(c)'
      BY <3>1
    <3> QED BY <2>2, <3>2, <3>3
  <2>6. CASE FreeRead(c)
    <3>1. crundir' = crundir /\ file' = file
      BY <2>6 DEF FreeRead
    <3>2. CASE pc'[c] = "free_truncate"
      <4>1. doc'[c] = DestroyUpdateState(file, IdOf[c])
        BY <2>6, <3>2 DEF FreeRead
      <4>2. DOMAIN doc'[c].sections = DOMAIN file.sections \ {IdOf[c]}
        BY <4>1, DestroyUpdateStateKeeps
      <4> QED BY <2>2, <3>1, <3>2, <4>2
    <3>3. CASE pc'[c] # "free_truncate"
      <4>1. pc'[c] = "cell_destroy" /\ IdOf[c] \notin DOMAIN file.sections
        BY <2>6, <3>3 DEF FreeRead
      <4> QED BY <2>2, <3>1, <4>1
    <3> QED BY <3>2, <3>3
  <2>7. CASE Crash(c)
    BY <2>2, <2>7 DEF Crash, CrashFrontend
  <2>8. CASE Aside(c) /\ DirAside(c)
    <3>1. pc[c] \in Before => IdOf[c] \notin crundir
      BY DEF ControlInv, PcInv, Gone
    <3>2. DOMAIN file'.sections \subseteq crundir'
      BY <2>8, <3>1 DEF Aside, DirAside
    <3>3. WriterInv(c)'
      BY <2>8 DEF Aside, DirAside
    <3> QED BY <2>2, <3>2, <3>3
  <2>9. CASE UNCHANGED <<file, doc, pc, crundir>>
    BY <2>9
  <2> QED BY <2>3, <2>4, <2>5, <2>6, <2>7, <2>8, <2>9, StepsAside, StepsDirAside
<1>5. CASE pc[c] = "idle"
  <2>1. UNCHANGED <<file, doc, crundir>> /\ pc'[c] \notin Writing \cup Freed
    BY <1>5, IdleStep
  <2> QED BY <1>2, <1>5, <2>1
<1> QED BY <1>4, <1>5

\* A section has a state directory, through which a later destroyguest finds
\* it, in spite of a killed process or a failing write; a reboot, which empties
\* /run but not the disk, is excluded.
THEOREM SectionsHaveDirs ==
  ASSUME IdOfInjective, OneCommand, "reboot" \notin Faults
  PROVE  Spec => []SectionsInv
<1>1. Init => SectionsInv
  BY InitFileAssumption DEF Init, FrontInit, SectionsInv, WriterInv, OneActiveInv, Active,
     ContentsInv, NoSections, Freed
<1>2. IInv /\ SectionsInv /\ [Next]_vars => SectionsInv'
  <2> SUFFICES ASSUME IInv, SectionsInv, [Next]_vars PROVE SectionsInv'
    OBVIOUS
  <2>1. CASE UNCHANGED vars
    BY <2>1 DEF vars, feVars, backVars, SectionsInv, WriterInv, OneActiveInv, Active,
       ContentsInv
  <2>2. ASSUME NEW c \in Containers, StepOf(c)
        PROVE  SectionsInv'
    BY <2>2, SectionsStep
  <2>3. CASE Reboot
    BY <2>3 DEF Reboot, RebootFrontend
  <2> QED BY <2>1, <2>2, <2>3 DEF Next, StepOf
<1> QED BY <1>1, <1>2, Invariant, PTL DEF Spec

\* A delete that reports success has given back what the container held: it
\* has removed the state directory, and a section would have one.
THEOREM DeleteFrees ==
  ASSUME IdOfInjective, OneCommand, "reboot" \notin Faults
  PROVE  Spec => []DeleteFreesSection
<1>1. IInv /\ SectionsInv => DeleteFreesSection
  BY DEF IInv, ControlInv, PcInv, Gone, SectionsInv, DeleteFreesSection
<1> QED BY <1>1, SectionsHaveDirs, Invariant, PTL

-----------------------------------------------------------------------------
(* A start follows a load.                                                 *)

\* Commands are not killed, and cell load and cell destroy succeed.
LoadsWork == Faults \cap {"crash", "cell_load", "cell_destroy"} = {}

LEMMA LoadedStep ==
  ASSUME NEW c \in Containers, IdOfInjective, LoadsWork, IInv, StartInv, StepOf(c)
  PROVE  LoadedInv(c)'
<1>1. CInv(c) /\ CInv(c)' /\ LoadedInv(c)
  BY StepKept DEF IInv, ControlInv, CInv, StartInv
<1> USE IdOfAssumption
    DEF IInv, TypeOK, Goto, LoadedInv, LoadsWork, Fault, CInv, VerbInv, Before, Configuring,
        Loading, Storing, Creating, Stopping, Removing
<1>2. CASE Engine(c) /\ UNCHANGED backVars
  BY <1>1, <1>2 DEF Engine, Invoke, Allowed, backVars, PcInv, Gone, NoGuest
<1>3. CASE FrontStep(c) /\ UNCHANGED backVars
  <2>1. CASE Exit(c)
    <3>1. verb'[c] = "none" /\ pc'[c] = "idle" /\ UNCHANGED <<boot, caronte, cell>>
      BY <1>3, <2>1 DEF Exit, backVars
    <3>2. CASE status'[c] = "none"
      BY <1>1, <3>1, <3>2
    <3>3. CASE status'[c] # "none"
      <4>1. bundle'[c] = bundle[c]
        BY <2>1, <3>3 DEF Exit
      <4>2. status'[c] = "created" => \/ pc[c] = "ok" /\ verb[c] = "create"
                                      \/ status[c] = "created" /\ pc[c] \notin Stopping
        <5>1. pc[c] \in {"ok", "err"} /\ verb[c] \in Verbs
          BY <1>1, <2>1 DEF Exit
        <5>2. CASE verb[c] = "create"
          BY <2>1, <5>1, <5>2 DEF Exit
        <5>3. CASE verb[c] = "start"
          BY <2>1, <5>1, <5>3 DEF Exit
        <5>4. CASE verb[c] \in {"kill", "delete", "state"}
          BY <2>1, <5>1, <5>4 DEF Exit
        <5> QED BY <5>1, <5>2, <5>3, <5>4 DEF Verbs
      <4> QED BY <1>1, <2>1, <3>1, <3>3, <4>1, <4>2 DEF Exit
    <3> QED BY <3>2, <3>3
  <2>2. CASE DecideCreate(c) \/ RemoveStaleDir(c) \/ MakeDir(c) \/ State(c)
    BY <1>1, <1>3, <2>2 DEF DecideCreate, RemoveStaleDir, MakeDir, State, backVars,
       PcInv, Gone, NoGuest
  <2>3. CASE DecideExisting(c)
    BY <1>1, <1>3, <2>3 DEF DecideExisting, RuncExisting, FirstCall, backVars
  <2> QED BY <1>3, <2>1, <2>2, <2>3 DEF FrontStep
<1>4. CASE CreateStep(c)
  <2> USE DEF ReturnOk, ReturnErr, AfterOk, AfterErr
  <2>1. CASE \/ RetrieveState(c) \/ SaveRead(c) \/ SaveTruncate(c) \/ SaveWrite(c)
             \/ Compile(c)
    BY <1>1, <2>1 DEF RetrieveState, SaveRead, SaveTruncate, SaveWrite, Truncate, Write,
       Compile
  <2>2. CASE CreateCell(c)
    BY <1>1, <2>2 DEF CreateCell
  <2>3. CASE LoadCell(c)
    BY <1>1, <2>3 DEF LoadCell, PcInv
  <2>4. CASE SpawnCaronte(c)
    BY <1>1, <2>4 DEF SpawnCaronte, PcInv
  <2>5. CASE StoreBundle(c) \/ StorePidfile(c) \/ StoreOs(c)
    BY <1>1, <2>5 DEF StoreBundle, StorePidfile, StoreOs, Store
  <2>6. CASE StartGuest(c)
    BY <1>1, <2>6 DEF StartGuest
  <2> QED BY <1>4, <2>1, <2>2, <2>3, <2>4, <2>5, <2>6 DEF CreateStep
<1>5. CASE TeardownStep(c)
  <2> USE DEF ReturnOk, ReturnErr, AfterOk, AfterErr
  <2>1. CASE ShutdownCell(c)
    BY <1>1, <2>1 DEF ShutdownCell
  <2>2. CASE StopSignal(c)
    BY <1>1, <2>2 DEF StopSignal, SigTerm
  <2>3. CASE FreeRead(c) \/ FreeTruncate(c) \/ FreeWrite(c)
    BY <1>1, <2>3 DEF FreeRead, FreeTruncate, FreeWrite, Truncate, Write
  <2>4. CASE DestroyCell(c)
    BY <1>1, <2>4 DEF DestroyCell
  <2>5. CASE SignalCaronte(c)
    BY <1>1, <2>5 DEF SignalCaronte, SigTerm, PcInv, NoGuest
  <2>6. CASE RemoveRunDir(c) \/ Cleanup(c)
    BY <1>1, <2>6 DEF RemoveRunDir, Cleanup, RemoveDir, PcInv, NoGuest
  <2> QED BY <1>5, <2>1, <2>2, <2>3, <2>4, <2>5, <2>6 DEF TeardownStep
<1>6. CASE BootLinux(c)
  BY <1>1, <1>6 DEF BootLinux, BootCreate, BootStart, BootEnds, feVars
<1>7. CASE Crash(c)
  BY <1>7 DEF Crash, CrashFrontend
<1> QED BY <1>2, <1>3, <1>4, <1>5, <1>6, <1>7 DEF StepOf

LEMMA StartStep ==
  ASSUME IdOfInjective, LoadsWork, IInv, StartInv, [Next]_vars
  PROVE  StartInv'
<1>1. CASE UNCHANGED vars
  BY <1>1 DEF vars, feVars, backVars, StartInv, LoadedInv
<1>2. ASSUME NEW c \in Containers, StepOf(c)
      PROVE  StartInv'
  <2>1. LoadedInv(c)'
    BY <1>2, LoadedStep
  <2>2. ASSUME NEW d \in Containers, d # c PROVE LoadedInv(d)'
    BY <1>2, <2>2, StepKept DEF StartInv, LoadedInv, Same
  <2> QED BY <2>1, <2>2 DEF StartInv
<1>3. CASE Reboot
  BY <1>3, IdOfAssumption DEF Reboot, RebootFrontend, StartInv, LoadedInv
<1> QED BY <1>1, <1>2, <1>3 DEF Next, StepOf

\* What a step does to the cell of another container, and to a running one.
LEMMA StartsLoadedStep ==
  ASSUME IdOfInjective, LoadsWork, IInv, StartInv, Next,
         NEW i \in Ids, cell[i] # "running", cell'[i] = "running"
  PROVE  \/ cell[i] = "loaded"
         \/ \E c \in Containers : IdOf[c] = i /\ bundle[c].os = "linux"
<1> USE IdOfAssumption DEF IInv, TypeOK
<1>1. ~Reboot
  BY DEF Reboot
<1>2. PICK c \in Containers : StepOf(c)
  BY <1>1 DEF Next, StepOf
<1>3. StartGuest(c) \/ BootStart(c)
  BY <1>2 DEF StepOf, Engine, Invoke, FrontStep, Exit, DecideCreate, DecideExisting,
     RemoveStaleDir, MakeDir, State, CreateStep, RetrieveState, SaveRead, SaveTruncate,
     SaveWrite, Truncate, Write, Compile, CreateCell, LoadCell, SpawnCaronte, Store,
     StoreBundle, StorePidfile, StoreOs, TeardownStep, ShutdownCell, StopSignal, FreeRead,
     FreeTruncate, FreeWrite, DestroyCell, SignalCaronte, RemoveRunDir, RemoveDir, Cleanup,
     BootLinux, BootCreate, Crash, CrashFrontend, backVars
<1>4. LoadedInv(c) /\ VerbInv(c) /\ PcInv(c)
  BY DEF StartInv, ControlInv
<1>5. CASE StartGuest(c)
  <2>1. /\ pc[c] = "startguest" /\ bundle[c].os # "linux" /\ i = IdOf[c] /\ cell[i] # "none"
    BY <1>5 DEF StartGuest
  <2> QED BY <1>4, <2>1 DEF LoadedInv, VerbInv, Stopping
<1>6. CASE BootStart(c)
  <2>1. boot[c] = "start" /\ i = IdOf[c] /\ cell[i] # "none"
    BY <1>6 DEF BootStart
  <2> QED BY <1>4, <2>1 DEF LoadedInv, PcInv, Gone, NoGuest
<1> QED BY <1>3, <1>5, <1>6

\* jailhouse cell start finds a cell whose image was loaded, for any number
\* of commands that interleave.
THEOREM StartsFollowLoads ==
  ASSUME IdOfInjective, LoadsWork
  PROVE  Spec => StartsLoaded
<1>1. Init => StartInv
  BY IdOfAssumption DEF Init, FrontInit, StartInv, LoadedInv
<1>2. IInv /\ StartInv /\ [Next]_vars => StartInv'
  BY StartStep
<1>3. IInv /\ StartInv /\ [Next]_vars =>
        [\A i \in Ids : cell[i] # "running" /\ cell'[i] = "running" =>
           cell[i] = "loaded" \/ \E c \in Containers :
                                   IdOf[c] = i /\ bundle[c].os = "linux"]_vars
  BY StartsLoadedStep
<1> QED BY <1>1, <1>2, <1>3, Invariant, PTL DEF Spec, StartsLoaded

-----------------------------------------------------------------------------
(* Exclusive contents.                                                     *)

\* Where the snapshot of c comes from.
LEMMA StepsSnap ==
  ASSUME NEW c \in Containers, IInv, DOMAIN snap = Containers, StepOf(c)
  PROVE  \/ RetrieveState(c)
         \/ /\ snap' = snap \/ snap' = [snap EXCEPT ![c] = NoSnap]
            /\ pc'[c] # "save_state"
         \/ snap' = snap /\ pc' = pc
<1> USE DEF IInv, TypeOK, Goto
<1>1. CASE Engine(c) /\ UNCHANGED backVars
  BY <1>1 DEF Engine, Invoke, backVars
<1>2. CASE FrontStep(c) /\ UNCHANGED backVars
  BY <1>2 DEF FrontStep, Exit, DecideCreate, DecideExisting, RemoveStaleDir,
     MakeDir, State, RuncExisting, FirstCall, ControlInv, VerbInv, backVars
<1>3. CASE CreateStep(c)
  BY <1>3 DEF CreateStep, SaveRead, SaveTruncate, SaveWrite, Truncate, Write, Compile,
     CreateCell, LoadCell, SpawnCaronte, Store, StoreBundle, StorePidfile, StoreOs,
     StartGuest, ReturnOk, ReturnErr, AfterOk, AfterErr
<1>4. CASE TeardownStep(c)
  BY <1>4 DEF TeardownStep, ShutdownCell, StopSignal, FreeRead, FreeTruncate, FreeWrite,
     Truncate, Write, DestroyCell, SignalCaronte,
     RemoveRunDir, Cleanup, RemoveDir, ReturnOk, ReturnErr, AfterOk, AfterErr
<1>5. CASE BootLinux(c)
  BY <1>5 DEF BootLinux, BootCreate, BootStart, feVars
<1>6. CASE Crash(c)
  BY <1>6 DEF Crash, CrashFrontend
<1> QED BY <1>1, <1>2, <1>3, <1>4, <1>5, <1>6 DEF StepOf

\* A step beside the commands: of the engine or of a caronte.
LEMMA BesideStep ==
  ASSUME NEW c \in Containers, IInv, StepOf(c), pc[c] = "idle" \/ BootLinux(c)
  PROVE  /\ (Engine(c) /\ UNCHANGED backVars) \/ BootLinux(c)
         /\ UNCHANGED <<file, doc, snap, cellfile, files, crundir>>
         /\ \/ UNCHANGED <<pc, verb, bundle>>
            \/ /\ Engine(c) /\ UNCHANGED backVars
               /\ pc[c] = "idle" /\ pc'[c] \in {"decide_create", "decide_existing"}
               /\ verb'[c] = "create" => bundle'[c] \in Bundles
<1>1. (Engine(c) /\ UNCHANGED backVars) \/ BootLinux(c)
  BY DEF StepOf, FrontStep, Exit, DecideCreate, DecideExisting, RemoveStaleDir, MakeDir,
     State, CreateStep, RetrieveState, SaveRead, SaveTruncate, SaveWrite, Truncate, Write,
     Compile, CreateCell, LoadCell, SpawnCaronte, Store, StoreBundle, StorePidfile,
     StoreOs, StartGuest, TeardownStep, ShutdownCell, StopSignal, FreeRead, FreeTruncate,
     FreeWrite, DestroyCell, SignalCaronte, RemoveRunDir, Cleanup, Crash, CrashFrontend
<1>2. CASE Engine(c) /\ UNCHANGED backVars
  BY <1>2 DEF Engine, Invoke, backVars, IInv, TypeOK, Goto
<1>3. CASE BootLinux(c)
  BY <1>3 DEF BootLinux, BootCreate, BootStart, feVars
<1> QED BY <1>1, <1>2, <1>3

LEMMA EmptySound == Sound(EmptyFile)
<1>1. <<>> \in Seq(Segments) /\ <<>> \in Seq(Nat) /\ DOMAIN <<>> = {}
  <2>1. <<>> \in Seq(Segments) /\ <<>> \in Seq(Nat) /\ Len(<<>>) = 0
    BY EmptySeq
  <2>2. DOMAIN <<>> = 1 .. 0
    BY <2>1, LenProperties
  <2> QED BY <2>1, <2>2
<1> QED BY <1>1 DEF Sound, EmptyFile, NoSections, PoolOf, Pools, Exclusive

\* The contents that a step leaves in the file, and those about to be written.
LEMMA SoundStep ==
  ASSUME NEW c \in Containers, IInv, ExclusiveInv, StepOf(c)
  PROVE  Sound(file') /\ \A d \in Containers : Sound(doc'[d])
<1> USE DEF ExclusiveInv, ContentsInv
<1>1. CASE SaveRead(c)
  <2>1. file' = file
    BY <1>1 DEF SaveRead
  <2>2. CASE doc' = [doc EXCEPT ![c] = SaveState(file, IdOf[c], bundle[c], snap[c])]
    <3>1. pc[c] = "save_state"
      BY <1>1 DEF SaveRead
    <3>2. file.intact /\ snap[c] = PoolOf(file) /\ bundle[c] \in Bundles
      BY <3>1 DEF SnapInv, IInv, ControlInv, VerbInv, Creating, Configuring
    <3>3. Sound(SaveState(file, IdOf[c], bundle[c], snap[c]))
      BY <3>2, SaveSound
    <3> QED BY <2>1, <2>2, <3>3
  <2>3. CASE doc' = doc
    BY <2>1, <2>3
  <2> QED BY <1>1, <2>2, <2>3 DEF SaveRead
<1>2. CASE SaveTruncate(c) \/ FreeTruncate(c)
  BY <1>2, EmptySound DEF SaveTruncate, FreeTruncate, Truncate
<1>3. CASE SaveWrite(c) \/ FreeWrite(c)
  BY <1>3, EmptySound DEF SaveWrite, FreeWrite, Write
<1>4. CASE FreeRead(c)
  <2>1. file' = file
    BY <1>4 DEF FreeRead
  <2>2. CASE IdOf[c] \in DOMAIN file.sections
    <3>1. Sound(DestroyUpdateState(file, IdOf[c]))
      BY <2>2, DestroySound
    <3> QED BY <1>4, <2>1, <2>2, <3>1 DEF FreeRead
  <2>3. CASE doc' = doc
    BY <2>1, <2>3
  <2> QED BY <1>4, <2>2, <2>3 DEF FreeRead
<1>5. CASE Crash(c)
  BY <1>5, EmptySound DEF Crash
<1>6. CASE UNCHANGED <<file, doc>>
  BY <1>6
<1> QED BY <1>1, <1>2, <1>3, <1>4, <1>5, <1>6, StepsAside DEF Aside

LEMMA ExclusiveStep ==
  ASSUME NEW c \in Containers, IdOfInjective, OneCommand, IInv, ExclusiveInv, StepOf(c)
  PROVE  ExclusiveInv'
<1>1. OneActiveInv' /\ ContentsInv'
  BY OneActive, ContentsStep DEF ExclusiveInv
<1>2. \A d \in Containers \ {c} : Same(d)
  BY StepKept
<1>3. DOMAIN snap = Containers /\ snap \in [Containers -> Pools] /\ Sound(file)
      /\ \A d \in Containers : SnapInv(d)
  BY DEF ExclusiveInv
<1>4. snap' \in [Containers -> Pools]
  <2>1. CASE RetrieveState(c)
    <3>1. PoolOf(file) \in Pools
      BY <1>3 DEF Sound
    <3>2. snap' = snap \/ snap' = [snap EXCEPT ![c] = PoolOf(file)]
      BY <2>1 DEF RetrieveState, PoolOf
    <3> QED BY <1>3, <3>1, <3>2
  <2>2. NoSnap \in Pools
    <3>1. <<>> \in Seq(Segments) /\ <<>> \in Seq(Nat)
      BY EmptySeq
    <3> QED BY <3>1 DEF NoSnap, Pools
  <2> QED BY <1>3, <2>1, <2>2, StepsSnap
<1>5. ASSUME NEW d \in Containers PROVE SnapInv(d)'
  <2>1. CASE pc[c] = "idle" \/ BootLinux(c)
    BY <1>2, <1>3, <2>1, BesideStep DEF Same, SnapInv
  <2>2. CASE pc[c] # "idle" /\ ~BootLinux(c)
    <3>1. CASE d # c
      <4>1. pc[d] = "idle"
        BY <2>2, <3>1, Alone DEF ExclusiveInv
      <4> QED BY <1>2, <1>3, <3>1, <4>1 DEF Same, SnapInv
    <3>2. CASE d = c
      <4>1. verb'[c] = "create" => bundle'[c] \in Bundles
        <5>1. \/ verb'[c] = "none"
              \/ verb' = verb /\ bundle' = bundle
          BY <2>2 DEF StepOf, Engine, Invoke, FrontStep, Exit, DecideCreate, DecideExisting,
             RemoveStaleDir, MakeDir, State, CreateStep, RetrieveState, SaveRead, SaveTruncate,
             SaveWrite, Truncate, Write, Compile, CreateCell, LoadCell, SpawnCaronte, Store,
             StoreBundle, StorePidfile, StoreOs, StartGuest, TeardownStep, ShutdownCell,
             StopSignal, FreeRead, FreeTruncate, FreeWrite, DestroyCell, SignalCaronte,
             RemoveRunDir, Cleanup, RemoveDir, Crash, CrashFrontend, IInv, TypeOK
        <5> QED BY <1>3, <5>1 DEF SnapInv
      <4>2. pc'[c] = "save_state" => file'.intact /\ snap'[c] = PoolOf(file')
        <5>1. ASSUME pc'[c] = "save_state", RetrieveState(c)
              PROVE  file'.intact /\ snap'[c] = PoolOf(file')
          <6>1. file' = file /\ file.intact /\ snap' = [snap EXCEPT ![c] = PoolOf(file)]
            BY <5>1 DEF RetrieveState, ReturnErr, AfterErr, Goto, PoolOf, IInv, TypeOK
          <6> QED BY <1>3, <6>1
        <5>2. ASSUME pc'[c] = "save_state", snap' = snap, pc' = pc
              PROVE  file'.intact /\ snap'[c] = PoolOf(file')
          <6>1. file' = file
            BY <2>2, <5>2, StepsAside DEF Aside, SaveRead, SaveTruncate, SaveWrite, FreeRead,
               FreeTruncate, FreeWrite, Truncate, Write, Crash, CrashFrontend
          <6> QED BY <1>3, <5>2, <6>1 DEF SnapInv
        <5> QED BY <1>3, <5>1, <5>2, StepsSnap
      <4>3. pc'[c] \in {"save_write", "free_write"} => file' = EmptyFile
        <5> USE DEF Goto, IInv, TypeOK
        <5>1. CASE SaveRead(c)
          BY <5>1 DEF SaveRead, ReturnErr, AfterErr
        <5>2. CASE SaveTruncate(c) \/ FreeTruncate(c)
          BY <5>2 DEF SaveTruncate, FreeTruncate, Truncate
        <5>3. CASE SaveWrite(c) \/ FreeWrite(c)
          BY <5>3 DEF SaveWrite, FreeWrite, Write
        <5>4. CASE FreeRead(c)
          BY <5>4 DEF FreeRead
        <5>5. CASE Crash(c)
          BY <5>5 DEF Crash, CrashFrontend
        <5>6. CASE Aside(c)
          BY <5>6 DEF Aside
        <5>7. CASE UNCHANGED <<file, doc, pc, crundir>>
          BY <1>3, <5>7 DEF SnapInv
        <5> QED BY <5>1, <5>2, <5>3, <5>4, <5>5, <5>6, <5>7, StepsAside
      <4> QED BY <3>2, <4>1, <4>2, <4>3 DEF SnapInv
    <3> QED BY <3>1, <3>2
  <2> QED BY <2>1, <2>2
<1> QED BY <1>1, <1>4, <1>5, SoundStep DEF ExclusiveInv

\* The lists of the free pool and the sections, of what state.toml holds at
\* the start.
LEMMA InitSound == Sound(InitFile)
<1>1. /\ InitFile.segs \in Seq(Segments) /\ InitFile.segs # <<>>
      /\ InitFile.bdf \in SUBSET Nat /\ InitFile.rcpus \in Seq(Nat)
      /\ DOMAIN InitFile.sections = {}
  BY InitFileAssumption DEF NoSections
<1>2. Exclusive(InitFile)
  BY <1>1, InitFileAssumption DEF Exclusive
<1> QED BY <1>1, <1>2 DEF Sound, PoolOf, Pools

LEMMA InitExclusive == Init => ExclusiveInv
<1> SUFFICES ASSUME Init PROVE ExclusiveInv
  OBVIOUS
<1>1. OneActiveInv /\ ContentsInv
  BY InitFileAssumption DEF Init, FrontInit, OneActiveInv, Active, ContentsInv
<1>2. NoSnap \in Pools
  <2>1. <<>> \in Seq(Segments) /\ <<>> \in Seq(Nat)
    BY EmptySeq
  <2> QED BY <2>1 DEF NoSnap, Pools
<1>3. snap \in [Containers -> Pools]
  BY <1>2 DEF Init
<1>4. Sound(file) /\ \A c \in Containers : Sound(doc[c])
  BY InitSound, EmptySound DEF Init
<1>5. \A c \in Containers : SnapInv(c)
  BY DEF Init, FrontInit, SnapInv
<1> QED BY <1>1, <1>3, <1>4, <1>5 DEF ExclusiveInv

LEMMA ExclusiveNext ==
  ASSUME IdOfInjective, OneCommand, IInv, ExclusiveInv, [Next]_vars
  PROVE  ExclusiveInv'
<1>1. CASE UNCHANGED vars
  BY <1>1 DEF vars, feVars, backVars, ExclusiveInv, OneActiveInv, Active, ContentsInv, SnapInv
<1>2. ASSUME NEW c \in Containers, StepOf(c)
      PROVE  ExclusiveInv'
  BY <1>2, ExclusiveStep
<1>3. CASE Reboot
  <2>1. OneActiveInv' /\ ContentsInv'
    BY <1>3, OneActiveNext, ContentsNext DEF Next, ExclusiveInv
  <2>2. NoSnap \in Pools
    <3>1. <<>> \in Seq(Segments) /\ <<>> \in Seq(Nat)
      BY EmptySeq
    <3> QED BY <3>1 DEF NoSnap, Pools
  <2>3. snap' \in [Containers -> Pools]
    BY <1>3, <2>2 DEF Reboot
  <2>4. Sound(file') /\ \A c \in Containers : Sound(doc'[c])
    BY <1>3, EmptySound DEF Reboot, ExclusiveInv
  <2>5. \A c \in Containers : SnapInv(c)'
    BY <1>3 DEF Reboot, RebootFrontend, SnapInv
  <2> QED BY <2>1, <2>3, <2>4, <2>5 DEF ExclusiveInv
<1> QED BY <1>1, <1>2, <1>3 DEF Next, StepOf

\* state.toml and every contents that a process has computed from it and is
\* about to write keep memory, PCI devices and real-time CPUs with one holder.
THEOREM Exclusion ==
  ASSUME IdOfInjective, OneCommand
  PROVE  Spec => []ExclusiveInv
<1>1. IInv /\ ExclusiveInv /\ [Next]_vars => ExclusiveInv'
  BY ExclusiveNext
<1> QED BY <1>1, InitExclusive, Invariant, PTL DEF Spec

\* Commands that run one at a time never make state.toml give the same memory,
\* PCI device or real-time CPU away twice, whichever of them fail, are killed
\* between two steps or lose a write, and across reboots.
THEOREM PoolExclusion ==
  ASSUME IdOfInjective, OneCommand
  PROVE  Spec => []PoolExclusive
<1>1. ExclusiveInv => PoolExclusive
  BY DEF ExclusiveInv, Sound, PoolExclusive
<1> QED BY <1>1, Exclusion, PTL

-----------------------------------------------------------------------------
(* Exclusive cells.                                                        *)

LEMMA ApartSym ==
  ASSUME NEW a \in Holdings, NEW b \in Holdings, Apart(a, b)
  PROVE  Apart(b, a)
<1>1. a.mem \in Segments /\ b.mem \in Segments
  BY DEF Holdings
<1>2. Disjoint(b.mem, a.mem)
  BY <1>1, DisjointSym DEF Apart
<1> QED BY <1>2 DEF Apart

\* A cell without a configuration of runPHI uses nothing.
LEMMA NoConfApart ==
  /\ NoConf \in Holdings
  /\ \A x : Apart(NoConf, x) /\ Apart(x, NoConf)
  /\ \A d : NotFree(NoConf, d)
<1>1. <<>> \in Seq(Nat) /\ DOMAIN <<>> = {}
  <2>1. <<>> \in Seq(Nat) /\ Len(<<>>) = 0
    BY EmptySeq
  <2>2. DOMAIN <<>> = 1 .. 0
    BY <2>1, LenProperties
  <2> QED BY <2>1, <2>2
<1>2. NoConf \in Holdings
  BY <1>1 DEF NoConf, Holdings, Segment, Segments
<1>3. Elements(NoConf.rcpus) = {} /\ NoConf.bdf = {} /\ NoConf.mem.start = NoConf.mem.end
  BY <1>1 DEF NoConf, Elements, Segment
<1>4. \A x : Apart(NoConf, x) /\ Apart(x, NoConf)
  BY <1>3 DEF Apart, Disjoint
<1>5. \A d : NotFree(NoConf, d)
  BY <1>3 DEF NotFree, Disjoint
<1> QED BY <1>2, <1>4, <1>5

\* Nothing is free in an empty file.
LEMMA EmptyFree == /\ \A y : NotFree(y, EmptyFile)
                   /\ DOMAIN EmptyFile.sections = {}
<1>1. DOMAIN <<>> = {}
  <2>1. <<>> \in Seq(Nat) /\ Len(<<>>) = 0
    BY EmptySeq
  <2>2. DOMAIN <<>> = 1 .. 0
    BY <2>1, LenProperties
  <2> QED BY <2>1, <2>2
<1> QED BY <1>1 DEF NotFree, EmptyFile, NoSections, Elements

\* A step of the command of c that changes neither contents nor cells.
Quiet(c) ==
  /\ UNCHANGED <<file, doc, conf>> /\ Live' = Live
  /\ cellfile' = cellfile \/ cellfile' = [cellfile EXCEPT ![IdOf[c]] = NoConf]
  /\ pc[c] \notin Endings /\ pc'[c] \notin Writing \cup {"compile", "createguest"} \cup Endings
  /\ pc'[c] \in {"make_dir", "config_generate", "save_state"} =>
       "cell" \notin files'[IdOf[c]]

LEMMA StepsQuiet ==
  ASSUME NEW c \in Containers, IInv, CellsInv, StepOf(c), pc[c] # "idle", ~BootLinux(c),
         ~SaveRead(c), ~SaveTruncate(c), ~SaveWrite(c), ~Compile(c), ~CreateCell(c),
         ~FreeRead(c), ~FreeTruncate(c), ~FreeWrite(c), ~DestroyCell(c), ~Crash(c)
  PROVE  Quiet(c)
<1> USE IdOfAssumption DEF IInv, TypeOK, Goto, Quiet, Live, Endings
<1>1. ~Engine(c)
  BY DEF Engine, Invoke
<1>2. PendingInv(c) /\ VerbInv(c)
  BY DEF CellsInv, ControlInv
<1>3. CASE FrontStep(c) /\ UNCHANGED backVars
  <2>1. CASE Exit(c) \/ DecideCreate(c) \/ State(c)
    BY <1>3, <2>1 DEF Exit, DecideCreate, State, backVars
  <2>2. CASE DecideExisting(c)
    BY <1>2, <1>3, <2>2 DEF DecideExisting, RuncExisting, FirstCall, VerbInv, backVars
  <2>3. CASE RemoveStaleDir(c) \/ MakeDir(c)
    BY <1>2, <1>3, <2>3 DEF RemoveStaleDir, MakeDir, backVars, PendingInv
  <2> QED BY <1>3, <2>1, <2>2, <2>3 DEF FrontStep
<1>4. CASE CreateStep(c)
  <2> USE DEF ReturnOk, ReturnErr, AfterOk, AfterErr
  <2>1. CASE RetrieveState(c)
    <3>1. "cell" \notin files[IdOf[c]]
      BY <1>2, <2>1 DEF RetrieveState, PendingInv, Configuring
    <3> QED BY <2>1, <3>1 DEF RetrieveState
  <2>2. CASE LoadCell(c)
    BY <2>2 DEF LoadCell
  <2>3. CASE SpawnCaronte(c)
    BY <2>3 DEF SpawnCaronte
  <2>4. CASE StoreBundle(c) \/ StorePidfile(c) \/ StoreOs(c)
    BY <2>4 DEF StoreBundle, StorePidfile, StoreOs, Store
  <2>5. CASE StartGuest(c)
    BY <2>5 DEF StartGuest
  <2> QED BY <1>4, <2>1, <2>2, <2>3, <2>4, <2>5 DEF CreateStep
<1>5. CASE TeardownStep(c)
  <2> USE DEF ReturnOk, ReturnErr, AfterOk, AfterErr
  <2>1. CASE ShutdownCell(c)
    BY <2>1 DEF ShutdownCell
  <2>2. CASE StopSignal(c) \/ SignalCaronte(c)
    BY <2>2 DEF StopSignal, SignalCaronte
  <2>3. CASE RemoveRunDir(c) \/ Cleanup(c)
    BY <2>3 DEF RemoveRunDir, Cleanup, RemoveDir
  <2> QED BY <1>5, <2>1, <2>2, <2>3 DEF TeardownStep
<1> QED BY <1>1, <1>3, <1>4, <1>5 DEF StepOf

\* A step of the engine, or a linux cell that caronte boots.
LEMMA CellsBeside ==
  ASSUME NEW c \in Containers, IdOfInjective, IInv, ExclusiveInv, CellsInv, StepOf(c),
         pc[c] = "idle" \/ BootLinux(c)
  PROVE  CellsInv'
<1> USE IdOfAssumption
<1>1. UNCHANGED <<file, doc, snap, cellfile, files>>
  BY BesideStep
<1>2. \/ conf' = conf /\ Live' = Live
      \/ /\ conf' = [conf EXCEPT ![IdOf[c]] = NoConf]
         /\ Live' = Live \cup {IdOf[c]}
  <2>1. CASE Engine(c) /\ UNCHANGED backVars
    BY <2>1 DEF backVars, Live
  <2>2. CASE BootCreate(c)
    BY <2>2 DEF BootCreate, Live, IInv, TypeOK
  <2>3. CASE BootStart(c)
    BY <2>3 DEF BootStart, Live, IInv, TypeOK
  <2> QED BY <2>1, <2>2, <2>3, BesideStep DEF BootLinux
<1>3. conf' \in [Ids -> Holdings] /\ cellfile' \in [Ids -> Holdings]
  BY <1>1, <1>2, NoConfApart DEF CellsInv
<1>4. Live \subseteq Ids
  BY DEF Live
<1>5. \A i \in Live' : conf'[i] = NoConf \/ (i \in Live /\ conf'[i] = conf[i])
  BY <1>2, <1>4 DEF CellsInv
<1>6. \A i, j \in Live' : i # j => Apart(conf'[i], conf'[j])
  BY <1>2, <1>3, <1>4, <1>5, NoConfApart DEF CellsInv, NoSharedResources
<1>7. \A i \in Ids : Ending(i)' <=> Ending(i)
  <2>1. UNCHANGED pc \/ (pc[c] = "idle" /\ pc'[c] \in {"decide_create", "decide_existing"}
                          /\ \A d \in Containers \ {c} : pc'[d] = pc[d])
    BY BesideStep, StepKept DEF Same
  <2> QED BY <2>1 DEF Ending, Endings
<1>8. ASSUME NEW i \in Live', NEW d, i \in Live => UsedBy(i, conf[i], d, Ending(i))
      PROVE  UsedBy(i, conf'[i], d, Ending(i)')
  <2>1. CASE conf'[i] = NoConf
    BY <2>1, NoConfApart DEF UsedBy
  <2>2. CASE i \in Live /\ conf'[i] = conf[i]
    BY <1>4, <1>7, <1>8, <2>2 DEF UsedBy
  <2> QED BY <1>5, <2>1, <2>2
<1>9. \A i \in Live' : UsedBy(i, conf'[i], file', Ending(i)')
  BY <1>1, <1>8 DEF CellsInv, UseInv
<1>10. ASSUME NEW d \in Containers, pc'[d] \in Writing
       PROVE  \A i \in Live' : UsedBy(i, conf'[i], doc'[d], Ending(i)')
  <2>1. pc[d] \in Writing
    BY <1>10, BesideStep, StepKept DEF Same
  <2>2. \A i \in Live : UsedBy(i, conf[i], doc[d], Ending(i))
    BY <2>1 DEF CellsInv, UseInv
  <2> QED BY <1>1, <1>8, <2>2
<1>11. ASSUME NEW d \in Containers
       PROVE  PendingInv(d)'
  <2>1. PendingInv(d)
    BY DEF CellsInv
  <2>2. \/ pc'[d] = pc[d] /\ bundle'[d] = bundle[d]
        \/ pc'[d] \in {"decide_create", "decide_existing"}
    BY BesideStep, StepKept DEF Same
  <2>3. CASE pc'[d] \in {"decide_create", "decide_existing"}
    BY <2>3 DEF PendingInv, Configuring
  <2>4. CASE pc'[d] = pc[d] /\ bundle'[d] = bundle[d]
    <3>1. ASSUME NEW a, \A j \in Live : j # IdOf[d] => Apart(a, conf[j])
          PROVE  \A j \in Live' : j # IdOf[d] => Apart(a, conf'[j])
      BY <1>5, <3>1, NoConfApart
    <3> QED BY <1>1, <2>1, <2>4, <3>1 DEF PendingInv, Configuring
  <2> QED BY <2>2, <2>3, <2>4
<1> QED BY <1>3, <1>6, <1>9, <1>10, <1>11 DEF CellsInv, NoSharedResources, UseInv

\* A step of the only command.
LEMMA CellsCommand ==
  ASSUME NEW c \in Containers, IdOfInjective, OneCommand, FreesWork,
         IInv, ExclusiveInv, CellsInv, StepOf(c), pc[c] # "idle", ~BootLinux(c)
  PROVE  CellsInv'
<1> USE IdOfAssumption
<1> DEFINE i == IdOf[c]
           own(a, d) == /\ a \in Holdings /\ HeldBy(i, a, d)
                        /\ \A j \in Live : j # i => Apart(a, conf[j])
<1>1. \A d \in Containers \ {c} : pc[d] = "idle" /\ pc'[d] = "idle"
  BY Alone, StepKept DEF ExclusiveInv, Same
<1>2. \A j : /\ Ending(j) <=> (j = i /\ pc[c] \in Endings)
             /\ Ending(j)' <=> (j = i /\ pc'[c] \in Endings)
  BY <1>1 DEF Ending, Endings
<1>3. SUFFICES /\ conf' \in [Ids -> Holdings] /\ cellfile' \in [Ids -> Holdings]
               /\ \A j, k \in Live' : j # k => Apart(conf'[j], conf'[k])
               /\ \A j \in Live' : UsedBy(j, conf'[j], file', Ending(j)')
               /\ PendingInv(c)'
               /\ pc'[c] \in Writing =>
                    \A j \in Live' : UsedBy(j, conf'[j], doc'[c], Ending(j)')
  <2>1. ASSUME NEW d \in Containers, d # c PROVE PendingInv(d)' /\ pc'[d] \notin Writing
    BY <1>1, <2>1 DEF PendingInv, Configuring
  <2> QED BY <1>3, <2>1 DEF CellsInv, NoSharedResources, UseInv
<1>4. /\ conf \in [Ids -> Holdings] /\ cellfile \in [Ids -> Holdings]
      /\ \A j, k \in Live : j # k => Apart(conf[j], conf[k])
      /\ \A j \in Live : UsedBy(j, conf[j], file, Ending(j))
      /\ PendingInv(c)
      /\ pc[c] \in Writing => \A j \in Live : UsedBy(j, conf[j], doc[c], Ending(j))
  BY DEF CellsInv, NoSharedResources, UseInv
<1>5. Live \subseteq Ids /\ i \in Ids
  BY DEF Live
<1>6. /\ DOMAIN file = DOMAIN EmptyFile /\ DOMAIN doc = Containers
      /\ snap \in [Containers -> Pools] /\ Sound(file) /\ Sound(doc[c]) /\ SnapInv(c)
  BY DEF ExclusiveInv, ContentsInv
<1>7. VerbInv(c) /\ PcInv(c)
  BY DEF IInv, ControlInv
<1>8. pc' \in [Containers -> Labels] /\ pc \in [Containers -> Labels]
  BY StepKept DEF IInv, TypeOK
<1> DEFINE same == conf' = conf /\ Live' = Live
<1>9. CASE Quiet(c)
  <2>1. cellfile' \in [Ids -> Holdings]
    BY <1>4, <1>9, NoConfApart DEF Quiet
  <2>2. PendingInv(c)'
    BY <1>9 DEF Quiet, PendingInv, Configuring
  <2>3. \A j : Ending(j)' <=> Ending(j)
    BY <1>2, <1>9 DEF Quiet
  <2>4. /\ file' = file /\ conf' = conf /\ Live' = Live /\ pc'[c] \notin Writing
    BY <1>9 DEF Quiet
  <2>5. \A j \in Live' : UsedBy(j, conf'[j], file', Ending(j)')
    BY <1>4, <2>3, <2>4 DEF UsedBy
  <2> QED BY <1>4, <2>1, <2>2, <2>4, <2>5
<1>10. CASE SaveRead(c)
  <2>1. /\ pc[c] = "save_state" /\ UNCHANGED <<file, conf, cellfile, cell, bundle>>
    BY <1>10 DEF SaveRead
  <2>2. same
    BY <2>1 DEF Live
  <2>3. \A j : ~Ending(j)
    BY <1>2, <2>1 DEF Endings
  <2>4. CASE pc'[c] = "err"
    <3>1. PendingInv(c)'
      BY <2>4 DEF PendingInv, Configuring
    <3>2. \A j \in Live' : UsedBy(j, conf'[j], file', Ending(j)')
      BY <1>4, <2>1, <2>2, <2>3 DEF UsedBy
    <3> QED BY <1>4, <2>1, <2>2, <2>4, <3>1, <3>2
  <2>5. CASE /\ pc'[c] = "save_truncate" /\ snap' = snap
             /\ doc'[c] = SaveState(file, i, bundle[c], snap[c])
             /\ files' = [files EXCEPT ![i] = @ \cup {"console"}]
    <3> DEFINE b == bundle[c]
               cfg == CellConfig(b, snap[c])
               e == SaveState(file, i, b, snap[c])
    <3>1. file.intact /\ snap[c] = PoolOf(file) /\ b \in Bundles
      BY <1>6, <1>7, <2>1 DEF SnapInv, VerbInv, Creating, Configuring
    <3>2. /\ DOMAIN e.sections = DOMAIN file.sections \cup {i}
          /\ \A j \in DOMAIN file.sections : j # i => e.sections[j] = file.sections[j]
          /\ HeldBy(i, cfg, e) /\ cfg \in Holdings
          /\ \A y \in Holdings : NotFree(y, file) =>
               NotFree(y, e) /\ Apart(y, e.sections[i]) /\ Apart(y, cfg)
      BY <1>6, <3>1, SaveSound
    <3> HIDE DEF cfg, e
    <3>3. \A j \in Live : conf[j] \in Holdings /\ NotFree(conf[j], file)
      BY <1>4, <1>5, <2>3 DEF UsedBy
    <3>4. \A j \in Live : Apart(cfg, conf[j])
      BY <3>2, <3>3, ApartSym
    <3>5. ASSUME NEW j \in Live PROVE UsedBy(j, conf[j], e, FALSE)
      <4>1. UsedBy(j, conf[j], file, FALSE)
        BY <1>4, <2>3 DEF UsedBy
      <4> QED BY <3>2, <3>3, <4>1 DEF UsedBy
    <3>6. "cell" \notin files'[i]
      <4>1. "cell" \notin files[i]
        BY <1>4, <2>1 DEF PendingInv, Configuring
      <4> QED BY <1>5, <2>5, <4>1 DEF IInv, TypeOK
    <3>7. own(cfg, e)
      BY <3>2, <3>4
    <3>8. PendingInv(c)'
      <4>1. CellConfig(bundle[c], snap[c])' = cfg /\ doc'[c] = e
        BY <2>1, <2>5 DEF cfg, e
      <4>2. \A j \in Live' : j # i => Apart(cfg, conf'[j])
        BY <2>2, <3>7
      <4> QED BY <2>5, <3>6, <3>7, <4>1, <4>2 DEF PendingInv, Configuring
    <3>9. \A j : ~Ending(j)'
      BY <1>2, <2>5 DEF Endings
    <3>10. \A j \in Live' : UsedBy(j, conf'[j], file', Ending(j)')
      BY <1>4, <2>1, <2>2, <2>3, <3>9 DEF UsedBy
    <3>11. \A j \in Live' : UsedBy(j, conf'[j], doc'[c], Ending(j)')
      BY <2>2, <2>5, <3>5, <3>9 DEF UsedBy, e
    <3> QED BY <1>4, <2>1, <2>2, <3>8, <3>10, <3>11
  <2> QED
    BY <1>8, <1>6, <1>10, <2>4, <2>5
    DEF SaveRead, ReturnErr, AfterErr, Goto, IInv, TypeOK, Put
<1>11. CASE SaveTruncate(c) \/ FreeTruncate(c)
  <2>1. /\ file' = EmptyFile /\ UNCHANGED <<conf, cellfile, cell, bundle, doc, snap, files>>
        /\ \/ pc[c] = "save_truncate" /\ pc'[c] = "save_write"
           \/ pc[c] = "free_truncate" /\ pc'[c] = "free_write"
    BY <1>11 DEF SaveTruncate, FreeTruncate, Truncate, Goto, IInv, TypeOK
  <2>2. same
    BY <2>1 DEF Live
  <2>3. \A j : Ending(j)' <=> Ending(j)
    BY <1>2, <2>1 DEF Endings
  <2>4. \A j \in Live' : UsedBy(j, conf'[j], file', Ending(j)')
    BY <2>1, EmptyFree DEF UsedBy
  <2>5. \A j \in Live' : UsedBy(j, conf'[j], doc'[c], Ending(j)')
    BY <1>4, <2>1, <2>2, <2>3 DEF UsedBy
  <2>6. PendingInv(c)'
    BY <1>4, <2>1, <2>2 DEF PendingInv, Configuring
  <2> QED BY <1>4, <2>1, <2>2, <2>4, <2>5, <2>6
<1>12. CASE SaveWrite(c) \/ FreeWrite(c)
  <2>1. /\ file' = doc[c] \/ file' = file
        /\ UNCHANGED <<conf, cellfile, cell, bundle, snap, files>>
        /\ \/ pc[c] = "save_write" /\ pc'[c] = "compile"
           \/ pc[c] = "free_write" /\ pc'[c] = "cell_destroy"
    BY <1>12 DEF SaveWrite, FreeWrite, Write, Goto, IInv, TypeOK
  <2>2. same
    BY <2>1 DEF Live
  <2>3. \A j : Ending(j)' <=> Ending(j)
    BY <1>2, <2>1 DEF Endings
  <2>4. file' = doc[c] \/ file' = EmptyFile
    BY <1>6, <2>1 DEF SnapInv
  <2>5. \A j \in Live' : UsedBy(j, conf'[j], file', Ending(j)')
    BY <1>4, <2>1, <2>2, <2>3, <2>4, EmptyFree DEF UsedBy
  <2>6. PendingInv(c)'
    <3> DEFINE cfg == CellConfig(bundle[c], snap[c])
    <3>1. CASE pc[c] = "save_write"
      <4>1. own(cfg, doc[c]) /\ "cell" \notin files[i]
        BY <1>4, <3>1 DEF PendingInv, Configuring
      <4> HIDE DEF cfg
      <4>2. HeldBy(i, cfg, file')
        BY <2>4, <4>1, EmptyFree DEF HeldBy
      <4>3. \A j \in Live' : j # i => Apart(cfg, conf'[j])
        BY <2>2, <4>1
      <4>4. cfg' = cfg /\ pc'[c] = "compile" /\ files' = files
        BY <2>1, <3>1 DEF cfg
      <4> QED BY <4>1, <4>2, <4>3, <4>4 DEF PendingInv, cfg
    <3>2. CASE pc[c] = "free_write"
      BY <2>1, <3>2 DEF PendingInv, Configuring
    <3> QED BY <2>1, <3>1, <3>2
  <2>7. pc'[c] \notin Writing
    BY <2>1
  <2> QED BY <1>4, <2>1, <2>2, <2>5, <2>6, <2>7
<1>13. CASE Compile(c)
  <2>1. /\ pc[c] = "compile" /\ pc'[c] = "createguest"
        /\ UNCHANGED <<conf, cell, file>>
    BY <1>7, <1>13 DEF Compile, ReturnOk, AfterOk, Goto, IInv, TypeOK
  <2>2. same
    BY <2>1 DEF Live
  <2>3. \A j : Ending(j)' <=> Ending(j)
    BY <1>2, <2>1 DEF Endings
  <2>4. \A j \in Live' : UsedBy(j, conf'[j], file', Ending(j)')
    BY <1>4, <2>1, <2>2, <2>3 DEF UsedBy
  <2> DEFINE cfg == CellConfig(bundle[c], snap[c])
  <2>5. own(cfg, file) /\ "cell" \notin files[i]
    BY <1>4, <2>1 DEF PendingInv, Configuring
  <2>6. \/ cellfile' = [cellfile EXCEPT ![i] = cfg]
        \/ cellfile' = cellfile /\ files' = files
    BY <1>13 DEF Compile
  <2> HIDE DEF cfg
  <2>7. cellfile' \in [Ids -> Holdings]
    BY <1>4, <2>5, <2>6
  <2>8. "cell" \in files'[i] => cellfile'[i] = cfg
    BY <1>4, <1>5, <2>5, <2>6
  <2>9. \A j \in Live' : j # i => Apart(cfg, conf'[j])
    BY <2>2, <2>5
  <2>10. PendingInv(c)'
    BY <2>1, <2>5, <2>8, <2>9 DEF PendingInv, Configuring
  <2> QED BY <1>4, <2>1, <2>2, <2>4, <2>7, <2>10
<1>14. CASE CreateCell(c)
  <2>1. /\ pc[c] = "createguest" /\ pc'[c] \in {"cell_load", "err"}
        /\ UNCHANGED <<cellfile, file>>
    BY <1>14 DEF CreateCell, ReturnErr, AfterErr, Goto, IInv, TypeOK
  <2>2. \A j : ~Ending(j) /\ ~Ending(j)'
    BY <1>2, <2>1 DEF Endings
  <2>3. PendingInv(c)' /\ pc'[c] \notin Writing
    BY <2>1 DEF PendingInv, Configuring
  <2>4. CASE UNCHANGED <<cell, conf>>
    <3>1. Live' = Live
      BY <2>4 DEF Live
    <3>2. \A j \in Live' : UsedBy(j, conf'[j], file', Ending(j)')
      BY <1>4, <2>1, <2>2, <2>4, <3>1 DEF UsedBy
    <3> QED BY <1>4, <2>1, <2>3, <2>4, <3>1, <3>2
  <2>5. CASE /\ "cell" \in files[i] /\ cell' = [cell EXCEPT ![i] = "created"]
             /\ conf' = [conf EXCEPT ![i] = cellfile[i]]
    <3>1. own(cellfile[i], file)
      BY <1>4, <2>1, <2>5 DEF PendingInv
    <3>2. Live' = Live \cup {i} /\ conf'[i] = cellfile[i]
          /\ \A j \in Live : j # i => conf'[j] = conf[j]
      BY <1>4, <1>5, <2>5 DEF Live, IInv, TypeOK
    <3>3. conf' \in [Ids -> Holdings]
      BY <1>4, <1>5, <2>5
    <3>4. \A j \in Live : j # i => Apart(cellfile[i], conf[j]) /\ Apart(conf[j], cellfile[i])
      BY <1>4, <1>5, <3>1, ApartSym
    <3>5. \A j, k \in Live' : j # k => Apart(conf'[j], conf'[k])
      BY <1>4, <3>2, <3>4
    <3>6. UsedBy(i, cellfile[i], file, FALSE)
      BY <3>1 DEF UsedBy, HeldBy
    <3>7. \A j \in Live' : UsedBy(j, conf'[j], file', Ending(j)')
      BY <1>4, <2>1, <2>2, <3>2, <3>6 DEF UsedBy
    <3> QED BY <1>4, <2>1, <2>3, <3>3, <3>5, <3>7
  <2> QED BY <1>14, <2>4, <2>5 DEF CreateCell
<1>15. CASE FreeRead(c)
  <2>1. /\ pc[c] = "destroyguest" /\ UNCHANGED <<file, conf, cellfile, cell>>
        /\ \/ pc'[c] = "cell_destroy"
           \/ /\ pc'[c] = "free_truncate" /\ i \in DOMAIN file.sections
              /\ doc'[c] = DestroyUpdateState(file, i)
    BY <1>6, <1>15 DEF FreeRead, Goto, IInv, TypeOK
  <2>2. same
    BY <2>1 DEF Live
  <2>3. \A j : ~Ending(j) /\ (Ending(j)' <=> j = i)
    BY <1>2, <2>1 DEF Endings
  <2>4. PendingInv(c)'
    BY <2>1 DEF PendingInv, Configuring
  <2>5. \A j \in Live' : UsedBy(j, conf'[j], file', Ending(j)')
    BY <1>4, <2>1, <2>2, <2>3 DEF UsedBy
  <2>6. ASSUME pc'[c] \in Writing, NEW j \in Live'
        PROVE  UsedBy(j, conf'[j], doc'[c], Ending(j)')
    <3> DEFINE e == DestroyUpdateState(file, i)
    <3>1. doc'[c] = e /\ i \in DOMAIN file.sections
      BY <2>1, <2>6
    <3>2. /\ DOMAIN e.sections = DOMAIN file.sections \ {i}
          /\ \A k \in DOMAIN e.sections : e.sections[k] = file.sections[k]
          /\ \A y \in Holdings : NotFree(y, file) /\ Apart(y, file.sections[i]) => NotFree(y, e)
      BY <1>6, <3>1, DestroySound
    <3> HIDE DEF e
    <3>3. UsedBy(j, conf[j], file, FALSE) /\ conf[j] \in Holdings
      BY <1>4, <1>5, <2>2, <2>3 DEF UsedBy
    <3>4. j # i => NotFree(conf[j], e)
      BY <3>1, <3>2, <3>3 DEF UsedBy
    <3> QED BY <2>2, <2>3, <3>1, <3>2, <3>3, <3>4 DEF UsedBy
  <2> QED BY <1>4, <2>1, <2>2, <2>4, <2>5, <2>6
<1>16. CASE DestroyCell(c)
  <2>1. /\ pc[c] = "cell_destroy" /\ pc'[c] \in {"signal", "err"}
        /\ UNCHANGED <<cellfile, file>>
        /\ \/ cell' = [cell EXCEPT ![i] = "none"] /\ conf' = [conf EXCEPT ![i] = NoConf]
           \/ cell[i] = "none" /\ UNCHANGED <<cell, conf>>
    BY <1>16 DEF DestroyCell, ReturnErr, AfterErr, Goto, IInv, TypeOK, FreesWork, Fault
  <2>2. \A j : Ending(j) <=> j = i
    BY <1>2, <2>1 DEF Endings
  <2>3. i \notin Live' /\ Live' \subseteq Live /\ \A j \in Live' : conf'[j] = conf[j]
    BY <1>4, <1>5, <2>1 DEF Live, IInv, TypeOK
  <2>4. conf' \in [Ids -> Holdings]
    BY <1>4, <2>1, NoConfApart
  <2>5. PendingInv(c)' /\ pc'[c] \notin Writing
    BY <2>1 DEF PendingInv, Configuring
  <2>6. \A j \in Live' : UsedBy(j, conf'[j], file', Ending(j)')
    BY <1>4, <2>1, <2>2, <2>3 DEF UsedBy
  <2>7. \A j, k \in Live' : j # k => Apart(conf'[j], conf'[k])
    BY <1>4, <2>3
  <2> QED BY <1>4, <2>1, <2>4, <2>5, <2>6, <2>7
<1>17. ~Crash(c)
  BY DEF Crash, CrashFrontend, FreesWork
<1> QED BY <1>9, <1>10, <1>11, <1>12, <1>13, <1>14, <1>15, <1>16, <1>17, StepsQuiet

LEMMA CellsNext ==
  ASSUME IdOfInjective, OneCommand, FreesWork, IInv, ExclusiveInv, CellsInv, [Next]_vars
  PROVE  CellsInv'
<1>1. CASE UNCHANGED vars
  BY <1>1 DEF vars, feVars, backVars, CellsInv, NoSharedResources, Live, UseInv, Ending,
     PendingInv
<1>2. ASSUME NEW c \in Containers, StepOf(c)
      PROVE  CellsInv'
  BY <1>2, CellsCommand, CellsBeside
<1>3. CASE Reboot
  <2>1. Live' = {}
    BY <1>3 DEF Reboot, Live
  <2>2. conf' \in [Ids -> Holdings] /\ cellfile' \in [Ids -> Holdings]
    BY <1>3, NoConfApart DEF Reboot
  <2>3. \A c \in Containers : PendingInv(c)' /\ pc'[c] \notin Writing
    BY <1>3 DEF Reboot, RebootFrontend, PendingInv, Configuring
  <2> QED BY <2>1, <2>2, <2>3 DEF CellsInv, NoSharedResources
<1> QED BY <1>1, <1>2, <1>3 DEF Next, StepOf

LEMMA InitCells == Init => CellsInv
<1> SUFFICES ASSUME Init PROVE CellsInv
  OBVIOUS
<1>1. Live = {}
  BY DEF Init, Live
<1>2. conf \in [Ids -> Holdings] /\ cellfile \in [Ids -> Holdings]
  BY NoConfApart DEF Init
<1>3. \A c \in Containers : PendingInv(c) /\ pc[c] \notin Writing
  BY DEF Init, FrontInit, PendingInv, Configuring
<1> QED BY <1>1, <1>2, <1>3 DEF CellsInv, NoSharedResources

\* What a cell uses, or will use once the create at work makes it, is nobody
\* else's and not free, in state.toml and in every contents about to be written
\* there, until destroyguest gives it back.
THEOREM CellsKeepTheirs ==
  ASSUME IdOfInjective, OneCommand, FreesWork
  PROVE  Spec => []CellsInv
<1>1. IInv /\ ExclusiveInv /\ CellsInv /\ [Next]_vars => CellsInv'
  BY CellsNext
<1> QED BY <1>1, InitCells, Exclusion, Invariant, PTL DEF Spec

\* Two cells of the hypervisor never share memory, a PCI device or a real-time
\* CPU, when commands run one at a time and a teardown is not cut off between
\* the return of the resources and the end of the cell.
THEOREM CellsShareNothing ==
  ASSUME IdOfInjective, OneCommand, FreesWork
  PROVE  Spec => []NoSharedResources
<1>1. CellsInv => NoSharedResources
  BY DEF CellsInv
<1> QED BY <1>1, CellsKeepTheirs, PTL

\* Under the same conditions, what state.toml calls free between two commands
\* is used by no cell.
THEOREM FreeStaysUnused ==
  ASSUME IdOfInjective, OneCommand, FreesWork
  PROVE  Spec => []FreeIsUnused
<1>1. CellsInv => FreeIsUnused
  <2> SUFFICES ASSUME CellsInv, Active = {}, NEW i \in Live PROVE NotFree(conf[i], file)
    BY DEF FreeIsUnused
  <2>1. ~Ending(i)
    BY DEF Active, Ending, Endings
  <2> QED BY <2>1 DEF CellsInv, UseInv, UsedBy
<1> QED BY <1>1, CellsKeepTheirs, PTL
=============================================================================
