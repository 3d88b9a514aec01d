----------------------- MODULE BackgroundWorker_proofs -----------------------
(***************************************************************************)
(* Proofs about BackgroundWorker: commands that run one after the other,    *)
(* each to its end, keep one worker and restart it, for any number of       *)
(* commands, processes and deaths of workers.                               *)
(***************************************************************************)
EXTENDS BackgroundWorker, FiniteSetTheorems, TLAPS

CanRestart == {"probe", "clear", "spawn", "write"}
Removing == {"remove", "remove_cfg", "remove_pid", "remove_home"}
StatusPhases == {"idle", "load", "exists", "create", "read"}
Stopping == {"stop_read", "stop_kill", "stop_clear"}

\* One command at a time.
Alone == \A c, d \in Commands : c # d => At(c, "idle") \/ At(d, "idle")

\* What a command has made sure of by the time it is at a step.
CommandInv(c) ==
    /\ cmd[c].pc \in Removing \cup {"clear", "spawn", "stop_clear"} => Running = {}
    /\ cmd[c].pc \in {"probe", "stop_kill", "write"} => Running \subseteq {cmd[c].pid}
    /\ cmd[c].pc \in {"probe", "write", "stop_kill"} => cmd[c].pid \in Pids
    /\ cmd[c].pc \in CanRestart \cup {"exists", "create"} => cfg # "off"
    /\ cmd[c].pc = "read" /\ cmd[c].on => cfg # "off"
    /\ cmd[c].pc \in Removing => ~attached
    /\ cmd[c].pc \notin Removing \cup {"idle"} => attached
    /\ cmd[c].kind = "status" => cmd[c].pc \in StatusPhases

\* The pid file names the worker, or the command that started it will.
PidNamesWorker ==
    \A p \in Running : \/ pidFile = p
                       \/ \E c \in Commands : At(c, "write") /\ cmd[c].pid = p

\* Sync is disabled and a worker still runs only while a command stops it.
Disabling ==
    cfg = "off" \/ (\E p \in Pids : worker[p] = "clear")
        => \/ Running = {}
           \/ \E c \in Commands : At(c, "stop_read") \/ At(c, "stop_kill")

PromiseKept ==
    promised => /\ attached
                /\ cfg # "off"
                /\ Running # {}
                /\ \A c \in Commands : At(c, "idle") \/ cmd[c].kind = "status"

CleanInv ==
    /\ Alone
    /\ \A c \in Commands : CommandInv(c)
    /\ attached => home
    /\ \A p, q \in Running : p = q
    /\ PidNamesWorker
    /\ Disabling
    /\ PromiseKept

Inv == TypeOK /\ (clean => CleanInv)

CmdRecords == [pc : CommandPhases, kind : Kinds, on : BOOLEAN, pid : Pids \cup {None}]

\* A command that ends has the type of a command.
LEMMA Ended ==
    ASSUME TypeOK, NEW c \in Commands, End(c)
    PROVE  cmd' \in [Commands -> CmdRecords]
<1>1. Idle \in CmdRecords
  BY WorkerAssumption DEF Idle, CmdRecords, CommandPhases, Kinds
<1>2. QED
  BY <1>1 DEF TypeOK, End, CmdRecords

\* So has one that has started the worker p.
LEMMA Spawned ==
    ASSUME TypeOK, NEW c \in Commands, NEW p \in Pids,
           cmd' = [cmd EXCEPT ![c].pid = p, ![c].pc = "write"]
    PROVE  cmd' \in [Commands -> CmdRecords]
<1>1. "write" \in CommandPhases
  BY DEF CommandPhases
<1>2. \A d \in Commands : cmd'[d] \in CmdRecords
  BY <1>1 DEF TypeOK, CmdRecords
<1>3. QED
  BY <1>2 DEF TypeOK

\* A step keeps the type of every variable.
LEMMA TypeStep == TypeOK /\ [Next]_vars => TypeOK'
<1> SUFFICES ASSUME TypeOK, [Next]_vars PROVE TypeOK'
  OBVIOUS
<1> USE WorkerAssumption DEF TypeOK, Kinds, CommandPhases, WorkerPhases, Idle, At, GoTo, End,
                             Alive, WorkerGoesTo, Fails, place, counts
<1>1. CASE UNCHANGED vars
  BY <1>1 DEF vars
<1>2. ASSUME NEW c \in Commands, NEW kind \in Kinds, StartCommand(c, kind) PROVE TypeOK'
  <2>1. cmd' \in [Commands -> CmdRecords]
    BY <1>2 DEF StartCommand, FirstPhase, CmdRecords
  <2>2. failures' \in 0 .. MaxFailures /\ started' \in 0 .. MaxCommands
    BY <1>2 DEF StartCommand, FirstPhase, CmdRecords
  <2>3. promised' \in BOOLEAN /\ clean' \in BOOLEAN
    BY <1>2 DEF StartCommand, FirstPhase, CmdRecords
  <2>4. home' \in BOOLEAN /\ attached' \in BOOLEAN
    BY <1>2 DEF StartCommand, FirstPhase, CmdRecords
  <2>5. QED
    BY <1>2, <2>1, <2>2, <2>3, <2>4 DEF StartCommand, FirstPhase, CmdRecords
<1>3. ASSUME NEW c \in Commands, Interrupt(c) PROVE TypeOK'
  <2>1. cmd' \in [Commands -> CmdRecords]
    BY <1>3 DEF Interrupt, CmdRecords
  <2>2. failures' \in 0 .. MaxFailures /\ started' \in 0 .. MaxCommands
    BY <1>3 DEF Interrupt, CmdRecords
  <2>3. QED
    BY <1>3, <2>1, <2>2 DEF Interrupt, CmdRecords
<1>4. ASSUME NEW p \in Pids, WorkerDies(p) PROVE TypeOK'
  <2>1. worker' \in [Pids -> WorkerPhases]
    BY <1>4 DEF WorkerDies, CmdRecords
  <2>2. failures' \in 0 .. MaxFailures /\ started' \in 0 .. MaxCommands
    BY <1>4 DEF WorkerDies, CmdRecords
  <2>3. QED
    BY <1>4, <2>1, <2>2 DEF WorkerDies, CmdRecords
<1>5. ASSUME NEW c \in Commands, Save(c) PROVE TypeOK'
  BY <1>5 DEF Save
<1>6. ASSUME NEW c \in Commands, Load(c) PROVE TypeOK'
  BY <1>6 DEF Load
<1>7. ASSUME NEW c \in Commands, LookAgain(c) PROVE TypeOK'
  BY <1>7 DEF LookAgain
<1>8. ASSUME NEW c \in Commands, CreateConfig(c) PROVE TypeOK'
  BY <1>8 DEF CreateConfig
<1>9. ASSUME NEW c \in Commands, ReadPid(c) PROVE TypeOK'
  <2>1. cmd' \in [Commands -> CmdRecords]
    <3>1. CASE cmd[c].kind = "status" \/ ~cmd[c].on
      BY <1>9, <3>1, Ended DEF ReadPid
    <3>2. CASE ~(cmd[c].kind = "status" \/ ~cmd[c].on)
      BY <1>9, <3>2 DEF ReadPid, CmdRecords
    <3>3. QED
      BY <3>1, <3>2
  <2>2. QED
    BY <1>9, <2>1 DEF ReadPid, CmdRecords
<1>10. ASSUME NEW c \in Commands, Probe(c) PROVE TypeOK'
  <2>1. cmd' \in [Commands -> CmdRecords]
    <3>1. CASE Alive(cmd[c].pid)
      BY <1>10, <3>1, Ended DEF Probe
    <3>2. CASE ~Alive(cmd[c].pid)
      BY <1>10, <3>2 DEF Probe, CmdRecords
    <3>3. QED
      BY <3>1, <3>2
  <2>2. promised' \in BOOLEAN /\ clean' \in BOOLEAN
    BY <1>10 DEF Probe, CmdRecords
  <2>3. QED
    BY <1>10, <2>1, <2>2 DEF Probe, CmdRecords
<1>11. ASSUME NEW c \in Commands, ClearStale(c) PROVE TypeOK'
  BY <1>11 DEF ClearStale
<1>12. ASSUME NEW c \in Commands, Spawn(c) PROVE TypeOK'
  <2>1. cmd' \in [Commands -> CmdRecords]
    <3>1. CASE home
      <4>1. PICK p \in Pids : cmd' = [cmd EXCEPT ![c].pid = p, ![c].pc = "write"]
        BY <1>12, <3>1 DEF Spawn
      <4>2. QED
        BY <4>1, Spawned
    <3>2. CASE ~home
      BY <1>12, <3>2, Ended DEF Spawn
    <3>3. QED
      BY <3>1, <3>2
  <2>2. worker' \in [Pids -> WorkerPhases]
    <3>1. worker' = worker \/ \E p \in Pids : worker' = [worker EXCEPT ![p] = "start"]
      BY <1>12 DEF Spawn
    <3>2. QED
      BY <3>1
  <2>3. UNCHANGED <<cfg, pidFile, home, attached, started, failures, clean, promised>>
    BY <1>12 DEF Spawn
  <2>4. QED
    BY <2>1, <2>2, <2>3, Zenon DEF CmdRecords
<1>13. ASSUME NEW c \in Commands, WritePid(c) PROVE TypeOK'
  BY <1>13 DEF WritePid
<1>14. ASSUME NEW c \in Commands, StopReadPid(c) PROVE TypeOK'
  BY <1>14 DEF StopReadPid
<1>15. ASSUME NEW c \in Commands, Kill(c) PROVE TypeOK'
  <2>1. worker' \in [Pids -> WorkerPhases]
    BY <1>15 DEF Kill, CmdRecords
  <2>2. cmd' \in [Commands -> CmdRecords]
    BY <1>15 DEF Kill, CmdRecords
  <2>3. QED
    BY <1>15, <2>1, <2>2 DEF Kill, CmdRecords
<1>16. ASSUME NEW c \in Commands, StopClear(c) PROVE TypeOK'
  BY <1>16 DEF StopClear
<1>17. ASSUME NEW c \in Commands, Detach(c) PROVE TypeOK'
  <2>1. clean' \in BOOLEAN
    BY <1>17, Zenon DEF Detach
  <2>2. /\ attached' = FALSE /\ cmd' = [cmd EXCEPT ![c].pc = "remove"]
        /\ UNCHANGED <<cfg, pidFile, home, worker, started, failures, promised>>
    BY <1>17, Zenon DEF Detach, GoTo
  <2>3. cmd' \in [Commands -> CmdRecords]
    BY <2>2 DEF CmdRecords
  <2>4. attached' \in BOOLEAN /\ UNCHANGED <<cfg, pidFile, home, worker, started, failures, promised>>
    BY <2>2, Zenon
  <2>5. QED
    BY <2>1, <2>3, <2>4, Zenon DEF CmdRecords
<1>18. ASSUME NEW c \in Commands, RemoveConfig(c) PROVE TypeOK'
  <2>1. cmd' \in [Commands -> CmdRecords]
    BY <1>18 DEF RemoveConfig, CmdRecords
  <2>2. QED
    BY <1>18, <2>1 DEF RemoveConfig, CmdRecords
<1>19. ASSUME NEW c \in Commands, RemovePidFile(c) PROVE TypeOK'
  BY <1>19 DEF RemovePidFile
<1>20. ASSUME NEW c \in Commands, RemoveHome(c) PROVE TypeOK'
  BY <1>20 DEF RemoveHome
<1>21. ASSUME NEW p \in Pids, WorkerStarts(p) PROVE TypeOK'
  BY <1>21 DEF WorkerStarts
<1>22. ASSUME NEW p \in Pids, WorkerOpens(p) PROVE TypeOK'
  BY <1>22 DEF WorkerOpens
<1>23. ASSUME NEW p \in Pids, WorkerLoads(p) PROVE TypeOK'
  BY <1>23 DEF WorkerLoads
<1>24. ASSUME NEW p \in Pids, WorkerLooksAgain(p) PROVE TypeOK'
  BY <1>24 DEF WorkerLooksAgain
<1>25. ASSUME NEW p \in Pids, WorkerCreates(p) PROVE TypeOK'
  BY <1>25 DEF WorkerCreates
<1>26. ASSUME NEW p \in Pids, WorkerRound(p) PROVE TypeOK'
  BY <1>26 DEF WorkerRound
<1>27. ASSUME NEW p \in Pids, WorkerEnds(p) PROVE TypeOK'
  BY <1>27 DEF WorkerEnds
<1>28. QED
  BY <1>1, <1>2, <1>3, <1>4, <1>5, <1>6, <1>7, <1>8, <1>9, <1>10, <1>11, <1>12, <1>13, <1>14,
     <1>15, <1>16, <1>17, <1>18, <1>19, <1>20, <1>21, <1>22, <1>23, <1>24, <1>25, <1>26,
     <1>27 DEF Next, CommandStep, WorkerStep

\* A step after which the commands still count as one after the other keeps
\* what holds for such commands.
LEMMA CleanStep == Inv /\ [Next]_vars /\ clean' => CleanInv'
<1> SUFFICES ASSUME Inv, [Next]_vars, clean' PROVE CleanInv'
  OBVIOUS
<1> USE WorkerAssumption DEF Inv, TypeOK, CleanInv, CanRestart, Removing, StatusPhases, Idle, At, GoTo,
                             End, Running, Alive, WorkerGoesTo, place, counts
<1>1. CASE UNCHANGED vars
  BY <1>1 DEF vars, Alone, CommandInv, PidNamesWorker, Disabling, PromiseKept
<1>2. ASSUME NEW c \in Commands, NEW kind \in Kinds, StartCommand(c, kind) PROVE CleanInv'
  <2>1. /\ cmd' = [cmd EXCEPT ![c] = [Idle EXCEPT !.pc = FirstPhase(kind), !.kind = kind]]
        /\ clean /\ \A d \in Commands : cmd[d].pc = "idle"
        /\ kind # "attach" => attached
        /\ home' = (home \/ kind = "attach") /\ attached' = TRUE
        /\ promised' = (promised /\ kind = "status")
        /\ UNCHANGED <<cfg, pidFile, worker>>
    BY <1>2 DEF StartCommand, At
  <2>2. /\ \A d \in Commands \ {c} : cmd'[d].pc = "idle" /\ cmd'[d] = cmd[d]
        /\ cmd'[c].pc = FirstPhase(kind) /\ cmd'[c].kind = kind
    BY <2>1 DEF Idle
  <2>3. FirstPhase(kind) \in {"save", "load", "detach"} /\ (kind = "status" => FirstPhase(kind) = "load")
    BY DEF FirstPhase, Kinds
  <2>4. Alone'
    BY <2>2 DEF Alone, At
  <2>5. \A d \in Commands : CommandInv(d)'
    BY <2>1, <2>2, <2>3 DEF CommandInv, CanRestart, Removing, StatusPhases, Running, Alive
  <2>6. PidNamesWorker' /\ Disabling'
    BY <2>1, <2>2 DEF PidNamesWorker, Disabling, Running, Alive, At
  <2>7. PromiseKept'
    <3>1. promised' => promised /\ kind = "status"
      BY <2>1, Zenon
    <3>2. QED
      BY <2>1, <2>2, <3>1 DEF PromiseKept, Running, Alive, At
  <2>8. QED
    BY <2>1, <2>4, <2>5, <2>6, <2>7 DEF Running, Alive
<1>3. ASSUME NEW c \in Commands, Interrupt(c) PROVE CleanInv'
  BY <1>3 DEF Interrupt
<1>4. ASSUME NEW p \in Pids, WorkerDies(p) PROVE CleanInv'
  BY <1>4 DEF WorkerDies, Fails, Alone, CommandInv, PidNamesWorker, Disabling, PromiseKept
<1>5. ASSUME NEW c \in Commands, Save(c) PROVE CleanInv'
  BY <1>5 DEF Save, Fails, Kinds,
               Alone, CommandInv, PidNamesWorker, Disabling, PromiseKept
<1>6. ASSUME NEW c \in Commands, Load(c) PROVE CleanInv'
  BY <1>6 DEF Load, Fails, Kinds,
               Alone, CommandInv, PidNamesWorker, Disabling, PromiseKept
<1>7. ASSUME NEW c \in Commands, LookAgain(c) PROVE CleanInv'
  BY <1>7 DEF LookAgain, Fails, Kinds,
               Alone, CommandInv, PidNamesWorker, Disabling, PromiseKept
<1>8. ASSUME NEW c \in Commands, CreateConfig(c) PROVE CleanInv'
  BY <1>8 DEF CreateConfig, Fails, Kinds,
               Alone, CommandInv, PidNamesWorker, Disabling, PromiseKept
<1>9. ASSUME NEW c \in Commands, ReadPid(c) PROVE CleanInv'
  BY <1>9 DEF ReadPid, Fails, Kinds,
               Alone, CommandInv, PidNamesWorker, Disabling, PromiseKept
<1>10. ASSUME NEW c \in Commands, Probe(c) PROVE CleanInv'
  BY <1>10 DEF Probe, Fails, Kinds,
               Alone, CommandInv, PidNamesWorker, Disabling, PromiseKept
<1>11. ASSUME NEW c \in Commands, ClearStale(c) PROVE CleanInv'
  BY <1>11 DEF ClearStale, Fails, Kinds,
               Alone, CommandInv, PidNamesWorker, Disabling, PromiseKept
<1>12. ASSUME NEW c \in Commands, Spawn(c) PROVE CleanInv'
  <2>1. attached /\ home /\ cfg # "off" /\ Running = {} /\ clean
    BY <1>12 DEF Spawn, CommandInv, CanRestart, Removing, At, counts
  <2>2. PICK p \in Pids : /\ worker' = [worker EXCEPT ![p] = "start"]
                          /\ cmd' = [cmd EXCEPT ![c].pid = p, ![c].pc = "write"]
    BY <1>12, <2>1 DEF Spawn, WorkerGoesTo
  <2>3. Running' = {p} /\ worker'[p] = "start"
    BY <2>1, <2>2 DEF Running, Alive
  <2>4. /\ \A d \in Commands \ {c} : cmd[d].pc = "idle" /\ cmd'[d] = cmd[d]
        /\ cmd'[c].pc = "write" /\ cmd'[c].pid = p /\ cmd'[c].kind = cmd[c].kind
    <3>1. /\ \A d \in Commands \ {c} : cmd'[d] = cmd[d]
          /\ cmd'[c].pc = "write" /\ cmd'[c].pid = p /\ cmd'[c].kind = cmd[c].kind
      BY <2>2
    <3>2. \A d \in Commands \ {c} : cmd[d].pc = "idle"
      BY <1>12, <2>1 DEF Spawn, Alone, At
    <3>3. QED
      BY <3>1, <3>2
  <2>5. ~promised /\ cmd[c].kind # "status"
    BY <1>12, <2>1 DEF Spawn, PromiseKept, CommandInv, StatusPhases, At
  <2>6. UNCHANGED <<cfg, pidFile, home, attached, clean, promised>>
    BY <1>12 DEF Spawn, place, counts
  <2>7. Alone' /\ PidNamesWorker' /\ PromiseKept'
    BY <2>3, <2>4, <2>5, <2>6 DEF Alone, PidNamesWorker, PromiseKept, At
  <2>8. Disabling'
    BY <2>1, <2>2, <2>3, <2>6 DEF Disabling, Running, Alive
  <2>9. \A d \in Commands : CommandInv(d)'
    BY <2>1, <2>3, <2>4, <2>5, <2>6 DEF CommandInv, CanRestart, Removing, StatusPhases
  <2>10. QED
    BY <2>1, <2>3, <2>6, <2>7, <2>8, <2>9
<1>13. ASSUME NEW c \in Commands, WritePid(c) PROVE CleanInv'
  BY <1>13 DEF WritePid, Fails, Kinds,
               Alone, CommandInv, PidNamesWorker, Disabling, PromiseKept
<1>14. ASSUME NEW c \in Commands, StopReadPid(c) PROVE CleanInv'
  BY <1>14 DEF StopReadPid, Fails, Kinds,
               Alone, CommandInv, PidNamesWorker, Disabling, PromiseKept
<1>15. ASSUME NEW c \in Commands, Kill(c) PROVE CleanInv'
  BY <1>15 DEF Kill, Fails, Kinds,
               Alone, CommandInv, PidNamesWorker, Disabling, PromiseKept
<1>16. ASSUME NEW c \in Commands, StopClear(c) PROVE CleanInv'
  BY <1>16 DEF StopClear, Fails, Kinds,
               Alone, CommandInv, PidNamesWorker, Disabling, PromiseKept
<1>17. ASSUME NEW c \in Commands, Detach(c) PROVE CleanInv'
  BY <1>17 DEF Detach, Fails, Kinds,
               Alone, CommandInv, PidNamesWorker, Disabling, PromiseKept
<1>18. ASSUME NEW c \in Commands, RemoveConfig(c) PROVE CleanInv'
  BY <1>18 DEF RemoveConfig, Fails, Kinds,
               Alone, CommandInv, PidNamesWorker, Disabling, PromiseKept
<1>19. ASSUME NEW c \in Commands, RemovePidFile(c) PROVE CleanInv'
  BY <1>19 DEF RemovePidFile, Fails, Kinds,
               Alone, CommandInv, PidNamesWorker, Disabling, PromiseKept
<1>20. ASSUME NEW c \in Commands, RemoveHome(c) PROVE CleanInv'
  BY <1>20 DEF RemoveHome, Fails, Kinds,
               Alone, CommandInv, PidNamesWorker, Disabling, PromiseKept
<1>21. ASSUME NEW p \in Pids, WorkerStarts(p) PROVE CleanInv'
  BY <1>21 DEF WorkerStarts, WorkerPhases,
               Alone, CommandInv, PidNamesWorker, Disabling, PromiseKept
<1>22. ASSUME NEW p \in Pids, WorkerOpens(p) PROVE CleanInv'
  BY <1>22 DEF WorkerOpens, WorkerPhases,
               Alone, CommandInv, PidNamesWorker, Disabling, PromiseKept
<1>23. ASSUME NEW p \in Pids, WorkerLoads(p) PROVE CleanInv'
  BY <1>23 DEF WorkerLoads, WorkerPhases,
               Alone, CommandInv, PidNamesWorker, Disabling, PromiseKept
<1>24. ASSUME NEW p \in Pids, WorkerLooksAgain(p) PROVE CleanInv'
  BY <1>24 DEF WorkerLooksAgain, WorkerPhases,
               Alone, CommandInv, PidNamesWorker, Disabling, PromiseKept
<1>25. ASSUME NEW p \in Pids, WorkerCreates(p) PROVE CleanInv'
  BY <1>25 DEF WorkerCreates, WorkerPhases,
               Alone, CommandInv, PidNamesWorker, Disabling, PromiseKept
<1>26. ASSUME NEW p \in Pids, WorkerRound(p) PROVE CleanInv'
  BY <1>26 DEF WorkerRound, WorkerPhases,
               Alone, CommandInv, PidNamesWorker, Disabling, PromiseKept
<1>27. ASSUME NEW p \in Pids, WorkerEnds(p) PROVE CleanInv'
  BY <1>27 DEF WorkerEnds, WorkerPhases,
               Alone, CommandInv, PidNamesWorker, Disabling, PromiseKept
<1>28. QED
  BY <1>1, <1>2, <1>3, <1>4, <1>5, <1>6, <1>7, <1>8, <1>9, <1>10, <1>11, <1>12, <1>13, <1>14,
     <1>15, <1>16, <1>17, <1>18, <1>19, <1>20, <1>21, <1>22, <1>23, <1>24, <1>25, <1>26,
     <1>27 DEF Next, CommandStep, WorkerStep

\* The invariant is inductive: it holds whatever is overlapped or interrupted,
\* and says most of a machine whose commands ran one after the other.
THEOREM InvHolds == Spec => []Inv
<1>1. Init => Inv
  <2> SUFFICES ASSUME Init PROVE Inv
    OBVIOUS
  <2> USE WorkerAssumption DEF Init, Idle, At, Running, Alive, place, counts
  <2>1. TypeOK
    <3>1. cmd \in [Commands -> CmdRecords]
      BY DEF CmdRecords, Kinds, CommandPhases
    <3>2. worker \in [Pids -> WorkerPhases]
      BY DEF WorkerPhases
    <3>3. started \in 0 .. MaxCommands /\ failures \in 0 .. MaxFailures
      OBVIOUS
    <3>4. clean \in BOOLEAN /\ promised \in BOOLEAN /\ home \in BOOLEAN /\ attached \in BOOLEAN /\ home
      BY Zenon
    <3>5. QED
      BY <3>1, <3>2, <3>3, <3>4, Zenon DEF TypeOK, CmdRecords
  <2>2. Running = {} /\ \A c \in Commands : At(c, "idle")
    OBVIOUS
  <2>3. CleanInv
    BY <2>2 DEF CleanInv, Alone, CommandInv, PidNamesWorker, Disabling, PromiseKept, CanRestart, Removing,
                StatusPhases
  <2>4. QED
    BY <2>1, <2>3 DEF Inv
<1>2. Inv /\ [Next]_vars => Inv'
  BY TypeStep, CleanStep DEF Inv
<1>3. QED
  BY <1>1, <1>2, PTL DEF Spec

\* Every variable has its type, and there are no files without a home.
THEOREM TypeCorrect == Spec => []TypeOK
<1>1. Inv => TypeOK
  BY DEF Inv
<1>2. QED
  BY InvHolds, <1>1, PTL

\* Commands in sequence, each to its end, never leave two workers on one
\* replica, for any number of commands, processes and deaths of workers.
THEOREM OneWorkerHolds == Spec => []OneWorker
<1>1. Inv => OneWorker
  <2> SUFFICES ASSUME Inv, clean PROVE Cardinality(Running) <= 1
    BY DEF OneWorker
  <2>1. CASE Running = {}
    BY <2>1, FS_EmptySet
  <2>2. ASSUME NEW p \in Running PROVE Cardinality(Running) <= 1
    <3>1. Running = {p}
      BY <2>2 DEF Inv, CleanInv
    <3>2. QED
      BY <3>1, FS_Singleton
  <2>3. QED
    BY <2>1, <2>2
<1>2. QED
  BY InvHolds, <1>1, PTL

\* After such commands, one that ends by leaving a worker running has: a stale
\* pid file or a worker about to end is never taken for a running worker.
THEOREM EnableRestartsHolds == Spec => []EnableRestarts
<1>1. Inv => EnableRestarts
  <2> SUFFICES ASSUME Inv, clean, promised PROVE \E p \in Running : worker[p] # "clear"
    BY DEF EnableRestarts
  <2>1. PICK p \in Running : TRUE
    BY DEF Inv, CleanInv, PromiseKept
  <2>2. \A c \in Commands : ~At(c, "stop_read") /\ ~At(c, "stop_kill")
    BY DEF Inv, CleanInv, PromiseKept, CommandInv, StatusPhases, At
  <2>3. worker[p] # "clear"
    BY <2>1, <2>2 DEF Inv, CleanInv, Disabling, Running
  <2>4. QED
    BY <2>1, <2>3
<1>2. QED
  BY InvHolds, <1>1, PTL

===============================================================================
