--------------------------- MODULE BackgroundWorker ---------------------------
(***************************************************************************)
(* The background worker of one dojo on one machine                         *)
(* (client/src/background_sync.rs): a detached process that syncs in a loop *)
(* and reads the machine's configuration before every round.  It is started *)
(* and stopped by the commands of client/src/main.rs, create.rs and join.rs *)
(* through two files of dojo_home, the configuration and the pid file; no   *)
(* lock guards either.  `dojjo undojjo` (undojjo.rs) removes the home, and  *)
(* asks no worker to stop.                                                  *)
(*                                                                          *)
(* A file operation is one step.  One that fails ends its command, as does  *)
(* Ctrl-C: both are Interrupt.  A signal ends its process at once.          *)
(***************************************************************************)
EXTENDS Naturals, FiniteSets

CONSTANTS
    Commands,     \* commands under way at a time
    Pids,         \* process ids
    None,         \* no pid file
    MaxCommands,  \* bound: commands started
    MaxFailures   \* bound: interrupted commands and workers that die

ASSUME WorkerAssumption ==
    /\ None \notin Pids
    /\ MaxCommands \in Nat
    /\ MaxFailures \in Nat

VARIABLES
    cfg,       \* background_sync_enabled in the machine's configuration file
    pidFile,   \* the pid in background_sync.pid
    home,      \* the directory dojo_home exists
    attached,  \* `_default` has the repository and a workspace points to it
    worker,    \* where the worker process of each pid is, if it runs
    cmd,       \* the commands under way
    started,   \* commands started so far
    failures,  \* failures so far
    clean,     \* no command was interrupted, no two overlapped, and none took the
               \* dojo off the machine while a worker ran
    promised   \* a command has ended that leaves a worker running, and no later
               \* command, nor the death of a worker, has taken that back

place == <<home, attached>>
counts == <<started, failures, clean>>
vars == <<cfg, pidFile, place, worker, cmd, counts, promised>>

Kinds == {"enable", "disable", "attach", "status", "undo"}
WorkerPhases == {"none", "start", "open", "load", "look", "create", "round", "clear"}
CommandPhases == {"idle", "save", "load", "exists", "create", "read", "probe", "clear",
                  "spawn", "write", "stop_read", "stop_kill", "stop_clear",
                  "detach", "remove", "remove_cfg", "remove_pid", "remove_home"}
Idle == [pc |-> "idle", kind |-> "status", on |-> FALSE, pid |-> None]

\* A dojo is attached to a machine by create or join.
Init ==
    /\ cfg = "missing"
    /\ pidFile = None
    /\ home = TRUE
    /\ attached = TRUE
    /\ worker = [p \in Pids |-> "none"]
    /\ cmd = [c \in Commands |-> Idle]
    /\ started = 0
    /\ failures = 0
    /\ clean = TRUE
    /\ promised = FALSE

(***************************************************************************)
(* Helpers.                                                                 *)
(***************************************************************************)
At(c, phase) == cmd[c].pc = phase
GoTo(c, phase) == cmd' = [cmd EXCEPT ![c].pc = phase]
End(c) == cmd' = [cmd EXCEPT ![c] = Idle]
Alive(p) == worker[p] # "none"
Running == {p \in Pids : Alive(p)}
WorkerGoesTo(p, phase) == worker' = [worker EXCEPT ![p] = phase]
Fails == failures < MaxFailures /\ failures' = failures + 1

(***************************************************************************)
(* Commands: enable and disable, the last step of create and join (attach), *)
(* status, which only reads, or creates, the configuration, and undo.       *)
(***************************************************************************)
FirstPhase(kind) ==
    CASE kind \in {"enable", "disable"} -> "save"
      [] kind \in {"attach", "status"} -> "load"
      [] kind = "undo" -> "detach"

\* Create and join first make the home and the repository in it; all other
\* commands look for the home from a workspace.
StartCommand(c, kind) ==
    /\ At(c, "idle")
    /\ started < MaxCommands
    /\ kind # "attach" => attached
    /\ cmd' = [cmd EXCEPT ![c] = [Idle EXCEPT !.pc = FirstPhase(kind), !.kind = kind]]
    /\ home' = (home \/ kind = "attach")
    /\ attached' = TRUE
    /\ started' = started + 1
    /\ clean' = (clean /\ \A d \in Commands : At(d, "idle"))
    /\ promised' = (promised /\ kind = "status")
    /\ UNCHANGED <<cfg, pidFile, worker, failures>>

Save(c) ==
    /\ At(c, "save")
    /\ cfg' = IF cmd[c].kind = "enable" THEN "on" ELSE "off"
    /\ home' = TRUE
    /\ GoTo(c, IF cmd[c].kind = "enable" THEN "load" ELSE "stop_read")
    /\ UNCHANGED <<pidFile, attached, worker, counts, promised>>

\* load_or_create_repo_machine_config reads the file, ...
Load(c) ==
    /\ At(c, "load")
    /\ cmd' = [cmd EXCEPT ![c].on = (cfg # "off"),
                          ![c].pc = IF cfg = "missing" THEN "exists" ELSE "read"]
    /\ UNCHANGED <<cfg, pidFile, place, worker, counts, promised>>

\* ... and if there was none looks again and writes the default, enabled.
LookAgain(c) ==
    /\ At(c, "exists")
    /\ GoTo(c, IF cfg = "missing" THEN "create" ELSE "read")
    /\ UNCHANGED <<cfg, pidFile, place, worker, counts, promised>>

CreateConfig(c) ==
    /\ At(c, "create")
    /\ cfg' = "on"
    /\ home' = TRUE
    /\ GoTo(c, "read")
    /\ UNCHANGED <<pidFile, attached, worker, counts, promised>>

\* Status ends here; ensure_worker_running goes on if sync is enabled.
ReadPid(c) ==
    /\ At(c, "read")
    /\ IF cmd[c].kind = "status" \/ ~cmd[c].on THEN End(c)
       ELSE cmd' = [cmd EXCEPT ![c].pid = pidFile,
                               ![c].pc = IF pidFile = None THEN "spawn" ELSE "probe"]
    /\ UNCHANGED <<cfg, pidFile, place, worker, counts, promised>>

\* Mutant of Probe: a pid file is taken for a running worker.
ProbeTrustsFile(c) ==
    /\ At(c, "probe")
    /\ End(c)
    /\ promised' = TRUE
    /\ UNCHANGED <<cfg, pidFile, place, worker, counts>>

Probe(c) ==
    /\ At(c, "probe")
    /\ IF Alive(cmd[c].pid) THEN End(c) ELSE GoTo(c, "clear")
    /\ promised' = (promised \/ Alive(cmd[c].pid))
    /\ UNCHANGED <<cfg, pidFile, place, worker, counts>>

ClearStale(c) ==
    /\ At(c, "clear")
    /\ pidFile' = None
    /\ GoTo(c, "spawn")
    /\ UNCHANGED <<cfg, place, worker, counts, promised>>

\* Mutant of Spawn: only the worker writes its pid.
SpawnAndEnd(c) ==
    /\ At(c, "spawn")
    /\ \E p \in Pids : worker[p] = "none" /\ WorkerGoesTo(p, "start")
    /\ End(c)
    /\ promised' = TRUE
    /\ UNCHANGED <<cfg, pidFile, place, counts>>

\* The log is opened in the home, without which the command fails.
Spawn(c) ==
    /\ At(c, "spawn")
    /\ \/ /\ home
          /\ \E p \in Pids : /\ worker[p] = "none"
                             /\ WorkerGoesTo(p, "start")
                             /\ cmd' = [cmd EXCEPT ![c].pid = p, ![c].pc = "write"]
       \/ ~home /\ End(c) /\ UNCHANGED worker
    /\ UNCHANGED <<cfg, pidFile, place, counts, promised>>

WritePid(c) ==
    /\ At(c, "write")
    /\ IF home
       THEN pidFile' = cmd[c].pid /\ promised' = Alive(cmd[c].pid)
       ELSE UNCHANGED <<pidFile, promised>>
    /\ End(c)
    /\ UNCHANGED <<cfg, place, worker, counts>>

\* stop_worker: the pid is read, a live process is signalled, the file removed.
StopReadPid(c) ==
    /\ At(c, "stop_read")
    /\ cmd' = [cmd EXCEPT ![c].pid = pidFile,
                          ![c].pc = IF pidFile = None THEN "stop_clear" ELSE "stop_kill"]
    /\ UNCHANGED <<cfg, pidFile, place, worker, counts, promised>>

Kill(c) ==
    /\ At(c, "stop_kill")
    /\ WorkerGoesTo(cmd[c].pid, "none")
    /\ GoTo(c, "stop_clear")
    /\ UNCHANGED <<cfg, pidFile, place, counts, promised>>

StopClear(c) ==
    /\ At(c, "stop_clear")
    /\ pidFile' = None
    /\ End(c)
    /\ UNCHANGED <<cfg, place, worker, counts, promised>>

\* Undojjo moves the repository out of the home; a worker that runs goes on.
Detach(c) ==
    /\ At(c, "detach")
    /\ attached' = FALSE
    /\ clean' = (clean /\ Running = {})
    /\ GoTo(c, "remove")
    /\ UNCHANGED <<cfg, pidFile, home, worker, started, failures, promised>>

\* Then it removes the home, file by file in any order.
RemoveConfig(c) ==
    /\ At(c, "remove") \/ At(c, "remove_cfg")
    /\ cfg' = "missing"
    /\ GoTo(c, IF At(c, "remove") THEN "remove_pid" ELSE "remove_home")
    /\ UNCHANGED <<pidFile, place, worker, counts, promised>>

RemovePidFile(c) ==
    /\ At(c, "remove") \/ At(c, "remove_pid")
    /\ pidFile' = None
    /\ GoTo(c, IF At(c, "remove") THEN "remove_cfg" ELSE "remove_home")
    /\ UNCHANGED <<cfg, place, worker, counts, promised>>

\* Mutant of RemoveHome: the directory goes with a file that came back.
RemoveHomeAnyway(c) ==
    /\ At(c, "remove_home")
    /\ home' = FALSE
    /\ End(c)
    /\ UNCHANGED <<cfg, pidFile, attached, worker, counts, promised>>

\* The directory itself cannot be removed if a file has come back meanwhile.
RemoveHome(c) ==
    /\ At(c, "remove_home")
    /\ home' = ~(cfg = "missing" /\ pidFile = None)
    /\ End(c)
    /\ UNCHANGED <<cfg, pidFile, attached, worker, counts, promised>>

Interrupt(c) ==
    /\ ~At(c, "idle")
    /\ Fails
    /\ End(c)
    /\ clean' = FALSE
    /\ UNCHANGED <<cfg, pidFile, place, worker, started, promised>>

(***************************************************************************)
(* The worker: run_worker.                                                  *)
(***************************************************************************)
WorkerStarts(p) ==
    /\ worker[p] = "start"
    /\ pidFile' = IF home THEN p ELSE pidFile
    /\ WorkerGoesTo(p, IF home THEN "open" ELSE "none")
    /\ UNCHANGED <<cfg, place, cmd, counts, promised>>

\* Without the repository there is nothing to watch: the worker fails and
\* leaves its pid file behind.
WorkerOpens(p) ==
    /\ worker[p] = "open"
    /\ WorkerGoesTo(p, IF attached THEN "load" ELSE "none")
    /\ UNCHANGED <<cfg, pidFile, place, cmd, counts, promised>>

\* Mutant of WorkerLoads: the configuration is read once.
WorkerLoadsOnce(p) ==
    /\ worker[p] = "load"
    /\ WorkerGoesTo(p, "round")
    /\ UNCHANGED <<cfg, pidFile, place, cmd, counts, promised>>

\* The top of the loop: load_or_create_repo_machine_config once more, which
\* brings back the home of a dojo that has been removed, ...
WorkerLoads(p) ==
    /\ worker[p] = "load"
    /\ WorkerGoesTo(p, CASE cfg = "off" -> "clear"
                         [] cfg = "on" -> "round"
                         [] cfg = "missing" -> "look")
    /\ UNCHANGED <<cfg, pidFile, place, cmd, counts, promised>>

WorkerLooksAgain(p) ==
    /\ worker[p] = "look"
    /\ WorkerGoesTo(p, IF cfg = "missing" THEN "create" ELSE "round")
    /\ UNCHANGED <<cfg, pidFile, place, cmd, counts, promised>>

WorkerCreates(p) ==
    /\ worker[p] = "create"
    /\ cfg' = "on"
    /\ home' = TRUE
    /\ WorkerGoesTo(p, "round")
    /\ UNCHANGED <<pidFile, attached, cmd, counts, promised>>

\* ... then a sync round, whatever its result, or the wait for the next one.
WorkerRound(p) ==
    /\ worker[p] = "round"
    /\ WorkerGoesTo(p, "load")
    /\ UNCHANGED <<cfg, pidFile, place, cmd, counts, promised>>

\* Disabled: the worker removes the pid file, whosever it is, and ends.
WorkerEnds(p) ==
    /\ worker[p] = "clear"
    /\ pidFile' = None
    /\ WorkerGoesTo(p, "none")
    /\ UNCHANGED <<cfg, place, cmd, counts, promised>>

WorkerDies(p) ==
    /\ Alive(p)
    /\ Fails
    /\ WorkerGoesTo(p, "none")
    /\ promised' = FALSE
    /\ UNCHANGED <<cfg, pidFile, place, cmd, started, clean>>

(***************************************************************************)
(* The specification.                                                       *)
(***************************************************************************)
CommandStep(c) ==
    \/ Save(c) \/ Load(c) \/ LookAgain(c) \/ CreateConfig(c)
    \/ ReadPid(c) \/ Probe(c) \/ ClearStale(c) \/ Spawn(c) \/ WritePid(c)
    \/ StopReadPid(c) \/ Kill(c) \/ StopClear(c)
    \/ Detach(c) \/ RemoveConfig(c) \/ RemovePidFile(c) \/ RemoveHome(c)

WorkerStep(p) ==
    \/ WorkerStarts(p) \/ WorkerOpens(p)
    \/ WorkerLoads(p) \/ WorkerLooksAgain(p) \/ WorkerCreates(p)
    \/ WorkerRound(p) \/ WorkerEnds(p)

Next ==
    \/ \E c \in Commands : \/ \E kind \in Kinds : StartCommand(c, kind)
                           \/ CommandStep(c)
                           \/ Interrupt(c)
    \/ \E p \in Pids : WorkerStep(p) \/ WorkerDies(p)

\* A process that runs gets its turn; a user need not start a command.
Fairness ==
    /\ \A c \in Commands : WF_vars(CommandStep(c))
    /\ \A p \in Pids : WF_vars(WorkerStep(p))

Spec == Init /\ [][Next]_vars /\ Fairness

(***************************************************************************)
(* Properties.                                                              *)
(***************************************************************************)

\* Every variable has its type, and without a home there are no files in it.
TypeOK ==
    /\ cfg \in {"missing", "on", "off"}
    /\ pidFile \in Pids \cup {None}
    /\ home \in BOOLEAN
    /\ attached \in BOOLEAN
    /\ ~home => cfg = "missing" /\ pidFile = None
    /\ worker \in [Pids -> WorkerPhases]
    /\ cmd \in [Commands -> [pc : CommandPhases, kind : Kinds, on : BOOLEAN,
                             pid : Pids \cup {None}]]
    /\ started \in 0 .. MaxCommands
    /\ failures \in 0 .. MaxFailures
    /\ clean \in BOOLEAN
    /\ promised \in BOOLEAN

\* Commands that run one after the other, each to its end, never leave two
\* workers syncing the same replica, also if workers die in between.  Undojjo
\* must find none running: one it leaves behind goes on, and a later join,
\* which finds no pid file, starts another beside it.
OneWorker == clean => Cardinality(Running) <= 1

\* After such commands, one that ends by leaving a worker running (it found one
\* or it started one) has: some worker runs and is not about to end.
EnableRestarts == clean /\ promised => \E p \in Running : worker[p] # "clear"

\* Once the configuration stays disabled every worker ends, also those the
\* pid file does not name and those an undojjo left behind, whatever commands
\* overlapped or were interrupted.
DisabledStops == <>[](cfg = "off") => <>[](Running = {})
===============================================================================
