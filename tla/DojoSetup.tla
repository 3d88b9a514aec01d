------------------------------- MODULE DojoSetup ------------------------------
(***************************************************************************)
(* `dojjo create` and `dojjo undojjo` in one workspace of one machine       *)
(* (client/src/create.rs, undojjo.rs, workspace_lifecycle.rs, config.rs).   *)
(* Create moves the physical jj repository from the workspace's .jj/repo to *)
(* `_default/.jj/repo` in the home of a new dojo and publishes it; undojjo  *)
(* moves it back.  Each file operation, jj command or request is one step,  *)
(* and the command can be cut short between any two: create is made to be   *)
(* run again, from its progress file.                                       *)
(*                                                                          *)
(* One command runs at a time.  The jj repository's contents, and the Git   *)
(* colocation steps between adding the sentinel and the move, are left out. *)
(***************************************************************************)
EXTENDS Naturals, FiniteSets

CONSTANTS
    Dojos,        \* dojo ids
    None,         \* no dojo
    Files,        \* bound: files of the repository
    MaxCrashes,   \* bound: commands cut short
    MaxCommands   \* bound: commands started

ASSUME SetupAssumption ==
    /\ None \notin Dojos
    /\ {"dir", "none"} \cap Dojos = {}
    /\ Files \in Nat \ {0}
    /\ MaxCrashes \in Nat
    /\ MaxCommands \in Nat

VARIABLES
    userRepo,     \* .jj/repo of the workspace: "dir", "none", or the dojo whose
                  \* `_default` it points to
    defaultRepo,  \* `_default/.jj/repo` of each dojo: "none", "dir" or "pointer"
    link,         \* the dojo named by .jj/dojjo.json
    home,         \* progress, config and state files in each dojo's home
    userName,     \* the workspace's jj name: "default" or "mine"
    sentinel,     \* jj's workspace `default` at `_default`: "none", "added", "frozen"
    server,       \* what the server has of each dojo: its bare repository (a row
                  \* alone, initialised, or ready for pushes), git, files
    workers,      \* dojos with a background worker
    cmd,          \* the command under way, and its dojo
    ended,        \* how the last command ended
    hurt,         \* a command was cut short where it cannot be taken up again
    crashes, commands  \* so far

vars == <<userRepo, defaultRepo, link, home, userName, sentinel, server, workers, cmd,
          ended, hurt, crashes, commands>>
jj == <<userRepo, defaultRepo, userName, sentinel>>
files == <<link, home>>
counts == <<hurt, crashes, commands>>

CreatePhases == {"find", "post", "init", "receive", "link", "register", "rehome",
                 "rename_ws", "add_ws", "new_root", "unlink", "move", "point",
                 "save_rehomed", "push", "save_pushed", "upload", "save_config",
                 "relink", "verify", "save_state", "clear", "worker"}
UndoPhases == {"u_find", "u_clean_link", "u_clean_home", "u_forget", "u_rename", "u_unpoint",
               "u_move", "u_home", "u_link"}
NoHome == [progress |-> "none", config |-> FALSE, state |-> FALSE]
Idle == [pc |-> "idle", dojo |-> None]

Init ==
    /\ userRepo = "dir"
    /\ defaultRepo = [d \in Dojos |-> "none"]
    /\ link = None
    /\ home = [d \in Dojos |-> NoHome]
    /\ userName = "default"
    /\ sentinel = "none"
    /\ server = [d \in Dojos |-> [bare |-> "none", git |-> FALSE, files |-> 0]]
    /\ workers = {}
    /\ cmd = Idle
    /\ ended = "none"
    /\ hurt = FALSE
    /\ crashes = 0
    /\ commands = 0

(***************************************************************************)
(* Helpers.                                                                 *)
(***************************************************************************)
At(phase) == cmd.pc = phase
d0 == cmd.dojo
GoTo(phase) == cmd' = [cmd EXCEPT !.pc = phase] /\ UNCHANGED ended
End(how) == cmd' = Idle /\ ended' = how

\* user_workspace_jj_repo_file_points_at_local_repo
PointsAt(d) == userRepo = d /\ defaultRepo[d] = "dir"

\* ... which is an error for a workspace with a pointer, to another dojo's
\* repository, if this dojo has none.
CannotTell(d) == userRepo \in Dojos /\ defaultRepo[d] # "dir"

SaveProgress(phase) == home' = [home EXCEPT ![d0].progress = phase]

\* The places a command cannot be taken up from: between `workspace add` and
\* `jj new root()`, between the move and the pointer, and once there is a
\* config file, which makes a rerun say that the dojo is set up.
Windows == {"new_root", "point", "relink", "verify", "save_state", "clear", "worker"}

Start(phase) ==
    /\ At("idle")
    /\ commands < MaxCommands
    /\ commands' = commands + 1
    /\ cmd' = [pc |-> phase, dojo |-> None]
    /\ ended' = "none"
    /\ UNCHANGED <<jj, files, server, workers, hurt, crashes>>

\* Ctrl-C, a crash, or an error of a file operation or request.
CutShort ==
    /\ ~At("idle")
    /\ crashes < MaxCrashes
    /\ crashes' = crashes + 1
    /\ hurt' = (hurt \/ cmd.pc \in Windows \cup UndoPhases)
    /\ End("cut")
    /\ UNCHANGED <<jj, files, server, workers, commands>>

(***************************************************************************)
(* create::run and find_resumable_create.                                   *)
(***************************************************************************)
Unfinished(d) == home[d].progress # "none" /\ ~home[d].config

\* A phase of the progress file names the last step that was completed; from
\* the second on the repository must be in `_default`.
Resume(d) ==
    IF home[d].progress # "registered" /\ defaultRepo[d] # "dir" THEN End("error")
    ELSE /\ cmd' = [dojo |-> d, pc |-> CASE home[d].progress = "registered" -> "rehome"
                                         [] home[d].progress = "rehomed" -> "push"
                                         [] home[d].progress = "pushed" -> "upload"]
         /\ UNCHANGED ended

\* The linked dojo if it is set up or can be resumed, else any that was
\* started from this workspace, else a new one.
FindResumable ==
    /\ At("find")
    /\ IF userRepo = "none" THEN End("error")
       ELSE IF link # None /\ home[link].config THEN End("created")
       ELSE IF link # None /\ Unfinished(link) THEN Resume(link)
       ELSE IF link # None /\ CannotTell(link) THEN End("error")
       ELSE IF \E d \in Dojos : Unfinished(d) THEN \E d \in Dojos : Unfinished(d) /\ Resume(d)
       ELSE GoTo("post")
    /\ UNCHANGED <<jj, files, server, workers, counts>>

\* create_dojo of the server, in three steps: a row with a new id (the column is
\* unique: a taken id is an error), the bare repository, and that it takes
\* pushes.  A request that is cut short is dropped where it is.
PostDojo ==
    /\ At("post")
    /\ \E d \in Dojos : /\ server[d].bare = "none"
                        /\ server' = [server EXCEPT ![d].bare = "row"]
                        /\ cmd' = [pc |-> "init", dojo |-> d]
    /\ UNCHANGED <<jj, files, workers, ended, counts>>

InitBare ==
    /\ At("init")
    /\ server' = [server EXCEPT ![d0].bare = "init"]
    /\ GoTo("receive")
    /\ UNCHANGED <<jj, files, workers, counts>>

AllowPush ==
    /\ At("receive")
    /\ server' = [server EXCEPT ![d0].bare = "ready"]
    /\ GoTo("link")
    /\ UNCHANGED <<jj, files, workers, counts>>

WriteLink ==
    /\ At("link")
    /\ link' = d0
    /\ GoTo("register")
    /\ UNCHANGED <<jj, home, server, workers, counts>>

SaveRegistered ==
    /\ At("register")
    /\ SaveProgress("registered")
    /\ GoTo("rehome")
    /\ UNCHANGED <<jj, link, server, workers, counts>>

(***************************************************************************)
(* ensure_dojo_after_create.                                                *)
(***************************************************************************)

\* Mutant of Rehome: it is not noticed that the repository was moved already.
RehomeAgain ==
    /\ At("rehome")
    /\ IF CannotTell(d0) THEN End("error") ELSE GoTo("rename_ws")
    /\ UNCHANGED <<jj, files, server, workers, counts>>

Rehome ==
    /\ At("rehome")
    /\ IF CannotTell(d0) THEN End("error")
       ELSE GoTo(IF PointsAt(d0) THEN "save_rehomed" ELSE "rename_ws")
    /\ UNCHANGED <<jj, files, server, workers, counts>>

DefaultExists == userName = "default" \/ sentinel # "none"

RenameWorkspace ==
    /\ At("rename_ws")
    /\ userName' = IF DefaultExists THEN "mine" ELSE userName
    /\ GoTo("add_ws")
    /\ UNCHANGED <<userRepo, defaultRepo, sentinel, files, server, workers, counts>>

\* `jj workspace add` leaves a pointer to the repository in `_default`.
AddWorkspace ==
    /\ At("add_ws")
    /\ IF DefaultExists THEN GoTo("unlink") /\ UNCHANGED <<sentinel, defaultRepo>>
       ELSE /\ sentinel' = "added"
            /\ defaultRepo' = [defaultRepo EXCEPT ![d0] = "pointer"]
            /\ GoTo("new_root")
    /\ UNCHANGED <<userRepo, userName, files, server, workers, counts>>

NewRoot ==
    /\ At("new_root")
    /\ sentinel' = "frozen"
    /\ GoTo("unlink")
    /\ UNCHANGED <<userRepo, userName, defaultRepo, files, server, workers, counts>>

\* The repository must be in the workspace (an assertion).  What is in the way
\* of the move is removed: the pointer, or a directory.
UnlinkDefault ==
    /\ At("unlink")
    /\ IF userRepo = "dir"
       THEN defaultRepo' = [defaultRepo EXCEPT ![d0] = "none"] /\ GoTo("move")
       ELSE End("error") /\ UNCHANGED defaultRepo
    /\ UNCHANGED <<userRepo, userName, sentinel, files, server, workers, counts>>

MoveRepo ==
    /\ At("move")
    /\ userRepo' = "none"
    /\ defaultRepo' = [defaultRepo EXCEPT ![d0] = "dir"]
    /\ GoTo("point")
    /\ UNCHANGED <<userName, sentinel, files, server, workers, counts>>

WritePointer ==
    /\ At("point")
    /\ userRepo' = d0
    /\ GoTo("save_rehomed")
    /\ UNCHANGED <<defaultRepo, userName, sentinel, files, server, workers, counts>>

(***************************************************************************)
(* resume_create.                                                           *)
(***************************************************************************)
SaveRehomed ==
    /\ At("save_rehomed")
    /\ SaveProgress("rehomed")
    /\ GoTo("push")
    /\ UNCHANGED <<jj, link, server, workers, counts>>

GitPush ==
    /\ At("push")
    /\ IF server[d0].bare = "ready"
       THEN server' = [server EXCEPT ![d0].git = TRUE] /\ GoTo("save_pushed")
       ELSE End("error") /\ UNCHANGED server
    /\ UNCHANGED <<jj, files, workers, counts>>

SavePushed ==
    /\ At("save_pushed")
    /\ SaveProgress("pushed")
    /\ GoTo("upload")
    /\ UNCHANGED <<jj, link, server, workers, counts>>

\* Mutant of UploadFile: the last file is left out.
UploadAllButOne ==
    /\ At("upload")
    /\ IF server[d0].files < Files - 1
       THEN server' = [server EXCEPT ![d0].files = @ + 1] /\ UNCHANGED <<cmd, ended>>
       ELSE GoTo("save_config") /\ UNCHANGED server
    /\ UNCHANGED <<jj, files, workers, counts>>

\* The files the server has already are skipped.
UploadFile ==
    /\ At("upload")
    /\ IF server[d0].files < Files
       THEN server' = [server EXCEPT ![d0].files = @ + 1] /\ UNCHANGED <<cmd, ended>>
       ELSE GoTo("save_config") /\ UNCHANGED server
    /\ UNCHANGED <<jj, files, workers, counts>>

SaveConfig ==
    /\ At("save_config")
    /\ home' = [home EXCEPT ![d0].config = TRUE]
    /\ GoTo("relink")
    /\ UNCHANGED <<jj, link, server, workers, counts>>

Relink ==
    /\ At("relink")
    /\ link' = d0
    /\ GoTo("verify")
    /\ UNCHANGED <<jj, home, server, workers, counts>>

\* The manifest is compared with the files, which may have changed meanwhile:
\* then the command ends with an error, a case of CutShort.
Verify ==
    /\ At("verify")
    /\ GoTo("save_state")
    /\ UNCHANGED <<jj, files, server, workers, counts>>

SaveState ==
    /\ At("save_state")
    /\ home' = [home EXCEPT ![d0].state = TRUE]
    /\ GoTo("clear")
    /\ UNCHANGED <<jj, link, server, workers, counts>>

ClearProgress ==
    /\ At("clear")
    /\ SaveProgress("none")
    /\ GoTo("worker")
    /\ UNCHANGED <<jj, link, server, workers, counts>>

StartWorker ==
    /\ At("worker")
    /\ workers' = workers \cup {d0}
    /\ End("created")
    /\ UNCHANGED <<jj, files, server, counts>>

(***************************************************************************)
(* undojjo: without a repository in the dojo's home only files are removed. *)
(***************************************************************************)

\* The dojo of the workspace: the linked one, or the one its pointer leads to.
MyDojo == IF link # None THEN link
          ELSE IF userRepo \in Dojos /\ PointsAt(userRepo) /\ home[userRepo].config
          THEN userRepo ELSE None

\* Mutant of FindForUndo: the files are removed whatever the home holds.
FindAndClean ==
    /\ At("u_find")
    /\ IF userRepo = "none" \/ MyDojo = None \/ CannotTell(MyDojo) THEN End("refused")
       ELSE cmd' = [pc |-> "u_clean_link", dojo |-> MyDojo] /\ UNCHANGED ended
    /\ UNCHANGED <<jj, files, server, workers, counts>>

FindForUndo ==
    /\ At("u_find")
    /\ IF userRepo = "none" \/ MyDojo = None \/ CannotTell(MyDojo) THEN End("refused")
       ELSE IF ~PointsAt(MyDojo)
       THEN cmd' = [pc |-> "u_clean_link", dojo |-> MyDojo] /\ UNCHANGED ended
       ELSE IF userName = "default" \/ sentinel = "none" THEN End("refused")
       ELSE cmd' = [pc |-> "u_forget", dojo |-> MyDojo] /\ UNCHANGED ended
    /\ UNCHANGED <<jj, files, server, workers, counts>>

CleanLink ==
    /\ At("u_clean_link")
    /\ link' = None
    /\ GoTo("u_clean_home")
    /\ UNCHANGED <<jj, home, server, workers, counts>>

\* remove_dir_all of the dojo's home, with what is in it.
RemoveHome ==
    /\ defaultRepo' = [defaultRepo EXCEPT ![d0] = "none"]
    /\ home' = [home EXCEPT ![d0] = NoHome]

CleanHome ==
    /\ At("u_clean_home")
    /\ RemoveHome
    /\ End("undone")
    /\ UNCHANGED <<userRepo, userName, sentinel, link, server, workers, counts>>

\* Mutant of ForgetSentinel: the sentinel workspace stays.
KeepSentinel ==
    /\ At("u_forget")
    /\ GoTo("u_rename")
    /\ UNCHANGED <<jj, files, server, workers, counts>>

ForgetSentinel ==
    /\ At("u_forget")
    /\ sentinel' = "none"
    /\ GoTo("u_rename")
    /\ UNCHANGED <<userRepo, defaultRepo, userName, files, server, workers, counts>>

RenameToDefault ==
    /\ At("u_rename")
    /\ userName' = "default"
    /\ GoTo("u_unpoint")
    /\ UNCHANGED <<userRepo, defaultRepo, sentinel, files, server, workers, counts>>

RemovePointer ==
    /\ At("u_unpoint")
    /\ userRepo' = "none"
    /\ GoTo("u_move")
    /\ UNCHANGED <<defaultRepo, userName, sentinel, files, server, workers, counts>>

MoveBack ==
    /\ At("u_move")
    /\ userRepo' = "dir"
    /\ defaultRepo' = [defaultRepo EXCEPT ![d0] = "none"]
    /\ GoTo("u_home")
    /\ UNCHANGED <<userName, sentinel, files, server, workers, counts>>

UndoHome ==
    /\ At("u_home")
    /\ RemoveHome
    /\ GoTo("u_link")
    /\ UNCHANGED <<userRepo, userName, sentinel, link, server, workers, counts>>

UndoLink ==
    /\ At("u_link")
    /\ link' = None
    /\ End("undone")
    /\ UNCHANGED <<jj, home, server, workers, counts>>

(***************************************************************************)
(* The specification.                                                       *)
(***************************************************************************)
CreateStep ==
    \/ FindResumable \/ PostDojo \/ InitBare \/ AllowPush
    \/ WriteLink \/ SaveRegistered
    \/ Rehome \/ RenameWorkspace \/ AddWorkspace \/ NewRoot \/ UnlinkDefault \/ MoveRepo
    \/ WritePointer \/ SaveRehomed \/ GitPush \/ SavePushed \/ UploadFile \/ SaveConfig
    \/ Relink \/ Verify \/ SaveState \/ ClearProgress \/ StartWorker

UndoStep ==
    \/ FindForUndo \/ CleanLink \/ CleanHome \/ ForgetSentinel \/ RenameToDefault
    \/ RemovePointer \/ MoveBack \/ UndoHome \/ UndoLink

Next == \/ Start("find") \/ Start("u_find")
        \/ CreateStep \/ UndoStep
        \/ CutShort

Spec == Init /\ [][Next]_vars

(***************************************************************************)
(* Properties.                                                              *)
(***************************************************************************)

\* Every variable has its type, and no two jj workspaces are named `default`.
TypeOK ==
    /\ userRepo \in {"dir", "none"} \cup Dojos
    /\ defaultRepo \in [Dojos -> {"none", "dir", "pointer"}]
    /\ link \in Dojos \cup {None}
    /\ home \in [Dojos -> [progress : {"none", "registered", "rehomed", "pushed"},
                           config : BOOLEAN, state : BOOLEAN]]
    /\ userName \in {"default", "mine"}
    /\ sentinel \in {"none", "added", "frozen"}
    /\ sentinel # "none" => userName = "mine"
    /\ server \in [Dojos -> [bare : {"none", "row", "init", "ready"}, git : BOOLEAN,
                            files : 0 .. Files]]
    /\ workers \subseteq Dojos
    /\ cmd \in [pc : {"idle"} \cup CreatePhases \cup UndoPhases, dojo : Dojos \cup {None}]
    /\ ended \in {"none", "cut", "error", "created", "undone", "refused"}
    /\ hurt \in BOOLEAN
    /\ crashes \in 0 .. MaxCrashes
    /\ commands \in 0 .. MaxCommands

\* The user's repository is there, once, wherever commands are cut short: no
\* step removes it, and a pointer always leads to it.
RepoKept ==
    /\ \/ userRepo = "dir" /\ \A d \in Dojos : defaultRepo[d] # "dir"
       \/ userRepo # "dir" /\ \E d \in Dojos : {e \in Dojos : defaultRepo[e] = "dir"} = {d}
    /\ userRepo \in Dojos => defaultRepo[userRepo] = "dir"

\* A dojo that a rerun takes for set up is published, Git first and then every
\* file; and one the workspace knows of, however early create was cut short,
\* takes pushes.
ConfigMeansPublished ==
    \A d \in Dojos :
        /\ home[d].config => server[d].git /\ server[d].files = Files
        /\ server[d].files > 0 => server[d].git
        /\ link = d \/ home[d].progress # "none" \/ server[d].git => server[d].bare = "ready"

\* What create promises: the workspace points into the linked dojo, which is
\* published, has its frozen sentinel, no progress left, and a worker.
SetUp(d) ==
    /\ link = d /\ PointsAt(d)
    /\ home[d] = [progress |-> "none", config |-> TRUE, state |-> TRUE]
    /\ sentinel = "frozen" /\ userName = "mine"
    /\ server[d].git /\ server[d].files = Files
    /\ d \in workers

Promised == \E d \in Dojos : SetUp(d)

\* Cut short anywhere outside the windows, create can be run again, and a run
\* that is left to end does what it promises, from whichever phase it resumes.
RerunCompletes == ended \in {"created", "error"} /\ ~hurt => Promised

\* README.md:101 says so of any interruption.
SafeToRerun == ended \in {"created", "error"} => Promised
===============================================================================
