--------------------------- MODULE DojoSetup_proofs ---------------------------
(***************************************************************************)
(* Proofs about DojoSetup: however often create and undojjo are run and cut *)
(* short, the user's repository is in exactly one place, a dojo with a      *)
(* config file is published, and outside the windows create can be rerun.   *)
(***************************************************************************)
EXTENDS DojoSetup, TLAPS

Busy == (CreatePhases \ {"find", "post"}) \cup (UndoPhases \ {"u_find"})

\* Of create: up to the move, the uploads, and once there is a config file.
Moving == {"rehome", "rename_ws", "add_ws", "new_root", "unlink", "move", "point",
           "save_rehomed"}
Sending == {"push", "save_pushed", "upload", "save_config"}
Finishing == {"relink", "verify", "save_state", "clear", "worker"}

\* A command past its first steps has a dojo.
HasDojo == cmd.pc \in Busy => cmd.dojo \in Dojos

\* Where the repository is, at the steps that are about to move it or to
\* write over a place it could be in.
Placed ==
    /\ cmd.pc \in {"rename_ws", "add_ws", "new_root", "unlink"} =>
           userRepo # "none" /\ ~PointsAt(cmd.dojo)
    /\ At("new_root") => userName = "mine"
    /\ At("move") => userRepo = "dir"
    /\ At("point") => userRepo = "none" /\ defaultRepo[cmd.dojo] = "dir"
    /\ cmd.pc \in {"post", "init", "receive", "link", "register", "rehome"} => userRepo # "none"
    /\ cmd.pc \in {"u_clean_link", "u_clean_home"} =>
           userRepo # "none" /\ ~PointsAt(cmd.dojo)
    /\ cmd.pc \in {"u_forget", "u_rename", "u_unpoint"} => PointsAt(cmd.dojo)
    /\ cmd.pc \in {"u_rename", "u_unpoint", "u_move"} => sentinel = "none"
    /\ At("u_move") => userRepo = "none" /\ defaultRepo[cmd.dojo] = "dir"
    /\ At("u_home") => userRepo = "dir"

\* What the server has, as far as the progress file and the command say.
Backed == \A d \in Dojos : home[d].progress = "pushed" => server[d].git

Published ==
    /\ Backed
    /\ cmd.pc \in (Busy \ {"init", "receive"}) \ UndoPhases => server[cmd.dojo].bare = "ready"
    /\ At("init") => server[cmd.dojo].bare = "row"
    /\ At("receive") => server[cmd.dojo].bare = "init"
    /\ cmd.pc \in {"save_pushed", "upload", "save_config"} => server[cmd.dojo].git
    /\ At("save_config") => server[cmd.dojo].files = Files
    /\ cmd.pc \in Finishing => home[cmd.dojo].config

Clean(d) == home[d].progress = "none" /\ ~home[d].config
OnlyOf(d) == \A e \in Dojos \ {d} : Clean(e)
Plain == userRepo = "dir" /\ sentinel # "added"
Moved(d) == PointsAt(d) /\ sentinel = "frozen"
Registered(d) == home[d].progress = "registered" /\ ~home[d].config

\* Between two commands: nothing was moved, or the linked dojo can be resumed,
\* or it is as promised.
RestsSound ==
    cmd.pc \in {"idle", "find", "u_find"} =>
        /\ OnlyOf(link)
        /\ \/ Plain /\ (link # None => Clean(link) \/ Registered(link))
           \/ link # None /\ Moved(link) /\ Unfinished(link)
           \/ link # None /\ SetUp(link)

\* During create, up to the progress file's first phase, up to the move, and
\* after it.
CreateSound ==
    /\ cmd.pc \in {"post", "init", "receive", "link", "register"} =>
           Plain /\ \A e \in Dojos : Clean(e)
    /\ At("register") => link = cmd.dojo
    /\ cmd.pc \in Moving => link = cmd.dojo /\ OnlyOf(link) /\ Registered(link)
    /\ At("rehome") => Plain \/ Moved(cmd.dojo)
    /\ cmd.pc \in {"rename_ws", "add_ws", "unlink", "move"} => Plain
    /\ At("add_ws") => userName = "mine"
    /\ At("new_root") => userRepo = "dir"
    /\ cmd.pc \in {"unlink", "move", "point"} => sentinel = "frozen"
    /\ cmd.pc \in {"save_rehomed"} \cup Sending \cup Finishing =>
           link = cmd.dojo /\ OnlyOf(link) /\ Moved(cmd.dojo)
    /\ cmd.pc \in Sending => Unfinished(cmd.dojo)
    /\ cmd.pc \in {"clear", "worker"} => home[cmd.dojo].state
    /\ At("worker") => home[cmd.dojo].progress = "none"

\* During undojjo.
UndoSound ==
    /\ cmd.pc \in {"u_clean_link", "u_clean_home"} => Plain
    /\ cmd.pc \in UndoPhases \ {"u_find", "u_clean_home"} => link = cmd.dojo
    /\ At("u_clean_home") => link = None
    /\ cmd.pc \in UndoPhases \ {"u_find"} => OnlyOf(cmd.dojo)
    /\ At("u_home") => sentinel = "none"
    /\ At("u_link") => Plain /\ \A e \in Dojos : Clean(e)

\* What "created" says is so, and none ends with an error.
EndsSound ==
    /\ ended = "created" => link # None /\ SetUp(link)
    /\ ended # "error"

Sound == ~hurt => RestsSound /\ CreateSound /\ UndoSound /\ EndsSound

Inv == TypeOK /\ RepoKept /\ HasDojo /\ Placed
Inv2 == Inv /\ (~At("idle") => ended = "none") /\ ConfigMeansPublished /\ Published
Inv3 == Inv2 /\ Sound

Homes == [progress : {"none", "registered", "rehomed", "pushed"}, config : BOOLEAN,
          state : BOOLEAN]
Servers == [bare : {"none", "row", "init", "ready"}, git : BOOLEAN, files : 0 .. Files]

\* Marking a field of one dojo's files or server state keeps the type.
LEMMA Marked ==
    ASSUME NEW h \in [Dojos -> Homes], NEW s \in [Dojos -> Servers], NEW d \in Dojos
    PROVE  /\ [h EXCEPT ![d].config = TRUE] \in [Dojos -> Homes]
           /\ [h EXCEPT ![d].state = TRUE] \in [Dojos -> Homes]
           /\ \A b \in {"row", "init", "ready"} :
                  [s EXCEPT ![d].bare = b] \in [Dojos -> Servers]
           /\ [s EXCEPT ![d].git = TRUE] \in [Dojos -> Servers]
<1>1. h[d] \in Homes /\ s[d] \in Servers
  OBVIOUS
<1>2. [h[d] EXCEPT !.config = TRUE] \in Homes
  BY <1>1 DEF Homes
<1>3. [h[d] EXCEPT !.state = TRUE] \in Homes
  BY <1>1 DEF Homes
<1>4. \A b \in {"row", "init", "ready"} : [s[d] EXCEPT !.bare = b] \in Servers
  BY <1>1 DEF Servers
<1>5. [s[d] EXCEPT !.git = TRUE] \in Servers
  BY <1>1 DEF Servers
<1>6. QED
  BY <1>2, <1>3, <1>4, <1>5

\* A step keeps the type of every variable.
LEMMA TypeStep == Inv /\ [Next]_vars => TypeOK'
<1> SUFFICES ASSUME Inv, [Next]_vars PROVE TypeOK'
  OBVIOUS
<1> USE SetupAssumption DEF Inv, TypeOK, HasDojo, Placed, Busy, CreatePhases, UndoPhases,
                            Idle, At, d0, GoTo, End, jj, files, counts
<1>1. CASE Start("find")
  BY <1>1 DEF Start
<1>2. CASE Start("u_find")
  BY <1>2 DEF Start
<1>3. CASE CutShort
  BY <1>3 DEF CutShort
<1>4. CASE FindResumable
  BY <1>4 DEF FindResumable, Resume, Unfinished, CannotTell
<1>5. CASE PostDojo
  <2>1. PICK d \in Dojos : server' = [server EXCEPT ![d].bare = "row"]
                              /\ cmd' = [pc |-> "init", dojo |-> d]
    BY <1>5 DEF PostDojo
  <2>2. server' \in [Dojos -> Servers]
    BY <2>1, Marked DEF Homes, Servers
  <2>3. QED
    BY <1>5, <2>1, <2>2 DEF Servers, PostDojo
<1>6. CASE WriteLink
  BY <1>6 DEF WriteLink
<1>7. CASE SaveRegistered
  BY <1>7 DEF SaveRegistered, SaveProgress
<1>8. CASE Rehome
  BY <1>8 DEF Rehome, PointsAt, CannotTell
<1>9. CASE RenameWorkspace
  BY <1>9 DEF RenameWorkspace, DefaultExists
<1>10. CASE AddWorkspace
  <2>1. CASE DefaultExists
    BY <1>10, <2>1 DEF AddWorkspace
  <2>2. CASE ~DefaultExists
    <3>1. d0 \in Dojos /\ userName = "mine"
      BY <1>10, <2>2 DEF AddWorkspace, DefaultExists
    <3>2. defaultRepo' \in [Dojos -> {"none", "dir", "pointer"}]
      BY <1>10, <2>2, <3>1 DEF AddWorkspace
    <3>3. QED
      BY <1>10, <2>2, <3>1, <3>2 DEF AddWorkspace
  <2>3. QED
    BY <2>1, <2>2
<1>11. CASE NewRoot
  BY <1>11 DEF NewRoot
<1>12. CASE UnlinkDefault
  BY SMTT(30), <1>12 DEF UnlinkDefault
<1>13. CASE MoveRepo
  BY <1>13 DEF MoveRepo
<1>14. CASE WritePointer
  BY <1>14 DEF WritePointer
<1>15. CASE SaveRehomed
  BY <1>15 DEF SaveRehomed, SaveProgress
<1>16. CASE GitPush
  <2>1. d0 \in Dojos
    BY <1>16 DEF GitPush
  <2>2. server' = [server EXCEPT ![d0].git = TRUE] \/ server' = server
    BY <1>16 DEF GitPush
  <2>3. server \in [Dojos -> Servers] /\ home \in [Dojos -> Homes]
    BY DEF Homes, Servers
  <2>4. [server EXCEPT ![d0].git = TRUE] \in [Dojos -> Servers]
    BY Zenon, <2>1, <2>3, Marked
  <2>5. server' \in [Dojos -> Servers]
    BY Zenon, <2>2, <2>3, <2>4
  <2>6. \/ cmd' = [cmd EXCEPT !.pc = "save_pushed"] /\ ended' = ended
        \/ End("error")
    BY <1>16 DEF GitPush
  <2>7. UNCHANGED <<jj, files, workers, counts>>
    BY <1>16 DEF GitPush
  <2>8. QED
    BY <2>5, <2>6, <2>7 DEF Servers
<1>17. CASE SavePushed
  BY <1>17 DEF SavePushed, SaveProgress
<1>18. CASE UploadFile
  BY <1>18 DEF UploadFile
<1>19. CASE SaveConfig
  <2>1. d0 \in Dojos
    BY <1>19 DEF SaveConfig
  <2>2. home' \in [Dojos -> Homes]
    BY <1>19, <2>1, Marked DEF Homes, Servers, SaveConfig
  <2>3. QED
    BY <1>19, <2>1, <2>2 DEF Homes, SaveConfig
<1>20. CASE Relink
  BY <1>20 DEF Relink
<1>21. CASE Verify
  BY <1>21 DEF Verify
<1>22. CASE SaveState
  <2>1. d0 \in Dojos
    BY <1>22 DEF SaveState
  <2>2. home' \in [Dojos -> Homes]
    BY <1>22, <2>1, Marked DEF Homes, Servers, SaveState
  <2>3. QED
    BY <1>22, <2>1, <2>2 DEF Homes, SaveState
<1>23. CASE ClearProgress
  BY SMTT(30), <1>23 DEF ClearProgress, SaveProgress
<1>24. CASE StartWorker
  BY <1>24 DEF StartWorker
<1>25. CASE FindForUndo
  BY <1>25 DEF FindForUndo, MyDojo, CannotTell, PointsAt
<1>26. CASE CleanLink
  BY <1>26 DEF CleanLink
<1>27. CASE CleanHome
  BY <1>27 DEF CleanHome, RemoveHome, NoHome
<1>28. CASE ForgetSentinel
  BY <1>28 DEF ForgetSentinel
<1>29. CASE RenameToDefault
  BY <1>29 DEF RenameToDefault
<1>30. CASE RemovePointer
  BY <1>30 DEF RemovePointer
<1>31. CASE MoveBack
  BY <1>31 DEF MoveBack
<1>32. CASE UndoHome
  BY <1>32 DEF UndoHome, RemoveHome, NoHome
<1>33. CASE UndoLink
  BY <1>33 DEF UndoLink
<1>34. CASE InitBare
  <2>1. d0 \in Dojos
    BY <1>34 DEF InitBare
  <2>2. server' \in [Dojos -> Servers]
    BY <1>34, <2>1, Marked DEF Homes, Servers, InitBare
  <2>3. QED
    BY <1>34, <2>1, <2>2 DEF Servers, InitBare
<1>35. CASE AllowPush
  <2>1. d0 \in Dojos
    BY <1>35 DEF AllowPush
  <2>2. server' \in [Dojos -> Servers]
    BY <1>35, <2>1, Marked DEF Homes, Servers, AllowPush
  <2>3. QED
    BY <1>35, <2>1, <2>2 DEF Servers, AllowPush
<1>36. CASE UNCHANGED vars
  BY <1>36 DEF vars
<1>37. QED
  BY <1>1, <1>2, <1>3, <1>4, <1>5, <1>6, <1>7, <1>8, <1>9, <1>10, <1>11, <1>12,
     <1>13, <1>14, <1>15, <1>16, <1>17, <1>18, <1>19, <1>20, <1>21, <1>22, <1>23,
     <1>24, <1>25, <1>26, <1>27, <1>28, <1>29, <1>30, <1>31, <1>32, <1>33, <1>34,
     <1>35, <1>36 DEF
     Next, CreateStep, UndoStep

\* A step leaves the repository in one place, and a command where it may be.
LEMMA RepoStep == Inv /\ [Next]_vars => (RepoKept /\ HasDojo /\ Placed)'
<1> SUFFICES ASSUME Inv, [Next]_vars PROVE (RepoKept /\ HasDojo /\ Placed)'
  OBVIOUS
<1> USE SetupAssumption DEF Inv, TypeOK, RepoKept, HasDojo, Placed, Busy, PointsAt,
                            CreatePhases, UndoPhases, Idle, At, d0, GoTo, End, jj, files, counts
<1>1. CASE Start("find")
  BY <1>1 DEF Start
<1>2. CASE Start("u_find")
  BY <1>2 DEF Start
<1>3. CASE CutShort
  BY <1>3 DEF CutShort
<1>4. CASE FindResumable
  BY <1>4 DEF FindResumable, Resume, Unfinished, CannotTell
<1>5. CASE PostDojo
  BY <1>5 DEF PostDojo
<1>6. CASE WriteLink
  BY <1>6 DEF WriteLink
<1>7. CASE SaveRegistered
  BY <1>7 DEF SaveRegistered, SaveProgress
<1>8. CASE Rehome
  BY <1>8 DEF Rehome, CannotTell
<1>9. CASE RenameWorkspace
  BY <1>9 DEF RenameWorkspace, DefaultExists
<1>10. CASE AddWorkspace
  BY <1>10 DEF AddWorkspace, DefaultExists
<1>11. CASE NewRoot
  BY <1>11 DEF NewRoot
<1>12. CASE UnlinkDefault
  BY SMTT(30), <1>12 DEF UnlinkDefault
<1>13. CASE MoveRepo
  BY SMTT(30), <1>13 DEF MoveRepo
<1>14. CASE WritePointer
  BY <1>14 DEF WritePointer
<1>15. CASE SaveRehomed
  BY <1>15 DEF SaveRehomed, SaveProgress
<1>16. CASE GitPush
  <2>1. cmd' = [cmd EXCEPT !.pc = "save_pushed"] \/ cmd' = Idle
    BY <1>16 DEF GitPush
  <2>2. UNCHANGED jj /\ At("push")
    BY <1>16 DEF GitPush
  <2>3. QED
    BY <2>1, <2>2
<1>17. CASE SavePushed
  BY <1>17 DEF SavePushed, SaveProgress
<1>18. CASE UploadFile
  BY <1>18 DEF UploadFile
<1>19. CASE SaveConfig
  BY <1>19 DEF SaveConfig
<1>20. CASE Relink
  BY <1>20 DEF Relink
<1>21. CASE Verify
  BY <1>21 DEF Verify
<1>22. CASE SaveState
  BY <1>22 DEF SaveState
<1>23. CASE ClearProgress
  BY SMTT(30), <1>23 DEF ClearProgress, SaveProgress
<1>24. CASE StartWorker
  BY <1>24 DEF StartWorker
<1>25. CASE FindForUndo
  BY <1>25 DEF FindForUndo, MyDojo, CannotTell
<1>26. CASE CleanLink
  BY <1>26 DEF CleanLink
<1>27. CASE CleanHome
  BY SMTT(30), <1>27 DEF CleanHome, RemoveHome, NoHome
<1>28. CASE ForgetSentinel
  BY <1>28 DEF ForgetSentinel
<1>29. CASE RenameToDefault
  BY <1>29 DEF RenameToDefault
<1>30. CASE RemovePointer
  BY <1>30 DEF RemovePointer
<1>31. CASE MoveBack
  BY <1>31 DEF MoveBack
<1>32. CASE UndoHome
  BY <1>32 DEF UndoHome, RemoveHome, NoHome
<1>33. CASE UndoLink
  BY <1>33 DEF UndoLink
<1>34. CASE InitBare
  BY <1>34 DEF InitBare
<1>35. CASE AllowPush
  BY <1>35 DEF AllowPush
<1>36. CASE UNCHANGED vars
  BY <1>36 DEF vars
<1>37. QED
  BY <1>1, <1>2, <1>3, <1>4, <1>5, <1>6, <1>7, <1>8, <1>9, <1>10, <1>11, <1>12,
     <1>13, <1>14, <1>15, <1>16, <1>17, <1>18, <1>19, <1>20, <1>21, <1>22, <1>23,
     <1>24, <1>25, <1>26, <1>27, <1>28, <1>29, <1>30, <1>31, <1>32, <1>33, <1>34,
     <1>35, <1>36 DEF
     Next, CreateStep, UndoStep

\* While the files of the homes stay and the server loses nothing, what they say
\* of the server stays true.
LEMMA ServerGrows ==
    ASSUME ConfigMeansPublished, Backed, UNCHANGED <<home, link>>,
           \A e \in Dojos : /\ server[e].git => server'[e].git
                            /\ server'[e].files = server[e].files
                            /\ server[e].bare = "ready" => server'[e].bare = "ready"
                            /\ server'[e].git => server'[e].bare = "ready"
    PROVE  ConfigMeansPublished' /\ Backed'
BY DEF ConfigMeansPublished, Backed

\* A file count that is not below the number of files is that number.
LEMMA Full == ASSUME NEW n \in 0 .. Files, ~(n < Files) PROVE n = Files
BY SetupAssumption

\* Once a command was cut short in a window, it was.
LEMMA HurtStays == Inv /\ [Next]_vars => (hurt => hurt')
<1> SUFFICES ASSUME Inv, [Next]_vars, hurt PROVE hurt'
  OBVIOUS
<1> USE DEF counts, vars, Next, CreateStep, UndoStep, Start, CutShort, FindResumable, PostDojo,
            InitBare, AllowPush, WriteLink, SaveRegistered, Rehome, RenameWorkspace,
            AddWorkspace, NewRoot,
            UnlinkDefault, MoveRepo, WritePointer, SaveRehomed, GitPush, SavePushed,
            UploadFile, SaveConfig, Relink, Verify, SaveState, ClearProgress, StartWorker,
            FindForUndo, CleanLink, CleanHome, ForgetSentinel, RenameToDefault,
            RemovePointer, MoveBack, UndoHome, UndoLink
<1>1. QED
  BY Zenon

\* A step keeps what the server must have, and a command under way has not ended.
LEMMA PublishedStep ==
    Inv2 /\ [Next]_vars =>
        ((~At("idle") => ended = "none") /\ ConfigMeansPublished /\ Published)'
<1> SUFFICES ASSUME Inv2, [Next]_vars
             PROVE  ((~At("idle") => ended = "none") /\ ConfigMeansPublished /\ Published)'
  OBVIOUS
<1>0. ConfigMeansPublished /\ Backed
  BY DEF Inv2, Published
<1> USE SetupAssumption DEF Inv2, Inv, TypeOK, HasDojo, ConfigMeansPublished, Backed, Published,
                            Busy, Moving, Sending, Finishing, PointsAt, CreatePhases, UndoPhases,
                            Idle, At, d0, GoTo, End, jj, files, counts
<1>1. CASE Start("find")
  BY <1>1 DEF Start
<1>2. CASE Start("u_find")
  BY <1>2 DEF Start
<1>3. CASE CutShort
  BY <1>3 DEF CutShort, Windows
<1>4. CASE FindResumable
  <2>1. UNCHANGED <<home, link, server>> /\ At("find")
    BY <1>4 DEF FindResumable
  <2>2. \/ \E how : End(how)
        \/ GoTo("post")
        \/ \E d \in Dojos : Unfinished(d) /\ Resume(d)
    BY <1>4 DEF FindResumable
  <2>3. ConfigMeansPublished' /\ Backed'
    BY Zenon, <1>0, <2>1 DEF ConfigMeansPublished, Backed
  <2>4. CASE \E how : End(how)
    BY <2>1, <2>3, <2>4
  <2>5. CASE GoTo("post")
    BY <2>1, <2>3, <2>5
  <2>6. ASSUME NEW d \in Dojos, Unfinished(d), Resume(d), ~ \E how : End(how)
        PROVE  ((~At("idle") => ended = "none") /\ ConfigMeansPublished /\ Published)'
    <3>1. ended' = ended /\ cmd'.dojo = d
      BY <2>6 DEF Resume
    <3>2. home[d].progress \in {"registered", "rehomed", "pushed"}
      BY <2>6 DEF Unfinished
    <3>3. \/ home[d].progress = "registered" /\ cmd'.pc = "rehome"
          \/ home[d].progress = "rehomed" /\ cmd'.pc = "push"
          \/ home[d].progress = "pushed" /\ cmd'.pc = "upload"
      BY <2>6, <3>2 DEF Resume
    <3>4. server[d].bare = "ready" /\ (home[d].progress = "pushed" => server[d].git)
      BY <1>0, <3>2
    <3>5. QED
      BY <2>1, <2>3, <3>1, <3>3, <3>4
  <2>7. QED
    BY <2>2, <2>4, <2>5, <2>6
<1>5. CASE PostDojo
  <2>1. PICK d \in Dojos : /\ server[d].bare = "none"
                           /\ server' = [server EXCEPT ![d].bare = "row"]
                           /\ cmd' = [pc |-> "init", dojo |-> d]
    BY <1>5 DEF PostDojo
  <2>2. \A e \in Dojos : /\ server[e].git => server'[e].git
                         /\ server'[e].files = server[e].files
                         /\ server[e].bare = "ready" => server'[e].bare = "ready"
                         /\ server'[e].git => server'[e].bare = "ready"
    BY <2>1
  <2>3. server'[d].bare = "row" /\ cmd'.pc = "init" /\ cmd'.dojo = d
    BY <2>1
  <2>4. UNCHANGED <<home, link, ended>> /\ ended = "none"
    BY <1>5 DEF PostDojo
  <2>5. ConfigMeansPublished' /\ Backed'
    BY Zenon, <1>0, <2>2, <2>4, ServerGrows
  <2>6. QED
    BY <2>3, <2>4, <2>5
<1>6. CASE InitBare
  BY <1>6 DEF InitBare
<1>7. CASE AllowPush
  BY <1>7 DEF AllowPush
<1>8. CASE WriteLink
  BY <1>8 DEF WriteLink
<1>9. CASE SaveRegistered
  BY <1>9 DEF SaveRegistered, SaveProgress
<1>10. CASE Rehome
  BY <1>10 DEF Rehome, CannotTell
<1>11. CASE RenameWorkspace
  BY <1>11 DEF RenameWorkspace, DefaultExists
<1>12. CASE AddWorkspace
  BY <1>12 DEF AddWorkspace, DefaultExists
<1>13. CASE NewRoot
  BY <1>13 DEF NewRoot
<1>14. CASE UnlinkDefault
  BY <1>14 DEF UnlinkDefault
<1>15. CASE MoveRepo
  BY <1>15 DEF MoveRepo
<1>16. CASE WritePointer
  BY <1>16 DEF WritePointer
<1>17. CASE SaveRehomed
  BY <1>17 DEF SaveRehomed, SaveProgress
<1>18. CASE GitPush
  <2>1. d0 \in Dojos /\ server[d0].bare = "ready" /\ At("push") /\ ended = "none"
    BY <1>18 DEF GitPush
  <2>2. /\ server' = [server EXCEPT ![d0].git = TRUE]
        /\ cmd' = [cmd EXCEPT !.pc = "save_pushed"]
        /\ UNCHANGED <<home, link, ended>>
    BY <1>18, <2>1 DEF GitPush
  <2>3. \A e \in Dojos : /\ server[e].git => server'[e].git
                         /\ server'[e].files = server[e].files
                         /\ server[e].bare = "ready" => server'[e].bare = "ready"
                         /\ server'[e].git => server'[e].bare = "ready"
    BY <2>1, <2>2
  <2>4. server'[d0].git /\ server'[d0].bare = "ready"
    BY <2>1, <2>2
  <2>5. ConfigMeansPublished' /\ Backed'
    BY Zenon, <1>0, <2>2, <2>3, ServerGrows
  <2>6. cmd'.pc = "save_pushed" /\ cmd'.dojo = d0
    BY <2>1, <2>2
  <2>7. QED
    BY <2>2, <2>1, <2>4, <2>5, <2>6
<1>19. CASE SavePushed
  BY <1>19 DEF SavePushed, SaveProgress
<1>20. CASE UploadFile
  <2>1. d0 \in Dojos /\ server[d0].bare = "ready" /\ server[d0].git
    BY <1>20 DEF UploadFile
  <2>2. server[d0].files \in 0 .. Files
    BY <2>1
  <2>3. CASE server[d0].files < Files
    <3>1. /\ server' = [server EXCEPT ![d0].files = server[d0].files + 1]
          /\ UNCHANGED <<home, link, cmd, ended>>
      BY <1>20, <2>3 DEF UploadFile
    <3>2. \A e \in Dojos : /\ server'[e].git = server[e].git
                           /\ server'[e].bare = server[e].bare
                           /\ e # d0 => server'[e].files = server[e].files
      BY <3>1
    <3>3. ~home[d0].config
      BY <2>1, <2>2, <2>3
    <3>4. At("upload") /\ ended = "none"
      BY <1>20 DEF UploadFile
    <3>5. ConfigMeansPublished'
      BY <2>1, <3>1, <3>2, <3>3
    <3>6. Published'
      BY <2>1, <3>1, <3>2, <3>4
    <3>7. QED
      BY <3>1, <3>4, <3>5, <3>6
  <2>4. CASE ~(server[d0].files < Files)
    <3>1. UNCHANGED <<home, link, server, ended>> /\ cmd' = [cmd EXCEPT !.pc = "save_config"]
      BY <1>20, <2>4 DEF UploadFile
    <3>2. server[d0].files = Files
      BY Zenon, <2>2, <2>4, Full
    <3>3. At("upload") /\ ended = "none"
      BY <1>20 DEF UploadFile
    <3>4. ConfigMeansPublished' /\ Backed'
      BY Zenon, <1>0, <3>1 DEF ConfigMeansPublished, Backed
    <3>5. cmd'.pc = "save_config" /\ cmd'.dojo = d0
      BY <3>1
    <3>6. QED
      BY <2>1, <3>1, <3>2, <3>3, <3>4, <3>5
  <2>5. QED
    BY <2>3, <2>4
<1>21. CASE SaveConfig
  BY <1>21 DEF SaveConfig
<1>22. CASE Relink
  BY <1>22 DEF Relink
<1>23. CASE Verify
  BY <1>23 DEF Verify
<1>24. CASE SaveState
  BY <1>24 DEF SaveState
<1>25. CASE ClearProgress
  BY <1>25 DEF ClearProgress, SaveProgress
<1>26. CASE StartWorker
  BY <1>26 DEF StartWorker
<1>27. CASE FindForUndo
  BY <1>27 DEF FindForUndo, MyDojo, CannotTell
<1>28. CASE CleanLink
  BY <1>28 DEF CleanLink
<1>29. CASE CleanHome
  BY <1>29 DEF CleanHome, RemoveHome, NoHome
<1>30. CASE ForgetSentinel
  BY <1>30 DEF ForgetSentinel
<1>31. CASE RenameToDefault
  BY <1>31 DEF RenameToDefault
<1>32. CASE RemovePointer
  BY <1>32 DEF RemovePointer
<1>33. CASE MoveBack
  BY <1>33 DEF MoveBack
<1>34. CASE UndoHome
  BY <1>34 DEF UndoHome, RemoveHome, NoHome
<1>35. CASE UndoLink
  BY <1>35 DEF UndoLink
<1>36. CASE UNCHANGED vars
  BY <1>36 DEF vars
<1>37. QED
  BY <1>1, <1>2, <1>3, <1>4, <1>5, <1>6, <1>7, <1>8, <1>9, <1>10, <1>11, <1>12, <1>13,
     <1>14, <1>15, <1>16, <1>17, <1>18, <1>19, <1>20, <1>21, <1>22, <1>23, <1>24, <1>25,
     <1>26, <1>27, <1>28, <1>29, <1>30, <1>31, <1>32, <1>33, <1>34, <1>35, <1>36 DEF
     Next, CreateStep, UndoStep

\* A step keeps what holds of a command and its files until one is cut short in
\* a window.
LEMMA SoundStep == Inv3 /\ [Next]_vars => Sound'
<1> SUFFICES ASSUME Inv2, [Next]_vars, ~hurt', hurt => hurt', Sound PROVE Sound'
  BY HurtStays DEF Inv3, Inv2, Sound
<1> USE SetupAssumption DEF Inv2, Inv, TypeOK, RepoKept, HasDojo, Placed, Sound, RestsSound,
                            CreateSound, UndoSound, EndsSound, Clean, OnlyOf, Plain, Moved,
                            Registered, SetUp, Unfinished, Busy, Moving, Sending, Finishing,
                            PointsAt, CreatePhases, UndoPhases, Idle, At, d0, GoTo, End, jj,
                            files, counts
<1>1. CASE Start("find")
  BY <1>1 DEF Start
<1>2. CASE Start("u_find")
  BY <1>2 DEF Start
<1>3. CASE CutShort
  <2>1. cmd.pc \notin Windows \cup UndoPhases
    BY Zenon, <1>3 DEF CutShort
  <2>2. cmd'.pc = "idle" /\ ended' = "cut" /\ UNCHANGED <<jj, files, server, workers>>
    BY <1>3 DEF CutShort
  <2>3. ~hurt
    OBVIOUS
  <2>4. RestsSound'
    <3>1. CASE cmd.pc \in {"idle", "find"}
      BY <2>2, <2>3, <3>1
    <3>2. CASE cmd.pc \in {"post", "init", "receive", "link", "register"}
      BY <2>2, <2>3, <3>2
    <3>3. CASE cmd.pc \in {"rehome", "rename_ws", "add_ws", "unlink", "move"}
      BY <2>2, <2>3, <3>3
    <3>4. CASE cmd.pc \in {"save_rehomed"} \cup Sending
      BY <2>2, <2>3, <3>4
    <3>5. QED
      BY <2>1, <3>1, <3>2, <3>3, <3>4 DEF Windows
  <2>5. (CreateSound /\ UndoSound /\ EndsSound)'
    BY <2>2
  <2>6. QED
    BY <2>4, <2>5
<1>4. CASE FindResumable
  BY <1>4 DEF FindResumable, Resume, Unfinished, CannotTell
<1>5. CASE PostDojo
  BY <1>5 DEF PostDojo
<1>6. CASE InitBare
  BY <1>6 DEF InitBare
<1>7. CASE AllowPush
  BY <1>7 DEF AllowPush
<1>8. CASE WriteLink
  BY <1>8 DEF WriteLink
<1>9. CASE SaveRegistered
  BY <1>9 DEF SaveRegistered, SaveProgress
<1>10. CASE Rehome
  BY <1>10 DEF Rehome, CannotTell
<1>11. CASE RenameWorkspace
  BY <1>11 DEF RenameWorkspace, DefaultExists
<1>12. CASE AddWorkspace
  BY <1>12 DEF AddWorkspace, DefaultExists
<1>13. CASE NewRoot
  BY <1>13 DEF NewRoot
<1>14. CASE UnlinkDefault
  BY <1>14 DEF UnlinkDefault
<1>15. CASE MoveRepo
  BY <1>15 DEF MoveRepo
<1>16. CASE WritePointer
  BY <1>16 DEF WritePointer
<1>17. CASE SaveRehomed
  BY <1>17 DEF SaveRehomed, SaveProgress
<1>18. CASE GitPush
  <2>1. server[d0].bare = "ready" /\ At("push")
    BY <1>18 DEF GitPush, Published
  <2>2. /\ cmd' = [cmd EXCEPT !.pc = "save_pushed"]
        /\ UNCHANGED <<jj, files, ended>>
    BY <1>18, <2>1 DEF GitPush
  <2>3. cmd'.pc = "save_pushed" /\ cmd'.dojo = d0
    BY <2>2
  <2>4. QED
    BY <2>1, <2>2, <2>3
<1>19. CASE SavePushed
  BY <1>19 DEF SavePushed, SaveProgress
<1>20. CASE UploadFile
  BY <1>20 DEF UploadFile
<1>21. CASE SaveConfig
  BY <1>21 DEF SaveConfig, ConfigMeansPublished, Backed, Published
<1>22. CASE Relink
  BY <1>22 DEF Relink
<1>23. CASE Verify
  BY <1>23 DEF Verify
<1>24. CASE SaveState
  BY <1>24 DEF SaveState
<1>25. CASE ClearProgress
  BY <1>25 DEF ClearProgress, SaveProgress
<1>26. CASE StartWorker
  BY <1>26 DEF StartWorker, ConfigMeansPublished, Backed, Published
<1>27. CASE FindForUndo
  BY <1>27 DEF FindForUndo, MyDojo, CannotTell
<1>28. CASE CleanLink
  BY <1>28 DEF CleanLink
<1>29. CASE CleanHome
  BY <1>29 DEF CleanHome, RemoveHome, NoHome
<1>30. CASE ForgetSentinel
  BY <1>30 DEF ForgetSentinel
<1>31. CASE RenameToDefault
  BY <1>31 DEF RenameToDefault
<1>32. CASE RemovePointer
  BY <1>32 DEF RemovePointer
<1>33. CASE MoveBack
  BY <1>33 DEF MoveBack
<1>34. CASE UndoHome
  BY <1>34 DEF UndoHome, RemoveHome, NoHome
<1>35. CASE UndoLink
  BY <1>35 DEF UndoLink
<1>36. CASE UNCHANGED vars
  BY <1>36 DEF vars
<1>37. QED
  BY <1>1, <1>2, <1>3, <1>4, <1>5, <1>6, <1>7, <1>8, <1>9, <1>10, <1>11, <1>12, <1>13,
     <1>14, <1>15, <1>16, <1>17, <1>18, <1>19, <1>20, <1>21, <1>22, <1>23, <1>24, <1>25,
     <1>26, <1>27, <1>28, <1>29, <1>30, <1>31, <1>32, <1>33, <1>34, <1>35, <1>36 DEF
     Next, CreateStep, UndoStep

\* The repository is in the workspace at first, and no command is under way.
LEMMA InitInv == Init => Inv
<1> SUFFICES ASSUME Init PROVE Inv
  OBVIOUS
<1>1. TypeOK
  <2>1. NoHome \in Homes
    BY DEF NoHome, Homes
  <2>2. [bare |-> "none", git |-> FALSE, files |-> 0] \in Servers
    BY SetupAssumption DEF Servers
  <2>3. home \in [Dojos -> Homes] /\ server \in [Dojos -> Servers]
    BY <2>1, <2>2 DEF Init
  <2>4. cmd \in [pc : {"idle"} \cup CreatePhases \cup UndoPhases, dojo : Dojos \cup {None}]
    BY DEF Init, Idle
  <2>5. crashes \in 0 .. MaxCrashes /\ commands \in 0 .. MaxCommands
    BY SetupAssumption DEF Init
  <2>6. QED
    BY <2>3, <2>4, <2>5 DEF Init, TypeOK, Homes, Servers
<1>2. RepoKept /\ HasDojo /\ Placed
  BY SetupAssumption DEF Init, RepoKept, HasDojo, Placed, Busy, At, PointsAt,
     Idle, CreatePhases, UndoPhases
<1>3. QED
  BY <1>1, <1>2 DEF Inv

\* ... and nothing is known of the server, nor has anything been cut short.
LEMMA InitInv3 == Init => Inv3
<1> SUFFICES ASSUME Init PROVE Inv3
  OBVIOUS
<1>1. Inv2
  BY InitInv, SetupAssumption DEF Init, Inv2, ConfigMeansPublished, Published, At, Idle, NoHome,
     Backed, Busy, Finishing, CreatePhases, UndoPhases
<1>2. Sound
  BY SetupAssumption DEF Init, Sound, RestsSound, CreateSound, UndoSound, EndsSound, OnlyOf,
     Clean, Plain, Moving, Sending, Finishing, UndoPhases, At, Idle, NoHome
<1>3. QED
  BY <1>1, <1>2 DEF Inv3

\* The invariant holds of every state, whatever is cut short.
THEOREM InvHolds == Spec => []Inv3
<1>1. Inv /\ [Next]_vars => Inv'
  BY TypeStep, RepoStep DEF Inv
<1>2. Inv3 /\ [Next]_vars => Inv3'
  BY <1>1, PublishedStep, SoundStep DEF Inv2, Inv3
<1>3. QED
  BY <1>2, InitInv3, PTL DEF Spec

\* Every variable keeps its type, and one jj workspace is named `default`.
THEOREM TypeCorrect == Spec => []TypeOK
<1>1. Inv3 => TypeOK
  BY DEF Inv, Inv2, Inv3
<1>2. QED
  BY <1>1, InvHolds, PTL

\* For any number of commands and crashes, the repository that create and
\* undojjo move (workspace_lifecycle.rs) is in one place and never removed.
THEOREM RepoKeptHolds == Spec => []RepoKept
<1>1. Inv3 => RepoKept
  BY DEF Inv, Inv2, Inv3
<1>2. QED
  BY <1>1, InvHolds, PTL

\* A dojo that a rerun of create takes for set up (config::config_exists) is
\* published, however many dojos and files there are.
THEOREM ConfigMeansPublishedHolds == Spec => []ConfigMeansPublished
<1>1. Inv3 => ConfigMeansPublished
  BY DEF Inv2, Inv3
<1>2. QED
  BY <1>1, InvHolds, PTL

\* Unless a command was cut short in one of the windows, create never ends with
\* an error, and what it says it created is complete (create.rs's resume).
THEOREM RerunCompletesHolds == Spec => []RerunCompletes
<1>1. Inv3 => RerunCompletes
  BY SetupAssumption DEF Inv3, Inv2, Inv, TypeOK, Sound, EndsSound, RerunCompletes, Promised
<1>2. QED
  BY <1>1, InvHolds, PTL
===============================================================================
