---------------------------- MODULE DockerProjects ----------------------------
(***************************************************************************)
(* The life of the docker compose projects of the remote executor server:  *)
(* DockerExecutor.start_container and cleanup on the threads of the HTTP   *)
(* requests, the SessionStore around them, and DockerComposeManager, whose *)
(* cleanup_all the main thread runs from the signal handler and at exit.   *)
(* The client of each project is a RemoteDockerExecutor, whose calls can   *)
(* be lost, time out while the server goes on, or be answered too late.    *)
(*                                                                         *)
(* The main thread is a stack of frames: a signal handler runs on top of   *)
(* whatever the thread is doing, and its exit(1) unwinds them all, into    *)
(* the finally clause of main and from there into the exit handlers.  The  *)
(* lock of the manager is not reentrant.  Request threads hold it for one  *)
(* step, a frame of the main thread while it is at one of LockedSteps.     *)
(*                                                                         *)
(* Abstractions.  Images are left out.  A docker command succeeds or       *)
(* fails, a timeout being a failure.  /exec and /run_tests change nothing  *)
(* here.  cleanup_all goes through its projects in any order.              *)
(***************************************************************************)
EXTENDS Naturals, Sequences, FiniteSets

CONSTANTS Projects,     \* one for each call of /start
          prebuilt,     \* those whose task names a docker_image
          MaxSignals,   \* bound: how many SIGINT and SIGTERM come
          None          \* no project

ASSUME ProjectsAssumption ==
  prebuilt \subseteq Projects /\ MaxSignals \in Nat /\ None \notin Projects

VARIABLES
  pc,          \* the request threads of each project
  client,      \* its client: "starting", "using" (it has the session_id),
               \* "forgotten" (it has sent /cleanup, with or without an
               \* answer, and cleared it) or "lost" (it never got one)
  container,   \* projects that have containers (docker's state)
  temp_dir,    \* projects whose temporary build directory exists
  active,      \* the keys of _active_containers
  sessions,    \* the sessions of the SessionStore
  main,        \* what the main thread does below its frames
  frames,      \* the cleanup loops on the main thread's stack, top last
  signals,     \* how many signals have come
  (* history *)
  last_down,   \* why the last attempt to bring the project down failed
  late         \* projects registered at exit, behind the last snapshot

requests == <<pc, client>>
process == <<main, frames, signals>>
vars == <<requests, container, temp_dir, active, sessions, process,
          last_down, late>>

Steps == {"acquire", "snapshot", "loop", "down", "unregister", "unregistering"}
LockedSteps == {"snapshot", "unregistering"}

Frame == [of : {"manager", "store"}, handler : BOOLEAN, step : Steps,
          todo : SUBSET Projects, at : Projects \cup {None}]

ManagerFrame(handler) ==
  [of |-> "manager", handler |-> handler, step |-> "acquire", todo |-> {},
   at |-> None]

StoreFrame == [ManagerFrame(FALSE) EXCEPT !.of = "store"]

Init ==
  /\ pc = [p \in Projects |-> "new"]
  /\ client = [p \in Projects |-> "starting"]
  /\ container = {}
  /\ temp_dir = {}
  /\ active = {} /\ sessions = {}
  /\ main = "serve" /\ frames = <<>> /\ signals = 0
  /\ last_down = [p \in Projects |-> "none"] /\ late = {}

(* A bug the code does not have: cleanup_all keeps the lock for its loop.   *)
Locked_InLoop ==
  \E i \in 1..Len(frames) :
     \/ frames[i].step \in LockedSteps
     \/ frames[i].of = "manager" /\ frames[i].step # "acquire"

Locked == \E i \in 1..Len(frames) : frames[i].step \in LockedSteps

-------------------------------------------------------------------------------
(* cleanup_project: docker compose down for p. *)

Down(p) ==
  /\ container' = container \ {p}
  /\ last_down' = [last_down EXCEPT ![p] = "none"]

(* The command fails or times out, and the error is logged. *)
DownFails(p) ==
  /\ last_down' = [last_down EXCEPT ![p] = "failed"]
  /\ UNCHANGED container

(* The directory to run in does not exist: the command never starts. *)
DownCannotStart(p) ==
  /\ last_down' = [last_down EXCEPT ![p] = "no directory"]
  /\ UNCHANGED container

-------------------------------------------------------------------------------
(* The request threads.  They are daemons and end with the process; from   *)
(* "join" on, their thread pool takes no more commands.                    *)

Goes(p, from, to) ==
  /\ main # "exited"
  /\ pc[p] = from
  /\ pc' = [pc EXCEPT ![p] = to]
  /\ UNCHANGED client

PoolOpen == main \in {"serve", "finally", "join"}

(* start_container up to the build.  A directory that _create_temp_docker- *)
(* file leaves when it raises is outside the try: nobody removes it.       *)
Prepare(p) ==
  /\ \/ Goes(p, "new", "prepared") /\ PoolOpen
     \/ Goes(p, "new", "failed")
     \/ Goes(p, "new", "raised") /\ p \notin prebuilt
  /\ temp_dir' = temp_dir \cup ({p} \ prebuilt)
  /\ UNCHANGED <<container, active, sessions, process,
                 last_down, late>>

(* docker compose up -d and ps.  A failure may leave containers behind. *)
Up(p) ==
  /\ \/ /\ Goes(p, "prepared", "up") /\ PoolOpen
        /\ container' = container \cup {p}
     \/ /\ Goes(p, "prepared", "failed")
        /\ container' \in {container,
                            IF PoolOpen THEN container \cup {p} ELSE container}
  /\ UNCHANGED <<temp_dir, active, sessions, process, last_down, late>>

(* register_project *)
Register(p) ==
  /\ Goes(p, "up", "registered") /\ ~Locked
  /\ active' = active \cup {p}
  /\ late' = IF main = "atexit" THEN late \cup {p} ELSE late
  /\ UNCHANGED <<container, temp_dir, sessions, process,
                 last_down>>

(* SessionStore.start after start_container *)
OpenSession(p) ==
  /\ Goes(p, "registered", "session")
  /\ sessions' = sessions \cup {p}
  /\ UNCHANGED <<container, temp_dir, active, process,
                 last_down, late>>

(* A bug the code does not have: the project leaves the manager before it  *)
(* is down.                                                                *)
CloseSession_Unregister(p) ==
  /\ Goes(p, "session", "cleanup") /\ ~Locked
  /\ client[p] = "forgotten"
  /\ p \in sessions
  /\ sessions' = sessions \ {p}
  /\ active' = active \ {p}
  /\ UNCHANGED <<container, temp_dir, process, last_down, late>>

(* A bug the code does not have: the session is looked up, not popped.     *)
CloseSession_Get(p) ==
  /\ Goes(p, "session", "cleanup")
  /\ client[p] = "forgotten"
  /\ p \in sessions
  /\ UNCHANGED <<container, temp_dir, active, sessions, process,
                 last_down, late>>

(* SessionStore.cleanup pops the session; a session that cleanup_all has   *)
(* taken is not cleaned again.                                             *)
CloseSession(p) ==
  /\ Goes(p, "session", "cleanup")
  /\ client[p] = "forgotten"
  /\ p \in sessions
  /\ sessions' = sessions \ {p}
  /\ UNCHANGED <<container, temp_dir, active, process,
                 last_down, late>>

(* DockerExecutor.cleanup, for a session or after a failed start.  Without *)
(* a temporary directory it runs in the task's own, so it has one.         *)
CleanupDown(p) ==
  /\ \E from \in {"cleanup", "failed"} :
        \/ Goes(p, from, "unregister") /\ Down(p)
        \/ Goes(p, from, "rmtree") /\ DownFails(p)
  /\ UNCHANGED <<temp_dir, active, sessions, process, late>>

(* unregister_project *)
Unregister(p) ==
  /\ Goes(p, "unregister", "rmtree") /\ ~Locked
  /\ active' = active \ {p}
  /\ UNCHANGED <<container, temp_dir, sessions, process,
                 last_down, late>>

(* _cleanup_temp_dockerfile, in the finally clause of cleanup *)
Rmtree(p) ==
  /\ Goes(p, "rmtree", "gone")
  /\ temp_dir' = temp_dir \ {p}
  /\ UNCHANGED <<container, active, sessions, process,
                 last_down, late>>

Request(p) ==
  \/ Prepare(p) \/ Up(p) \/ Register(p) \/ OpenSession(p) \/ CloseSession(p)
  \/ CleanupDown(p) \/ Unregister(p) \/ Rmtree(p)

-------------------------------------------------------------------------------
(* The client.  It has sent /start, which may reach the server at any      *)
(* time, or never.                                                         *)

(* A bug the code does not have: /start is answered before the session is  *)
(* stored.                                                                 *)
ClientStarted_Early(p) ==
  /\ client[p] = "starting"
  /\ pc[p] \in {"registered", "session"}
  /\ client' = [client EXCEPT ![p] = "using"]
  /\ UNCHANGED <<pc, container, temp_dir, active, sessions, process,
                 last_down, late>>

(* /start is answered in time. *)
ClientStarted(p) ==
  /\ client[p] = "starting"
  /\ pc[p] = "session"
  /\ client' = [client EXCEPT ![p] = "using"]
  /\ UNCHANGED <<pc, container, temp_dir, active, sessions, process,
                 last_down, late>>

(* /start fails or times out, whatever the server makes of it; cleanup     *)
(* returns at once, and nobody knows the session.                          *)
ClientLost(p) ==
  /\ client[p] = "starting"
  /\ client' = [client EXCEPT ![p] = "lost"]
  /\ UNCHANGED <<pc, container, temp_dir, active, sessions, process,
                 last_down, late>>

(* cleanup sends /cleanup and forgets the session, answered or not.  The   *)
(* call may reach the server at any time, or never.                        *)
ClientCleanup(p) ==
  /\ client[p] = "using"
  /\ client' = [client EXCEPT ![p] = "forgotten"]
  /\ UNCHANGED <<pc, container, temp_dir, active, sessions, process,
                 last_down, late>>

Client(p) == ClientStarted(p) \/ ClientLost(p) \/ ClientCleanup(p)

-------------------------------------------------------------------------------
(* The main thread. *)

Top == frames[Len(frames)]

At(step) == frames # <<>> /\ Top.step = step

(* The top frame changes, and nothing else of the process does. *)
SetTop(frame) ==
  /\ frames' = [frames EXCEPT ![Len(frames)] = frame]
  /\ UNCHANGED <<main, signals>>

(* _signal_handler, for as long as the interpreter runs *)
Signal ==
  /\ main # "exited" /\ signals < MaxSignals
  /\ signals' = signals + 1
  /\ frames' = Append(frames, ManagerFrame(TRUE))
  /\ UNCHANGED <<requests, container, temp_dir, active, sessions,
                 main, last_down, late>>

(* "with self._lock" in cleanup_all of the manager *)
Acquire ==
  /\ At("acquire") /\ Top.of = "manager" /\ ~Locked
  /\ SetTop([Top EXCEPT !.step = "snapshot"])
  /\ UNCHANGED <<requests, container, temp_dir, active, sessions,
                 last_down, late>>

Snapshot ==
  /\ At("snapshot")
  /\ SetTop([Top EXCEPT !.step = "loop", !.todo = active])
  /\ late' = {}
  /\ UNCHANGED <<requests, container, temp_dir, active, sessions,
                 last_down>>

(* A bug the code does not have: the sessions are listed, not cleared. *)
TakeSessions_Listed ==
  /\ At("acquire") /\ Top.of = "store"
  /\ SetTop([Top EXCEPT !.step = "loop", !.todo = sessions])
  /\ UNCHANGED <<requests, container, temp_dir, active, sessions,
                 last_down, late>>

(* cleanup_all of the SessionStore, under a lock no handler asks for *)
TakeSessions ==
  /\ At("acquire") /\ Top.of = "store"
  /\ SetTop([Top EXCEPT !.step = "loop", !.todo = sessions])
  /\ sessions' = {}
  /\ UNCHANGED <<requests, container, temp_dir, active, last_down,
                 late>>

NextProject ==
  /\ At("loop")
  /\ \E p \in Top.todo :
       SetTop([Top EXCEPT !.step = "down", !.todo = @ \ {p}, !.at = p])
  /\ UNCHANGED <<requests, container, temp_dir, active, sessions,
                 last_down, late>>

(* The project of the top frame is done with; DockerExecutor.cleanup, in   *)
(* the store's loop, removes its temporary directory.                      *)
ProjectDone ==
  /\ SetTop([Top EXCEPT !.step = "loop", !.at = None])
  /\ temp_dir' = IF Top.of = "store" THEN temp_dir \ {Top.at} ELSE temp_dir

(* The manager runs in the directory that was registered, which is inside  *)
(* the temporary one if there was one.                                     *)
MainDown ==
  /\ At("down")
  /\ LET p == Top.at
         no_directory == Top.of = "manager" /\ p \notin prebuilt \cup temp_dir
     IN \/ /\ ~no_directory
           /\ Down(p)
           /\ SetTop([Top EXCEPT !.step = "unregister"])
           /\ UNCHANGED temp_dir
        \/ ~no_directory /\ DownFails(p) /\ ProjectDone
        \/ no_directory /\ DownCannotStart(p) /\ ProjectDone
  /\ UNCHANGED <<requests, active, sessions, late>>

MainUnregister ==
  /\ At("unregister") /\ ~Locked
  /\ SetTop([Top EXCEPT !.step = "unregistering"])
  /\ UNCHANGED <<requests, container, temp_dir, active, sessions,
                 last_down, late>>

MainUnregistered ==
  /\ At("unregistering")
  /\ active' = active \ {Top.at}
  /\ ProjectDone
  /\ UNCHANGED <<requests, container, sessions, last_down, late>>

(* What comes after the finally clause, the pool and the exit handlers.    *)
Continue ==
  CASE main = "serve"   -> main' = "finally" /\ frames' = <<StoreFrame>>
    [] main = "finally" -> main' = "join" /\ frames' = <<>>
    [] main = "join"    -> main' = "atexit" /\ frames' = <<ManagerFrame(FALSE)>>
    [] main = "atexit"  -> main' = "exited" /\ frames' = <<>>

(* The end of a loop.  The frame of a handler raises SystemExit, which no  *)
(* except clause on the stack catches: every frame ends, and the finally   *)
(* clauses of DockerExecutor.cleanup run.                                  *)
LoopEnds ==
  /\ At("loop") /\ Top.todo = {}
  /\ Continue
  /\ temp_dir' = temp_dir \ {frames[i].at : i \in {j \in 1..Len(frames) :
                                                    frames[j].of = "store"}}
  /\ UNCHANGED <<requests, container, active, sessions, signals,
                 last_down, late>>

(* threading._shutdown: the commands the pool runs have ended. *)
Joined ==
  /\ main = "join" /\ frames = <<>>
  /\ Continue
  /\ UNCHANGED <<requests, container, temp_dir, active, sessions,
                 signals, last_down, late>>

MainThread ==
  \/ Acquire \/ Snapshot \/ TakeSessions \/ NextProject \/ MainDown
  \/ MainUnregister \/ MainUnregistered \/ LoopEnds \/ Joined

Next == (\E p \in Projects : Request(p) \/ Client(p)) \/ Signal \/ MainThread

Spec == Init /\ [][Next]_vars

(* The main thread goes on when it can; docker commands have timeouts.     *)
FairSpec == Spec /\ WF_vars(MainThread)

-------------------------------------------------------------------------------
TypeOK ==
  /\ pc \in [Projects -> {"new", "prepared", "failed", "raised", "up",
                          "registered", "session", "cleanup", "unregister",
                          "rmtree", "gone"}]
  /\ client \in [Projects -> {"starting", "using", "forgotten", "lost"}]
  /\ container \in SUBSET Projects
  /\ temp_dir \in SUBSET (Projects \ prebuilt)
  /\ active \in SUBSET Projects
  /\ sessions \in SUBSET {p \in Projects : pc[p] = "session"}
  /\ main \in {"serve", "finally", "join", "atexit", "exited"}
  /\ frames \in Seq(Frame)
  /\ signals \in 0..MaxSignals
  /\ last_down \in [Projects -> {"none", "failed", "no directory"}]
  /\ late \in SUBSET Projects

(* Hazard: shutdown, in the middle of requests and of itself.  Whatever    *)
(* the signals interrupt, a container that outlives the server belongs to  *)
(* a start that had not registered it, was registered behind the last      *)
(* snapshot, or resisted an attempt to bring it down.                      *)
LeaksAccountedFor ==
  main = "exited" =>
    \A p \in container :
      \/ pc[p] \in {"up", "failed"}
      \/ p \in late
      \/ last_down[p] \in {"failed", "no directory"}

(* Hazard: /cleanup against shutdown.  A session is cleaned by the request *)
(* that popped it or by the store's cleanup_all, never by both.            *)
CleanedOnce ==
  \A i \in 1..Len(frames) : frames[i].of = "store" =>
    \A p \in frames[i].todo \cup ({frames[i].at} \ {None}) : pc[p] = "session"

(* Hazard: clients that time out while the server goes on, and cleanups    *)
(* that arrive late.  Until the server is told to stop, a client that has  *)
(* a session_id finds its session, its containers, and their project known *)
(* to the manager.                                                         *)
SessionHeld ==
  \A p \in Projects : (client[p] = "using" /\ signals = 0) =>
    p \in sessions \cap container \cap active

(* The inductive invariant behind these.  The projects a cleanup loop has  *)
(* still to do.                                                            *)
Pending(frame) == frame.todo \cup ({frame.at} \ {None})

(* Projects that were registered, or whose start failed, at some time. *)
Known == {p \in Projects : pc[p] \notin {"new", "prepared", "raised", "up"}}

(* A loop works on one project at a time, of those it was given; the       *)
(* store's on sessions that no request can pop any more.                   *)
FrameSound(frame) ==
  /\ frame.step \in {"acquire", "snapshot", "loop"} => frame.at = None
  /\ frame.step \in {"down", "unregister", "unregistering"} => frame.at \in Projects
  /\ frame.step \in {"unregister", "unregistering"} => frame.at \notin container
  /\ Pending(frame) \subseteq Known
  /\ frame.of = "store" =>
       /\ main = "finally" /\ frame.step # "snapshot"
       /\ \A p \in Pending(frame) : pc[p] = "session" /\ p \notin sessions

FramesSound == \A i \in 1..Len(frames) : FrameSound(frames[i])

(* Containers of a project that a request has registered and not yet tried *)
(* to bring down are known to the manager.                                 *)
ProjectSound(p) ==
  /\ p \in active => p \in Known
  /\ client[p] = "using" => pc[p] = "session"
  /\ p \in container =>
       /\ pc[p] \notin {"new", "prepared", "raised", "unregister"}
       /\ pc[p] \in {"registered", "session", "cleanup"} => p \in active
       /\ pc[p] \in {"rmtree", "gone"} => last_down[p] # "none"

ProjectsSound == \A p \in Projects : ProjectSound(p)

(* Before the first signal nothing but its own requests touches a project. *)
QuietProject(p) ==
  /\ pc[p] \in {"up", "registered", "session"} => p \in container
  /\ pc[p] \in {"registered", "session"} => p \in active
  /\ pc[p] = "session" => p \in sessions

QuietSound ==
  signals = 0 =>
    main = "serve" /\ frames = <<>> /\ \A p \in Projects : QuietProject(p)

(* A container that LeaksAccountedFor allows. *)
Accounted(p) ==
  pc[p] \in {"up", "failed"} \/ p \in late \/ last_down[p] # "none"

(* At exit: what a loop has taken over is accounted for, or still to be    *)
(* done by it, or by one that has interrupted it.                          *)
ExitSound ==
  /\ main = "atexit" =>
       \A i \in 1..Len(frames) : frames[i].step \notin {"acquire", "snapshot"} =>
         \A p \in container :
           Accounted(p) \/ \E j \in i..Len(frames) : p \in Pending(frames[j])
  /\ main = "exited" => frames = <<>> /\ \A p \in container : Accounted(p)

IInv == TypeOK /\ FramesSound /\ ProjectsSound /\ QuietSound /\ ExitSound

(* A frame waits for the lock that a frame below it holds. *)
SelfDeadlock ==
  \E i, j \in 1..Len(frames) :
    /\ i < j
    /\ frames[i].step \in LockedSteps
    /\ frames[j].of = "manager" /\ frames[j].step = "acquire"

(* Hazard: the handler takes the lock, and takes it again for each project *)
(* it has brought down; request threads take it too.  A signal ends the    *)
(* server, unless another one comes in the few lines where the main thread *)
(* itself is inside the lock.                                              *)
ShutdownEndsOrDeadlocks == (signals > 0) ~> (main = "exited" \/ SelfDeadlock)

(* docker_manager.py:54, "Setup cleanup handlers for graceful shutdown":   *)
(* a server that got a signal exits.                                       *)
ShutdownEnds == (signals > 0) ~> (main = "exited")

(* docker_manager.py:147, "Clean up all registered docker-compose          *)
(* projects": one that is left over had its docker compose down fail.      *)
CleansUpAllRegistered ==
  main = "exited" =>
    \A p \in (active \cap container) \ late : last_down[p] = "failed"

===============================================================================
