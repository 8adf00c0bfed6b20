------------------------- MODULE DockerProjectsProofs -------------------------
(***************************************************************************)
(* The compose projects of the executor server, for every set of projects  *)
(* and any number of signals, at whatever step of the main thread they     *)
(* come.                                                                   *)
(***************************************************************************)
EXTENDS DockerProjects, SequenceTheorems, TLAPS

USE ProjectsAssumption

-------------------------------------------------------------------------------
(* Frames. *)

LEMMA NewFrames ==
  /\ \A handler \in BOOLEAN :
       /\ ManagerFrame(handler) \in Frame /\ ManagerFrame(handler).of = "manager"
       /\ ManagerFrame(handler).step = "acquire" /\ ManagerFrame(handler).todo = {}
       /\ ManagerFrame(handler).at = None
  /\ StoreFrame \in Frame /\ StoreFrame.of = "store" /\ StoreFrame.step = "acquire"
  /\ StoreFrame.todo = {} /\ StoreFrame.at = None
BY DEF ManagerFrame, StoreFrame, Frame, Steps

LEMMA OneFrame ==
  ASSUME NEW f \in Frame
  PROVE  <<f>> \in Seq(Frame) /\ Len(<<f>>) = 1 /\ \A i \in 1..Len(<<f>>) : <<f>>[i] = f
OBVIOUS

LEMMA NoFrames == <<>> \in Seq(Frame) /\ Len(<<>>) = 0 /\ 1..Len(<<>>) = {}
OBVIOUS

(* The fields of a frame of the right shape. *)
LEMMA FrameFields ==
  ASSUME NEW f \in Frame
  PROVE  /\ f.of \in {"manager", "store"} /\ f.step \in Steps
         /\ f.todo \in SUBSET Projects /\ f.at \in Projects \cup {None}
         /\ Pending(f) \subseteq Projects
BY DEF Frame, Pending

LEMMA TopFrame ==
  ASSUME frames \in Seq(Frame), frames # <<>>
  PROVE  /\ Len(frames) \in Nat /\ Len(frames) \in 1..Len(frames)
         /\ Top = frames[Len(frames)] /\ Top \in Frame
<1>1. Len(frames) \in Nat /\ Len(frames) # 0
  BY EmptySeq
<1>. QED
  BY <1>1 DEF Top

(* A new top frame leaves the others alone. *)
LEMMA ReplacedTop ==
  ASSUME frames \in Seq(Frame), frames # <<>>, NEW f \in Frame,
         frames' = [frames EXCEPT ![Len(frames)] = f]
  PROVE  /\ frames' \in Seq(Frame) /\ Len(frames') = Len(frames)
         /\ frames'[Len(frames)] = f
         /\ \A i \in 1..Len(frames) : i # Len(frames) => frames'[i] = frames[i]
<1>1. Len(frames) \in Nat /\ Len(frames) \in 1..Len(frames)
  BY TopFrame
<1>. QED
  BY <1>1

-------------------------------------------------------------------------------
(* Steps of one project that leave the main thread alone. *)

(* Nothing of project q changes. *)
Untouched(q) ==
  /\ UNCHANGED <<pc[q], client[q], last_down[q]>>
  /\ q \in container' <=> q \in container
  /\ q \in active' <=> q \in active
  /\ q \in sessions' <=> q \in sessions
  /\ q \in late' <=> q \in late

LEMMA UntouchedSound ==
  ASSUME NEW q \in Projects, Untouched(q)
  PROVE  /\ ProjectSound(q)' <=> ProjectSound(q)
         /\ QuietProject(q)' <=> QuietProject(q)
         /\ Accounted(q)' <=> Accounted(q)
         /\ q \in Known' <=> q \in Known
<1>1. q \in Known' <=> q \in Known
  BY DEF Untouched, Known
<1>2. ProjectSound(q)' <=> ProjectSound(q)
  BY <1>1 DEF Untouched, ProjectSound
<1>3. QuietProject(q)' <=> QuietProject(q)
  BY DEF Untouched, QuietProject
<1>4. Accounted(q)' <=> Accounted(q)
  BY DEF Untouched, Accounted
<1>. QED
  BY <1>1, <1>2, <1>3, <1>4

(* What a step of p has to respect so that the loops of the main thread    *)
(* stay sound: p stays known, a known p gets no new containers, and a      *)
(* session that a loop has taken is left to it.                            *)
LoopsRespected(p) ==
  /\ p \in Known => p \in Known' /\ (p \in container' => p \in container)
  /\ pc[p] = "session" /\ p \notin sessions => pc'[p] = "session" /\ p \notin sessions'

LEMMA FrameKept ==
  ASSUME NEW f \in Frame, FrameSound(f), main' = main,
         \A q \in Projects : LoopsRespected(q)
  PROVE  FrameSound(f)'
<1>1. Pending(f) \subseteq Known /\ Known \subseteq Projects /\ Pending(f)' = Pending(f)
  BY DEF FrameSound, Known, Pending
<1>2. Pending(f) \subseteq Known'
  BY <1>1 DEF LoopsRespected
<1>3. f.step \in {"unregister", "unregistering"} => f.at \notin container'
  <2> SUFFICES ASSUME f.step \in {"unregister", "unregistering"} PROVE f.at \notin container'
    OBVIOUS
  <2>1. f.at \in Projects /\ f.at \notin container /\ f.at \in Pending(f)
    BY DEF FrameSound, Pending
  <2>. QED
    BY <1>1, <2>1 DEF LoopsRespected
<1>4. \A q \in Pending(f) : /\ pc[q] = "session" /\ q \notin sessions
                             => pc'[q] = "session" /\ q \notin sessions'
  BY <1>1 DEF LoopsRespected
<1>. QED
  BY <1>1, <1>2, <1>3, <1>4 DEF FrameSound

(* A step of one project, of a request or a client, keeps the invariant if *)
(* it does so for the project and respects the loops.                      *)
LEMMA ProjectStep ==
  ASSUME IInv, TypeOK', NEW p \in Projects,
         UNCHANGED process,
         \A q \in Projects \ {p} : Untouched(q),
         LoopsRespected(p), ProjectSound(p)',
         signals = 0 => QuietProject(p)',
         main = "atexit" /\ p \in container' =>
           Accounted(p)' \/ (p \in container /\ ~Accounted(p)),
         main = "exited" /\ p \in container' => Accounted(p)'
  PROVE  IInv'
<1>1. UNCHANGED <<main, frames, signals>>
  BY DEF process
<1>2. FramesSound'
  <2>1. \A q \in Projects : LoopsRespected(q)
    <3> SUFFICES ASSUME NEW q \in Projects, q # p PROVE LoopsRespected(q)
      OBVIOUS
    <3>1. Untouched(q)
      OBVIOUS
    <3>. QED
      BY <3>1, UntouchedSound DEF Untouched, LoopsRespected
  <2>2. ASSUME NEW i \in 1..Len(frames) PROVE FrameSound(frames[i])'
    <3>. frames \in Seq(Frame)
      BY DEF IInv, TypeOK
    <3>1. frames[i] \in Frame /\ frames'[i] = frames[i]
      BY <1>1
    <3>2. PICK f \in Frame : f = frames[i] /\ f = frames'[i]
      BY <3>1
    <3>3. FrameSound(f)
      BY <1>1, <3>2 DEF IInv, FramesSound
    <3>4. FrameSound(f)'
      BY <1>1, <2>1, <3>3, FrameKept
    <3>. QED
      BY <3>2, <3>4
  <2>. QED
    BY <1>1, <2>2 DEF FramesSound
<1>3. ProjectsSound'
  <2> SUFFICES ASSUME NEW q \in Projects, q # p PROVE ProjectSound(q)'
    BY DEF ProjectsSound
  <2>. QED
    BY UntouchedSound DEF IInv, ProjectsSound
<1>4. QuietSound'
  <2> SUFFICES ASSUME signals = 0, NEW q \in Projects, q # p PROVE QuietProject(q)'
    BY <1>1 DEF IInv, QuietSound
  <2>. QED
    BY UntouchedSound DEF IInv, QuietSound
<1>5. ExitSound'
  <2>1. ASSUME NEW q \in Projects, q # p
        PROVE  /\ Accounted(q)' <=> Accounted(q)
               /\ q \in container' => q \in container
    <3>1. Untouched(q)
      BY <2>1
    <3>. QED
      BY <3>1, UntouchedSound DEF Untouched
  <2>2. container' \subseteq Projects
    BY DEF TypeOK
  <2>3. ASSUME main = "atexit", NEW i \in 1..Len(frames),
               frames[i].step \notin {"acquire", "snapshot"}, NEW q \in container'
        PROVE  Accounted(q)' \/ \E j \in i..Len(frames) : q \in Pending(frames[j])
    <3>1. Accounted(q)' \/ (q \in container /\ ~Accounted(q))
      <4>1. CASE q = p
        BY <2>3, <4>1
      <4>2. CASE q # p
        <5>1. q \in Projects /\ q \in container'
          BY <2>2, <2>3
        <5>2. (Accounted(q)' <=> Accounted(q)) /\ q \in container
          BY <2>1, <4>2, <5>1
        <5>. QED
          BY <5>2
      <4>. QED
        BY <4>1, <4>2
    <3>2. q \in container =>
            Accounted(q) \/ \E j \in i..Len(frames) : q \in Pending(frames[j])
      BY <2>3 DEF IInv, ExitSound
    <3>. QED
      BY <3>1, <3>2
  <2>4. ASSUME main = "exited", NEW q \in container' PROVE Accounted(q)'
    <3>1. CASE q = p
      BY <2>4, <3>1
    <3>2. CASE q # p
      <4>1. q \in Projects /\ q \in container'
        BY <2>2, <2>4
      <4>2. q \in container /\ (Accounted(q)' <=> Accounted(q))
        BY <2>1, <3>2, <4>1
      <4>. QED
        BY <2>4, <4>2 DEF IInv, ExitSound
    <3>. QED
      BY <3>1, <3>2
  <2>5. main = "exited" => frames' = <<>>
    BY <1>1 DEF IInv, ExitSound
  <2>6. \A j \in 1..Len(frames) : Pending(frames'[j]) = Pending(frames[j])
    BY <1>1
  <2>. QED
    BY <1>1, <2>3, <2>4, <2>5 DEF ExitSound, Pending
<1>. QED
  BY <1>2, <1>3, <1>4, <1>5 DEF IInv

-------------------------------------------------------------------------------
(* Requests and clients. *)

RequestSteps == {"new", "prepared", "failed", "raised", "up", "registered",
                 "session", "cleanup", "unregister", "rmtree", "gone"}

(* A request thread goes on to its next step. *)
LEMMA NextStep ==
  ASSUME TypeOK, NEW p \in Projects, NEW from, NEW to \in RequestSteps,
         Goes(p, from, to)
  PROVE  /\ pc[p] = from /\ pc'[p] = to /\ main # "exited"
         /\ pc' \in [Projects -> RequestSteps] /\ client' = client
         /\ \A q \in Projects : q # p => pc'[q] = pc[q]
BY DEF Goes, TypeOK, RequestSteps

LEMMA PrepareInv == ASSUME IInv, NEW p \in Projects, Prepare(p) PROVE IInv'
<1>1. PICK to \in {"prepared", "failed", "raised"} : Goes(p, "new", to)
  BY DEF Prepare
<1>2. /\ pc[p] = "new" /\ pc'[p] = to /\ main # "exited"
      /\ pc' \in [Projects -> RequestSteps] /\ client' = client
      /\ \A q \in Projects : q # p => pc'[q] = pc[q]
  BY <1>1, NextStep DEF IInv, RequestSteps
<1>3. /\ temp_dir' = temp_dir \cup ({p} \ prebuilt)
      /\ UNCHANGED <<container, active, sessions, process, last_down, late>>
  BY DEF Prepare
<1>4. TypeOK'
  <2>1. sessions' \in SUBSET {q \in Projects : pc'[q] = "session"}
    BY <1>2, <1>3 DEF IInv, TypeOK
  <2>2. temp_dir' \in SUBSET (Projects \ prebuilt)
    BY <1>3 DEF IInv, TypeOK
  <2>. QED
    BY <1>2, <1>3, <2>1, <2>2 DEF IInv, TypeOK, process, RequestSteps
<1>5. \A q \in Projects \ {p} : Untouched(q)
  BY <1>2, <1>3 DEF Untouched
<1>6. ProjectSound(p)
  BY DEF IInv, ProjectsSound
<1>7. LoopsRespected(p)
  BY <1>2 DEF LoopsRespected, Known
<1>8. ProjectSound(p)' /\ p \notin container'
  BY <1>2, <1>3, <1>6 DEF ProjectSound, Known
<1>9. signals = 0 => QuietProject(p)'
  BY <1>2 DEF QuietProject
<1>. QED
  BY <1>2, <1>3, <1>4, <1>5, <1>7, <1>8, <1>9, ProjectStep

LEMMA UpInv == ASSUME IInv, NEW p \in Projects, Up(p) PROVE IInv'
<1>1. PICK to \in {"up", "failed"} :
        /\ Goes(p, "prepared", to)
        /\ container' \in {container, container \cup {p}}
        /\ to = "up" => container' = container \cup {p}
  BY DEF Up
<1>2. /\ pc[p] = "prepared" /\ pc'[p] = to /\ main # "exited"
      /\ pc' \in [Projects -> RequestSteps] /\ client' = client
      /\ \A q \in Projects : q # p => pc'[q] = pc[q]
  BY <1>1, NextStep DEF IInv, RequestSteps
<1>3. /\ container' \in {container, container \cup {p}}
      /\ to = "up" => container' = container \cup {p}
      /\ UNCHANGED <<temp_dir, active, sessions, process, last_down, late>>
  BY <1>1 DEF Up
<1>4. TypeOK'
  <2>1. sessions' \in SUBSET {q \in Projects : pc'[q] = "session"}
    BY <1>2, <1>3 DEF IInv, TypeOK
  <2>2. container' \in SUBSET Projects
    BY <1>3 DEF IInv, TypeOK
  <2>. QED
    BY <1>2, <1>3, <2>1, <2>2 DEF IInv, TypeOK, process, RequestSteps
<1>5. \A q \in Projects \ {p} : Untouched(q)
  BY <1>2, <1>3 DEF Untouched, IInv, TypeOK
<1>6. ProjectSound(p) /\ (signals = 0 => QuietProject(p))
  BY DEF IInv, ProjectsSound, QuietSound
<1>7. LoopsRespected(p)
  BY <1>2, <1>3 DEF LoopsRespected, Known
<1>8. ProjectSound(p)'
  BY <1>2, <1>3, <1>6 DEF ProjectSound, Known, IInv, TypeOK
<1>9. signals = 0 => QuietProject(p)'
  BY <1>2, <1>3, <1>6 DEF QuietProject
<1>10. main = "atexit" /\ p \in container' =>
         Accounted(p)' \/ (p \in container /\ ~Accounted(p))
  BY <1>2, <1>3, <1>6 DEF Accounted, ProjectSound, IInv, TypeOK
<1>. QED
  BY <1>2, <1>3, <1>4, <1>5, <1>7, <1>8, <1>9, <1>10, ProjectStep

LEMMA RegisterInv == ASSUME IInv, NEW p \in Projects, Register(p) PROVE IInv'
<1>1. Goes(p, "up", "registered")
  BY DEF Register
<1>2. /\ pc[p] = "up" /\ pc'[p] = "registered" /\ main # "exited"
      /\ pc' \in [Projects -> RequestSteps] /\ client' = client
      /\ \A q \in Projects : q # p => pc'[q] = pc[q]
  BY <1>1, NextStep DEF IInv, RequestSteps
<1>3. /\ active' = active \cup {p} /\ late' = IF main = "atexit" THEN late \cup {p} ELSE late
      /\ UNCHANGED <<container, temp_dir, sessions, process, last_down>>
  BY <1>2 DEF Register
<1>4. TypeOK'
  <2>1. sessions' \in SUBSET {q \in Projects : pc'[q] = "session"}
    BY <1>2, <1>3 DEF IInv, TypeOK
  <2>2. active' \in SUBSET Projects /\ late' \in SUBSET Projects
    BY <1>3 DEF IInv, TypeOK
  <2>. QED
    BY <1>2, <1>3, <2>1, <2>2 DEF IInv, TypeOK, process, RequestSteps
<1>5. \A q \in Projects \ {p} : Untouched(q)
  BY <1>2, <1>3 DEF Untouched, IInv, TypeOK
<1>6. ProjectSound(p) /\ (signals = 0 => QuietProject(p))
  BY DEF IInv, ProjectsSound, QuietSound
<1>7. LoopsRespected(p)
  BY <1>2, <1>3 DEF LoopsRespected, Known
<1>8. ProjectSound(p)'
  BY <1>2, <1>3, <1>6 DEF ProjectSound, Known, IInv, TypeOK
<1>9. signals = 0 => QuietProject(p)'
  BY <1>2, <1>3, <1>6 DEF QuietProject
<1>10. main = "atexit" /\ p \in container' =>
         Accounted(p)' \/ (p \in container /\ ~Accounted(p))
  BY <1>2, <1>3, <1>6 DEF Accounted, ProjectSound, IInv, TypeOK
<1>. QED
  BY <1>2, <1>3, <1>4, <1>5, <1>7, <1>8, <1>9, <1>10, ProjectStep

LEMMA OpenSessionInv == ASSUME IInv, NEW p \in Projects, OpenSession(p) PROVE IInv'
<1>1. Goes(p, "registered", "session")
  BY DEF OpenSession
<1>2. /\ pc[p] = "registered" /\ pc'[p] = "session" /\ main # "exited"
      /\ pc' \in [Projects -> RequestSteps] /\ client' = client
      /\ \A q \in Projects : q # p => pc'[q] = pc[q]
  BY <1>1, NextStep DEF IInv, RequestSteps
<1>3. /\ sessions' = sessions \cup {p}
      /\ UNCHANGED <<container, temp_dir, active, process, last_down, late>>
  BY <1>2 DEF OpenSession
<1>4. TypeOK'
  <2>1. sessions' \in SUBSET {q \in Projects : pc'[q] = "session"}
    BY <1>2, <1>3 DEF IInv, TypeOK
  <2>. QED
    BY <1>2, <1>3, <2>1 DEF IInv, TypeOK, process, RequestSteps
<1>5. \A q \in Projects \ {p} : Untouched(q)
  BY <1>2, <1>3 DEF Untouched, IInv, TypeOK
<1>6. ProjectSound(p) /\ (signals = 0 => QuietProject(p))
  BY DEF IInv, ProjectsSound, QuietSound
<1>7. LoopsRespected(p)
  BY <1>2, <1>3 DEF LoopsRespected, Known
<1>8. ProjectSound(p)'
  BY <1>2, <1>3, <1>6 DEF ProjectSound, Known, IInv, TypeOK
<1>9. signals = 0 => QuietProject(p)'
  BY <1>2, <1>3, <1>6 DEF QuietProject
<1>10. main = "atexit" /\ p \in container' =>
         Accounted(p)' \/ (p \in container /\ ~Accounted(p))
  BY <1>2, <1>3, <1>6 DEF Accounted, ProjectSound, IInv, TypeOK
<1>. QED
  BY <1>2, <1>3, <1>4, <1>5, <1>7, <1>8, <1>9, <1>10, ProjectStep

LEMMA CloseSessionInv == ASSUME IInv, NEW p \in Projects, CloseSession(p) PROVE IInv'
<1>1. Goes(p, "session", "cleanup") /\ p \in sessions /\ client[p] = "forgotten"
  BY DEF CloseSession
<1>2. /\ pc[p] = "session" /\ pc'[p] = "cleanup" /\ main # "exited"
      /\ pc' \in [Projects -> RequestSteps] /\ client' = client
      /\ \A q \in Projects : q # p => pc'[q] = pc[q]
  BY <1>1, NextStep DEF IInv, RequestSteps
<1>3. /\ sessions' = sessions \ {p}
      /\ UNCHANGED <<container, temp_dir, active, process, last_down, late>>
  BY <1>2 DEF CloseSession
<1>4. TypeOK'
  <2>1. sessions' \in SUBSET {q \in Projects : pc'[q] = "session"}
    BY <1>2, <1>3 DEF IInv, TypeOK
  <2>. QED
    BY <1>2, <1>3, <2>1 DEF IInv, TypeOK, process, RequestSteps
<1>5. \A q \in Projects \ {p} : Untouched(q)
  BY <1>2, <1>3 DEF Untouched, IInv, TypeOK
<1>6. ProjectSound(p) /\ (signals = 0 => QuietProject(p))
  BY DEF IInv, ProjectsSound, QuietSound
<1>7. LoopsRespected(p)
  BY <1>1, <1>2, <1>3 DEF LoopsRespected, Known
<1>8. ProjectSound(p)'
  BY <1>1, <1>2, <1>3, <1>6 DEF ProjectSound, Known, IInv, TypeOK
<1>9. signals = 0 => QuietProject(p)'
  BY <1>2, <1>3, <1>6 DEF QuietProject
<1>10. main = "atexit" /\ p \in container' =>
         Accounted(p)' \/ (p \in container /\ ~Accounted(p))
  BY <1>2, <1>3, <1>6 DEF Accounted, ProjectSound, IInv, TypeOK
<1>. QED
  BY <1>2, <1>3, <1>4, <1>5, <1>7, <1>8, <1>9, <1>10, ProjectStep

LEMMA UnregisterInv == ASSUME IInv, NEW p \in Projects, Unregister(p) PROVE IInv'
<1>1. Goes(p, "unregister", "rmtree")
  BY DEF Unregister
<1>2. /\ pc[p] = "unregister" /\ pc'[p] = "rmtree" /\ main # "exited"
      /\ pc' \in [Projects -> RequestSteps] /\ client' = client
      /\ \A q \in Projects : q # p => pc'[q] = pc[q]
  BY <1>1, NextStep DEF IInv, RequestSteps
<1>3. /\ active' = active \ {p}
      /\ UNCHANGED <<container, temp_dir, sessions, process, last_down, late>>
  BY <1>2 DEF Unregister
<1>4. TypeOK'
  <2>1. sessions' \in SUBSET {q \in Projects : pc'[q] = "session"}
    BY <1>2, <1>3 DEF IInv, TypeOK
  <2>2. active' \in SUBSET Projects
    BY <1>3 DEF IInv, TypeOK
  <2>. QED
    BY <1>2, <1>3, <2>1, <2>2 DEF IInv, TypeOK, process, RequestSteps
<1>5. \A q \in Projects \ {p} : Untouched(q)
  BY <1>2, <1>3 DEF Untouched, IInv, TypeOK
<1>6. ProjectSound(p) /\ (signals = 0 => QuietProject(p))
  BY DEF IInv, ProjectsSound, QuietSound
<1>7. LoopsRespected(p)
  BY <1>2, <1>3 DEF LoopsRespected, Known
<1>8. ProjectSound(p)'
  BY <1>2, <1>3, <1>6 DEF ProjectSound, Known, IInv, TypeOK
<1>9. signals = 0 => QuietProject(p)'
  BY <1>2, <1>3, <1>6 DEF QuietProject
<1>10. main = "atexit" /\ p \in container' =>
         Accounted(p)' \/ (p \in container /\ ~Accounted(p))
  BY <1>2, <1>3, <1>6 DEF Accounted, ProjectSound, IInv, TypeOK
<1>. QED
  BY <1>2, <1>3, <1>4, <1>5, <1>7, <1>8, <1>9, <1>10, ProjectStep

LEMMA RmtreeInv == ASSUME IInv, NEW p \in Projects, Rmtree(p) PROVE IInv'
<1>1. Goes(p, "rmtree", "gone")
  BY DEF Rmtree
<1>2. /\ pc[p] = "rmtree" /\ pc'[p] = "gone" /\ main # "exited"
      /\ pc' \in [Projects -> RequestSteps] /\ client' = client
      /\ \A q \in Projects : q # p => pc'[q] = pc[q]
  BY <1>1, NextStep DEF IInv, RequestSteps
<1>3. /\ temp_dir' = temp_dir \ {p}
      /\ UNCHANGED <<container, active, sessions, process, last_down, late>>
  BY <1>2 DEF Rmtree
<1>4. TypeOK'
  <2>1. sessions' \in SUBSET {q \in Projects : pc'[q] = "session"}
    BY <1>2, <1>3 DEF IInv, TypeOK
  <2>2. temp_dir' \in SUBSET (Projects \ prebuilt)
    BY <1>3 DEF IInv, TypeOK
  <2>. QED
    BY <1>2, <1>3, <2>1, <2>2 DEF IInv, TypeOK, process, RequestSteps
<1>5. \A q \in Projects \ {p} : Untouched(q)
  BY <1>2, <1>3 DEF Untouched, IInv, TypeOK
<1>6. ProjectSound(p) /\ (signals = 0 => QuietProject(p))
  BY DEF IInv, ProjectsSound, QuietSound
<1>7. LoopsRespected(p)
  BY <1>2, <1>3 DEF LoopsRespected, Known
<1>8. ProjectSound(p)'
  BY <1>2, <1>3, <1>6 DEF ProjectSound, Known, IInv, TypeOK
<1>9. signals = 0 => QuietProject(p)'
  BY <1>2, <1>3, <1>6 DEF QuietProject
<1>10. main = "atexit" /\ p \in container' =>
         Accounted(p)' \/ (p \in container /\ ~Accounted(p))
  BY <1>2, <1>3, <1>6 DEF Accounted, ProjectSound, IInv, TypeOK
<1>. QED
  BY <1>2, <1>3, <1>4, <1>5, <1>7, <1>8, <1>9, <1>10, ProjectStep

(* docker compose down has succeeded, or not. *)
LEMMA CleanupDownInv == ASSUME IInv, NEW p \in Projects, CleanupDown(p) PROVE IInv'
<1>1. PICK from \in {"cleanup", "failed"} :
        \/ Goes(p, from, "unregister") /\ Down(p)
        \/ Goes(p, from, "rmtree") /\ DownFails(p)
  BY DEF CleanupDown
<1>2. /\ pc[p] = from /\ pc'[p] \in {"unregister", "rmtree"} /\ main # "exited"
      /\ pc' \in [Projects -> RequestSteps] /\ client' = client
      /\ \A q \in Projects : q # p => pc'[q] = pc[q]
  BY <1>1, NextStep DEF IInv, RequestSteps
<1>3. /\ last_down' \in [Projects -> {"none", "failed", "no directory"}]
      /\ \A q \in Projects : q # p => last_down'[q] = last_down[q]
      /\ \/ pc'[p] = "unregister" /\ container' = container \ {p}
         \/ pc'[p] = "rmtree" /\ container' = container /\ last_down'[p] = "failed"
      /\ UNCHANGED <<temp_dir, active, sessions, process, late>>
  <2>1. last_down \in [Projects -> {"none", "failed", "no directory"}]
    BY DEF IInv, TypeOK
  <2>2. UNCHANGED <<temp_dir, active, sessions, process, late>>
    BY DEF CleanupDown
  <2>3. CASE Goes(p, from, "unregister") /\ Down(p)
    <3>1. pc'[p] = "unregister"
      BY <2>3, NextStep DEF IInv, RequestSteps
    <3>. QED
      BY <2>1, <2>2, <2>3, <3>1 DEF Down
  <2>4. CASE Goes(p, from, "rmtree") /\ DownFails(p)
    <3>1. pc'[p] = "rmtree"
      BY <2>4, NextStep DEF IInv, RequestSteps
    <3>. QED
      BY <2>1, <2>2, <2>4, <3>1 DEF DownFails
  <2>. QED
    BY <1>1, <2>3, <2>4
<1>4. TypeOK'
  <2>1. sessions' \in SUBSET {q \in Projects : pc'[q] = "session"}
    BY <1>2, <1>3 DEF IInv, TypeOK
  <2>2. container' \in SUBSET Projects
    BY <1>3 DEF IInv, TypeOK
  <2>. QED
    BY <1>2, <1>3, <2>1, <2>2 DEF IInv, TypeOK, process, RequestSteps
<1>5. \A q \in Projects \ {p} : Untouched(q)
  BY <1>2, <1>3 DEF Untouched, IInv, TypeOK
<1>6. ProjectSound(p) /\ (signals = 0 => QuietProject(p))
  BY DEF IInv, ProjectsSound, QuietSound
<1>7. LoopsRespected(p)
  BY <1>2, <1>3 DEF LoopsRespected, Known
<1>8. ProjectSound(p)'
  BY <1>2, <1>3, <1>6 DEF ProjectSound, Known, IInv, TypeOK
<1>9. signals = 0 => QuietProject(p)'
  BY <1>2, <1>3, <1>6 DEF QuietProject
<1>10. main = "atexit" /\ p \in container' =>
         Accounted(p)' \/ (p \in container /\ ~Accounted(p))
  BY <1>2, <1>3, <1>6 DEF Accounted, ProjectSound, IInv, TypeOK
<1>. QED
  BY <1>2, <1>3, <1>4, <1>5, <1>7, <1>8, <1>9, <1>10, ProjectStep

LEMMA ClientInv == ASSUME IInv, NEW p \in Projects, Client(p) PROVE IInv'
<1>1. PICK to \in {"using", "forgotten", "lost"} :
        /\ client' = [client EXCEPT ![p] = to]
        /\ to = "using" => pc[p] = "session"
  BY DEF Client, ClientStarted, ClientLost, ClientCleanup
<1>2. UNCHANGED <<pc, container, temp_dir, active, sessions, process, last_down, late>>
  BY DEF Client, ClientStarted, ClientLost, ClientCleanup
<1>3. TypeOK'
  <2>1. client' \in [Projects -> {"starting", "using", "forgotten", "lost"}]
    BY <1>1 DEF IInv, TypeOK
  <2>. QED
    BY <1>2, <2>1 DEF IInv, TypeOK, process
<1>4. client'[p] = to /\ \A q \in Projects : q # p => client'[q] = client[q]
  BY <1>1 DEF IInv, TypeOK
<1>5. \A q \in Projects \ {p} : Untouched(q)
  BY <1>2, <1>4 DEF Untouched
<1>6. ProjectSound(p) /\ (signals = 0 => QuietProject(p))
  BY DEF IInv, ProjectsSound, QuietSound
<1>7. LoopsRespected(p)
  BY <1>2 DEF LoopsRespected, Known
<1>8. ProjectSound(p)'
  BY <1>1, <1>2, <1>4, <1>6 DEF ProjectSound, Known
<1>9. signals = 0 => QuietProject(p)'
  BY <1>2, <1>6 DEF QuietProject
<1>10. Accounted(p)' <=> Accounted(p)
  BY <1>2 DEF Accounted
<1>11. main = "exited" /\ p \in container => Accounted(p)
  BY DEF IInv, ExitSound
<1>. QED
  BY <1>2, <1>3, <1>5, <1>7, <1>8, <1>9, <1>10, <1>11, ProjectStep

LEMMA RequestInv == ASSUME IInv, NEW p \in Projects, Request(p) PROVE IInv'
BY PrepareInv, UpInv, RegisterInv, OpenSessionInv, CloseSessionInv, CleanupDownInv,
   UnregisterInv, RmtreeInv DEF Request

-------------------------------------------------------------------------------
(* The main thread. *)

(* Main-thread steps that leave the frames below the top alone. *)
LEMMA ShrunkFrame ==
  ASSUME NEW f \in Frame, FrameSound(f), UNCHANGED <<main, pc>>,
         container' \subseteq container, sessions' \subseteq sessions
  PROVE  FrameSound(f)'
<1>1. Known' = Known /\ Pending(f)' = Pending(f)
  BY DEF Known, Pending
<1>. QED
  BY <1>1 DEF FrameSound

(* Where the main thread is while a frame is on its stack. *)
LEMMA Busy ==
  ASSUME IInv, frames # <<>>
  PROVE  /\ signals # 0 /\ main \in {"serve", "finally", "join", "atexit"}
         /\ frames \in Seq(Frame) /\ Top \in Frame /\ FrameSound(Top)
<1>1. frames \in Seq(Frame) /\ main \in {"serve", "finally", "join", "atexit", "exited"}
  BY DEF IInv, TypeOK
<1>2. signals # 0 /\ main # "exited"
  BY DEF IInv, QuietSound, ExitSound
<1>3. /\ Len(frames) \in 1..Len(frames) /\ Top = frames[Len(frames)] /\ Top \in Frame
  BY <1>1, TopFrame
<1>4. FrameSound(Top)
  BY <1>3 DEF IInv, FramesSound
<1>. QED
  BY <1>1, <1>2, <1>3, <1>4

(* The top frame becomes f.  Behind its snapshot, what containers are left *)
(* at exit have to be accounted for or pending in f.                       *)
LEMMA TopStep ==
  ASSUME IInv, TypeOK', frames # <<>>, NEW f \in Frame,
         frames' = [frames EXCEPT ![Len(frames)] = f],
         UNCHANGED <<requests, main, signals>>,
         container' \subseteq container, sessions' \subseteq sessions,
         FrameSound(f)', ProjectsSound',
         main = "atexit" =>
           \/ \A p \in container' : Accounted(p)' \/ p \in Pending(f)
           \/ /\ f.step \in {"acquire", "snapshot"}
              /\ Pending(Top) \subseteq Pending(f) 
              /\ \A p \in container' : Accounted(p) => Accounted(p)'
  PROVE  IInv'
<1>. DEFINE n == Len(frames)
<1>1. /\ frames \in Seq(Frame) /\ n \in Nat /\ n \in 1..n /\ Len(frames') = n
      /\ Top = frames[n] /\ frames'[n] = f
      /\ \A i \in 1..n : i # n => frames'[i] = frames[i]
      /\ main # "exited" /\ signals # 0
  BY Busy, TopFrame, ReplacedTop
<1>2. UNCHANGED <<pc, client>>
  BY DEF requests
<1>. HIDE DEF n
<1>3. FramesSound'
  <2>1. ASSUME NEW i \in 1..n PROVE FrameSound(frames[i])'
    <3>1. CASE i = n
      <4>1. f = frames'[i]
        BY <1>1, <3>1
      <4>. QED
        BY <4>1
    <3>2. CASE i # n
      <4>1. PICK g \in Frame : g = frames[i] /\ g = frames'[i]
        BY <1>1, <3>2
      <4>2. FrameSound(g)
        BY <4>1 DEF IInv, FramesSound, n
      <4>3. FrameSound(g)'
        BY <1>2, <4>2, ShrunkFrame
      <4>. QED
        BY <4>1, <4>3
    <3>. QED
      BY <3>1, <3>2
  <2>. QED
    BY <1>1, <2>1 DEF FramesSound
<1>4. QuietSound'
  BY <1>1 DEF QuietSound
<1>5. ExitSound'
  <2>1. ASSUME main = "atexit", NEW i \in 1..n,
               frames'[i].step \notin {"acquire", "snapshot"}, NEW p \in container',
               ~Accounted(p)'
        PROVE  \E j \in i..n : p \in Pending(frames'[j])
    <3>1. n \in i..n
      BY <1>1
    <3>2. CASE p \in Pending(f)
      <4>1. Pending(frames'[n]) = Pending(f)
        BY <1>1
      <4>. QED
        BY <3>1, <3>2, <4>1
    <3>3. CASE p \notin Pending(f)
      <4>1. /\ f.step \in {"acquire", "snapshot"} /\ ~Accounted(p)
            /\ p \notin Pending(Top)
        BY <2>1, <3>3
      <4>2. i # n
        BY <1>1, <2>1, <4>1
      <4>3. frames[i].step \notin {"acquire", "snapshot"} /\ p \in container
        BY <1>1, <2>1, <4>2
      <4>4. PICK j \in i..n : p \in Pending(frames[j])
        BY <2>1, <4>1, <4>3 DEF IInv, ExitSound, n
      <4>5. j # n /\ j \in 1..n
        BY <1>1, <4>1, <4>4
      <4>6. Pending(frames'[j]) = Pending(frames[j])
        BY <1>1, <4>5
      <4>. QED
        BY <4>4, <4>6
    <3>. QED
      BY <3>2, <3>3
  <2>. QED
    BY <1>1, <2>1 DEF ExitSound, Pending
<1>. QED
  BY <1>3, <1>4, <1>5 DEF IInv

(* TypeOK after a step of the main thread that replaces its top frame. *)
LEMMA TopType ==
  ASSUME IInv, frames # <<>>, NEW f \in Frame,
         frames' = [frames EXCEPT ![Len(frames)] = f],
         UNCHANGED <<requests, main, signals>>,
         container' \in SUBSET Projects, temp_dir' \subseteq temp_dir,
         active' \subseteq active, sessions' \subseteq sessions, late' \subseteq late,
         last_down' \in [Projects -> {"none", "failed", "no directory"}]
  PROVE  TypeOK'
<1>1. frames' \in Seq(Frame)
  BY Busy, ReplacedTop
<1>2. TypeOK /\ UNCHANGED <<pc, client>>
  BY DEF IInv, requests
<1>. QED
  BY <1>1, <1>2 DEF TypeOK

(* A step that changes only the top frame keeps each project as it is. *)
LEMMA ProjectsKept ==
  ASSUME IInv, UNCHANGED <<requests, container, active, last_down>>
  PROVE  ProjectsSound'
<1>1. UNCHANGED <<pc, client>>
  BY DEF requests
<1>. QED
  BY <1>1 DEF IInv, ProjectsSound, ProjectSound, Known

LEMMA AcquireInv == ASSUME IInv, Acquire PROVE IInv'
<1>1. /\ frames # <<>> /\ Top.step = "acquire" /\ Top.of = "manager"
      /\ frames' = [frames EXCEPT ![Len(frames)] = [Top EXCEPT !.step = "snapshot"]]
      /\ UNCHANGED <<main, signals, requests, container, temp_dir, active, sessions,
                     last_down, late>>
  BY DEF Acquire, At, SetTop
<1>2. Top \in Frame /\ FrameSound(Top) /\ "snapshot" \in Steps
  BY <1>1, Busy DEF Steps
<1>3. PICK f \in Frame : f = [Top EXCEPT !.step = "snapshot"]
  BY <1>2 DEF Frame
<1>4. /\ f.of = "manager" /\ f.step = "snapshot" /\ f.todo = Top.todo /\ f.at = Top.at
  BY <1>1, <1>2, <1>3 DEF Frame
<1>5. TypeOK'
  <2>1. /\ container \in SUBSET Projects
        /\ last_down \in [Projects -> {"none", "failed", "no directory"}]
    BY DEF IInv, TypeOK
  <2>. QED
    BY <1>1, <1>3, <2>1, TopType
<1>6. ProjectsSound'
  BY <1>1, ProjectsKept
<1>7. FrameSound(f)' /\ Pending(f) = Pending(Top)
  BY <1>1, <1>2, <1>4 DEF FrameSound, Pending, Known, requests
<1>8. \A p \in container' : Accounted(p) => Accounted(p)'
  BY <1>1 DEF Accounted, requests
<1>. QED
  BY <1>1, <1>3, <1>4, <1>5, <1>6, <1>7, <1>8, TopStep

LEMMA SnapshotInv == ASSUME IInv, Snapshot PROVE IInv'
<1>1. /\ frames # <<>> /\ Top.step = "snapshot"
      /\ frames' = [frames EXCEPT ![Len(frames)] =
                      [Top EXCEPT !.step = "loop", !.todo = active]]
      /\ late' = {}
      /\ UNCHANGED <<main, signals, requests, container, temp_dir, active, sessions,
                     last_down>>
  BY DEF Snapshot, At, SetTop
<1>2. Top \in Frame /\ FrameSound(Top) /\ active \in SUBSET Projects
  BY <1>1, Busy DEF IInv, TypeOK
<1>3. PICK f \in Frame : f = [Top EXCEPT !.step = "loop", !.todo = active]
  BY <1>2 DEF Frame, Steps
<1>4. f.of = Top.of /\ f.step = "loop" /\ f.todo = active /\ f.at = Top.at
  BY <1>2, <1>3 DEF Frame
<1>5. f.of = "manager" /\ f.at = None
  BY <1>1, <1>2, <1>4, FrameFields DEF FrameSound
<1>6. TypeOK'
  <2>1. /\ container \in SUBSET Projects
        /\ last_down \in [Projects -> {"none", "failed", "no directory"}]
    BY DEF IInv, TypeOK
  <2>. QED
    BY <1>1, <1>3, <2>1, TopType
<1>7. ProjectsSound'
  BY <1>1, ProjectsKept
<1>8. Pending(f) = active /\ active \subseteq Known
  <2>1. active \subseteq Known
    BY <1>2 DEF IInv, ProjectsSound, ProjectSound
  <2>. QED
    BY <1>4, <1>5, <2>1 DEF Pending
<1>9. FrameSound(f)'
  BY <1>1, <1>4, <1>5, <1>8 DEF FrameSound, Pending, Known, requests
<1>10. \A p \in container' : Accounted(p)' \/ p \in Pending(f)
  <2> SUFFICES ASSUME NEW p \in container PROVE Accounted(p)' \/ p \in active
    BY <1>1, <1>8
  <2>1. p \in Projects /\ ProjectSound(p) /\ pc[p] \in RequestSteps
    BY DEF IInv, TypeOK, ProjectsSound, RequestSteps
  <2>. QED
    BY <1>1, <2>1 DEF ProjectSound, Accounted, RequestSteps, requests
<1>. QED
  BY <1>1, <1>3, <1>6, <1>7, <1>9, <1>10, TopStep

LEMMA TakeSessionsInv == ASSUME IInv, TakeSessions PROVE IInv'
<1>1. /\ frames # <<>> /\ Top.step = "acquire" /\ Top.of = "store"
      /\ frames' = [frames EXCEPT ![Len(frames)] =
                      [Top EXCEPT !.step = "loop", !.todo = sessions]]
      /\ sessions' = {}
      /\ UNCHANGED <<main, signals, requests, container, temp_dir, active, last_down,
                     late>>
  BY DEF TakeSessions, At, SetTop
<1>2. /\ Top \in Frame /\ FrameSound(Top)
      /\ sessions \in SUBSET {p \in Projects : pc[p] = "session"}
  BY <1>1, Busy DEF IInv, TypeOK
<1>3. PICK f \in Frame : f = [Top EXCEPT !.step = "loop", !.todo = sessions]
  BY <1>2 DEF Frame, Steps
<1>4. f.of = Top.of /\ f.step = "loop" /\ f.todo = sessions /\ f.at = Top.at
  BY <1>2, <1>3 DEF Frame
<1>5. f.at = None /\ main = "finally"
  BY <1>1, <1>2, <1>4 DEF FrameSound
<1>6. TypeOK'
  <2>1. /\ container \in SUBSET Projects
        /\ last_down \in [Projects -> {"none", "failed", "no directory"}]
    BY DEF IInv, TypeOK
  <2>. QED
    BY <1>1, <1>3, <2>1, TopType
<1>7. ProjectsSound'
  BY <1>1, ProjectsKept
<1>8. Pending(f) = sessions /\ sessions \subseteq Known
  BY <1>2, <1>4, <1>5 DEF Pending, Known
<1>9. FrameSound(f)'
  BY <1>1, <1>2, <1>4, <1>5, <1>8 DEF FrameSound, Pending, Known, requests
<1>. QED
  BY <1>1, <1>3, <1>5, <1>6, <1>7, <1>9, TopStep

(* What the top frame still owes at exit. *)
LEMMA TopOwes ==
  ASSUME IInv, frames # <<>>, main = "atexit", Top.step \notin {"acquire", "snapshot"},
         NEW p \in container, ~Accounted(p)
  PROVE  p \in Pending(Top)
<1>1. Len(frames) \in Nat /\ Len(frames) \in 1..Len(frames) /\ Top = frames[Len(frames)]
  BY Busy, TopFrame
<1>2. PICK j \in Len(frames)..Len(frames) : p \in Pending(frames[j])
  BY <1>1 DEF IInv, ExitSound
<1>3. j = Len(frames)
  BY <1>1
<1>. QED
  BY <1>1, <1>2, <1>3

LEMMA NextProjectInv == ASSUME IInv, NextProject PROVE IInv'
<1>1. PICK p \in Top.todo :
        /\ frames # <<>> /\ Top.step = "loop"
        /\ frames' = [frames EXCEPT ![Len(frames)] =
                        [Top EXCEPT !.step = "down", !.todo = Top.todo \ {p}, !.at = p]]
        /\ UNCHANGED <<main, signals, requests, container, temp_dir, active, sessions,
                       last_down, late>>
  BY DEF NextProject, At, SetTop
<1>2. Top \in Frame /\ FrameSound(Top) /\ p \in Projects
  BY <1>1, Busy, FrameFields
<1>3. PICK f \in Frame : f = [Top EXCEPT !.step = "down", !.todo = Top.todo \ {p}, !.at = p]
  BY <1>2 DEF Frame, Steps
<1>4. f.of = Top.of /\ f.step = "down" /\ f.todo = Top.todo \ {p} /\ f.at = p
  BY <1>2, <1>3 DEF Frame
<1>5. Pending(f) = Pending(Top)
  BY <1>1, <1>2, <1>4 DEF Pending, FrameSound
<1>6. TypeOK'
  <2>1. /\ container \in SUBSET Projects
        /\ last_down \in [Projects -> {"none", "failed", "no directory"}]
    BY DEF IInv, TypeOK
  <2>. QED
    BY <1>1, <1>3, <2>1, TopType
<1>7. ProjectsSound'
  BY <1>1, ProjectsKept
<1>8. FrameSound(f)'
  <2>1. Pending(f)' = Pending(f) /\ Known' = Known
    BY <1>1 DEF Pending, Known, requests
  <2>. QED
    BY <1>1, <1>2, <1>4, <1>5, <2>1 DEF FrameSound, requests
<1>9. main = "atexit" => \A q \in container' : Accounted(q)' \/ q \in Pending(f)
  <2>1. \A q \in container : Accounted(q)' <=> Accounted(q)
    BY <1>1 DEF Accounted, requests
  <2>2. container' = container /\ Top.step \notin {"acquire", "snapshot"}
    BY <1>1
  <2>. QED
    BY <1>1, <1>5, <2>1, <2>2, TopOwes
<1>. QED
  BY <1>1, <1>3, <1>6, <1>7, <1>8, <1>9, TopStep

(* The project of the top frame is down. *)
LEMMA MainIsDown ==
  ASSUME IInv, At("down"), Down(Top.at), SetTop([Top EXCEPT !.step = "unregister"]),
         UNCHANGED <<requests, temp_dir, active, sessions, late>>
  PROVE  IInv'
<1>1. /\ frames # <<>> /\ Top.step = "down"
      /\ frames' = [frames EXCEPT ![Len(frames)] = [Top EXCEPT !.step = "unregister"]]
      /\ UNCHANGED <<main, signals, pc, client>>
  BY DEF At, SetTop, requests
<1>2. Top \in Frame /\ FrameSound(Top)
  BY <1>1, Busy
<1>3. PICK f \in Frame : f = [Top EXCEPT !.step = "unregister"]
  BY <1>2 DEF Frame, Steps
<1>4. f.of = Top.of /\ f.step = "unregister" /\ f.todo = Top.todo /\ f.at = Top.at
  BY <1>2, <1>3 DEF Frame
<1>5. PICK p \in Projects : p = Top.at
  BY <1>1, <1>2 DEF FrameSound
<1>6. /\ container' = container \ {p} /\ container \in SUBSET Projects
      /\ last_down' \in [Projects -> {"none", "failed", "no directory"}]
      /\ \A q \in Projects : q # p => last_down'[q] = last_down[q]
  BY <1>5 DEF Down, IInv, TypeOK
<1>7. TypeOK'
  BY <1>1, <1>3, <1>6, TopType
<1>8. ProjectsSound'
  <2> SUFFICES ASSUME NEW q \in Projects PROVE ProjectSound(q)'
    BY DEF ProjectsSound
  <2>1. ProjectSound(q)
    BY DEF IInv, ProjectsSound
  <2>. QED
    BY <1>1, <1>6, <2>1 DEF ProjectSound, Known
<1>9. Pending(f) = Pending(Top) /\ Pending(f)' = Pending(f) /\ Known' = Known
  BY <1>1, <1>4 DEF Pending, Known
<1>10. FrameSound(f)'
  BY <1>1, <1>2, <1>4, <1>5, <1>6, <1>9 DEF FrameSound
<1>11. main = "atexit" => \A q \in container' : Accounted(q)' \/ q \in Pending(f)
  <2> SUFFICES ASSUME main = "atexit", NEW q \in container', q \notin Pending(f)
               PROVE  Accounted(q)'
    OBVIOUS
  <2>1. q \in container /\ q \in Projects /\ q # p
    BY <1>6
  <2>2. Accounted(q)
    BY <1>1, <1>9, <2>1, TopOwes
  <2>. QED
    BY <1>1, <1>6, <2>1, <2>2 DEF Accounted
<1>. QED
  BY <1>1, <1>3, <1>6, <1>7, <1>8, <1>10, <1>11, TopStep

(* The main thread gives a project up, or has unregistered it. *)
LEMMA DoneWith ==
  ASSUME IInv, frames # <<>>, Top.step \in {"down", "unregistering"}, ProjectDone,
         UNCHANGED <<requests, container, sessions, late>>,
         active' \subseteq active,
         last_down' \in [Projects -> {"none", "failed", "no directory"}],
         \A q \in Projects : q # Top.at =>
           last_down'[q] = last_down[q] /\ (q \in active' <=> q \in active),
         \/ Top.at \notin container
         \/ last_down'[Top.at] # "none" /\ (Top.at \in active' <=> Top.at \in active)
  PROVE  IInv'
<1>1. /\ frames' = [frames EXCEPT ![Len(frames)] =
                      [Top EXCEPT !.step = "loop", !.at = None]]
      /\ UNCHANGED <<main, signals, pc, client>> /\ temp_dir' \subseteq temp_dir
  BY DEF ProjectDone, SetTop, requests
<1>2. Top \in Frame /\ FrameSound(Top)
  BY Busy
<1>3. PICK f \in Frame : f = [Top EXCEPT !.step = "loop", !.at = None]
  BY <1>2 DEF Frame, Steps
<1>4. f.of = Top.of /\ f.step = "loop" /\ f.todo = Top.todo /\ f.at = None
  BY <1>2, <1>3 DEF Frame
<1>5. PICK p \in Projects : p = Top.at
  BY <1>2 DEF FrameSound
<1>6. TypeOK'
  <2>1. container' \in SUBSET Projects
    BY DEF IInv, TypeOK
  <2>. QED
    BY <1>1, <1>3, <2>1, TopType
<1>7. ProjectsSound'
  <2> SUFFICES ASSUME NEW q \in Projects PROVE ProjectSound(q)'
    BY DEF ProjectsSound
  <2>1. ProjectSound(q)
    BY DEF IInv, ProjectsSound
  <2>2. CASE q = p
    BY <1>1, <1>5, <2>1, <2>2 DEF ProjectSound, Known
  <2>3. CASE q # p
    BY <1>1, <1>5, <2>1, <2>3 DEF ProjectSound, Known
  <2>. QED
    BY <2>2, <2>3
<1>8. /\ Pending(f)' = Pending(f) /\ Known' = Known
      /\ Pending(f) \subseteq Pending(Top) /\ Pending(Top) \subseteq Pending(f) \cup {p}
  BY <1>1, <1>4, <1>5 DEF Pending, Known
<1>9. FrameSound(f)'
  BY <1>1, <1>2, <1>4, <1>8 DEF FrameSound
<1>10. main = "atexit" => \A q \in container' : Accounted(q)' \/ q \in Pending(f)
  <2> SUFFICES ASSUME main = "atexit", NEW q \in container, q \notin Pending(f)
               PROVE  Accounted(q)'
    OBVIOUS
  <2>1. q \in Projects
    BY DEF IInv, TypeOK
  <2>2. CASE q = p
    BY <1>1, <1>5, <2>2 DEF Accounted
  <2>3. CASE q # p
    <3>1. Accounted(q)
      BY <1>8, <2>3, TopOwes
    <3>2. last_down'[q] = last_down[q]
      BY <1>5, <2>1, <2>3
    <3>. QED
      BY <1>1, <3>1, <3>2 DEF Accounted
  <2>. QED
    BY <2>2, <2>3
<1>. QED
  BY <1>1, <1>3, <1>6, <1>7, <1>9, <1>10, TopStep

LEMMA MainDownInv == ASSUME IInv, MainDown PROVE IInv'
<1>1. frames # <<>> /\ Top.step = "down" /\ UNCHANGED <<requests, active, sessions, late>>
  BY DEF MainDown, At
<1>2. Top \in Frame /\ FrameSound(Top) /\ Top.at \in Projects
  BY <1>1, Busy DEF FrameSound
<1>3. CASE Down(Top.at) /\ SetTop([Top EXCEPT !.step = "unregister"]) /\ UNCHANGED temp_dir
  BY <1>1, <1>3, MainIsDown DEF At
<1>4. ASSUME ProjectDone, UNCHANGED container,
             NEW why \in {"failed", "no directory"},
             last_down' = [last_down EXCEPT ![Top.at] = why]
      PROVE  IInv'
  <2>1. last_down \in [Projects -> {"none", "failed", "no directory"}]
    BY DEF IInv, TypeOK
  <2>2. /\ last_down' \in [Projects -> {"none", "failed", "no directory"}]
        /\ last_down'[Top.at] # "none"
        /\ \A q \in Projects : q # Top.at => last_down'[q] = last_down[q]
    BY <1>2, <1>4, <2>1
  <2>. QED
    BY <1>1, <1>4, <2>2, DoneWith
<1>. QED
  BY <1>3, <1>4 DEF MainDown, DownFails, DownCannotStart

LEMMA MainUnregisterInv == ASSUME IInv, MainUnregister PROVE IInv'
<1>1. /\ frames # <<>> /\ Top.step = "unregister"
      /\ frames' = [frames EXCEPT ![Len(frames)] = [Top EXCEPT !.step = "unregistering"]]
      /\ UNCHANGED <<main, signals, requests, container, temp_dir, active, sessions,
                     last_down, late>>
  BY DEF MainUnregister, At, SetTop
<1>2. Top \in Frame /\ FrameSound(Top)
  BY <1>1, Busy
<1>3. PICK f \in Frame : f = [Top EXCEPT !.step = "unregistering"]
  BY <1>2 DEF Frame, Steps
<1>4. f.of = Top.of /\ f.step = "unregistering" /\ f.todo = Top.todo /\ f.at = Top.at
  BY <1>2, <1>3 DEF Frame
<1>5. TypeOK'
  <2>1. /\ container \in SUBSET Projects
        /\ last_down \in [Projects -> {"none", "failed", "no directory"}]
    BY DEF IInv, TypeOK
  <2>. QED
    BY <1>1, <1>3, <2>1, TopType
<1>6. ProjectsSound'
  BY <1>1, ProjectsKept
<1>7. /\ Pending(f) = Pending(Top) /\ Pending(f)' = Pending(f) /\ Known' = Known
  BY <1>1, <1>4 DEF Pending, Known, requests
<1>8. FrameSound(f)'
  BY <1>1, <1>2, <1>4, <1>7 DEF FrameSound, requests
<1>9. main = "atexit" => \A q \in container' : Accounted(q)' \/ q \in Pending(f)
  <2>1. \A q \in container : Accounted(q)' <=> Accounted(q)
    BY <1>1 DEF Accounted, requests
  <2>2. container' = container /\ Top.step \notin {"acquire", "snapshot"}
    BY <1>1
  <2>. QED
    BY <1>1, <1>7, <2>1, <2>2, TopOwes
<1>. QED
  BY <1>1, <1>3, <1>5, <1>6, <1>8, <1>9, TopStep

LEMMA MainUnregisteredInv == ASSUME IInv, MainUnregistered PROVE IInv'
<1>1. /\ frames # <<>> /\ Top.step = "unregistering" /\ ProjectDone
      /\ active' = active \ {Top.at}
      /\ UNCHANGED <<requests, container, sessions, last_down, late>>
  BY DEF MainUnregistered, At
<1>2. Top.at \in Projects /\ Top.at \notin container
  BY <1>1, Busy DEF FrameSound
<1>3. last_down' \in [Projects -> {"none", "failed", "no directory"}]
  BY <1>1 DEF IInv, TypeOK
<1>. QED
  BY <1>1, <1>2, <1>3, DoneWith

(* The stack is left for the next stage of the shutdown. *)
LEMMA Continued ==
  ASSUME IInv, Continue, main # "exited",
         UNCHANGED <<requests, container, active, sessions, signals, last_down, late>>,
         temp_dir' \subseteq temp_dir, signals # 0,
         main = "atexit" => \A p \in container : Accounted(p)
  PROVE  IInv'
<1>1. main \in {"serve", "finally", "join", "atexit"}
  BY DEF IInv, TypeOK
<1>2. \/ main' = "finally" /\ frames' = <<StoreFrame>>
      \/ main' = "join" /\ frames' = <<>>
      \/ main' = "atexit" /\ frames' = <<ManagerFrame(FALSE)>>
      \/ main' = "exited" /\ frames' = <<>> /\ main = "atexit"
  BY <1>1 DEF Continue
<1>3. UNCHANGED <<pc, client>>
  BY DEF requests
<1>4. ASSUME NEW i \in 1..Len(frames')
      PROVE  /\ frames'[i] \in Frame /\ frames'[i].step = "acquire" /\ frames'[i].at = None
             /\ frames'[i].todo = {}
             /\ frames'[i].of = "store" => main' = "finally"
  <2>1. CASE main' = "finally" /\ frames' = <<StoreFrame>>
    <3>1. frames'[i] = StoreFrame
      BY <2>1, NewFrames, OneFrame
    <3>. QED
      BY <2>1, <3>1, NewFrames
  <2>2. CASE frames' = <<ManagerFrame(FALSE)>>
    <3>1. ManagerFrame(FALSE) \in Frame /\ ManagerFrame(FALSE).of = "manager"
      BY NewFrames
    <3>2. frames'[i] = ManagerFrame(FALSE)
      BY <2>2, <3>1, OneFrame
    <3>. QED
      BY <3>1, <3>2, NewFrames
  <2>3. CASE frames' = <<>>
    BY <2>3, NoFrames
  <2>. QED
    BY <1>2, <2>1, <2>2, <2>3
<1>5. TypeOK'
  <2>1. frames' \in Seq(Frame)
    <3>1. StoreFrame \in Frame /\ ManagerFrame(FALSE) \in Frame
      BY NewFrames
    <3>2. <<StoreFrame>> \in Seq(Frame) /\ <<ManagerFrame(FALSE)>> \in Seq(Frame)
      BY <3>1, OneFrame
    <3>. QED
      BY <1>2, <3>2, NoFrames
  <2>2. main' \in {"serve", "finally", "join", "atexit", "exited"}
    BY <1>2
  <2>. QED
    BY <1>3, <2>1, <2>2 DEF IInv, TypeOK
<1>6. FramesSound'
  <2> SUFFICES ASSUME NEW i \in 1..Len(frames') PROVE FrameSound(frames[i])'
    BY DEF FramesSound
  <2>. QED
    BY <1>4 DEF FrameSound, Pending
<1>7. ProjectsSound'
  BY <1>3 DEF IInv, ProjectsSound, ProjectSound, Known
<1>8. QuietSound'
  BY DEF QuietSound
<1>9. ExitSound'
  <2>1. \A p \in container : Accounted(p)' <=> Accounted(p)
    BY <1>3 DEF Accounted
  <2>. QED
    BY <1>2, <1>4, <2>1 DEF ExitSound
<1>. QED
  BY <1>5, <1>6, <1>7, <1>8, <1>9 DEF IInv

LEMMA LoopEndsInv == ASSUME IInv, LoopEnds PROVE IInv'
<1>1. /\ frames # <<>> /\ Top.step = "loop" /\ Top.todo = {} /\ Continue
      /\ UNCHANGED <<requests, container, active, sessions, signals, last_down, late>>
      /\ temp_dir' \subseteq temp_dir
  BY DEF LoopEnds, At
<1>2. signals # 0 /\ main # "exited" /\ FrameSound(Top)
  BY <1>1, Busy
<1>3. Pending(Top) = {}
  BY <1>1, <1>2 DEF FrameSound, Pending
<1>4. main = "atexit" => \A p \in container : Accounted(p)
  BY <1>1, <1>3, TopOwes
<1>. QED
  BY <1>1, <1>2, <1>4, Continued

LEMMA JoinedInv == ASSUME IInv, Joined PROVE IInv'
<1>1. main = "join" /\ signals # 0
  BY DEF Joined, IInv, QuietSound
<1>. QED
  BY <1>1, Continued DEF Joined

(* The handler starts on top of whatever the main thread is doing. *)
LEMMA SignalInv == ASSUME IInv, Signal PROVE IInv'
<1>1. /\ main # "exited" /\ signals < MaxSignals /\ signals' = signals + 1
      /\ frames' = Append(frames, ManagerFrame(TRUE))
      /\ UNCHANGED <<pc, client, container, temp_dir, active, sessions, main, last_down,
                     late>>
  BY DEF Signal, requests
<1>2. PICK f \in Frame : /\ f = ManagerFrame(TRUE) /\ f.of = "manager" /\ f.todo = {}
                         /\ f.step = "acquire" /\ f.at = None
  BY NewFrames
<1>3. frames \in Seq(Frame) /\ signals \in Nat
  <2>1. frames \in Seq(Frame) /\ signals \in 0..MaxSignals
    BY DEF IInv, TypeOK
  <2>. QED
    BY <2>1
<1>4. /\ frames' \in Seq(Frame) /\ Len(frames) \in Nat
      /\ Len(frames') = Len(frames) + 1
      /\ frames'[Len(frames) + 1] = f /\ \A i \in 1..Len(frames) : frames'[i] = frames[i]
  <2>1. frames' = Append(frames, f)
    BY <1>1, <1>2
  <2>. QED
    BY <1>3, <2>1
<1>5. TypeOK'
  <2>1. signals' \in 0..MaxSignals
    BY <1>1, <1>3
  <2>. QED
    BY <1>1, <1>4, <2>1 DEF IInv, TypeOK
<1>6. FramesSound'
  <2> SUFFICES ASSUME NEW i \in 1..Len(frames') PROVE FrameSound(frames[i])'
    BY DEF FramesSound
  <2>1. PICK g \in Frame : g = frames'[i]
    BY <1>4
  <2>2. CASE i = Len(frames) + 1
    <3>1. FrameSound(f)'
      BY <1>2 DEF FrameSound, Pending
    <3>2. f = frames'[i]
      BY <1>4, <2>2
    <3>. QED
      BY <3>1, <3>2
  <2>3. CASE i # Len(frames) + 1
    <3>1. i \in 1..Len(frames) /\ g = frames[i]
      BY <1>4, <2>1, <2>3
    <3>2. FrameSound(g)
      BY <3>1 DEF IInv, FramesSound
    <3>3. FrameSound(g)'
      BY <1>1, <3>2, ShrunkFrame
    <3>. QED
      BY <2>1, <3>3
  <2>. QED
    BY <2>2, <2>3
<1>7. ProjectsSound'
  BY <1>1 DEF IInv, ProjectsSound, ProjectSound, Known
<1>8. QuietSound'
  BY <1>1, <1>3 DEF QuietSound
<1>9. ExitSound'
  <2>1. \A p \in container : Accounted(p)' <=> Accounted(p)
    BY <1>1 DEF Accounted
  <2>2. ASSUME main = "atexit", NEW i \in 1..Len(frames'),
               frames'[i].step \notin {"acquire", "snapshot"}, NEW p \in container,
               ~Accounted(p)
        PROVE  \E j \in i..Len(frames') : p \in Pending(frames'[j])
    <3>1. i # Len(frames) + 1
      BY <1>2, <1>4, <2>2
    <3>2. i \in 1..Len(frames) /\ frames[i].step \notin {"acquire", "snapshot"}
      BY <1>4, <2>2, <3>1
    <3>3. PICK j \in i..Len(frames) : p \in Pending(frames[j])
      BY <2>2, <3>2 DEF IInv, ExitSound
    <3>4. j \in 1..Len(frames) /\ j \in i..Len(frames')
      BY <1>4, <3>2, <3>3
    <3>. QED
      BY <1>4, <3>3, <3>4
  <2>. QED
    BY <1>1, <2>1, <2>2 DEF ExitSound, Pending
<1>. QED
  BY <1>5, <1>6, <1>7, <1>8, <1>9 DEF IInv

-------------------------------------------------------------------------------
LEMMA InitInv == Init => IInv
<1> SUFFICES ASSUME Init PROVE IInv
  OBVIOUS
<1>1. TypeOK
  <2>1. frames \in Seq(Frame) /\ signals \in 0..MaxSignals
    BY DEF Init
  <2>. QED
    BY <2>1 DEF Init, TypeOK
<1>2. FramesSound /\ ProjectsSound /\ QuietSound /\ ExitSound
  BY DEF Init, FramesSound, ProjectsSound, ProjectSound, QuietSound, QuietProject,
         ExitSound
<1>. QED
  BY <1>1, <1>2 DEF IInv

(* The stack of the main thread, the manager, the sessions and docker stay *)
(* consistent at every step.                                               *)
THEOREM Invariance == Spec => []IInv
<1>1. IInv /\ [Next]_vars => IInv'
  <2> SUFFICES ASSUME IInv, [Next]_vars PROVE IInv'
    OBVIOUS
  <2>1. ASSUME NEW p \in Projects, Request(p) \/ Client(p) PROVE IInv'
    BY <2>1, RequestInv, ClientInv
  <2>2. CASE Signal
    BY <2>2, SignalInv
  <2>3. CASE MainThread
    BY <2>3, AcquireInv, SnapshotInv, TakeSessionsInv, NextProjectInv, MainDownInv,
       MainUnregisterInv, MainUnregisteredInv, LoopEndsInv, JoinedInv DEF MainThread
  <2>4. CASE UNCHANGED vars
    <3>1. /\ UNCHANGED <<pc, client, container, temp_dir, active, sessions, main, frames>>
          /\ UNCHANGED <<signals, last_down, late>>
      BY <2>4 DEF vars, requests, process
    <3>2. TypeOK'
      BY <3>1 DEF IInv, TypeOK
    <3>3. FramesSound'
      BY <3>1 DEF IInv, FramesSound, FrameSound, Known, Pending
    <3>4. ProjectsSound' /\ QuietSound'
      BY <3>1 DEF IInv, ProjectsSound, ProjectSound, Known, QuietSound, QuietProject
    <3>5. ExitSound'
      BY <3>1 DEF IInv, ExitSound, Accounted, Pending
    <3>. QED
      BY <3>2, <3>3, <3>4, <3>5 DEF IInv
  <2>. QED
    BY <2>1, <2>2, <2>3, <2>4 DEF Next
<1>. QED
  BY InitInv, <1>1, PTL DEF Spec

-------------------------------------------------------------------------------
(* TypeOK: the shape of every variable; an open session belongs to a       *)
(* request thread that has started it and has not begun to clean it up.    *)
THEOREM TypeCorrect == Spec => []TypeOK
<1>1. IInv => TypeOK
  BY DEF IInv
<1>. QED
  BY Invariance, <1>1, PTL

(* LeaksAccountedFor: a container that outlives the server belongs to a    *)
(* start that had not registered it, was registered behind the last        *)
(* snapshot, or resisted an attempt to bring it down.                      *)
THEOREM Leaks_AccountedFor == Spec => []LeaksAccountedFor
<1>1. IInv => LeaksAccountedFor
  <2> SUFFICES ASSUME IInv, main = "exited", NEW p \in container
               PROVE  \/ pc[p] \in {"up", "failed"} \/ p \in late
                      \/ last_down[p] \in {"failed", "no directory"}
    BY DEF LeaksAccountedFor
  <2>1. Accounted(p) /\ last_down[p] \in {"none", "failed", "no directory"}
    BY DEF IInv, ExitSound, TypeOK
  <2>. QED
    BY <2>1 DEF Accounted
<1>. QED
  BY Invariance, <1>1, PTL

(* CleanedOnce: a session is cleaned by the request that popped it or by   *)
(* the store's cleanup_all, never by both.                                 *)
THEOREM Cleaned_Once == Spec => []CleanedOnce
<1>1. IInv => CleanedOnce
  BY DEF IInv, FramesSound, FrameSound, Pending, CleanedOnce
<1>. QED
  BY Invariance, <1>1, PTL

(* SessionHeld: until the server is told to stop, a client that has a      *)
(* session_id finds its session, its containers and their project.         *)
THEOREM Session_Held == Spec => []SessionHeld
<1>1. IInv => SessionHeld
  BY DEF IInv, ProjectsSound, ProjectSound, QuietSound, QuietProject, SessionHeld
<1>. QED
  BY Invariance, <1>1, PTL

===============================================================================
