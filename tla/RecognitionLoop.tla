--------------------------- MODULE RecognitionLoop ---------------------------
(***************************************************************************)
(* The life of the recognition loop of the sphinx service                  *)
(* (src/sphinx/SphinxService.cpp): the thread that listens, continuously   *)
(* or while the press-to-speak button is down.                             *)
(*                                                                         *)
(* Commands start, stop and reload the service and switch between the two  *)
(* kinds of loop (src/sphinx/SphinxMode.cpp).  The thread that runs them,  *)
(* here called the commander, and the loop share four flags and no lock:   *)
(* stopRecognition stores endLoop and joins the loop if                    *)
(* manageThreadRunning is set, but a new loop sets manageThreadRunning and *)
(* clears endLoop itself, some time after it was started.                  *)
(*                                                                         *)
(* A command is a sequence of steps in todo; one step is one access to the *)
(* flags or to recognizerLoop.  What a loop does with the audio is in      *)
(* SphinxDecoders.tla.                                                     *)
(***************************************************************************)
EXTENDS Naturals, Sequences

CONSTANTS MaxCommands, \* bound: commands that reach the service
          Faults       \* whether the audio device and the decoders may fail

ASSUME LoopAssumption ==
    /\ MaxCommands \in Nat
    /\ Faults \in BOOLEAN

\* A command starts at most one loop.
Loops   == 1 .. MaxCommands
NoLoop  == 0
Updater == 0      \* as owner of updateLock: a caller of applyUpdates
Nobody  == MaxCommands + 1

VARIABLES service,             \* the state of the service
          sphinxRunning,       \* what SphinxMode believes
          news,                \* values its event handlers have yet to store there
          endLoop,             \* the loop shall end
          manageThreadRunning, \* a loop says that it runs
          recognizing,         \* audio is being recognised
          pressToSpeakMode,    \* the kind of loop asked for last is "press"
          pressed,             \* the press-to-speak button is down
          updateLock,          \* the owner of the mutex
          recognizerLoop,      \* the loop the std::thread object stands for
          pc,                  \* where each loop is
          kind,                \* the kind of each loop
          updater,             \* where the caller of applyUpdates is
          todo,                \* the remaining steps of the commander
          wanted,              \* the kind of loop its command starts
          killed,              \* requestStop() was called
          terminated,          \* std::terminate ended the process
          exited,              \* exit(-1) ended it
          manager,             \* the manager thread of the service's events
          commands,            \* history: commands so far
          failed               \* history: the loops that met a fault

serviceVars == <<service, sphinxRunning, news>>
flagVars    == <<endLoop, manageThreadRunning, recognizing, pressToSpeakMode, pressed>>
loopVars    == <<recognizerLoop, pc, kind, failed>>
commandVars == <<todo, wanted, commands>>
processVars == <<killed, terminated, exited, manager>>
vars == <<service, sphinxRunning, news, endLoop, manageThreadRunning, recognizing,
          pressToSpeakMode, pressed, updateLock, recognizerLoop, pc, kind, updater,
          todo, wanted, killed, terminated, exited, manager, commands, failed>>

-----------------------------------------------------------------------------

ServiceStates == {"stopped", "starting", "running", "deleted"}
Kinds         == {"press", "continuous"}
Places        == {"unborn", "begin", "lock", "open", "ready", "loop", "record", "kill",
                  "stop", "closing", "returned"}
Steps         == {"reset", "signal", "check", "join", "test", "launch", "running",
                  "stopped", "enabled", "disabled", "checkAtEnd", "deleted"}

Alive(i) == pc[i] \notin {"unborn", "returned"}
Idle     == todo = <<>>
Running  == ~terminated /\ ~exited

\* The steps of the calls: start(), the two loops of SphinxMode, stop(), both
\* of them for a reload, and the end of the service.
ServiceUp == <<"reset", "test", "launch", "running">>
EnableUp  == <<"reset", "test", "launch", "running", "enabled">>

OtherLoop == <<"signal", "check", "test", "launch">>

ServiceDown ==
    IF service = "running" THEN <<"signal", "check", "stopped">> ELSE <<"stopped">>

DisableDown ==
    IF service = "running" THEN <<"signal", "check", "stopped", "disabled">>
    ELSE <<"stopped", "disabled">>

ServiceAgain ==
    IF service = "running"
    THEN <<"signal", "check", "stopped", "reset", "test", "launch", "running">>
    ELSE <<"stopped", "reset", "test", "launch", "running">>

ServiceEnd ==
    IF service = "running"
    THEN <<"signal", "check", "stopped", "signal", "checkAtEnd", "deleted">>
    ELSE <<"signal", "checkAtEnd", "deleted">>

Init ==
    /\ service = "stopped"
    /\ sphinxRunning = FALSE
    /\ news = {}
    /\ endLoop = FALSE
    /\ manageThreadRunning = FALSE
    /\ recognizing = FALSE
    /\ pressToSpeakMode = FALSE
    /\ pressed = FALSE
    /\ updateLock = Nobody
    /\ recognizerLoop = NoLoop
    /\ pc = [i \in Loops |-> "unborn"]
    /\ kind = [i \in Loops |-> "press"]
    /\ updater = "idle"
    /\ todo = <<>>
    /\ wanted = "press"
    /\ killed = FALSE
    /\ terminated = FALSE
    /\ exited = FALSE
    /\ manager = "running"
    /\ commands = 0
    /\ failed = {}

-----------------------------------------------------------------------------
(* Commands                                                                *)

Command(steps, kd) ==
    /\ Running
    /\ Idle
    /\ ~killed
    /\ commands < MaxCommands
    /\ commands' = commands + 1
    /\ todo' = steps
    /\ wanted' = kd
    /\ UNCHANGED <<serviceVars, flagVars, updateLock, loopVars, updater, processVars>>

\* start or enable, also of a service that runs.
StartService ==
    \/ Command(ServiceUp, "press")
    \/ Command(EnableUp, "press")

\* stop or disable.
StopService ==
    \/ Command(ServiceDown, "press")
    \/ Command(DisableDown, "press")

ReloadService == Command(ServiceAgain, "press")

\* "enable" or "disable push to talk", for a service SphinxMode takes for running.
PushToTalk(kd) ==
    /\ sphinxRunning \/ service = "running"
    /\ Command(OtherLoop, kd)

\* "toggle": the button goes down or up.
PressButton ==
    /\ Running
    /\ Idle
    /\ ~killed
    /\ sphinxRunning \/ service = "running"
    /\ pressToSpeakMode
    /\ pressed' = ~pressed
    /\ UNCHANGED <<serviceVars, endLoop, manageThreadRunning, recognizing, pressToSpeakMode,
                   updateLock, loopVars, updater, commandVars, processVars>>

\* The handlers of onServiceEnable and onServiceDisable, in any order.
HearNews(value) ==
    /\ Running
    /\ value \in news
    /\ sphinxRunning' = value
    /\ news' = news \ {value}
    /\ UNCHANGED <<service, flagVars, updateLock, loopVars, updater, commandVars, processVars>>

RequestStop ==
    /\ Running
    /\ ~killed
    /\ killed' = TRUE
    /\ UNCHANGED <<serviceVars, flagVars, updateLock, loopVars, updater, commandVars, terminated,
                   exited, manager>>

\* ~Buckey, after it joined the commander, stops and deletes the service.
Destroy ==
    /\ Running
    /\ Idle
    /\ killed
    /\ service # "deleted"
    /\ todo' = ServiceEnd
    /\ UNCHANGED <<serviceVars, flagVars, updateLock, loopVars, updater, wanted, commands,
                   processVars>>

-----------------------------------------------------------------------------
(* Steps of a command                                                      *)

Begin(step) == Running /\ ~Idle /\ Head(todo) = step
Proceed     == todo' = Tail(todo)

\* The first stores of start().
Reset ==
    /\ Begin("reset")
    /\ service' = "starting"
    /\ endLoop' = FALSE
    /\ recognizing' = FALSE
    /\ pressToSpeakMode' = FALSE
    /\ pressed' = FALSE
    /\ Proceed
    /\ UNCHANGED <<sphinxRunning, news, manageThreadRunning, updateLock, loopVars, updater,
                   wanted, commands, processVars>>

Signal ==
    /\ Begin("signal")
    /\ endLoop' = TRUE
    /\ Proceed
    /\ UNCHANGED <<serviceVars, manageThreadRunning, recognizing, pressToSpeakMode, pressed,
                   updateLock, loopVars, updater, wanted, commands, processVars>>

\* stopRecognition joins a loop that says it runs; the destructor also one
\* that was started.
Check ==
    /\ \/ Begin("check")
       \/ Begin("checkAtEnd")
    /\ IF manageThreadRunning \/ (Begin("checkAtEnd") /\ recognizerLoop # NoLoop)
       THEN todo' = <<"join">> \o Tail(todo)
       ELSE Proceed
    /\ UNCHANGED <<serviceVars, flagVars, updateLock, loopVars, updater, wanted, commands,
                   processVars>>

Join ==
    /\ Begin("join")
    /\ recognizerLoop # NoLoop
    /\ pc[recognizerLoop] = "returned"
    /\ recognizerLoop' = NoLoop
    /\ Proceed
    /\ UNCHANGED <<serviceVars, flagVars, updateLock, pc, kind, failed, updater, wanted,
                   commands, processVars>>

\* join() of a thread that is not joinable throws, and nobody catches it.
JoinNothing ==
    /\ Begin("join")
    /\ recognizerLoop = NoLoop
    /\ terminated' = TRUE
    /\ Proceed
    /\ UNCHANGED <<serviceVars, flagVars, updateLock, loopVars, updater, wanted, commands, killed,
                   exited, manager>>

\* Wrong on purpose, like every definition called Bad...: does not join the
\* loop that is there.
BadTest ==
    /\ Begin("test")
    /\ IF recognizing THEN todo' = SubSeq(todo, 3, Len(todo)) ELSE Proceed
    /\ UNCHANGED <<serviceVars, flagVars, updateLock, loopVars, updater, wanted, commands,
                   processVars>>

\* A loop that recognises is left alone; another one is joined before the new
\* one starts, whether it has been told to end or not.
Test ==
    /\ Begin("test")
    /\ todo' = IF recognizing THEN SubSeq(todo, 3, Len(todo))
               ELSE IF recognizerLoop # NoLoop THEN <<"join">> \o Tail(todo)
               ELSE Tail(todo)
    /\ UNCHANGED <<serviceVars, flagVars, updateLock, loopVars, updater, wanted, commands,
                   processVars>>

\* Wrong: leaves the mode as it is.
BadLaunch ==
    /\ Begin("launch")
    /\ recognizerLoop' = commands
    /\ pc' = [pc EXCEPT ![commands] = "begin"]
    /\ kind' = [kind EXCEPT ![commands] = wanted]
    /\ Proceed
    /\ UNCHANGED <<serviceVars, endLoop, manageThreadRunning, recognizing, pressToSpeakMode, pressed,
                   updateLock, failed, updater, wanted, commands, processVars>>

Launch ==
    /\ Begin("launch")
    /\ pressToSpeakMode' = (wanted = "press")
    /\ recognizerLoop' = commands
    /\ pc' = [pc EXCEPT ![commands] = "begin"]
    /\ kind' = [kind EXCEPT ![commands] = wanted]
    /\ Proceed
    /\ UNCHANGED <<serviceVars, endLoop, manageThreadRunning, recognizing, pressed, updateLock,
                   failed, updater, wanted, commands, processVars>>

SetState ==
    /\ \E s \in {"running", "stopped"} : Begin(s) /\ service' = s
    /\ Proceed
    /\ UNCHANGED <<sphinxRunning, news, flagVars, updateLock, loopVars, updater, wanted,
                   commands, processVars>>

\* killThreads, by whoever calls it: it joins the manager, or waits for it
\* without end (EventSource.tla).  Joining it a second time throws.
JoinManager ==
    /\ manager \in {"running", "joined"}
    /\ IF manager = "joined" THEN terminated' = TRUE /\ UNCHANGED manager
       ELSE manager' \in {"joined", "stuck"} /\ UNCHANGED terminated
    /\ UNCHANGED killed

\* The last step of the destructor is that of its base class.
Delete ==
    /\ Begin("deleted")
    /\ JoinManager
    /\ IF manager' = "joined" /\ ~terminated' THEN service' = "deleted" /\ Proceed
       ELSE UNCHANGED <<service, todo>>
    /\ UNCHANGED <<sphinxRunning, news, flagVars, updateLock, loopVars, updater, wanted,
                   commands, exited>>

\* Enabling and disabling tell the listeners.
Tell ==
    /\ \/ Begin("enabled") /\ news' = news \cup {TRUE}
       \/ Begin("disabled") /\ news' = news \cup {FALSE}
    /\ Proceed
    /\ UNCHANGED <<service, sphinxRunning, flagVars, updateLock, loopVars, updater, wanted,
                   commands, processVars>>

-----------------------------------------------------------------------------
(* The loop                                                                *)

At(i, place)   == Running /\ pc[i] = place
Goto(i, place) == pc' = [pc EXCEPT ![i] = place]

SayRunning(i) ==
    /\ At(i, "begin")
    /\ manageThreadRunning' = TRUE
    /\ Goto(i, "lock")
    /\ UNCHANGED <<serviceVars, endLoop, recognizing, pressToSpeakMode, pressed, updateLock,
                   recognizerLoop, kind, failed, updater, commandVars, processVars>>

LockUpdates(i) ==
    /\ At(i, "lock")
    /\ updateLock = Nobody
    /\ updateLock' = i
    /\ Goto(i, "open")
    /\ UNCHANGED <<serviceVars, flagVars, recognizerLoop, kind, failed, updater, commandVars,
                   processVars>>

\* The loop takes back endLoop and opens the device.
Open(i) ==
    /\ At(i, "open")
    /\ endLoop' = FALSE
    /\ Goto(i, "ready")
    /\ UNCHANGED <<serviceVars, manageThreadRunning, recognizing, pressToSpeakMode, pressed,
                   updateLock, recognizerLoop, kind, failed, updater, commandVars, processVars>>

\* It returns with the lock held and manageThreadRunning set.
OpenFails(i) ==
    /\ Faults
    /\ At(i, "open")
    /\ endLoop' = FALSE
    /\ recognizing' = FALSE
    /\ Goto(i, "returned")
    /\ failed' = failed \cup {i}
    /\ UNCHANGED <<serviceVars, manageThreadRunning, pressToSpeakMode, pressed, updateLock,
                   recognizerLoop, kind, updater, commandVars, processVars>>

\* The utterances have been started.
Ready(i) ==
    /\ At(i, "ready")
    /\ recognizing' = (kind[i] = "continuous")
    /\ updateLock' = Nobody
    /\ Goto(i, "loop")
    /\ UNCHANGED <<serviceVars, endLoop, manageThreadRunning, pressToSpeakMode, pressed,
                   recognizerLoop, kind, failed, updater, commandVars, processVars>>

\* Only the press-to-speak loop watches for the end of Buckey itself.
MustEnd(i) == endLoop \/ (kind[i] = "press" /\ killed)

\* Wrong: a recording is finished first.
BadLeave(i) ==
    /\ At(i, "loop")
    /\ MustEnd(i)
    /\ Goto(i, "closing")
    /\ UNCHANGED <<serviceVars, flagVars, updateLock, recognizerLoop, kind, failed, updater,
                   commandVars, processVars>>

Leave(i) ==
    /\ pc[i] \in {"loop", "record", "stop"} /\ Running
    /\ MustEnd(i)
    /\ Goto(i, "closing")
    /\ UNCHANGED <<serviceVars, flagVars, updateLock, recognizerLoop, kind, failed, updater,
                   commandVars, processVars>>

\* The button goes down and recording starts, or fails to.
Record(i) ==
    /\ At(i, "loop")
    /\ kind[i] = "press"
    /\ pressed
    /\ ~MustEnd(i)
    /\ \/ recognizing' = TRUE /\ Goto(i, "record")
       \/ Faults /\ recognizing' = FALSE /\ Goto(i, "closing")
    /\ UNCHANGED <<serviceVars, endLoop, manageThreadRunning, pressToSpeakMode, pressed,
                   updateLock, recognizerLoop, kind, failed, updater, commandVars, processVars>>

\* The button is up, or a fault has left the inner loop.
EndRecording(i) ==
    /\ (At(i, "record") /\ ~pressed) \/ At(i, "stop")
    /\ ~MustEnd(i)
    /\ recognizing' = FALSE
    /\ Goto(i, "loop")
    /\ UNCHANGED <<serviceVars, endLoop, manageThreadRunning, pressToSpeakMode, pressed,
                   updateLock, recognizerLoop, kind, failed, updater, commandVars, processVars>>

\* Reading from the device fails, or no good decoder is left.
Fail(i) ==
    /\ Faults
    /\ At(i, IF kind[i] = "press" THEN "record" ELSE "loop")
    /\ ~MustEnd(i)
    /\ Goto(i, "kill")
    /\ failed' = failed \cup {i}
    /\ UNCHANGED <<serviceVars, flagVars, updateLock, recognizerLoop, kind, updater,
                   commandVars, processVars>>

\* The loop then kills its service's events.  After that a press-to-speak loop
\* goes on; a continuous one ends the process, or returns and leaves its flags
\* set.
KillThreads(i) ==
    /\ At(i, "kill")
    /\ JoinManager
    /\ IF manager' = "stuck" \/ terminated' THEN UNCHANGED <<pc, exited>>
       ELSE \/ kind[i] = "press" /\ Goto(i, "stop") /\ UNCHANGED exited
            \/ kind[i] = "continuous" /\ Goto(i, "returned") /\ UNCHANGED exited
            \/ kind[i] = "continuous" /\ exited' = TRUE /\ UNCHANGED pc
    /\ UNCHANGED <<serviceVars, flagVars, updateLock, recognizerLoop, kind, failed, updater,
                   commandVars>>

\* Wrong: manageThreadRunning stays set.
BadClose(i) ==
    /\ At(i, "closing")
    /\ recognizing' = FALSE
    /\ pressToSpeakMode' = (pressToSpeakMode /\ kind[i] = "continuous")
    /\ pressed' = (pressed /\ kind[i] = "continuous")
    /\ Goto(i, "returned")
    /\ UNCHANGED <<serviceVars, endLoop, manageThreadRunning, updateLock, recognizerLoop, kind,
                   failed, updater, commandVars, processVars>>

Close(i) ==
    /\ At(i, "closing")
    /\ recognizing' = FALSE
    /\ pressToSpeakMode' = (pressToSpeakMode /\ kind[i] = "continuous")
    /\ pressed' = (pressed /\ kind[i] = "continuous")
    /\ manageThreadRunning' = FALSE
    /\ Goto(i, "returned")
    /\ UNCHANGED <<serviceVars, endLoop, updateLock, recognizerLoop, kind, failed, updater,
                   commandVars, processVars>>

\* applyUpdates, from outside: it waits for the lock, holds it and returns.
CallUpdate ==
    /\ Running
    /\ updater = "idle"
    /\ updater' = "lock"
    /\ UNCHANGED <<serviceVars, flagVars, updateLock, loopVars, commandVars, processVars>>

LockUpdate ==
    /\ Running
    /\ updater = "lock"
    /\ updateLock = Nobody
    /\ updateLock' = Updater
    /\ updater' = "hold"
    /\ UNCHANGED <<serviceVars, flagVars, loopVars, commandVars, processVars>>

EndUpdate ==
    /\ Running
    /\ updater = "hold"
    /\ updateLock' = Nobody
    /\ updater' = "idle"
    /\ UNCHANGED <<serviceVars, flagVars, loopVars, commandVars, processVars>>

-----------------------------------------------------------------------------

CommandStep ==
    Reset \/ Signal \/ Check \/ Join \/ JoinNothing \/ Test \/ Launch \/ SetState \/ Tell
    \/ Delete

LoopStep(i) ==
    \/ SayRunning(i)
    \/ Open(i)
    \/ OpenFails(i)
    \/ Ready(i)
    \/ Leave(i)
    \/ Record(i)
    \/ EndRecording(i)
    \/ Fail(i)
    \/ KillThreads(i)
    \/ Close(i)

UserStep ==
    \/ StartService
    \/ StopService
    \/ ReloadService
    \/ \E kd \in Kinds : PushToTalk(kd)
    \/ PressButton
    \/ RequestStop

Next ==
    \/ UserStep
    \/ \E value \in BOOLEAN : HearNews(value)
    \/ Destroy
    \/ CommandStep
    \/ \E i \in Loops : LoopStep(i) \/ LockUpdates(i)
    \/ CallUpdate
    \/ LockUpdate
    \/ EndUpdate

Spec == Init /\ [][Next]_vars

\* Threads are scheduled, and the two that compete for updateLock get it in
\* turn: each asks for it once and then works for a while.  Users and faults
\* need not do anything.
Fairness ==
    /\ WF_vars(CommandStep)
    /\ WF_vars(Destroy)
    /\ \A i \in Loops : WF_vars(LoopStep(i))
    /\ \A i \in Loops : SF_vars(LockUpdates(i))
    /\ SF_vars(LockUpdate)
    /\ WF_vars(EndUpdate)

FairSpec == Spec /\ Fairness

-----------------------------------------------------------------------------
(* Properties                                                              *)

TypeOK ==
    /\ service \in ServiceStates
    /\ sphinxRunning \in BOOLEAN
    /\ news \subseteq BOOLEAN
    /\ endLoop \in BOOLEAN
    /\ manageThreadRunning \in BOOLEAN
    /\ recognizing \in BOOLEAN
    /\ pressToSpeakMode \in BOOLEAN
    /\ pressed \in BOOLEAN
    /\ updateLock \in Loops \cup {Updater, Nobody}
    /\ recognizerLoop \in Loops \cup {NoLoop}
    /\ pc \in [Loops -> Places]
    /\ kind \in [Loops -> Kinds]
    /\ updater \in {"idle", "lock", "hold"}
    /\ todo \in Seq(Steps)
    /\ wanted \in Kinds
    /\ killed \in BOOLEAN
    /\ terminated \in BOOLEAN
    /\ exited \in BOOLEAN
    /\ manager \in {"running", "joined", "stuck"}
    /\ commands \in 0 .. MaxCommands
    /\ failed \subseteq Loops

\* At most one loop is alive, and it is the one recognizerLoop stands for, so
\* that no loop is left that nobody can join: assigning to the std::thread
\* would end the process.
OneLoop == \A i \in Loops : Alive(i) => recognizerLoop = i

\* Neither a loop nor the manager of the events is joined a second time, which
\* would terminate the process: not by stopRecognition, by a start, by a loop or
\* by the destructor.  A fault is the exception, once a loop has left
\* manageThreadRunning set behind it or has called killThreads.
JoinsWhatWasStarted == terminated => failed # {}

\* When no command is in progress, the commands that follow treat the loop as
\* what it is: SphinxMode presses the button of a press-to-speak loop and
\* pauses a continuous one.
ModeMatchesLoop ==
    \A i \in Loops :
        Idle /\ pc[i] \in {"loop", "record"} => (pressToSpeakMode <=> kind[i] = "press")

\* A stop that finds the loop past its start-up ends it, also when the button
\* is down; the commander that joins it goes on.  Not so if a fault comes in
\* between and the killThreads it makes the loop call waits without end, or the
\* process ends.
StopEndsTheLoop ==
    \A i \in Loops :
        (pc[i] \in {"loop", "record", "stop"} /\ endLoop)
            ~> (~Alive(i) \/ (pc[i] = "kill" /\ manager = "stuck") \/ ~Running)

-----------------------------------------------------------------------------
(* What the documentation says and the code does not do                    *)

\* STOPPED: "service is not running".  A loop that had just been started when
\* the stop came takes the stop back and listens on.
StoppedIsNotRunning ==
    \A i \in Loops :
        (service = "stopped" /\ Idle)
            ~> (~Alive(i) \/ service # "stopped" \/ ~Idle \/ killed)

=============================================================================
