------------------------------- MODULE Registry -------------------------------
(***************************************************************************)
(* Buckey's registry of modes and services over several runs of the        *)
(* process (src/core/Buckey.cpp, src/core/CoreMode.cpp): which of them are *)
(* started, which are enabled at the next start, and which modes the root  *)
(* grammar lets the user reach.                                            *)
(*                                                                         *)
(* Commanders work on the registry, and no lock keeps them apart:          *)
(*   - the main thread: it reads the enabled lists at the start, runs      *)
(*     reload() when SIGHUP interrupts it, and destroys Buckey at the end; *)
(*   - the watcher of the input queue and the reader of the socket, which  *)
(*     run the commands of the core mode.                                  *)
(* Each has a stack of tasks: the operations it still has to begin and the *)
(* steps of the one in progress.  A third kind of thread are the handlers  *)
(* of updateGrammar, which put the core mode's rule into the root grammar. *)
(*                                                                         *)
(* A task over several units takes them in any order; the code takes them  *)
(* in the order they were registered.  Services start and stop in one step *)
(* here, or never return from it; their insides are in RecognitionLoop.tla *)
(* and MimicSpeech.tla.                                                    *)
(***************************************************************************)
EXTENDS Naturals, Sequences, FiniteSets

CONSTANTS Core,        \* the core mode
          OtherModes,
          Services,
          Runners,     \* the threads that run commands: watcher and reader
          Daemon,      \* whether the process was started with -d
          MaxOrders,   \* bounds: commands and SIGHUPs together, one less with each further run
          MaxRuns      \* of the process

ASSUME RegistryAssumption ==
    /\ Core \notin OtherModes \cup Services
    /\ OtherModes \cap Services = {}
    /\ "main" \notin Runners
    /\ Daemon \in BOOLEAN
    /\ {MaxOrders, MaxRuns} \subseteq Nat

Modes      == OtherModes \cup {Core}
Units      == Modes \cup Services
Main       == "main"
Commanders == Runners \cup {Main}

VARIABLES phase,       \* of the process
          killed,      \* requestStop() was called
          watching,    \* the runners that run
          hung,        \* the commanders that wait without end
          task,        \* the stack of each commander
          started,     \* the units in state STARTED or RUNNING
          enabled,     \* the units to be enabled at the next start
          grammar,     \* the modes the root grammar has a rule for
          coreGrammar, \* what CoreMode::grammar points to
          listening,   \* how often updateGrammar listens
          held,        \* the ids CoreMode holds are those of a listener
          handlers,    \* threads of updateGrammar, by what they do next
          saved,       \* the enabled lists on disk
          orders, runs, \* counters for the bounds
          promised,    \* history: enabled when the last destructor began to save
          interrupted, \* history: a crash hit while the lists were written
          before,      \* history: started when reload() began
          meddled,     \* history: a command began since then
          overlapped   \* history: the commanders worked on one unit at once

processVars == <<phase, killed, watching, hung>>
unitVars    == <<started, enabled>>
coreVars    == <<coreGrammar, listening, held>>
boundVars   == <<orders, runs>>
historyVars == <<promised, interrupted, before, meddled, overlapped>>
vars == <<phase, killed, watching, hung, task, started, enabled, grammar, coreGrammar,
          listening, held, handlers, saved, orders, runs, promised, interrupted, before,
          meddled, overlapped>>

-----------------------------------------------------------------------------

Job(do, on) == [do |-> do, on |-> on]
Ask(op, units) == IF units = {} THEN <<>> ELSE <<Job(op, units)>>
Jobs(dos, u) == [k \in DOMAIN dos |-> Job(dos[k], {u})]

Operations == {"start", "stop", "enable", "disable", "shut"}

\* The steps of the start() and stop() of a unit.  Only the core mode does not
\* enter the root grammar itself: its handlers put it there.
Up(u) ==
    IF u = Core THEN Jobs(<<"load", "rise", "listen">>, u)
    ELSE IF u \in Modes THEN Jobs(<<"add", "rise">>, u)
    ELSE Jobs(<<"rise">>, u)

\* Wrong: the rule stays in the root grammar.
BadDown(u) ==
    IF u = Core THEN Jobs(<<"remove", "delete", "fall", "deafen">>, u)
    ELSE Jobs(<<"fall">>, u)

Down(u) ==
    IF u = Core THEN Jobs(<<"remove", "delete", "fall", "deafen">>, u)
    ELSE IF u \in Modes THEN Jobs(<<"remove", "fall">>, u)
    ELSE Jobs(<<"fall">>, u)

Idle(c) == task[c] = <<>>
Busy(c) == {u \in Units : \E k \in DOMAIN task[c] :
                task[c][k].do \notin Operations /\ u \in task[c][k].on}
Shared(c, u) == \E d \in Commanders \ {c} : u \in Busy(d)
Quiet   == \A c \in Commanders : Idle(c)

NoHandlers == [test |-> 0, add |-> 0]

\* What a process starts with.
Fresh ==
    /\ killed' = FALSE
    /\ watching' = {}
    /\ hung' = {}
    /\ started' = {}
    /\ enabled' = {}
    /\ grammar' = {}
    /\ coreGrammar' = "none"
    /\ listening' = 0
    /\ held' = FALSE
    /\ handlers' = NoHandlers
    /\ before' = {}
    /\ meddled' = FALSE
    /\ overlapped' = FALSE

\* On disk the default list of services, which readCoreConfig writes.
Init ==
    /\ phase = "down"
    /\ killed = FALSE
    /\ watching = {}
    /\ hung = {}
    /\ task = [c \in Commanders |-> <<>>]
    /\ started = {}
    /\ enabled = {}
    /\ grammar = {}
    /\ coreGrammar = "none"
    /\ listening = 0
    /\ held = FALSE
    /\ handlers = NoHandlers
    /\ saved = [modes |-> {}, services |-> Services]
    /\ orders = 0
    /\ runs = 0
    /\ promised = Services
    /\ interrupted = FALSE
    /\ before = {}
    /\ meddled = FALSE
    /\ overlapped = FALSE

-----------------------------------------------------------------------------
(* Tasks                                                                   *)

Do(c, what)       == ~Idle(c) /\ c \notin hung /\ Head(task[c]).do = what
Replace(c, steps) == task' = [task EXCEPT ![c] = steps \o Tail(@)]
Pop(c)            == Replace(c, <<>>)

\* A commander begins an operation on the unit u.  A mode is left alone if it
\* is in the state asked for; a service is not, but by the destructor.
Begin(c, u) ==
    LET op   == Head(task[c]).do
        rest == Ask(op, Head(task[c]).on \ {u})
        up   == op \in {"start", "enable"} /\ (u \in Services \/ u \notin started)
        down == op \in {"stop", "disable", "shut"}
                    /\ (u \in started \/ (u \in Services /\ op # "shut"))
        tell == IF op \in {"enable", "disable"} THEN <<Job("tell", {u})>> ELSE <<>>
    IN  /\ ~Idle(c)
        /\ c \notin hung
        /\ op \in Operations
        /\ u \in Head(task[c]).on
        /\ enabled' = CASE op = "enable"  -> enabled \cup {u}
                        [] op = "disable" -> enabled \ {u}
                        [] OTHER          -> enabled
        /\ Replace(c, (CASE up    -> Up(u) \o tell
                         [] down  -> Down(u) \o tell
                         [] OTHER -> <<>>)
                      \o rest)
        /\ overlapped' = (overlapped \/ Shared(c, u))
        /\ UNCHANGED <<processVars, started, grammar, coreVars, handlers, saved, boundVars,
                       promised, interrupted, before, meddled>>

\* addModeToRootGrammar
Add(c) ==
    /\ Do(c, "add")
    /\ grammar' = grammar \cup Head(task[c]).on
    /\ Pop(c)
    /\ UNCHANGED <<processVars, unitVars, coreVars, handlers, saved, boundVars, historyVars>>

\* removeModeFromRootGrammar
Remove(c) ==
    /\ Do(c, "remove")
    /\ grammar' = grammar \ Head(task[c]).on
    /\ Pop(c)
    /\ UNCHANGED <<processVars, unitVars, coreVars, handlers, saved, boundVars, historyVars>>

Rise(c) ==
    /\ Do(c, "rise")
    /\ started' = started \cup Head(task[c]).on
    /\ Pop(c)
    /\ UNCHANGED <<processVars, enabled, grammar, coreVars, handlers, saved, boundVars,
                   historyVars>>

Fall(c) ==
    /\ Do(c, "fall")
    /\ started' = started \ Head(task[c]).on
    /\ Pop(c)
    /\ UNCHANGED <<processVars, enabled, grammar, coreVars, handlers, saved, boundVars,
                   historyVars>>

Load(c) ==
    /\ Do(c, "load")
    /\ coreGrammar' = "live"
    /\ Pop(c)
    /\ UNCHANGED <<processVars, unitVars, grammar, listening, held, handlers, saved, boundVars,
                   historyVars>>

\* To delete what was deleted is undefined: it may end the process, as Crash
\* does, or go unnoticed.
Delete(c) ==
    /\ Do(c, "delete")
    /\ coreGrammar' = "deleted"
    /\ Pop(c)
    /\ UNCHANGED <<processVars, unitVars, grammar, listening, held, handlers, saved, boundVars,
                   historyVars>>

\* Wrong: listens for events nobody triggers.
BadListen(c) ==
    /\ Do(c, "listen")
    /\ held' = TRUE
    /\ Pop(c)
    /\ UNCHANGED <<processVars, unitVars, grammar, coreGrammar, listening, handlers, saved,
                   boundVars, historyVars>>

Listen(c) ==
    /\ Do(c, "listen")
    /\ listening' = listening + 1
    /\ held' = TRUE
    /\ Pop(c)
    /\ UNCHANGED <<processVars, unitVars, grammar, coreGrammar, handlers, saved, boundVars,
                   historyVars>>

\* Only the listeners whose ids CoreMode holds are unset.
Deafen(c) ==
    /\ Do(c, "deafen")
    /\ listening' = IF held THEN listening - 1 ELSE listening
    /\ held' = FALSE
    /\ Pop(c)
    /\ UNCHANGED <<processVars, unitVars, grammar, coreGrammar, handlers, saved, boundVars,
                   historyVars>>

\* An event that a unit was enabled or disabled, or that init() is through.
Tell(c) ==
    /\ Do(c, "tell")
    /\ handlers' = [handlers EXCEPT !.test = @ + listening]
    /\ Pop(c)
    /\ UNCHANGED <<processVars, unitVars, grammar, coreVars, saved, boundVars, historyVars>>

\* The main thread does work that SIGHUP interrupted.  It may hold logLock,
\* rootGrammarLock or Buckey's threadManipulationLock, which reload() takes.
Interrupted == \E k \in 1 .. Len(task[Main]) - 1 : task[Main][k].do = "reloaded"

\* The start or stop of a service waits without end, or ~EventSource does, or
\* the main thread waits for a lock that it holds itself.
Hang(c) ==
    /\ c \notin hung
    /\ \/ Do(c, "rise") /\ Head(task[c]).on \subseteq Services
       \/ Do(c, "fall") /\ Head(task[c]).on \subseteq Services
       \/ Do(c, "end")
       \/ c = Main /\ Interrupted
    /\ hung' = hung \cup {c}
    /\ UNCHANGED <<phase, killed, watching, task, unitVars, grammar, coreVars, handlers, saved,
                   boundVars, historyVars>>

-----------------------------------------------------------------------------
(* Handlers of updateGrammar                                               *)

HandlerTest ==
    /\ handlers.test > 0
    /\ handlers' = [test |-> handlers.test - 1,
                    add  |-> handlers.add + IF Core \in started THEN 1 ELSE 0]
    /\ UNCHANGED <<processVars, task, unitVars, grammar, coreVars, saved, boundVars, historyVars>>

\* The handler does not look at the state again.  Using a deleted grammar is
\* undefined: the rule may come back, or not, or the process ends (see Crash).
HandlerAdd ==
    /\ handlers.add > 0
    /\ handlers' = [handlers EXCEPT !.add = @ - 1]
    /\ \/ grammar' = grammar \cup {Core}
       \/ coreGrammar = "deleted" /\ UNCHANGED grammar
    /\ UNCHANGED <<processVars, task, unitVars, coreVars, saved, boundVars, historyVars>>

-----------------------------------------------------------------------------
(* The threads that run commands                                           *)

\* passCommand finds the core mode by the root grammar.  It is called after a
\* stop, too: the watcher has tested killed before it took the line, and the
\* reader goes through its buffer without a test.
Reached(c) == c \in watching /\ Idle(c) /\ Core \in grammar \cap started

\* CoreMode::input: only stopping and disabling the core mode is refused.
Command(c, op, u) ==
    /\ Reached(c)
    /\ orders + runs <= MaxOrders
    /\ ~(op \in {"stop", "disable"} /\ u = Core)
    /\ task' = [task EXCEPT ![c] =
                   CASE op # "reload" -> <<Job(op, {u})>>
                     [] op = "reload" /\ u \in Modes    -> <<Job("stop", {u}), Job("start", {u})>>
                     [] op = "reload" /\ u \in Services -> Down(u) \o Up(u)]
    /\ orders' = orders + 1
    /\ meddled' = TRUE
    /\ overlapped' = (overlapped \/ (op = "reload" /\ u \in Services /\ Shared(c, u)))
    /\ UNCHANGED <<processVars, unitVars, grammar, coreVars, handlers, saved, runs,
                   promised, interrupted, before>>

Quit(c) ==
    /\ Reached(c)
    /\ killed' = TRUE
    /\ UNCHANGED <<phase, watching, hung, task, unitVars, grammar, coreVars, handlers, saved, boundVars,
                   historyVars>>

\* Wrong: the stop is noticed after a command only.
BadRunnerEnds(c) ==
    /\ c \in watching
    /\ killed
    /\ orders > 0
    /\ Idle(c)
    /\ watching' = watching \ {c}
    /\ UNCHANGED <<phase, killed, hung, task, unitVars, grammar, coreVars, handlers, saved, boundVars,
                   historyVars>>

RunnerEnds(c) ==
    /\ c \in watching
    /\ killed
    /\ Idle(c)
    /\ watching' = watching \ {c}
    /\ UNCHANGED <<phase, killed, hung, task, unitVars, grammar, coreVars, handlers, saved, boundVars,
                   historyVars>>

-----------------------------------------------------------------------------
(* The main thread                                                         *)

\* init() registers all, enables what the lists name and the core mode, and
\* starts the runners.
Boot ==
    /\ phase = "down"
    /\ runs < MaxRuns
    /\ runs' = runs + 1
    /\ phase' = "booting"
    /\ task' = [task EXCEPT ![Main] =
                   Ask("enable", saved.services) \o Ask("enable", saved.modes)
                       \o <<Job("enable", {Core}), Job("watch", {}), Job("tell", {}),
                            Job("ready", {})>>]
    /\ UNCHANGED <<killed, watching, hung, unitVars, grammar, coreVars, handlers, saved, orders,
                   historyVars>>

Watch ==
    /\ Do(Main, "watch")
    /\ watching' = Runners
    /\ Pop(Main)
    /\ UNCHANGED <<phase, killed, hung, unitVars, grammar, coreVars, handlers, saved, boundVars,
                   historyVars>>

Ready ==
    /\ Do(Main, "ready")
    /\ phase' = "running"
    /\ Pop(Main)
    /\ UNCHANGED <<killed, watching, hung, unitVars, grammar, coreVars, handlers, saved, boundVars,
                   historyVars>>

\* Wrong on purpose, like every definition called Bad...: starts what is
\* enabled, not what ran.
BadReload ==
    /\ phase \in {"running", "stopping"}
    /\ orders + runs <= MaxOrders
    /\ Main \notin hung
    /\ ~\E k \in DOMAIN task[Main] : task[Main][k].do = "reloaded"
    /\ orders' = orders + 1
    /\ before' = started
    /\ meddled' = (\E c \in Runners : ~Idle(c))
    /\ task' = [task EXCEPT ![Main] =
                   Ask("stop", Modes \cap started) \o Ask("stop", Services \cap started)
                       \o Ask("start", Services \cap enabled) \o Ask("start", Modes \cap enabled)
                       \o <<Job("reloaded", {})>> \o @]
    /\ UNCHANGED <<processVars, unitVars, grammar, coreVars, handlers, saved, runs,
                   promised, interrupted, overlapped>>

\* SIGHUP interrupts the main thread, also in the destructor; a second one
\* waits for the end of the first.  What it takes may be held by what it
\* interrupts (see Hang).  One that interrupts a wait without end is as one that
\* interrupts any wait.
Reload ==
    /\ phase \in {"running", "stopping"}
    /\ orders + runs <= MaxOrders
    /\ Main \notin hung
    /\ ~\E k \in DOMAIN task[Main] : task[Main][k].do = "reloaded"
    /\ orders' = orders + 1
    /\ before' = started
    /\ meddled' = (\E c \in Runners : ~Idle(c))
    /\ task' = [task EXCEPT ![Main] =
                   Ask("stop", Modes \cap started) \o Ask("stop", Services \cap started)
                       \o Ask("start", Services \cap started) \o Ask("start", Modes \cap started)
                       \o <<Job("reloaded", {})>> \o @]
    /\ UNCHANGED <<processVars, unitVars, grammar, coreVars, handlers, saved, runs,
                   promised, interrupted, overlapped>>

Reloaded ==
    /\ Do(Main, "reloaded")
    /\ before' = {}
    /\ Pop(Main)
    /\ UNCHANGED <<processVars, unitVars, grammar, coreVars, handlers, saved, boundVars, promised,
                   interrupted, meddled, overlapped>>

\* SIGTERM
RequestStop ==
    /\ phase # "down"
    /\ phase # "booting"
    /\ ~killed
    /\ killed' = TRUE
    /\ UNCHANGED <<phase, watching, hung, task, unitVars, grammar, coreVars, handlers, saved, boundVars,
                   historyVars>>

\* The loop of the main thread ends and the destructor begins.  A daemon waits
\* for the end of Buckey instead, which only the destructor brings about.
MainLoopEnds ==
    /\ phase = "running"
    /\ Idle(Main)
    /\ killed
    /\ ~Daemon
    /\ phase' = "stopping"
    /\ task' = [task EXCEPT ![Main] =
                   <<Job("join", {}), Job("truncate", {"services"}), Job("write", {"services"}),
                     Job("truncate", {"modes"}), Job("write", {"modes"}),
                     Job("shut", Modes), Job("shut", Services), Job("end", {})>>]
    /\ UNCHANGED <<killed, watching, hung, unitVars, grammar, coreVars, handlers, saved, boundVars,
                   historyVars>>

\* Wrong: does not wait for the runners.
BadJoinRunners ==
    /\ Do(Main, "join")
    /\ promised' = enabled
    /\ interrupted' = FALSE
    /\ Pop(Main)
    /\ UNCHANGED <<processVars, unitVars, grammar, coreVars, handlers, saved, boundVars, before,
                   meddled, overlapped>>

JoinRunners ==
    /\ Do(Main, "join")
    /\ watching = {}
    /\ promised' = enabled
    /\ interrupted' = FALSE
    /\ Pop(Main)
    /\ UNCHANGED <<processVars, unitVars, grammar, coreVars, handlers, saved, boundVars, before,
                   meddled, overlapped>>

\* The list is opened for writing, and written when all names are collected.
Truncate ==
    /\ Do(Main, "truncate")
    /\ saved' = [f \in DOMAIN saved |-> IF f \in Head(task[Main]).on THEN {} ELSE saved[f]]
    /\ Pop(Main)
    /\ UNCHANGED <<processVars, unitVars, grammar, coreVars, handlers, boundVars, historyVars>>

Write ==
    /\ Do(Main, "write")
    /\ saved' = [f \in DOMAIN saved |->
                    IF f \notin Head(task[Main]).on THEN saved[f]
                    ELSE enabled \cap IF f = "modes" THEN Modes ELSE Services]
    /\ Pop(Main)
    /\ UNCHANGED <<processVars, unitVars, grammar, coreVars, handlers, boundVars, historyVars>>

\* The objects are deleted; ~EventSource joins the handlers that are left, if
\* it does not wait for them without end (see Hang).
End ==
    /\ Do(Main, "end")
    /\ phase' = "down"
    /\ task' = [c \in Commanders |-> <<>>]
    /\ Fresh
    /\ UNCHANGED <<saved, boundVars, promised, interrupted>>

Saving == phase = "stopping" /\ \E k \in DOMAIN task[Main] : task[Main][k].do = "write"

\* A kill, or undefined behaviour that ends the process.
Crash ==
    /\ phase # "down"
    /\ runs < MaxRuns
    /\ phase' = "down"
    /\ task' = [c \in Commanders |-> <<>>]
    /\ Fresh
    /\ interrupted' = (interrupted \/ (Saving /\ ~Do(Main, "join")))
    /\ UNCHANGED <<saved, boundVars, promised>>

-----------------------------------------------------------------------------

Step(c) ==
    \/ \E u \in Units : Begin(c, u)
    \/ Add(c)
    \/ Remove(c)
    \/ Rise(c)
    \/ Fall(c)
    \/ Load(c)
    \/ Delete(c)
    \/ Listen(c)
    \/ Deafen(c)
    \/ Tell(c)

MainStep ==
    \/ Watch
    \/ Ready
    \/ Reloaded
    \/ MainLoopEnds
    \/ JoinRunners
    \/ Truncate
    \/ Write
    \/ End

Next ==
    \/ Boot
    \/ \E c \in Commanders : Step(c) \/ Hang(c)
    \/ MainStep
    \/ Reload
    \/ RequestStop
    \/ Crash
    \/ \E c \in Runners, op \in {"start", "stop", "enable", "disable", "reload"}, u \in Units :
            Command(c, op, u)
    \/ \E c \in Runners : Quit(c) \/ RunnerEnds(c)
    \/ HandlerTest
    \/ HandlerAdd

Spec == Init /\ [][Next]_vars

\* Every thread that does not hang goes on, one condition for each commander and
\* one for the handlers; users, signals and crashes need not come.  The lines
\* that the main thread reads from its terminal are whole.
Fairness ==
    /\ WF_vars(Step(Main) \/ MainStep)
    /\ \A c \in Runners : WF_vars(Step(c) \/ RunnerEnds(c))
    /\ WF_vars(HandlerTest \/ HandlerAdd)

FairSpec == Spec /\ Fairness

-----------------------------------------------------------------------------
(* Properties                                                              *)

TypeOK ==
    /\ phase \in {"down", "booting", "running", "stopping"}
    /\ killed \in BOOLEAN
    /\ watching \subseteq Runners
    /\ hung \subseteq Commanders
    /\ DOMAIN task = Commanders
    /\ started \subseteq Units
    /\ enabled \subseteq Units
    /\ grammar \subseteq Modes
    /\ coreGrammar \in {"none", "live", "deleted"}
    /\ listening \in Nat
    /\ held \in BOOLEAN
    /\ handlers \in [test : Nat, add : Nat]
    /\ saved \in [modes : SUBSET Modes, services : SUBSET Services]

\* Between operations a mode can be reached through the root grammar exactly
\* if it is started, unless two commanders worked on one unit at once.
ReachableIffStarted ==
    Quiet /\ ~overlapped => \A m \in OtherModes : m \in started <=> m \in grammar

\* reload() brings back what ran before, if no command came in between.
ReloadRestores == Do(Main, "reloaded") /\ ~meddled => started = before

\* A new run enables and starts what was enabled when the last orderly end
\* began to save it, and the core mode, unless a crash hit between the two
\* writes of the lists.
RestartRestores ==
    phase = "booting" /\ watching # {} /\ ~meddled /\ ~interrupted
        => enabled = promised \cup {Core} /\ started = enabled

\* After a start the user can reach the core mode in the end, unless SIGHUP or
\* a command reloads it, or Buckey ends.
CoreBecomesReachable ==
    phase = "running" ~> (Core \in grammar \/ orders > 0 \/ phase # "running")

\* A stop that was requested ends the process: the runners end, also when it
\* finds them at work, the lists are saved, and no SIGHUP in between keeps the
\* destructor from its end.  It does not in a daemon, nor when a start, a stop
\* or a destructor never returns or the SIGHUP comes while its lock is held.
StopEndsBuckey == killed ~> (phase = "down" \/ Daemon \/ hung # {})

-----------------------------------------------------------------------------
(* What the documentation says and the code does not do                    *)

\* "Reloads all services and then reloads all modes": the core mode, started
\* again, can be reached again.
CoreReachableAgain ==
    (phase = "running" /\ Core \in started)
        ~> (Core \in grammar \/ killed \/ phase # "running" \/ hung # {})

=============================================================================
