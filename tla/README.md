# Verification of Buckey

Buckey is a voice and text assistant: one process in which a console, a UNIX
socket and a speech recogniser feed commands to *modes*, and *services* listen
and speak. This directory holds TLA+ models of its concurrent core, the TLC
runs that check them on small instances, and theorems about them that TLAPS
checks for every value of the constants.

Paths below are relative to the repository (`src/core` stands for
`src/src/core`, headers are in `src/include`).

## The system

| Component | State it keeps | Operations | What is hard |
|---|---|---|---|
| Conversation and input queue (`core/Buckey.cpp`, `core/EchoMode.cpp`) | `inputQue`, `inConversation`, `conversationMutex`, `killed` | `passInput`, `watchInputQue`, `passCommand`, `startConversation`, `promptConfirmation`, `endConversation`, `requestStop` | the flag and the two mutexes are separate; the watcher, the socket's thread and the thread in a prompt all act on the queue; timeouts race with answers |
| Event source (`core/EventSource.cpp`), base class of Buckey and of the speech services | listeners by event type, `nextID`, the vector of handler threads with their `done` flags, `requestJoin` | `addListener`, `unsetListener`, `clearListeners`, `triggerEvents`, the manager thread, `killThreads` | two mutexes, one thread per event and listener, joins under the lock, listeners that trigger events |
| Registry of modes and services (`core/Buckey.cpp`, `core/CoreMode.cpp`, `core/EchoMode.cpp`, `main.cpp`) | states of modes and services, the enabled lists in memory and on disk, the root grammar, the core mode's grammar and listeners | enable, disable, start, stop, reload, `init`, the destructor, signals | three threads give commands without a lock; SIGHUP interrupts the main thread; the lists are written at the very end |
| Sphinx recognition loop (`sphinx/SphinxService.cpp`, `sphinx/SphinxMode.cpp`) | the loop's `std::thread`, `endLoop`, `manageThreadRunning`, `recognizing`, `pressToSpeakMode`, the button, `updateLock` | start, stop, reload, the two kinds of loop, push to talk, toggle | four flags shared without a lock; the loop itself takes back a stop |
| Sphinx decoders (`sphinx/SphinxService.cpp`, `sphinx/SphinxDecoder.cpp`) | per decoder a state, `ready`, the grammar set and the one loaded; `currentDecoderIndex` | utterances and their threads, pause and resume, the failover, `updateJSGFPath`, `applyUpdates` | decoders are shared by the loop, hypothesis threads and updates without a lock |
| Speech (`tts/MimicTTSService.cpp`) | two states (one uninitialised), `stopRequest`, `currentlySpeaking`, the listener's id, prepared audio | start, stop, reload, `handleOutputs`, `asyncSpeak`, `speak`, `prepareSpeech` | a flag used as a lock; a hidden member; speech threads that outlive a stop |
| UNIX socket (`core/Buckey.cpp`, `main.cpp`) | the backlog, the reader's buffer, its line and `currentReadSize` | accept, receive, split into lines; connect, send, leave | lines cut by the buffer, lines left unfinished, a limit at both ends, one connection at a time |
| Process (`main.cpp`) | lock file, directories, signals, the main loops | start, command line, `-c`, daemon, end | several invocations race for directories, lock and socket; a fork does not inherit the lock; processes die |
| Sound effects (`core/Buckey.cpp`) | `soundsPlayingCount` | play, the mixer's callback | nothing reads the count; not modelled |
| Dynamic grammar, filters, logging, temporary files, event data | strings, text files, counters | - | pure or trivial; see "Not modelled" |

How they interact: front ends call `passInput`; the watcher pops and calls
`passCommand`, which matches the root grammar and calls a mode's `input`; modes
converse on the calling thread, change the registry or press the button of the
recogniser. `reply` triggers an event of Buckey's event source; the speech
service listens to it and speaks. Enabling and disabling trigger events that
CoreMode and SphinxMode listen to; each handler runs in a thread of its own.
Prompts and enables set grammars of the recogniser, which calls `passInput`.

What makes each correct:

- conversation: inputs are taken once and in order; what is entered in a
  conversation stays in it; one conversation at a time; what a prompt reports
  has a cause in it; all ends after a stop;
- event source: no thread is destroyed while it runs, and none is lost that was
  started before the destruction; events reach the listeners that are there and no
  others, once each; nobody waits forever;
- registry: what is started can be reached; a reload and a restart bring back
  what they should; a stop ends the process;
- recognition: one loop at a time and one that can be joined; a stop ends it;
  updates reach every decoder; a decoder that was used becomes usable again;
- speech: replies are spoken once; who waits for silence gets it; a prepared
  sound says the words of its line;
- process and socket: one Buckey at a time, with its temporary directory; what
  is typed at a command line reaches it whole and in order.

`PROJECT.json` lists the hazards line by line with the properties that
would catch each of them going wrong.

## Modules

| Module | Models | Grain of an action |
|---|---|---|
| `Conversation` | input, watcher, readers, prompts | one access to a mutex, to the flag or to the queue; one pass of a polling loop |
| `InputRouting` | *abstract*: what input and conversations promise | one delivery, one change of the floor |
| `EventSource` | listeners, handler threads, manager, `killThreads` | one lock, one critical section, one store another thread can see |
| `RecognitionLoop` | the life of the loop and the commands on it | one access to the shared flags, to `recognizerLoop` or to `updateLock` |
| `SphinxDecoders` | decoders, utterances, pauses, updates | one access to a decoder or to the current index |
| `MimicSpeech` | from a reply to the sound; start, stop, reload | one access to a flag or a state |
| `Registry` | modes, services, root grammar, lists, signals, runs of the process | one step of an operation of a unit |
| `PreparedAudio` | the list of prepared audio on disk and in memory over several runs of the process | one access to a file, to `lastAudioIndex` or to `preparedAudio` |
| `SocketReader` | the thread that reads the UNIX socket | one accept, one recv, one character |
| `Invocations` | the processes around the socket; composes `SocketReader` with them | one system call |
| `MCInvocations`, `MCPreparedAudio` | what is typed and sent, the lower case of each text | - |
| `...Proofs` | theorems about the eight that are run | - |

The bounds are constants of the modules, so most `.cfg` files instantiate a module
directly; the two MC modules define the constants that are sequences and functions.
In every module the operators called `Bad...` are plausible mistakes in the
operator they precede. No specification uses them: with one put in the place of
the correct operator, a property of the run must fail, which shows that the
property says something about the code.

### Conversation

`pc[t]` is the place of a thread in the code: the watcher goes `idle`, `pop`
(inputQueMutex held, between `!isInConversation()` and `pop`), `match`; a
thread whose command leads to a conversation goes `start`, `flag`, `check`,
`poll`, `end`, `clear`, which are the lines of `startConversation`, of the loop
of `promptConfirmation` and of `endConversation`. Readers are threads of the
socket, which run lines with a leading `:` themselves, also after a stop: the loop
over a received buffer does not test `killed`. `passed`, `taken` and `begunAt` are
history variables. Texts are model values; which of them a grammar matches is
given by `Conversational`, `QuitCommands` and `Confirm`, and `PassCommand` may
always find that a command matches nothing.

`Conversation` is shown to implement `InputRouting`: the queue is the waiting
line, the owner of the mutex has the floor, the history of takes is what was
delivered. Flags, clocks and polls disappear.

The watcher tests the flag and pops later, so it can take an input as a command
while a conversation is on. `ConversationKeepsItsInputs` says how far this
goes: only an input that waited before the flag was set is taken so, since nobody
else can queue anything between the watcher's test and its pop (`QueueUnlocked`).

### EventSource

`triggerEvents` is its test of `requestJoin` (`TriggerEvents`), its wait for the
lock (`LockSpawn`) and its loop over the listeners (`Spawn`). `addListener` holds
`idLock`, not the lock under which lists are walked, erased from and looked up. What
overtook the thread in such a section is kept in `torn`: push-backs onto its list, and
insertions of another type into the map. The thread may then work on the list as it
was, find no list at all, lose its erase or the listener that was added, or the process may
die (`Crash`). An insertion can also get lost against the erase of another type
(`InsertionRaces`). `raced` collects the listeners whose fate is open from then
on. A caller that is past the test of `requestJoin` when the object is destroyed
(`late`) gets the lock after the joins and starts threads that are in no vector. The
constructor leaves `nextID` uninitialised: `Init` takes any id and `AddListener`
counts modulo 2^w. Handlers are of three kinds: those that report done, those
that never do, and those that trigger an event of their own source first. The
manager reaps handlers that reported done, in any order; it waits for their
return with the lock held.

### RecognitionLoop

A command is a script, a sequence of steps in `todo`: `ServiceUp` is the
order of accesses in `start()`, `ServiceDown` in `stop()`, `OtherLoop` in
SphinxMode's change of the kind of loop, `ServiceEnd` in the destructor. A loop
goes `begin`, `lock`, `open`, `ready`, `loop`, `record`, `closing`, `returned`.
What the audio holds, the paused flag and the states of the decoders are left out. A loop whose
device does not open returns with `updateLock` held and `manageThreadRunning` set, as
in the code. One that cannot read from it, or has no good decoder left, calls
`killThreads` (`kill`) and then goes on (`stop`, the push-to-talk loop after its inner
loop), returns or calls `exit`. `JoinManager` is what that call does to the manager thread of the service's
events: it joins it, waits for it without end (the `event_source_kill` run shows how), or, the
second time, terminates the process; `~EventSource` is the call after which the
service is gone (`Delete`). One thread at a time commands the service; the unlocked races between
commanders are in Registry.

### SphinxDecoders

Both kinds of loop, chosen in `Init`. `Frame` is one pass of the loop with its
failover, `GiveUp` the pass that finds no decoder and calls `killThreads`, of which the loop may
not return, and the press-to-speak loop returns once at most (`joined`). Nobody in
the repository listens to the events of the recogniser, so that their end changes
nothing else here. `EndOfSpeech` hands the decoder to a thread (`HypEnd` ..
`HypStart` are the calls in `endAndGetHypothesis`), `Refresh` is one index of
`refreshCurrentDecoder`. An update writes the grammar of each decoder and runs
`applyUpdates`, whose locals are the registers. `decodersDone` is read
uninitialised in the code, so `TestRecognizing` gives it any contents and
`stray` records that they held an index. The failover adds the index to itself;
it leaves the range only with at least four decoders and a failed decoder that is
`ready` (see "Proofs"). `ps_start_utt` fails if an utterance is
open; `ps_init` may fail and leave nothing loaded.

### MimicSpeech

`TTSService::state` hides `Service::state` and is never initialised: `hidden` is
chosen in `Init` (RUNNING is 0; STARTING; anything else). `start()` and `stop()`
are their accesses in order. A reply starts one speech for each listener, which
goes `heard` (`handleOutputs`), `asked` (`speak`), waits for its turn, starts,
plays. A sound that fails leaves `currentlySpeaking` set, and a `stop()` that reads
STARTING polls for another value that nobody writes. The event source is
taken to work: a handler call per listener. Whether words are in the list of
prepared audio is a free choice here; the list itself is PreparedAudio. The model
also has the case of two speakers that find `currentlySpeaking` clear before
either sets it: the first to end then clears the flag under the other, which
contradicts the comment of `isSpeaking` (`include/tts/MimicTTSService.h:57`).

### PreparedAudio

The list and the sound files survive the process; everything else starts afresh
with `End`, which can come anywhere, also between the opening of a sound file
and its writing, and between the sound and its line. A start of the service reads
the list line by line (`BeginLoad`, `ReadLine`, `EndLoad`) and adds to what
`preparedAudio` holds already; `Stop` leaves it there. `InitFinished` is the
handler of `CoreMode` that prepares what Buckey often says; the steps of
`prepareSpeech` follow the order of its accesses. An entry it pushes has the end
of the line in its words (`ended`), and the lookup of `speakPreparedSpeech` is not
in lower case: both are why a text that was prepared is played from its file
only in a later run and only if it has no capitals.

### SocketReader and Invocations

`Invocations` has a place `at[p]` for each process: the tests and the creations of
`setupDirectories` (`config`, `assets` and their parts as one directory `core`),
`ready` before the lock, `fork`, `parent` and `child` of `daemonize`, `init` and `up` of
a Buckey, `connect` and `client` of a command line. The lock is the kernel's: a
child does not have it, and the end of a process gives it up. `Die` is the end at
any other point; a process that dies between the removal and the creation of
the temporary directory goes to `cut`, so that the property can tell. A
`stranger` is another program that connects to the socket.

`SocketReader` has one connection at a time (`socket2Handle`), the rest of what
recv returned (`readBuffer`), the line so far (`s`) and the count that must not
exceed the limit. A stream is a sequence of letters, colons and ends of lines;
the kernel's part (`backlog`, `stream`, `closed`) is external. What the two show besides the properties:

- a line over the limit makes the reader deaf: neither line nor count is reset,
  so each later character ends the loop over its buffer (`Buckey.cpp:427`), until Buckey ends. Command lines
  refuse such lines; `LinesAreTaken` therefore excepts other programs (`Strayed`);
- a client that leaves in the middle of a line leaves its count behind, which
  shortens the next line;
- while a connection is open nobody else is served (`Kept`);
- a `-d` fails if its parent still holds the lock when the child tries it, and
  an invocation that meets another between the removal and the creation of the
  temporary directory ends with "This bug should never happen!" (`main.cpp:260`);
- every invocation, also one that only sends a command, removes the temporary
  directory of the running Buckey with what is in it.

### Registry

Each commander (main thread, watcher, reader) has a stack of tasks; `Up` and
`Down` are the steps of `start()` and `stop()` of a unit. Operations over
several units take them in any order. `Reload` pushes its tasks on top of what
the main thread does, since SIGHUP interrupts it, also in the destructor.
`updateGrammar` handlers are counted by what they do next. `Truncate` and
`Write` are the opening and the writing of a list; `Crash` can come anywhere,
and stands also for undefined behaviour (deleting the core grammar twice, using
it deleted) that ends the process. `Hang` is a start or stop of a service, or a
destructor, that never returns (the other modules show when), or a `reload` on
the main thread that waits for a lock held by what SIGHUP interrupted
(`logLock`, `rootGrammarLock`, Buckey's `threadManipulationLock`): the commander
then takes no step more. SIGHUP is taken by the main thread; that the system may
hand it to another thread of the process is left out. `Daemon` switches between
the two main loops of `main.cpp`: that of a daemon waits for `isRunning()`,
which only the destructor it calls afterwards changes, so with `Daemon = TRUE` a
requested stop does not end the process (`main.cpp:166`).

## Runs

| Run | Configuration | Shows |
|---|---|---|
| `conversation` | `Conversation.cfg` | inputs once and in order, none entered in a conversation run as a command, one conversation, outcomes with causes, the flag always has a thread that clears it, implementation of `InputRouting` with its fairness, the end after a stop |
| `event_source_safety` | `EventSource_safety.cfg` | two callers add, erase, trigger and destroy, with two types of events: ids, threads, calls |
| `event_source_live` | `EventSource_live.cfg` | nested and silent handlers: done threads are reaped, callers return |
| `event_source_kill` | `EventSource_kill.cfg` | **violation**: `killThreads` deadlocks with the manager |
| `recognition_loop` | `RecognitionLoop.cfg` | one joinable loop, the right kind of loop, a stop ends it, with faults everywhere |
| `recognition_loop_stop` | `RecognitionLoop_stop.cfg` | **violation**: a stop right after a start is lost |
| `registry` | `Registry.cfg` | reachability, reload, restart after an orderly end and crashes, end of the process |
| `registry_core` | `Registry_core.cfg` | **violation**: after a reload the core mode cannot be reached |
| `mimic_speech` | `MimicSpeech.cfg` | each reply once, flag and listener consistent, stop returns |
| `sphinx_decoders` | `SphinxDecoders.cfg` | updates reach all decoders, decoders come back, `applyUpdates` returns |
| `prepared_audio` | `MCPreparedAudio.cfg` | sounds match their lines, no text is listed twice |
| `invocations` | `MCInvocations.cfg` | one Buckey, its temporary directory, lines arrive whole, in order and in the end |

Deadlock is not checked where the system may stop: after a requested stop,
after the end of the process, and when all bounded commands have been given.

### Bounds

- Conversation: the watcher and one reader (the code has one), three inputs of
  three texts, one or two commands of the reader. Two conversations compete, an
  input comes before, during and after a prompt, and answers have an order.
- EventSource: two callers, two listeners of two types, one call (safety: a call,
  an erase and an addition overlap in every order, with the destruction, and an
  erase and an addition of one type or of two); an outer and an inner event with all
  kinds of handlers and three calls (liveness). Three ids make the counter wrap.
- RecognitionLoop: three commands, so a start, a stop and a start; faults at
  every point; one caller of `applyUpdates`, which may call again and again.
- SphinxDecoders: two decoders (the default), two updates (one overtakes the
  other), one utterance, one pause, one failure.
- MimicSpeech: two replies, two commands by two threads, one failed sound; a
  reload is a stop and a start, so replies meet two listeners.
- PreparedAudio: three texts to prepare, one of them with a capital, whose lower
  case is a fourth; four runs of the process, three starts of the service in each;
  a file for every preparation that can happen.
- Invocations: three processes of any role (a Buckey or a parent and its child,
  and one or two others), two lines for each, a buffer of two characters and a
  limit of three, so that lines are cut in every place and end at, below and
  above the limit; a backlog of one, as in the code.
- Registry: one mode besides the core mode, one service, three commanders, two
  commands or SIGHUPs in the first run of the process and, after a crash or an
  end, one in a second run in which the first had none: what a command changed is
  brought back by the next run, and two commands in one run meet each other.

### Fairness

Threads are scheduled: weak fairness of each thread's steps. Strong fairness is
assumed of a wait for a mutex whose other users leave it free in between: the
manager sleeps a millisecond between passes and every other thread asks once.
In `SphinxDecoders` strong fairness of `Release` and of the frame that ends an
utterance is an assumption about *users* (they let go of the button and fall
silent), which `applyUpdates` depends on. Clocks advance (`Expire`). In
`Invocations` only the reader is fair: what it passes on depends on nobody else.
Users, signals, faults and crashes have no fairness.

### Conditions in properties

Some properties hold only while the code's other weaknesses do not strike, and
say so in their statement:

- `overlapped`: two commanders worked on one unit or on the service at once; in PreparedAudio,
  a start of the service met a preparation;
- `faults` and `failed`: a device or pocketsphinx failed;
- `manager = "stuck"`: `killThreads` waits without end (`StopEndsTheLoop`, only of a loop that met a fault);
- `hidden = "STARTING"`: what the uninitialised state of the speech service holds (`StopReturns`);
- `hung` and `Daemon`: a commander waits without end, or the main loop is that of a daemon
  (`StopEndsBuckey`);
- `stray`: an uninitialised array held an index;
- `meddled` and `interrupted`: a command came in between; a crash hit the writing of the lists;
- `raced`: an unlocked `addListener` overtook an erase, and one of the two is lost;
- `late`: a call of `triggerEvents` was under way when the object was destroyed;
- `Crashed`: the vector or the map moved under who worked on it.

In each of these cases the model shows the code to misbehave; the hazards list
names the lines. The cases stay in the runs: the conditions restrict the claim,
not the behaviour.

## Findings

1. `core/EventSource.cpp:22`: the destructor of an event source can hang.
2. `sphinx/SphinxService.cpp:200`: a loop clears the stop that came before it got there.
3. `core/CoreMode.cpp:53`: no reload puts the core mode back into the root grammar.

Not a run of their own, but states the models reach in spite of what the
documentation says:

- an input that waited before a conversation began can be run as a command during
  it (`core/Buckey.cpp:505`), though in a conversation the mode that holds it is
  "responsible for checking and processing input" (`doc/buckey-io.txt:9`);
- `requestStop` "should trigger the shutdown of Buckey" (`core/Buckey.cpp:1035`);
  it does not in a daemon (`main.cpp:166`), nor when a service, a destructor or the main thread hangs;
- `killThreads` is "called by the destructor to join all event listener threads"
  (`include/core/EventSource.h:42`); those of a late call are joined by nobody;
- `addListener` "does not invalidate the event list" (`core/EventSource.cpp:83`); a
  `push_back` that reallocates does;
- what is named above under MimicSpeech, PreparedAudio, Invocations and Registry.

## Proofs

`tlapm` checks eight modules, for every value of the constants their named
assumptions allow: any number of threads, modes, units, listeners, updates,
commands or crashes. Each safety property of the passing runs is proved; liveness
is not. (The proofs are of `Spec`; they do not use fairness.) The strengthened
invariants were first checked by TLC on the constants of the runs.

- `ConversationProofs`: `TypeCorrect`; `OnlyOneConversation` (the thread between
  lock and unlock is the owner of the mutex, an invariant inductive given the
  types); `TheFlagIsCleared`; `OutcomesAreCaused` (inductive given
  `OneConversation`: while a thread is at the end of its prompt the others only
  append commands to the history, so that what it took stays its last answer);
  `InputsAreTakenOnceInOrder` (a lemma says that
  `Take` keeps the line; the rest leave it or append to it);
  `InputsStayInTheConversation`, an action property: while the watcher is between
  its test and its pop nobody queues an input, so that if a conversation begins
  then, all that waits was there before its flag; `ConversationImplementsRouting`: initial states
  map to initial states and each action to `Enter`, `Deliver`, `TakeFloor`,
  `LeaveFloor`, `Close` or a stutter, with `OneConversation` to show that who
  leaves the floor has it.
- `EventSourceProofs`: `TypeCorrect` from four lemmas, one per part of the type
  invariant; `TheLockProtects`; `ThreadsAreAccounted`: a thread leaves the
  vector only by a join, a joined thread has returned and stays so, and once the
  object is gone only a call in `late` can still be past the test.
  `ListenersHaveOwnIds`: `IdsInv` says that the ids in the lists and the erased ones
  are, with the lost ones, the last `adds` values of the counter modulo 2^w, each once; up to 2^w
  additions the next id is none of them. `ErasedNeverRuns` follows from it: a
  call spawns from what is left of a list, and an erased id is not there unless it is in `raced`.
  `EventsReachListeners`: `EventInv` says that the listeners a waiting call knew are
  still before the part of the list that it may miss, which is
  at its end (`torn`), and `DeadTogether` that a crash leaves no thread behind.
- `RecognitionLoopProofs`: `OnlyOneLoop` and `JoinsAreOfLoops` are not inductive,
  because a launch is safe only for what precedes it. `Inv` adds `ScriptOK` (in
  what is left to do, a launch follows a test or a join, or comes first when no loop is left;
  a join comes first and has something to wait for) and `FlagOK`
  (`manageThreadRunning` speaks of a loop that can be joined, unless one
  failed), and `ManagerOK` (the manager is joined only by a loop that failed or by the
  destructor, which ends the service). Lemmas say that the scripts of all calls are in order and that
  dropping a step or putting a join in front keeps them so; then there is one
  lemma per kind of step. `ModeIsTheLoops` needs `ModeKept`: `start()` may take the mode
  from a press-to-speak loop that is alive, but then the button is up, nothing
  is recognised and a launch is still ahead, which waits for that loop.
- `RegistryProofs`: `ReachedIfStarted`, `ReloadBringsBack`, `RestartBringsBack`. What a
  commander will do is in its stack of tasks, so the invariant is about stacks:
  which tasks there are in each phase and what follows what (`BootingOK`,
  `RunningOK`, `StoppingOK`); that one commander moves a mode at a time, with state
  and root grammar alike at the end (`MovesOK`); that the rest of a reload stops
  what runs before it starts it, and starts exactly what ran (`RestartOK`); that each
  list on disk is what was enabled or is about to be written (`ListOK`); and that at
  the start of a run what was promised is enabled or will be, and what is enabled
  is started or will be (`EnablesOK`, `RisesOK`). A section of lemmas says what
  pushing and popping do to "follows" and "has"; then there is one lemma per
  kind of task. `CountsOK` holds on its own: who has CoreMode's listener id unsets
  a listener that is there.
- `MimicSpeechProofs`: `TheFlagIsCleared` is inductive given the types.
  `ListensOnceIfRunning` and `RepliesAreSpokenOnce` hold of commanders that never
  met: then one works at a time, where it is tells state and listeners
  (`ServiceOK`), and a reply is heard under one id (`HeardOnce`), because a
  start comes after a stop that took the old listener away. `CountOK`, a
  cardinality, shows that the ids of the model suffice.
- `SphinxDecodersProofs`: `UpdatesReachDecoders` (`Applied`: a decoder has the grammar
  that was set last, or an update has yet to load it; `RegistersOK`: what is
  in `decodersDone` are different decoders, so that as many of them as there are
  decoders are all of them) and `DecodersReturn` (`Fine`: for a decoder that
  is not open somebody is in charge who will open it). Both are proved for any
  number of decoders as long as `currentDecoderIndex` is that of a decoder, and
  without that condition for three decoders or fewer (the default is two).
  The condition is not idle: see below.
- `InvocationsProofs`: `OnlyOneBuckey` and `TempDirIsBack`. `ProcessInv` says that
  who is between the lock and the end of Buckey owns the lock, and that with a process
  past its set-up the temporary directory is there or somebody is between its
  removal and its creation. `MoveOK` proves it for any step that moves one process;
  each action is then shown to be such a move. `TypeCorrect` adds the reader's types.
  `LinesDoArrive`: as long as the count is within the limit, the line so far, the buffer
  and the stream of a command line, in this order, are cut into the lines it
  sent that were not passed on (`StreamsOK`). `Cut` says so with a function from
  lines to their ends instead of a recursive concatenation, so that no induction
  over the lines is needed: `CutGrows` adds a line at the end, and `CutPasses` shows that the
  first end of a line that is read is the end of the first line there is.
- `PreparedAudioProofs`: `SoundsOfLines` and `ListedOnce`. While no start met a
  preparation, `Good` holds: lines have their sounds, entries point at lines, the
  file in progress is the one after the last line, what was listed before this
  run is in memory once it was loaded (`Known`) and the rest was taken up in this
  run (`Taken`). The last is why nothing is listed twice although the entries
  that `prepareSpeech` pushes match no text: a text is prepared once in a run, and
  two texts of Buckey's own differ in lower case, too (an assumption).

The type invariants of `RecognitionLoop`, `Registry`, `MimicSpeech`, `Invocations`
and `PreparedAudio`, and `LockProtects` of `EventSource`, are proved and not part
of a run.

What an attempt to prove showed: with four decoders or more the failover
(`sphinx/SphinxService.cpp:294` and `:482`) can leave the decoders. It adds
the index of the failed decoder to itself; an utterance's thread and an update
that overlap on a decoder can leave it failed but `ready`, and the recogniser takes
it. TLC finds this in 44
steps from the initial state with four decoders, one update and four utterances: the
current decoder is the third, and 4 is stored. With three decoders no
index below the last one leaves them when it is doubled (`InvarianceToThree`).

Only model-checked: the liveness properties (`ImplementsFairRouting` and
`StopEndsTheThreads` of `Conversation`, `DoneIsReaped` and `CallsReturn` of `EventSource`, and so on;
liveness under fairness and ENABLED are beyond the prover), and the
violations of the three runs that show one.

## Not modelled

- Dynamic grammar: wraps a vendored grammar library; Registry takes the root
  grammar for the set of modes it has a rule for. The word filters are called by
  nobody; the string helpers are pure functions. Event data: value classes. Logging and temporary files: one
  lock around a write or a counter.
- Sound effects: `soundsPlayingCount` is read by nobody, and
  `soundEffectChannels`, by which a sound that was not waited for would be
  counted off, is never filled.
- The history of the speech service and `prepareList` are used by nobody.
- `-i` is in the usage text and not among the options `getopt` is given; options that only print, and
  failing system calls that end the process at once, are left out.
- Recognition from a file, recording to a file and adding words to a dictionary.
- CoreMode's listings and the wording of replies change no state.

## Plan

Done, in this order: Conversation with InputRouting, EventSource,
RecognitionLoop, Registry, MimicSpeech, SphinxDecoders, SocketReader with
Invocations, PreparedAudio; proofs of the safety properties of all of them.

Next:

1. What a proof can say of the steps behind the liveness properties: that who
   waits can be overtaken only by what the bounds and the conditions name.
2. Abstract specifications for the registry (enabled sets that survive a
   restart) and for speech (each reply spoken at most once), with refinement.
3. The prompt handlers of the recogniser and what recognition from a file adds.
