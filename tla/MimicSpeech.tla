------------------------------ MODULE MimicSpeech ------------------------------
(***************************************************************************)
(* The speech of the mimic service (src/tts/MimicTTSService.cpp): from a   *)
(* reply of Buckey to the sound, and the start and stop of the service.    *)
(*                                                                         *)
(* A reply is an event; the listener handleOutputs runs in a thread of its *)
(* own and asks for speech with a second event, whose handler speaks in    *)
(* yet another thread.  Speakers take turns by polling currentlySpeaking,  *)
(* which is tested in one step and set in another.  Whether the service    *)
(* runs is kept twice: in Service::state, which start() and stop() set and *)
(* getState() returns, and in TTSService::state, which hides it from speak *)
(* and stop, and which nothing ever initialises or sets.                   *)
(*                                                                         *)
(* The listeners and threads of EventSource are taken to work here: one    *)
(* call of a handler per listener and event.  Deleting the service is left *)
(* out.                                                                    *)
(***************************************************************************)
EXTENDS Naturals, FiniteSets

CONSTANTS Replies,     \* what Buckey says
          Commanders,  \* the threads that start and stop services
          MaxCommands, \* bounds: commands, and sounds that fail to play
          MaxFaults

ASSUME SpeechAssumption == {MaxCommands, MaxFaults} \subseteq Nat

VARIABLES hidden,            \* TTSService::state
          state,             \* Service::state
          stopRequest,
          currentlySpeaking,
          listeners,         \* the ids under which handleOutputs listens
          onOutputHandle,    \* the id the service remembers, 0 before the first
          at,                \* where each commander is
          again,             \* the commanders that start after they stopped
          said,              \* the replies said so far
          speech,            \* how far the speech for each reply and listener is
          commands, faults,  \* counters for the bounds
          silenced,          \* history: the replies said before or during a stop
          overlapped         \* history: two commanders worked on the service at once

commandVars == <<state, listeners, onOutputHandle, at, again, commands, overlapped>>
speechVars  == <<said, speech, faults>>
vars == <<hidden, state, stopRequest, currentlySpeaking, listeners, onOutputHandle, at, again,
          said, speech, commands, faults, silenced, overlapped>>

-----------------------------------------------------------------------------

Ids     == 1 .. MaxCommands
Threads == Replies \X Ids

CommanderPlaces == {"idle", "start", "starting", "load", "up", "listen",
                    "stop", "silence", "await", "unlisten", "down", "spin"}

\* No thread; in handleOutputs; in speak; waiting for and getting the turn for
\* a prepared and for a new sound; playing; and the three ends.
SpeechPlaces == {"none", "heard", "asked", "waitPrepared", "startPrepared",
                 "waitNew", "startNew", "playing", "spoken", "dropped", "failed"}

Goto(c, place)     == at' = [at EXCEPT ![c] = place]
Progress(t, place) == speech' = [speech EXCEPT ![t] = place]

\* The state that is never initialised may be RUNNING, whose value is 0,
\* STARTING, or anything else.
Init ==
    /\ hidden \in {"RUNNING", "STARTING", "other"}
    /\ state = "STOPPED"
    /\ stopRequest = FALSE
    /\ currentlySpeaking = FALSE
    /\ listeners = {}
    /\ onOutputHandle = 0
    /\ at = [c \in Commanders |-> "idle"]
    /\ again = {}
    /\ said = {}
    /\ speech = [t \in Threads |-> "none"]
    /\ commands = 0
    /\ faults = 0
    /\ silenced = {}
    /\ overlapped = FALSE

-----------------------------------------------------------------------------
(* Start, stop and reload                                                  *)

\* enableService, startService, disableService, stopService, reloadService:
\* none of them tests the state.
Command(c, op) ==
    /\ at[c] = "idle"
    /\ commands < MaxCommands
    /\ commands' = commands + 1
    /\ Goto(c, IF op = "start" THEN "start" ELSE "stop")
    /\ again' = IF op = "reload" THEN again \cup {c} ELSE again
    /\ overlapped' = (overlapped \/ \E d \in Commanders \ {c} : at[d] # "idle")
    /\ UNCHANGED <<hidden, state, stopRequest, currentlySpeaking, listeners, onOutputHandle,
                   speechVars, silenced>>

\* Wrong: starts what runs already.
BadStart(c) ==
    /\ at[c] = "start"
    /\ Goto(c, "starting")
    /\ UNCHANGED <<hidden, state, stopRequest, currentlySpeaking, listeners, onOutputHandle,
                   again, commands, speechVars, silenced, overlapped>>

Start(c) ==
    /\ at[c] = "start"
    /\ Goto(c, IF state \in {"RUNNING", "STARTING"} THEN "idle" ELSE "starting")
    /\ UNCHANGED <<hidden, state, stopRequest, currentlySpeaking, listeners, onOutputHandle,
                   again, commands, speechVars, silenced, overlapped>>

SetStarting(c) ==
    /\ at[c] = "starting"
    /\ state' = "STARTING"
    /\ Goto(c, "load")
    /\ UNCHANGED <<hidden, stopRequest, currentlySpeaking, listeners, onOutputHandle,
                   again, commands, speechVars, silenced, overlapped>>

\* Wrong: forgets that the stop is over.
BadLoad(c) ==
    /\ at[c] = "load"
    /\ Goto(c, "up")
    /\ UNCHANGED <<hidden, state, stopRequest, currentlySpeaking, listeners, onOutputHandle,
                   again, commands, speechVars, silenced, overlapped>>

\* Configuration, voice and list of prepared audio; then speech is allowed.
Load(c) ==
    /\ at[c] = "load"
    /\ stopRequest' = FALSE
    /\ Goto(c, "up")
    /\ UNCHANGED <<hidden, state, currentlySpeaking, listeners, onOutputHandle,
                   again, commands, speechVars, silenced, overlapped>>

SetRunning(c) ==
    /\ at[c] = "up"
    /\ state' = "RUNNING"
    /\ Goto(c, "listen")
    /\ UNCHANGED <<hidden, stopRequest, currentlySpeaking, listeners, onOutputHandle,
                   again, commands, speechVars, silenced, overlapped>>

\* The id is a new one.
Listen(c) ==
    /\ at[c] = "listen"
    /\ onOutputHandle' = onOutputHandle + 1
    /\ listeners' = listeners \cup {onOutputHandle'}
    /\ Goto(c, "idle")
    /\ UNCHANGED <<hidden, state, stopRequest, currentlySpeaking, again, commands,
                   speechVars, silenced, overlapped>>

\* stop() goes by the state that hides the one of Service; it waits without
\* end for a STARTING that nothing changes.
Stop(c) ==
    /\ at[c] = "stop"
    /\ \/ hidden = "RUNNING" /\ Goto(c, "silence") /\ UNCHANGED again
       \/ hidden = "STARTING" /\ Goto(c, "spin") /\ UNCHANGED again
       \/ /\ hidden \notin {"RUNNING", "STARTING"}
          /\ Goto(c, IF c \in again THEN "start" ELSE "idle")
          /\ again' = again \ {c}
    /\ UNCHANGED <<hidden, state, stopRequest, currentlySpeaking, listeners, onOutputHandle,
                   commands, speechVars, silenced, overlapped>>

Silence(c) ==
    /\ at[c] = "silence"
    /\ stopRequest' = TRUE
    /\ silenced' = said
    /\ Goto(c, "await")
    /\ UNCHANGED <<hidden, state, currentlySpeaking, listeners, onOutputHandle, again,
                   commands, speechVars, overlapped>>

AwaitSilence(c) ==
    /\ at[c] = "await"
    /\ ~currentlySpeaking
    /\ Goto(c, "unlisten")
    /\ UNCHANGED <<hidden, state, stopRequest, currentlySpeaking, listeners, onOutputHandle,
                   again, commands, speechVars, silenced, overlapped>>

\* Wrong: keeps the listener.
BadUnlisten(c) ==
    /\ at[c] = "unlisten"
    /\ Goto(c, "down")
    /\ UNCHANGED <<hidden, state, stopRequest, currentlySpeaking, listeners, onOutputHandle,
                   again, commands, speechVars, silenced, overlapped>>

Unlisten(c) ==
    /\ at[c] = "unlisten"
    /\ listeners' = listeners \ {onOutputHandle}
    /\ Goto(c, "down")
    /\ UNCHANGED <<hidden, state, stopRequest, currentlySpeaking, onOutputHandle, again,
                   commands, speechVars, silenced, overlapped>>

SetStopped(c) ==
    /\ at[c] = "down"
    /\ state' = "STOPPED"
    /\ Goto(c, IF c \in again THEN "start" ELSE "idle")
    /\ again' = again \ {c}
    /\ UNCHANGED <<hidden, stopRequest, currentlySpeaking, listeners, onOutputHandle,
                   commands, speechVars, silenced, overlapped>>

-----------------------------------------------------------------------------
(* From a reply to the sound                                               *)

\* reply() triggers ONOUTPUT.
Reply(r) ==
    /\ r \notin said
    /\ said' = said \cup {r}
    /\ speech' = [t \in Threads |->
                     IF t[1] = r /\ t[2] \in listeners THEN "heard" ELSE speech[t]]
    /\ silenced' = IF \E c \in Commanders : at[c] \in {"await", "unlisten"}
                   THEN silenced \cup {r} ELSE silenced
    /\ UNCHANGED <<hidden, stopRequest, currentlySpeaking, commandVars, faults>>

MaySpeak == ~stopRequest /\ hidden = "RUNNING"

\* handleOutputs and asyncSpeak
AsyncSpeak(t) ==
    /\ speech[t] = "heard"
    /\ Progress(t, IF MaySpeak THEN "asked" ELSE "dropped")
    /\ UNCHANGED <<hidden, stopRequest, currentlySpeaking, commandVars, said, faults, silenced>>

\* Whether the words are in the list of prepared audio is left open.
Speak(t) ==
    /\ speech[t] = "asked"
    /\ \E place \in IF MaySpeak THEN {"waitPrepared", "waitNew"} ELSE {"dropped"} :
            Progress(t, place)
    /\ UNCHANGED <<hidden, stopRequest, currentlySpeaking, commandVars, said, faults, silenced>>

\* The polling loop finds the flag clear.
SeeTurn(t) ==
    /\ speech[t] \in {"waitPrepared", "waitNew"}
    /\ ~currentlySpeaking
    /\ Progress(t, IF speech[t] = "waitNew" THEN "startNew" ELSE "startPrepared")
    /\ UNCHANGED <<hidden, stopRequest, currentlySpeaking, commandVars, said, faults, silenced>>

Starting(t) == speech[t] \in {"startPrepared", "startNew"}

Play(t) ==
    /\ Starting(t)
    /\ currentlySpeaking' = TRUE
    /\ Progress(t, "playing")
    /\ UNCHANGED <<hidden, stopRequest, commandVars, said, faults, silenced>>

\* No channel, or no sample: the flag stays set.  speak() goes on to synthesise
\* what speakPreparedSpeech could not play.
PlayFails(t) ==
    /\ Starting(t)
    /\ faults < MaxFaults
    /\ faults' = faults + 1
    /\ currentlySpeaking' = TRUE
    /\ Progress(t, IF speech[t] = "startNew" THEN "failed" ELSE "waitNew")
    /\ UNCHANGED <<hidden, stopRequest, commandVars, said, silenced>>

\* Wrong: leaves the flag to the next speaker.
BadFinish(t) ==
    /\ speech[t] = "playing"
    /\ Progress(t, "spoken")
    /\ UNCHANGED <<hidden, stopRequest, currentlySpeaking, commandVars, said, faults, silenced>>

\* The sound ends.
Finish(t) ==
    /\ speech[t] = "playing"
    /\ currentlySpeaking' = FALSE
    /\ Progress(t, "spoken")
    /\ UNCHANGED <<hidden, stopRequest, commandVars, said, faults, silenced>>

-----------------------------------------------------------------------------

Control(c) ==
    \/ Start(c)
    \/ SetStarting(c)
    \/ Load(c)
    \/ SetRunning(c)
    \/ Listen(c)
    \/ Stop(c)
    \/ Silence(c)
    \/ AwaitSilence(c)
    \/ Unlisten(c)
    \/ SetStopped(c)

Speaking(t) ==
    \/ AsyncSpeak(t)
    \/ Speak(t)
    \/ SeeTurn(t)
    \/ Play(t)
    \/ PlayFails(t)
    \/ Finish(t)

Next ==
    \/ \E c \in Commanders, op \in {"start", "stop", "reload"} : Command(c, op)
    \/ \E c \in Commanders : Control(c)
    \/ \E r \in Replies : Reply(r)
    \/ \E t \in Threads : Speaking(t)

Spec == Init /\ [][Next]_vars

\* Every thread goes on and every sound ends; commands and replies need not come.
Fairness ==
    /\ \A c \in Commanders : WF_vars(Control(c))
    /\ \A t \in Threads : WF_vars(Speaking(t))

FairSpec == Spec /\ Fairness

-----------------------------------------------------------------------------
(* Properties                                                              *)

TypeOK ==
    /\ hidden \in {"RUNNING", "STARTING", "other"}
    /\ state \in {"STOPPED", "STARTING", "RUNNING"}
    /\ stopRequest \in BOOLEAN
    /\ currentlySpeaking \in BOOLEAN
    /\ listeners \subseteq Ids
    /\ onOutputHandle \in 0 .. MaxCommands
    /\ at \in [Commanders -> CommanderPlaces]
    /\ again \subseteq Commanders
    /\ said \subseteq Replies
    /\ speech \in [Threads -> SpeechPlaces]
    /\ commands \in 0 .. MaxCommands
    /\ faults \in 0 .. MaxFaults
    /\ silenced \subseteq said
    /\ overlapped \in BOOLEAN

\* Whoever waits for currentlySpeaking to clear waits for a speaker that will
\* clear it, however the turns of the speakers overlap, unless a sound failed.
SomebodyClearsTheFlag ==
    currentlySpeaking /\ faults = 0 => \E t \in Threads : speech[t] = "playing"

\* Between commands a running service listens to the replies once and a stopped
\* one does not, unless two commanders worked on it at once.
ListensIffRunning ==
    (~overlapped /\ \A c \in Commanders : at[c] = "idle")
        => listeners = IF state = "RUNNING" THEN {onOutputHandle} ELSE {}

\* No reply is spoken twice, whatever was stopped and started meanwhile.
SpokenOnce ==
    ~overlapped => \A r \in Replies :
        \A i, j \in Ids : speech[<<r, i>>] = "spoken" /\ speech[<<r, j>>] = "spoken" => i = j

\* A reply that was heard is spoken, also after a restart, if no stop came in
\* between, no sound fails and no two commanders worked on the service at once.
RepliesAreSpoken ==
    \A t \in Threads :
        (speech[t] = "heard" /\ hidden = "RUNNING")
            ~> (speech[t] = "spoken" \/ t[1] \in silenced \/ faults > 0 \/ overlapped)

\* stop() returns, and so does a reload, however many speakers wait for their
\* turn.  It does not if a sound fails, and it waits for the end of a start-up
\* that never comes if the state that nobody initialises says STARTING.
StopReturns ==
    \A c \in Commanders :
        at[c] = "stop" ~> (at[c] = "idle" \/ hidden = "STARTING" \/ faults > 0)

=============================================================================
