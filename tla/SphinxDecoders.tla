---------------------------- MODULE SphinxDecoders ----------------------------
(***************************************************************************)
(* The decoders of the speech recognition (src/sphinx/SphinxService.cpp,   *)
(* src/sphinx/SphinxDecoder.cpp) while its loop listens.                   *)
(*                                                                         *)
(* Three kinds of thread work on the decoders:                             *)
(*   - the loop, which feeds audio to the current decoder and, at the end  *)
(*     of an utterance, leaves that decoder to a thread of its own and     *)
(*     takes another that is ready;                                        *)
(*   - these threads, which end the utterance, pass what was said to       *)
(*     Buckey and start the next utterance;                                *)
(*   - updates, threads of event handlers that give every decoder a new    *)
(*     grammar and call applyUpdates, which reloads the decoders: all at   *)
(*     once if nobody speaks to them, else those that are not in use.      *)
(* decoderIndexLock guards writes of the index of the current decoder and  *)
(* updateLock keeps updates apart; nothing guards the decoders.            *)
(*                                                                         *)
(* How the loop begins and ends is in RecognitionLoop.tla.  What           *)
(* pocketsphinx does is modelled by its calls: ps_start_utt fails if an    *)
(* utterance is open, ps_init may fail and leave NULL, and what uses that  *)
(* goes on here, though it would end the process.                          *)
(***************************************************************************)
EXTENDS Naturals, FiniteSets

CONSTANTS MaxDecoders,   \* "max-decoders" of the configuration
          MaxUpdates,    \* bounds: the threads that update the grammar, each to one
                         \* of its own;
          MaxUtterances, \* the utterances, and the threads they leave;
          MaxPauses,     \* calls of pauseRecognition;
          MaxFaults      \* failures of pocketsphinx

ASSUME DecodersAssumption ==
    /\ MaxDecoders \in Nat \ {0}
    /\ {MaxUpdates, MaxUtterances, MaxPauses, MaxFaults} \subseteq Nat

Decoders   == 0 .. MaxDecoders - 1
Updates    == 1 .. MaxUpdates
Utterances == 1 .. MaxUtterances
First      == 0                     \* the language model of the start
Nothing    == MaxUpdates + 1        \* no decoder: ps is NULL
Models     == Updates \cup {First}
NoneDone   == [d \in Decoders |-> MaxDecoders]

VARIABLES continuous,          \* which of the two loops runs
          loop, next,          \* where it is, and the index of its refresh
          recognizing, inUtterance, currentDecoderIndex,
          state, ready,        \* of each decoder
          wanted, loaded,      \* its grammar as set, and as loaded
          open,                \* pocketsphinx is in an utterance
          hyp, of,             \* where the thread of an utterance is; its decoder
          update, written,     \* where an update is, and whom it writes to next
          sparing,             \* registers of applyUpdates, of the update that holds
          index,               \* updateLock: whether it spares the current decoder,
          decodersDone,        \* the decoder it visits, those it is through with
          decoderDoneCount,    \* and their number
          stray,               \* history: decodersDone began with an index in it
          joined,              \* killThreads() was called
          pauses, faults       \* counters for the bounds

loopVars    == <<continuous, loop, next, recognizing, joined, pauses>>
decoderVars == <<state, ready, loaded, open>>
hypVars     == <<hyp, of>>
registers   == <<sparing, index, decodersDone, decoderDoneCount, stray>>
updateVars  == <<wanted, update, written, registers>>
vars == <<continuous, loop, next, recognizing, inUtterance, currentDecoderIndex, state, ready,
          wanted, loaded, open, hyp, of, update, written, sparing, index, decodersDone,
          decoderDoneCount, stray, joined, pauses, faults>>

-----------------------------------------------------------------------------

DecoderStates == {"NOT_INITIALIZED", "IDLE", "UTTERANCE_STARTED", "UTTERANCE_ENDING", "ERROR"}
LoopPlaces    == {"wait", "frame", "resume", "end", "refresh", "gone"}
HypPlaces     == {"none", "end", "test", "get", "testStart", "start", "done"}
UpdatePlaces  == {"none", "write", "lock", "test", "visit", "unload", "load", "start", "select",
                  "switch", "done"}

\* updateLock is held in these places, decoderIndexLock in those of the loop.
Applying     == UpdatePlaces \ {"none", "write", "lock", "done"}
IndexLocked  == loop \in {"resume", "refresh"}
UpdateLocked == \E u \in Updates : update[u] \in Applying

\* The loop has begun: every decoder is in an utterance.
Init ==
    /\ continuous \in BOOLEAN
    /\ loop = IF continuous THEN "frame" ELSE "wait"
    /\ next = 0
    /\ recognizing = continuous
    /\ inUtterance = FALSE
    /\ currentDecoderIndex = 0
    /\ state = [d \in Decoders |-> "UTTERANCE_STARTED"]
    /\ ready = [d \in Decoders |-> TRUE]
    /\ wanted = [d \in Decoders |-> First]
    /\ loaded = wanted
    /\ open = [d \in Decoders |-> TRUE]
    /\ hyp = [w \in Utterances |-> "none"]
    /\ of = [w \in Utterances |-> 0]
    /\ update = [u \in Updates |-> "none"]
    /\ written = [u \in Updates |-> 0]
    /\ sparing = FALSE
    /\ index = 0
    /\ decodersDone = NoneDone
    /\ decoderDoneCount = 0
    /\ stray = FALSE
    /\ joined = FALSE
    /\ pauses = 0
    /\ faults = 0

-----------------------------------------------------------------------------
(* The decoder                                                             *)

CanStart(d) == state[d] \in {"IDLE", "UTTERANCE_ENDING"}

\* The rest of startUtterance, after its test of the state.
StartUtterance(d) ==
    \/ /\ ~open[d]
       /\ state' = [state EXCEPT ![d] = "UTTERANCE_STARTED"]
       /\ ready' = [ready EXCEPT ![d] = TRUE]
       /\ open' = [open EXCEPT ![d] = TRUE]
       /\ UNCHANGED faults
    \/ /\ open[d] \/ faults < MaxFaults
       /\ faults' = IF open[d] THEN faults ELSE faults + 1
       /\ state' = [state EXCEPT ![d] = "ERROR"]
       /\ UNCHANGED <<ready, open>>

\* The rest of endUtterance, after its test of the state.
EndUtterance(d) ==
    /\ state' = [state EXCEPT ![d] = "UTTERANCE_ENDING"]
    /\ ready' = [ready EXCEPT ![d] = FALSE]
    /\ open' = [open EXCEPT ![d] = FALSE]

-----------------------------------------------------------------------------
(* The loop                                                                *)

NewUtterance == \E w \in Utterances : hyp[w] = "none"

Press ==
    /\ ~continuous
    /\ loop = "wait"
    /\ NewUtterance
    /\ loop' = "frame"
    /\ recognizing' = TRUE
    /\ UNCHANGED <<continuous, next, joined, pauses, inUtterance, currentDecoderIndex,
                   decoderVars, hypVars, updateVars, faults>>

Failed == state[currentDecoderIndex] = "ERROR"
Found  == currentDecoderIndex < MaxDecoders - 1 /\ ready[currentDecoderIndex]

\* A decoder that failed is exchanged only if it is ready itself; then its
\* index is added to itself.  A frame of audio holds speech or not.
Frame ==
    /\ loop = "frame"
    /\ NewUtterance
    /\ Failed => Found
    /\ currentDecoderIndex' = IF Failed THEN 2 * currentDecoderIndex ELSE currentDecoderIndex
    /\ \E voice \in BOOLEAN :
          /\ inUtterance' = (inUtterance \/ voice)
          /\ loop' = IF continuous /\ ~voice /\ inUtterance THEN "end" ELSE "frame"
    /\ UNCHANGED <<continuous, next, recognizing, joined, pauses, decoderVars, hypVars,
                   updateVars, faults>>

\* No decoder is left.  killThreads() ends the events of the service, which
\* nobody here listens to, and may wait without end for their threads.  It
\* returns once at most: to call it again ends the process.
GiveUp ==
    /\ loop = "frame"
    /\ NewUtterance
    /\ Failed /\ ~Found
    /\ ~joined
    /\ joined' = TRUE
    /\ loop' \in IF continuous THEN {"gone"} ELSE {"end", "gone"}
    /\ UNCHANGED <<continuous, next, recognizing, pauses, inUtterance, currentDecoderIndex,
                   decoderVars, hypVars, updateVars, faults>>

Release ==
    /\ ~continuous
    /\ loop = "frame"
    /\ loop' = "end"
    /\ UNCHANGED <<continuous, next, recognizing, joined, pauses, inUtterance,
                   currentDecoderIndex, decoderVars, hypVars, updateVars, faults>>

\* pauseRecognition() ends the utterance of the current decoder.
Pause ==
    /\ continuous
    /\ loop = "frame"
    /\ pauses < MaxPauses
    /\ pauses' = pauses + 1
    /\ inUtterance' = FALSE
    /\ IF state[currentDecoderIndex] = "UTTERANCE_STARTED"
       THEN EndUtterance(currentDecoderIndex)
       ELSE UNCHANGED <<state, ready, open>>
    /\ loop' = "resume"
    /\ UNCHANGED <<continuous, next, recognizing, joined, currentDecoderIndex, loaded, hypVars,
                   updateVars, faults>>

Resume ==
    /\ loop = "resume"
    /\ IF CanStart(currentDecoderIndex)
       THEN StartUtterance(currentDecoderIndex)
       ELSE UNCHANGED <<state, ready, open, faults>>
    /\ loop' = "frame"
    /\ UNCHANGED <<continuous, next, recognizing, joined, pauses, inUtterance,
                   currentDecoderIndex, loaded, hypVars, updateVars>>

\* The utterance is left to a thread of its own.
EndOfSpeech(w) ==
    /\ loop = "end"
    /\ hyp[w] = "none"
    /\ \A v \in 1 .. w - 1 : hyp[v] # "none"
    /\ inUtterance' = FALSE
    /\ recognizing' = continuous
    /\ ready' = [ready EXCEPT ![currentDecoderIndex] = FALSE]
    /\ hyp' = [hyp EXCEPT ![w] = "end"]
    /\ of' = [of EXCEPT ![w] = currentDecoderIndex]
    /\ loop' = "refresh"
    /\ next' = 0
    /\ UNCHANGED <<continuous, joined, pauses, currentDecoderIndex, state, loaded, open,
                   updateVars, faults>>

\* The last decoder that is ready becomes the current one.
Refresh ==
    /\ loop = "refresh"
    /\ currentDecoderIndex' = IF ready[next] THEN next ELSE currentDecoderIndex
    /\ next' = (next + 1) % MaxDecoders
    /\ loop' = CASE next' # 0  -> "refresh"
                 [] continuous -> "frame"
                 [] OTHER      -> "wait"
    /\ UNCHANGED <<continuous, recognizing, joined, pauses, inUtterance, decoderVars, hypVars,
                   updateVars, faults>>

-----------------------------------------------------------------------------
(* endAndGetHypothesis                                                     *)

Proceed(w, place) == hyp' = [hyp EXCEPT ![w] = place]

HypEnd(w) ==
    /\ hyp[w] = "end"
    /\ IF state[of[w]] = "UTTERANCE_STARTED"
       THEN EndUtterance(of[w])
       ELSE UNCHANGED <<state, ready, open>>
    /\ Proceed(w, "test")
    /\ UNCHANGED <<loopVars, inUtterance, currentDecoderIndex, loaded, of, updateVars, faults>>

HypTest(w) ==
    LET s == state[of[w]]
    IN  /\ \/ /\ hyp[w] = "test"
              /\ Proceed(w, IF s \in {"IDLE", "NOT_INITIALIZED", "ERROR"} THEN "testStart"
                            ELSE "get")
           \/ hyp[w] = "testStart" /\ Proceed(w, IF CanStart(of[w]) THEN "start" ELSE "done")
        /\ UNCHANGED <<loopVars, inUtterance, currentDecoderIndex, decoderVars, of, updateVars,
                       faults>>

\* What was said goes to passInput.
HypGet(w) ==
    /\ hyp[w] = "get"
    /\ state' = [state EXCEPT ![of[w]] = "UTTERANCE_ENDING"]
    /\ Proceed(w, "testStart")
    /\ UNCHANGED <<loopVars, inUtterance, currentDecoderIndex, ready, loaded, open, of,
                   updateVars, faults>>

HypStart(w) ==
    /\ hyp[w] = "start"
    /\ StartUtterance(of[w])
    /\ Proceed(w, "done")
    /\ UNCHANGED <<loopVars, inUtterance, currentDecoderIndex, loaded, of, updateVars>>

-----------------------------------------------------------------------------
(* updateJSGFPath and applyUpdates                                         *)

Advance(u, place) == update' = [update EXCEPT ![u] = place]

\* Wrong: leaves out one decoder.
BadGoOn(u, done, count) ==
    LET last == index = MaxDecoders - 1 /\ count >= MaxDecoders - 1
    IN  /\ Advance(u, IF last THEN "done" ELSE "visit")
        /\ index' = (index + 1) % MaxDecoders
        /\ decodersDone' = IF last THEN NoneDone ELSE done
        /\ decoderDoneCount' = IF last THEN 0 ELSE count
        /\ sparing' = (sparing /\ ~last)
        /\ stray' = (stray /\ ~last)

\* The next decoder; after the last of them the loop ends when it is through,
\* and the registers are gone.  Without recognition each decoder is visited once.
GoOn(u, done, count) ==
    LET last == index = MaxDecoders - 1 /\ count = MaxDecoders
    IN  /\ Advance(u, IF last THEN "done" ELSE "visit")
        /\ index' = (index + 1) % MaxDecoders
        /\ decodersDone' = IF last THEN NoneDone ELSE done
        /\ decoderDoneCount' = IF last THEN 0 ELSE count
        /\ sparing' = (sparing /\ ~last)
        /\ stray' = (stray /\ ~last)

\* The decoders get the new grammar in their order.
WriteModel(u) ==
    LET d == written[u]
    IN  /\ update[u] \in {"none", "write"}
        /\ \A v \in 1 .. u - 1 : update[v] # "none"
        /\ wanted' = [wanted EXCEPT ![d] = u]
        /\ written' = [written EXCEPT ![u] = (d + 1) % MaxDecoders]
        /\ Advance(u, IF written'[u] = 0 THEN "lock" ELSE "write")
        /\ UNCHANGED <<loopVars, inUtterance, currentDecoderIndex, decoderVars, hypVars,
                       registers, faults>>

LockUpdates(u) ==
    /\ update[u] = "lock"
    /\ ~UpdateLocked
    /\ Advance(u, "test")
    /\ UNCHANGED <<loopVars, inUtterance, currentDecoderIndex, decoderVars, hypVars, wanted,
                   written, registers, faults>>

\* isRecognizing() is asked once.  decodersDone is not initialised.
TestRecognizing(u) ==
    /\ update[u] = "test"
    /\ sparing' = recognizing
    /\ decodersDone' \in IF recognizing THEN [Decoders -> 0 .. MaxDecoders] ELSE {decodersDone}
    /\ stray' = (decodersDone' # NoneDone)
    /\ decoderDoneCount' = 0
    /\ index' = 0
    /\ Advance(u, "visit")
    /\ UNCHANGED <<loopVars, inUtterance, currentDecoderIndex, decoderVars, hypVars, wanted,
                   written, faults>>

Through(d) == \E k \in Decoders : decodersDone[k] = d

\* Wrong: takes a new current decoder before one is reloaded.
BadExchangeable == ~inUtterance

\* Wrong: waits for an utterance where the code waits for its end.
BadSilence == inUtterance /\ decoderDoneCount > 0

\* The current decoder may be exchanged for one that was reloaded.
Exchangeable == ~inUtterance /\ decoderDoneCount > 0

Reloadable(d) == ~sparing
    \/ (~Through(d) /\ d # currentDecoderIndex /\ state[d] = "UTTERANCE_STARTED")

\* Passes by a decoder that is done, in use or not yet in an utterance.
Visit(u) ==
    LET exchange == sparing /\ ~Through(index) /\ index = currentDecoderIndex /\ Exchangeable
    IN  /\ update[u] = "visit"
        /\ \/ Reloadable(index) /\ Advance(u, "unload") /\ UNCHANGED registers
           \/ exchange /\ Advance(u, "switch") /\ UNCHANGED registers
           \/ ~Reloadable(index) /\ ~exchange /\ GoOn(u, decodersDone, decoderDoneCount)
        /\ UNCHANGED <<loopVars, inUtterance, currentDecoderIndex, decoderVars, hypVars,
                       wanted, written, faults>>

Switch(u) ==
    /\ update[u] = "switch"
    /\ ~IndexLocked
    /\ currentDecoderIndex' = decodersDone[0]
    /\ GoOn(u, decodersDone, decoderDoneCount)
    /\ UNCHANGED <<loopVars, inUtterance, decoderVars, hypVars, wanted, written, faults>>

\* reloadDecoder begins.
Unload(u) ==
    /\ update[u] = "unload"
    /\ ready' = [ready EXCEPT ![index] = FALSE]
    /\ state' = [state EXCEPT ![index] = "NOT_INITIALIZED"]
    /\ Advance(u, "load")
    /\ UNCHANGED <<loopVars, inUtterance, currentDecoderIndex, loaded, open, hypVars, wanted,
                   written, registers, faults>>

\* reloadDecoder ends; startUtterance follows.
Load(u) ==
    /\ update[u] = "load"
    /\ open' = [open EXCEPT ![index] = FALSE]
    /\ \/ /\ state' = [state EXCEPT ![index] = "IDLE"]
          /\ loaded' = [loaded EXCEPT ![index] = wanted[index]]
          /\ UNCHANGED faults
       \/ /\ faults < MaxFaults
          /\ faults' = faults + 1
          /\ state' = [state EXCEPT ![index] = "ERROR"]
          /\ loaded' = [loaded EXCEPT ![index] = Nothing]
    /\ Advance(u, "start")
    /\ UNCHANGED <<loopVars, inUtterance, currentDecoderIndex, ready, hypVars, wanted, written,
                   registers>>

\* Wrong: leaves the reloaded decoder idle.
BadStart(u) ==
    /\ update[u] = "start"
    /\ Advance(u, "select")
    /\ UNCHANGED <<loopVars, inUtterance, currentDecoderIndex, decoderVars, hypVars, wanted,
                   written, registers, faults>>

Start(u) ==
    /\ update[u] = "start"
    /\ IF CanStart(index) THEN StartUtterance(index) ELSE UNCHANGED <<state, ready, open, faults>>
    /\ Advance(u, "select")
    /\ UNCHANGED <<loopVars, inUtterance, currentDecoderIndex, loaded, hypVars, wanted,
                   written, registers>>

\* The decoder is done; without recognition the first one becomes the current.
Select(u) ==
    /\ update[u] = "select"
    /\ IF sparing
       THEN /\ GoOn(u, [decodersDone EXCEPT ![decoderDoneCount] = index], decoderDoneCount + 1)
            /\ UNCHANGED currentDecoderIndex
       ELSE /\ index = 0 => ~IndexLocked
            /\ currentDecoderIndex' = IF index = 0 THEN 0 ELSE currentDecoderIndex
            /\ GoOn(u, decodersDone, index + 1)
    /\ UNCHANGED <<loopVars, inUtterance, decoderVars, hypVars, wanted, written, faults>>

-----------------------------------------------------------------------------

Listening ==
    \/ Frame
    \/ GiveUp
    \/ Resume
    \/ \E w \in Utterances : EndOfSpeech(w)
    \/ Refresh

Hypothesis(w) == HypTest(w) \/ HypEnd(w) \/ HypGet(w) \/ HypStart(w)

Updating(u) ==
    \/ update[u] # "none" /\ WriteModel(u)
    \/ LockUpdates(u)
    \/ TestRecognizing(u)
    \/ Visit(u)
    \/ Switch(u)
    \/ Unload(u)
    \/ Load(u)
    \/ Start(u)
    \/ Select(u)

Next ==
    \/ Press
    \/ Release
    \/ Pause
    \/ Listening
    \/ \E w \in Utterances : Hypothesis(w)
    \/ \E u \in Updates : WriteModel(u)
    \/ \E u \in Updates : Updating(u)

Spec == Init /\ [][Next]_vars

\* Every thread goes on.  Users who hold the button let go of it once, and
\* those who speak fall silent, though the loop looks only now and then.
Fairness ==
    /\ WF_vars(Listening)
    /\ SF_vars(Release)
    /\ SF_vars(Frame /\ loop' = "end")
    /\ \A w \in Utterances : WF_vars(Hypothesis(w))
    /\ \A u \in Updates : WF_vars(Updating(u))

FairSpec == Spec /\ Fairness

-----------------------------------------------------------------------------
(* Properties                                                              *)

TypeOK ==
    /\ continuous \in BOOLEAN
    /\ loop \in LoopPlaces
    /\ next \in Decoders
    /\ recognizing \in BOOLEAN
    /\ inUtterance \in BOOLEAN
    /\ currentDecoderIndex \in Decoders
    /\ state \in [Decoders -> DecoderStates]
    /\ ready \in [Decoders -> BOOLEAN]
    /\ wanted \in [Decoders -> Models]
    /\ loaded \in [Decoders -> Models \cup {Nothing}]
    /\ open \in [Decoders -> BOOLEAN]
    /\ hyp \in [Utterances -> HypPlaces]
    /\ of \in [Utterances -> Decoders]
    /\ update \in [Updates -> UpdatePlaces]
    /\ written \in [Updates -> Decoders]
    /\ sparing \in BOOLEAN
    /\ index \in Decoders
    /\ decodersDone \in [Decoders -> 0 .. MaxDecoders]
    /\ decoderDoneCount \in 0 .. MaxDecoders
    /\ stray \in BOOLEAN
    /\ joined \in BOOLEAN
    /\ pauses \in 0 .. MaxPauses
    /\ faults \in 0 .. MaxFaults

NoUpdates == \A u \in Updates : update[u] \in {"none", "done"}
AtRest    == NoUpdates /\ loop # "resume" /\ \A w \in Utterances : hyp[w] \in {"none", "done"}

\* When no update is in progress every decoder has loaded the grammar that was
\* set last, whatever was in use when applyUpdates came by, unless pocketsphinx
\* could not load it.
UpdatesAreApplied ==
    NoUpdates => \A d \in Decoders : loaded[d] # Nothing => loaded[d] = wanted[d]

\* However updates, hypotheses and pauses interleave on a decoder, in the end
\* it failed or it listens again and can be taken by the loop.
DecodersComeBack ==
    AtRest => \A d \in Decoders :
        state[d] = "ERROR" \/ (state[d] = "UTTERANCE_STARTED" /\ ready[d] /\ open[d])

\* applyUpdates returns, with the loop listening or not, if no decoder fails and
\* what decodersDone happens to contain at first is no index.
UpdatesEnd ==
    \A u \in Updates :
        update[u] = "lock" ~> (update[u] = "done" \/ stray \/ \E d \in Decoders : state[d] = "ERROR")

=============================================================================
