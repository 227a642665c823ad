----------------------------- MODULE PreparedAudio -----------------------------
(***************************************************************************)
(* The prepared audio of the mimic service                                 *)
(* (src/tts/MimicTTSService.cpp): a list of words on disk, line N of which *)
(* has its sound in the file N.wav, and preparedAudio, what a run of the   *)
(* process knows of it.                                                    *)
(*                                                                         *)
(* Every start of the service reads the list.  CoreMode::initFinished, in  *)
(* a thread of its own, prepares what Buckey often says, one text after    *)
(* the other.  The process may end at any point.  Using preparedAudio      *)
(* while another thread moves it is undefined; End stands for that too.    *)
(***************************************************************************)
EXTENDS Naturals, Sequences

CONSTANTS Texts,
          Lower,     \* each text in lower case
          Common,    \* what initFinished prepares
          Nothing,   \* what is in a file that is not written to its end
          MaxFiles,  \* bounds: files, runs of the process, starts of the service
          MaxRuns,
          MaxStarts

ASSUME AudioAssumption ==
    /\ Common \subseteq Texts
    /\ Lower \in [Texts -> Texts]
    /\ \A t, u \in Common : Lower[t] = Lower[u] => t = u
    /\ Nothing \notin Texts
    /\ {MaxFiles, MaxRuns, MaxStarts} \subseteq Nat

VARIABLES list,           \* preparedAudio.list, on disk
          wav,            \* the sound files, on disk
          preparedAudio,
          lastAudioIndex,
          running,        \* the service is RUNNING
          todo,           \* what initFinished has still to prepare
          prep,           \* where prepareSpeech is, and its locals
          load,           \* the lines loadPreparedAudioList has read, or Idle
          finished,       \* init() of this run is through
          runs, starts,   \* counters for the bounds
          overlapped      \* history: a start met a preparation

diskVars   == <<list, wav>>
memoryVars == <<preparedAudio, lastAudioIndex>>
vars == <<diskVars, memoryVars, running, todo, prep, load, finished, runs, starts, overlapped>>

Files     == 0 .. MaxFiles
Entries   == [words : Texts, file : Nat, ended : BOOLEAN]
PrepSteps == {"idle", "open", "save", "count", "append", "push"}
NoPrep    == [at |-> "idle", words |-> Nothing, file |-> 0]
NoLoad    == [on |-> FALSE, index |-> 0]

TypeOK ==
    /\ list \in Seq(Texts)
    /\ wav \in [Files -> Texts \cup {Nothing}]
    /\ preparedAudio \in Seq(Entries)
    /\ lastAudioIndex \in Nat
    /\ running \in BOOLEAN
    /\ todo \in SUBSET Common
    /\ prep \in [at : PrepSteps, words : Texts \cup {Nothing}, file : Files]
    /\ prep.at # "idle" => prep.words \in Texts
    /\ load \in [on : BOOLEAN, index : Nat]
    /\ finished \in BOOLEAN
    /\ runs \in Nat /\ starts \in Nat
    /\ overlapped \in BOOLEAN

Init ==
    /\ list = <<>>
    /\ wav = [f \in Files |-> Nothing]
    /\ preparedAudio = <<>>
    /\ lastAudioIndex = 0
    /\ running = FALSE
    /\ todo = {}
    /\ prep = NoPrep
    /\ load = NoLoad
    /\ finished = FALSE
    /\ runs = 0 /\ starts = 0
    /\ overlapped = FALSE

-----------------------------------------------------------------------------
(* Starts and stops of the service                                         *)

\* start() of a service that does not run, by init() or by a command.
BeginLoad ==
    /\ ~running /\ ~load.on
    /\ starts < MaxStarts
    /\ load' = [on |-> TRUE, index |-> 0]
    /\ starts' = starts + 1
    /\ overlapped' = (overlapped \/ prep.at # "idle")
    /\ UNCHANGED <<diskVars, memoryVars, running, todo, prep, finished, runs>>

\* What an earlier start put into preparedAudio stays there.
ReadLine ==
    /\ load.on
    /\ load.index < Len(list)
    /\ preparedAudio' = Append(preparedAudio, [words |-> list[load.index + 1],
                                               file |-> load.index, ended |-> FALSE])
    /\ load' = [load EXCEPT !.index = @ + 1]
    /\ UNCHANGED <<diskVars, lastAudioIndex, running, todo, prep, finished, runs, starts, overlapped>>

EndLoad ==
    /\ load.on
    /\ load.index = Len(list)
    /\ lastAudioIndex' = load.index
    /\ load' = NoLoad
    /\ running' = TRUE
    /\ UNCHANGED <<diskVars, preparedAudio, todo, prep, finished, runs, starts, overlapped>>

Stop ==
    /\ running /\ finished
    /\ running' = FALSE
    /\ UNCHANGED <<diskVars, memoryVars, todo, prep, load, finished, runs, starts, overlapped>>

-----------------------------------------------------------------------------
(* Preparing                                                               *)

\* init() is through: initFinished prepares if the service runs.
InitFinished ==
    /\ ~finished /\ ~load.on
    /\ finished' = TRUE
    /\ todo' = IF running THEN Common ELSE {}
    /\ UNCHANGED <<diskVars, memoryVars, running, prep, load, runs, starts, overlapped>>

\* The place of an entry for these words.  prepareSpeech puts the end of the
\* line into its entries, which therefore match nothing.
Matches(words) ==
    {k \in DOMAIN preparedAudio : preparedAudio[k].words = words /\ ~preparedAudio[k].ended}

\* Wrong: looks for the text before it is in lower case.
BadIsPrepared(t) == Matches(t) # {}

IsPrepared(t) == Matches(Lower[t]) # {}

Prepare(t) ==
    /\ prep.at = "idle"
    /\ t \in todo
    /\ todo' = todo \ {t}
    /\ IF IsPrepared(t) THEN UNCHANGED prep
       ELSE /\ lastAudioIndex \in Files
            /\ prep' = [at |-> "open", words |-> Lower[t], file |-> lastAudioIndex]
    /\ overlapped' = (overlapped \/ load.on)
    /\ UNCHANGED <<diskVars, memoryVars, running, load, finished, runs, starts>>

Step(from, to) ==
    /\ prep.at = from
    /\ prep' = [prep EXCEPT !.at = to]
    /\ UNCHANGED <<running, todo, load, finished, runs, starts, overlapped>>

\* cst_wave_save_riff truncates the file and writes the sound.
OpenSound ==
    /\ Step("open", "save")
    /\ wav' = [wav EXCEPT ![prep.file] = Nothing]
    /\ UNCHANGED <<list, memoryVars>>

SaveSound ==
    /\ Step("save", "count")
    /\ wav' = [wav EXCEPT ![prep.file] = prep.words]
    /\ UNCHANGED <<list, memoryVars>>

\* Wrong: the index of the file is not counted on.
BadCount ==
    /\ Step("count", "append")
    /\ UNCHANGED <<diskVars, memoryVars>>

Count ==
    /\ Step("count", "append")
    /\ lastAudioIndex' = lastAudioIndex + 1
    /\ UNCHANGED <<diskVars, preparedAudio>>

AppendLine ==
    /\ Step("append", "push")
    /\ list' = Append(list, prep.words)
    /\ UNCHANGED <<wav, memoryVars>>

Push ==
    /\ Step("push", "idle")
    /\ preparedAudio' = Append(preparedAudio, [words |-> prep.words, file |-> prep.file,
                                               ended |-> TRUE])
    /\ UNCHANGED <<diskVars, lastAudioIndex>>

PrepareSpeech == (\E t \in Common : Prepare(t)) \/ OpenSound \/ SaveSound \/ Count
                    \/ AppendLine \/ Push

\* The process ends, in order or not, and another run begins.
End ==
    /\ runs < MaxRuns
    /\ runs' = runs + 1
    /\ preparedAudio' = <<>>
    /\ lastAudioIndex' = 0
    /\ running' = FALSE
    /\ todo' = {}
    /\ prep' = NoPrep
    /\ load' = NoLoad
    /\ finished' = FALSE
    /\ starts' = 0
    /\ UNCHANGED <<diskVars, overlapped>>

Next == BeginLoad \/ ReadLine \/ EndLoad \/ Stop \/ InitFinished \/ PrepareSpeech \/ End

Spec == Init /\ [][Next]_vars

-----------------------------------------------------------------------------
(* Properties                                                              *)

\* What speakPreparedSpeech plays when it finds the words, as they are, at k.
Sound(k) == wav[preparedAudio[k].file]

\* However often the process ended in the middle of a preparation, each line of
\* the list has the sound of its words, and what is played for words says them:
\* unless a start of the service met a preparation, since a start sets
\* lastAudioIndex to the lines it read, below a file that has no line yet.
SoundsMatch ==
    ~overlapped =>
        /\ \A k \in DOMAIN list : wav[k - 1] = list[k]
        /\ \A t \in Texts : \A k \in Matches(t) : Sound(k) = t

\* No words are in the list twice, whatever a run knows of what it prepared.
PreparedOnce ==
    ~overlapped => \A j, k \in DOMAIN list : list[j] = list[k] => j = k

=============================================================================
