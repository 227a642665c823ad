-------------------------- MODULE PreparedAudioProofs --------------------------
(***************************************************************************)
(* For any texts, runs, starts and ends of the process: every sound says   *)
(* the words of its line, and no words are listed twice, unless a start    *)
(* met a preparation.                                                      *)
(***************************************************************************)
EXTENDS PreparedAudio, TLAPS

USE AudioAssumption

-----------------------------------------------------------------------------
(* Types                                                                   *)

\* All of TypeOK but the type of preparedAudio.
TypeRest ==
    /\ list \in Seq(Texts)
    /\ wav \in [Files -> Texts \cup {Nothing}]
    /\ lastAudioIndex \in Nat
    /\ running \in BOOLEAN
    /\ todo \in SUBSET Common
    /\ prep \in [at : PrepSteps, words : Texts \cup {Nothing}, file : Files]
    /\ prep.at # "idle" => prep.words \in Texts
    /\ load \in [on : BOOLEAN, index : Nat]
    /\ finished \in BOOLEAN
    /\ runs \in Nat /\ starts \in Nat
    /\ overlapped \in BOOLEAN

\* The values at the start of a process are of their types.
LEMMA FreshTypes ==
    /\ NoPrep \in [at : PrepSteps, words : Texts \cup {Nothing}, file : Files]
    /\ NoPrep.at = "idle"
    /\ NoLoad \in [on : BOOLEAN, index : Nat]
<1>1. 0 \in Files /\ "idle" \in PrepSteps
  BY DEF Files, PrepSteps
<1> QED
  BY <1>1 DEF NoPrep, NoLoad

\* Every action keeps the types.
LEMMA TypeStep == TypeOK /\ [Next]_vars => TypeOK'
<1> SUFFICES ASSUME TypeOK, [Next]_vars PROVE TypeOK'
  OBVIOUS
<1> DEFINE EntrySeq == Seq(Entries)
<1>0. /\ TypeRest /\ preparedAudio \in EntrySeq /\ <<>> \in EntrySeq
      /\ \A e \in Entries : Append(preparedAudio, e) \in EntrySeq
  BY DEF TypeOK, TypeRest
<1> SUFFICES preparedAudio' \in EntrySeq /\ TypeRest'
  BY DEF TypeOK, TypeRest
<1> HIDE DEF EntrySeq
<1> USE <1>0 DEF TypeRest, PrepSteps, diskVars, memoryVars
<1>1. CASE BeginLoad
  BY <1>1 DEF BeginLoad
<1>2. CASE ReadLine
  <2>1. list[load.index + 1] \in Texts /\ load.index \in Nat
    BY <1>2 DEF ReadLine
  <2>2. [words |-> list[load.index + 1], file |-> load.index, ended |-> FALSE] \in Entries
    BY <2>1 DEF Entries
  <2> QED
    BY <1>2, <2>2, SMTT(30) DEF ReadLine
<1>3. CASE EndLoad
  BY <1>3, FreshTypes DEF EndLoad
<1>4. CASE Stop
  BY <1>4 DEF Stop
<1>5. CASE InitFinished
  BY <1>5 DEF InitFinished
<1>6. CASE \E t \in Common : Prepare(t)
  <2>1. PICK t \in Common : Prepare(t)
    BY <1>6
  <2> QED
    BY <2>1 DEF Prepare
<1>7. CASE OpenSound
  BY <1>7 DEF OpenSound, Step
<1>8. CASE SaveSound
  BY <1>8 DEF SaveSound, Step
<1>9. CASE Count
  BY <1>9 DEF Count, Step
<1>10. CASE AppendLine
  BY <1>10 DEF AppendLine, Step
<1>11. CASE Push
  <2>1. prep.words \in Texts /\ prep.file \in Nat
    BY <1>11 DEF Push, Step, Files
  <2>2. [words |-> prep.words, file |-> prep.file, ended |-> TRUE] \in Entries
    BY <2>1 DEF Entries
  <2> QED
    BY <1>11, <2>2 DEF Push, Step
<1>12. CASE End
  <2>1. todo' = {} /\ runs' \in Nat /\ starts' \in Nat
    BY <1>12 DEF End
  <2>2. prep' = NoPrep /\ load' = NoLoad
    BY <1>12 DEF End
  <2>3. prep' \in [at : PrepSteps, words : Texts \cup {Nothing}, file : Files] /\ prep'.at = "idle"
    BY <2>2, FreshTypes
  <2>4. load' \in [on : BOOLEAN, index : Nat]
    BY <2>2, FreshTypes
  <2>5. preparedAudio' \in EntrySeq
    BY <1>12 DEF End
  <2> QED
    BY <1>12, <2>1, <2>3, <2>4, <2>5 DEF End
<1>13. CASE UNCHANGED vars
  BY <1>13 DEF vars
<1> QED
  BY <1>1, <1>2, <1>3, <1>4, <1>5, <1>6, <1>7, <1>8, <1>9, <1>10, <1>11, <1>12, <1>13
  DEF Next, PrepareSpeech

\* The state of the service, of its list and of its files is of the declared
\* types in every run, for any list and number of files.
THEOREM TypeCorrect == Spec => []TypeOK
<1>1. ASSUME Init PROVE TypeOK
  <2>1. prep \in [at : PrepSteps, words : Texts \cup {Nothing}, file : Files] /\ prep.at = "idle"
    BY <1>1, FreshTypes DEF Init
  <2>2. load \in [on : BOOLEAN, index : Nat] /\ wav \in [Files -> Texts \cup {Nothing}]
    BY <1>1, FreshTypes DEF Init
  <2>3. list = <<>> /\ preparedAudio = <<>> /\ todo = {} /\ lastAudioIndex = 0
    BY <1>1 DEF Init
  <2>4. running \in BOOLEAN /\ finished \in BOOLEAN /\ overlapped \in BOOLEAN
    BY <1>1 DEF Init
  <2>5. runs \in Nat /\ starts \in Nat
    BY <1>1 DEF Init
  <2> QED
    BY <2>1, <2>2, <2>3, <2>4, <2>5 DEF TypeOK
<1> QED
  BY <1>1, TypeStep, PTL DEF Spec

-----------------------------------------------------------------------------
(* The invariant                                                           *)

\* The texts that were taken up so far, as they are listed.
Taken == {Lower[u] : u \in Common \ todo}

LinesOK == \A k \in DOMAIN list : k - 1 \in Files /\ wav[k - 1] = list[k]

\* What is in memory is of lines that are listed, and of their files.
EntriesOK ==
    \A k \in DOMAIN preparedAudio :
        /\ preparedAudio[k].file + 1 \in DOMAIN list
        /\ list[preparedAudio[k].file + 1] = preparedAudio[k].words

\* The file that is written is the one after the last line.
IndexOK ==
    /\ prep.at = "idle" /\ (running \/ todo # {}) => lastAudioIndex = Len(list)
    /\ prep.at \in {"open", "save", "count"} =>
            lastAudioIndex = Len(list) /\ prep.file = Len(list)
    /\ prep.at = "append" => lastAudioIndex = Len(list) + 1 /\ prep.file = Len(list)
    /\ prep.at = "push" =>
            /\ lastAudioIndex = Len(list)
            /\ prep.file + 1 = Len(list)
            /\ list[prep.file + 1] = prep.words
    /\ prep.at \in {"count", "append"} => wav[prep.file] = prep.words

LoadOK ==
    load.on => prep.at = "idle" /\ ~running /\ load.index <= Len(list)

Known(k) == Matches(list[k]) # {}

\* What was listed before this run is in memory once it is loaded, and the rest
\* was taken up in this run.
KnownOK ==
    /\ ~finished => todo = {} /\ prep.at = "idle"
    /\ load.on /\ ~finished => \A k \in DOMAIN list : k <= load.index => Known(k)
    /\ running /\ ~finished => \A k \in DOMAIN list : Known(k)
    /\ todo # {} => \A k \in DOMAIN list : Known(k) \/ list[k] \in Taken
    /\ prep.at # "idle" => prep.words \in Taken

OnceOK ==
    /\ \A j, k \in DOMAIN list : list[j] = list[k] => j = k
    /\ prep.at \in {"open", "save", "count", "append"} =>
            \A k \in DOMAIN list : list[k] # prep.words

Good == LinesOK /\ EntriesOK /\ IndexOK /\ LoadOK /\ KnownOK /\ OnceOK

Inv == TypeOK /\ (~overlapped => Good)

\* An entry more does not take away a match.
LEMMA MatchesGrow ==
    ASSUME TypeOK, NEW e \in Entries, preparedAudio' = Append(preparedAudio, e), UNCHANGED list,
           NEW k \in DOMAIN list, Known(k)
    PROVE  Known(k)'
<1>1. PICK m \in Matches(list[k]) : TRUE
  BY DEF Known
<1>2. m \in DOMAIN preparedAudio /\ preparedAudio \in Seq(Entries)
  BY <1>1 DEF Matches, TypeOK
<1>3. m \in DOMAIN preparedAudio' /\ preparedAudio'[m] = preparedAudio[m]
  BY <1>2
<1> QED
  BY <1>1, <1>3 DEF Known, Matches

\* Starts and stops of the service.
LEMMA StartStopOK ==
    TypeOK /\ Good /\ (BeginLoad \/ ReadLine \/ EndLoad \/ Stop) /\ ~overlapped' => Good'
<1> SUFFICES ASSUME TypeOK, Good, ~overlapped' PROVE BeginLoad \/ ReadLine \/ EndLoad \/ Stop => Good'
  OBVIOUS
<1>t. list \in Seq(Texts) /\ Len(list) \in Nat /\ DOMAIN list = 1 .. Len(list) /\ load.index \in Nat
  BY DEF TypeOK
<1>1. CASE BeginLoad
  <2>1. prep.at = "idle" /\ load'.on /\ load'.index = 0 /\ ~running
    BY <1>1 DEF BeginLoad
  <2>2. UNCHANGED <<list, wav, preparedAudio, lastAudioIndex, running, todo, prep, finished>>
    BY <1>1 DEF BeginLoad, diskVars, memoryVars
  <2>3. LinesOK' /\ EntriesOK' /\ IndexOK' /\ OnceOK'
    BY <2>2 DEF Good, LinesOK, EntriesOK, IndexOK, OnceOK
  <2>4. LoadOK'
    BY <2>1, <2>2, <1>t DEF LoadOK
  <2>5. \A k : Known(k)' <=> Known(k)
    BY <2>2 DEF Known, Matches
  <2>6. KnownOK'
    BY <2>1, <2>2, <2>5, <1>t DEF Good, KnownOK, Taken
  <2> QED
    BY <2>3, <2>4, <2>6 DEF Good
<1>2. CASE ReadLine
  <2> DEFINE e == [words |-> list[load.index + 1], file |-> load.index, ended |-> FALSE]
  <2>1. load.on /\ load.index < Len(list) /\ load'.on = load.on /\ load'.index = load.index + 1
    BY <1>2 DEF ReadLine, TypeOK
  <2>2. UNCHANGED <<list, wav, lastAudioIndex, running, todo, prep, finished>>
    BY <1>2 DEF ReadLine, diskVars
  <2>3. load.index + 1 \in DOMAIN list /\ list[load.index + 1] \in Texts
    BY <2>1, <1>t
  <2>4. e \in Entries
    BY <2>3, <1>t DEF Entries
  <2>5. e.words = list[load.index + 1] /\ e.file = load.index /\ ~e.ended
    OBVIOUS
  <2>6. preparedAudio' = Append(preparedAudio, e) /\ preparedAudio \in Seq(Entries)
    BY <1>2 DEF ReadLine, TypeOK
  <2> HIDE DEF e
  <2>7. /\ DOMAIN preparedAudio' = 1 .. Len(preparedAudio) + 1
        /\ \A k \in DOMAIN preparedAudio : preparedAudio'[k] = preparedAudio[k]
        /\ preparedAudio'[Len(preparedAudio) + 1] = e
        /\ DOMAIN preparedAudio = 1 .. Len(preparedAudio) /\ Len(preparedAudio) \in Nat
    BY <2>4, <2>6
  <2>8. LinesOK' /\ IndexOK' /\ OnceOK'
    BY <2>2 DEF Good, LinesOK, IndexOK, OnceOK
  <2>9. EntriesOK'
    <3> SUFFICES ASSUME NEW k \in DOMAIN preparedAudio'
                 PROVE  /\ preparedAudio'[k].file + 1 \in DOMAIN list
                        /\ list[preparedAudio'[k].file + 1] = preparedAudio'[k].words
      BY <2>2 DEF EntriesOK
    <3>1. CASE k \in DOMAIN preparedAudio
      BY <3>1, <2>7 DEF Good, EntriesOK
    <3>2. CASE k = Len(preparedAudio) + 1
      BY <3>2, <2>7, <2>5, <2>3
    <3> QED
      BY <3>1, <3>2, <2>7
  <2>10. LoadOK'
    BY <2>1, <2>2, <1>t DEF Good, LoadOK
  <2>11. \A k \in DOMAIN list : Known(k) => Known(k)'
    BY <2>2, <2>4, <2>6, MatchesGrow
  <2>12. ASSUME NEW k \in DOMAIN list, k = load.index + 1 PROVE Known(k)'
    <3>1. Len(preparedAudio) + 1 \in DOMAIN preparedAudio'
      BY <2>7
    <3>2. preparedAudio'[Len(preparedAudio) + 1].words = list'[k]
      BY <2>12, <2>2, <2>5, <2>7
    <3>3. ~preparedAudio'[Len(preparedAudio) + 1].ended
      BY <2>5, <2>7
    <3> QED
      BY <3>1, <3>2, <3>3 DEF Known, Matches
  <2>13. KnownOK'
    <3>1. load'.on /\ ~finished' => \A k \in DOMAIN list' : k <= load'.index => Known(k)'
      <4> SUFFICES ASSUME ~finished, NEW k \in DOMAIN list, k <= load.index + 1 PROVE Known(k)'
        BY <2>1, <2>2
      <4>1. CASE k <= load.index
        BY <4>1, <2>1, <2>11 DEF Good, KnownOK
      <4>2. CASE k = load.index + 1
        BY <4>2, <2>12
      <4> QED
        BY <4>1, <4>2, <1>t
    <3> QED
      BY <3>1, <2>1, <2>2, <2>11 DEF Good, KnownOK, LoadOK, Taken
  <2> QED
    BY <2>8, <2>9, <2>10, <2>13 DEF Good
<1>3. CASE EndLoad
  <2>1. load.on /\ load.index = Len(list) /\ lastAudioIndex' = Len(list) /\ running' /\ ~load'.on
    BY <1>3 DEF EndLoad, NoLoad
  <2>2. UNCHANGED <<list, wav, preparedAudio, todo, prep, finished>>
    BY <1>3 DEF EndLoad, diskVars
  <2>3. prep.at = "idle"
    BY <2>1 DEF Good, LoadOK
  <2>4. LinesOK' /\ EntriesOK' /\ OnceOK' /\ LoadOK'
    BY <2>1, <2>2 DEF Good, LinesOK, EntriesOK, OnceOK, LoadOK
  <2>5. IndexOK'
    BY <2>1, <2>2, <2>3 DEF IndexOK
  <2>6. \A k : Known(k)' <=> Known(k)
    BY <2>2 DEF Known, Matches
  <2>7. KnownOK'
    BY <2>1, <2>2, <2>6, <1>t DEF Good, KnownOK, Taken
  <2> QED
    BY <2>4, <2>5, <2>7 DEF Good
<1>4. CASE Stop
  <2>1. finished /\ ~running'
    BY <1>4 DEF Stop
  <2>2. UNCHANGED <<list, wav, preparedAudio, lastAudioIndex, todo, prep, load, finished>>
    BY <1>4 DEF Stop, diskVars, memoryVars
  <2>3. LinesOK' /\ EntriesOK' /\ OnceOK' /\ LoadOK' /\ IndexOK'
    BY <2>1, <2>2 DEF Good, LinesOK, EntriesOK, OnceOK, LoadOK, IndexOK
  <2>4. \A k : Known(k)' <=> Known(k)
    BY <2>2 DEF Known, Matches
  <2>5. KnownOK'
    BY <2>1, <2>2, <2>4 DEF Good, KnownOK, Taken
  <2> QED
    BY <2>3, <2>5 DEF Good
<1> QED
  BY <1>1, <1>2, <1>3, <1>4

\* A text is taken up: its words are not listed, or they are known.
LEMMA PrepareOK ==
    ASSUME TypeOK, Good, NEW t \in Common, Prepare(t), ~overlapped'
    PROVE  Good'
<1>1. prep.at = "idle" /\ t \in todo /\ ~load.on /\ finished
  BY DEF Prepare, Good, KnownOK
<1>2. UNCHANGED <<list, wav, preparedAudio, lastAudioIndex, running, load, finished>>
  BY DEF Prepare, diskVars, memoryVars
<1>3. todo' = todo \ {t} /\ lastAudioIndex = Len(list)
  BY <1>1 DEF Prepare, Good, IndexOK
<1>4. \A w \in Taken : w \in Taken'
  BY <1>3 DEF Taken
<1>5. Lower[t] \in Taken'
  BY <1>3 DEF Taken
<1>6. \A k : Known(k)' <=> Known(k)
  BY <1>2 DEF Known, Matches
<1>7. \A k \in DOMAIN list : Known(k) \/ list[k] \in Taken
  BY <1>1 DEF Good, KnownOK
<1>8. LinesOK' /\ EntriesOK' /\ LoadOK'
  BY <1>1, <1>2 DEF Good, LinesOK, EntriesOK, LoadOK
<1>9. CASE IsPrepared(t)
  <2>1. prep' = prep
    BY <1>9 DEF Prepare
  <2>2. IndexOK' /\ OnceOK'
    BY <2>1, <1>1, <1>2, <1>3 DEF Good, IndexOK, OnceOK
  <2>3. KnownOK'
    BY <2>1, <1>1, <1>2, <1>3, <1>4, <1>6, <1>7 DEF KnownOK
  <2> QED
    BY <1>8, <2>2, <2>3 DEF Good
<1>10. CASE ~IsPrepared(t)
  <2>1. prep'.at = "open" /\ prep'.words = Lower[t] /\ prep'.file = lastAudioIndex
    BY <1>10 DEF Prepare
  <2>2. \A k \in DOMAIN list : list[k] # Lower[t]
    <3> SUFFICES ASSUME NEW k \in DOMAIN list, list[k] = Lower[t] PROVE FALSE
      OBVIOUS
    <3>1. ~Known(k)
      BY <1>10 DEF Known, IsPrepared
    <3>2. PICK u \in Common \ todo : list[k] = Lower[u]
      BY <3>1, <1>7 DEF Taken
    <3> QED
      BY <3>2, <1>1
  <2>3. IndexOK'
    BY <2>1, <1>2, <1>3 DEF IndexOK
  <2>4. OnceOK'
    BY <2>1, <2>2, <1>2 DEF Good, OnceOK
  <2>5. KnownOK'
    BY <2>1, <1>1, <1>2, <1>3, <1>4, <1>5, <1>6, <1>7 DEF KnownOK
  <2> QED
    BY <1>8, <2>3, <2>4, <2>5 DEF Good
<1> QED
  BY <1>9, <1>10

\* The sound is written to a file that no line has.
LEMMA SoundOK ==
    ASSUME TypeOK, Good, OpenSound \/ SaveSound \/ Count
    PROVE  Good'
<1>1. prep.at \in {"open", "save", "count"} /\ prep'.at \in {"save", "count", "append"}
  BY DEF OpenSound, SaveSound, Count, Step, TypeOK, PrepSteps
<1>2. prep'.words = prep.words /\ prep'.file = prep.file
  BY DEF OpenSound, SaveSound, Count, Step, TypeOK
<1>3. UNCHANGED <<list, preparedAudio, running, todo, load, finished>>
  BY DEF OpenSound, SaveSound, Count, Step, diskVars, memoryVars
<1>4. prep.file = Len(list) /\ lastAudioIndex = Len(list) /\ prep.file \in Files
  BY <1>1 DEF Good, IndexOK, TypeOK
<1>5. DOMAIN list = 1 .. Len(list) /\ Len(list) \in Nat /\ DOMAIN wav = Files
  BY DEF TypeOK
<1>6. \A f \in Files : f # prep.file => wav'[f] = wav[f]
  BY <1>5 DEF OpenSound, SaveSound, Count, diskVars
<1>7. LinesOK'
  <2> SUFFICES ASSUME NEW k \in DOMAIN list PROVE k - 1 \in Files /\ wav'[k - 1] = list[k]
    BY <1>3 DEF LinesOK
  <2>1. k - 1 \in Files /\ wav[k - 1] = list[k] /\ k - 1 # prep.file
    BY <1>4, <1>5 DEF Good, LinesOK
  <2> QED
    BY <2>1, <1>6
<1>8. EntriesOK' /\ LoadOK' /\ OnceOK'
  BY <1>1, <1>2, <1>3 DEF Good, EntriesOK, LoadOK, OnceOK
<1>9. IndexOK'
  <2>1. CASE OpenSound
    <3>1. prep'.at = "save" /\ lastAudioIndex' = lastAudioIndex
      BY <2>1 DEF OpenSound, Step, memoryVars, TypeOK
    <3> QED
      BY <3>1, <1>2, <1>3, <1>4 DEF IndexOK
  <2>2. CASE SaveSound
    <3>1. prep'.at = "count" /\ lastAudioIndex' = lastAudioIndex
      BY <2>2 DEF SaveSound, Step, memoryVars, TypeOK
    <3>2. wav'[prep.file] = prep.words
      BY <2>2, <1>4, <1>5 DEF SaveSound
    <3> QED
      BY <3>1, <3>2, <1>2, <1>3, <1>4 DEF IndexOK
  <2>3. CASE Count
    <3>1. prep'.at = "append" /\ lastAudioIndex' = Len(list) + 1 /\ prep.at = "count"
      BY <2>3, <1>4 DEF Count, Step, TypeOK
    <3>2. wav' = wav /\ wav[prep.file] = prep.words
      BY <2>3, <3>1 DEF Count, diskVars, Good, IndexOK
    <3> QED
      BY <3>1, <3>2, <1>2, <1>3, <1>4 DEF IndexOK
  <2> QED
    BY <2>1, <2>2, <2>3
<1>10. \A k : Known(k)' <=> Known(k)
  BY <1>3 DEF Known, Matches
<1>11. KnownOK'
  BY <1>1, <1>2, <1>3, <1>10 DEF Good, KnownOK, Taken
<1> QED
  BY <1>7, <1>8, <1>9, <1>11 DEF Good

\* The line is appended after its sound was written.
LEMMA AppendOK ==
    ASSUME TypeOK, Good, AppendLine
    PROVE  Good'
<1>1. prep.at = "append" /\ prep'.at = "push" /\ prep'.words = prep.words /\ prep'.file = prep.file
  BY DEF AppendLine, Step, TypeOK
<1>2. UNCHANGED <<wav, preparedAudio, lastAudioIndex, running, todo, load, finished>>
  BY DEF AppendLine, Step, memoryVars
<1>3. list \in Seq(Texts) /\ prep.words \in Texts /\ list' = Append(list, prep.words)
  BY <1>1 DEF AppendLine, TypeOK
<1>4. /\ DOMAIN list = 1 .. Len(list) /\ Len(list) \in Nat
      /\ DOMAIN list' = 1 .. Len(list) + 1 /\ Len(list') = Len(list) + 1
      /\ list'[Len(list) + 1] = prep.words
      /\ \A k \in DOMAIN list : list'[k] = list[k]
  BY <1>3
<1>5. /\ prep.file = Len(list) /\ prep.file \in Files /\ lastAudioIndex = Len(list) + 1
      /\ wav[prep.file] = prep.words
  BY <1>1 DEF Good, IndexOK, TypeOK
<1>6. LinesOK'
  <2> SUFFICES ASSUME NEW k \in DOMAIN list' PROVE k - 1 \in Files /\ wav[k - 1] = list'[k]
    BY <1>2 DEF LinesOK
  <2>1. CASE k \in DOMAIN list
    BY <2>1, <1>4 DEF Good, LinesOK
  <2>2. CASE k = Len(list) + 1
    BY <2>2, <1>4, <1>5
  <2> QED
    BY <2>1, <2>2, <1>4
<1>7. EntriesOK'
  BY <1>2, <1>4 DEF Good, EntriesOK
<1>8. IndexOK'
  BY <1>1, <1>2, <1>4, <1>5 DEF IndexOK
<1>9. LoadOK'
  BY <1>1, <1>2 DEF Good, LoadOK
<1>10. OnceOK'
  <2>1. \A k \in DOMAIN list : list[k] # prep.words
    BY <1>1 DEF Good, OnceOK
  <2>2. ASSUME NEW j \in DOMAIN list', NEW k \in DOMAIN list', list'[j] = list'[k] PROVE j = k
    <3>1. j \in DOMAIN list \/ j = Len(list) + 1
      BY <1>4
    <3>2. k \in DOMAIN list \/ k = Len(list) + 1
      BY <1>4
    <3> QED
      BY <2>1, <2>2, <3>1, <3>2, <1>4 DEF Good, OnceOK
  <2> QED
    BY <2>2, <1>1 DEF OnceOK
<1>11. \A k \in DOMAIN list : Known(k)' <=> Known(k)
  BY <1>2, <1>4 DEF Known, Matches
<1>12. KnownOK'
  <2>1. finished
    BY <1>1 DEF Good, KnownOK
  <2>2. prep.words \in Taken /\ ~load.on
    BY <1>1 DEF Good, KnownOK, LoadOK
  <2>3. Taken' = Taken
    BY <1>2 DEF Taken
  <2>4. todo # {} => \A k \in DOMAIN list' : Known(k)' \/ list'[k] \in Taken
    <3> SUFFICES ASSUME todo # {}, NEW k \in DOMAIN list' PROVE Known(k)' \/ list'[k] \in Taken
      OBVIOUS
    <3>1. CASE k \in DOMAIN list
      BY <3>1, <1>4, <1>11 DEF Good, KnownOK
    <3>2. CASE k = Len(list) + 1
      BY <3>2, <1>4, <2>2
    <3> QED
      BY <3>1, <3>2, <1>4
  <2> QED
    BY <2>1, <2>2, <2>3, <2>4, <1>1, <1>2 DEF KnownOK
<1> QED
  BY <1>6, <1>7, <1>8, <1>9, <1>10, <1>12 DEF Good

\* What was prepared is known from now on.
LEMMA PushOK ==
    ASSUME TypeOK, Good, Push
    PROVE  Good'
<1> DEFINE e == [words |-> prep.words, file |-> prep.file, ended |-> TRUE]
<1>1. prep.at = "push" /\ prep'.at = "idle" /\ prep'.words = prep.words /\ prep'.file = prep.file
  BY DEF Push, Step, TypeOK
<1>2. UNCHANGED <<list, wav, lastAudioIndex, running, todo, load, finished>>
  BY DEF Push, Step, diskVars
<1>3. prep.words \in Texts /\ prep.file \in Nat
  BY <1>1 DEF TypeOK, Files
<1>4. e \in Entries /\ e.file = prep.file /\ e.words = prep.words
  BY <1>3 DEF Entries
<1>5. preparedAudio' = Append(preparedAudio, e) /\ preparedAudio \in Seq(Entries)
  BY DEF Push, TypeOK
<1> HIDE DEF e
<1>6. /\ DOMAIN preparedAudio' = 1 .. Len(preparedAudio) + 1
      /\ \A k \in DOMAIN preparedAudio : preparedAudio'[k] = preparedAudio[k]
      /\ preparedAudio'[Len(preparedAudio) + 1] = e
      /\ DOMAIN preparedAudio = 1 .. Len(preparedAudio) /\ Len(preparedAudio) \in Nat
  BY <1>4, <1>5
<1>7. /\ lastAudioIndex = Len(list) /\ prep.file + 1 = Len(list) /\ list[prep.file + 1] = prep.words
      /\ DOMAIN list = 1 .. Len(list) /\ Len(list) \in Nat
  BY <1>1 DEF Good, IndexOK, TypeOK
<1>8. EntriesOK'
  <2> SUFFICES ASSUME NEW k \in DOMAIN preparedAudio'
               PROVE  /\ preparedAudio'[k].file + 1 \in DOMAIN list
                      /\ list[preparedAudio'[k].file + 1] = preparedAudio'[k].words
    BY <1>2 DEF EntriesOK
  <2>1. CASE k \in DOMAIN preparedAudio
    BY <2>1, <1>6 DEF Good, EntriesOK
  <2>2. CASE k = Len(preparedAudio) + 1
    <3>1. prep.file + 1 \in DOMAIN list
      BY <1>7, <1>3
    <3> QED
      BY <3>1, <2>2, <1>4, <1>6, <1>7
  <2> QED
    BY <2>1, <2>2, <1>6
<1>9. LinesOK' /\ LoadOK' /\ OnceOK'
  BY <1>1, <1>2 DEF Good, LinesOK, LoadOK, OnceOK
<1>10. IndexOK'
  BY <1>1, <1>2, <1>7 DEF IndexOK
<1>11. KnownOK'
  <2>1. finished /\ ~load.on
    BY <1>1 DEF Good, KnownOK, LoadOK
  <2>2. \A k \in DOMAIN list : Known(k) => Known(k)'
    BY <1>2, <1>4, <1>5, MatchesGrow
  <2> QED
    BY <2>1, <2>2, <1>1, <1>2 DEF Good, KnownOK, Taken
<1> QED
  BY <1>8, <1>9, <1>10, <1>11 DEF Good

\* Buckey's own texts are begun when the lines are known, or not at all.
LEMMA InitFinishedOK ==
    ASSUME TypeOK, Good, InitFinished
    PROVE  Good'
<1>1. ~finished /\ ~load.on /\ finished' /\ prep.at = "idle" /\ (todo' # {} => running)
  BY DEF InitFinished, Good, KnownOK
<1>2. UNCHANGED <<list, wav, preparedAudio, lastAudioIndex, running, prep, load>>
  BY DEF InitFinished, diskVars, memoryVars
<1>3. LinesOK' /\ EntriesOK' /\ LoadOK' /\ OnceOK'
  BY <1>1, <1>2 DEF Good, LinesOK, EntriesOK, LoadOK, OnceOK
<1>4. IndexOK'
  BY <1>1, <1>2 DEF Good, IndexOK
<1>5. \A k : Known(k)' <=> Known(k)
  BY <1>2 DEF Known, Matches
<1>6. KnownOK'
  BY <1>1, <1>2, <1>5 DEF Good, KnownOK
<1> QED
  BY <1>3, <1>4, <1>6 DEF Good

\* The end of the process leaves what is on disk.
LEMMA EndOK ==
    ASSUME TypeOK, Good, End
    PROVE  Good'
<1>1. prep'.at = "idle" /\ ~load'.on /\ ~running' /\ ~finished' /\ todo' = {}
  BY DEF End, NoPrep, NoLoad
<1>2. UNCHANGED <<list, wav>> /\ preparedAudio' = <<>>
  BY DEF End, diskVars
<1>3. LinesOK' /\ EntriesOK' /\ LoadOK' /\ OnceOK' /\ IndexOK'
  BY <1>1, <1>2 DEF Good, LinesOK, EntriesOK, LoadOK, OnceOK, IndexOK
<1>4. KnownOK'
  BY <1>1 DEF KnownOK
<1> QED
  BY <1>3, <1>4 DEF Good

\* What is on disk and in memory fits together in every state of a run that no
\* start of the service disturbs.
THEOREM Invariance == Spec => []Inv
<1>1. ASSUME Init PROVE Good
  <2>1. prep.at = "idle" /\ ~load.on /\ ~running /\ ~finished /\ todo = {}
    BY <1>1 DEF Init, NoPrep, NoLoad
  <2>2. list = <<>> /\ preparedAudio = <<>>
    BY <1>1 DEF Init
  <2> QED
    BY <2>1, <2>2 DEF Good, LinesOK, EntriesOK, IndexOK, LoadOK, KnownOK, OnceOK
<1>2. ASSUME TypeOK, Good, [Next]_vars, ~overlapped' PROVE Good'
  <2>1. CASE BeginLoad \/ ReadLine \/ EndLoad \/ Stop
    BY <2>1, <1>2, StartStopOK
  <2>2. CASE InitFinished
    BY <2>2, <1>2, InitFinishedOK
  <2>3. CASE \E t \in Common : Prepare(t)
    BY <2>3, <1>2, PrepareOK
  <2>4. CASE OpenSound \/ SaveSound \/ Count
    BY <2>4, <1>2, SoundOK
  <2>5. CASE AppendLine
    BY <2>5, <1>2, AppendOK
  <2>6. CASE Push
    BY <2>6, <1>2, PushOK
  <2>7. CASE End
    BY <2>7, <1>2, EndOK
  <2>8. CASE UNCHANGED vars
    <3>1. /\ UNCHANGED <<list, wav, preparedAudio, lastAudioIndex, running>>
          /\ UNCHANGED <<todo, prep, load, finished>>
      BY <2>8 DEF vars, diskVars, memoryVars
    <3>2. \A k : Known(k)' <=> Known(k)
      BY <3>1 DEF Known, Matches
    <3> QED
      BY <3>1, <3>2, <1>2 DEF Good, LinesOK, EntriesOK, IndexOK, LoadOK, KnownOK, OnceOK, Taken
  <2> QED
    BY <1>2, <2>1, <2>2, <2>3, <2>4, <2>5, <2>6, <2>7, <2>8 DEF Next, PrepareSpeech
<1>3. TypeOK /\ overlapped /\ [Next]_vars => overlapped'
  <2> SUFFICES ASSUME TypeOK, overlapped, [Next]_vars PROVE overlapped'
    OBVIOUS
  <2> QED
    BY DEF Next, PrepareSpeech, vars, BeginLoad, ReadLine, EndLoad, Stop, InitFinished, Prepare,
           OpenSound, SaveSound, Count, AppendLine, Push, Step, End
<1>4. Init /\ TypeOK => Inv
  BY <1>1 DEF Inv
<1>5. TypeOK /\ TypeOK' /\ Inv /\ [Next]_vars => Inv'
  BY <1>2, <1>3 DEF Inv
<1> QED
  BY <1>4, <1>5, TypeCorrect, PTL DEF Spec

\* However often the process ends in the middle of a preparation, what is played
\* for a text says it, for every list that is prepared.
THEOREM SoundsOfLines == Spec => []SoundsMatch
<1>1. Inv => SoundsMatch
  <2> SUFFICES ASSUME Inv, ~overlapped
               PROVE  /\ \A k \in DOMAIN list : wav[k - 1] = list[k]
                      /\ \A t \in Texts : \A k \in Matches(t) : Sound(k) = t
    BY DEF SoundsMatch
  <2>1. \A k \in DOMAIN list : wav[k - 1] = list[k]
    BY DEF Inv, Good, LinesOK
  <2>2. ASSUME NEW t \in Texts, NEW k \in Matches(t) PROVE Sound(k) = t
    <3>1. preparedAudio[k] \in Entries /\ preparedAudio[k].words = t
      BY DEF Matches, Inv, TypeOK
    <3>2. preparedAudio[k].file \in Nat
      BY <3>1 DEF Entries
    <3>3. /\ preparedAudio[k].file + 1 \in DOMAIN list
          /\ list[preparedAudio[k].file + 1] = t
      BY <3>1 DEF Matches, Inv, Good, EntriesOK
    <3>4. wav[(preparedAudio[k].file + 1) - 1] = t
      BY <3>3, <2>1
    <3> QED
      BY <3>2, <3>4 DEF Sound
  <2> QED
    BY <2>1, <2>2
<1> QED
  BY <1>1, Invariance, PTL

\* No text is prepared twice, in one run of the process or in several.
THEOREM ListedOnce == Spec => []PreparedOnce
<1>1. Inv => PreparedOnce
  BY DEF Inv, Good, OnceOK, PreparedOnce
<1> QED
  BY <1>1, Invariance, PTL

=============================================================================
