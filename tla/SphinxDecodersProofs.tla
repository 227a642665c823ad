------------------------- MODULE SphinxDecodersProofs -------------------------
(***************************************************************************)
(* Proofs about SphinxDecoders: its types, that every decoder has the      *)
(* grammar that was set last when no update is in progress, and that every *)
(* decoder comes back, for any number of updates, utterances, pauses and   *)
(* failures.                                                               *)
(*                                                                         *)
(* The exchange of a current decoder that failed adds the index of the     *)
(* decoder to itself.  With four decoders or more that may be no index:    *)
(* the decoder after an utterance on it and an update of it overlapped has *)
(* failed and is ready.  The theorems are therefore about the behaviours   *)
(* in which the index stays in range, for any number of decoders, and      *)
(* about all behaviours for three decoders or fewer (the default is two),  *)
(* where it does.                                                          *)
(***************************************************************************)
EXTENDS SphinxDecoders, FiniteSetTheorems, TLAPS

-----------------------------------------------------------------------------
(* The invariant                                                           *)

InRange == currentDecoderIndex \in Decoders

\* updateLock keeps updates apart.
Exclusive ==
    \A u, v \in Updates : update[u] \in Applying /\ update[v] \in Applying => u = v

\* The decoders an update is through with are different decoders.
Distinct(f, n) ==
    /\ \A i \in 0 .. n - 1 : f[i] \in Decoders
    /\ \A i, j \in 0 .. n - 1 : f[i] = f[j] => i = j

\* What an update found when it visited a decoder stays true of the registers.
RegistersOK ==
    /\ sparing => Distinct(decodersDone, decoderDoneCount)
    /\ \A u \in Updates :
          /\ sparing /\ update[u] \in {"unload", "load", "start", "select", "switch"}
                => ~Through(index)
          /\ update[u] = "switch" => sparing /\ decoderDoneCount > 0

\* An update at this place has loaded the decoder.
Reloaded(d, place) ==
    \/ place \in {"start", "select"} /\ index = d
    \/ sparing /\ \E k \in 0 .. decoderDoneCount - 1 : decodersDone[k] = d
    \/ ~sparing /\ d < index

\* An update at this place has yet to load the decoder.
Pending(d, place) ==
    \/ place \in {"write", "lock", "test"}
    \/ /\ place \in {"visit", "unload", "load", "start", "select", "switch"}
       /\ ~Reloaded(d, place)

\* A decoder has the grammar that was set last, or an update that has yet to
\* load it.
Applied ==
    \A d \in Decoders :
        \/ loaded[d] \in {wanted[d], Nothing}
        \/ \E u \in Updates : Pending(d, update[u])

\* A thread that will start the next utterance of the decoder, if need be.
InCharge(d) ==
    \/ \E w \in Utterances : of[w] = d /\ hyp[w] \notin {"none", "done"}
    \/ loop = "resume" /\ currentDecoderIndex = d
    \/ \E u \in Updates : update[u] \in {"load", "start"} /\ index = d

Fine(d) ==
    \/ state[d] = "ERROR"
    \/ /\ state[d] = "UTTERANCE_STARTED"
       /\ open[d]
       /\ ready[d] \/ \E w \in Utterances : of[w] = d /\ hyp[w] = "end"
    \/ state[d] \in {"IDLE", "UTTERANCE_ENDING"} /\ InCharge(d)
    \/ state[d] = "NOT_INITIALIZED" /\ \E u \in Updates : update[u] = "load" /\ index = d

AllFine == \A d \in Decoders : Fine(d)

Inv == TypeOK /\ Exclusive /\ RegistersOK /\ Applied /\ AllFine

-----------------------------------------------------------------------------
(* Facts about the constants and the operators                             *)

LEMMA ConstantsAreNats ==
    /\ MaxDecoders \in Nat \ {0} /\ MaxUpdates \in Nat /\ MaxUtterances \in Nat
    /\ MaxPauses \in Nat /\ MaxFaults \in Nat
BY DecodersAssumption DEF DecodersAssumption

LEMMA Wraps ==
    ASSUME NEW n \in Decoders
    PROVE  /\ (n + 1) % MaxDecoders = IF n + 1 = MaxDecoders THEN 0 ELSE n + 1
           /\ (n + 1) % MaxDecoders \in Decoders
<1>1. MaxDecoders \in Nat \ {0} /\ n \in 0 .. MaxDecoders - 1
  BY ConstantsAreNats DEF Decoders
<1>2. (n + 1) % MaxDecoders = IF n + 1 = MaxDecoders THEN 0 ELSE n + 1
  BY <1>1
<1> QED
  BY <1>1, <1>2 DEF Decoders

\* As many different decoders as there are: all of them.
LEMMA AllOfThem ==
    ASSUME NEW f \in [Decoders -> 0 .. MaxDecoders], Distinct(f, MaxDecoders)
    PROVE  \A d \in Decoders : \E k \in 0 .. MaxDecoders - 1 : f[k] = d
<1>1. MaxDecoders \in Nat \ {0} /\ 0 \in Int /\ MaxDecoders - 1 \in Int
  BY ConstantsAreNats
<1>2. IsFiniteSet(Decoders)
  BY <1>1, FS_Interval DEF Decoders
<1>3. f \in [Decoders -> Decoders]
  BY DEF Distinct, Decoders
<1>4. f \in Injection(Decoders, Decoders)
  BY <1>3 DEF Distinct, Decoders, Injection, IsInjective
<1>5. f \in Surjection(Decoders, Decoders)
  BY <1>2, <1>4, FS_Injection
<1> QED
  BY <1>5 DEF Surjection, Decoders

\* A decoder the update is not through with leaves room for it.
LEMMA RoomForOne ==
    ASSUME TypeOK, Distinct(decodersDone, decoderDoneCount), ~Through(index)
    PROVE  decoderDoneCount \in Decoders
<1>1. MaxDecoders \in Nat \ {0} /\ decoderDoneCount \in 0 .. MaxDecoders /\ index \in Decoders
  BY ConstantsAreNats DEF TypeOK
<1>2. ASSUME decoderDoneCount = MaxDecoders PROVE FALSE
  BY <1>1, <1>2, AllOfThem DEF TypeOK, Through, Decoders
<1> QED
  BY <1>1, <1>2 DEF Decoders

\* What becomes of a decoder whose utterance is started, or ended.
LEMMA Started ==
    ASSUME TypeOK, NEW d \in Decoders, StartUtterance(d)
    PROVE  /\ state' \in [Decoders -> DecoderStates]
           /\ ready' \in [Decoders -> BOOLEAN]
           /\ open' \in [Decoders -> BOOLEAN]
           /\ faults' \in 0 .. MaxFaults
           /\ \/ state'[d] = "ERROR"
              \/ state'[d] = "UTTERANCE_STARTED" /\ ready'[d] /\ open'[d]
           /\ \A e \in Decoders \ {d} :
                 state'[e] = state[e] /\ ready'[e] = ready[e] /\ open'[e] = open[e]
<1>1. faults' \in 0 .. MaxFaults
  BY ConstantsAreNats DEF StartUtterance, TypeOK
<1>2. /\ state \in [Decoders -> DecoderStates]
      /\ ready \in [Decoders -> BOOLEAN]
      /\ open \in [Decoders -> BOOLEAN]
  BY DEF TypeOK
<1>3. CASE /\ state' = [state EXCEPT ![d] = "UTTERANCE_STARTED"]
           /\ ready' = [ready EXCEPT ![d] = TRUE]
           /\ open' = [open EXCEPT ![d] = TRUE]
  BY <1>1, <1>2, <1>3 DEF DecoderStates
<1>4. CASE /\ state' = [state EXCEPT ![d] = "ERROR"]
           /\ UNCHANGED <<ready, open>>
  BY <1>1, <1>2, <1>4 DEF DecoderStates
<1> QED
  BY <1>3, <1>4 DEF StartUtterance

LEMMA Ended ==
    ASSUME TypeOK, NEW d \in Decoders, EndUtterance(d)
    PROVE  /\ state' \in [Decoders -> DecoderStates]
           /\ ready' \in [Decoders -> BOOLEAN]
           /\ open' \in [Decoders -> BOOLEAN]
           /\ state'[d] = "UTTERANCE_ENDING"
           /\ \A e \in Decoders \ {d} :
                 state'[e] = state[e] /\ ready'[e] = ready[e] /\ open'[e] = open[e]
BY DEF EndUtterance, TypeOK, DecoderStates

\* An update goes to the next decoder, or ends after the last.
LEMMA GoesOn ==
    ASSUME TypeOK, NEW u \in Updates, NEW done \in [Decoders -> 0 .. MaxDecoders],
           NEW count \in 0 .. MaxDecoders, GoOn(u, done, count)
    PROVE  /\ index' \in Decoders
           /\ decodersDone' \in [Decoders -> 0 .. MaxDecoders]
           /\ decoderDoneCount' \in 0 .. MaxDecoders
           /\ sparing' \in BOOLEAN
           /\ stray' \in BOOLEAN
           /\ update' \in [Updates -> UpdatePlaces]
           /\ \A v \in Updates \ {u} : update'[v] = update[v]
           /\ \/ /\ index = MaxDecoders - 1 /\ count = MaxDecoders
                 /\ update'[u] = "done"
                 /\ sparing' = FALSE
              \/ /\ ~(index = MaxDecoders - 1 /\ count = MaxDecoders)
                 /\ update'[u] = "visit"
                 /\ decodersDone' = done /\ decoderDoneCount' = count
                 /\ sparing' = sparing
                 /\ index' = IF index + 1 = MaxDecoders THEN 0 ELSE index + 1
<1> DEFINE last == index = MaxDecoders - 1 /\ count = MaxDecoders
<1>1. /\ index \in Decoders /\ index' = (index + 1) % MaxDecoders
      /\ update \in [Updates -> UpdatePlaces] /\ sparing \in BOOLEAN /\ stray \in BOOLEAN
      /\ MaxDecoders \in Nat \ {0}
  BY ConstantsAreNats DEF GoOn, TypeOK
<1>2. index' \in Decoders /\ index' = IF index + 1 = MaxDecoders THEN 0 ELSE index + 1
  BY <1>1, Wraps
<1>3. /\ update' = [update EXCEPT ![u] = IF last THEN "done" ELSE "visit"]
      /\ decodersDone' = IF last THEN NoneDone ELSE done
      /\ decoderDoneCount' = IF last THEN 0 ELSE count
      /\ sparing' = (sparing /\ ~last)
      /\ stray' = (stray /\ ~last)
  BY DEF GoOn, Advance
<1> HIDE DEF last
<1>4. NoneDone \in [Decoders -> 0 .. MaxDecoders] /\ 0 \in 0 .. MaxDecoders
  BY <1>1 DEF NoneDone
<1>5. sparing' \in BOOLEAN /\ stray' \in BOOLEAN
  BY <1>3
<1>6. CASE last
  <2>1. decodersDone' = NoneDone /\ decoderDoneCount' = 0 /\ sparing' = FALSE
        /\ update' = [update EXCEPT ![u] = "done"]
    BY <1>3, <1>6
  <2>2. index = MaxDecoders - 1 /\ count = MaxDecoders
    BY <1>6 DEF last
  <2> QED
    BY <1>1, <1>2, <1>4, <1>5, <2>1, <2>2 DEF UpdatePlaces
<1>7. CASE ~last
  <2>1. decodersDone' = done /\ decoderDoneCount' = count /\ sparing' = sparing
        /\ update' = [update EXCEPT ![u] = "visit"]
    BY <1>1, <1>3, <1>7
  <2>2. ~(index = MaxDecoders - 1 /\ count = MaxDecoders)
    BY <1>7 DEF last
  <2> QED
    BY <1>1, <1>2, <1>4, <1>5, <2>1, <2>2 DEF UpdatePlaces
<1> QED
  BY <1>6, <1>7

\* What Select hands on, when the update spares the current decoder.
LEMMA DoneList ==
    ASSUME TypeOK, Distinct(decodersDone, decoderDoneCount), ~Through(index),
           NEW done, done = [decodersDone EXCEPT ![decoderDoneCount] = index]
    PROVE  /\ done \in [Decoders -> 0 .. MaxDecoders]
           /\ decoderDoneCount + 1 \in 0 .. MaxDecoders
           /\ decoderDoneCount \in 0 .. MaxDecoders - 1
           /\ Distinct(done, decoderDoneCount + 1)
           /\ done[decoderDoneCount] = index
           /\ \A k \in 0 .. decoderDoneCount - 1 : done[k] = decodersDone[k]
<1>1. MaxDecoders \in Nat \ {0} /\ decoderDoneCount \in Decoders /\ index \in Decoders
      /\ decodersDone \in [Decoders -> 0 .. MaxDecoders]
  BY ConstantsAreNats, RoomForOne DEF TypeOK
<1>2. done[decoderDoneCount] = index /\ \A k \in 0 .. decoderDoneCount - 1 : done[k] = decodersDone[k]
  BY <1>1 DEF Decoders
<1>3. done \in [Decoders -> 0 .. MaxDecoders]
  BY <1>1 DEF Decoders
<1>4. \A k \in 0 .. decoderDoneCount - 1 : decodersDone[k] # index
  BY <1>1 DEF Through, Decoders
<1>5. \A k \in 0 .. decoderDoneCount : k = decoderDoneCount \/ k \in 0 .. decoderDoneCount - 1
  BY <1>1 DEF Decoders
<1>6. 0 .. (decoderDoneCount + 1) - 1 = 0 .. decoderDoneCount
  BY <1>1 DEF Decoders
<1>7. /\ \A k \in 0 .. decoderDoneCount - 1 : decodersDone[k] \in Decoders
      /\ \A j, k \in 0 .. decoderDoneCount - 1 : decodersDone[j] = decodersDone[k] => j = k
  BY DEF Distinct
<1>8. \A k \in 0 .. decoderDoneCount : done[k] \in Decoders
  BY <1>1, <1>2, <1>5, <1>7
<1>9. \A j, k \in 0 .. decoderDoneCount : done[j] = done[k] => j = k
  BY <1>2, <1>4, <1>5, <1>7
<1>10. Distinct(done, decoderDoneCount + 1)
  <2>1. /\ \A k \in 0 .. (decoderDoneCount + 1) - 1 : done[k] \in Decoders
        /\ \A j, k \in 0 .. (decoderDoneCount + 1) - 1 : done[j] = done[k] => j = k
    BY <1>6, <1>8, <1>9, Zenon
  <2> QED
    BY <2>1, Zenon DEF Distinct
<1> QED
  BY <1>1, <1>2, <1>3, <1>10 DEF Decoders

-----------------------------------------------------------------------------
(* Types                                                                   *)

LEMMA LoopTypes ==
    ASSUME TypeOK, Press \/ Release \/ Pause \/ Listening, InRange'
    PROVE  TypeOK'
<1> USE DEF LoopPlaces, HypPlaces
<1>0. currentDecoderIndex \in Decoders /\ next \in Decoders /\ 0 \in Decoders
  BY ConstantsAreNats DEF TypeOK, Decoders
<1>1. CASE Press
  BY <1>1 DEF Press, TypeOK, decoderVars, hypVars, updateVars, registers
<1>2. CASE Release
  BY <1>2 DEF Release, TypeOK, decoderVars, hypVars, updateVars, registers
<1>3. CASE Pause
  <2>1. /\ state' \in [Decoders -> DecoderStates]
        /\ ready' \in [Decoders -> BOOLEAN]
        /\ open' \in [Decoders -> BOOLEAN]
    BY <1>0, <1>3, Ended DEF Pause, TypeOK
  <2>2. pauses' \in 0 .. MaxPauses
    BY <1>3, ConstantsAreNats DEF Pause, TypeOK
  <2> QED
    BY <1>3, <2>1, <2>2 DEF Pause, TypeOK, hypVars, updateVars, registers
<1>4. CASE Frame
  <2>1. inUtterance' \in BOOLEAN /\ loop' \in LoopPlaces
    BY <1>4 DEF Frame, TypeOK
  <2> QED
    BY <1>4, <2>1 DEF Frame, TypeOK, InRange, decoderVars, hypVars, updateVars, registers
<1>5. CASE Resume
  <2>1. /\ state' \in [Decoders -> DecoderStates]
        /\ ready' \in [Decoders -> BOOLEAN]
        /\ open' \in [Decoders -> BOOLEAN]
        /\ faults' \in 0 .. MaxFaults
    BY <1>0, <1>5, Started DEF Resume, TypeOK
  <2> QED
    BY <1>5, <2>1 DEF Resume, TypeOK, hypVars, updateVars, registers
<1>6. ASSUME NEW w \in Utterances, EndOfSpeech(w) PROVE TypeOK'
  BY <1>0, <1>6 DEF EndOfSpeech, TypeOK, updateVars, registers
<1>7. CASE Refresh
  <2>1. next' \in Decoders
    BY <1>0, <1>7, Wraps DEF Refresh
  <2>2. loop' \in LoopPlaces
    BY <1>7 DEF Refresh
  <2> QED
    BY <1>7, <2>1, <2>2 DEF Refresh, TypeOK, InRange, decoderVars, hypVars, updateVars, registers
<1>8. CASE GiveUp
  <2>1. loop' \in LoopPlaces
    BY <1>8 DEF GiveUp
  <2> QED
    BY <1>8, <2>1 DEF GiveUp, TypeOK, decoderVars, hypVars, updateVars, registers
<1> QED
  BY <1>1, <1>2, <1>3, <1>4, <1>5, <1>6, <1>7, <1>8 DEF Listening

LEMMA HypothesisTypes ==
    ASSUME TypeOK, NEW w \in Utterances, Hypothesis(w)
    PROVE  TypeOK'
<1> USE DEF HypPlaces, Proceed
<1>0. of[w] \in Decoders
  BY DEF TypeOK
<1>1. CASE HypTest(w)
  BY <1>0, <1>1 DEF HypTest, TypeOK, loopVars, decoderVars, updateVars, registers
<1>2. CASE HypEnd(w)
  <2>1. /\ state' \in [Decoders -> DecoderStates]
        /\ ready' \in [Decoders -> BOOLEAN]
        /\ open' \in [Decoders -> BOOLEAN]
    BY <1>0, <1>2, Ended DEF HypEnd, TypeOK
  <2> QED
    BY <1>2, <2>1 DEF HypEnd, TypeOK, loopVars, updateVars, registers
<1>3. CASE HypGet(w)
  BY <1>0, <1>3 DEF HypGet, TypeOK, DecoderStates, loopVars, updateVars, registers
<1>4. CASE HypStart(w)
  <2>1. /\ state' \in [Decoders -> DecoderStates]
        /\ ready' \in [Decoders -> BOOLEAN]
        /\ open' \in [Decoders -> BOOLEAN]
        /\ faults' \in 0 .. MaxFaults
    BY <1>0, <1>4, Started DEF HypStart, TypeOK
  <2> QED
    BY <1>4, <2>1 DEF HypStart, TypeOK, loopVars, updateVars, registers
<1> QED
  BY <1>1, <1>2, <1>3, <1>4 DEF Hypothesis

LEMMA UpdateTypes ==
    ASSUME TypeOK, RegistersOK, NEW u \in Updates, WriteModel(u) \/ Updating(u)
    PROVE  TypeOK'
<1> USE DEF UpdatePlaces, Advance
<1>0. /\ index \in Decoders /\ written[u] \in Decoders /\ 0 \in Decoders
      /\ update \in [Updates -> UpdatePlaces]
      /\ sparing \in BOOLEAN
      /\ MaxDecoders \in Nat \ {0} /\ 0 \in 0 .. MaxDecoders
  BY ConstantsAreNats DEF TypeOK, Decoders
<1>1. CASE WriteModel(u)
  <2>1. written' = [written EXCEPT ![u] = (written[u] + 1) % MaxDecoders]
    BY <1>1 DEF WriteModel
  <2>2. written' \in [Updates -> Decoders]
    BY <1>0, <2>1, Wraps DEF TypeOK
  <2> QED
    BY <1>0, <1>1, <2>2 DEF WriteModel, TypeOK, Models, loopVars, decoderVars, hypVars, registers
<1>2. CASE LockUpdates(u)
  BY <1>2 DEF LockUpdates, TypeOK, loopVars, decoderVars, hypVars, registers
<1>3. CASE TestRecognizing(u)
  <2>1. sparing' \in BOOLEAN /\ stray' \in BOOLEAN
        /\ decodersDone' \in [Decoders -> 0 .. MaxDecoders]
    BY <1>3 DEF TestRecognizing, TypeOK
  <2> QED
    BY <1>0, <1>3, <2>1 DEF TestRecognizing, TypeOK, loopVars, decoderVars, hypVars
<1>4. CASE Visit(u)
  <2>1. CASE UNCHANGED registers
    BY <1>4, <2>1 DEF Visit, TypeOK, registers, loopVars, decoderVars, hypVars, GoOn
  <2>2. CASE GoOn(u, decodersDone, decoderDoneCount)
    <3>1. UNCHANGED <<loopVars, inUtterance, currentDecoderIndex, decoderVars, hypVars, wanted,
                      written, faults>>
      BY <1>4 DEF Visit
    <3> QED
      BY <2>2, <3>1, GoesOn DEF TypeOK, loopVars, decoderVars, hypVars
  <2> QED
    BY <1>4, <2>1, <2>2 DEF Visit
<1>5. CASE Switch(u)
  <2>1. currentDecoderIndex' \in Decoders
    <3>1. sparing /\ decoderDoneCount > 0 /\ Distinct(decodersDone, decoderDoneCount)
      BY <1>5 DEF Switch, RegistersOK
    <3>2. decoderDoneCount \in Nat
      BY <1>0 DEF TypeOK
    <3>3. 0 \in 0 .. decoderDoneCount - 1
      BY <3>1, <3>2
    <3> QED
      BY <1>5, <3>1, <3>3 DEF Switch, Distinct
  <2>2. GoOn(u, decodersDone, decoderDoneCount)
        /\ UNCHANGED <<loopVars, inUtterance, decoderVars, hypVars, wanted, written, faults>>
    BY <1>5 DEF Switch
  <2> QED
    BY <2>1, <2>2, GoesOn DEF TypeOK, loopVars, decoderVars, hypVars
<1>6. CASE Unload(u)
  BY <1>0, <1>6 DEF Unload, TypeOK, DecoderStates, loopVars, hypVars, registers
<1>7. CASE Load(u)
  <2>1. faults' \in 0 .. MaxFaults
    BY <1>7, ConstantsAreNats DEF Load, TypeOK
  <2> QED
    BY <1>0, <1>7, <2>1 DEF Load, TypeOK, DecoderStates, loopVars, hypVars, registers
<1>8. CASE Start(u)
  <2>1. /\ state' \in [Decoders -> DecoderStates]
        /\ ready' \in [Decoders -> BOOLEAN]
        /\ open' \in [Decoders -> BOOLEAN]
        /\ faults' \in 0 .. MaxFaults
    BY <1>0, <1>8, Started DEF Start, TypeOK
  <2> QED
    BY <1>8, <2>1 DEF Start, TypeOK, loopVars, hypVars, registers
<1>9. CASE Select(u)
  <2>1. CASE sparing
    <3> DEFINE done == [decodersDone EXCEPT ![decoderDoneCount] = index]
    <3>1. Distinct(decodersDone, decoderDoneCount) /\ ~Through(index)
      BY <1>9, <2>1 DEF Select, RegistersOK
    <3>2. done \in [Decoders -> 0 .. MaxDecoders] /\ decoderDoneCount + 1 \in 0 .. MaxDecoders
      BY <3>1, DoneList
    <3>3. GoOn(u, done, decoderDoneCount + 1)
          /\ UNCHANGED <<loopVars, inUtterance, currentDecoderIndex, decoderVars, hypVars, wanted,
                         written, faults>>
      BY <1>9, <2>1 DEF Select
    <3> HIDE DEF done
    <3> QED
      BY <3>2, <3>3, GoesOn DEF TypeOK, loopVars, decoderVars, hypVars
  <2>2. CASE ~sparing
    <3>1. index + 1 \in 0 .. MaxDecoders
      BY <1>0 DEF Decoders
    <3>2. GoOn(u, decodersDone, index + 1) /\ currentDecoderIndex' \in Decoders
          /\ UNCHANGED <<loopVars, inUtterance, decoderVars, hypVars, wanted, written, faults>>
      BY <1>0, <1>9, <2>2 DEF Select, TypeOK
    <3> QED
      BY <3>1, <3>2, GoesOn DEF TypeOK, loopVars, decoderVars, hypVars
  <2> QED
    BY <2>1, <2>2
<1> QED
  BY <1>1, <1>2, <1>3, <1>4, <1>5, <1>6, <1>7, <1>8, <1>9 DEF Updating

LEMMA TypeStep ==
    ASSUME TypeOK, RegistersOK, InRange', [Next]_vars
    PROVE  TypeOK'
<1>1. CASE UNCHANGED vars
  BY <1>1 DEF TypeOK, vars
<1> QED
  BY <1>1, LoopTypes, HypothesisTypes, UpdateTypes DEF Next

-----------------------------------------------------------------------------
(* Updates                                                                 *)

\* The loop and the threads of utterances leave updates alone.
LEMMA OthersLeaveUpdates ==
    ASSUME Press \/ Release \/ Pause \/ Listening \/ \E w \in Utterances : Hypothesis(w)
    PROVE  UNCHANGED updateVars /\ UNCHANGED loaded
<1>1. CASE Press \/ Release \/ Pause
  BY <1>1 DEF Press, Release, Pause, decoderVars
<1>2. CASE Frame \/ GiveUp \/ Resume \/ Refresh
  BY <1>2 DEF Frame, GiveUp, Resume, Refresh, decoderVars
<1>3. ASSUME NEW w \in Utterances, EndOfSpeech(w) PROVE UNCHANGED updateVars /\ UNCHANGED loaded
  BY <1>3 DEF EndOfSpeech
<1>4. ASSUME NEW w \in Utterances, Hypothesis(w) PROVE UNCHANGED updateVars /\ UNCHANGED loaded
  BY <1>4 DEF Hypothesis, HypTest, HypEnd, HypGet, HypStart, decoderVars
<1> QED
  BY <1>1, <1>2, <1>3, <1>4 DEF Listening

\* A step of an update moves that update only, and only LockUpdates enters
\* what updateLock guards.
LEMMA Moves ==
    ASSUME TypeOK, RegistersOK, NEW u \in Updates, WriteModel(u) \/ Updating(u)
    PROVE  /\ \A v \in Updates \ {u} : update'[v] = update[v]
           /\ update'[u] \in Applying => update[u] \in Applying \/ LockUpdates(u)
<1> USE DEF Advance, Applying, UpdatePlaces
<1>0. update \in [Updates -> UpdatePlaces] /\ index \in Decoders
      /\ decodersDone \in [Decoders -> 0 .. MaxDecoders] /\ decoderDoneCount \in 0 .. MaxDecoders
      /\ MaxDecoders \in Nat \ {0} /\ sparing \in BOOLEAN
  BY ConstantsAreNats DEF TypeOK
<1>1. CASE WriteModel(u)
  BY <1>0, <1>1 DEF WriteModel
<1>2. CASE LockUpdates(u)
  BY <1>0, <1>2 DEF LockUpdates
<1>3. CASE TestRecognizing(u)
  BY <1>0, <1>3 DEF TestRecognizing
<1>4. CASE Visit(u)
  <2>1. update[u] \in Applying
    BY <1>4 DEF Visit
  <2>2. CASE GoOn(u, decodersDone, decoderDoneCount)
    BY <1>0, <2>1, <2>2, GoesOn
  <2>3. CASE \E place \in {"unload", "switch"} : Advance(u, place)
    BY <1>0, <2>1, <2>3
  <2> QED
    BY <1>4, <2>2, <2>3 DEF Visit
<1>5. CASE Switch(u) \/ Select(u)
  <2>1. update[u] \in Applying
    BY <1>5 DEF Switch, Select
  <2>2. PICK done \in [Decoders -> 0 .. MaxDecoders], count \in 0 .. MaxDecoders :
            GoOn(u, done, count)
    <3>1. CASE Switch(u)
      BY <1>0, <3>1 DEF Switch
    <3>2. CASE Select(u) /\ sparing
      <4>1. Distinct(decodersDone, decoderDoneCount) /\ ~Through(index)
        BY <3>2 DEF Select, RegistersOK
      <4> QED
        BY <3>2, <4>1, DoneList DEF Select
    <3>3. CASE Select(u) /\ ~sparing
      <4>1. index + 1 \in 0 .. MaxDecoders
        BY <1>0 DEF Decoders
      <4> QED
        BY <1>0, <3>3, <4>1 DEF Select
    <3> QED
      BY <1>5, <3>1, <3>2, <3>3
  <2> QED
    BY <2>1, <2>2, GoesOn
<1>6. CASE Unload(u) \/ Load(u) \/ Start(u)
  BY <1>0, <1>6 DEF Unload, Load, Start
<1> QED
  BY <1>1, <1>2, <1>3, <1>4, <1>5, <1>6 DEF Updating

LEMMA ExclusiveStep ==
    ASSUME TypeOK, RegistersOK, Exclusive, [Next]_vars
    PROVE  Exclusive'
<1>1. CASE UNCHANGED update
  BY <1>1 DEF Exclusive
<1>2. ASSUME NEW u \in Updates, WriteModel(u) \/ Updating(u)
      PROVE  Exclusive'
  <2>1. /\ \A v \in Updates \ {u} : update'[v] = update[v]
        /\ update'[u] \in Applying => update[u] \in Applying \/ LockUpdates(u)
    BY <1>2, Moves
  <2>2. LockUpdates(u) => \A v \in Updates : update[v] \notin Applying
    BY DEF LockUpdates, UpdateLocked
  <2> QED
    BY <2>1, <2>2 DEF Exclusive
<1> QED
  BY <1>1, <1>2, OthersLeaveUpdates DEF Next, vars, updateVars

\* Only the update that has updateLock is in a place the registers are about.
LEMMA TheOthersWait ==
    ASSUME Exclusive, NEW u \in Updates, update[u] \in Applying
    PROVE  \A v \in Updates \ {u} : update[v] \notin Applying
BY DEF Exclusive

LEMMA RegistersAfter ==
    ASSUME TypeOK, RegistersOK, Exclusive, NEW u \in Updates, update[u] \in Applying,
           NEW done \in [Decoders -> 0 .. MaxDecoders], NEW count \in 0 .. MaxDecoders,
           sparing => Distinct(done, count), GoOn(u, done, count)
    PROVE  RegistersOK'
<1>1. /\ \A v \in Updates \ {u} : update'[v] = update[v]
      /\ update'[u] \in {"visit", "done"}
      /\ sparing' => sparing /\ decodersDone' = done /\ decoderDoneCount' = count
  BY GoesOn
<1>2. \A v \in Updates : update'[v] \notin {"unload", "load", "start", "select", "switch"}
  BY <1>1, TheOthersWait DEF Applying, UpdatePlaces
<1>3. sparing' => Distinct(decodersDone, decoderDoneCount)'
  BY <1>1
<1> QED
  BY <1>2, <1>3 DEF RegistersOK

LEMMA RegistersStep ==
    ASSUME TypeOK, RegistersOK, Exclusive, [Next]_vars
    PROVE  RegistersOK'
<1>1. CASE UNCHANGED updateVars
  <2>1. UNCHANGED <<update, sparing, index, decodersDone, decoderDoneCount>>
    BY <1>1 DEF updateVars, registers
  <2> QED
    BY <2>1 DEF RegistersOK, Distinct, Through
<1>2. ASSUME NEW u \in Updates, WriteModel(u) \/ Updating(u)
      PROVE  RegistersOK'
  <2> USE DEF Advance
  <2>0. update \in [Updates -> UpdatePlaces] /\ sparing \in BOOLEAN
        /\ decodersDone \in [Decoders -> 0 .. MaxDecoders] /\ decoderDoneCount \in 0 .. MaxDecoders
    BY DEF TypeOK
  <2> DEFINE Places == {"unload", "load", "start", "select", "switch"}
  <2>1. CASE WriteModel(u) \/ LockUpdates(u)
    <3>1. UNCHANGED <<sparing, index, decodersDone, decoderDoneCount>>
          /\ \A v \in Updates : update'[v] = update[v] \/ update'[v] \in {"lock", "write", "test"}
      BY <2>0, <2>1 DEF WriteModel, LockUpdates, registers
    <3> QED
      BY <3>1 DEF RegistersOK, Distinct, Through
  <2>2. CASE TestRecognizing(u)
    <3>1. decoderDoneCount' = 0 /\ update[u] = "test" /\ update'[u] = "visit"
          /\ \A v \in Updates \ {u} : update'[v] = update[v]
      BY <2>0, <2>2 DEF TestRecognizing
    <3>2. \A v \in Updates : update'[v] \notin Places
      BY <3>1, TheOthersWait DEF Applying, UpdatePlaces
    <3>3. 0 .. decoderDoneCount' - 1 = {}
      BY <3>1
    <3>4. Distinct(decodersDone, decoderDoneCount)'
      BY <3>3 DEF Distinct
    <3> QED
      BY <3>2, <3>4 DEF RegistersOK
  <2>3. CASE Visit(u)
    <3>1. update[u] = "visit" /\ update[u] \in Applying
      BY <2>3 DEF Visit, Applying, UpdatePlaces
    <3>2. CASE GoOn(u, decodersDone, decoderDoneCount)
      BY <2>0, <3>1, <3>2, RegistersAfter DEF RegistersOK
    <3>3. CASE Reloadable(index) /\ Advance(u, "unload") /\ UNCHANGED registers
      <4>1. UNCHANGED <<sparing, index, decodersDone, decoderDoneCount>>
            /\ update'[u] = "unload" /\ \A v \in Updates \ {u} : update'[v] = update[v]
        BY <2>0, <3>3 DEF registers
      <4>2. sparing => ~Through(index)
        BY <3>3 DEF Reloadable
      <4> QED
        BY <4>1, <4>2 DEF RegistersOK, Distinct, Through
    <3>4. CASE sparing /\ ~Through(index) /\ Exchangeable /\ Advance(u, "switch")
               /\ UNCHANGED registers
      <4>1. UNCHANGED <<sparing, index, decodersDone, decoderDoneCount>>
            /\ update'[u] = "switch" /\ \A v \in Updates \ {u} : update'[v] = update[v]
        BY <2>0, <3>4 DEF registers
      <4>2. sparing /\ ~Through(index) /\ decoderDoneCount > 0
        BY <3>4 DEF Exchangeable
      <4> QED
        BY <4>1, <4>2 DEF RegistersOK, Distinct, Through
    <3> QED
      BY <2>3, <3>2, <3>3, <3>4 DEF Visit
  <2>4. CASE Switch(u)
    <3>1. update[u] \in Applying /\ GoOn(u, decodersDone, decoderDoneCount)
      BY <2>4 DEF Switch, Applying, UpdatePlaces
    <3> QED
      BY <2>0, <3>1, RegistersAfter DEF RegistersOK
  <2>5. CASE Unload(u) \/ Load(u) \/ Start(u)
    <3>1. UNCHANGED <<sparing, index, decodersDone, decoderDoneCount>>
          /\ update[u] \in {"unload", "load", "start"}
          /\ update'[u] \in {"load", "start", "select"}
          /\ \A v \in Updates \ {u} : update'[v] = update[v]
      BY <2>0, <2>5 DEF Unload, Load, Start, registers
    <3> QED
      BY <3>1 DEF RegistersOK, Distinct, Through
  <2>6. CASE Select(u)
    <3>1. update[u] = "select" /\ update[u] \in Applying
      BY <2>6 DEF Select, Applying, UpdatePlaces
    <3>2. CASE sparing
      <4> DEFINE done == [decodersDone EXCEPT ![decoderDoneCount] = index]
      <4>1. Distinct(decodersDone, decoderDoneCount) /\ ~Through(index)
        BY <3>1, <3>2 DEF RegistersOK
      <4>2. GoOn(u, done, decoderDoneCount + 1)
        BY <2>6, <3>2 DEF Select
      <4>3. done \in [Decoders -> 0 .. MaxDecoders] /\ decoderDoneCount + 1 \in 0 .. MaxDecoders
            /\ Distinct(done, decoderDoneCount + 1)
        BY <4>1, DoneList
      <4> HIDE DEF done
      <4> QED
        BY <3>1, <4>2, <4>3, RegistersAfter
    <3>3. CASE ~sparing
      <4>1. index + 1 \in 0 .. MaxDecoders
        BY ConstantsAreNats DEF TypeOK, Decoders
      <4>2. GoOn(u, decodersDone, index + 1)
        BY <2>6, <3>3 DEF Select
      <4> QED
        BY <2>0, <3>1, <3>3, <4>1, <4>2, RegistersAfter
    <3> QED
      BY <3>2, <3>3
  <2> QED
    BY <1>2, <2>1, <2>2, <2>3, <2>4, <2>5, <2>6 DEF Updating
<1> QED
  BY <1>1, <1>2, OthersLeaveUpdates DEF Next, vars, updateVars, registers

LEMMA AppliedAfter ==
    ASSUME TypeOK, Exclusive, Applied, UNCHANGED <<wanted, loaded>>,
           NEW u \in Updates, update[u] \in Applying \ {"test"},
           NEW done \in [Decoders -> 0 .. MaxDecoders], NEW count \in 0 .. MaxDecoders,
           GoOn(u, done, count),
           sparing => /\ Distinct(done, count)
                      /\ \A d \in Decoders :
                            (\E k \in 0 .. count - 1 : done[k] = d) => Reloaded(d, update[u]),
           ~sparing => count = index + 1 /\ update[u] = "select"
    PROVE  Applied'
<1> USE DEF Applying, UpdatePlaces
<1>0. /\ MaxDecoders \in Nat \ {0} /\ index \in Decoders /\ index' \in Decoders
      /\ sparing \in BOOLEAN
  BY ConstantsAreNats, GoesOn DEF TypeOK
<1> SUFFICES ASSUME NEW d \in Decoders, loaded[d] \notin {wanted[d], Nothing}
             PROVE  \E v \in Updates : Pending(d, update[v])'
  BY DEF Applied
<1>1. PICK v \in Updates : Pending(d, update[v])
  BY DEF Applied
<1>2. CASE v # u
  <2>1. update[v] \notin Applying /\ update'[v] = update[v]
    BY <1>2, TheOthersWait, GoesOn
  <2>2. update'[v] \in {"write", "lock"}
    BY <1>1, <2>1 DEF Pending
  <2> QED
    BY <2>2 DEF Pending
<1>3. CASE v = u
  <2>1. ~Reloaded(d, update[u])
    BY <1>1, <1>3 DEF Pending
  <2>2. CASE sparing
    <3>1. ~\E k \in 0 .. count - 1 : done[k] = d
      BY <2>1, <2>2
    <3>2. count # MaxDecoders
      BY <2>2, <3>1, AllOfThem
    <3>3. /\ update'[u] = "visit" /\ decodersDone' = done /\ decoderDoneCount' = count
          /\ sparing' = TRUE
      BY <2>2, <3>2, GoesOn
    <3>4. ~Reloaded(d, "visit")'
      BY <3>1, <3>3 DEF Reloaded
    <3> QED
      BY <3>3, <3>4 DEF Pending
  <2>3. CASE ~sparing
    <3>1. update[u] = "select" /\ count = index + 1
      BY <2>3
    <3>2. ~(d < index) /\ d # index
      BY <2>1, <2>3, <3>1 DEF Reloaded
    <3>3. index + 1 # MaxDecoders /\ count # MaxDecoders
      BY <1>0, <3>1, <3>2 DEF Decoders
    <3>4. update'[u] = "visit" /\ sparing' = sparing /\ index' = index + 1
      BY <3>3, GoesOn
    <3>5. sparing' = FALSE /\ ~(d < index')
      BY <1>0, <2>3, <3>2, <3>4 DEF Decoders
    <3>6. ~Reloaded(d, "visit")'
      BY <3>5 DEF Reloaded
    <3> QED
      BY <3>4, <3>6 DEF Pending
  <2> QED
    BY <2>2, <2>3
<1> QED
  BY <1>2, <1>3

\* An update that goes to a place where it is through with the same decoders.
LEMMA StaysPending ==
    ASSUME TypeOK, Applied, UNCHANGED <<wanted, loaded>>,
           UNCHANGED <<sparing, index, decodersDone, decoderDoneCount>>, NEW u \in Updates,
           \A v \in Updates \ {u} : update'[v] = update[v],
           \A d \in Decoders : Pending(d, update[u]) => Pending(d, update'[u])
    PROVE  Applied'
<1> SUFFICES ASSUME NEW d \in Decoders, loaded[d] \notin {wanted[d], Nothing}
             PROVE  \E v \in Updates : Pending(d, update[v])'
  BY DEF Applied
<1>1. PICK v \in Updates : Pending(d, update[v])
  BY DEF Applied
<1>2. Pending(d, update'[v])
  BY <1>1
<1>3. Pending(d, update[v])'
  BY <1>2 DEF Pending, Reloaded
<1> QED
  BY <1>3

LEMMA AllPending ==
    ASSUME NEW u \in Updates, \A d \in Decoders : Pending(d, update[u])'
    PROVE  Applied'
BY DEF Applied

LEMMA AppliedStep ==
    ASSUME TypeOK, RegistersOK, Exclusive, Applied, [Next]_vars
    PROVE  Applied'
<1>1. CASE UNCHANGED updateVars /\ UNCHANGED loaded
  <2>1. UNCHANGED <<wanted, loaded, update, sparing, index, decodersDone, decoderDoneCount>>
    BY <1>1 DEF updateVars, registers
  <2> QED
    BY <2>1 DEF Applied, Pending, Reloaded
<1>2. ASSUME NEW u \in Updates, WriteModel(u) \/ Updating(u)
      PROVE  Applied'
  <2> USE DEF Advance
  <2>0. update \in [Updates -> UpdatePlaces] /\ sparing \in BOOLEAN /\ index \in Decoders
        /\ decodersDone \in [Decoders -> 0 .. MaxDecoders] /\ decoderDoneCount \in 0 .. MaxDecoders
        /\ loaded \in [Decoders -> Models \cup {Nothing}] /\ MaxDecoders \in Nat \ {0}
    BY ConstantsAreNats DEF TypeOK
  <2>1. CASE WriteModel(u)
    <3>1. update'[u] \in {"write", "lock"}
      BY <2>0, <2>1 DEF WriteModel
    <3> QED
      BY <3>1, AllPending DEF Pending
  <2>2. CASE LockUpdates(u)
    <3>1. update'[u] = "test"
      BY <2>0, <2>2 DEF LockUpdates
    <3> QED
      BY <3>1, AllPending DEF Pending
  <2>3. CASE TestRecognizing(u)
    <3>1. update'[u] = "visit" /\ decoderDoneCount' = 0 /\ index' = 0
      BY <2>0, <2>3 DEF TestRecognizing
    <3>2. 0 .. decoderDoneCount' - 1 = {} /\ \A d \in Decoders : ~(d < index')
      BY <3>1 DEF Decoders
    <3>3. \A d \in Decoders : ~Reloaded(d, "visit")'
      BY <3>2 DEF Reloaded
    <3> QED
      BY <3>1, <3>3, AllPending DEF Pending
  <2>4. CASE Visit(u)
    <3>1. update[u] = "visit" /\ UNCHANGED <<wanted, loaded>>
      BY <2>4 DEF Visit, decoderVars
    <3>2. CASE ~Reloadable(index) /\ GoOn(u, decodersDone, decoderDoneCount)
      <4>1. sparing
        BY <3>2 DEF Reloadable
      <4>2. Distinct(decodersDone, decoderDoneCount)
        BY <4>1 DEF RegistersOK
      <4>3. \A d \in Decoders :
               (\E k \in 0 .. decoderDoneCount - 1 : decodersDone[k] = d) => Reloaded(d, update[u])
        BY <4>1 DEF Reloaded
      <4>4. update[u] \in Applying \ {"test"}
        BY <3>1 DEF Applying, UpdatePlaces
      <4> QED
        BY <2>0, <3>1, <3>2, <4>1, <4>2, <4>3, <4>4, AppliedAfter
    <3>3. CASE UNCHANGED registers /\ \E place \in {"unload", "switch"} : Advance(u, place)
      <4>1. /\ UNCHANGED <<sparing, index, decodersDone, decoderDoneCount>>
            /\ update'[u] \in {"unload", "switch"}
            /\ \A v \in Updates \ {u} : update'[v] = update[v]
        BY <2>0, <3>3 DEF registers
      <4>2. \A d \in Decoders : Pending(d, update[u]) => Pending(d, update'[u])
        BY <3>1, <4>1 DEF Pending, Reloaded
      <4> QED
        BY <3>1, <4>1, <4>2, StaysPending
    <3> QED
      BY <2>4, <3>2, <3>3 DEF Visit
  <2>5. CASE Switch(u)
    <3>1. update[u] = "switch" /\ UNCHANGED <<wanted, loaded>>
          /\ GoOn(u, decodersDone, decoderDoneCount)
      BY <2>5 DEF Switch, decoderVars
    <3>2. sparing /\ Distinct(decodersDone, decoderDoneCount)
      BY <3>1 DEF RegistersOK
    <3>3. \A d \in Decoders :
             (\E k \in 0 .. decoderDoneCount - 1 : decodersDone[k] = d) => Reloaded(d, update[u])
      BY <3>2 DEF Reloaded
    <3>4. update[u] \in Applying \ {"test"}
      BY <3>1 DEF Applying, UpdatePlaces
    <3> QED
      BY <2>0, <3>1, <3>2, <3>3, <3>4, AppliedAfter
  <2>6. CASE Unload(u) \/ Start(u)
    <3>1. /\ UNCHANGED <<sparing, index, decodersDone, decoderDoneCount>>
          /\ UNCHANGED <<wanted, loaded>>
          /\ \/ update[u] = "unload" /\ update'[u] = "load"
             \/ update[u] = "start" /\ update'[u] = "select"
          /\ \A v \in Updates \ {u} : update'[v] = update[v]
      BY <2>0, <2>6 DEF Unload, Start, registers
    <3>2. \A d \in Decoders : Pending(d, update[u]) => Pending(d, update'[u])
      BY <3>1 DEF Pending, Reloaded
    <3> QED
      BY <3>1, <3>2, StaysPending
  <2>7. CASE Load(u)
    <3>1. /\ UNCHANGED <<sparing, index, decodersDone, decoderDoneCount, wanted>>
          /\ update[u] = "load" /\ update'[u] = "start"
          /\ \A v \in Updates \ {u} : update'[v] = update[v]
          /\ \A d \in Decoders \ {index} : loaded'[d] = loaded[d]
          /\ loaded'[index] \in {wanted[index], Nothing}
      BY <2>0, <2>7 DEF Load, registers
    <3> SUFFICES ASSUME NEW d \in Decoders, loaded'[d] \notin {wanted[d], Nothing}
                 PROVE  \E v \in Updates : Pending(d, update[v])'
      BY <3>1 DEF Applied, Nothing
    <3>2. d # index /\ loaded[d] \notin {wanted[d], Nothing}
      BY <3>1
    <3>3. PICK v \in Updates : Pending(d, update[v])
      BY <3>2 DEF Applied
    <3>4. Pending(d, update'[v])
      BY <3>1, <3>2, <3>3 DEF Pending, Reloaded
    <3>5. Pending(d, update[v])'
      BY <3>1, <3>4 DEF Pending, Reloaded
    <3> QED
      BY <3>5
  <2>8. CASE Select(u)
    <3>1. update[u] = "select" /\ UNCHANGED <<wanted, loaded>>
          /\ update[u] \in Applying \ {"test"}
      BY <2>8 DEF Select, decoderVars, Applying, UpdatePlaces
    <3>2. CASE sparing
      <4> DEFINE done == [decodersDone EXCEPT ![decoderDoneCount] = index]
      <4>1. Distinct(decodersDone, decoderDoneCount) /\ ~Through(index)
        BY <3>1, <3>2 DEF RegistersOK
      <4>2. GoOn(u, done, decoderDoneCount + 1)
        BY <2>8, <3>2 DEF Select
      <4>3. /\ done \in [Decoders -> 0 .. MaxDecoders] /\ decoderDoneCount + 1 \in 0 .. MaxDecoders
            /\ Distinct(done, decoderDoneCount + 1)
            /\ done[decoderDoneCount] = index
            /\ \A k \in 0 .. decoderDoneCount - 1 : done[k] = decodersDone[k]
        BY <4>1, DoneList
      <4> HIDE DEF done
      <4>4. \A k \in 0 .. (decoderDoneCount + 1) - 1 :
               k = decoderDoneCount \/ k \in 0 .. decoderDoneCount - 1
        BY <2>0
      <4>5. \A d \in Decoders :
               (\E k \in 0 .. (decoderDoneCount + 1) - 1 : done[k] = d) => Reloaded(d, update[u])
        BY <3>1, <3>2, <4>3, <4>4 DEF Reloaded
      <4> QED
        BY <3>1, <3>2, <4>2, <4>3, <4>5, AppliedAfter
    <3>3. CASE ~sparing
      <4>1. index + 1 \in 0 .. MaxDecoders
        BY <2>0 DEF Decoders
      <4>2. GoOn(u, decodersDone, index + 1)
        BY <2>8, <3>3 DEF Select
      <4> QED
        BY <2>0, <3>1, <3>3, <4>1, <4>2, AppliedAfter
    <3> QED
      BY <3>2, <3>3
  <2> QED
    BY <1>2, <2>1, <2>2, <2>3, <2>4, <2>5, <2>6, <2>7, <2>8 DEF Updating
<1> QED
  BY <1>1, <1>2, OthersLeaveUpdates DEF Next, vars, updateVars, registers

-----------------------------------------------------------------------------
(* Decoders                                                                *)

LEMMA LoopFine ==
    ASSUME TypeOK, AllFine, Press \/ Release \/ Pause \/ Listening
    PROVE  AllFine'
<1> SUFFICES ASSUME NEW d \in Decoders PROVE Fine(d)'
  BY DEF AllFine
<1> DEFINE current == currentDecoderIndex
<1>0. Fine(d) /\ current \in Decoders /\ ready \in [Decoders -> BOOLEAN]
  BY DEF AllFine, TypeOK
<1>1. CASE Press \/ Release \/ Frame \/ GiveUp \/ Refresh
  <2>1. /\ loop # "resume"
        /\ UNCHANGED <<state, ready, open, hyp, of, update, index>>
    BY <1>1 DEF Press, Release, Frame, GiveUp, Refresh, decoderVars, hypVars, updateVars, registers
  <2> QED
    BY <1>0, <2>1 DEF Fine, InCharge
<1>2. CASE Pause
  <2>1. /\ loop = "frame" /\ loop' = "resume" /\ UNCHANGED current
        /\ UNCHANGED <<hyp, of, update, index>>
    BY <1>2 DEF Pause, hypVars, updateVars, registers
  <2>2. CASE state[current] = "UTTERANCE_STARTED"
    <3>1. /\ state'[current] = "UTTERANCE_ENDING"
          /\ \A e \in Decoders \ {current} :
                state'[e] = state[e] /\ ready'[e] = ready[e] /\ open'[e] = open[e]
      BY <1>0, <1>2, <2>2, Ended DEF Pause
    <3>2. CASE d = current
      BY <2>1, <3>1, <3>2 DEF Fine, InCharge
    <3>3. CASE d # current
      BY <1>0, <2>1, <3>1, <3>3 DEF Fine, InCharge
    <3> QED
      BY <3>2, <3>3
  <2>3. CASE state[current] # "UTTERANCE_STARTED"
    <3>1. UNCHANGED <<state, ready, open>>
      BY <1>2, <2>3 DEF Pause
    <3> QED
      BY <1>0, <2>1, <3>1 DEF Fine, InCharge
  <2> QED
    BY <2>2, <2>3
<1>3. CASE Resume
  <2>1. /\ loop = "resume" /\ loop' = "frame" /\ UNCHANGED current
        /\ UNCHANGED <<hyp, of, update, index>>
    BY <1>3 DEF Resume, hypVars, updateVars, registers
  <2>2. CASE CanStart(current)
    <3>1. /\ \/ state'[current] = "ERROR"
             \/ state'[current] = "UTTERANCE_STARTED" /\ ready'[current] /\ open'[current]
          /\ \A e \in Decoders \ {current} :
                state'[e] = state[e] /\ ready'[e] = ready[e] /\ open'[e] = open[e]
      BY <1>0, <1>3, <2>2, Started DEF Resume
    <3>2. CASE d = current
      BY <3>1, <3>2 DEF Fine
    <3>3. CASE d # current
      BY <1>0, <2>1, <3>1, <3>3 DEF Fine, InCharge
    <3> QED
      BY <3>2, <3>3
  <2>3. CASE ~CanStart(current)
    <3>1. UNCHANGED <<state, ready, open>> /\ state[current] \notin {"IDLE", "UTTERANCE_ENDING"}
      BY <1>3, <2>3 DEF Resume, CanStart
    <3> QED
      BY <1>0, <2>1, <3>1 DEF Fine, InCharge
  <2> QED
    BY <2>2, <2>3
<1>4. ASSUME NEW w \in Utterances, EndOfSpeech(w) PROVE Fine(d)'
  <2>1. /\ hyp \in [Utterances -> HypPlaces] /\ of \in [Utterances -> Decoders]
        /\ hyp[w] = "none" /\ hyp' = [hyp EXCEPT ![w] = "end"] /\ of' = [of EXCEPT ![w] = current]
        /\ loop # "resume"
        /\ UNCHANGED <<state, open, update, index>>
        /\ ready' = [ready EXCEPT ![current] = FALSE]
    BY <1>4 DEF EndOfSpeech, TypeOK, updateVars, registers
  <2>2. /\ hyp'[w] = "end" /\ of'[w] = current
        /\ \A v \in Utterances : hyp[v] # "none" => hyp'[v] = hyp[v] /\ of'[v] = of[v]
    BY <2>1
  <2>3. d # current => ready'[d] = ready[d]
    BY <1>0, <2>1
  <2>4. InCharge(d) => InCharge(d)'
    BY <2>1, <2>2 DEF InCharge
  <2>5. d = current => \E v \in Utterances : of'[v] = d /\ hyp'[v] = "end"
    BY <2>2
  <2>6. (\E v \in Utterances : of[v] = d /\ hyp[v] = "end")
           => \E v \in Utterances : of'[v] = d /\ hyp'[v] = "end"
    BY <2>2
  <2> QED
    BY <1>0, <2>1, <2>3, <2>4, <2>5, <2>6 DEF Fine
<1> QED
  BY <1>1, <1>2, <1>3, <1>4 DEF Listening

\* A step of the thread of an utterance on its decoder, and what it leaves.
LEMMA HypothesisFine ==
    ASSUME TypeOK, AllFine, NEW w \in Utterances, Hypothesis(w)
    PROVE  AllFine'
<1> USE DEF Proceed, CanStart
<1> DEFINE mine == of[w]
<1>0. /\ mine \in Decoders /\ hyp \in [Utterances -> HypPlaces]
      /\ state \in [Decoders -> DecoderStates]
  BY DEF TypeOK
<1>1. /\ UNCHANGED <<of, loop, currentDecoderIndex, update, index>>
      /\ hyp[w] \notin {"none", "done"}
      /\ \A v \in Utterances \ {w} : hyp'[v] = hyp[v]
      /\ hyp'[w] # "none"
  BY <1>0 DEF Hypothesis, HypTest, HypEnd, HypGet, HypStart, loopVars, updateVars, registers
<1>2. ASSUME NEW d \in Decoders, d # mine,
             state'[d] = state[d], ready'[d] = ready[d], open'[d] = open[d]
      PROVE  Fine(d)'
  <2>1. Fine(d)
    BY DEF AllFine
  <2> QED
    BY <1>1, <1>2, <2>1 DEF Fine, InCharge
<1>3. Fine(mine)
  BY <1>0 DEF AllFine
<1>4. CASE HypEnd(w)
  <2>1. hyp[w] = "end" /\ hyp'[w] = "test"
    BY <1>0, <1>4 DEF HypEnd
  <2>2. CASE state[mine] = "UTTERANCE_STARTED"
    <3>1. /\ state'[mine] = "UTTERANCE_ENDING"
          /\ \A e \in Decoders \ {mine} :
                state'[e] = state[e] /\ ready'[e] = ready[e] /\ open'[e] = open[e]
      BY <1>0, <1>4, <2>2, Ended DEF HypEnd
    <3>2. \A d \in Decoders : d = mine => Fine(d)'
      BY <1>1, <2>1, <3>1 DEF Fine, InCharge
    <3> QED
      BY <1>2, <3>1, <3>2 DEF AllFine
  <2>3. CASE state[mine] # "UTTERANCE_STARTED"
    <3>1. UNCHANGED <<state, ready, open>>
      BY <1>4, <2>3 DEF HypEnd
    <3>2. \A d \in Decoders : d = mine => Fine(d)'
      BY <1>1, <1>3, <2>1, <2>3, <3>1 DEF Fine, InCharge
    <3> QED
      BY <1>2, <3>1, <3>2 DEF AllFine
  <2> QED
    BY <2>2, <2>3
<1>5. CASE HypTest(w)
  <2>1. /\ UNCHANGED <<state, ready, open>>
        /\ hyp[w] # "end"
        /\ hyp'[w] = "done" => state[mine] \notin {"IDLE", "UTTERANCE_ENDING"}
    BY <1>0, <1>5 DEF HypTest, decoderVars
  <2>2. \A d \in Decoders : d = mine => Fine(d)'
    BY <1>1, <1>3, <2>1 DEF Fine, InCharge
  <2> QED
    BY <1>2, <2>1, <2>2 DEF AllFine
<1>6. CASE HypGet(w)
  <2>1. /\ state'[mine] = "UTTERANCE_ENDING" /\ hyp'[w] = "testStart"
        /\ UNCHANGED <<ready, open>>
        /\ \A e \in Decoders \ {mine} : state'[e] = state[e]
    BY <1>0, <1>6 DEF HypGet
  <2>2. \A d \in Decoders : d = mine => Fine(d)'
    BY <1>1, <2>1 DEF Fine, InCharge
  <2> QED
    BY <1>2, <2>1, <2>2 DEF AllFine
<1>7. CASE HypStart(w)
  <2>1. /\ \/ state'[mine] = "ERROR"
           \/ state'[mine] = "UTTERANCE_STARTED" /\ ready'[mine] /\ open'[mine]
        /\ \A e \in Decoders \ {mine} :
              state'[e] = state[e] /\ ready'[e] = ready[e] /\ open'[e] = open[e]
    BY <1>0, <1>7, Started DEF HypStart
  <2>2. \A d \in Decoders : d = mine => Fine(d)'
    BY <2>1 DEF Fine
  <2> QED
    BY <1>2, <2>1, <2>2 DEF AllFine
<1> QED
  BY <1>4, <1>5, <1>6, <1>7 DEF Hypothesis

LEMMA UpdateFine ==
    ASSUME TypeOK, RegistersOK, Exclusive, AllFine, NEW u \in Updates, WriteModel(u) \/ Updating(u)
    PROVE  AllFine'
<1> USE DEF Advance, CanStart
<1>0. /\ index \in Decoders /\ update \in [Updates -> UpdatePlaces]
      /\ state \in [Decoders -> DecoderStates]
      /\ ready \in [Decoders -> BOOLEAN] /\ open \in [Decoders -> BOOLEAN]
  BY DEF TypeOK
<1>1. \A v \in Updates \ {u} : update'[v] = update[v]
  BY Moves
<1>2. \A d \in Decoders : Fine(d)
  BY DEF AllFine
<1>3. CASE WriteModel(u) \/ LockUpdates(u)
  <2>1. /\ UNCHANGED <<loop, currentDecoderIndex, state, ready, open, hyp, of, index>>
        /\ update[u] \in {"none", "write", "lock"}
    BY <1>3 DEF WriteModel, LockUpdates, loopVars, decoderVars, hypVars, registers
  <2> QED
    BY <1>1, <1>2, <2>1 DEF AllFine, Fine, InCharge
<1>4. CASE TestRecognizing(u) \/ Visit(u) \/ Switch(u) \/ Select(u)
  <2>1. /\ UNCHANGED <<loop, state, ready, open, hyp, of>>
        /\ update[u] \in {"test", "visit", "switch", "select"}
        /\ currentDecoderIndex' # currentDecoderIndex => ~IndexLocked
    BY <1>0, <1>4 DEF TestRecognizing, Visit, Switch, Select, loopVars, decoderVars, hypVars, Decoders
  <2>2. \A v \in Updates : update[v] \notin {"load", "start"}
    <3>1. update[u] \in Applying
      BY <2>1 DEF Applying, UpdatePlaces
    <3> QED
      BY <2>1, <3>1, TheOthersWait DEF Applying, UpdatePlaces
  <2>3. loop = "resume" => UNCHANGED currentDecoderIndex
    BY <2>1 DEF IndexLocked
  <2> QED
    BY <1>2, <2>1, <2>2, <2>3 DEF AllFine, Fine, InCharge
<1>5. CASE Unload(u) \/ Load(u) \/ Start(u)
  <2>0. /\ UNCHANGED <<loop, currentDecoderIndex, hyp, of, index>>
        /\ update[u] \in Applying
    BY <1>5 DEF Unload, Load, Start, loopVars, hypVars, registers, Applying, UpdatePlaces
  <2>1. ASSUME NEW d \in Decoders, d # index,
               state'[d] = state[d], ready'[d] = ready[d], open'[d] = open[d]
        PROVE  Fine(d)'
    BY <1>2, <2>0, <2>1 DEF Fine, InCharge
  <2>2. CASE Unload(u)
    <3>1. /\ state'[index] = "NOT_INITIALIZED" /\ update'[u] = "load"
          /\ \A e \in Decoders \ {index} :
                state'[e] = state[e] /\ ready'[e] = ready[e] /\ open'[e] = open[e]
      BY <1>0, <2>2 DEF Unload
    <3>2. Fine(index)'
      BY <2>0, <3>1 DEF Fine
    <3> QED
      BY <2>0, <2>1, <3>1, <3>2 DEF AllFine
  <2>3. CASE Load(u)
    <3>1. /\ state'[index] \in {"IDLE", "ERROR"} /\ update'[u] = "start"
          /\ \A e \in Decoders \ {index} :
                state'[e] = state[e] /\ ready'[e] = ready[e] /\ open'[e] = open[e]
      BY <1>0, <2>3 DEF Load
    <3>2. Fine(index)'
      BY <2>0, <3>1 DEF Fine, InCharge
    <3> QED
      BY <2>0, <2>1, <3>1, <3>2 DEF AllFine
  <2>4. CASE Start(u)
    <3>1. \A v \in Updates : update[v] # "load"
      <4>1. update[u] = "start"
        BY <2>4 DEF Start
      <4> QED
        BY <2>0, <4>1, TheOthersWait DEF Applying, UpdatePlaces
    <3>2. CASE CanStart(index)
      <4>1. /\ \/ state'[index] = "ERROR"
               \/ state'[index] = "UTTERANCE_STARTED" /\ ready'[index] /\ open'[index]
            /\ \A e \in Decoders \ {index} :
                  state'[e] = state[e] /\ ready'[e] = ready[e] /\ open'[e] = open[e]
        BY <1>0, <2>4, <3>2, Started DEF Start
      <4>2. Fine(index)'
        BY <2>0, <4>1 DEF Fine
      <4> QED
        BY <2>0, <2>1, <4>1, <4>2 DEF AllFine
    <3>3. CASE ~CanStart(index)
      <4>1. UNCHANGED <<state, ready, open>>
        BY <2>4, <3>3 DEF Start
      <4>2. Fine(index)'
        BY <1>0, <1>2, <2>0, <3>1, <3>3, <4>1 DEF Fine
      <4> QED
        BY <2>0, <2>1, <4>1, <4>2 DEF AllFine
    <3> QED
      BY <3>2, <3>3
  <2> QED
    BY <1>5, <2>2, <2>3, <2>4
<1> QED
  BY <1>3, <1>4, <1>5 DEF Updating

LEMMA FineStep ==
    ASSUME TypeOK, RegistersOK, Exclusive, AllFine, [Next]_vars
    PROVE  AllFine'
<1>1. CASE UNCHANGED vars
  BY <1>1 DEF AllFine, Fine, InCharge, vars
<1> QED
  BY <1>1, LoopFine, HypothesisFine, UpdateFine DEF Next

-----------------------------------------------------------------------------
(* The theorems                                                            *)

LEMMA InvInit ==
    ASSUME Init
    PROVE  Inv
<1> USE ConstantsAreNats
<1>1. 0 \in Decoders /\ NoneDone \in [Decoders -> 0 .. MaxDecoders] /\ First \in Models
  BY DEF Decoders, NoneDone, Models, First
<1>2. TypeOK
  <2>1. loop \in LoopPlaces
    BY DEF Init, LoopPlaces
  <2>2. hyp \in [Utterances -> HypPlaces] /\ update \in [Updates -> UpdatePlaces]
        /\ state \in [Decoders -> DecoderStates]
    BY DEF Init, HypPlaces, UpdatePlaces, DecoderStates
  <2>3. continuous \in BOOLEAN /\ recognizing \in BOOLEAN
    BY DEF Init
  <2>4. pauses \in 0 .. MaxPauses /\ faults \in 0 .. MaxFaults /\ decoderDoneCount \in 0 .. MaxDecoders
    BY DEF Init
  <2> QED
    BY <1>1, <2>1, <2>2, <2>3, <2>4 DEF Init, TypeOK
<1>3. \A u \in Updates : update[u] = "none"
  BY DEF Init
<1>4. Exclusive /\ RegistersOK
  BY <1>3 DEF Init, Exclusive, RegistersOK, Applying, UpdatePlaces
<1>5. Applied /\ AllFine
  BY DEF Init, Applied, AllFine, Fine
<1> QED
  BY <1>2, <1>4, <1>5 DEF Inv

LEMMA InvStep ==
    ASSUME Inv, InRange', [Next]_vars
    PROVE  Inv'
BY TypeStep, ExclusiveStep, RegistersStep, AppliedStep, FineStep DEF Inv

\* With three decoders an index below the last one can be added to itself.
LEMMA RangeStep ==
    ASSUME MaxDecoders <= 3, Inv, [Next]_vars
    PROVE  InRange'
<1>0. currentDecoderIndex \in Decoders /\ next \in Decoders /\ 0 \in Decoders
      /\ MaxDecoders \in Nat \ {0}
  BY ConstantsAreNats DEF Inv, TypeOK, Decoders
<1>1. CASE UNCHANGED currentDecoderIndex
  BY <1>0, <1>1 DEF InRange
<1>2. CASE Frame
  <2>1. \/ UNCHANGED currentDecoderIndex
        \/ currentDecoderIndex < MaxDecoders - 1 /\ currentDecoderIndex' = 2 * currentDecoderIndex
    BY <1>2 DEF Frame, Found
  <2> QED
    BY <1>0, <2>1 DEF InRange, Decoders
<1>3. CASE Refresh
  BY <1>0, <1>3 DEF Refresh, InRange
<1>4. ASSUME NEW u \in Updates, WriteModel(u) \/ Updating(u) PROVE InRange'
  <2>1. TypeOK'
    BY <1>4, UpdateTypes DEF Inv
  <2> QED
    BY <2>1 DEF TypeOK, InRange
<1>5. CASE Press \/ Release \/ Pause \/ Resume \/ GiveUp
  BY <1>1, <1>5 DEF Press, Release, Pause, Resume, GiveUp
<1>6. ASSUME NEW w \in Utterances, EndOfSpeech(w) \/ Hypothesis(w) PROVE InRange'
  BY <1>1, <1>6 DEF EndOfSpeech, Hypothesis, HypTest, HypEnd, HypGet, HypStart
<1> QED
  BY <1>1, <1>2, <1>3, <1>4, <1>5, <1>6 DEF Next, Listening, vars

\* The invariant, in every behaviour in which the index of the current decoder
\* is that of a decoder, for any number of decoders.
THEOREM Invariance == Spec /\ []InRange => []Inv
<1>1. Init => Inv
  BY InvInit
<1>2. Inv /\ InRange' /\ [Next]_vars => Inv'
  BY InvStep
<1> QED
  BY <1>1, <1>2, PTL DEF Spec

\* With three decoders or fewer, the failover of SphinxService.cpp:294 and :482
\* never leaves the decoders: the invariant holds in every behaviour.
THEOREM InvarianceToThree ==
    ASSUME MaxDecoders <= 3
    PROVE  Spec => []Inv
<1>1. Init => Inv
  BY InvInit
<1>2. Inv /\ [Next]_vars => Inv'
  BY InvStep, RangeStep
<1> QED
  BY <1>1, <1>2, PTL DEF Spec

\* The types, the range of the index of the current decoder and of what
\* applyUpdates writes to decodersDone included.
THEOREM TypeCorrect ==
    ASSUME MaxDecoders <= 3
    PROVE  Spec => []TypeOK
<1>1. Inv => TypeOK
  BY DEF Inv
<1> QED
  BY <1>1, InvarianceToThree, PTL

LEMMA AppliedAtLast ==
    ASSUME Inv
    PROVE  UpdatesAreApplied
<1> SUFFICES ASSUME NoUpdates, NEW d \in Decoders, loaded[d] # Nothing
             PROVE  loaded[d] = wanted[d]
  BY DEF UpdatesAreApplied
<1>1. \A u \in Updates : ~Pending(d, update[u])
  BY DEF NoUpdates, Pending
<1> QED
  BY <1>1 DEF Inv, Applied

LEMMA BackAtLast ==
    ASSUME Inv
    PROVE  DecodersComeBack
<1> SUFFICES ASSUME AtRest, NEW d \in Decoders
             PROVE  state[d] = "ERROR" \/ (state[d] = "UTTERANCE_STARTED" /\ ready[d] /\ open[d])
  BY DEF DecodersComeBack
<1>1. Fine(d)
  BY DEF Inv, AllFine
<1>2. ~InCharge(d)
  BY DEF AtRest, NoUpdates, InCharge
<1> QED
  BY <1>1, <1>2 DEF Fine, AtRest, NoUpdates

\* applyUpdates leaves no decoder out: when no update is in progress each has
\* the grammar that was set last, unless it could not be loaded.
THEOREM UpdatesReachDecoders == Spec /\ []InRange => []UpdatesAreApplied
<1>1. Inv => UpdatesAreApplied
  BY AppliedAtLast
<1> QED
  BY <1>1, Invariance, PTL

\* The same of every behaviour, with three decoders or fewer.
THEOREM UpdatesReachDecodersToThree ==
    ASSUME MaxDecoders <= 3
    PROVE  Spec => []UpdatesAreApplied
<1>1. Inv => UpdatesAreApplied
  BY AppliedAtLast
<1> QED
  BY <1>1, InvarianceToThree, PTL

\* However utterances, updates and pauses interleave on a decoder, in the end it
\* failed or listens again.
THEOREM DecodersReturn == Spec /\ []InRange => []DecodersComeBack
<1>1. Inv => DecodersComeBack
  BY BackAtLast
<1> QED
  BY <1>1, Invariance, PTL

\* The same of every behaviour, with three decoders or fewer.
THEOREM DecodersReturnToThree ==
    ASSUME MaxDecoders <= 3
    PROVE  Spec => []DecodersComeBack
<1>1. Inv => DecodersComeBack
  BY BackAtLast
<1> QED
  BY <1>1, InvarianceToThree, PTL

=============================================================================
