------------------------ MODULE RecognitionLoopProofs ------------------------
(***************************************************************************)
(* What holds of RecognitionLoop.tla for any number of commands, with or   *)
(* without failing devices and decoders.                                   *)
(***************************************************************************)
EXTENDS RecognitionLoop, SequenceTheorems, TLAPS

\* The shape of what the commander has still to do: a launch comes right after
\* the test for a loop that is there, a join waits for something, and the
\* service ends last, after a stop.
WellFormed(script, loop, number, failures) ==
    \A k \in 1 .. Len(script) :
        /\ script[k] = "launch" =>
              /\ number \in Loops
              /\ k = 1 => loop = NoLoop
              /\ k > 1 => script[k - 1] \in {"test", "join"}
        /\ script[k] = "test" => k < Len(script) /\ script[k + 1] = "launch"
        /\ script[k] = "join" => k = 1 /\ (loop # NoLoop \/ failures # {})
        /\ script[k] = "deleted" => k = Len(script) /\ killed

ScriptOK == WellFormed(todo, recognizerLoop, commands, failed)

\* manageThreadRunning speaks of a loop that can be joined.
FlagOK ==
    manageThreadRunning =>
        \/ failed # {}
        \/ /\ recognizerLoop # NoLoop
           /\ pc[recognizerLoop] \notin {"unborn", "begin", "returned"}

\* Before the destructor is through, only a loop that met a fault calls
\* killThreads.
ManagerOK ==
    /\ \A i \in Loops : pc[i] = "kill" => i \in failed
    /\ manager = "joined" => failed # {} \/ service = "deleted"
    /\ service = "deleted" => killed /\ todo = <<>>

Inv == TypeOK /\ ScriptOK /\ FlagOK /\ ManagerOK /\ OneLoop /\ JoinsWhatWasStarted

-----------------------------------------------------------------------------
(* Scripts                                                                 *)

\* A finished step leaves a script that is in order if a test or a join leaves
\* no loop behind it.
LEMMA TailIsInOrder ==
    ASSUME NEW s \in Seq(Steps), NEW loop, NEW other, NEW c, NEW f, NEW g,
           s # <<>>, WellFormed(s, loop, c, f),
           s[1] \in {"test", "join"} => other = NoLoop
    PROVE  Tail(s) \in Seq(Steps) /\ WellFormed(Tail(s), other, c, g)
<1>1. Tail(s) \in Seq(Steps) /\ Len(Tail(s)) = Len(s) - 1 /\ Len(s) \in Nat \ {0}
  OBVIOUS
<1>2. \A k \in 1 .. Len(Tail(s)) : Tail(s)[k] = s[k + 1]
  OBVIOUS
<1>3. ASSUME NEW k \in 1 .. Len(Tail(s))
      PROVE  /\ Tail(s)[k] = "launch" =>
                  /\ c \in Loops
                  /\ k = 1 => other = NoLoop
                  /\ k > 1 => Tail(s)[k - 1] \in {"test", "join"}
             /\ Tail(s)[k] = "test" => k < Len(Tail(s)) /\ Tail(s)[k + 1] = "launch"
             /\ Tail(s)[k] # "join"
             /\ Tail(s)[k] = "deleted" => k = Len(Tail(s)) /\ killed
  <2>1. k + 1 \in 1 .. Len(s) /\ (k + 1) - 1 = k /\ k + 1 > 1
    BY <1>1
  <2>2. k > 1 => k - 1 \in 1 .. Len(Tail(s)) /\ (k - 1) + 1 = k
    BY <1>1
  <2>3. s[k + 1] = "launch" => c \in Loops /\ s[k] \in {"test", "join"}
    BY <2>1 DEF WellFormed
  <2>4. s[k + 1] = "test" => k + 1 < Len(s) /\ s[(k + 1) + 1] = "launch"
    BY <2>1 DEF WellFormed
  <2>5. s[k + 1] # "join"
    BY <2>1 DEF WellFormed
  <2>6. k + 1 < Len(s) => k + 1 \in 1 .. Len(Tail(s)) /\ k < Len(Tail(s))
    BY <1>1, <2>1
  <2>7. s[k + 1] = "deleted" => k = Len(Tail(s)) /\ killed
    BY <1>1, <2>1 DEF WellFormed
  <2> QED BY <1>2, <2>1, <2>2, <2>3, <2>4, <2>5, <2>6, <2>7
<1> QED BY <1>1, <1>3 DEF WellFormed

\* A step may give way to a join if there is something to join.
LEMMA JoinIsInOrder ==
    ASSUME NEW s \in Seq(Steps), NEW loop, NEW c, NEW f,
           s # <<>>, WellFormed(s, loop, c, f), loop # NoLoop \/ f # {}
    PROVE  /\ <<"join">> \o Tail(s) \in Seq(Steps)
           /\ WellFormed(<<"join">> \o Tail(s), loop, c, f)
<1> DEFINE t == <<"join">> \o Tail(s)
<1>1. t \in Seq(Steps) /\ Len(t) = Len(s) /\ Len(s) \in Nat \ {0}
  BY DEF Steps
<1>2. t[1] = "join" /\ \A k \in 2 .. Len(s) : t[k] = s[k]
  OBVIOUS
<1> HIDE DEF t
<1>3. ASSUME NEW k \in 2 .. Len(s)
      PROVE  /\ t[k] = "launch" => c \in Loops /\ t[k - 1] \in {"test", "join"}
             /\ t[k] = "test" => k < Len(s) /\ t[k + 1] = "launch"
             /\ t[k] # "join"
             /\ t[k] = "deleted" => k = Len(s) /\ killed
  <2>1. k \in 1 .. Len(s) /\ k > 1 /\ k # 1 /\ k - 1 \in 1 .. Len(s) /\ (k - 1 = 1 \/ k - 1 \in 2 .. Len(s))
    BY <1>1
  <2>2. s[k] = "launch" => c \in Loops /\ s[k - 1] \in {"test", "join"}
    BY <2>1 DEF WellFormed
  <2>3. s[k] = "test" => k < Len(s) /\ s[k + 1] = "launch"
    BY <2>1 DEF WellFormed
  <2>4. s[k] # "join"
    BY <2>1 DEF WellFormed
  <2>5. k < Len(s) => k + 1 \in 2 .. Len(s)
    BY <1>1
  <2>6. s[k] = "deleted" => k = Len(s) /\ killed
    BY <2>1 DEF WellFormed
  <2> QED BY <1>2, <2>1, <2>2, <2>3, <2>4, <2>5, <2>6
<1>4. ASSUME NEW k \in 1 .. Len(t), k # 1 PROVE k \in 2 .. Len(s)
  BY <1>1, <1>4
<1>5. WellFormed(t, loop, c, f)
  BY <1>1, <1>2, <1>3, <1>4 DEF WellFormed
<1> QED BY <1>1, <1>5 DEF t

\* A script without its first two steps.
LEMMA RestOfScript ==
    ASSUME NEW s \in Seq(Steps), Len(s) >= 2
    PROVE  /\ SubSeq(s, 3, Len(s)) \in Seq(Steps)
           /\ Len(SubSeq(s, 3, Len(s))) = Len(s) - 2
           /\ \A k \in 1 .. Len(SubSeq(s, 3, Len(s))) : SubSeq(s, 3, Len(s))[k] = s[k + 2]
<1> DEFINE t == SubSeq(s, 3, Len(s))
<1>1. Len(s) \in Nat
  OBVIOUS
<1>2. \A j \in 3 .. Len(s) : s[j] \in Steps
  BY <1>1
<1>3. t \in Seq(Steps) /\ Len(t) = IF 3 <= Len(s) THEN Len(s) - 3 + 1 ELSE 0
  BY <1>1, <1>2, SubSeqProperties
<1>4. Len(t) = Len(s) - 2
  <2> HIDE DEF t
  <2>1. \A n \in Nat : n >= 2 => n - 2 = IF 3 <= n THEN n - 3 + 1 ELSE 0
    OBVIOUS
  <2>2. Len(s) - 2 = IF 3 <= Len(s) THEN Len(s) - 3 + 1 ELSE 0
    BY <1>1, <2>1
  <2> QED BY <1>3, <2>2
<1>5. \A k \in 1 .. Len(t) : t[k] = s[k + 2]
  BY <1>1, <1>4
<1> QED BY <1>3, <1>4, <1>5

\* A test that finds a loop recognising leaves out itself and the launch.
LEMMA RestIsInOrder ==
    ASSUME NEW s \in Seq(Steps), NEW loop, NEW c, NEW f,
           s # <<>>, WellFormed(s, loop, c, f), s[1] = "test"
    PROVE  /\ SubSeq(s, 3, Len(s)) \in Seq(Steps)
           /\ WellFormed(SubSeq(s, 3, Len(s)), loop, c, f)
<1> DEFINE t == SubSeq(s, 3, Len(s))
<1>1. Len(s) \in Nat /\ 1 \in 1 .. Len(s)
  OBVIOUS
<1>2. 1 < Len(s) /\ s[2] = "launch"
  BY <1>1 DEF WellFormed
<1>3. t \in Seq(Steps) /\ Len(t) = Len(s) - 2
  BY <1>1, <1>2, RestOfScript
<1>4. \A k \in 1 .. Len(t) : t[k] = s[k + 2]
  BY <1>1, <1>2, RestOfScript
<1> HIDE DEF t
<1>5. ASSUME NEW k \in 1 .. Len(t)
      PROVE  /\ t[k] = "launch" => c \in Loops /\ k # 1 /\ t[k - 1] \in {"test", "join"}
             /\ t[k] = "test" => k < Len(t) /\ t[k + 1] = "launch"
             /\ t[k] # "join"
             /\ t[k] = "deleted" => k = Len(t) /\ killed
  <2>1. k + 2 \in 1 .. Len(s) /\ k + 2 > 1 /\ k + 2 # 1 /\ (k + 2) - 1 = k + 1
    BY <1>1, <1>3
  <2>2. s[k + 2] = "launch" => c \in Loops /\ s[k + 1] \in {"test", "join"}
    BY <2>1 DEF WellFormed
  <2>3. k = 1 => s[k + 1] = "launch"
    BY <1>2
  <2>4. k # 1 => k - 1 \in 1 .. Len(t) /\ (k - 1) + 2 = k + 1
    BY <1>3
  <2>5. s[k + 2] = "test" => k + 2 < Len(s) /\ s[(k + 2) + 1] = "launch"
    BY <2>1 DEF WellFormed
  <2>6. k + 2 < Len(s) => k + 1 \in 1 .. Len(t) /\ (k + 1) + 2 = (k + 2) + 1 /\ k < Len(t)
    BY <1>1, <1>3
  <2>7. s[k + 2] # "join"
    BY <2>1 DEF WellFormed
  <2>8. s[k + 2] = "deleted" => k = Len(t) /\ killed
    BY <1>1, <1>3, <2>1 DEF WellFormed
  <2> QED BY <1>4, <2>1, <2>2, <2>3, <2>4, <2>5, <2>6, <2>7, <2>8
<1>6. WellFormed(t, loop, c, f)
  BY <1>3, <1>5 DEF WellFormed
<1> QED BY <1>3, <1>6 DEF t

\* The scripts of the calls are in order, whatever the state.
LEMMA CallsAreInOrder ==
    ASSUME NEW c, NEW loop, NEW f
    PROVE  /\ c \in Loops =>
                \A s \in {ServiceUp, EnableUp, OtherLoop, ServiceDown, DisableDown, ServiceAgain} :
                    s \in Seq(Steps) /\ WellFormed(s, loop, c, f)
           /\ ServiceEnd \in Seq(Steps) /\ (killed => WellFormed(ServiceEnd, loop, c, f))
<1>1. ASSUME NEW s, s = <<"reset", "test", "launch", "running">>
      PROVE  s \in Seq(Steps) /\ (c \in Loops => WellFormed(s, loop, c, f))
  <2>1. s \in Seq(Steps) /\ Len(s) = 4
    BY <1>1 DEF Steps
  <2>2. s[1] = "reset" /\ s[2] = "test" /\ s[3] = "launch" /\ s[4] = "running"
    BY <1>1
  <2> QED BY <2>1, <2>2 DEF WellFormed
<1>2. ASSUME NEW s, s = <<"reset", "test", "launch", "running", "enabled">>
      PROVE  s \in Seq(Steps) /\ (c \in Loops => WellFormed(s, loop, c, f))
  <2>1. s \in Seq(Steps) /\ Len(s) = 5
    BY <1>2 DEF Steps
  <2>2. s[1] = "reset" /\ s[2] = "test" /\ s[3] = "launch" /\ s[4] = "running" /\ s[5] = "enabled"
    BY <1>2
  <2> QED BY <2>1, <2>2 DEF WellFormed
<1>3. ASSUME NEW s, s = <<"signal", "check", "test", "launch">>
      PROVE  s \in Seq(Steps) /\ (c \in Loops => WellFormed(s, loop, c, f))
  <2>1. s \in Seq(Steps) /\ Len(s) = 4
    BY <1>3 DEF Steps
  <2>2. s[1] = "signal" /\ s[2] = "check" /\ s[3] = "test" /\ s[4] = "launch"
    BY <1>3
  <2> QED BY <2>1, <2>2 DEF WellFormed
<1>4. ASSUME NEW s, s = <<"signal", "check", "stopped">>
      PROVE  s \in Seq(Steps) /\ (WellFormed(s, loop, c, f))
  <2>1. s \in Seq(Steps) /\ Len(s) = 3
    BY <1>4 DEF Steps
  <2>2. s[1] = "signal" /\ s[2] = "check" /\ s[3] = "stopped"
    BY <1>4
  <2> QED BY <2>1, <2>2 DEF WellFormed
<1>5. ASSUME NEW s, s = <<"stopped">>
      PROVE  s \in Seq(Steps) /\ (WellFormed(s, loop, c, f))
  <2>1. s \in Seq(Steps) /\ Len(s) = 1
    BY <1>5 DEF Steps
  <2>2. s[1] = "stopped"
    BY <1>5
  <2> QED BY <2>1, <2>2 DEF WellFormed
<1>6. ASSUME NEW s, s = <<"signal", "check", "stopped", "disabled">>
      PROVE  s \in Seq(Steps) /\ (WellFormed(s, loop, c, f))
  <2>1. s \in Seq(Steps) /\ Len(s) = 4
    BY <1>6 DEF Steps
  <2>2. s[1] = "signal" /\ s[2] = "check" /\ s[3] = "stopped" /\ s[4] = "disabled"
    BY <1>6
  <2> QED BY <2>1, <2>2 DEF WellFormed
<1>7. ASSUME NEW s, s = <<"stopped", "disabled">>
      PROVE  s \in Seq(Steps) /\ (WellFormed(s, loop, c, f))
  <2>1. s \in Seq(Steps) /\ Len(s) = 2
    BY <1>7 DEF Steps
  <2>2. s[1] = "stopped" /\ s[2] = "disabled"
    BY <1>7
  <2> QED BY <2>1, <2>2 DEF WellFormed
<1>8. ASSUME NEW s, s = <<"signal", "check", "stopped", "reset", "test", "launch", "running">>
      PROVE  s \in Seq(Steps) /\ (c \in Loops => WellFormed(s, loop, c, f))
  <2>1. s \in Seq(Steps) /\ Len(s) = 7
    BY <1>8 DEF Steps
  <2>2. /\ s[1] = "signal" /\ s[2] = "check" /\ s[3] = "stopped" /\ s[4] = "reset"
        /\ s[5] = "test" /\ s[6] = "launch" /\ s[7] = "running"
    BY <1>8
  <2> QED BY <2>1, <2>2 DEF WellFormed
<1>9. ASSUME NEW s, s = <<"stopped", "reset", "test", "launch", "running">>
      PROVE  s \in Seq(Steps) /\ (c \in Loops => WellFormed(s, loop, c, f))
  <2>1. s \in Seq(Steps) /\ Len(s) = 5
    BY <1>9 DEF Steps
  <2>2. s[1] = "stopped" /\ s[2] = "reset" /\ s[3] = "test" /\ s[4] = "launch" /\ s[5] = "running"
    BY <1>9
  <2> QED BY <2>1, <2>2 DEF WellFormed
<1>10. ASSUME NEW s, s = <<"signal", "check", "stopped", "signal", "checkAtEnd", "deleted">>
      PROVE  s \in Seq(Steps) /\ (killed => WellFormed(s, loop, c, f))
  <2>1. s \in Seq(Steps) /\ Len(s) = 6
    BY <1>10 DEF Steps
  <2>2. /\ s[1] = "signal" /\ s[2] = "check" /\ s[3] = "stopped" /\ s[4] = "signal"
        /\ s[5] = "checkAtEnd" /\ s[6] = "deleted"
    BY <1>10
  <2> QED BY <2>1, <2>2 DEF WellFormed
<1>11. ASSUME NEW s, s = <<"signal", "checkAtEnd", "deleted">>
      PROVE  s \in Seq(Steps) /\ (killed => WellFormed(s, loop, c, f))
  <2>1. s \in Seq(Steps) /\ Len(s) = 3
    BY <1>11 DEF Steps
  <2>2. s[1] = "signal" /\ s[2] = "checkAtEnd" /\ s[3] = "deleted"
    BY <1>11
  <2> QED BY <2>1, <2>2 DEF WellFormed
<1> QED BY <1>1, <1>2, <1>3, <1>4, <1>5, <1>6, <1>7, <1>8, <1>9, <1>10, <1>11
       DEF ServiceUp, EnableUp, OtherLoop, ServiceDown, DisableDown, ServiceAgain, ServiceEnd

-----------------------------------------------------------------------------
(* The invariant                                                           *)

LEMMA InitOK == Init => Inv
<1> SUFFICES ASSUME Init PROVE Inv
  OBVIOUS
<1>1. TypeOK
  <2>1. pc \in [Loops -> Places] /\ kind \in [Loops -> Kinds]
    BY DEF Init, Places, Kinds
  <2>2. todo \in Seq(Steps) /\ 0 \in 0 .. MaxCommands
    BY LoopAssumption DEF Init
  <2> QED BY <2>1, <2>2 DEF Init, TypeOK, ServiceStates, Kinds
<1>2. ScriptOK
  BY DEF Init, ScriptOK, WellFormed
<1>3. FlagOK /\ ManagerOK /\ OneLoop /\ JoinsWhatWasStarted
  BY DEF Init, FlagOK, ManagerOK, OneLoop, Alive, JoinsWhatWasStarted
<1> QED BY <1>1, <1>2, <1>3 DEF Inv

\* A command puts a script in order in the place of the empty one.
LEMMA CommandOK ==
    ASSUME Inv, NEW steps, NEW kd \in Kinds, Command(steps, kd),
           steps \in {ServiceUp, EnableUp, OtherLoop, ServiceDown, DisableDown, ServiceAgain}
    PROVE  Inv'
<1>1. commands \in 0 .. MaxCommands /\ commands' = commands + 1 /\ commands < MaxCommands
  BY DEF Inv, TypeOK, Command
<1>2. commands' \in Loops /\ commands' \in 0 .. MaxCommands
  BY <1>1, LoopAssumption DEF Loops
<1>3. steps \in Seq(Steps) /\ WellFormed(steps, recognizerLoop, commands', failed)
  BY <1>2, CallsAreInOrder
<1>4. TypeOK'
  BY <1>2, <1>3 DEF Inv, TypeOK, Command, serviceVars, flagVars, loopVars, processVars
<1>5. ScriptOK'
  BY <1>3 DEF ScriptOK, WellFormed, Command, loopVars, processVars
<1>6. (FlagOK /\ ManagerOK /\ OneLoop /\ JoinsWhatWasStarted)'
  BY DEF Inv, FlagOK, ManagerOK, OneLoop, Alive, JoinsWhatWasStarted, Command, serviceVars,
         flagVars, loopVars, processVars
<1> QED BY <1>4, <1>5, <1>6 DEF Inv

\* A step of a script, with what follows from its shape.
LEMMA ScriptHead ==
    ASSUME Inv, todo # <<>>
    PROVE  /\ todo \in Seq(Steps)
           /\ Head(todo) = todo[1]
           /\ todo[1] \in Steps
           /\ 1 \in 1 .. Len(todo)
           /\ WellFormed(todo, recognizerLoop, commands, failed)
           /\ todo[1] = "launch" => recognizerLoop = NoLoop /\ commands \in Loops
           /\ todo[1] = "join" => recognizerLoop # NoLoop \/ failed # {}
           /\ todo[1] = "deleted" => Tail(todo) = <<>> /\ killed
<1>1. todo \in Seq(Steps) /\ WellFormed(todo, recognizerLoop, commands, failed)
  BY DEF Inv, TypeOK, ScriptOK
<1>2. 1 \in 1 .. Len(todo) /\ Head(todo) = todo[1] /\ todo[1] \in Steps
  BY <1>1
<1>3. todo[1] = "deleted" => Tail(todo) = <<>> /\ killed
  <2>1. todo[1] = "deleted" => 1 = Len(todo) /\ killed
    BY <1>1, <1>2 DEF WellFormed
  <2>2. Tail(todo) \in Seq(Steps) /\ Len(Tail(todo)) = Len(todo) - 1
    BY <1>1, HeadTailProperties
  <2>3. ASSUME 1 = Len(todo) PROVE Tail(todo) = <<>>
    <3>1. \A n : n = Len(todo) - 1 => n = 0
      BY <2>3
    <3>2. Len(Tail(todo)) = 0
      BY <2>2, <3>1, Zenon
    <3> QED BY <2>2, <3>2, EmptySeq
  <2> QED BY <2>1, <2>3
<1> QED BY <1>1, <1>2, <1>3 DEF WellFormed

\* A step of the script that starts no loop and joins none.
LEMMA PlainStepOK ==
    ASSUME Inv, \/ Reset \/ Signal \/ SetState \/ Tell
    PROVE  Inv'
<1>1. todo # <<>> /\ Head(todo) \notin {"test", "join"} /\ todo' = Tail(todo)
  BY DEF Reset, Signal, SetState, Tell, Begin, Idle, Proceed
<1>2. Tail(todo) \in Seq(Steps) /\ WellFormed(Tail(todo), recognizerLoop, commands, failed)
  BY <1>1, ScriptHead, TailIsInOrder
<1>3. UNCHANGED <<manageThreadRunning, loopVars, wanted, commands, processVars, updateLock,
                  updater, sphinxRunning>>
  BY DEF Reset, Signal, SetState, Tell, flagVars, serviceVars
<1>4. /\ service' \in ServiceStates
      /\ news' \subseteq BOOLEAN
      /\ endLoop' \in BOOLEAN
      /\ recognizing' \in BOOLEAN
      /\ pressToSpeakMode' \in BOOLEAN
      /\ pressed' \in BOOLEAN
  BY DEF Inv, TypeOK, Reset, Signal, SetState, Tell, flagVars, serviceVars, ServiceStates
<1>5. TypeOK'
  BY <1>1, <1>2, <1>3, <1>4 DEF Inv, TypeOK, loopVars, processVars
<1>6. ScriptOK'
  BY <1>1, <1>2, <1>3 DEF ScriptOK, WellFormed, loopVars, processVars
<1>7. service' # "deleted"
  BY <1>1 DEF Inv, ManagerOK, Reset, Signal, SetState, Tell, serviceVars
<1>8. (FlagOK /\ ManagerOK /\ OneLoop /\ JoinsWhatWasStarted)'
  BY <1>1, <1>3, <1>7 DEF Inv, FlagOK, ManagerOK, OneLoop, Alive, JoinsWhatWasStarted, loopVars,
     processVars
<1> QED BY <1>5, <1>6, <1>8 DEF Inv

\* Check and Test decide how the script goes on and change nothing else.
LEMMA BranchOK ==
    ASSUME Inv, \/ Check \/ Test
    PROVE  Inv'
<1>1. todo # <<>> /\ Head(todo) \in {"check", "checkAtEnd", "test"}
  BY DEF Check, Test, Begin, Idle
<1>2. todo' \in Seq(Steps) /\ WellFormed(todo', recognizerLoop, commands, failed)
  <2>1. CASE Check
    <3>1. Head(todo) \in {"check", "checkAtEnd"}
      BY <2>1 DEF Check, Begin
    <3>2. CASE manageThreadRunning \/ (Begin("checkAtEnd") /\ recognizerLoop # NoLoop)
      <4>1. recognizerLoop # NoLoop \/ failed # {}
        BY <3>2 DEF Inv, FlagOK
      <4>2. todo' = <<"join">> \o Tail(todo)
        BY <2>1, <3>2 DEF Check
      <4> QED BY <1>1, <4>1, <4>2, ScriptHead, JoinIsInOrder
    <3>3. CASE ~(manageThreadRunning \/ (Begin("checkAtEnd") /\ recognizerLoop # NoLoop))
      <4>1. todo' = Tail(todo)
        BY <2>1, <3>3 DEF Check, Proceed
      <4> QED BY <1>1, <3>1, <4>1, ScriptHead, TailIsInOrder
    <3> QED BY <3>2, <3>3
  <2>2. CASE Test
    <3>1. Head(todo) = "test"
      BY <2>2 DEF Test, Begin
    <3>2. CASE recognizing
      <4>1. todo' = SubSeq(todo, 3, Len(todo))
        BY <2>2, <3>2 DEF Test
      <4> QED BY <1>1, <3>1, <4>1, ScriptHead, RestIsInOrder
    <3>3. CASE ~recognizing /\ recognizerLoop # NoLoop
      <4>1. todo' = <<"join">> \o Tail(todo)
        BY <2>2, <3>3 DEF Test
      <4> QED BY <1>1, <3>3, <4>1, ScriptHead, JoinIsInOrder
    <3>4. CASE ~recognizing /\ recognizerLoop = NoLoop
      <4>1. todo' = Tail(todo)
        BY <2>2, <3>4 DEF Test
      <4> QED BY <1>1, <3>1, <3>4, <4>1, ScriptHead, TailIsInOrder
    <3> QED BY <3>2, <3>3, <3>4
  <2> QED BY <2>1, <2>2
<1>3. UNCHANGED <<serviceVars, flagVars, updateLock, loopVars, updater, wanted, commands,
                  processVars>>
  BY DEF Check, Test
<1>4. TypeOK'
  BY <1>2, <1>3 DEF Inv, TypeOK, serviceVars, flagVars, loopVars, processVars
<1>5. ScriptOK'
  BY <1>2, <1>3 DEF ScriptOK, WellFormed, loopVars, processVars
<1>6. (FlagOK /\ ManagerOK /\ OneLoop /\ JoinsWhatWasStarted)'
  BY <1>1, <1>3 DEF Inv, FlagOK, ManagerOK, OneLoop, Alive, JoinsWhatWasStarted, serviceVars,
     flagVars, loopVars, processVars
<1> QED BY <1>4, <1>5, <1>6 DEF Inv

\* After a join no loop is left and manageThreadRunning is clear, unless a
\* loop failed.
LEMMA JoinOK ==
    ASSUME Inv, Join
    PROVE  Inv'
<1>1. todo # <<>> /\ todo' = Tail(todo)
  BY DEF Join, Begin, Idle, Proceed
<1>2. Tail(todo) \in Seq(Steps) /\ WellFormed(Tail(todo), NoLoop, commands, failed)
  BY <1>1, ScriptHead, TailIsInOrder
<1>3. /\ recognizerLoop' = NoLoop
      /\ pc[recognizerLoop] = "returned"
      /\ UNCHANGED <<serviceVars, flagVars, updateLock, pc, kind, failed, updater, wanted,
                     commands, processVars>>
  BY DEF Join
<1>4. TypeOK'
  BY <1>1, <1>2, <1>3 DEF Inv, TypeOK, serviceVars, flagVars, processVars
<1>5. ScriptOK'
  BY <1>1, <1>2, <1>3 DEF ScriptOK, WellFormed, processVars
<1>6. (FlagOK /\ ManagerOK /\ OneLoop /\ JoinsWhatWasStarted)'
  BY <1>1, <1>3 DEF Inv, FlagOK, ManagerOK, OneLoop, Alive, JoinsWhatWasStarted, serviceVars,
     flagVars, processVars
<1> QED BY <1>4, <1>5, <1>6 DEF Inv

LEMMA JoinNothingOK ==
    ASSUME Inv, JoinNothing
    PROVE  Inv'
<1>1. todo # <<>> /\ todo[1] = "join" /\ todo' = Tail(todo) /\ recognizerLoop = NoLoop
  BY ScriptHead DEF JoinNothing, Begin, Idle, Proceed
<1>2. Tail(todo) \in Seq(Steps) /\ WellFormed(Tail(todo), recognizerLoop, commands, failed)
  BY <1>1, ScriptHead, TailIsInOrder
<1>3. failed # {}
  BY <1>1, ScriptHead
<1>4. /\ terminated' \in BOOLEAN
      /\ UNCHANGED <<serviceVars, flagVars, updateLock, loopVars, updater, wanted, commands, killed,
                     exited, manager>>
  BY DEF JoinNothing
<1>5. TypeOK'
  BY <1>1, <1>2, <1>4 DEF Inv, TypeOK, serviceVars, flagVars, loopVars
<1>6. ScriptOK'
  BY <1>1, <1>2, <1>4 DEF ScriptOK, WellFormed, loopVars
<1>7. (FlagOK /\ ManagerOK /\ OneLoop /\ JoinsWhatWasStarted)'
  BY <1>1, <1>3, <1>4 DEF Inv, FlagOK, ManagerOK, OneLoop, Alive, JoinsWhatWasStarted,
     serviceVars, flagVars, loopVars
<1> QED BY <1>5, <1>6, <1>7 DEF Inv

\* The destructor joins the manager for the first time, if no loop failed.
LEMMA DeleteOK ==
    ASSUME Inv, Delete
    PROVE  Inv'
<1>1. /\ todo # <<>> /\ todo[1] = "deleted" /\ Tail(todo) = <<>>
      /\ todo' \in {todo, <<>>} /\ <<>> \in Seq(Steps) /\ killed
  <2>1. todo # <<>> /\ Head(todo) = "deleted" /\ todo' \in {todo, Tail(todo)}
    BY DEF Delete, Begin, Idle, Proceed
  <2>2. <<>> \in Seq(Steps)
    OBVIOUS
  <2> QED BY <2>1, <2>2, ScriptHead
<1>2. /\ service' \in {service, "deleted"}
      /\ service' = "deleted" => todo' = <<>> \/ service = "deleted"
      /\ manager' = "joined" => manager = "joined" \/ service' = "deleted"
      /\ terminated' => terminated \/ manager = "joined"
      /\ terminated' \in BOOLEAN /\ manager' \in {"running", "joined", "stuck"}
      /\ UNCHANGED <<sphinxRunning, news, flagVars, updateLock, loopVars, updater, wanted,
                     commands, killed, exited>>
  <2>1. Running
    BY DEF Delete, Begin
  <2> QED BY <1>1, <2>1, ScriptHead DEF Delete, JoinManager, Proceed, Running, Inv, TypeOK
<1>3. service # "deleted"
  BY <1>1 DEF Inv, ManagerOK
<1>4. TypeOK'
  <2>1. todo' \in Seq(Steps) /\ service' \in ServiceStates
    BY <1>1, <1>2 DEF Inv, TypeOK, ServiceStates
  <2> QED BY <1>2, <2>1 DEF Inv, TypeOK, flagVars, loopVars
<1>5. ScriptOK'
  BY <1>1, <1>2 DEF Inv, ScriptOK, WellFormed, loopVars
<1>6. service' = "deleted" => killed'
  BY <1>1, <1>2
<1>7. (FlagOK /\ ManagerOK /\ OneLoop /\ JoinsWhatWasStarted)'
  BY <1>2, <1>3, <1>6 DEF Inv, FlagOK, ManagerOK, OneLoop, Alive, JoinsWhatWasStarted, flagVars,
     loopVars
<1> QED BY <1>4, <1>5, <1>7 DEF Inv

\* A loop is launched when no other is alive.
LEMMA LaunchOK ==
    ASSUME Inv, Launch
    PROVE  Inv'
<1>1. todo # <<>> /\ todo[1] = "launch" /\ todo' = Tail(todo)
  BY ScriptHead DEF Launch, Begin, Idle, Proceed
<1>2. recognizerLoop = NoLoop /\ commands \in Loops
  BY <1>1, ScriptHead
<1>3. Tail(todo) \in Seq(Steps) /\ WellFormed(Tail(todo), recognizerLoop', commands, failed)
  BY <1>1, ScriptHead, TailIsInOrder
<1>4. /\ pressToSpeakMode' = (wanted = "press")
      /\ recognizerLoop' = commands
      /\ pc' = [pc EXCEPT ![commands] = "begin"]
      /\ kind' = [kind EXCEPT ![commands] = wanted]
      /\ UNCHANGED <<serviceVars, endLoop, manageThreadRunning, recognizing, pressed, updateLock,
                     failed, updater, wanted, commands, processVars>>
  BY DEF Launch
<1>5. TypeOK'
  <2>1. pc' \in [Loops -> Places] /\ kind' \in [Loops -> Kinds]
    BY <1>4 DEF Inv, TypeOK, Places
  <2>2. pressToSpeakMode' \in BOOLEAN /\ recognizerLoop' \in Loops \cup {NoLoop}
    BY <1>2, <1>4
  <2> QED BY <1>1, <1>3, <1>4, <2>1, <2>2 DEF Inv, TypeOK, serviceVars, processVars
<1>6. ScriptOK'
  BY <1>1, <1>3, <1>4 DEF ScriptOK, WellFormed, processVars
<1>7. \A i \in Loops : ~Alive(i)
  BY <1>2 DEF Inv, OneLoop, NoLoop, Loops
<1>8. OneLoop'
  BY <1>4, <1>7 DEF Inv, TypeOK, OneLoop, Alive
<1>9. (FlagOK /\ ManagerOK /\ JoinsWhatWasStarted)'
  BY <1>1, <1>2, <1>4 DEF Inv, TypeOK, FlagOK, ManagerOK, JoinsWhatWasStarted, serviceVars,
     processVars
<1> QED BY <1>5, <1>6, <1>8, <1>9 DEF Inv

\* A step of a loop keeps the scripts: it starts and joins nothing.
LEMMA LoopStepOK ==
    ASSUME Inv, NEW i \in Loops, LoopStep(i) \/ LockUpdates(i)
    PROVE  Inv'
<1>1. UNCHANGED <<serviceVars, recognizerLoop, kind, updater, commandVars, killed>>
  BY DEF LoopStep, LockUpdates, SayRunning, Open, OpenFails, Ready, Leave, Record, EndRecording,
         Fail, KillThreads, JoinManager, Close, flagVars, processVars
<1>2. PICK place \in Places \ {"unborn"} : pc' = [pc EXCEPT ![i] = place]
  <2>1. CASE KillThreads(i)
    <3>1. pc' = pc \/ \E place \in {"stop", "returned"} : pc' = [pc EXCEPT ![i] = place]
      BY <2>1 DEF KillThreads, Goto
    <3>2. pc = [pc EXCEPT ![i] = pc[i]] /\ pc[i] = "kill"
      BY <2>1 DEF KillThreads, At, Inv, TypeOK
    <3> QED BY <3>1, <3>2 DEF Places
  <2>2. CASE ~KillThreads(i)
    BY <2>2 DEF LoopStep, LockUpdates, SayRunning, Open, OpenFails, Ready, Leave, Record,
            EndRecording, Fail, Close, Goto, Places
  <2> QED BY <2>1, <2>2
<1>3. pc[i] \notin {"unborn", "returned"} /\ recognizerLoop = i /\ recognizerLoop # NoLoop
  <2>1. pc[i] \notin {"unborn", "returned"}
    BY DEF LoopStep, LockUpdates, SayRunning, Open, OpenFails, Ready, Leave, Record,
           EndRecording, Fail, KillThreads, Close, At
  <2> QED BY <2>1 DEF Inv, OneLoop, Alive, Loops, NoLoop
<1>4. failed' \in {failed, failed \cup {i}}
  BY DEF LoopStep, LockUpdates, SayRunning, Open, OpenFails, Ready, Leave, Record, EndRecording,
         Fail, KillThreads, Close, loopVars
<1>5. /\ manageThreadRunning' => failed' # {} \/ place \notin {"unborn", "begin", "returned"}
      /\ manageThreadRunning' \in BOOLEAN
  <2>1. CASE SayRunning(i)
    BY <1>2, <2>1 DEF SayRunning, Goto, Inv, TypeOK
  <2>2. CASE LockUpdates(i) \/ Open(i) \/ Ready(i) \/ Leave(i) \/ Record(i) \/ EndRecording(i)
    <3>1. manageThreadRunning' = manageThreadRunning
      BY <2>2 DEF LockUpdates, Open, Ready, Leave, Record, EndRecording, flagVars
    <3>2. pc'[i] \notin {"unborn", "begin", "returned"}
      BY <2>2 DEF LockUpdates, Open, Ready, Leave, Record, EndRecording, Goto, Inv, TypeOK
    <3> QED BY <1>2, <3>1, <3>2 DEF Inv, TypeOK
  <2>3. CASE OpenFails(i) \/ Fail(i) \/ KillThreads(i)
    <3>1. i \in failed'
      BY <2>3 DEF OpenFails, Fail, KillThreads, At, Inv, ManagerOK
    <3>2. manageThreadRunning' = manageThreadRunning
      BY <2>3 DEF OpenFails, Fail, KillThreads, flagVars
    <3> QED BY <3>1, <3>2 DEF Inv, TypeOK
  <2>4. CASE Close(i)
    BY <2>4 DEF Close
  <2> QED BY <2>1, <2>2, <2>3, <2>4 DEF LoopStep
<1>6. TypeOK'
  <2>1. endLoop' \in BOOLEAN /\ recognizing' \in BOOLEAN /\ pressToSpeakMode' \in BOOLEAN
        /\ pressed' \in BOOLEAN
    <3>1. CASE SayRunning(i) \/ LockUpdates(i) \/ Leave(i) \/ Fail(i) \/ KillThreads(i)
      BY <3>1 DEF Inv, TypeOK, SayRunning, LockUpdates, Leave, Fail, KillThreads, flagVars
    <3>2. CASE Open(i) \/ OpenFails(i) \/ Ready(i) \/ Record(i) \/ EndRecording(i)
      BY <3>2 DEF Inv, TypeOK, Open, OpenFails, Ready, Record, EndRecording
    <3>3. CASE Close(i)
      BY <3>3 DEF Inv, TypeOK, Close
    <3> QED BY <3>1, <3>2, <3>3 DEF LoopStep
  <2>2. updateLock' \in Loops \cup {Updater, Nobody}
    BY DEF Inv, TypeOK, LoopStep, LockUpdates, SayRunning, Open, OpenFails, Ready, Leave, Record,
           EndRecording, Fail, KillThreads, Close
  <2>3. pc' \in [Loops -> Places] /\ failed' \subseteq Loops
    BY <1>2, <1>4 DEF Inv, TypeOK
  <2>4. exited' \in BOOLEAN /\ terminated' \in BOOLEAN /\ manager' \in {"running", "joined", "stuck"}
    <3>1. CASE KillThreads(i)
      BY <3>1 DEF KillThreads, JoinManager, Inv, TypeOK
    <3>2. CASE ~KillThreads(i)
      BY <3>2 DEF Inv, TypeOK, LoopStep, LockUpdates, SayRunning, Open, OpenFails, Ready, Leave,
              Record, EndRecording, Fail, Close, processVars
    <3> QED BY <3>1, <3>2
  <2> QED BY <1>1, <1>5, <2>1, <2>2, <2>3, <2>4 DEF Inv, TypeOK, serviceVars, commandVars
<1>7. ScriptOK'
  <2>1. todo' = todo /\ recognizerLoop' = recognizerLoop /\ commands' = commands
    BY <1>1 DEF commandVars
  <2>2. WellFormed(todo, recognizerLoop, commands, failed')
    BY <1>4 DEF Inv, ScriptOK, WellFormed
  <2> QED BY <1>1, <2>1, <2>2 DEF ScriptOK, WellFormed
<1>8. FlagOK'
  <2>1. pc'[i] = place
    BY <1>2 DEF Inv, TypeOK
  <2> QED BY <1>1, <1>3, <1>5, <2>1 DEF FlagOK
<1>9. OneLoop'
  BY <1>1, <1>2, <1>3 DEF Inv, TypeOK, OneLoop, Alive
<1>10. failed \subseteq failed' /\ (i \in failed => failed' # {})
  BY <1>4
<1>11. CASE KillThreads(i)
  <2>1. i \in failed
    BY <1>11 DEF KillThreads, At, Inv, ManagerOK
  <2>2. place \in {"kill", "stop", "returned"} /\ failed' = failed
    BY <1>2, <1>11 DEF KillThreads, Goto, At, Inv, TypeOK
  <2>3. ManagerOK'
    BY <1>1, <1>2, <2>1, <2>2 DEF Inv, TypeOK, ManagerOK, serviceVars, commandVars
  <2> QED BY <1>6, <1>7, <1>8, <1>9, <1>10, <2>1, <2>3 DEF Inv, JoinsWhatWasStarted
<1>12. CASE ~KillThreads(i)
  <2>1. UNCHANGED <<terminated, manager>>
    BY <1>12 DEF LoopStep, LockUpdates, SayRunning, Open, OpenFails, Ready, Leave, Record,
            EndRecording, Fail, Close, processVars
  <2>2. place = "kill" => i \in failed'
    BY <1>2, <1>12 DEF LoopStep, LockUpdates, SayRunning, Open, OpenFails, Ready, Leave, Record,
            EndRecording, Fail, Close, Goto, Inv, TypeOK
  <2>3. ManagerOK'
    BY <1>1, <1>2, <1>10, <2>1, <2>2 DEF Inv, TypeOK, ManagerOK, serviceVars, commandVars
  <2>4. JoinsWhatWasStarted'
    BY <1>10, <2>1 DEF Inv, JoinsWhatWasStarted
  <2> QED BY <1>6, <1>7, <1>8, <1>9, <2>3, <2>4 DEF Inv
<1> QED BY <1>11, <1>12

\* The button, the handlers, a stop and the callers of applyUpdates touch
\* neither the script nor a loop.
LEMMA OtherStepOK ==
    ASSUME Inv,
           \/ PressButton
           \/ \E value \in BOOLEAN : HearNews(value)
           \/ RequestStop
           \/ CallUpdate \/ LockUpdate \/ EndUpdate
           \/ UNCHANGED vars
    PROVE  Inv'
<1>1. /\ UNCHANGED <<service, endLoop, manageThreadRunning, recognizing, pressToSpeakMode>>
      /\ UNCHANGED <<loopVars, commandVars, terminated, exited, manager>>
      /\ killed => killed'
  BY DEF PressButton, HearNews, RequestStop, CallUpdate, LockUpdate, EndUpdate, vars, serviceVars,
         flagVars, loopVars, commandVars, processVars
<1>2. /\ sphinxRunning' \in BOOLEAN /\ news' \subseteq BOOLEAN
      /\ pressed' \in BOOLEAN /\ killed' \in BOOLEAN
  BY DEF Inv, TypeOK, PressButton, HearNews, RequestStop, CallUpdate, LockUpdate, EndUpdate, vars,
         serviceVars, flagVars, processVars
<1>3. updateLock' \in Loops \cup {Updater, Nobody} /\ updater' \in {"idle", "lock", "hold"}
  BY DEF Inv, TypeOK, PressButton, HearNews, RequestStop, CallUpdate, LockUpdate, EndUpdate, vars
<1>4. TypeOK'
  BY <1>1, <1>2, <1>3 DEF Inv, TypeOK, loopVars, commandVars
<1>5. ScriptOK'
  BY <1>1 DEF Inv, ScriptOK, WellFormed, loopVars, commandVars
<1>6. (FlagOK /\ ManagerOK /\ OneLoop /\ JoinsWhatWasStarted)'
  BY <1>1 DEF Inv, FlagOK, ManagerOK, OneLoop, Alive, JoinsWhatWasStarted, loopVars, commandVars
<1> QED BY <1>4, <1>5, <1>6 DEF Inv

LEMMA DestroyOK ==
    ASSUME Inv, Destroy
    PROVE  Inv'
<1>1. ServiceEnd \in Seq(Steps) /\ WellFormed(ServiceEnd, recognizerLoop, commands, failed)
  BY CallsAreInOrder DEF Destroy
<1>2. /\ todo' = ServiceEnd
      /\ UNCHANGED <<serviceVars, flagVars, updateLock, loopVars, updater, wanted, commands,
                     processVars>>
  BY DEF Destroy
<1>3. TypeOK'
  BY <1>1, <1>2 DEF Inv, TypeOK, serviceVars, flagVars, loopVars, processVars
<1>4. ScriptOK'
  BY <1>1, <1>2 DEF ScriptOK, WellFormed, loopVars, processVars
<1>5. (FlagOK /\ ManagerOK /\ OneLoop /\ JoinsWhatWasStarted)'
  BY <1>2 DEF Destroy, Inv, FlagOK, ManagerOK, OneLoop, Alive, JoinsWhatWasStarted, serviceVars,
     flagVars, loopVars, processVars
<1> QED BY <1>3, <1>4, <1>5 DEF Inv

\* The invariant is inductive.
LEMMA StepOK == Inv /\ [Next]_vars => Inv'
<1> SUFFICES ASSUME Inv, [Next]_vars PROVE Inv'
  OBVIOUS
<1>1. CASE StartService \/ StopService \/ ReloadService
  <2>1. PICK steps \in {ServiceUp, EnableUp, ServiceDown, DisableDown, ServiceAgain} :
            Command(steps, "press")
    BY <1>1 DEF StartService, StopService, ReloadService
  <2> QED BY <2>1, CommandOK DEF Kinds
<1>2. ASSUME NEW kd \in Kinds, PushToTalk(kd) PROVE Inv'
  <2>1. Command(OtherLoop, kd)
    BY <1>2 DEF PushToTalk
  <2> QED BY <2>1, CommandOK
<1>3. CASE CommandStep
  BY <1>3, PlainStepOK, BranchOK, JoinOK, JoinNothingOK, LaunchOK, DeleteOK DEF CommandStep
<1>4. ASSUME NEW i \in Loops, LoopStep(i) \/ LockUpdates(i) PROVE Inv'
  BY <1>4, LoopStepOK
<1>5. CASE Destroy
  BY <1>5, DestroyOK
<1>6. CASE \/ PressButton
           \/ \E value \in BOOLEAN : HearNews(value)
           \/ RequestStop
           \/ CallUpdate \/ LockUpdate \/ EndUpdate
           \/ UNCHANGED vars
  BY <1>6, OtherStepOK
<1> QED BY <1>1, <1>2, <1>3, <1>4, <1>5, <1>6 DEF Next, UserStep

-----------------------------------------------------------------------------
(* Theorems                                                                *)

\* The inductive invariant.
THEOREM Invariance == Spec => []Inv
BY InitOK, StepOK, PTL DEF Spec

\* Every variable keeps its type: SphinxService's flags, the commander's steps
\* and the places of the loops.
THEOREM TypeCorrect == Spec => []TypeOK
<1>1. Inv => TypeOK
  BY DEF Inv
<1> QED BY <1>1, Invariance, PTL

\* startRecognition joins the loop that is there before it starts another, so
\* that the std::thread recognizerLoop stands for the one loop alive.
THEOREM OnlyOneLoop == Spec => []OneLoop
<1>1. Inv => OneLoop
  BY DEF Inv
<1> QED BY <1>1, Invariance, PTL

\* stopRecognition, a start, the loops and the destructor join threads that were
\* started and not joined yet, as long as no device and no decoder fails.
THEOREM JoinsAreOfLoops == Spec => []JoinsWhatWasStarted
<1>1. Inv => JoinsWhatWasStarted
  BY DEF Inv
<1> QED BY <1>1, Invariance, PTL


-----------------------------------------------------------------------------
(* The mode and the loop                                                   *)

\* start() tests for a loop right after its stores.
Restarts(script) ==
    \A k \in 1 .. Len(script) :
        script[k] = "reset" => k < Len(script) /\ script[k + 1] = "test"

LaunchAhead(script) == \E k \in 1 .. Len(script) : script[k] = "launch"

\* start() may find a press-to-speak loop alive and take its mode away.  It
\* then launches another loop, for that one cannot begin to recognise before
\* the test: the button was let go of, and nobody presses it meanwhile.
ModeKept ==
    \A i \in Loops : Alive(i) =>
        \/ pressToSpeakMode <=> kind[i] = "press"
        \/ kind[i] = "press" /\ ~pressed /\ ~recognizing /\ LaunchAhead(todo)

ModeInv == Restarts(todo) /\ ModeKept

\* What is left of a script after its first step.
LEMMA TailRestarts ==
    ASSUME NEW s \in Seq(Steps), s # <<>>, Restarts(s)
    PROVE  /\ Restarts(Tail(s))
           /\ LaunchAhead(s) /\ s[1] # "launch" => LaunchAhead(Tail(s))
<1>1. Len(Tail(s)) = Len(s) - 1 /\ Len(s) \in Nat \ {0}
  OBVIOUS
<1>2. \A k \in 1 .. Len(Tail(s)) : Tail(s)[k] = s[k + 1]
  OBVIOUS
<1>3. ASSUME NEW k \in 1 .. Len(Tail(s)), Tail(s)[k] = "reset"
      PROVE  k < Len(Tail(s)) /\ Tail(s)[k + 1] = "test"
  <2>1. k + 1 \in 1 .. Len(s) /\ s[k + 1] = "reset"
    BY <1>1, <1>2, <1>3
  <2>2. k + 1 < Len(s) /\ s[(k + 1) + 1] = "test"
    BY <2>1 DEF Restarts
  <2>3. k < Len(Tail(s)) /\ k + 1 \in 1 .. Len(Tail(s))
    BY <1>1, <2>1, <2>2
  <2> QED BY <1>2, <2>2, <2>3
<1>4. ASSUME NEW k \in 1 .. Len(s), s[k] = "launch", s[1] # "launch"
      PROVE  LaunchAhead(Tail(s))
  <2>1. k - 1 \in 1 .. Len(Tail(s)) /\ (k - 1) + 1 = k
    BY <1>1, <1>4
  <2>2. Tail(s)[k - 1] = "launch"
    BY <1>2, <1>4, <2>1
  <2> QED BY <2>1, <2>2 DEF LaunchAhead
<1> QED BY <1>3, <1>4 DEF Restarts, LaunchAhead

\* What is left of it when the step gives way to a join.
LEMMA JoinRestarts ==
    ASSUME NEW s \in Seq(Steps), s # <<>>, Restarts(s)
    PROVE  /\ Restarts(<<"join">> \o Tail(s))
           /\ LaunchAhead(s) /\ s[1] # "launch" => LaunchAhead(<<"join">> \o Tail(s))
<1> DEFINE t == <<"join">> \o Tail(s)
<1>1. Len(t) = Len(s) /\ Len(s) \in Nat \ {0}
  BY DEF Steps
<1>2. t[1] = "join" /\ \A k \in 2 .. Len(s) : t[k] = s[k]
  OBVIOUS
<1> HIDE DEF t
<1>3. ASSUME NEW k \in 1 .. Len(t), t[k] = "reset"
      PROVE  k < Len(t) /\ t[k + 1] = "test"
  <2>1. k \in 2 .. Len(s) /\ k \in 1 .. Len(s) /\ s[k] = "reset"
    BY <1>1, <1>2, <1>3
  <2>2. k < Len(s) /\ s[k + 1] = "test"
    BY <2>1 DEF Restarts
  <2>3. k + 1 \in 2 .. Len(s)
    BY <1>1, <2>1, <2>2
  <2> QED BY <1>1, <1>2, <2>2, <2>3
<1>4. ASSUME NEW k \in 1 .. Len(s), s[k] = "launch", s[1] # "launch"
      PROVE  LaunchAhead(t)
  <2>1. k \in 2 .. Len(s) /\ k \in 1 .. Len(t)
    BY <1>1, <1>4
  <2> QED BY <1>2, <1>4, <2>1 DEF LaunchAhead
<1> QED BY <1>3, <1>4 DEF Restarts, LaunchAhead, t

\* What is left of it when the test leaves out the launch.
LEMMA RestRestarts ==
    ASSUME NEW s \in Seq(Steps), Len(s) >= 2, Restarts(s)
    PROVE  Restarts(SubSeq(s, 3, Len(s)))
<1> DEFINE t == SubSeq(s, 3, Len(s))
<1>1. Len(t) = Len(s) - 2 /\ \A k \in 1 .. Len(t) : t[k] = s[k + 2]
  BY RestOfScript
<1> HIDE DEF t
<1>2. ASSUME NEW k \in 1 .. Len(t), t[k] = "reset"
      PROVE  k < Len(t) /\ t[k + 1] = "test"
  <2>1. k + 2 \in 1 .. Len(s) /\ s[k + 2] = "reset"
    BY <1>1, <1>2
  <2>2. k + 2 < Len(s) /\ s[(k + 2) + 1] = "test"
    BY <2>1 DEF Restarts
  <2>3. k < Len(t) /\ k + 1 \in 1 .. Len(t) /\ (k + 1) + 2 = (k + 2) + 1
    BY <1>1, <2>1, <2>2
  <2> QED BY <1>1, <2>2, <2>3
<1>3. Restarts(t)
  BY <1>2 DEF Restarts
<1> QED BY <1>3 DEF t

\* Every call restarts in order.
LEMMA CallsRestart ==
    \A s \in {ServiceUp, EnableUp, OtherLoop, ServiceDown, DisableDown, ServiceAgain, ServiceEnd} :
        Restarts(s)
<1>1. Restarts(ServiceUp) /\ Restarts(EnableUp) /\ Restarts(OtherLoop)
  BY DEF ServiceUp, EnableUp, OtherLoop, Restarts
<1>2. Restarts(ServiceDown) /\ Restarts(DisableDown)
  BY DEF ServiceDown, DisableDown, Restarts
<1>3. Restarts(ServiceAgain) /\ Restarts(ServiceEnd)
  BY DEF ServiceAgain, ServiceEnd, Restarts
<1> QED BY <1>1, <1>2, <1>3

\* A command that begins finds no loop whose mode was taken away.
LEMMA CallKeepsMode ==
    ASSUME TypeOK, ModeInv, todo = <<>>, Restarts(todo'),
           UNCHANGED <<pressToSpeakMode, pc, kind>>
    PROVE  ModeInv'
BY DEF ModeInv, ModeKept, Alive, LaunchAhead

\* A step of a script that neither launches a loop nor touches the mode, the
\* loops, the button or the recognition.
LEMMA ScriptKeepsMode ==
    ASSUME Inv, ModeInv, todo # <<>>, todo[1] # "launch",
           todo' \in {Tail(todo), <<"join">> \o Tail(todo)},
           UNCHANGED <<pressToSpeakMode, pressed, recognizing, pc, kind>>
    PROVE  ModeInv'
<1>1. todo \in Seq(Steps)
  BY DEF Inv, TypeOK
<1>2. Restarts(todo') /\ (LaunchAhead(todo) => LaunchAhead(todo'))
  BY <1>1, TailRestarts, JoinRestarts DEF ModeInv
<1>3. ModeKept'
  BY <1>2 DEF ModeInv, ModeKept, Alive
<1> QED BY <1>2, <1>3 DEF ModeInv

\* start() takes the mode of a loop that lives on away, but will launch another.
LEMMA ResetKeepsMode ==
    ASSUME Inv, ModeInv, Reset
    PROVE  ModeInv'
<1>1. todo \in Seq(Steps) /\ todo # <<>> /\ todo[1] = "reset" /\ todo' = Tail(todo)
  BY ScriptHead DEF Reset, Begin, Idle, Proceed, Inv, TypeOK
<1>2. Len(todo) \in Nat /\ 1 \in 1 .. Len(todo)
  BY <1>1
<1>3. 1 < Len(todo) /\ todo[2] = "test"
  BY <1>1, <1>2 DEF ModeInv, Restarts
<1>4. 2 \in 1 .. Len(todo)
  BY <1>2, <1>3
<1>5. 2 < Len(todo) /\ todo[3] = "launch"
  BY <1>3, <1>4 DEF Inv, ScriptOK, WellFormed
<1>6. LaunchAhead(todo)
  <2>1. 3 \in 1 .. Len(todo)
    BY <1>2, <1>5
  <2> QED BY <1>5, <2>1 DEF LaunchAhead
<1>7. Restarts(todo') /\ LaunchAhead(todo')
  BY <1>1, <1>6, TailRestarts DEF ModeInv
<1>8. ASSUME NEW i \in Loops
      PROVE  \/ pressToSpeakMode' <=> kind'[i] = "press"
             \/ kind'[i] = "press" /\ ~pressed' /\ ~recognizing' /\ LaunchAhead(todo')
  BY <1>7 DEF Reset, loopVars
<1> QED BY <1>7, <1>8 DEF ModeInv, ModeKept

\* The test that finds a loop recognising finds one with its mode.
LEMMA TestKeepsMode ==
    ASSUME Inv, ModeInv, Test
    PROVE  ModeInv'
<1>1. todo \in Seq(Steps) /\ todo # <<>> /\ todo[1] = "test"
  BY ScriptHead DEF Test, Begin, Idle, Inv, TypeOK
<1>2. UNCHANGED <<pressToSpeakMode, pressed, recognizing, pc, kind>>
  BY DEF Test, flagVars, loopVars
<1>3. CASE recognizing
  <2>1. Len(todo) \in Nat /\ 1 \in 1 .. Len(todo)
    BY <1>1
  <2>2. 1 < Len(todo)
    BY <1>1, <2>1 DEF Inv, ScriptOK, WellFormed
  <2>3. Len(todo) >= 2
    BY <2>1, <2>2
  <2>4. todo' = SubSeq(todo, 3, Len(todo))
    BY <1>3 DEF Test
  <2>5. Restarts(todo')
    BY <1>1, <2>3, <2>4, RestRestarts DEF ModeInv
  <2> QED BY <1>2, <1>3, <2>5 DEF ModeInv, ModeKept, Alive
<1>4. CASE ~recognizing
  <2>1. todo' \in {Tail(todo), <<"join">> \o Tail(todo)}
    BY <1>4 DEF Test
  <2> QED BY <1>1, <1>2, <2>1, ScriptKeepsMode
<1> QED BY <1>3, <1>4

\* A new loop is alone and gets the mode it was launched for.
LEMMA LaunchKeepsMode ==
    ASSUME Inv, ModeInv, Launch
    PROVE  ModeInv'
<1>1. todo \in Seq(Steps) /\ todo # <<>> /\ todo[1] = "launch" /\ todo' = Tail(todo)
  BY ScriptHead DEF Launch, Begin, Idle, Proceed, Inv, TypeOK
<1>2. recognizerLoop = NoLoop /\ commands \in Loops
  BY <1>1, ScriptHead
<1>3. \A i \in Loops : ~Alive(i)
  BY <1>2 DEF Inv, OneLoop, NoLoop, Loops
<1>4. /\ pressToSpeakMode' = (wanted = "press")
      /\ pc' = [pc EXCEPT ![commands] = "begin"]
      /\ kind' = [kind EXCEPT ![commands] = wanted]
  BY DEF Launch
<1>5. ASSUME NEW i \in Loops, Alive(i)' PROVE pressToSpeakMode' <=> kind'[i] = "press"
  <2>1. i = commands
    BY <1>2, <1>3, <1>4, <1>5 DEF Alive, Inv, TypeOK
  <2>2. kind'[i] = wanted
    BY <1>4, <2>1 DEF Inv, TypeOK
  <2> QED BY <1>4, <2>2
<1>6. Restarts(todo')
  BY <1>1, TailRestarts DEF ModeInv
<1> QED BY <1>5, <1>6 DEF ModeInv, ModeKept

\* No loop whose mode was taken away begins to recognise, and the loop that
\* clears the mode at its end is the only one.
LEMMA LoopKeepsMode ==
    ASSUME Inv, ModeInv, NEW i \in Loops, LoopStep(i) \/ LockUpdates(i)
    PROVE  ModeInv'
<1>1. todo' = todo /\ kind' = kind
  BY DEF LoopStep, LockUpdates, SayRunning, Open, OpenFails, Ready, Leave, Record, EndRecording,
         Fail, KillThreads, Close, commandVars
<1>2. /\ pc[i] \notin {"unborn", "returned"}
      /\ pc' = pc \/ \E place : pc' = [pc EXCEPT ![i] = place]
  BY DEF LoopStep, LockUpdates, SayRunning, Open, OpenFails, Ready, Leave, Record, EndRecording,
         Fail, KillThreads, Close, Goto, At
<1>3. \A j \in Loops : Alive(j)' => j = i
  BY <1>2 DEF Inv, TypeOK, OneLoop, Alive
<1>4. \/ pressToSpeakMode <=> kind[i] = "press"
      \/ kind[i] = "press" /\ ~pressed /\ ~recognizing /\ LaunchAhead(todo)
  BY <1>2 DEF ModeInv, ModeKept, Alive
<1>5. CASE Close(i)
  <2>1. pc'[i] = "returned"
    BY <1>5 DEF Close, Goto, Inv, TypeOK
  <2> QED BY <1>1, <1>3, <2>1 DEF ModeInv, ModeKept, Alive
<1>6. CASE ~Close(i)
  <2>1. pressToSpeakMode' = pressToSpeakMode /\ pressed' = pressed
    BY <1>6 DEF LoopStep, LockUpdates, SayRunning, Open, OpenFails, Ready, Leave, Record,
                EndRecording, Fail, KillThreads, flagVars
  <2>2. recognizing' => recognizing \/ kind[i] = "continuous" \/ pressed
    BY <1>6 DEF LoopStep, LockUpdates, SayRunning, Open, OpenFails, Ready, Leave, Record,
                EndRecording, Fail, KillThreads, flagVars
  <2> QED BY <1>1, <1>3, <1>4, <2>1, <2>2 DEF ModeInv, ModeKept
<1> QED BY <1>5, <1>6

\* SphinxMode finds the kind of loop it believes in: it presses the button of a
\* press-to-speak loop and pauses a continuous one.
THEOREM ModeIsTheLoops == Spec => []ModeMatchesLoop
<1>1. Init => ModeInv
  BY DEF Init, ModeInv, Restarts, ModeKept, Alive
<1>2. Inv /\ ModeInv /\ [Next]_vars => ModeInv'
  <2> SUFFICES ASSUME Inv, ModeInv, [Next]_vars PROVE ModeInv'
    OBVIOUS
  <2>1. ASSUME NEW steps \in {ServiceUp, EnableUp, OtherLoop, ServiceDown, DisableDown,
                              ServiceAgain},
               NEW kd, Command(steps, kd)
        PROVE  ModeInv'
    BY <2>1, CallKeepsMode, CallsRestart DEF Command, Idle, flagVars, loopVars, Inv
  <2>2. CASE StartService \/ StopService \/ ReloadService \/ \E kd \in Kinds : PushToTalk(kd)
    BY <2>1, <2>2 DEF StartService, StopService, ReloadService, PushToTalk
  <2>3. CASE Destroy
    BY <2>3, CallKeepsMode, CallsRestart DEF Destroy, Idle, flagVars, loopVars, Inv
  <2>4. CASE PressButton
    BY <2>4, CallKeepsMode DEF PressButton, Idle, loopVars, commandVars, Inv, ModeInv
  <2>5. CASE Signal \/ SetState \/ Tell \/ Check \/ Join \/ JoinNothing
             \/ (Delete /\ todo' # todo)
    <3>1. /\ todo # <<>> /\ Head(todo) # "launch"
          /\ todo' \in {Tail(todo), <<"join">> \o Tail(todo)}
          /\ UNCHANGED <<pressToSpeakMode, pressed, recognizing, pc, kind>>
      BY <2>5 DEF Signal, SetState, Tell, Check, Join, JoinNothing, Delete, Begin, Idle,
                  Proceed, flagVars, loopVars
    <3> QED BY <3>1, ScriptHead, ScriptKeepsMode
  <2>6. CASE \/ \E value \in BOOLEAN : HearNews(value)
             \/ RequestStop \/ CallUpdate \/ LockUpdate \/ EndUpdate \/ UNCHANGED vars
             \/ (Delete /\ todo' = todo)
    <3>1. UNCHANGED <<pressToSpeakMode, pressed, recognizing, pc, kind, todo>>
      BY <2>6 DEF HearNews, RequestStop, CallUpdate, LockUpdate, EndUpdate, Delete, vars, flagVars,
                  loopVars, commandVars
    <3> QED BY <3>1 DEF ModeInv, ModeKept, Alive
  <2> QED BY <2>2, <2>3, <2>4, <2>5, <2>6, ResetKeepsMode, TestKeepsMode, LaunchKeepsMode,
             LoopKeepsMode DEF Next, UserStep, CommandStep
<1>3. ModeInv => ModeMatchesLoop
  <2> SUFFICES ASSUME ModeInv, NEW i \in Loops, todo = <<>>, pc[i] \in {"loop", "record"}
               PROVE  pressToSpeakMode <=> kind[i] = "press"
    BY DEF ModeMatchesLoop, Idle
  <2>1. ~LaunchAhead(todo)
    BY DEF LaunchAhead
  <2> QED BY <2>1 DEF ModeInv, ModeKept, Alive
<1> QED BY <1>1, <1>2, <1>3, Invariance, PTL DEF Spec

=============================================================================
