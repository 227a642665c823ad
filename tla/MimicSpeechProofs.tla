-------------------------- MODULE MimicSpeechProofs --------------------------
(***************************************************************************)
(* What holds of MimicSpeech.tla for any number of replies, commanders,    *)
(* commands and faults.                                                    *)
(***************************************************************************)
EXTENDS MimicSpeech, FiniteSetTheorems, TLAPS

\* A commander between the first and the last step of a command.
Busy == {c \in Commanders : at[c] # "idle"}

\* Every command listens at most once, so that the ids suffice.
CountOK ==
    /\ IsFiniteSet(Busy)
    /\ onOutputHandle + Cardinality(Busy) <= commands

\* Commanders that never met work one after the other.
OneAtATime == \A c, d \in Busy : c = d

\* What the service listens under between commands, and what a command that
\* stops it may still find.
Steady == listeners = IF state = "RUNNING" THEN {onOutputHandle} ELSE {}

\* Where the one commander is tells what the service is and listens under.
ServiceOK ==
    /\ Busy = {} => Steady /\ state # "STARTING"
    /\ \A c \in Commanders :
        /\ at[c] \in {"start", "stop", "silence", "await", "unlisten", "spin"}
              => Steady /\ state # "STARTING"
        /\ at[c] = "starting" => state = "STOPPED" /\ listeners = {}
        /\ at[c] \in {"load", "up"} => state = "STARTING" /\ listeners = {}
        /\ at[c] = "listen" => state = "RUNNING" /\ listeners = {}
        /\ at[c] = "down" => state # "STARTING" /\ listeners = {}

\* A reply that was not said is heard by nobody.
UnsaidUnheard == \A t \in Threads : t[1] \notin said => speech[t] = "none"

\* A reply is heard by at most one listener.
HeardOnce ==
    \A r \in Replies : \A i, j \in Ids :
        speech[<<r, i>>] # "none" /\ speech[<<r, j>>] # "none" => i = j

Alone == ~overlapped => OneAtATime /\ ServiceOK /\ HeardOnce

Inv == TypeOK /\ CountOK /\ UnsaidUnheard /\ SomebodyClearsTheFlag /\ Alone

-----------------------------------------------------------------------------
(* Types and the count of commands                                         *)

\* A command begins with a commander that was idle.
LEMMA BusyGrows ==
    ASSUME TypeOK, CountOK, NEW c \in Commanders, NEW op, Command(c, op)
    PROVE  CountOK'
<1>1. at[c] = "idle" /\ at' = [at EXCEPT ![c] = IF op = "start" THEN "start" ELSE "stop"]
  BY DEF Command, Goto
<1>2. Busy' = Busy \cup {c} /\ c \notin Busy
  BY <1>1 DEF Busy, TypeOK
<1>3. IsFiniteSet(Busy) /\ Cardinality(Busy) \in Nat
  BY FS_CardinalityType DEF CountOK
<1>4. IsFiniteSet(Busy') /\ Cardinality(Busy') = Cardinality(Busy) + 1
  BY <1>2, <1>3, FS_AddElement
<1>5. onOutputHandle' = onOutputHandle /\ commands' = commands + 1
  BY DEF Command
<1>6. onOutputHandle + Cardinality(Busy) <= commands
  BY DEF CountOK
<1> QED
  BY <1>3, <1>4, <1>5, <1>6, SMT DEF CountOK, TypeOK

\* A step of a command keeps its commander busy or is the last one.
LEMMA ControlMoves ==
    ASSUME TypeOK, NEW c \in Commanders, Control(c)
    PROVE  /\ at[c] # "idle"
           /\ \E place \in CommanderPlaces : at' = [at EXCEPT ![c] = place]
<1> USE DEF CommanderPlaces, Goto
<1>1. CASE Start(c)
  BY <1>1 DEF Start
<1>2. CASE SetStarting(c)
  BY <1>2 DEF SetStarting
<1>3. CASE Load(c)
  BY <1>3 DEF Load
<1>4. CASE SetRunning(c)
  BY <1>4 DEF SetRunning
<1>5. CASE Listen(c)
  BY <1>5 DEF Listen
<1>6. CASE Stop(c)
  BY <1>6 DEF Stop
<1>7. CASE Silence(c)
  BY <1>7 DEF Silence
<1>8. CASE AwaitSilence(c)
  BY <1>8 DEF AwaitSilence
<1>9. CASE Unlisten(c)
  BY <1>9 DEF Unlisten
<1>10. CASE SetStopped(c)
  BY <1>10 DEF SetStopped
<1> QED
  BY <1>1, <1>2, <1>3, <1>4, <1>5, <1>6, <1>7, <1>8, <1>9, <1>10 DEF Control

\* The last step of a command gives back what Listen takes.
LEMMA BusyShrinks ==
    ASSUME TypeOK, CountOK, NEW c \in Commanders, Control(c)
    PROVE  /\ CountOK'
           /\ onOutputHandle < commands
<1>1. PICK place \in CommanderPlaces : at[c] # "idle" /\ at' = [at EXCEPT ![c] = place]
  BY ControlMoves
<1>2. c \in Busy /\ Busy' = IF place = "idle" THEN Busy \ {c} ELSE Busy
  BY <1>1 DEF Busy, TypeOK
<1>3. IsFiniteSet(Busy) /\ Cardinality(Busy) \in Nat /\ Cardinality(Busy) # 0
  BY <1>2, FS_CardinalityType, FS_EmptySet DEF CountOK
<1>4. /\ IsFiniteSet(Busy \ {c})
      /\ Cardinality(Busy \ {c}) = Cardinality(Busy) - 1
  BY <1>2, <1>3, FS_RemoveElement
<1>5. commands' = commands
  BY DEF Control, Start, SetStarting, Load, SetRunning, Listen, Stop, Silence,
         AwaitSilence, Unlisten, SetStopped
<1>6. \/ onOutputHandle' = onOutputHandle
      \/ onOutputHandle' = onOutputHandle + 1 /\ place = "idle"
  <2>1. CASE Listen(c)
    <3>1. at'[c] = "idle" /\ at'[c] = place
      BY <1>1, <2>1 DEF Listen, Goto, TypeOK
    <3> QED
      BY <2>1, <3>1 DEF Listen
  <2> QED
    BY <2>1 DEF Control, Start, SetStarting, Load, SetRunning, Stop, Silence,
                AwaitSilence, Unlisten, SetStopped
<1>7. onOutputHandle + Cardinality(Busy) <= commands /\ onOutputHandle \in Nat /\ commands \in Nat
  BY DEF CountOK, TypeOK
<1>8. onOutputHandle < commands
  BY <1>3, <1>7
<1>9. IsFiniteSet(Busy') /\ onOutputHandle' + Cardinality(Busy') <= commands'
  <2>1. CASE place = "idle"
    BY <2>1, <1>2, <1>3, <1>4, <1>5, <1>6, <1>7
  <2>2. CASE place # "idle"
    BY <2>2, <1>2, <1>3, <1>5, <1>6, <1>7
  <2> QED
    BY <2>1, <2>2
<1> QED
  BY <1>8, <1>9 DEF CountOK

\* The threads that speak leave the commands alone.
LEMMA SpeechMoves ==
    ASSUME TypeOK, \/ \E r \in Replies : Reply(r)
                   \/ \E t \in Threads : Speaking(t)
                   \/ UNCHANGED vars
    PROVE  UNCHANGED commandVars
BY DEF Reply, Speaking, AsyncSpeak, Speak, SeeTurn, Play, PlayFails, Finish, vars, commandVars

LEMMA CountStep == TypeOK /\ CountOK /\ [Next]_vars => CountOK'
<1> SUFFICES ASSUME TypeOK, CountOK, [Next]_vars PROVE CountOK'
  OBVIOUS
<1>1. CASE \E c \in Commanders, op \in {"start", "stop", "reload"} : Command(c, op)
  BY <1>1, BusyGrows
<1>2. CASE \E c \in Commanders : Control(c)
  BY <1>2, BusyShrinks
<1>3. CASE UNCHANGED commandVars
  BY <1>3 DEF commandVars, CountOK, Busy
<1> QED
  BY <1>1, <1>2, <1>3, SpeechMoves DEF Next

LEMMA TypeStep == TypeOK /\ CountOK /\ [Next]_vars => TypeOK'
<1> SUFFICES ASSUME TypeOK, CountOK, [Next]_vars PROVE TypeOK'
  OBVIOUS
<1> USE SpeechAssumption DEF TypeOK, CommanderPlaces, SpeechPlaces, Goto, Progress, speechVars,
        commandVars
<1>1. ASSUME NEW c \in Commanders, NEW op \in {"start", "stop", "reload"}, Command(c, op)
      PROVE  TypeOK'
  BY <1>1 DEF Command
<1>2. ASSUME NEW c \in Commanders, Start(c) PROVE TypeOK'
  BY <1>2 DEF Start
<1>3. ASSUME NEW c \in Commanders, SetStarting(c) PROVE TypeOK'
  BY <1>3 DEF SetStarting
<1>4. ASSUME NEW c \in Commanders, Load(c) PROVE TypeOK'
  BY <1>4 DEF Load
<1>5. ASSUME NEW c \in Commanders, SetRunning(c) PROVE TypeOK'
  BY <1>5 DEF SetRunning
<1>6. ASSUME NEW c \in Commanders, Listen(c) PROVE TypeOK'
  <2>1. onOutputHandle < commands
    BY <1>6, BusyShrinks DEF Control
  <2>2. onOutputHandle + 1 \in 0 .. MaxCommands /\ onOutputHandle + 1 \in Ids
    BY <2>1 DEF Ids
  <2> QED
    BY <1>6, <2>2 DEF Listen
<1>7. ASSUME NEW c \in Commanders, Stop(c) PROVE TypeOK'
  BY <1>7 DEF Stop
<1>8. ASSUME NEW c \in Commanders, Silence(c) PROVE TypeOK'
  BY <1>8 DEF Silence
<1>9. ASSUME NEW c \in Commanders, AwaitSilence(c) PROVE TypeOK'
  BY <1>9 DEF AwaitSilence
<1>10. ASSUME NEW c \in Commanders, Unlisten(c) PROVE TypeOK'
  BY <1>10 DEF Unlisten
<1>11. ASSUME NEW c \in Commanders, SetStopped(c) PROVE TypeOK'
  BY <1>11 DEF SetStopped
<1>12. ASSUME NEW r \in Replies, Reply(r) PROVE TypeOK'
  <2>1. speech' \in [Threads -> SpeechPlaces]
    BY <1>12 DEF Reply
  <2>2. said' \subseteq Replies /\ silenced' \subseteq said'
    BY <1>12 DEF Reply
  <2> QED
    BY <1>12, <2>1, <2>2 DEF Reply
<1>13. ASSUME NEW t \in Threads, AsyncSpeak(t) PROVE TypeOK'
  BY <1>13 DEF AsyncSpeak
<1>14. ASSUME NEW t \in Threads, Speak(t) PROVE TypeOK'
  BY <1>14 DEF Speak
<1>15. ASSUME NEW t \in Threads, SeeTurn(t) PROVE TypeOK'
  BY <1>15 DEF SeeTurn
<1>16. ASSUME NEW t \in Threads, Play(t) PROVE TypeOK'
  BY <1>16 DEF Play
<1>17. ASSUME NEW t \in Threads, PlayFails(t) PROVE TypeOK'
  BY <1>17 DEF PlayFails
<1>18. ASSUME NEW t \in Threads, Finish(t) PROVE TypeOK'
  BY <1>18 DEF Finish
<1>19. CASE UNCHANGED vars
  BY <1>19 DEF vars
<1> QED
  BY <1>1, <1>2, <1>3, <1>4, <1>5, <1>6, <1>7, <1>8, <1>9, <1>10, <1>11, <1>12, <1>13,
     <1>14, <1>15, <1>16, <1>17, <1>18, <1>19
  DEF Next, Control, Speaking

LEMMA InitOK == Init => Inv
<1> SUFFICES ASSUME Init PROVE Inv
  OBVIOUS
<1> USE DEF Init
<1>1. TypeOK
  <2>1. MaxCommands \in Nat /\ MaxFaults \in Nat
    BY SpeechAssumption DEF SpeechAssumption
  <2>2. 0 \in 0 .. MaxCommands /\ 0 \in 0 .. MaxFaults
    BY <2>1
  <2>3. at \in [Commanders -> CommanderPlaces] /\ speech \in [Threads -> SpeechPlaces]
    BY DEF CommanderPlaces, SpeechPlaces
  <2> QED
    BY <2>2, <2>3 DEF TypeOK
<1>2. CountOK
  <2>1. Busy = {}
    BY DEF Busy
  <2> QED
    BY <2>1, FS_EmptySet DEF CountOK
<1>3. OneAtATime /\ ServiceOK
  BY DEF OneAtATime, ServiceOK, Busy, Steady
<1>4. UnsaidUnheard /\ SomebodyClearsTheFlag
  BY DEF UnsaidUnheard, SomebodyClearsTheFlag
<1>5. HeardOnce
  BY DEF HeardOnce, Threads
<1> QED
  BY <1>1, <1>2, <1>3, <1>4, <1>5 DEF Inv, Alone

\* Types and the count of commands, for a run of any length.
THEOREM TypeCorrect == Spec => [](TypeOK /\ CountOK)
<1>1. Init => TypeOK /\ CountOK
  BY InitOK DEF Inv
<1> QED
  BY <1>1, TypeStep, CountStep, PTL DEF Spec

-----------------------------------------------------------------------------
(* The flag                                                                *)

\* Only a reply starts speech, of its own words.
LEMMA UnsaidStep == TypeOK /\ UnsaidUnheard /\ [Next]_vars => UnsaidUnheard'
<1> SUFFICES ASSUME TypeOK, UnsaidUnheard, [Next]_vars PROVE UnsaidUnheard'
  OBVIOUS
<1> USE DEF UnsaidUnheard, Progress, TypeOK
<1>1. ASSUME NEW c \in Commanders, NEW op, Command(c, op) PROVE UnsaidUnheard'
  BY <1>1 DEF Command, speechVars
<1>2. ASSUME NEW c \in Commanders, Control(c) PROVE UnsaidUnheard'
  BY <1>2 DEF Control, Start, SetStarting, Load, SetRunning, Listen, Stop, Silence,
              AwaitSilence, Unlisten, SetStopped, speechVars
<1>3. ASSUME NEW r \in Replies, Reply(r) PROVE UnsaidUnheard'
  BY <1>3 DEF Reply
<1>4. ASSUME NEW t \in Threads, Speaking(t) PROVE UnsaidUnheard'
  <2>1. said' = said
    BY <1>4 DEF Speaking, AsyncSpeak, Speak, SeeTurn, Play, PlayFails, Finish
  <2>2. speech[t] # "none"
    BY <1>4 DEF Speaking, AsyncSpeak, Speak, SeeTurn, Play, PlayFails, Finish, Starting
  <2>3. \E place : speech' = [speech EXCEPT ![t] = place]
    BY <1>4 DEF Speaking, AsyncSpeak, Speak, SeeTurn, Play, PlayFails, Finish
  <2> QED
    BY <2>1, <2>2, <2>3
<1>5. CASE UNCHANGED vars
  BY <1>5 DEF vars
<1> QED
  BY <1>1, <1>2, <1>3, <1>4, <1>5 DEF Next

\* A speaker that stops playing clears the flag, and one that sets it plays.
LEMMA FlagStep ==
    TypeOK /\ UnsaidUnheard /\ SomebodyClearsTheFlag /\ [Next]_vars => SomebodyClearsTheFlag'
<1> SUFFICES ASSUME TypeOK, UnsaidUnheard, SomebodyClearsTheFlag, [Next]_vars
             PROVE  SomebodyClearsTheFlag'
  OBVIOUS
<1> USE DEF SomebodyClearsTheFlag, Progress
<1>1. ASSUME NEW c \in Commanders, NEW op, Command(c, op) PROVE SomebodyClearsTheFlag'
  BY <1>1 DEF Command, speechVars
<1>2. ASSUME NEW c \in Commanders, Control(c) PROVE SomebodyClearsTheFlag'
  BY <1>2 DEF Control, Start, SetStarting, Load, SetRunning, Listen, Stop, Silence,
              AwaitSilence, Unlisten, SetStopped, speechVars
<1>3. ASSUME NEW r \in Replies, Reply(r) PROVE SomebodyClearsTheFlag'
  <2>1. ASSUME NEW t \in Threads, speech[t] = "playing" PROVE speech'[t] = "playing"
    BY <1>3, <2>1 DEF Reply, UnsaidUnheard
  <2> QED
    BY <1>3, <2>1 DEF Reply
<1>4. ASSUME NEW t \in Threads, AsyncSpeak(t) PROVE SomebodyClearsTheFlag'
  BY <1>4 DEF AsyncSpeak, TypeOK
<1>5. ASSUME NEW t \in Threads, Speak(t) PROVE SomebodyClearsTheFlag'
  BY <1>5 DEF Speak, TypeOK
<1>6. ASSUME NEW t \in Threads, SeeTurn(t) PROVE SomebodyClearsTheFlag'
  BY <1>6 DEF SeeTurn
<1>7. ASSUME NEW t \in Threads, Play(t) PROVE SomebodyClearsTheFlag'
  BY <1>7 DEF Play, TypeOK
<1>8. ASSUME NEW t \in Threads, PlayFails(t) PROVE SomebodyClearsTheFlag'
  BY <1>8 DEF PlayFails, TypeOK
<1>9. ASSUME NEW t \in Threads, Finish(t) PROVE SomebodyClearsTheFlag'
  BY <1>9 DEF Finish
<1>10. CASE UNCHANGED vars
  BY <1>10 DEF vars
<1> QED
  BY <1>1, <1>2, <1>3, <1>4, <1>5, <1>6, <1>7, <1>8, <1>9, <1>10 DEF Next, Speaking

\* As long as no sound fails, whoever waits for currentlySpeaking waits for a
\* speaker that plays and will clear it.
THEOREM TheFlagIsCleared == Spec => []SomebodyClearsTheFlag
<1>1. Init => UnsaidUnheard /\ SomebodyClearsTheFlag
  BY InitOK DEF Inv
<1> QED
  BY <1>1, UnsaidStep, FlagStep, TypeCorrect, PTL DEF Spec

-----------------------------------------------------------------------------
(* Commanders that work one after the other                                *)

\* A commander at work is the only one.
LEMMA CommandAlone ==
    ASSUME TypeOK, Alone, NEW c \in Commanders, NEW op, Command(c, op), ~overlapped'
    PROVE  OneAtATime' /\ ServiceOK' /\ HeardOnce'
<1>1. ~overlapped /\ \A d \in Commanders \ {c} : at[d] = "idle"
  BY DEF Command, TypeOK
<1>2. at[c] = "idle" /\ Busy = {}
  BY <1>1 DEF Command, Busy
<1>3. OneAtATime /\ ServiceOK /\ HeardOnce
  BY <1>1 DEF Alone
<1>4. /\ at'[c] \in {"start", "stop"}
      /\ \A d \in Commanders \ {c} : at'[d] = "idle"
  BY <1>1 DEF Command, Goto, TypeOK
<1>5. UNCHANGED <<listeners, state, onOutputHandle, speech>>
  BY DEF Command, speechVars
<1>6. Busy' = {c}
  BY <1>4 DEF Busy
<1>7. Steady' /\ state' # "STARTING"
  BY <1>2, <1>3, <1>5 DEF ServiceOK, Steady
<1>8. OneAtATime'
  BY <1>6 DEF OneAtATime
<1>9. ServiceOK'
  BY <1>4, <1>6, <1>7 DEF ServiceOK
<1>10. HeardOnce'
  BY <1>3, <1>5 DEF HeardOnce
<1> QED
  BY <1>8, <1>9, <1>10

\* Each step of a command leaves the service as the next place has it.
LEMMA ControlAlone ==
    ASSUME TypeOK, CountOK, Alone, NEW c \in Commanders, Control(c), ~overlapped'
    PROVE  OneAtATime' /\ ServiceOK' /\ HeardOnce'
<1>1. ~overlapped /\ UNCHANGED speech
  BY DEF Control, Start, SetStarting, Load, SetRunning, Listen, Stop, Silence,
         AwaitSilence, Unlisten, SetStopped, speechVars
<1>2. OneAtATime /\ ServiceOK /\ HeardOnce
  BY <1>1 DEF Alone
<1>3. PICK place \in CommanderPlaces : at[c] # "idle" /\ at' = [at EXCEPT ![c] = place]
  BY ControlMoves
<1>4. /\ at'[c] = place
      /\ \A d \in Commanders \ {c} : at'[d] = "idle"
  BY <1>2, <1>3 DEF OneAtATime, Busy, TypeOK
<1>5. Busy' = IF place = "idle" THEN {} ELSE {c}
  BY <1>4 DEF Busy
<1>6. OneAtATime'
  BY <1>5 DEF OneAtATime
<1>7. HeardOnce'
  BY <1>1, <1>2 DEF HeardOnce
<1>8. SUFFICES /\ place \in {"idle", "start", "stop", "silence", "await", "unlisten", "spin"}
                    => Steady' /\ state' # "STARTING"
               /\ place = "starting" => state' = "STOPPED" /\ listeners' = {}
               /\ place \in {"load", "up"} => state' = "STARTING" /\ listeners' = {}
               /\ place = "listen" => state' = "RUNNING" /\ listeners' = {}
               /\ place = "down" => state' # "STARTING" /\ listeners' = {}
  BY <1>4, <1>5, <1>6, <1>7 DEF ServiceOK
<1> USE <1>2, <1>4 DEF ServiceOK, Steady, Goto
<1>9. CASE Start(c)
  BY <1>9 DEF Start, TypeOK
<1>10. CASE SetStarting(c)
  BY <1>10 DEF SetStarting, TypeOK
<1>11. CASE Load(c)
  BY <1>11 DEF Load, TypeOK
<1>12. CASE SetRunning(c)
  BY <1>12 DEF SetRunning, TypeOK
<1>13. CASE Listen(c)
  BY <1>13 DEF Listen, TypeOK
<1>14. CASE Stop(c)
  BY <1>14 DEF Stop, TypeOK
<1>15. CASE Silence(c)
  BY <1>15 DEF Silence, TypeOK
<1>16. CASE AwaitSilence(c)
  BY <1>16 DEF AwaitSilence, TypeOK
<1>17. CASE Unlisten(c)
  BY <1>17 DEF Unlisten, TypeOK
<1>18. CASE SetStopped(c)
  BY <1>18 DEF SetStopped, TypeOK
<1> QED
  BY <1>9, <1>10, <1>11, <1>12, <1>13, <1>14, <1>15, <1>16, <1>17, <1>18 DEF Control

\* One listener hears a reply, and the speech of each goes its own way.
LEMMA SpeechAlone ==
    ASSUME TypeOK, UnsaidUnheard, Alone, ~overlapped',
           \/ \E r \in Replies : Reply(r)
           \/ \E t \in Threads : Speaking(t)
           \/ UNCHANGED vars
    PROVE  OneAtATime' /\ ServiceOK' /\ HeardOnce'
<1>1. UNCHANGED commandVars
  BY SpeechMoves
<1>2. OneAtATime /\ ServiceOK /\ HeardOnce
  BY <1>1 DEF Alone, commandVars
<1>3. OneAtATime' /\ ServiceOK'
  BY <1>1, <1>2 DEF OneAtATime, ServiceOK, Busy, Steady, commandVars
<1>4. \A i, j \in listeners : i = j
  <2>1. listeners = {} \/ listeners = {onOutputHandle}
    <3>1. CASE Busy = {}
      BY <3>1, <1>2 DEF ServiceOK, Steady
    <3>2. CASE Busy # {}
      <4>1. PICK c \in Commanders : at[c] \in CommanderPlaces \ {"idle"}
        BY <3>2 DEF Busy, TypeOK
      <4> QED
        BY <4>1, <1>2 DEF ServiceOK, Steady, CommanderPlaces
    <3> QED
      BY <3>1, <3>2
  <2> QED
    BY <2>1
<1>5. HeardOnce'
  <2>1. ASSUME NEW r \in Replies, Reply(r) PROVE HeardOnce'
    <3> SUFFICES ASSUME NEW q \in Replies, NEW i \in Ids, NEW j \in Ids,
                        speech'[<<q, i>>] # "none", speech'[<<q, j>>] # "none"
                 PROVE  i = j
      BY DEF HeardOnce
    <3>1. <<q, i>> \in Threads /\ <<q, j>> \in Threads
      BY DEF Threads
    <3>2. CASE q = r
      <4>1. speech[<<q, i>>] = "none" /\ speech[<<q, j>>] = "none"
        BY <2>1, <3>1, <3>2 DEF UnsaidUnheard, Reply
      <4>2. i \in listeners /\ j \in listeners
        BY <2>1, <3>1, <4>1 DEF Reply
      <4> QED
        BY <4>2, <1>4
    <3>3. CASE q # r
      <4>1. speech'[<<q, i>>] = speech[<<q, i>>] /\ speech'[<<q, j>>] = speech[<<q, j>>]
        BY <2>1, <3>1, <3>3 DEF Reply
      <4> QED
        BY <4>1, <1>2 DEF HeardOnce
    <3> QED
      BY <3>2, <3>3
  <2>2. ASSUME NEW t \in Threads, Speaking(t) PROVE HeardOnce'
    <3>1. speech[t] # "none"
      BY <2>2 DEF Speaking, AsyncSpeak, Speak, SeeTurn, Play, PlayFails, Finish, Starting
    <3>2. PICK place : speech' = [speech EXCEPT ![t] = place]
      BY <2>2 DEF Speaking, AsyncSpeak, Speak, SeeTurn, Play, PlayFails, Finish, Progress
    <3>3. \A q \in Threads : speech'[q] # "none" => speech[q] # "none"
      BY <3>1, <3>2 DEF TypeOK
    <3> QED
      BY <3>3, <1>2 DEF HeardOnce, Threads
  <2>3. CASE UNCHANGED vars
    BY <2>3, <1>2 DEF HeardOnce, vars
  <2> QED
    BY <2>1, <2>2, <2>3
<1> QED
  BY <1>3, <1>5

THEOREM Invariance == Spec => []Inv
<1>1. Inv /\ [Next]_vars => Alone'
  <2> SUFFICES ASSUME Inv, [Next]_vars, ~overlapped'
               PROVE  OneAtATime' /\ ServiceOK' /\ HeardOnce'
    BY DEF Alone
  <2>1. TypeOK /\ CountOK /\ UnsaidUnheard /\ Alone
    BY DEF Inv
  <2> QED
    BY <2>1, CommandAlone, ControlAlone, SpeechAlone DEF Next
<1>2. Inv /\ [Next]_vars => Inv'
  BY <1>1, TypeStep, CountStep, UnsaidStep, FlagStep DEF Inv
<1> QED
  BY <1>2, InitOK, PTL DEF Spec

\* However replies and commands interleave, a service that nobody works on
\* listens once if it runs and not at all if it is stopped.
THEOREM ListensOnceIfRunning == Spec => []ListensIffRunning
<1>1. Inv => ListensIffRunning
  BY DEF Inv, Alone, ListensIffRunning, ServiceOK, Steady, Busy
<1> QED
  BY <1>1, Invariance, PTL

\* No reply is spoken by two threads, across any number of restarts.
THEOREM RepliesAreSpokenOnce == Spec => []SpokenOnce
<1>1. Inv => SpokenOnce
  BY DEF Inv, Alone, HeardOnce, SpokenOnce
<1> QED
  BY <1>1, Invariance, PTL

=============================================================================
