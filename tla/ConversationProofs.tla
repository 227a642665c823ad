------------------------ MODULE ConversationProofs --------------------------
(***************************************************************************)
(* What holds of Conversation.tla for any number of threads, inputs and    *)
(* commands.  The argument: the places of the threads and the owner of     *)
(* conversationMutex determine each other (OneConversation), so a step     *)
(* that leaves a conversation or takes an answer is a step of the owner;   *)
(* and from the watcher's test to its pop nobody else uses the queue.      *)
(***************************************************************************)
EXTENDS Conversation, TLAPS

\* Each step of the code leaves every variable in its type: no reader ever
\* stands where only the watcher may pop the queue.
THEOREM TypeCorrect == Spec => []TypeOK
<1> USE ConversationAssumption DEF ConversationAssumption, Threads
<1>1. Init => TypeOK
  <2> SUFFICES ASSUME Init PROVE TypeOK
    OBVIOUS
  <2>1. pc \in [Threads -> Places] /\ outcome \in [Threads -> Outcomes]
    BY DEF Init, Places, Outcomes
  <2>2. command \in [Threads -> Inputs]
    BY DEF Init
  <2>3. inputQue \in Seq(Inputs) /\ passed \in Seq(Inputs) /\ taken \in Seq(Takes)
    BY DEF Init
  <2>4. \A t \in Readers : pc[t] # "pop"
    BY DEF Init
  <2> QED
    BY <2>1, <2>2, <2>3, <2>4 DEF Init, TypeOK
<1>2. TypeOK /\ [Next]_vars => TypeOK'
  <2> SUFFICES ASSUME TypeOK, [Next]_vars PROVE TypeOK'
    OBVIOUS
  <2> USE DEF TypeOK, Places, Outcomes, Prompting
  <2>1. ASSUME NEW i \in Inputs, PassInput(i) PROVE TypeOK'
    BY <2>1 DEF PassInput, talkVars, flagVars, threadVars
  <2>2. CASE RequestStop
    BY <2>2 DEF RequestStop, queueVars, talkVars, flagVars, threadVars
  <2>3. CASE WatchInputQue
    BY <2>3 DEF WatchInputQue, Goto, queueVars, talkVars, flagVars
  <2>4. CASE WatcherPops
    <3>1. [input |-> Head(inputQue), thread |-> Watcher, use |-> "command"] \in Takes
      BY <2>4 DEF WatcherPops, Take, Takes, Uses
    <3>2. taken' \in Seq(Takes) /\ inputQue' \in Seq(Inputs)
      BY <2>4, <3>1 DEF WatcherPops, Take
    <3> QED
      BY <2>4, <3>2 DEF WatcherPops, Take, Goto, talkVars, flagVars
  <2>5. ASSUME NEW t \in Readers, NEW i \in Inputs, ReaderCommand(t, i) PROVE TypeOK'
    BY <2>5 DEF ReaderCommand, Goto, queueVars, talkVars, flagVars
  <2>6. ASSUME NEW t \in Threads, PassCommand(t) PROVE TypeOK'
    BY <2>6 DEF PassCommand, Goto, queueVars, talkVars, flagVars
  <2>7. ASSUME NEW t \in Threads, LockConversation(t) PROVE TypeOK'
    BY <2>7 DEF LockConversation, Goto, flagVars, queueVars
  <2>8. ASSUME NEW t \in Threads, StartConversation(t) PROVE TypeOK'
    BY <2>8 DEF StartConversation, Goto, queueVars
  <2>9. ASSUME NEW t \in Threads, PromptCheck(t) PROVE TypeOK'
    BY <2>9 DEF PromptCheck, Goto, queueVars, talkVars, flagVars
  <2>10. ASSUME NEW t \in Threads, PromptPoll(t) PROVE TypeOK'
    <3>1. CASE Take(t, "answer")
      <4>1. [input |-> Head(inputQue), thread |-> t, use |-> "answer"] \in Takes
        BY <3>1 DEF Take, Takes, Uses
      <4>2. taken' \in Seq(Takes) /\ inputQue' \in Seq(Inputs) /\ passed' \in Seq(Inputs)
        BY <3>1, <4>1 DEF Take
      <4> QED
        BY <2>10, <3>1, <4>2 DEF PromptPoll, Take, Goto, talkVars, flagVars, queueVars
    <3>2. CASE inputQue = <<>>
      BY <2>10, <3>2 DEF PromptPoll, Take, Goto, queueVars, talkVars, flagVars
    <3> QED
      BY <2>10, <3>1, <3>2 DEF PromptPoll
  <2>11. ASSUME NEW t \in Threads, UnlockConversation(t) PROVE TypeOK'
    BY <2>11 DEF UnlockConversation, flagVars, Goto, queueVars
  <2>12. ASSUME NEW t \in Threads, EndConversation(t) PROVE TypeOK'
    BY <2>12 DEF EndConversation, Goto, queueVars
  <2>13. ASSUME NEW t \in Threads, Exit(t) PROVE TypeOK'
    BY <2>13 DEF Exit, Goto, queueVars, talkVars, flagVars
  <2>14. ASSUME NEW t \in Threads, Expire(t) PROVE TypeOK'
    BY <2>14 DEF Expire, queueVars, talkVars, flagVars
  <2>15. CASE UNCHANGED vars
    BY <2>15 DEF vars
  <2> QED
    BY <2>1, <2>2, <2>3, <2>4, <2>5, <2>6, <2>7, <2>8, <2>9, <2>10, <2>11,
       <2>12, <2>13, <2>14, <2>15 DEF Next, WatcherStep, ThreadStep
<1> QED
  BY <1>1, <1>2, PTL DEF Spec

-----------------------------------------------------------------------------

\* startConversation and endConversation let one thread converse at a time,
\* and the mutex is never left locked behind a conversation.
THEOREM OnlyOneConversation == Spec => []OneConversation
<1> USE ConversationAssumption DEF ConversationAssumption, Threads
<1>1. Init => OneConversation
  BY DEF Init, OneConversation, Talking
<1>2. TypeOK /\ OneConversation /\ [Next]_vars => OneConversation'
  <2> SUFFICES ASSUME TypeOK, OneConversation, [Next]_vars PROVE OneConversation'
    OBVIOUS
  <2> USE DEF OneConversation, Talking, Prompting
  <2>0. pc \in [Threads -> Places] /\ conversationMutex \in Threads \cup {NoThread}
    BY DEF TypeOK
  <2>1. ASSUME NEW i \in Inputs, PassInput(i) PROVE OneConversation'
    BY <2>0, <2>1 DEF PassInput, talkVars, flagVars, threadVars
  <2>2. CASE RequestStop
    BY <2>0, <2>2 DEF RequestStop, talkVars, flagVars, threadVars
  <2>3. CASE WatchInputQue
    BY <2>0, <2>3 DEF WatchInputQue, Goto, talkVars, flagVars
  <2>4. CASE WatcherPops
    BY <2>0, <2>4 DEF WatcherPops, Goto, talkVars, flagVars
  <2>5. ASSUME NEW t \in Readers, NEW i \in Inputs, ReaderCommand(t, i) PROVE OneConversation'
    BY <2>0, <2>5 DEF ReaderCommand, Goto, talkVars, flagVars
  <2>6. ASSUME NEW t \in Threads, PassCommand(t) PROVE OneConversation'
    BY <2>0, <2>6 DEF PassCommand, Goto, talkVars, flagVars
  <2>7. ASSUME NEW t \in Threads, LockConversation(t) PROVE OneConversation'
    BY <2>0, <2>7 DEF LockConversation, Goto, flagVars
  <2>8. ASSUME NEW t \in Threads, StartConversation(t) PROVE OneConversation'
    BY <2>0, <2>8 DEF StartConversation, Goto
  <2>9. ASSUME NEW t \in Threads, PromptCheck(t) PROVE OneConversation'
    BY <2>0, <2>9 DEF PromptCheck, Goto, talkVars, flagVars
  <2>10. ASSUME NEW t \in Threads, PromptPoll(t) PROVE OneConversation'
    BY <2>0, <2>10 DEF PromptPoll, Goto, talkVars, flagVars
  <2>11. ASSUME NEW t \in Threads, UnlockConversation(t) PROVE OneConversation'
    BY <2>0, <2>11 DEF UnlockConversation, flagVars, Goto
  <2>12. ASSUME NEW t \in Threads, EndConversation(t) PROVE OneConversation'
    BY <2>0, <2>12 DEF EndConversation, Goto
  <2>13. ASSUME NEW t \in Threads, Exit(t) PROVE OneConversation'
    BY <2>0, <2>13 DEF Exit, Goto, talkVars, flagVars
  <2>14. ASSUME NEW t \in Threads, Expire(t) PROVE OneConversation'
    BY <2>0, <2>14 DEF Expire, talkVars, flagVars
  <2>15. CASE UNCHANGED vars
    BY <2>15 DEF vars
  <2> QED
    BY <2>1, <2>2, <2>3, <2>4, <2>5, <2>6, <2>7, <2>8, <2>9, <2>10,
       <2>11, <2>12, <2>13, <2>14, <2>15
       DEF Next, WatcherStep, ThreadStep
<1> QED
  BY <1>1, <1>2, TypeCorrect, PTL DEF Spec

\* The flag is never stuck: while it is set some thread is on its way to clear
\* it, so the watcher does not lose the queue for good.
THEOREM TheFlagIsCleared == Spec => []FlagHasItsClearer
<1> USE ConversationAssumption DEF ConversationAssumption, Threads
<1>1. Init => FlagHasItsClearer
  BY DEF Init, FlagHasItsClearer
<1>2. TypeOK /\ FlagHasItsClearer /\ [Next]_vars => FlagHasItsClearer'
  <2> SUFFICES ASSUME TypeOK, FlagHasItsClearer, [Next]_vars PROVE FlagHasItsClearer'
    OBVIOUS
  <2> USE DEF FlagHasItsClearer, Prompting
  <2>0. pc \in [Threads -> Places]
    BY DEF TypeOK
  <2>1. ASSUME NEW i \in Inputs, PassInput(i) PROVE FlagHasItsClearer'
    BY <2>0, <2>1 DEF PassInput, talkVars, flagVars, threadVars
  <2>2. CASE RequestStop
    BY <2>0, <2>2 DEF RequestStop, talkVars, flagVars, threadVars
  <2>3. CASE WatchInputQue
    BY <2>0, <2>3 DEF WatchInputQue, Goto, talkVars, flagVars
  <2>4. CASE WatcherPops
    BY <2>0, <2>4 DEF WatcherPops, Goto, talkVars, flagVars
  <2>5. ASSUME NEW t \in Readers, NEW i \in Inputs, ReaderCommand(t, i) PROVE FlagHasItsClearer'
    BY <2>0, <2>5 DEF ReaderCommand, Goto, talkVars, flagVars
  <2>6. ASSUME NEW t \in Threads, PassCommand(t) PROVE FlagHasItsClearer'
    BY <2>0, <2>6 DEF PassCommand, Goto, talkVars, flagVars
  <2>7. ASSUME NEW t \in Threads, LockConversation(t) PROVE FlagHasItsClearer'
    BY <2>0, <2>7 DEF LockConversation, Goto, flagVars
  <2>8. ASSUME NEW t \in Threads, StartConversation(t) PROVE FlagHasItsClearer'
    BY <2>0, <2>8 DEF StartConversation, Goto
  <2>9. ASSUME NEW t \in Threads, PromptCheck(t) PROVE FlagHasItsClearer'
    BY <2>0, <2>9 DEF PromptCheck, Goto, talkVars, flagVars
  <2>10. ASSUME NEW t \in Threads, PromptPoll(t) PROVE FlagHasItsClearer'
    BY <2>0, <2>10 DEF PromptPoll, Goto, talkVars, flagVars
  <2>11. ASSUME NEW t \in Threads, UnlockConversation(t) PROVE FlagHasItsClearer'
    BY <2>0, <2>11 DEF UnlockConversation, flagVars, Goto
  <2>12. ASSUME NEW t \in Threads, EndConversation(t) PROVE FlagHasItsClearer'
    BY <2>0, <2>12 DEF EndConversation, Goto
  <2>13. ASSUME NEW t \in Threads, Exit(t) PROVE FlagHasItsClearer'
    BY <2>0, <2>13 DEF Exit, Goto, talkVars, flagVars
  <2>14. ASSUME NEW t \in Threads, Expire(t) PROVE FlagHasItsClearer'
    BY <2>0, <2>14 DEF Expire, talkVars, flagVars
  <2>15. CASE UNCHANGED vars
    BY <2>15 DEF vars
  <2> QED
    BY <2>1, <2>2, <2>3, <2>4, <2>5, <2>6, <2>7, <2>8, <2>9, <2>10,
       <2>11, <2>12, <2>13, <2>14, <2>15
       DEF Next, WatcherStep, ThreadStep
<1> QED
  BY <1>1, <1>2, TypeCorrect, PTL DEF Spec

-----------------------------------------------------------------------------

\* A step other than the taking of an answer keeps the last answer.
LEMMA AnswerStays ==
    ASSUME NEW t \in Threads, NEW i \in Inputs, TypeOK, TypeOK', Answered(t, i),
           \/ UNCHANGED taken
           \/ \E j : taken' = Append(taken, [input |-> j, thread |-> Watcher, use |-> "command"])
    PROVE  Answered(t, i)'
<1>1. PICK n \in 1 .. Len(taken) :
         /\ taken[n] = [input |-> i, thread |-> t, use |-> "answer"]
         /\ \A m \in n + 1 .. Len(taken) : taken[m].use = "command"
  BY DEF Answered
<1>2. CASE UNCHANGED taken
  BY <1>2 DEF Answered
<1>3. CASE \E j : taken' = Append(taken, [input |-> j, thread |-> Watcher, use |-> "command"])
  <2>1. PICK j : taken' = Append(taken, [input |-> j, thread |-> Watcher, use |-> "command"])
    BY <1>3
  <2>2. taken \in Seq(Takes) /\ taken' \in Seq(Takes)
    BY DEF TypeOK
  <2>3. /\ Len(taken') = Len(taken) + 1
        /\ \A m \in 1 .. Len(taken) : taken'[m] = taken[m]
        /\ taken'[Len(taken) + 1].use = "command"
    BY <2>1, <2>2
  <2>4. n \in 1 .. Len(taken') /\ taken'[n] = taken[n]
    BY <2>2, <2>3
  <2>5. ASSUME NEW m \in n + 1 .. Len(taken') PROVE taken'[m].use = "command"
    <3>1. CASE m = Len(taken) + 1
      BY <2>3, <3>1
    <3>2. CASE m # Len(taken) + 1
      <4>1. m \in n + 1 .. Len(taken) /\ m \in 1 .. Len(taken)
        BY <2>2, <2>3, <3>2
      <4> QED
        BY <1>1, <2>3, <4>1
    <3> QED
      BY <3>1, <3>2
  <2> QED
    BY <1>1, <2>4, <2>5 DEF Answered
<1> QED
  BY <1>2, <1>3

\* Who takes the front of the queue as an answer has it for its last answer.
LEMMA TakeAnswers ==
    ASSUME NEW t \in Threads, TypeOK, Take(t, "answer")
    PROVE  \E i \in Inputs : i = Head(inputQue) /\ Answered(t, i)'
<1>1. taken \in Seq(Takes) /\ inputQue \in Seq(Inputs) /\ inputQue # <<>>
  BY DEF TypeOK, Take
<1>2. PICK i \in Inputs : i = Head(inputQue)
  BY <1>1
<1> DEFINE new == [input |-> i, thread |-> t, use |-> "answer"]
<1>3. taken' = Append(taken, new) /\ new \in Takes
  BY <1>2 DEF Take, Takes, Uses
<1>4. /\ Len(taken') = Len(taken) + 1 /\ Len(taken) \in Nat
      /\ taken'[Len(taken) + 1] = new
  <2> HIDE DEF new
  <2> QED
    BY <1>1, <1>3
<1>5. Len(taken) + 1 \in 1 .. Len(taken')
  BY <1>4
<1>6. \A m \in (Len(taken) + 1) + 1 .. Len(taken') : FALSE
  BY <1>4
<1>7. Answered(t, i)'
  BY <1>4, <1>5, <1>6 DEF Answered
<1> QED
  BY <1>2, <1>7

\* A thread between the return of its prompt and the unlock keeps the cause of
\* its outcome: it owns the conversation, so nobody else takes an answer.
LEMMA CauseStays ==
    ASSUME TypeOK, TypeOK', OutcomeHasACause, killed => killed',
           \/ UNCHANGED taken
           \/ \E j : taken' = Append(taken, [input |-> j, thread |-> Watcher, use |-> "command"]),
           NEW t \in Threads, pc[t] = "end", outcome'[t] = outcome[t],
           t \in expired => t \in expired'
    PROVE  \/ outcome'[t] = "confirmed" /\ Answered(t, Confirm)'
           \/ outcome'[t] = "denied" /\ (killed' \/ \E i \in Inputs \ {Confirm} : Answered(t, i)')
           \/ outcome'[t] = "timedOut" /\ t \in expired'
<1>1. \A i \in Inputs : Answered(t, i) => Answered(t, i)'
  BY AnswerStays
<1>2. Confirm \in Inputs
  BY ConversationAssumption DEF ConversationAssumption
<1>3. \/ outcome[t] = "confirmed" /\ Answered(t, Confirm)
      \/ outcome[t] = "denied" /\ (killed \/ \E i \in Inputs \ {Confirm} : Answered(t, i))
      \/ outcome[t] = "timedOut" /\ t \in expired
  BY DEF OutcomeHasACause
<1>4. Answered(t, Confirm) => Answered(t, Confirm)'
  BY <1>1, <1>2
<1>5. ASSUME \E i \in Inputs \ {Confirm} : Answered(t, i)
      PROVE  \E i \in Inputs \ {Confirm} : Answered(t, i)'
  <2>1. PICK i \in Inputs \ {Confirm} : Answered(t, i)
    BY <1>5
  <2>2. Answered(t, i)'
    BY <1>1, <2>1
  <2> QED
    BY <2>2
<1> QED
  BY <1>3, <1>4, <1>5

\* What a prompt reports was caused in that prompt, whatever the other threads
\* take, start and end meanwhile.
THEOREM OutcomesAreCaused == Spec => []OutcomeHasACause
<1>1. Init => OutcomeHasACause
  BY DEF Init, OutcomeHasACause
<1>2. /\ TypeOK /\ TypeOK' /\ OneConversation /\ OutcomeHasACause
      /\ [Next]_vars
      => OutcomeHasACause'
  <2> SUFFICES ASSUME TypeOK, TypeOK', OneConversation, OutcomeHasACause, [Next]_vars,
                      NEW t \in Threads, pc'[t] = "end"
               PROVE  \/ outcome'[t] = "confirmed" /\ Answered(t, Confirm)'
                      \/ outcome'[t] = "denied"
                            /\ (killed' \/ \E i \in Inputs \ {Confirm} : Answered(t, i)')
                      \/ outcome'[t] = "timedOut" /\ t \in expired'
    BY DEF OutcomeHasACause
  <2>0. pc \in [Threads -> Places] /\ outcome \in [Threads -> Outcomes]
    BY DEF TypeOK
  <2> DEFINE Kept == /\ killed => killed'
                     /\ \/ UNCHANGED taken
                        \/ \E j : taken' = Append(taken, [input |-> j, thread |-> Watcher,
                                                          use |-> "command"])
                     /\ pc[t] = "end"
                     /\ outcome'[t] = outcome[t]
                     /\ t \in expired => t \in expired'
  <2>1. SUFFICES ASSUME ~Kept
                 PROVE  \/ outcome'[t] = "confirmed" /\ Answered(t, Confirm)'
                        \/ outcome'[t] = "denied"
                              /\ (killed' \/ \E i \in Inputs \ {Confirm} : Answered(t, i)')
                        \/ outcome'[t] = "timedOut" /\ t \in expired'
    BY CauseStays
  <2>2. \A i \in Inputs : ~PassInput(i)
    BY <2>1 DEF PassInput, talkVars, flagVars, threadVars
  <2>3. ~RequestStop
    BY <2>1 DEF RequestStop, queueVars, threadVars
  <2>4. ~WatchInputQue
    BY <2>0, <2>1 DEF WatchInputQue, Goto, queueVars
  <2>5. ~WatcherPops
    <3> SUFFICES ASSUME WatcherPops PROVE Kept
      BY <2>1
    <3>1. taken' = Append(taken, [input |-> Head(inputQue), thread |-> Watcher,
                                  use |-> "command"])
      BY DEF WatcherPops, Take
    <3>2. \E j : taken' = Append(taken, [input |-> j, thread |-> Watcher, use |-> "command"])
      BY <3>1
    <3>3. pc[t] = "end" /\ outcome' = outcome /\ killed' = killed /\ expired' = expired
      BY <2>0 DEF WatcherPops, Goto
    <3> QED
      BY <3>2, <3>3
  <2>6. \A u \in Readers, i \in Inputs : ~ReaderCommand(u, i)
    BY <2>0, <2>1 DEF ReaderCommand, Goto, queueVars, Threads
  <2>7. \A u \in Threads : ~PassCommand(u)
    BY <2>0, <2>1 DEF PassCommand, Goto, queueVars
  <2>8. \A u \in Threads : ~LockConversation(u)
    BY <2>0, <2>1 DEF LockConversation, Goto, flagVars, queueVars
  <2>9. \A u \in Threads : ~StartConversation(u)
    BY <2>0, <2>1 DEF StartConversation, Goto, queueVars
  <2>10. ASSUME NEW u \in Threads, PromptCheck(u)
         PROVE  \/ outcome'[t] = "denied" /\ killed'
                \/ outcome'[t] = "timedOut" /\ t \in expired'
    <3>1. u = t
      BY <2>0, <2>1, <2>10 DEF PromptCheck, Goto, queueVars
    <3> QED
      BY <2>0, <2>10, <3>1 DEF PromptCheck, Goto
  <2>11. ASSUME NEW u \in Threads, PromptPoll(u)
         PROVE  \/ outcome'[t] = "confirmed" /\ Answered(t, Confirm)'
                \/ outcome'[t] = "denied" /\ \E i \in Inputs \ {Confirm} : Answered(t, i)'
    <3>1. u = t
      <4> SUFFICES ASSUME u # t PROVE FALSE
        OBVIOUS
      <4>1. pc[t] = "end" /\ pc[u] = "poll"
        BY <2>0, <2>11 DEF PromptPoll, Goto
      <4>2. conversationMutex = t /\ conversationMutex = u
        BY <4>1 DEF OneConversation, Talking
      <4> QED
        BY <4>2
    <3>2. Take(t, "answer")
          /\ outcome'[t] = IF Head(inputQue) = Confirm THEN "confirmed" ELSE "denied"
      BY <2>0, <2>11, <3>1 DEF PromptPoll, Goto
    <3>3. PICK i \in Inputs : i = Head(inputQue) /\ Answered(t, i)'
      BY <3>2, TakeAnswers
    <3>4. CASE i = Confirm
      BY <3>2, <3>3, <3>4
    <3>5. CASE i # Confirm
      <4>1. i \in Inputs \ {Confirm} /\ outcome'[t] = "denied"
        BY <3>2, <3>3, <3>5
      <4> QED
        BY <3>3, <4>1
    <3> QED
      BY <3>4, <3>5
  <2>12. \A u \in Threads : ~UnlockConversation(u)
    BY <2>0, <2>1 DEF UnlockConversation, flagVars, Goto, queueVars
  <2>13. \A u \in Threads : ~EndConversation(u)
    BY <2>0, <2>1 DEF EndConversation, Goto, queueVars
  <2>14. \A u \in Threads : ~Exit(u)
    BY <2>0, <2>1 DEF Exit, Goto, queueVars
  <2>15. \A u \in Threads : ~Expire(u)
    BY <2>0, <2>1 DEF Expire, queueVars
  <2>16. ~UNCHANGED vars
    BY <2>1 DEF vars
  <2> QED
    BY <2>2, <2>3, <2>4, <2>5, <2>6, <2>7, <2>8, <2>9, <2>10, <2>11, <2>12, <2>13,
       <2>14, <2>15, <2>16 DEF Next, WatcherStep, ThreadStep
<1> QED
  BY <1>1, <1>2, TypeCorrect, OnlyOneConversation, PTL DEF Spec

-----------------------------------------------------------------------------

\* Taking the front of the queue keeps what was accepted equal to what was
\* taken followed by what waits.
LEMMA TakeKeepsTheLine ==
    ASSUME TypeOK, NoInputLostOrRepeated, NEW t \in Threads, NEW use \in Uses, Take(t, use)
    PROVE  NoInputLostOrRepeated'
<1> DEFINE new == [input |-> Head(inputQue), thread |-> t, use |-> use]
<1>1. inputQue \in Seq(Inputs) /\ passed \in Seq(Inputs) /\ taken \in Seq(Takes)
  BY DEF TypeOK
<1>2. inputQue # <<>> /\ Len(inputQue) > 0 /\ Head(inputQue) = inputQue[1]
  BY <1>1 DEF Take
<1>3. new \in Takes /\ new.input = inputQue[1]
  BY <1>1, <1>2 DEF Takes
<1>4. /\ Len(taken') = Len(taken) + 1
      /\ taken'[Len(taken) + 1] = new
      /\ \A n \in 1 .. Len(taken) : taken'[n] = taken[n]
  <2> HIDE DEF new
  <2>1. taken' = Append(taken, new)
    BY DEF Take, new
  <2> QED
    BY <1>1, <1>3, <2>1
<1>5. /\ Len(inputQue') = Len(inputQue) - 1
      /\ \A n \in 1 .. Len(inputQue') : inputQue'[n] = inputQue[n + 1]
  BY <1>1, <1>2 DEF Take
<1>6. passed' = passed
  BY DEF Take
<1>7. Len(inputQue) \in Nat /\ Len(taken) \in Nat
  BY <1>1
<1>8. Len(passed') = Len(taken') + Len(inputQue')
  <2>1. Len(passed) = Len(taken) + Len(inputQue)
    BY DEF NoInputLostOrRepeated
  <2>2. Len(taken') = Len(taken) + 1 /\ Len(inputQue') = Len(inputQue) - 1
    BY <1>4, <1>5
  <2> QED
    BY <2>1, <2>2, <1>6, <1>7
<1>9. \A n \in 1 .. Len(taken') : taken'[n].input = passed'[n]
  <2> SUFFICES ASSUME NEW n \in 1 .. Len(taken') PROVE taken'[n].input = passed[n]
    BY <1>6
  <2>1. CASE n = Len(taken) + 1
    <3>1. inputQue[1] = passed[Len(taken) + 1]
      BY <1>2, <1>7 DEF NoInputLostOrRepeated
    <3> QED
      BY <2>1, <3>1, <1>3, <1>4
  <2>2. CASE n # Len(taken) + 1
    <3>1. n \in 1 .. Len(taken)
      BY <2>2, <1>4, <1>7
    <3> QED
      BY <3>1, <1>4 DEF NoInputLostOrRepeated
  <2> QED
    BY <2>1, <2>2
<1>10. \A n \in 1 .. Len(inputQue') : inputQue'[n] = passed'[Len(taken') + n]
  <2> SUFFICES ASSUME NEW n \in 1 .. Len(inputQue')
               PROVE  inputQue'[n] = passed[(Len(taken) + 1) + n]
    BY <1>4, <1>6
  <2>1. n + 1 \in 1 .. Len(inputQue) /\ Len(taken) + (n + 1) = (Len(taken) + 1) + n
    BY <1>5, <1>7
  <2> QED
    BY <2>1, <1>5 DEF NoInputLostOrRepeated
<1> QED
  BY <1>8, <1>9, <1>10 DEF NoInputLostOrRepeated

\* No input that passInput accepted is lost, handled twice or out of order,
\* however the watcher and the prompts compete for the queue.
THEOREM InputsAreTakenOnceInOrder == Spec => []NoInputLostOrRepeated
<1> USE ConversationAssumption DEF ConversationAssumption, Threads
<1>1. Init => NoInputLostOrRepeated
  BY DEF Init, NoInputLostOrRepeated
<1>2. TypeOK /\ NoInputLostOrRepeated /\ [Next]_vars => NoInputLostOrRepeated'
  <2> SUFFICES ASSUME TypeOK, NoInputLostOrRepeated, [Next]_vars
               PROVE  NoInputLostOrRepeated'
    OBVIOUS
  <2>0. inputQue \in Seq(Inputs) /\ passed \in Seq(Inputs) /\ taken \in Seq(Takes)
    BY DEF TypeOK
  <2>1. ASSUME NEW i \in Inputs, PassInput(i) PROVE NoInputLostOrRepeated'
    <3>1. /\ Len(inputQue') = Len(inputQue) + 1
          /\ inputQue'[Len(inputQue) + 1] = i
          /\ \A n \in 1 .. Len(inputQue) : inputQue'[n] = inputQue[n]
      BY <2>0, <2>1 DEF PassInput
    <3>2. /\ Len(passed') = Len(passed) + 1
          /\ passed'[Len(passed) + 1] = i
          /\ \A n \in 1 .. Len(passed) : passed'[n] = passed[n]
      BY <2>0, <2>1 DEF PassInput
    <3>3. taken' = taken
      BY <2>1 DEF PassInput
    <3>4. Len(inputQue) \in Nat /\ Len(passed) \in Nat /\ Len(taken) \in Nat
      BY <2>0
    <3>5. Len(passed') = Len(taken') + Len(inputQue')
      <4>1. Len(passed) = Len(taken) + Len(inputQue)
        BY DEF NoInputLostOrRepeated
      <4> QED
        BY <4>1, <3>1, <3>2, <3>3, <3>4
    <3>6. \A n \in 1 .. Len(taken') : taken'[n].input = passed'[n]
      BY <3>2, <3>3, <3>4 DEF NoInputLostOrRepeated
    <3>7. \A n \in 1 .. Len(inputQue') : inputQue'[n] = passed'[Len(taken') + n]
      <4> SUFFICES ASSUME NEW n \in 1 .. Len(inputQue')
                   PROVE  inputQue'[n] = passed'[Len(taken) + n]
        BY <3>3
      <4>1. Len(passed) = Len(taken) + Len(inputQue)
        BY DEF NoInputLostOrRepeated
      <4>2. CASE n = Len(inputQue) + 1
        <5>1. Len(taken) + n = Len(passed) + 1
          BY <4>1, <4>2, <3>4
        <5> QED
          BY <4>2, <5>1, <3>1, <3>2
      <4>3. CASE n # Len(inputQue) + 1
        <5>1. n \in 1 .. Len(inputQue) /\ Len(taken) + n \in 1 .. Len(passed)
          BY <4>1, <4>3, <3>1, <3>4
        <5> QED
          BY <5>1, <3>1, <3>2 DEF NoInputLostOrRepeated
      <4> QED
        BY <4>2, <4>3
    <3> QED
      BY <3>5, <3>6, <3>7 DEF NoInputLostOrRepeated
  <2>2. CASE RequestStop
    BY <2>2 DEF RequestStop, queueVars, NoInputLostOrRepeated
  <2>3. CASE WatchInputQue
    BY <2>3 DEF WatchInputQue, queueVars, NoInputLostOrRepeated
  <2>4. CASE WatcherPops
    BY <2>4, TakeKeepsTheLine DEF WatcherPops, Uses
  <2>5. ASSUME NEW t \in Readers, NEW i \in Inputs, ReaderCommand(t, i) PROVE NoInputLostOrRepeated'
    BY <2>5 DEF ReaderCommand, queueVars, NoInputLostOrRepeated
  <2>6. ASSUME NEW t \in Threads, PassCommand(t) PROVE NoInputLostOrRepeated'
    BY <2>6 DEF PassCommand, queueVars, NoInputLostOrRepeated
  <2>7. ASSUME NEW t \in Threads, LockConversation(t) PROVE NoInputLostOrRepeated'
    BY <2>7 DEF LockConversation, queueVars, NoInputLostOrRepeated
  <2>8. ASSUME NEW t \in Threads, StartConversation(t) PROVE NoInputLostOrRepeated'
    BY <2>8 DEF StartConversation, queueVars, NoInputLostOrRepeated
  <2>9. ASSUME NEW t \in Threads, PromptCheck(t) PROVE NoInputLostOrRepeated'
    BY <2>9 DEF PromptCheck, queueVars, NoInputLostOrRepeated
  <2>10. ASSUME NEW t \in Threads, PromptPoll(t) PROVE NoInputLostOrRepeated'
    <3>1. CASE Take(t, "answer")
      BY <3>1, TakeKeepsTheLine DEF Uses
    <3>2. CASE UNCHANGED queueVars
      BY <3>2 DEF NoInputLostOrRepeated, queueVars
    <3> QED
      BY <2>10, <3>1, <3>2 DEF PromptPoll
  <2>11. ASSUME NEW t \in Threads, UnlockConversation(t) PROVE NoInputLostOrRepeated'
    BY <2>11 DEF UnlockConversation, queueVars, NoInputLostOrRepeated
  <2>12. ASSUME NEW t \in Threads, EndConversation(t) PROVE NoInputLostOrRepeated'
    BY <2>12 DEF EndConversation, queueVars, NoInputLostOrRepeated
  <2>13. ASSUME NEW t \in Threads, Exit(t) PROVE NoInputLostOrRepeated'
    BY <2>13 DEF Exit, queueVars, NoInputLostOrRepeated
  <2>14. ASSUME NEW t \in Threads, Expire(t) PROVE NoInputLostOrRepeated'
    BY <2>14 DEF Expire, queueVars, NoInputLostOrRepeated
  <2>15. CASE UNCHANGED vars
    BY <2>15 DEF vars, NoInputLostOrRepeated
  <2> QED
    BY <2>1, <2>2, <2>3, <2>4, <2>5, <2>6, <2>7, <2>8, <2>9, <2>10,
       <2>11, <2>12, <2>13, <2>14, <2>15
       DEF Next, WatcherStep, ThreadStep
<1> QED
  BY <1>1, <1>2, TypeCorrect, PTL DEF Spec

-----------------------------------------------------------------------------

\* Between the watcher's test and its pop nothing is entered, and a flag that
\* is set then was set after the test.
PopsBehindTheFlag ==
    pc[Watcher] = "pop" /\ inConversation => begunAt = Len(passed)

\* A thread that takes the front has it as the last of what was taken.
LEMMA TakeIsLast ==
    ASSUME TypeOK, NEW t \in Threads, NEW use \in Uses, Take(t, use)
    PROVE  Len(taken') = Len(taken) + 1 /\ taken'[Len(taken')].use = use
<1> DEFINE record == [input |-> Head(inputQue), thread |-> t, use |-> use]
<1>1. record \in Takes /\ taken \in Seq(Takes) /\ taken' = Append(taken, record)
  BY DEF Take, Takes, TypeOK
<1>2. record.use = use
  OBVIOUS
<1> HIDE DEF record
<1>3. Len(taken') = Len(taken) + 1 /\ taken'[Len(taken')] = record
  BY <1>1
<1> QED
  BY <1>2, <1>3

\* The watcher may take an input from a conversation only if it was waiting
\* before the conversation set its flag: what the user says in a conversation
\* stays in it, for any number of threads and conversations.
THEOREM InputsStayInTheConversation == Spec => ConversationKeepsItsInputs
<1> USE ConversationAssumption DEF ConversationAssumption, Threads
<1>1. Init => PopsBehindTheFlag
  BY DEF Init, PopsBehindTheFlag
<1>2. TypeOK /\ PopsBehindTheFlag /\ [Next]_vars => PopsBehindTheFlag'
  <2> SUFFICES ASSUME TypeOK, PopsBehindTheFlag, [Next]_vars PROVE PopsBehindTheFlag'
    OBVIOUS
  <2> USE DEF PopsBehindTheFlag, queueVars, talkVars, flagVars, Goto
  <2>0. pc \in [Threads -> Places]
    BY DEF TypeOK
  <2>1. CASE \E i \in Inputs : PassInput(i)
    BY <2>1 DEF PassInput, QueueUnlocked, threadVars
  <2>2. CASE RequestStop
    BY <2>2 DEF RequestStop, threadVars
  <2>3. CASE WatchInputQue
    BY <2>0, <2>3 DEF WatchInputQue
  <2>4. CASE WatcherPops
    BY <2>0, <2>4 DEF WatcherPops
  <2>5. CASE \E t \in Readers, i \in Inputs : ReaderCommand(t, i)
    BY <2>0, <2>5 DEF ReaderCommand
  <2>6. ASSUME NEW t \in Threads, PassCommand(t) PROVE PopsBehindTheFlag'
    BY <2>0, <2>6 DEF PassCommand
  <2>7. ASSUME NEW t \in Threads, LockConversation(t) PROVE PopsBehindTheFlag'
    BY <2>0, <2>7 DEF LockConversation
  <2>8. ASSUME NEW t \in Threads, StartConversation(t) PROVE PopsBehindTheFlag'
    BY <2>0, <2>8 DEF StartConversation
  <2>9. ASSUME NEW t \in Threads, PromptCheck(t) PROVE PopsBehindTheFlag'
    BY <2>0, <2>9 DEF PromptCheck
  <2>10. ASSUME NEW t \in Threads, PromptPoll(t) PROVE PopsBehindTheFlag'
    BY <2>0, <2>10 DEF PromptPoll, QueueUnlocked, Take
  <2>11. ASSUME NEW t \in Threads, UnlockConversation(t) PROVE PopsBehindTheFlag'
    BY <2>0, <2>11 DEF UnlockConversation
  <2>12. ASSUME NEW t \in Threads, EndConversation(t) PROVE PopsBehindTheFlag'
    BY <2>0, <2>12 DEF EndConversation
  <2>13. ASSUME NEW t \in Threads, Exit(t) PROVE PopsBehindTheFlag'
    BY <2>0, <2>13 DEF Exit
  <2>14. CASE \E t \in Threads : Expire(t)
    BY <2>14 DEF Expire
  <2>15. CASE UNCHANGED vars
    BY <2>15 DEF vars
  <2> QED
    BY <2>1, <2>2, <2>3, <2>4, <2>5, <2>6, <2>7, <2>8, <2>9, <2>10,
       <2>11, <2>12, <2>13, <2>14, <2>15
       DEF Next, WatcherStep, ThreadStep
<1>3. TypeOK /\ NoInputLostOrRepeated /\ PopsBehindTheFlag /\ [Next]_vars =>
        (taken' # taken /\ inConversation =>
           LET n == Len(taken')
           IN  taken'[n].use = "command" => n <= begunAt)
  <2> SUFFICES ASSUME TypeOK, NoInputLostOrRepeated, PopsBehindTheFlag, [Next]_vars,
                      taken' # taken, inConversation,
                      taken'[Len(taken')].use = "command"
               PROVE  Len(taken') <= begunAt
    OBVIOUS
  <2>1. ASSUME NEW t \in Threads, PromptPoll(t) PROVE FALSE
    <3>1. Take(t, "answer")
      BY <2>1 DEF PromptPoll, queueVars
    <3> QED
      BY <3>1, TakeIsLast DEF Uses
  <2>2. CASE WatcherPops
    <3>1. Take(Watcher, "command")
      BY <2>2 DEF WatcherPops
    <3>2. Len(taken') = Len(taken) + 1
      BY <3>1, TakeIsLast DEF Uses
    <3>3. inputQue \in Seq(Inputs) /\ taken \in Seq(Takes) /\ inputQue # <<>>
      BY <3>1 DEF TypeOK, Take
    <3>4. Len(inputQue) \in Nat /\ Len(inputQue) > 0 /\ Len(taken) \in Nat
      BY <3>3
    <3>5. Len(passed) = Len(taken) + Len(inputQue)
      BY DEF NoInputLostOrRepeated
    <3>6. begunAt = Len(passed)
      BY <2>2 DEF WatcherPops, PopsBehindTheFlag
    <3> QED
      BY <3>2, <3>4, <3>5, <3>6
  <2> QED
    BY <2>1, <2>2
       DEF Next, WatcherStep, ThreadStep, PassInput, RequestStop, WatchInputQue,
           ReaderCommand, PassCommand, LockConversation, StartConversation,
           PromptCheck, UnlockConversation, EndConversation, Exit, Expire,
           queueVars, vars
<1> QED
  BY <1>1, <1>2, <1>3, TypeCorrect, InputsAreTakenOnceInOrder, PTL
     DEF Spec, ConversationKeepsItsInputs

\* The locks, the flag and the polling loops implement what InputRouting
\* promises: every step is one of its steps or changes nothing it speaks of.
THEOREM ConversationImplementsRouting == Spec => ImplementsRouting
<1> USE ConversationAssumption DEF ConversationAssumption
<1>1. Init => Routing!Init
  BY DEF Init, Routing!Init
<1>2. TypeOK /\ OneConversation /\ [Next]_vars => [Routing!Next]_(Routing!vars)
  <2> SUFFICES ASSUME TypeOK, OneConversation, [Next]_vars
               PROVE  [Routing!Next]_(Routing!vars)
    OBVIOUS
  <2> USE DEF Threads, Routing!vars
  <2>0. killed \in BOOLEAN
    BY DEF TypeOK
  <2>1. ASSUME NEW i \in Inputs, PassInput(i) PROVE [Routing!Next]_(Routing!vars)
    BY <2>1 DEF PassInput, talkVars, flagVars, Routing!Next, Routing!Enter
  <2>2. CASE RequestStop
    BY <2>2 DEF RequestStop, queueVars, talkVars, flagVars, Routing!Next, Routing!Close
  <2>3. CASE WatchInputQue
    BY <2>3 DEF WatchInputQue, queueVars, talkVars, flagVars
  <2>4. CASE WatcherPops
    <3>1. Routing!Deliver(Watcher, "command")
      BY <2>4 DEF WatcherPops, Take, talkVars, flagVars, Routing!Deliver
    <3> QED
      BY <3>1 DEF Routing!Next, Routing!Delivery
  <2>5. ASSUME NEW t \in Readers, NEW i \in Inputs, ReaderCommand(t, i) PROVE [Routing!Next]_(Routing!vars)
    BY <2>5 DEF ReaderCommand, queueVars, talkVars, flagVars
  <2>6. ASSUME NEW t \in Threads, PassCommand(t) PROVE [Routing!Next]_(Routing!vars)
    <3>1. CASE killed' = killed
      BY <2>6, <3>1 DEF PassCommand, queueVars, talkVars, flagVars
    <3>2. CASE killed' = TRUE
      BY <2>6, <3>2 DEF PassCommand, queueVars, talkVars, flagVars, Routing!Next, Routing!Close
    <3> QED
      BY <2>6, <3>1, <3>2 DEF PassCommand
  <2>7. ASSUME NEW t \in Threads, LockConversation(t) PROVE [Routing!Next]_(Routing!vars)
    BY <2>7 DEF LockConversation, queueVars, Routing!Next, Routing!TakeFloor
  <2>8. ASSUME NEW t \in Threads, StartConversation(t) PROVE [Routing!Next]_(Routing!vars)
    BY <2>8 DEF StartConversation, queueVars
  <2>9. ASSUME NEW t \in Threads, PromptCheck(t) PROVE [Routing!Next]_(Routing!vars)
    BY <2>9 DEF PromptCheck, queueVars, talkVars, flagVars
  <2>10. ASSUME NEW t \in Threads, PromptPoll(t) PROVE [Routing!Next]_(Routing!vars)
    <3>1. CASE Take(t, "answer")
      <4>1. conversationMutex = t
        BY <2>10 DEF PromptPoll, OneConversation, Talking
      <4>2. Routing!Deliver(t, "answer")
        BY <2>10, <3>1, <4>1 DEF PromptPoll, Take, talkVars, flagVars, Routing!Deliver
      <4> QED
        BY <4>2 DEF Routing!Next, Routing!Delivery
    <3>2. CASE UNCHANGED queueVars
      BY <2>10, <3>2 DEF PromptPoll, queueVars, talkVars, flagVars
    <3> QED
      BY <2>10, <3>1, <3>2 DEF PromptPoll
  <2>11. ASSUME NEW t \in Threads, UnlockConversation(t) PROVE [Routing!Next]_(Routing!vars)
    <3>1. conversationMutex = t
      BY <2>11 DEF UnlockConversation, OneConversation, Talking
    <3> QED
      BY <2>11, <3>1 DEF UnlockConversation, queueVars, Routing!Next, Routing!LeaveFloor
  <2>12. ASSUME NEW t \in Threads, EndConversation(t) PROVE [Routing!Next]_(Routing!vars)
    BY <2>12 DEF EndConversation, queueVars
  <2>13. ASSUME NEW t \in Threads, Exit(t) PROVE [Routing!Next]_(Routing!vars)
    BY <2>13 DEF Exit, queueVars, talkVars, flagVars
  <2>14. ASSUME NEW t \in Threads, Expire(t) PROVE [Routing!Next]_(Routing!vars)
    BY <2>14 DEF Expire, queueVars, talkVars, flagVars
  <2>15. CASE UNCHANGED vars
    BY <2>15 DEF vars
  <2> QED
    BY <2>1, <2>2, <2>3, <2>4, <2>5, <2>6, <2>7, <2>8, <2>9, <2>10,
       <2>11, <2>12, <2>13, <2>14, <2>15
       DEF Next, WatcherStep, ThreadStep
<1> QED
  BY <1>1, <1>2, TypeCorrect, OnlyOneConversation, PTL DEF Spec, ImplementsRouting, Routing!Spec

=============================================================================
