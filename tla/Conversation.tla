---------------------------- MODULE Conversation ----------------------------
(***************************************************************************)
(* Input and conversations of Buckey (src/core/Buckey.cpp and the one mode *)
(* that converses, src/core/EchoMode.cpp).                                 *)
(*                                                                         *)
(* Text that users type, send or speak goes through passInput into         *)
(* inputQue.  The watcher thread takes it out and runs it as a command     *)
(* unless a conversation is on; while one is on, the thread that converses *)
(* polls the same queue for the answer to its prompt.  A reader thread of  *)
(* the UNIX socket also runs commands itself, when a line starts with ':'. *)
(*                                                                         *)
(* One action is one access to shared state: taking or releasing           *)
(* conversationMutex, storing to inConversation, a pass of a polling loop. *)
(* inputQueMutex is held across two steps only by the watcher, between its *)
(* test of inConversation and its pop; the other critical sections under   *)
(* it are single actions.                                                  *)
(***************************************************************************)
EXTENDS Naturals, Sequences

CONSTANTS Watcher,        \* the inputWatcher thread
          Readers,        \* the threads that run passCommand themselves
          NoThread,       \* owner of a free mutex
          Inputs,         \* texts users enter
          Conversational, \* the texts a mode answers with a conversation
          QuitCommands,   \* the texts on which CoreMode requests the stop
          Confirm,        \* the one text a prompt takes for a yes
          MaxInputs,      \* bound: calls of passInput
          MaxCalls        \* bound: commands the readers run themselves

Threads == {Watcher} \cup Readers

ASSUME ConversationAssumption ==
    /\ Watcher \notin Readers
    /\ NoThread \notin Threads
    /\ Conversational \subseteq Inputs
    /\ QuitCommands \subseteq Inputs
    /\ Conversational \cap QuitCommands = {}
    /\ Confirm \in Inputs
    /\ MaxInputs \in Nat
    /\ MaxCalls \in Nat

VARIABLES inputQue,          \* the inputs waiting
          inConversation,    \* the atomic flag isInConversation() returns
          conversationMutex, \* its owner
          killed,            \* requestStop() was called
          pc,                \* where each thread is
          command,           \* the command each thread is running
          expired,           \* the threads whose prompt is past its deadline
          outcome,           \* what the prompt of each thread returned
          calls,             \* commands the readers ran so far
          passed,            \* history: the inputs passInput accepted
          taken,             \* history: the inputs that left the queue
          begunAt            \* history: Len(passed) when the flag was set last

queueVars == <<inputQue, passed, taken>>
flagVars  == <<inConversation, begunAt>>
talkVars  == <<flagVars, conversationMutex>>
threadVars == <<pc, command, expired, outcome>>
vars == <<inputQue, inConversation, conversationMutex, killed, pc, command,
          expired, outcome, calls, passed, taken, begunAt>>

-----------------------------------------------------------------------------

Uses     == {"command", "answer"}
Takes    == [input : Inputs, thread : Threads, use : Uses]
Outcomes == {"none", "confirmed", "denied", "timedOut"}

\* Where a thread may be: at the top of its loop, holding inputQueMutex to
\* pop, with a command to match, waiting for the conversation, in it with the
\* flag not set yet, at the two points of the prompt's loop, at the unlock,
\* between the unlock and the clearing of the flag, and gone.
Places == {"idle", "pop", "match", "start", "flag", "check", "poll", "end",
           "clear", "exited"}

\* The part of the code a thread runs with conversationMutex locked.
Talking   == {"flag", "check", "poll", "end"}
Prompting == {"check", "poll"}

Goto(t, place) == pc' = [pc EXCEPT ![t] = place]

\* Wrong on purpose, like every definition called Bad...: others use the queue
\* between the watcher's test and its pop.
BadQueueUnlocked == TRUE

QueueUnlocked == pc[Watcher] # "pop"

\* Wrong: the front is read and not popped.
BadTake(t, use) ==
    /\ inputQue # <<>>
    /\ taken' = Append(taken, [input |-> Head(inputQue), thread |-> t, use |-> use])
    /\ UNCHANGED <<inputQue, passed>>

\* The front of the queue leaves it, for thread t and the given use.
Take(t, use) ==
    /\ inputQue # <<>>
    /\ inputQue' = Tail(inputQue)
    /\ taken' = Append(taken, [input |-> Head(inputQue), thread |-> t, use |-> use])
    /\ UNCHANGED passed

Init ==
    /\ inputQue = <<>>
    /\ inConversation = FALSE
    /\ conversationMutex = NoThread
    /\ killed = FALSE
    /\ pc = [t \in Threads |-> "idle"]
    /\ command = [t \in Threads |-> Confirm]
    /\ expired = {}
    /\ outcome = [t \in Threads |-> "none"]
    /\ calls = 0
    /\ passed = <<>>
    /\ taken = <<>>
    /\ begunAt = 0

-----------------------------------------------------------------------------
(* Input                                                                   *)

\* Any front end (console, socket, speech) adds an input to the queue.
PassInput(i) ==
    /\ Len(passed) < MaxInputs
    /\ QueueUnlocked
    /\ inputQue' = Append(inputQue, i)
    /\ passed' = Append(passed, i)
    /\ UNCHANGED <<talkVars, killed, threadVars, calls, taken>>

\* The stop may be requested by a signal at any time.
RequestStop ==
    /\ ~killed
    /\ killed' = TRUE
    /\ UNCHANGED <<queueVars, talkVars, threadVars, calls>>

\* Wrong: tests for more than one input.
BadWatchInputQue ==
    /\ pc[Watcher] = "idle"
    /\ ~killed
    /\ Len(inputQue) > 1
    /\ ~inConversation
    /\ Goto(Watcher, "pop")
    /\ UNCHANGED <<queueVars, talkVars, killed, command, expired, outcome, calls>>

\* The watcher finds an input and no conversation.  It still holds
\* inputQueMutex when it pops, but nothing holds the flag.
WatchInputQue ==
    /\ pc[Watcher] = "idle"
    /\ ~killed
    /\ inputQue # <<>>
    /\ ~inConversation
    /\ Goto(Watcher, "pop")
    /\ UNCHANGED <<queueVars, talkVars, killed, command, expired, outcome, calls>>

WatcherPops ==
    /\ pc[Watcher] = "pop"
    /\ Take(Watcher, "command")
    /\ command' = [command EXCEPT ![Watcher] = Head(inputQue)]
    /\ Goto(Watcher, "match")
    /\ UNCHANGED <<talkVars, killed, expired, outcome, calls>>

\* Wrong: the reader goes for the queue.
BadReaderCommand(t, i) ==
    /\ pc[t] = "idle"
    /\ calls < MaxCalls
    /\ calls' = calls + 1
    /\ command' = [command EXCEPT ![t] = i]
    /\ Goto(t, "pop")
    /\ UNCHANGED <<queueVars, talkVars, killed, expired, outcome>>

\* A line that starts with ':' is run by the reader, not queued.  The loop over
\* the lines of a received buffer does not test killed, so it may be run after
\* a stop.
ReaderCommand(t, i) ==
    /\ pc[t] = "idle"
    /\ calls < MaxCalls
    /\ calls' = calls + 1
    /\ command' = [command EXCEPT ![t] = i]
    /\ Goto(t, "match")
    /\ UNCHANGED <<queueVars, talkVars, killed, expired, outcome>>

\* passCommand gives the command to the mode whose grammar matches it.  The
\* third case is a command that matches nothing, or the grammar of a mode
\* that is not started.
PassCommand(t) ==
    /\ pc[t] = "match"
    /\ \/ /\ command[t] \in Conversational
          /\ Goto(t, "start")
          /\ UNCHANGED killed
       \/ /\ command[t] \in QuitCommands
          /\ Goto(t, "idle")
          /\ killed' = TRUE
       \/ /\ Goto(t, "idle")
          /\ UNCHANGED killed
    /\ UNCHANGED <<queueVars, talkVars, command, expired, outcome, calls>>

\* The loop of the watcher tests killed at its top, the reader's before it
\* receives the next buffer.
Exit(t) ==
    /\ pc[t] = "idle"
    /\ killed
    /\ Goto(t, "exited")
    /\ UNCHANGED <<queueVars, talkVars, killed, command, expired, outcome, calls>>

-----------------------------------------------------------------------------
(* A conversation                                                          *)

\* Wrong: does not wait for the mutex.
BadLockConversation(t) ==
    /\ pc[t] = "start"
    /\ conversationMutex' = t
    /\ Goto(t, "flag")
    /\ UNCHANGED <<queueVars, flagVars, killed, command, expired, outcome, calls>>

LockConversation(t) ==
    /\ pc[t] = "start"
    /\ conversationMutex = NoThread
    /\ conversationMutex' = t
    /\ Goto(t, "flag")
    /\ UNCHANGED <<queueVars, flagVars, killed, command, expired, outcome, calls>>

StartConversation(t) ==
    /\ pc[t] = "flag"
    /\ inConversation' = TRUE
    /\ begunAt' = Len(passed)
    /\ Goto(t, "check")
    /\ UNCHANGED <<queueVars, conversationMutex, killed, command, expired, outcome, calls>>

\* The clock passes the deadline of the prompt of t.
Expire(t) ==
    /\ pc[t] \in Prompting
    /\ t \notin expired
    /\ expired' = expired \cup {t}
    /\ UNCHANGED <<queueVars, talkVars, killed, pc, command, outcome, calls>>

\* One test of the loop of promptConfirmation.  A prompt that a stop cuts
\* short returns the answer "not confirmed", not a timeout.
PromptCheck(t) ==
    /\ pc[t] = "check"
    /\ \/ /\ killed
          /\ outcome' = [outcome EXCEPT ![t] = "denied"]
          /\ Goto(t, "end")
       \/ /\ ~killed
          /\ t \in expired
          /\ outcome' = [outcome EXCEPT ![t] = "timedOut"]
          /\ Goto(t, "end")
       \/ /\ ~killed
          /\ t \notin expired
          /\ Goto(t, "poll")
          /\ UNCHANGED outcome
    /\ UNCHANGED <<queueVars, talkVars, killed, command, expired, calls>>

\* Wrong: reads the front after the pop.
BadPromptPoll(t) ==
    /\ pc[t] = "poll"
    /\ QueueUnlocked
    /\ Take(t, "answer")
    /\ outcome' = [outcome EXCEPT ![t] =
          IF Len(inputQue) > 1 /\ inputQue[2] = Confirm THEN "confirmed" ELSE "denied"]
    /\ Goto(t, "end")
    /\ UNCHANGED <<talkVars, killed, command, expired, calls>>

PromptPoll(t) ==
    /\ pc[t] = "poll"
    /\ QueueUnlocked
    /\ \/ /\ Take(t, "answer")
          /\ outcome' = [outcome EXCEPT
                ![t] = IF Head(inputQue) = Confirm THEN "confirmed" ELSE "denied"]
          /\ Goto(t, "end")
       \/ /\ inputQue = <<>>
          /\ Goto(t, "check")
          /\ UNCHANGED <<queueVars, outcome>>
    /\ UNCHANGED <<talkVars, killed, command, expired, calls>>

\* Wrong: the mutex stays locked.
BadUnlockConversation(t) ==
    /\ pc[t] = "end"
    /\ Goto(t, "clear")
    /\ UNCHANGED <<queueVars, talkVars, killed, command, expired, outcome, calls>>

\* endConversation unlocks first ...
UnlockConversation(t) ==
    /\ pc[t] = "end"
    /\ conversationMutex' = NoThread
    /\ Goto(t, "clear")
    /\ UNCHANGED <<queueVars, flagVars, killed, command, expired, outcome, calls>>

\* Wrong: the flag stays set.
BadEndConversation(t) ==
    /\ pc[t] = "clear"
    /\ expired' = expired \ {t}
    /\ outcome' = [outcome EXCEPT ![t] = "none"]
    /\ Goto(t, "idle")
    /\ UNCHANGED <<queueVars, talkVars, killed, command, calls>>

\* ... and clears the flag after that, whoever converses by then.
EndConversation(t) ==
    /\ pc[t] = "clear"
    /\ inConversation' = FALSE
    /\ expired' = expired \ {t}
    /\ outcome' = [outcome EXCEPT ![t] = "none"]
    /\ Goto(t, "idle")
    /\ UNCHANGED <<queueVars, begunAt, conversationMutex, killed, command, calls>>

-----------------------------------------------------------------------------

ThreadStep(t) ==
    \/ PassCommand(t)
    \/ LockConversation(t)
    \/ StartConversation(t)
    \/ PromptCheck(t)
    \/ PromptPoll(t)
    \/ UnlockConversation(t)
    \/ EndConversation(t)
    \/ Exit(t)

WatcherStep == WatchInputQue \/ WatcherPops

Next ==
    \/ \E i \in Inputs : PassInput(i)
    \/ RequestStop
    \/ WatcherStep
    \/ \E t \in Readers, i \in Inputs : ReaderCommand(t, i)
    \/ \E t \in Threads : ThreadStep(t)
    \/ \E t \in Threads : Expire(t)

Spec == Init /\ [][Next]_vars

\* Threads are scheduled and clocks advance; users need not do anything.
Fairness ==
    /\ WF_vars(WatcherStep)
    /\ \A t \in Threads : WF_vars(ThreadStep(t)) /\ WF_vars(Expire(t))

FairSpec == Spec /\ Fairness

-----------------------------------------------------------------------------
(* Properties                                                              *)

TypeOK ==
    /\ inputQue \in Seq(Inputs)
    /\ inConversation \in BOOLEAN
    /\ conversationMutex \in Threads \cup {NoThread}
    /\ killed \in BOOLEAN
    /\ pc \in [Threads -> Places]
    /\ \A t \in Readers : pc[t] # "pop"
    /\ command \in [Threads -> Inputs]
    /\ expired \in SUBSET Threads
    /\ outcome \in [Threads -> Outcomes]
    /\ calls \in Nat
    /\ passed \in Seq(Inputs)
    /\ taken \in Seq(Takes)
    /\ begunAt \in Nat

\* Every input passInput accepted is taken from the queue once, in the order
\* of acceptance, whether the watcher or a prompt takes it.
NoInputLostOrRepeated ==
    /\ Len(passed) = Len(taken) + Len(inputQue)
    /\ \A n \in 1 .. Len(taken) : taken[n].input = passed[n]
    /\ \A n \in 1 .. Len(inputQue) : inputQue[n] = passed[Len(taken) + n]

\* One conversation at a time: the thread in startConversation ..
\* endConversation is the one that owns the mutex.
OneConversation ==
    \A t \in Threads : pc[t] \in Talking <=> conversationMutex = t

\* The flag never stays set behind the last conversation, however
\* startConversation and endConversation of several threads interleave: a set
\* flag has a thread on its way to clear it.
FlagHasItsClearer ==
    inConversation => \E t \in Threads : pc[t] \in {"check", "poll", "end", "clear"}

\* The last answer that was taken is i, and it was t that took it.
Answered(t, i) ==
    \E n \in 1 .. Len(taken) :
        /\ taken[n] = [input |-> i, thread |-> t, use |-> "answer"]
        /\ \A m \in n + 1 .. Len(taken) : taken[m].use = "command"

\* What a mode tells the user after a prompt has its cause in that prompt: a
\* yes is the confirming text, and this thread took it; a no is another text
\* it took, or the stop; a timeout is a passed deadline.
OutcomeHasACause ==
    \A t \in Threads : pc[t] = "end" =>
        \/ outcome[t] = "confirmed" /\ Answered(t, Confirm)
        \/ outcome[t] = "denied" /\ (killed \/ \E i \in Inputs \ {Confirm} : Answered(t, i))
        \/ outcome[t] = "timedOut" /\ t \in expired

\* What is entered after a conversation set its flag is never run as a command
\* while the flag is set.  The watcher tests the flag and pops later, so it may
\* take an input from a conversation that began in between; but it holds
\* inputQueMutex all along, so this input waited before the conversation began.
ConversationKeepsItsInputs ==
    [][taken' # taken /\ inConversation =>
          LET n == Len(taken')
          IN  taken'[n].use = "command" => n <= begunAt]_vars

\* A stop makes the watcher and the readers leave their loops, also the one
\* in a prompt and the one waiting for its turn to converse: the joins of
\* ~Buckey return.
StopEndsTheThreads ==
    killed ~> \A t \in Threads : pc[t] = "exited"

\* Inputs wait in inputQue, the owner of the mutex has the floor, what left
\* the queue is delivered, and Buckey is open until the stop.
Routing == INSTANCE InputRouting WITH
    waiting   <- inputQue,
    floor     <- conversationMutex,
    delivered <- taken,
    open      <- ~killed

\* The locks, the flag and the polling loops implement InputRouting.
ImplementsRouting == Routing!Spec

\* They also deliver each waiting input while Buckey is open.
ImplementsFairRouting == Routing!FairSpec

=============================================================================
