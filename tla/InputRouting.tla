---------------------------- MODULE InputRouting ----------------------------
(***************************************************************************)
(* What input and conversations promise, without threads' positions, flags *)
(* and polling (the detailed specification is Conversation.tla): inputs    *)
(* wait in one line; the floor belongs to one thread at a time; each input *)
(* goes, in order and once, to the thread that has the floor as an answer  *)
(* or to the watcher as a command; and while the assistant is open a       *)
(* waiting input does not wait forever.                                    *)
(***************************************************************************)
EXTENDS Naturals, Sequences

CONSTANTS Watcher, Threads, NoThread, Inputs

VARIABLES waiting,   \* the inputs not delivered yet
          floor,     \* the thread that converses, or NoThread
          delivered, \* each delivery: the input, to whom, as what
          open       \* no stop was requested

vars == <<waiting, floor, delivered, open>>

Init ==
    /\ waiting = <<>>
    /\ floor = NoThread
    /\ delivered = <<>>
    /\ open = TRUE

Enter ==
    /\ \E i \in Inputs : waiting' = Append(waiting, i)
    /\ UNCHANGED <<floor, delivered, open>>

Deliver(t, use) ==
    /\ waiting # <<>>
    /\ use = "answer" => floor = t
    /\ use = "command" => t = Watcher
    /\ delivered' =
          Append(delivered, [input |-> Head(waiting), thread |-> t, use |-> use])
    /\ waiting' = Tail(waiting)
    /\ UNCHANGED <<floor, open>>

Delivery == \E t \in Threads, use \in {"command", "answer"} : Deliver(t, use)

TakeFloor(t) ==
    /\ floor = NoThread
    /\ floor' = t
    /\ UNCHANGED <<waiting, delivered, open>>

LeaveFloor(t) ==
    /\ floor = t
    /\ floor' = NoThread
    /\ UNCHANGED <<waiting, delivered, open>>

Close ==
    /\ open' = FALSE
    /\ UNCHANGED <<waiting, floor, delivered>>

Next ==
    \/ Enter
    \/ Delivery
    \/ \E t \in Threads : TakeFloor(t) \/ LeaveFloor(t)
    \/ Close

Spec == Init /\ [][Next]_vars

FairSpec == Spec /\ WF_vars(open /\ Delivery)

=============================================================================
