---------------------------- MODULE EventSource -----------------------------
(***************************************************************************)
(* Event handling (src/core/EventSource.cpp): the base class of Buckey and *)
(* of the speech services.                                                 *)
(*                                                                         *)
(* triggerEvents starts one thread per listener of the event; a manager    *)
(* thread joins those that stored to their done flag; killThreads, called  *)
(* by the destructor, joins the manager and the rest.  All of them work    *)
(* under threadManipulationLock, but triggerEvents tests requestJoin       *)
(* before it locks, and addListener holds another mutex, idLock.           *)
(*                                                                         *)
(* One action is one lock, one critical section with its unlock, or one    *)
(* store that threads can see.  A thread waiting for a lock has a place of *)
(* its own, since that is where the order of events is decided.            *)
(***************************************************************************)
EXTENDS Integers, Sequences, FiniteSets

CONSTANTS Callers,     \* threads that trigger events and change listeners
          Owner,       \* the one that destroys the object
          Manager,     \* the manager thread
          NoThread,    \* owner of a free lock
          Types,       \* event types
          InnerType,   \* the type that handlers of kind "nested" trigger
          Kinds,       \* kinds of handlers: a subset of AllKinds
          IdRange,     \* 2^w for the unsigned listener ids of w bits
          MaxAdds,     \* bound: calls of addListener
          MaxCalls,    \* bound: calls of triggerEvents
          Kills        \* whether the object is destroyed

\* A handler stores to its done flag and returns; or returns without it; or
\* triggers an event of its own source before it stores.
AllKinds == {"short", "silent", "nested"}

\* One thread per call and listener: the bounds leave room for all.
HandlerThreads == 1 .. MaxAdds * MaxCalls
Threads == Callers \cup HandlerThreads
Ids     == 0 .. IdRange - 1
AllIds  == -1  \* what clearListeners erases, next to an id

ASSUME EventSourceAssumption ==
    /\ Owner \in Callers
    /\ Manager \notin Threads
    /\ NoThread \notin Threads \cup {Manager}
    /\ Callers \cap HandlerThreads = {}
    /\ InnerType \in Types
    /\ Kinds \subseteq AllKinds
    /\ IdRange \in Nat \ {0}
    /\ MaxAdds \in 0 .. IdRange
    /\ MaxCalls \in Nat
    /\ Kills \in BOOLEAN

VARIABLES handlers,    \* the listeners of each type, in order
          nextID,      \* the next listener id
          lock,        \* the owner of threadManipulationLock
          requestJoin, \* no events any more
          threads,     \* the handler threads in the vector
          done,        \* the handler threads whose done flag is set
          pc,          \* where each thread is
          request,     \* the event it triggers or the listeners it erases
          torn,        \* the addListeners that overtook each holder of the lock
          born,        \* history: the handler threads started so far
          adds,        \* history: calls of addListener
          calls,       \* history: calls of triggerEvents that went past its test
          late,        \* history: the calls that were past it when requestJoin was set
          erased,      \* history: the ids unset or cleared
          raced        \* history: the ids in a list that was added to while it was erased from

listVars   == <<handlers, nextID, adds, erased, raced>>
threadVars == <<threads, done, born>>
killVars   == <<requestJoin, late>>
vars == <<handlers, nextID, lock, requestJoin, threads, done, pc, request,
          torn, born, adds, calls, late, erased, raced>>

-----------------------------------------------------------------------------

Listeners == [id : Ids, kind : AllKinds]

\* call numbers the calls of triggerEvents; known is what was registered at
\* the call.
Requests == [type : Types, call : 0 .. MaxCalls, known : SUBSET Ids, id : Ids \cup {AllIds}]
NoRequest == [type |-> InnerType, call |-> 0, known |-> {}, id |-> AllIds]
Births   == [id : Ids, kind : AllKinds, call : 1 .. MaxCalls]

Waiting  == {"lockSpawn", "lockErase", "lockKill", "lockReap"}
Holding  == {"spawn", "erase", "joinManager", "joinThreads", "reap"}

CallerPlaces  == {"idle", "lockSpawn", "spawn", "lockErase", "erase", "lockKill",
                  "joinManager", "joinThreads", "closed", "dead"}
HandlerPlaces == {"unborn", "run", "lockSpawn", "spawn", "flagged", "ended", "dead"}
ManagerPlaces == {"idle", "lockReap", "reap", "ended", "dead"}

IdsOf(list) == {list[k].id : k \in DOMAIN list}
Matching(type, id) == {i \in IdsOf(handlers[type]) : id \in {AllIds, i}}
Registered  == UNION {IdsOf(handlers[type]) : type \in Types}
Born        == DOMAIN born
Crashed     == pc[Manager] = "dead"
Closed      == pc[Owner] = "closed"

\* What addListener did to a thread inside threadManipulationLock: push_backs
\* onto the list it works on, and a new type in the map it has to look up.
Tears  == [pushed : Nat, moved : BOOLEAN]
NoTear == [pushed |-> 0, moved |-> FALSE]

\* Wrong on purpose, like every definition called Bad...: a handler that
\* triggered an event comes back as a caller.
BadHome(t) == "idle"

\* Where a thread goes when a call of the event source returns.
Home(t) == IF t \in Callers THEN "idle" ELSE "run"

Goto(t, place) == pc' = [pc EXCEPT ![t] = place]

Acquire(t, place) ==
    /\ lock = NoThread
    /\ lock' = t
    /\ Goto(t, place)

Release(t, place) ==
    /\ lock' = NoThread
    /\ Goto(t, place)

\* The constructor has started the manager.  It leaves nextID uninitialised.
Init ==
    /\ handlers = [type \in Types |-> <<>>]
    /\ nextID \in Ids
    /\ lock = NoThread
    /\ requestJoin = FALSE
    /\ threads = {}
    /\ done = {}
    /\ pc = [t \in Threads \cup {Manager} |->
                IF t \in HandlerThreads THEN "unborn" ELSE "idle"]
    /\ request = [t \in Threads |-> NoRequest]
    /\ torn = [t \in Threads |-> NoTear]
    /\ born = <<>>
    /\ adds = 0
    /\ calls = 0
    /\ late = {}
    /\ erased = {}
    /\ raced = {}

-----------------------------------------------------------------------------
(* Listeners                                                               *)

\* A listener of the type or of another one is added while u holds the lock.
Torn(u, type) ==
    IF pc[u] \notin {"spawn", "erase"} THEN torn[u]
    ELSE IF request[u].type = type THEN [torn[u] EXCEPT !.pushed = @ + 1]
    ELSE [torn[u] EXCEPT !.moved = @ \/ handlers[type] = <<>>]

\* Another thread takes its type out of the map in which this one is inserted.
InsertionRaces(type) ==
    /\ handlers[type] = <<>>
    /\ \E u \in Threads : pc[u] = "erase" /\ request[u].id = AllIds /\ request[u].type # type

\* Wrong: the counter is not incremented.
BadAddListener(t, type, kind) ==
    /\ pc[t] = "idle"
    /\ adds < MaxAdds
    /\ adds' = adds + 1
    /\ handlers' = [handlers EXCEPT ![type] = Append(@, [id |-> nextID, kind |-> kind])]
    /\ torn' = [u \in Threads |-> Torn(u, type)]
    /\ UNCHANGED <<nextID, lock, killVars, threadVars, pc, request, calls, erased, raced>>

\* addListener holds idLock only: it pushes onto the vector, or inserts into
\* the map, that a holder of the other lock may be working on.  An insertion
\* that races with the erasing of another type may be lost.
AddListener(t, type, kind) ==
    /\ pc[t] = "idle"
    /\ adds < MaxAdds
    /\ adds' = adds + 1
    /\ \/ /\ handlers' = [handlers EXCEPT ![type] = Append(@, [id |-> nextID, kind |-> kind])]
          /\ UNCHANGED raced
       \/ /\ InsertionRaces(type)
          /\ raced' = raced \cup {nextID}
          /\ UNCHANGED handlers
    /\ nextID' = (nextID + 1) % IdRange
    /\ torn' = [u \in Threads |-> Torn(u, type)]
    /\ UNCHANGED <<lock, killVars, threadVars, pc, request, calls, erased>>

\* unsetListener, or clearListeners with AllIds.
CallErase(t, type, id) ==
    /\ pc[t] = "idle"
    /\ request' = [request EXCEPT ![t].type = type, ![t].id = id]
    /\ Goto(t, "lockErase")
    /\ UNCHANGED <<listVars, lock, killVars, threadVars, torn, calls>>

LockErase(t) ==
    /\ pc[t] = "lockErase"
    /\ Acquire(t, "erase")
    /\ UNCHANGED <<listVars, killVars, threadVars, request, torn, calls>>

\* The lists t may find: without the listeners pushed meanwhile if it works on
\* the old memory of the vector, and none if the map was rehashed meanwhile.
Seen(t) ==
    LET list == handlers[request[t].type]
    IN  {SubSeq(list, 1, Len(list) - missed) : missed \in 0 .. torn[t].pushed}
        \cup {empty \in {<<>>} : torn[t].moved}

\* What is left of a list when the first listener with the id is erased, or all.
Left(list, id) ==
    IF id = AllIds THEN {<<>>}
    ELSE IF id \notin IdsOf(list) THEN {list}
    ELSE {SubSeq(list, 1, k - 1) \o SubSeq(list, k + 1, Len(list)) :
              k \in {k \in DOMAIN list :
                        list[k].id = id /\ \A j \in 1 .. k - 1 : list[j].id # id}}

\* Wrong: erases from a copy of the vector.
BadErase(t) ==
    /\ pc[t] = "erase"
    /\ Release(t, "idle")
    /\ erased' = erased \cup Matching(request[t].type, request[t].id)
    /\ torn' = [torn EXCEPT ![t] = NoTear]
    /\ request' = [request EXCEPT ![t] = NoRequest]
    /\ UNCHANGED <<handlers, nextID, adds, raced, killVars, threadVars, calls>>

\* If an addListener overtook it, what it erased or what was added may be lost.
Erase(t) ==
    LET type == request[t].type
        id   == request[t].id
        list == handlers[type]
    IN  /\ pc[t] = "erase"
        /\ Release(t, "idle")
        /\ \/ \E seen \in Seen(t) : \E left \in Left(seen, id) :
                 handlers' = [handlers EXCEPT ![type] = left]
           \/ torn[t] # NoTear /\ UNCHANGED handlers
        /\ erased' = erased \cup Matching(type, id)
        /\ raced' = raced \cup {i \in IdsOf(list) : torn[t] # NoTear}
        /\ torn' = [torn EXCEPT ![t] = NoTear]
        /\ request' = [request EXCEPT ![t] = NoRequest]
        /\ UNCHANGED <<nextID, adds, killVars, threadVars, calls>>

-----------------------------------------------------------------------------
(* Events                                                                  *)

\* Wrong: does not test requestJoin.
BadTriggerEvents(t, type) ==
    /\ pc[t] = "idle"
    /\ calls < MaxCalls
    /\ calls' = calls + 1
    /\ request' = [request EXCEPT ![t] =
          [type |-> type, call |-> calls + 1, known |-> IdsOf(handlers[type]), id |-> AllIds]]
    /\ Goto(t, "lockSpawn")
    /\ UNCHANGED <<listVars, lock, killVars, threadVars, torn>>

\* The first line of triggerEvents: the test of requestJoin, without the lock.
TriggerEvents(t, type) ==
    /\ \/ pc[t] = "idle"
       \/ /\ pc[t] = "run"
          /\ born[t].kind = "nested"
          /\ type = InnerType
    /\ ~requestJoin
    /\ calls < MaxCalls
    /\ calls' = calls + 1
    /\ request' = [request EXCEPT ![t] =
          [type |-> type, call |-> calls + 1, known |-> IdsOf(handlers[type]), id |-> AllIds]]
    /\ Goto(t, "lockSpawn")
    /\ UNCHANGED <<listVars, lock, killVars, threadVars, torn>>

LockSpawn(t) ==
    /\ pc[t] = "lockSpawn"
    /\ Acquire(t, "spawn")
    /\ UNCHANGED <<listVars, killVars, threadVars, request, torn, calls>>

\* One thread for each listener on the list.  Once the destructor is through,
\* the vector they are put into is gone.
StartThreads(t, list) ==
    LET first == Len(born) + 1
        last  == Len(born) + Len(list)
        birth(n) == [id   |-> list[n - Len(born)].id,
                     kind |-> list[n - Len(born)].kind,
                     call |-> request[t].call]
    IN  /\ first .. last \subseteq HandlerThreads
        /\ born' = [n \in 1 .. last |-> IF n < first THEN born[n] ELSE birth(n)]
        /\ threads' = IF Closed THEN threads ELSE threads \cup (first .. last)
        /\ pc' = [u \in DOMAIN pc |->
                     IF u = t THEN Home(t)
                     ELSE IF u \in first .. last THEN "run" ELSE pc[u]]

\* Wrong: stops one listener early.
BadSpawn(t) ==
    /\ pc[t] = "spawn"
    /\ LET list == handlers[request[t].type]
       IN  StartThreads(t, SubSeq(list, 1, Len(list) - 1))
    /\ lock' = NoThread
    /\ torn' = [torn EXCEPT ![t] = NoTear]
    /\ request' = [request EXCEPT ![t] = NoRequest]
    /\ UNCHANGED <<listVars, killVars, done, calls>>

\* The loop over the listeners.
Spawn(t) ==
    /\ pc[t] = "spawn"
    /\ \E list \in Seen(t) : StartThreads(t, list)
    /\ lock' = NoThread
    /\ torn' = [torn EXCEPT ![t] = NoTear]
    /\ request' = [request EXCEPT ![t] = NoRequest]
    /\ UNCHANGED <<listVars, killVars, done, calls>>

\* The vector or the map was moved under t, or the object is destroyed, and the
\* process dies.
Crash(t) ==
    /\ pc[t] \in {"spawn", "erase"}
    /\ torn[t] # NoTear \/ Closed
    /\ pc' = [u \in DOMAIN pc |-> "dead"]
    /\ lock' = NoThread
    /\ UNCHANGED <<listVars, killVars, threadVars, request, torn, calls>>

\* A handler stores to its done flag; it has still to return.
SetDone(n) ==
    /\ pc[n] = "run"
    /\ born[n].kind # "silent"
    /\ done' = done \cup {n}
    /\ Goto(n, "flagged")
    /\ UNCHANGED <<listVars, lock, killVars, threads, born, request, torn, calls>>

Return(n) ==
    /\ \/ pc[n] = "flagged"
       \/ pc[n] = "run" /\ born[n].kind = "silent"
    /\ Goto(n, "ended")
    /\ UNCHANGED <<listVars, lock, killVars, threadVars, request, torn, calls>>

-----------------------------------------------------------------------------
(* The manager thread                                                      *)

ManagerTest ==
    /\ pc[Manager] = "idle"
    /\ Goto(Manager, IF requestJoin THEN "ended" ELSE "lockReap")
    /\ UNCHANGED <<listVars, lock, killVars, threadVars, request, torn, calls>>

ManagerLock ==
    /\ pc[Manager] = "lockReap"
    /\ Acquire(Manager, "reap")
    /\ UNCHANGED <<listVars, killVars, threadVars, request, torn, calls>>

\* Wrong: reaps the handlers whose flag is not set.
BadReapUndone(n) ==
    /\ pc[Manager] = "reap"
    /\ n \in threads \ done
    /\ pc[n] = "ended"
    /\ threads' = threads \ {n}
    /\ UNCHANGED <<listVars, lock, killVars, done, pc, request, torn, born, calls>>

\* The manager joins a handler whose flag is set, waiting for its return with
\* the lock held, and takes it out of the vector.
Reap(n) ==
    /\ pc[Manager] = "reap"
    /\ n \in threads \cap done
    /\ pc[n] = "ended"
    /\ threads' = threads \ {n}
    /\ UNCHANGED <<listVars, lock, killVars, done, pc, request, torn, born, calls>>

\* Wrong: keeps the lock.
BadManagerUnlock ==
    /\ pc[Manager] = "reap"
    /\ threads \cap done = {}
    /\ Goto(Manager, "idle")
    /\ UNCHANGED <<listVars, lock, killVars, threadVars, request, torn, calls>>

ManagerUnlock ==
    /\ pc[Manager] = "reap"
    /\ threads \cap done = {}
    /\ Release(Manager, "idle")
    /\ UNCHANGED <<listVars, killVars, threadVars, request, torn, calls>>

-----------------------------------------------------------------------------
(* killThreads                                                             *)

KillThreads ==
    /\ Kills
    /\ pc[Owner] = "idle"
    /\ requestJoin' = TRUE
    /\ late' = {request[t].call : t \in {u \in Threads : pc[u] \in {"lockSpawn", "spawn"}}}
    /\ Goto(Owner, "lockKill")
    /\ UNCHANGED <<listVars, lock, threadVars, request, torn, calls>>

KillLock ==
    /\ pc[Owner] = "lockKill"
    /\ Acquire(Owner, "joinManager")
    /\ UNCHANGED <<listVars, killVars, threadVars, request, torn, calls>>

JoinManager ==
    /\ pc[Owner] = "joinManager"
    /\ pc[Manager] = "ended"
    /\ Goto(Owner, "joinThreads")
    /\ UNCHANGED <<listVars, lock, killVars, threadVars, request, torn, calls>>

\* The joins of all threads in the vector, the clear and the unlock.
JoinThreads ==
    /\ pc[Owner] = "joinThreads"
    /\ \A n \in threads : pc[n] = "ended"
    /\ threads' = {}
    /\ Release(Owner, "closed")
    /\ UNCHANGED <<listVars, killVars, done, request, torn, born, calls>>

-----------------------------------------------------------------------------

ManagerStep == ManagerTest \/ ManagerUnlock \/ \E n \in HandlerThreads : Reap(n)
KillStep    == JoinManager \/ JoinThreads
HandlerStep(n) == SetDone(n) \/ Return(n)
LockStep(t) == LockErase(t) \/ LockSpawn(t)
CallStep(t) == Erase(t) \/ Spawn(t)

Next ==
    \/ \E t \in Callers, type \in Types, kind \in Kinds :
          (kind = "nested" => type # InnerType) /\ AddListener(t, type, kind)
    \/ \E t \in Callers, type \in Types :
          \E id \in IdsOf(handlers[type]) \cup {AllIds} : CallErase(t, type, id)
    \/ \E t \in Threads, type \in Types : TriggerEvents(t, type)
    \/ \E t \in Threads : LockStep(t) \/ CallStep(t) \/ Crash(t)
    \/ \E n \in HandlerThreads : HandlerStep(n)
    \/ ManagerStep
    \/ ManagerLock
    \/ KillThreads
    \/ KillLock
    \/ KillStep

Spec == Init /\ [][Next]_vars

\* Threads are scheduled.  A thread that waits for the lock gets it at some
\* release: the manager sleeps a millisecond between its passes.
Fairness ==
    /\ \A t \in Threads : WF_vars(CallStep(t)) /\ SF_vars(LockStep(t))
    /\ \A n \in HandlerThreads : WF_vars(HandlerStep(n))
    /\ WF_vars(ManagerStep)
    /\ SF_vars(ManagerLock)
    /\ SF_vars(KillLock)
    /\ WF_vars(KillStep)

FairSpec == Spec /\ Fairness

-----------------------------------------------------------------------------
(* Properties                                                              *)

\* Which places are for callers, which for handlers and the manager.
PlacesOK ==
    /\ pc \in [Threads \cup {Manager} -> CallerPlaces \cup HandlerPlaces \cup ManagerPlaces]
    /\ \A t \in Callers : pc[t] \in CallerPlaces
    /\ \A n \in HandlerThreads : pc[n] \in HandlerPlaces
    /\ pc[Manager] \in ManagerPlaces

ListenersOK ==
    /\ handlers \in [Types -> Seq(Listeners)]
    /\ nextID \in Ids
    /\ adds \in Nat
    /\ erased \subseteq Ids
    /\ raced \subseteq Ids

RequestsOK ==
    /\ request \in [Threads -> Requests]
    /\ torn \in [Threads -> Tears]
    /\ calls \in 0 .. MaxCalls
    /\ late \subseteq 1 .. MaxCalls
    /\ \A t \in Threads : pc[t] \in {"lockSpawn", "spawn"} => request[t].call # 0

HandlersOK ==
    /\ threads \subseteq Born
    /\ done \subseteq Born
    /\ born \in Seq(Births)
    /\ Born \subseteq HandlerThreads
    /\ \A n \in HandlerThreads \ Born : pc[n] \in {"unborn", "dead"}

TypeOK ==
    /\ PlacesOK
    /\ ListenersOK
    /\ RequestsOK
    /\ HandlersOK
    /\ lock \in Threads \cup {Manager, NoThread}
    /\ requestJoin \in BOOLEAN

\* No two listeners, registered now or before, get the same id, from wherever
\* the uninitialised counter starts, and none comes back after it was erased:
\* unsetListener erases the one it is meant to, if no addListener overtook it.
IdsAreUnique ==
    /\ Registered \cap erased \subseteq raced
    /\ Cardinality(Registered \cup erased \cup raced) = adds
    /\ \A type \in Types : Cardinality(IdsOf(handlers[type])) = Len(handlers[type])

\* The owner of the lock is the thread in a critical section, killThreads,
\* the reaping pass and the spawning loop included.
LockProtects ==
    \A t \in Threads \cup {Manager} : pc[t] \in Holding <=> lock = t

\* A handler thread is in the vector until it was joined after its return.  The
\* destructor forgets only threads of calls that had passed the test of
\* requestJoin before it was set and got the lock after the joins: these start
\* in an object that is gone, and nobody joins them.
EveryThreadIsAccounted ==
    \A n \in Born \ threads :
        pc[n] = "ended" \/ Crashed \/ (Closed /\ born[n].call \in late)

\* Once unsetListener or clearListeners has returned no new thread runs the
\* listener, also not for an event that was triggered before and waits, unless
\* an addListener changed the list or the map while it was erased.
ErasedIsFinal ==
    [][\A n \in DOMAIN born' \ Born : born'[n].id \notin erased \ raced]_vars

\* An event reaches every listener that was there at the call and was not
\* erased meanwhile, unless an addListener made the iteration crash, took a
\* listener along in the erasing of another, or moved the map of the types.
EventReachesListeners ==
    [][\A t \in Threads :
          pc[t] = "spawn" /\ pc'[t] \notin {"spawn", "dead"} /\ ~torn[t].moved =>
              \A id \in request[t].known \ (erased \cup raced) :
                  \E n \in DOMAIN born' :
                      born'[n].id = id /\ born'[n].call = request[t].call]_vars

\* While the object lives, a handler that reported itself done is joined and
\* leaves the vector: threads do not pile up.
DoneIsReaped ==
    \A n \in HandlerThreads : n \in done ~> (n \notin threads \/ requestJoin \/ Crashed)

\* While the object lives no caller waits forever for the lock, though
\* handlers trigger events themselves and the manager joins under the lock.
CallsReturn ==
    \A t \in Threads :
        pc[t] \in Waiting ~> (pc[t] \notin Waiting \cup Holding \/ requestJoin \/ Crashed)

-----------------------------------------------------------------------------
(* What the documentation says and the code does not do                    *)

\* killThreads is "called by the destructor to join all event listener
\* threads": it returns.
KillReturns == requestJoin ~> (pc[Owner] = "closed" \/ Crashed)

=============================================================================
