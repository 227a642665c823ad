------------------------- MODULE EventSourceProofs --------------------------
(***************************************************************************)
(* What holds of EventSource.tla for any number of callers, listeners and  *)
(* events.  All of it rests on the types of the variables, above all on    *)
(* which places are for callers and which for handlers, and on the owner   *)
(* of threadManipulationLock.  Two more invariants carry the rest: where   *)
(* the ids given so far are (IdsInv), and where in its list a listener is  *)
(* that a waiting call knows (EventInv).                                   *)
(***************************************************************************)
EXTENDS EventSource, FiniteSetTheorems, SequenceTheorems, TLAPS

\* A thread that nothing overtook.
LEMMA NothingTorn == NoTear \in Tears /\ NoTear.pushed = 0 /\ NoTear.moved = FALSE
BY DEF NoTear, Tears

\* What addListener does to a thread is counted.
LEMMA TornTears ==
    ASSUME NEW u \in Threads, NEW type \in Types, torn[u] \in Tears
    PROVE  Torn(u, type) \in Tears
<1>1. PICK p \in Nat, m \in BOOLEAN : torn[u] = [pushed |-> p, moved |-> m]
  BY DEF Tears
<1>2. CASE request[u].type = type
  <2>1. [torn[u] EXCEPT !.pushed = @ + 1] = [pushed |-> p + 1, moved |-> m]
    BY <1>1
  <2> QED
    BY <1>1, <1>2, <2>1 DEF Torn, Tears
<1>3. CASE request[u].type # type
  <2>1. PICK b \in BOOLEAN : b = (m \/ handlers[type] = <<>>)
    OBVIOUS
  <2>2. [torn[u] EXCEPT !.moved = @ \/ handlers[type] = <<>>] = [pushed |-> p, moved |-> b]
    BY <1>1, <2>1
  <2> QED
    BY <1>1, <1>3, <2>2 DEF Torn, Tears
<1> QED
  BY <1>2, <1>3

\* What a thread finds of a list is its front, short of it only by what was
\* pushed meanwhile, unless the map was moved.
LEMMA SeenIsFront ==
    ASSUME handlers \in [Types -> Seq(Listeners)], NEW t \in Threads,
           request[t].type \in Types, torn[t] \in Tears, NEW seen \in Seen(t)
    PROVE  LET list == handlers[request[t].type]
           IN  /\ seen \in Seq(Listeners)
               /\ Len(seen) <= Len(list)
               /\ \A k \in 1 .. Len(seen) : seen[k] = list[k]
               /\ torn[t].moved \/ Len(list) - torn[t].pushed <= Len(seen)
               /\ torn[t] = NoTear => seen = list
<1> DEFINE list == handlers[request[t].type]
<1>1. list \in Seq(Listeners) /\ Len(list) \in Nat /\ torn[t].pushed \in Nat
  BY DEF Tears
<1>2. CASE seen = <<>> /\ torn[t].moved
  BY <1>1, <1>2, NothingTorn
<1>3. CASE \E missed \in 0 .. torn[t].pushed : seen = SubSeq(list, 1, Len(list) - missed)
  <2>1. PICK missed \in 0 .. torn[t].pushed : seen = SubSeq(list, 1, Len(list) - missed)
    BY <1>3
  <2> DEFINE n == Len(list) - missed
  <2>2. missed \in Nat /\ missed <= torn[t].pushed /\ n \in Int /\ n <= Len(list)
    BY <1>1, <2>1
  <2>3. torn[t] = NoTear => n = Len(list)
    <3> SUFFICES ASSUME torn[t] = NoTear PROVE n = Len(list)
      OBVIOUS
    <3>1. torn[t].pushed = 0
      BY NothingTorn
    <3>2. missed = 0
      BY <2>2, <3>1
    <3> QED
      BY <1>1, <3>2
  <2>4. Len(list) - torn[t].pushed <= n
    BY <1>1, <2>2
  <2>5. seen = SubSeq(list, 1, n)
    BY <2>1
  <2> HIDE DEF n, list
  <2>6. /\ seen \in Seq(Listeners) /\ Len(seen) = IF 1 <= n THEN n ELSE 0
        /\ \A k \in 1 .. Len(seen) : seen[k] = list[k]
    BY <1>1, <2>2, <2>5
  <2>7. n = Len(list) => seen = list
    BY <1>1, <2>6, SeqEqual
  <2> QED
    BY <1>1, <2>2, <2>3, <2>4, <2>6, <2>7 DEF list
<1> QED
  BY <1>2, <1>3 DEF Seen

\* No thread gets to a place that is not its own.
LEMMA PlacesStep == PlacesOK /\ [Next]_vars => PlacesOK'
<1> USE EventSourceAssumption DEF EventSourceAssumption, Threads
<1> SUFFICES ASSUME PlacesOK, [Next]_vars PROVE PlacesOK'
  OBVIOUS
<1> USE DEF PlacesOK, CallerPlaces, HandlerPlaces, ManagerPlaces
<1>1. ASSUME NEW t \in Callers, NEW type \in Types, NEW kind \in Kinds, AddListener(t, type, kind)
      PROVE  PlacesOK'
  <2>1. UNCHANGED pc
    BY <1>1 DEF AddListener
  <2> QED
    BY <2>1
<1>2. ASSUME NEW t \in Callers, NEW type \in Types,
                 NEW id \in IdsOf(handlers[type]) \cup {AllIds}, CallErase(t, type, id) PROVE PlacesOK'
  BY <1>2 DEF CallErase, Goto
<1>3. ASSUME NEW t \in Threads, LockErase(t) PROVE PlacesOK'
  BY <1>3 DEF LockErase, Acquire, Goto
<1>4. ASSUME NEW t \in Threads, Erase(t) PROVE PlacesOK'
  BY <1>4 DEF Erase, Release, Goto
<1>5. ASSUME NEW t \in Threads, NEW type \in Types, TriggerEvents(t, type) PROVE PlacesOK'
  BY <1>5 DEF TriggerEvents, Goto
<1>6. ASSUME NEW t \in Threads, LockSpawn(t) PROVE PlacesOK'
  BY <1>6 DEF LockSpawn, Acquire, Goto
<1>7. ASSUME NEW t \in Threads, Spawn(t) PROVE PlacesOK'
  <2>1. PICK new \in SUBSET HandlerThreads :
            pc' = [u \in DOMAIN pc |-> IF u = t THEN Home(t)
                                        ELSE IF u \in new THEN "run" ELSE pc[u]]
    BY <1>7 DEF Spawn, StartThreads
  <2> QED
    BY <2>1 DEF Home
<1>8. ASSUME NEW t \in Threads, Crash(t) PROVE PlacesOK'
  BY <1>8 DEF Crash
<1>9. ASSUME NEW n \in HandlerThreads, SetDone(n) PROVE PlacesOK'
  BY <1>9 DEF SetDone, Goto
<1>10. ASSUME NEW n \in HandlerThreads, Return(n) PROVE PlacesOK'
  BY <1>10 DEF Return, Goto
<1>11. CASE ManagerTest
  BY <1>11 DEF ManagerTest, Goto
<1>12. CASE ManagerLock
  BY <1>12 DEF ManagerLock, Acquire, Goto
<1>13. ASSUME NEW n \in HandlerThreads, Reap(n) PROVE PlacesOK'
  BY <1>13 DEF Reap
<1>14. CASE ManagerUnlock
  BY <1>14 DEF ManagerUnlock, Release, Goto
<1>15. CASE KillThreads
  BY <1>15 DEF KillThreads, Goto
<1>16. CASE KillLock
  BY <1>16 DEF KillLock, Acquire, Goto
<1>17. CASE JoinManager
  BY <1>17 DEF JoinManager, Goto
<1>18. CASE JoinThreads
  BY <1>18 DEF JoinThreads, Release, Goto
<1>19. CASE UNCHANGED vars
  BY <1>19 DEF vars
<1> QED
  BY <1>1, <1>2, <1>3, <1>4, <1>5, <1>6, <1>7, <1>8, <1>9, <1>10,
     <1>11, <1>12, <1>13, <1>14, <1>15, <1>16, <1>17, <1>18, <1>19
     DEF Next, LockStep, CallStep, HandlerStep, ManagerStep, KillStep

-----------------------------------------------------------------------------

\* Erasing a listener and pushing one back keep the lists lists of listeners,
\* with ids that fit the counter.
LEMMA ListenersStep == TypeOK /\ [Next]_vars => ListenersOK'
<1> USE EventSourceAssumption DEF EventSourceAssumption
<1> SUFFICES ASSUME TypeOK, [Next]_vars PROVE ListenersOK'
  OBVIOUS
<1> USE DEF TypeOK, ListenersOK
<1>1. ASSUME NEW t \in Callers, NEW type \in Types, NEW kind \in Kinds,
             AddListener(t, type, kind)
      PROVE  ListenersOK'
  <2>1. nextID' \in Ids
    BY <1>1 DEF AddListener, Ids
  <2>2. [id |-> nextID, kind |-> kind] \in Listeners
    BY DEF Listeners
  <2>3. handlers' \in [Types -> Seq(Listeners)]
    <3>1. CASE UNCHANGED handlers
      BY <3>1
    <3>2. CASE handlers' = [handlers EXCEPT ![type] = Append(@, [id |-> nextID, kind |-> kind])]
      BY <2>2, <3>2
    <3> QED
      BY <1>1, <3>1, <3>2 DEF AddListener
  <2>4. raced' \subseteq Ids
    BY <1>1 DEF AddListener
  <2> QED
    BY <1>1, <2>1, <2>3, <2>4 DEF AddListener
<1>2. ASSUME NEW t \in Threads, Erase(t) PROVE ListenersOK'
  <2> DEFINE type == request[t].type
             list == handlers[type]
  <2>1. type \in Types /\ list \in Seq(Listeners)
    BY DEF RequestsOK, Requests
  <2>2. Matching(type, request[t].id) \subseteq Ids /\ IdsOf(list) \subseteq Ids
    <3>1. \A k \in DOMAIN list : list[k] \in Listeners
      BY <2>1
    <3>2. IdsOf(list) \subseteq Ids
      BY <3>1 DEF IdsOf, Listeners
    <3> QED
      BY <3>2 DEF Matching
  <2>3. handlers' \in [Types -> Seq(Listeners)]
    <3>1. CASE UNCHANGED handlers
      BY <3>1
    <3>2. CASE \E seen \in Seen(t) : \E left \in Left(seen, request[t].id) :
                 handlers' = [handlers EXCEPT ![type] = left]
      <4>0. PICK seen \in Seen(t) : \E left \in Left(seen, request[t].id) :
                   handlers' = [handlers EXCEPT ![type] = left]
        BY <3>2
      <4>1. PICK left \in Left(seen, request[t].id) :
                   handlers' = [handlers EXCEPT ![type] = left]
        BY <4>0
      <4>2. seen \in Seq(Listeners)
        <5>1. torn[t] \in Tears
          BY DEF RequestsOK
        <5> QED
          BY <2>1, <5>1, SeenIsFront
      <4>3. ASSUME NEW k \in DOMAIN seen
            PROVE  SubSeq(seen, 1, k - 1) \o SubSeq(seen, k + 1, Len(seen)) \in Seq(Listeners)
        <5>1. SubSeq(seen, 1, k - 1) \in Seq(Listeners)
          BY <4>2, <4>3
        <5>2. SubSeq(seen, k + 1, Len(seen)) \in Seq(Listeners)
          BY <4>2, <4>3
        <5> QED
          BY <5>1, <5>2
      <4>4. left \in Seq(Listeners)
        <5> DEFINE cut(k) == SubSeq(seen, 1, k - 1) \o SubSeq(seen, k + 1, Len(seen))
        <5>1. left = <<>> \/ left = seen \/ \E k \in DOMAIN seen : left = cut(k)
          BY <4>1 DEF Left
        <5>2. \A k \in DOMAIN seen : cut(k) \in Seq(Listeners)
          BY <4>3
        <5>3. <<>> \in Seq(Listeners)
          OBVIOUS
        <5> HIDE DEF cut
        <5> QED
          BY <4>2, <5>1, <5>2, <5>3, Zenon
      <4> QED
        BY <2>1, <4>1, <4>4
    <3> QED
      BY <1>2, <3>1, <3>2 DEF Erase
  <2>4. raced' \subseteq Ids /\ erased' \subseteq Ids
    BY <1>2, <2>2 DEF Erase
  <2> QED
    BY <1>2, <2>3, <2>4 DEF Erase
<1>3. CASE UNCHANGED listVars
  BY <1>3 DEF listVars
<1> QED
  BY <1>1, <1>2, <1>3
     DEF CallErase, LockErase, TriggerEvents, LockSpawn, Spawn, Crash,
           SetDone, Return, ManagerTest, ManagerLock, Reap, ManagerUnlock,
           KillThreads, KillLock, JoinManager, JoinThreads, Next, LockStep,
           CallStep, HandlerStep, ManagerStep, KillStep, vars, listVars

\* What a caller asked for stays a request of a known type, numbered from 1.
LEMMA RequestsStep == TypeOK /\ [Next]_vars => RequestsOK'
<1> USE EventSourceAssumption DEF EventSourceAssumption
<1> SUFFICES ASSUME TypeOK, [Next]_vars PROVE RequestsOK'
  OBVIOUS
<1> USE DEF TypeOK, RequestsOK
<1>0. NoRequest \in Requests
  BY DEF NoRequest, Requests
<1>1. ASSUME NEW t \in Callers, NEW type \in Types, NEW kind \in Kinds,
             AddListener(t, type, kind)
      PROVE  RequestsOK'
  <2>1. \A u \in Threads : Torn(u, type) \in Tears
    BY TornTears
  <2> QED
    BY <1>1, <2>1 DEF AddListener, killVars
<1>2. ASSUME NEW t \in Callers, NEW type \in Types,
             NEW id \in IdsOf(handlers[type]) \cup {AllIds}, CallErase(t, type, id)
      PROVE  RequestsOK'
  <2>1. id \in Ids \cup {AllIds}
    <3>1. \A k \in DOMAIN handlers[type] : handlers[type][k] \in Listeners
      BY DEF ListenersOK
    <3> QED
      BY <3>1 DEF IdsOf, Listeners
  <2>2. request[t] \in Requests /\ t \in Threads
    BY DEF Threads
  <2>3. [request[t] EXCEPT !.type = type, !.id = id] \in Requests
    BY <2>1, <2>2 DEF Requests
  <2>4. request' = [request EXCEPT ![t] = [request[t] EXCEPT !.type = type, !.id = id]]
    BY <1>2, <2>2 DEF CallErase
  <2>5. request' \in [Threads -> Requests]
    BY <2>3, <2>4
  <2>6. \A u \in Threads : pc'[u] \in {"lockSpawn", "spawn"} => u # t /\ pc[u] = pc'[u]
    BY <1>2, <2>2 DEF CallErase, Goto, PlacesOK
  <2>7. \A u \in Threads \ {t} : request'[u] = request[u]
    BY <2>4
  <2> QED
    BY <1>2, <2>5, <2>6, <2>7 DEF CallErase, killVars
<1>3. ASSUME NEW t \in Threads, Erase(t) \/ Spawn(t) PROVE RequestsOK'
  <2>1. request' = [request EXCEPT ![t] = NoRequest] /\ torn' = [torn EXCEPT ![t] = NoTear]
    BY <1>3 DEF Erase, Spawn
  <2>2. calls' = calls /\ late' = late
    BY <1>3 DEF Erase, Spawn, killVars
  <2>3. \A u \in Threads : pc'[u] \in {"lockSpawn", "spawn"} => u # t /\ pc[u] = pc'[u]
    <3>1. CASE Erase(t)
      <4>1. pc' = [pc EXCEPT ![t] = "idle"]
        BY <3>1 DEF Erase, Release, Goto
      <4> QED
        BY <4>1 DEF PlacesOK, Threads
    <3>2. CASE Spawn(t)
      <4>1. PICK list : StartThreads(t, list)
        BY <3>2 DEF Spawn
      <4>2. \A u \in DOMAIN pc : pc'[u] \in {Home(t), "run", pc[u]} /\ pc'[t] = Home(t)
        BY <4>1 DEF StartThreads, PlacesOK, Threads
      <4> QED
        BY <4>1, <4>2 DEF StartThreads, Home, PlacesOK, Threads
    <3> QED
      BY <1>3, <3>1, <3>2
  <2> QED
    BY <1>0, <2>1, <2>2, <2>3, NothingTorn
<1>4. ASSUME NEW t \in Threads, NEW type \in Types, TriggerEvents(t, type) PROVE RequestsOK'
  <2> DEFINE new == [type |-> type, call |-> calls + 1, known |-> IdsOf(handlers[type]), id |-> AllIds]
  <2>1. IdsOf(handlers[type]) \subseteq Ids
    <3>1. \A k \in DOMAIN handlers[type] : handlers[type][k] \in Listeners
      BY DEF ListenersOK
    <3> QED
      BY <3>1 DEF IdsOf, Listeners
  <2>2. calls' \in 0 .. MaxCalls /\ calls + 1 \in 0 .. MaxCalls /\ calls + 1 # 0
    BY <1>4 DEF TriggerEvents
  <2>3. new \in Requests /\ new.call # 0
    BY <2>1, <2>2 DEF Requests
  <2>4. request' = [request EXCEPT ![t] = new]
    BY <1>4 DEF TriggerEvents
  <2> HIDE DEF new
  <2>5. request' \in [Threads -> Requests]
    BY <2>3, <2>4
  <2>6. \A u \in Threads : pc'[u] \in {"lockSpawn", "spawn"} => u = t \/ pc[u] = pc'[u]
    BY <1>4 DEF TriggerEvents, Goto, PlacesOK, Threads
  <2>7. request'[t] = new /\ \A u \in Threads \ {t} : request'[u] = request[u]
    BY <2>4
  <2>8. \A u \in Threads : pc'[u] \in {"lockSpawn", "spawn"} => request'[u].call # 0
    BY <2>3, <2>6, <2>7
  <2> QED
    BY <1>4, <2>2, <2>5, <2>8 DEF TriggerEvents, killVars
<1>5. ASSUME NEW t \in Threads, LockSpawn(t) PROVE RequestsOK'
  BY <1>5 DEF LockSpawn, Acquire, Goto, PlacesOK, Threads, killVars
<1>6. CASE /\ UNCHANGED <<request, torn, calls>> /\ late' \subseteq 1 .. MaxCalls
           /\ \A u \in Threads : pc'[u] \in {"lockSpawn", "spawn"} => pc[u] = pc'[u]
  BY <1>6
<1> QED
  <2> USE DEF killVars
  <2>1. CASE \E t \in Threads : LockErase(t)
    BY <2>1, <1>6 DEF LockErase, Acquire, Goto, PlacesOK, Threads
  <2>2. CASE \E t \in Threads : Crash(t)
    BY <2>2, <1>6 DEF Crash, PlacesOK, Threads
  <2>3. CASE \E n \in HandlerThreads : HandlerStep(n)
    BY <2>3, <1>6 DEF HandlerStep, SetDone, Return, Goto, PlacesOK, Threads, threadVars
  <2>4. CASE ManagerStep \/ ManagerLock
    BY <2>4, <1>6 DEF ManagerStep, ManagerLock, ManagerTest, ManagerUnlock, Reap,
                      Acquire, Release, Goto, PlacesOK, Threads
  <2>5. CASE KillThreads
    <3>1. late' \subseteq 1 .. MaxCalls
      <4>1. \A u \in Threads : pc[u] \in {"lockSpawn", "spawn"} => request[u].call \in 1 .. MaxCalls
        BY DEF Requests
      <4> QED
        BY <2>5, <4>1 DEF KillThreads
    <3> QED
      BY <2>5, <3>1, <1>6, EventSourceAssumption DEF KillThreads, Goto, PlacesOK, Threads
  <2>6. CASE KillLock \/ KillStep
    BY <2>6, <1>6, EventSourceAssumption
       DEF KillStep, KillLock, JoinManager, JoinThreads, Acquire, Release, Goto, PlacesOK, Threads
  <2>7. CASE UNCHANGED vars
    BY <2>7, <1>6 DEF vars
  <2> QED
    BY <1>1, <1>2, <1>3, <1>4, <1>5, <2>1, <2>2, <2>3, <2>4, <2>5, <2>6, <2>7
       DEF Next, LockStep, CallStep


\* Handler threads are numbered in the order of their start; the vector and
\* the done flags speak of started ones only.
LEMMA HandlersStep == TypeOK /\ [Next]_vars => HandlersOK'
<1> USE EventSourceAssumption DEF EventSourceAssumption
<1> SUFFICES ASSUME TypeOK, [Next]_vars PROVE HandlersOK'
  OBVIOUS
<1> USE DEF TypeOK, HandlersOK
<1>1. ASSUME NEW t \in Threads, Spawn(t) PROVE HandlersOK'
  <2> DEFINE type == request[t].type
  <2>1. type \in Types /\ handlers[type] \in Seq(Listeners) /\ request[t].call \in 1 .. MaxCalls
    BY <1>1 DEF Spawn, RequestsOK, Requests, ListenersOK
  <2>2. PICK list \in Seen(t) : StartThreads(t, list)
    BY <1>1 DEF Spawn
  <2> DEFINE new   == Len(born) + 1 .. Len(born) + Len(list)
  <2>3. list \in Seq(Listeners)
    BY <2>1, SeenIsFront DEF RequestsOK, ListenersOK
  <2>4. /\ new \subseteq HandlerThreads
        /\ threads' \subseteq threads \cup new
        /\ pc' = [u \in DOMAIN pc |-> IF u = t THEN Home(t)
                                      ELSE IF u \in new THEN "run" ELSE pc[u]]
        /\ born' = [n \in 1 .. Len(born) + Len(list) |->
              IF n < Len(born) + 1 THEN born[n]
              ELSE [id   |-> list[n - Len(born)].id,
                    kind |-> list[n - Len(born)].kind,
                    call |-> request[t].call]]
    BY <2>2 DEF StartThreads
  <2>5. Len(born) \in Nat /\ Len(list) \in Nat
    BY <2>3
  <2>6. ASSUME NEW n \in 1 .. Len(born) + Len(list) PROVE born'[n] \in Births
    <3>1. CASE n < Len(born) + 1
      <4>1. born'[n] = born[n] /\ n \in 1 .. Len(born)
        BY <2>4, <2>5, <3>1
      <4> QED
        BY <4>1
    <3>2. CASE ~(n < Len(born) + 1)
      <4> DEFINE listener == list[n - Len(born)]
      <4>1. n - Len(born) \in 1 .. Len(list)
        BY <2>5, <3>2
      <4>2. listener \in Listeners
        BY <2>3, <4>1
      <4>3. born'[n] = [id |-> listener.id, kind |-> listener.kind, call |-> request[t].call]
        BY <2>4, <3>2
      <4> QED
        BY <2>1, <4>2, <4>3 DEF Listeners, Births
    <3> QED
      BY <3>1, <3>2
  <2>7. born' \in Seq(Births) /\ DOMAIN born' = 1 .. Len(born) + Len(list)
    BY <2>4, <2>5, <2>6
  <2>8. Born' = Born \cup new
    BY <2>5, <2>7 DEF Born
  <2>9. Born' \subseteq HandlerThreads /\ threads' \subseteq Born' /\ done' \subseteq Born'
    BY <1>1, <2>4, <2>8 DEF Spawn
  <2>10. ASSUME NEW n \in HandlerThreads \ Born' PROVE pc'[n] \in {"unborn", "dead"}
    <3>1. n \notin Born /\ n \notin new /\ pc[n] \in {"unborn", "dead"} /\ n \in Threads
      BY <2>8, <2>10 DEF Threads
    <3>2. n # t
      BY <1>1, <3>1 DEF Spawn
    <3> QED
      BY <2>4, <3>1, <3>2 DEF PlacesOK
  <2> QED
    BY <2>7, <2>9, <2>10
<1>2. ASSUME NEW m \in HandlerThreads, HandlerStep(m) PROVE HandlersOK'
  <2>1. pc[m] \in {"run", "flagged"}
    BY <1>2 DEF HandlerStep, SetDone, Return
  <2>2. m \in Born
    BY <2>1
  <2>3. born' = born /\ Born' = Born /\ threads' = threads /\ done' \in {done, done \cup {m}}
    BY <1>2 DEF HandlerStep, SetDone, Return, threadVars, Born
  <2>4. \A n \in HandlerThreads \ Born : pc'[n] = pc[n]
    BY <1>2, <2>2 DEF HandlerStep, SetDone, Return, Goto, PlacesOK, Threads
  <2> QED
    BY <2>2, <2>3, <2>4
<1>3. CASE \E t \in Threads : Crash(t)
  <2>1. born' = born /\ Born' = Born /\ threads' = threads /\ done' = done
    BY <1>3 DEF Crash, threadVars, Born
  <2>2. \A n \in HandlerThreads : pc'[n] = "dead"
    BY <1>3 DEF Crash, PlacesOK, Threads
  <2> QED
    BY <2>1, <2>2
<1>4. CASE /\ born' = born /\ done' = done
           /\ threads' \subseteq threads
           /\ \A n \in HandlerThreads \ Born : pc'[n] = pc[n]
  <2>1. Born' = Born
    BY <1>4 DEF Born
  <2> QED
    BY <1>4, <2>1
<1> QED
  <2>1. CASE \E t \in Callers, type \in Types, kind \in Kinds : AddListener(t, type, kind)
    BY <2>1, <1>4 DEF AddListener, threadVars
  <2>2. CASE \E t \in Callers, type \in Types :
                \E id \in IdsOf(handlers[type]) \cup {AllIds} : CallErase(t, type, id)
    BY <2>2, <1>4 DEF CallErase, threadVars, Goto, PlacesOK, Threads
  <2>3. CASE \E t \in Threads : LockErase(t) \/ Erase(t) \/ LockSpawn(t)
    <3>1. ASSUME NEW t \in Threads, LockErase(t) PROVE HandlersOK'
      BY <3>1, <1>4 DEF LockErase, threadVars, Acquire, Goto, PlacesOK, Threads
    <3>2. ASSUME NEW t \in Threads, Erase(t) PROVE HandlersOK'
      BY <3>2, <1>4 DEF Erase, threadVars, Release, Goto, PlacesOK, Threads, HandlerPlaces
    <3>3. ASSUME NEW t \in Threads, LockSpawn(t) PROVE HandlersOK'
      BY <3>3, <1>4 DEF LockSpawn, threadVars, Acquire, Goto, PlacesOK, Threads
    <3> QED
      BY <2>3, <3>1, <3>2, <3>3
  <2>4. CASE \E t \in Threads, type \in Types : TriggerEvents(t, type)
    BY <2>4, <1>4 DEF TriggerEvents, threadVars, Goto, PlacesOK, Threads
  <2>5. CASE ManagerStep \/ ManagerLock
    BY <2>5, <1>4 DEF ManagerStep, ManagerLock, ManagerTest, ManagerUnlock, Reap, threadVars,
                      Acquire, Release, Goto, PlacesOK, Threads
  <2>6. CASE KillThreads \/ KillLock \/ KillStep
    BY <2>6, <1>4 DEF KillStep, KillThreads, KillLock, JoinManager, JoinThreads, threadVars,
                      Acquire, Release, Goto, PlacesOK, Threads
  <2>7. CASE UNCHANGED vars
    BY <2>7, <1>4 DEF vars
  <2> QED
    BY <1>1, <1>2, <1>3, <2>1, <2>2, <2>3, <2>4, <2>5, <2>6, <2>7
       DEF Next, LockStep, CallStep

\* Every step leaves every variable in its type: each thread at a place of its
\* kind, each done flag and each vector entry with a thread that was started.
THEOREM TypeCorrect == Spec => []TypeOK
<1> USE EventSourceAssumption DEF EventSourceAssumption
<1>1. Init => TypeOK
  <2> SUFFICES ASSUME Init PROVE TypeOK
    OBVIOUS
  <2>1. NoRequest \in Requests
    BY DEF NoRequest, Requests
  <2>2. RequestsOK
    BY <2>1, NothingTorn DEF Init, RequestsOK, Threads
  <2>3. ListenersOK
    BY DEF Init, ListenersOK
  <2>4. HandlersOK
    BY DEF Init, HandlersOK, Born, Threads
  <2>5. PlacesOK
    BY DEF Init, PlacesOK, CallerPlaces, HandlerPlaces, ManagerPlaces, Threads
  <2> QED
    BY <2>2, <2>3, <2>4, <2>5 DEF Init, TypeOK
<1>2. TypeOK /\ [Next]_vars => TypeOK'
  <2> SUFFICES ASSUME TypeOK, [Next]_vars PROVE TypeOK'
    OBVIOUS
  <2>1. PlacesOK' /\ ListenersOK' /\ RequestsOK' /\ HandlersOK'
    BY PlacesStep, ListenersStep, RequestsStep, HandlersStep DEF TypeOK
  <2>2. (lock \in Threads \cup {Manager, NoThread})' /\ (requestJoin \in BOOLEAN)'
    BY DEF TypeOK, Next, vars, AddListener, CallErase, LockErase, Erase, TriggerEvents,
           LockSpawn, Spawn, Crash, HandlerStep, SetDone, Return, ManagerStep, ManagerTest,
           ManagerLock, Reap, ManagerUnlock, KillStep, KillThreads, KillLock, JoinManager,
           JoinThreads, LockStep, CallStep, Acquire, Release, Threads, killVars
  <2> QED
    BY <2>1, <2>2 DEF TypeOK
<1> QED
  BY <1>1, <1>2, PTL DEF Spec


-----------------------------------------------------------------------------

\* threadManipulationLock belongs to the thread that is in a critical section
\* and to no other: two threads never walk or change the vectors at once,
\* except for addListener, which does not take this lock.
THEOREM TheLockProtects == Spec => []LockProtects
<1> USE EventSourceAssumption DEF EventSourceAssumption, Threads
<1>1. Init => LockProtects
  BY DEF Init, LockProtects, Holding
<1>2. TypeOK /\ LockProtects /\ [Next]_vars => LockProtects'
  <2> SUFFICES ASSUME TypeOK, LockProtects, [Next]_vars PROVE LockProtects'
    OBVIOUS
  <2>0. PlacesOK /\ lock \in Threads \cup {Manager, NoThread}
    BY DEF TypeOK
  <2> USE <2>0 DEF LockProtects, Holding, PlacesOK, CallerPlaces, HandlerPlaces, ManagerPlaces
  <2>1. ASSUME NEW t \in Callers, NEW type \in Types, NEW kind \in Kinds, AddListener(t, type, kind)
        PROVE  LockProtects'
    BY <2>1 DEF AddListener
  <2>2. ASSUME NEW t \in Callers, NEW type \in Types,
                 NEW id \in IdsOf(handlers[type]) \cup {AllIds}, CallErase(t, type, id) PROVE LockProtects'
    BY <2>2 DEF CallErase, Goto
  <2>3. ASSUME NEW t \in Threads, LockErase(t) PROVE LockProtects'
    BY <2>3 DEF LockErase, Acquire, Goto
  <2>4. ASSUME NEW t \in Threads, Erase(t) PROVE LockProtects'
    <3>1. pc[t] = "erase" /\ pc' = [pc EXCEPT ![t] = "idle"] /\ lock' = NoThread
      BY <2>4 DEF Erase, Release, Goto
    <3> QED
      BY <3>1
  <2>5. ASSUME NEW t \in Threads, NEW type \in Types, TriggerEvents(t, type) PROVE LockProtects'
    BY <2>5 DEF TriggerEvents, Goto
  <2>6. ASSUME NEW t \in Threads, LockSpawn(t) PROVE LockProtects'
    BY <2>6 DEF LockSpawn, Acquire, Goto
  <2>7. ASSUME NEW t \in Threads, Spawn(t) PROVE LockProtects'
    <3>1. pc'[t] \in {"idle", "run"} /\ lock' = NoThread
      BY <2>7 DEF Spawn, StartThreads, Home
    <3>2. \A u \in (Threads \cup {Manager}) \ {t} : pc'[u] \in {pc[u], "run"}
      BY <2>7 DEF Spawn, StartThreads, Home
    <3>3. \A u \in (Threads \cup {Manager}) \ {t} : pc[u] \notin Holding
      BY <2>7 DEF Spawn
    <3>4. NoThread \notin Threads \cup {Manager}
      OBVIOUS
    <3> QED
      BY <3>1, <3>2, <3>3, <3>4
  <2>8. ASSUME NEW t \in Threads, Crash(t) PROVE LockProtects'
    BY <2>8 DEF Crash
  <2>9. ASSUME NEW n \in HandlerThreads, SetDone(n) PROVE LockProtects'
    BY <2>9 DEF SetDone, Goto
  <2>10. ASSUME NEW n \in HandlerThreads, Return(n) PROVE LockProtects'
    BY <2>10 DEF Return, Goto
  <2>11. CASE ManagerTest
    BY <2>11 DEF ManagerTest, Goto
  <2>12. CASE ManagerLock
    BY <2>12 DEF ManagerLock, Acquire, Goto
  <2>13. ASSUME NEW n \in HandlerThreads, Reap(n) PROVE LockProtects'
    BY <2>13 DEF Reap
  <2>14. CASE ManagerUnlock
    BY <2>14 DEF ManagerUnlock, Release, Goto
  <2>15. CASE KillThreads
    BY <2>15 DEF KillThreads, Goto
  <2>16. CASE KillLock
    BY <2>16 DEF KillLock, Acquire, Goto
  <2>17. CASE JoinManager
    BY <2>17 DEF JoinManager, Goto
  <2>18. CASE JoinThreads
    BY <2>18 DEF JoinThreads, Release, Goto
  <2>19. CASE UNCHANGED vars
    BY <2>19 DEF vars
  <2> QED
    BY <2>1, <2>2, <2>3, <2>4, <2>5, <2>6, <2>7, <2>8, <2>9, <2>10,
       <2>11, <2>12, <2>13, <2>14, <2>15, <2>16, <2>17, <2>18, <2>19
       DEF Next, LockStep, CallStep, HandlerStep, ManagerStep, KillStep
<1> QED
  BY <1>1, <1>2, TypeCorrect, PTL DEF Spec

\* Once requestJoin is set no call passes its test: the calls under way are
\* those that had passed it before.
LateOK ==
    /\ pc[Owner] \in {"lockKill", "joinManager", "joinThreads", "closed"} => requestJoin
    /\ requestJoin =>
          \A t \in Threads : pc[t] \in {"lockSpawn", "spawn"} => request[t].call \in late

\* Only the first step of killThreads changes which calls are late.
LEMMA LateStep == TypeOK /\ LateOK /\ [Next]_vars => LateOK'
<1> USE EventSourceAssumption DEF EventSourceAssumption, Threads
<1> SUFFICES ASSUME TypeOK, LateOK, [Next]_vars PROVE LateOK'
  OBVIOUS
<1>0. /\ PlacesOK /\ request \in [Threads -> Requests]
      /\ DOMAIN pc = Threads \cup {Manager} /\ Owner \in Threads
      /\ Owner \notin HandlerThreads /\ Owner # Manager /\ Manager \notin Threads
  BY DEF TypeOK, RequestsOK, PlacesOK
<1> USE DEF LateOK, killVars
<1>1. CASE /\ UNCHANGED <<requestJoin, late, request>>
           /\ \A t \in Threads : pc'[t] \in {"lockSpawn", "spawn"}
                                    => pc[t] \in {"lockSpawn", "spawn"}
           /\ pc'[Owner] \in {"lockKill", "joinManager", "joinThreads", "closed"}
                 => pc[Owner] \in {"lockKill", "joinManager", "joinThreads", "closed"}
  BY <1>1
<1> USE DEF PlacesOK
<1>2. CASE \E t \in Callers, type \in Types, kind \in Kinds : AddListener(t, type, kind)
  BY <1>0, <1>1, <1>2 DEF AddListener
<1>3. ASSUME NEW t \in Callers, NEW type \in Types,
             NEW id \in IdsOf(handlers[type]) \cup {AllIds}, CallErase(t, type, id)
      PROVE  LateOK'
  <2>1. /\ pc' = [pc EXCEPT ![t] = "lockErase"] /\ UNCHANGED <<requestJoin, late>>
        /\ \A u \in Threads \ {t} : request'[u] = request[u]
    BY <1>0, <1>3 DEF CallErase, Goto
  <2>2. \A u \in Threads : pc'[u] \in {"lockSpawn", "spawn"} => pc'[u] = pc[u] /\ u # t
    BY <1>0, <2>1
  <2>3. pc'[Owner] \in {pc[Owner], "lockErase"}
    BY <1>0, <2>1
  <2> QED
    BY <2>1, <2>2, <2>3
<1>4. ASSUME NEW t \in Threads, NEW type \in Types, TriggerEvents(t, type) PROVE LateOK'
  <2>1. ~requestJoin /\ ~requestJoin'
    BY <1>4 DEF TriggerEvents
  <2>2. pc'[Owner] \in {pc[Owner], "lockSpawn"}
    BY <1>0, <1>4 DEF TriggerEvents, Goto
  <2> QED
    BY <2>1, <2>2
<1>5. CASE \E t \in Threads : LockStep(t)
  BY <1>0, <1>1, <1>5 DEF LockStep, LockErase, LockSpawn, Acquire, Goto
<1>6. ASSUME NEW t \in Threads, Erase(t) \/ Spawn(t) PROVE LateOK'
  <2>1. /\ UNCHANGED <<requestJoin, late>>
        /\ \A u \in Threads \ {t} : request'[u] = request[u]
    BY <1>0, <1>6 DEF Erase, Spawn
  <2>2. \A u \in Threads : pc'[u] \in {pc[u], "idle", "run"} /\ pc'[t] \in {"idle", "run"}
    <3>1. CASE Erase(t)
      BY <1>0, <3>1 DEF Erase, Release, Goto
    <3>2. CASE Spawn(t)
      <4>1. PICK list : StartThreads(t, list)
        BY <3>2 DEF Spawn
      <4> QED
        BY <1>0, <4>1 DEF StartThreads, Home
    <3> QED
      BY <1>6, <3>1, <3>2
  <2> QED
    BY <1>0, <2>1, <2>2
<1>7. CASE \E t \in Threads : Crash(t)
  BY <1>0, <1>1, <1>7 DEF Crash
<1>8. CASE \E n \in HandlerThreads : HandlerStep(n)
  BY <1>0, <1>1, <1>8 DEF HandlerStep, SetDone, Return, Goto
<1>9. CASE ManagerStep \/ ManagerLock
  BY <1>0, <1>1, <1>9 DEF ManagerStep, ManagerLock, ManagerTest, ManagerUnlock, Reap,
                          Acquire, Release, Goto
<1>10. CASE KillThreads
  <2>1. /\ pc' = [pc EXCEPT ![Owner] = "lockKill"] /\ requestJoin' /\ request' = request
        /\ late' = {request[t].call : t \in {u \in Threads : pc[u] \in {"lockSpawn", "spawn"}}}
    BY <1>10 DEF KillThreads, Goto
  <2>2. \A t \in Threads : pc'[t] \in {"lockSpawn", "spawn"} => pc'[t] = pc[t]
    BY <1>0, <2>1
  <2>3. \A t \in Threads : pc'[t] \in {"lockSpawn", "spawn"} => request[t].call \in late'
    BY <2>1, <2>2
  <2> QED
    BY <2>1, <2>3
<1>11. CASE KillLock \/ KillStep
  BY <1>0, <1>1, <1>11 DEF KillStep, KillLock, JoinManager, JoinThreads, Acquire, Release, Goto
<1>12. CASE UNCHANGED vars
  BY <1>1, <1>12 DEF vars
<1> QED
  BY <1>2, <1>3, <1>4, <1>5, <1>6, <1>7, <1>8, <1>9, <1>10, <1>11, <1>12 DEF Next, CallStep

\* A handler thread leaves the vector only when it was joined after its return:
\* the manager and killThreads never destroy a running std::thread, and the
\* destructor forgets none but those of calls that had passed the test of
\* requestJoin before it was set.
THEOREM ThreadsAreAccounted == Spec => []EveryThreadIsAccounted
<1> USE EventSourceAssumption DEF EventSourceAssumption
<1>1. Init => EveryThreadIsAccounted /\ LateOK
  BY DEF Init, EveryThreadIsAccounted, Born, LateOK, Threads
<1>2. TypeOK /\ LateOK /\ EveryThreadIsAccounted /\ [Next]_vars => EveryThreadIsAccounted'
  <2> SUFFICES ASSUME TypeOK, LateOK, EveryThreadIsAccounted, [Next]_vars
               PROVE  EveryThreadIsAccounted'
    OBVIOUS
  <2>0. /\ PlacesOK /\ HandlersOK /\ Born \subseteq Threads
        /\ Manager \notin Threads /\ Owner \in Callers /\ Owner \notin HandlerThreads
        /\ Owner \in Threads
    BY DEF TypeOK, HandlersOK, Threads
  <2> USE <2>0 DEF EveryThreadIsAccounted, Crashed, Closed, PlacesOK
  <2>1. CASE \E t \in Threads : Crash(t)
    BY <2>1 DEF Crash
  <2>2. ASSUME NEW t \in Threads, Spawn(t) PROVE EveryThreadIsAccounted'
    <3>1. PICK list : StartThreads(t, list)
      BY <2>2 DEF Spawn
    <3> DEFINE new == Len(born) + 1 .. Len(born) + Len(list)
    <3>2. /\ born' = [n \in 1 .. Len(born) + Len(list) |->
                IF n < Len(born) + 1 THEN born[n]
                ELSE [id   |-> list[n - Len(born)].id,
                      kind |-> list[n - Len(born)].kind,
                      call |-> request[t].call]]
          /\ threads' = IF Closed THEN threads ELSE threads \cup new
          /\ pc' = [u \in DOMAIN pc |-> IF u = t THEN Home(t)
                                        ELSE IF u \in new THEN "run" ELSE pc[u]]
      BY <3>1 DEF StartThreads
    <3>3. Len(born) \in Nat /\ Born = 1 .. Len(born) /\ DOMAIN born' = 1 .. Len(born) + Len(list)
      BY <3>2 DEF HandlersOK, Born
    <3>4. new \subseteq HandlerThreads
      BY <3>1 DEF StartThreads
    <3>5. pc[t] = "spawn" /\ late' = late
      BY <2>2 DEF Spawn, killVars
    <3>6. (Crashed => Crashed') /\ (Closed => Closed')
      BY <3>2, <3>4, <3>5 DEF Threads
    <3>7. ASSUME NEW n \in Born' \ threads', n \notin new
          PROVE  pc'[n] = "ended" \/ Crashed' \/ (Closed' /\ born'[n].call \in late')
      <4>1. n \notin threads
        BY <3>2, <3>7
      <4>2. n \in Born /\ born'[n] = born[n]
        BY <3>2, <3>3, <3>7 DEF Born
      <4>3. pc[n] = "ended" \/ Crashed \/ (Closed /\ born[n].call \in late)
        BY <4>1, <4>2
      <4>4. pc[n] = "ended" => pc'[n] = "ended"
        BY <3>2, <3>5, <3>7, <4>2
      <4> QED
        BY <3>5, <3>6, <4>2, <4>3, <4>4
    <3>8. ASSUME NEW n \in Born' \ threads', n \in new
          PROVE  Closed' /\ born'[n].call \in late'
      <4>1. Closed
        BY <3>2, <3>8
      <4>2. request[t].call \in late
        BY <3>5, <4>1 DEF LateOK
      <4>3. born'[n].call = request[t].call
        BY <3>2, <3>3, <3>8
      <4> QED
        BY <3>5, <3>6, <4>1, <4>2, <4>3
    <3> QED
      BY <3>7, <3>8
  <2>3. CASE /\ born' = born
             /\ \A n \in threads \ threads' : pc[n] = "ended"
             /\ \A n \in Threads : pc[n] = "ended" => pc'[n] = "ended"
             /\ pc[Manager] = "dead" => pc'[Manager] = "dead"
             /\ Closed => Closed' /\ late' = late
    <3>1. Born' = Born
      BY <2>3 DEF Born
    <3> QED
      BY <2>3, <3>1
  <2> USE DEF killVars
  <2>4. CASE \E t \in Callers, type \in Types, kind \in Kinds : AddListener(t, type, kind)
    BY <2>3, <2>4 DEF AddListener, threadVars
  <2>5. CASE \E t \in Callers, type \in Types :
                \E id \in IdsOf(handlers[type]) \cup {AllIds} : CallErase(t, type, id)
    BY <2>3, <2>5 DEF CallErase, threadVars, Goto, Threads
  <2>6. CASE \E t \in Threads : LockErase(t) \/ Erase(t) \/ LockSpawn(t)
    BY <2>3, <2>6 DEF LockErase, Erase, LockSpawn, threadVars, Acquire, Release, Goto
  <2>7. CASE \E t \in Threads, type \in Types : TriggerEvents(t, type)
    BY <2>3, <2>7 DEF TriggerEvents, threadVars, Goto
  <2>8. CASE \E n \in HandlerThreads : HandlerStep(n)
    BY <2>3, <2>8 DEF HandlerStep, SetDone, Return, threadVars, Goto, Threads
  <2>9. CASE ManagerStep \/ ManagerLock
    BY <2>3, <2>9 DEF ManagerStep, ManagerLock, ManagerTest, ManagerUnlock, Reap,
                      threadVars, Acquire, Release, Goto
  <2>10. CASE KillThreads \/ KillLock \/ KillStep
    BY <2>3, <2>10 DEF KillStep, KillThreads, KillLock, JoinManager, JoinThreads,
                       threadVars, Acquire, Release, Goto, Threads
  <2>11. CASE UNCHANGED vars
    BY <2>3, <2>11 DEF vars
  <2> QED
    BY <2>1, <2>2, <2>4, <2>5, <2>6, <2>7, <2>8, <2>9, <2>10, <2>11
       DEF Next, LockStep, CallStep
<1> QED
  BY <1>1, <1>2, LateStep, TypeCorrect, PTL DEF Spec

-----------------------------------------------------------------------------
(* Listener ids                                                            *)

\* The ids given so far: the last ones before nextID, which may have wrapped.
Used ==
    IF adds <= nextID THEN nextID - adds .. nextID - 1
    ELSE (0 .. nextID - 1) \cup (IdRange + nextID - adds .. IdRange - 1)

OnceEach(list) == \A j, k \in DOMAIN list : list[j].id = list[k].id => j = k

\* Each id given is in one place of one list, or erased, or was in a race of an
\* addListener with an erasing.
IdsInv ==
    /\ adds <= MaxAdds
    /\ Registered \cap erased \subseteq raced
    /\ Registered \cup erased \cup raced = Used
    /\ \A type \in Types : OnceEach(handlers[type])
    /\ \A a, b \in Types : a # b => IdsOf(handlers[a]) \cap IdsOf(handlers[b]) = {}

\* The counter steps on and wraps.
LEMMA Wraps ==
    ASSUME NEW n \in 0 .. IdRange - 1, IdRange \in Nat \ {0}
    PROVE  (n + 1) % IdRange = IF n + 1 = IdRange THEN 0 ELSE n + 1
OBVIOUS

\* The next id was not given before, and is given afterwards.
LEMMA NextIsNew ==
    ASSUME nextID \in Ids, adds \in Nat, adds < MaxAdds,
           adds' = adds + 1, nextID' = (nextID + 1) % IdRange
    PROVE  nextID \notin Used /\ Used' = Used \cup {nextID}
<1>1. /\ nextID \in 0 .. IdRange - 1 /\ IdRange \in Nat \ {0} /\ adds + 1 <= IdRange
      /\ nextID \in Nat /\ nextID + 1 <= IdRange
  BY EventSourceAssumption DEF EventSourceAssumption, Ids
<1>2. nextID' = IF nextID + 1 = IdRange THEN 0 ELSE nextID + 1
  BY <1>1, Wraps
<1>3. nextID \notin Used
  BY <1>1 DEF Used
<1>4. CASE nextID + 1 = IdRange
  <2>1. Used' = IdRange - adds' .. IdRange - 1
    <3>1. nextID' = 0 /\ adds' = adds + 1 /\ ~(adds' <= nextID')
      BY <1>1, <1>2, <1>4
    <3>2. Used' = (0 .. 0 - 1) \cup (IdRange + 0 - adds' .. IdRange - 1)
      BY <3>1 DEF Used
    <3>3. 0 .. 0 - 1 = {} /\ IdRange + 0 - adds' = IdRange - adds'
      BY <1>1, <3>1
    <3> QED
      BY <3>2, <3>3
  <2>2. Used = nextID - adds .. nextID - 1
    BY <1>1, <1>4 DEF Used
  <2> QED
    BY <1>1, <1>3, <1>4, <2>1, <2>2
<1>5. CASE nextID + 1 # IdRange /\ adds <= nextID
  BY <1>1, <1>2, <1>3, <1>5 DEF Used
<1>6. CASE nextID + 1 # IdRange /\ ~(adds <= nextID)
  BY <1>1, <1>2, <1>3, <1>6 DEF Used
<1> QED
  BY <1>1, <1>3, <1>4, <1>5, <1>6

\* As many ids are in use as were given.
LEMMA UsedCounted ==
    ASSUME nextID \in Ids, adds \in Nat, adds <= MaxAdds
    PROVE  IsFiniteSet(Used) /\ Cardinality(Used) = adds
<1>1. /\ IdRange \in Nat \ {0} /\ adds <= IdRange
      /\ nextID \in Nat /\ nextID < IdRange
  BY EventSourceAssumption DEF EventSourceAssumption, Ids
<1>2. CASE adds <= nextID
  <2>1. Used = nextID - adds .. nextID - 1 /\ nextID - adds \in Int /\ nextID - 1 \in Int
    BY <1>1, <1>2 DEF Used
  <2>2. IsFiniteSet(Used) /\ Cardinality(Used) =
            IF nextID - adds > nextID - 1 THEN 0 ELSE (nextID - 1) - (nextID - adds) + 1
    BY <2>1, FS_Interval
  <2> QED
    BY <1>1, <2>2
<1>3. CASE ~(adds <= nextID)
  <2> DEFINE low  == 0 .. nextID - 1
             high == IdRange + nextID - adds .. IdRange - 1
  <2>1. Used = low \cup high /\ low \cap high = {}
    BY <1>1, <1>3 DEF Used
  <2>2. IsFiniteSet(low) /\ Cardinality(low) = nextID
    <3>1. IsFiniteSet(low) /\ Cardinality(low) = IF 0 > nextID - 1 THEN 0 ELSE (nextID - 1) - 0 + 1
      BY <1>1, FS_Interval
    <3> QED
      BY <1>1, <3>1
  <2>3. IsFiniteSet(high) /\ Cardinality(high) = adds - nextID
    <3>1. IdRange + nextID - adds \in Int /\ IdRange - 1 \in Int
      BY <1>1
    <3>2. IsFiniteSet(high) /\ Cardinality(high) =
              IF IdRange + nextID - adds > IdRange - 1 THEN 0
              ELSE (IdRange - 1) - (IdRange + nextID - adds) + 1
      BY <3>1, FS_Interval
    <3> QED
      BY <1>1, <1>3, <3>2
  <2> HIDE DEF low, high
  <2>4. /\ IsFiniteSet(low \cup high)
        /\ Cardinality(low \cup high) = Cardinality(low) + Cardinality(high) - Cardinality(low \cap high)
    BY <2>2, <2>3, FS_Union
  <2> QED
    BY <1>1, <2>1, <2>2, <2>3, <2>4, FS_EmptySet
<1> QED
  BY <1>2, <1>3

\* A list in which every id is found once has as many ids as listeners.
LEMMA IdsCounted ==
    ASSUME NEW list \in Seq(Listeners), OnceEach(list)
    PROVE  IsFiniteSet(IdsOf(list)) /\ Cardinality(IdsOf(list)) = Len(list)
<1>1. Len(list) \in Nat /\ DOMAIN list = 1 .. Len(list)
  OBVIOUS
<1> DEFINE f == [k \in 1 .. Len(list) |-> list[k].id]
<1>2. f \in Bijection(1 .. Len(list), IdsOf(list))
  <2>1. f \in [1 .. Len(list) -> IdsOf(list)]
    BY <1>1 DEF IdsOf
  <2>2. \A i \in IdsOf(list) : \E k \in 1 .. Len(list) : f[k] = i
    BY <1>1 DEF IdsOf
  <2>3. \A j, k \in 1 .. Len(list) : f[j] = f[k] => j = k
    BY <1>1 DEF OnceEach
  <2> QED
    BY <2>1, <2>2, <2>3 DEF Bijection, Injection, Surjection, IsInjective
<1>3. ExistsBijection(1 .. Len(list), IdsOf(list))
  BY <1>2 DEF ExistsBijection
<1> QED
  BY <1>1, <1>3, FS_CountingElements, FS_NatBijection

\* A list without its listener at k.
LEMMA RemovedAt ==
    ASSUME NEW list \in Seq(Listeners), NEW k \in DOMAIN list, OnceEach(list)
    PROVE  LET rest == SubSeq(list, 1, k - 1) \o SubSeq(list, k + 1, Len(list))
           IN  /\ rest \in Seq(Listeners)
               /\ IdsOf(rest) = IdsOf(list) \ {list[k].id}
               /\ OnceEach(rest)
<1> DEFINE front == SubSeq(list, 1, k - 1)
           back  == SubSeq(list, k + 1, Len(list))
           rest  == front \o back
<1>1. Len(list) \in Nat /\ k \in 1 .. Len(list) /\ DOMAIN list = 1 .. Len(list)
  OBVIOUS
<1>2. /\ front \in Seq(Listeners) /\ Len(front) = k - 1
      /\ \A j \in 1 .. k - 1 : front[j] = list[j]
  BY <1>1
<1>3. /\ back \in Seq(Listeners) /\ Len(back) = Len(list) - k
      /\ \A j \in 1 .. Len(list) - k : back[j] = list[j + k]
  BY <1>1
<1> HIDE DEF front, back
<1>4. rest \in Seq(Listeners) /\ Len(rest) = Len(list) - 1
  <2>1. front \in Seq(Listeners) /\ back \in Seq(Listeners)
    BY <1>2, <1>3
  <2>2. rest \in Seq(Listeners) /\ Len(rest) = Len(front) + Len(back)
    BY <2>1
  <2>3. Len(front) + Len(back) = Len(list) - 1
    BY <1>1, <1>2, <1>3
  <2> QED
    BY <2>2, <2>3
<1>5. \A j \in 1 .. k - 1 : rest[j] = list[j]
  BY <1>1, <1>2, <1>3
<1>6. \A j \in k .. Len(list) - 1 : rest[j] = list[j + 1]
  <2> SUFFICES ASSUME NEW j \in k .. Len(list) - 1 PROVE rest[j] = list[j + 1]
    OBVIOUS
  <2>1. j - Len(front) \in 1 .. Len(back) /\ j - Len(front) = j - k + 1 /\ (j - k + 1) + k = j + 1
    BY <1>1, <1>2, <1>3
  <2>2. rest[j] = back[j - Len(front)]
    BY <1>1, <1>2, <1>3, <2>1
  <2> QED
    BY <1>3, <2>1, <2>2
<1> HIDE DEF rest
<1>7. DOMAIN rest = 1 .. Len(list) - 1
  BY <1>4
<1> DEFINE from(j) == IF j < k THEN j ELSE j + 1
<1>8. \A j \in DOMAIN rest : /\ rest[j] = list[from(j)]
                             /\ from(j) \in DOMAIN list
                             /\ from(j) # k
  BY <1>1, <1>5, <1>6, <1>7
<1>9. \A j \in DOMAIN list : j # k => \E i \in DOMAIN rest : from(i) = j
  <2> SUFFICES ASSUME NEW j \in DOMAIN list, j # k PROVE \E i \in DOMAIN rest : from(i) = j
    OBVIOUS
  <2>1. CASE j < k
    BY <1>1, <1>7, <2>1
  <2>2. CASE j > k
    <3>1. j - 1 \in DOMAIN rest /\ from(j - 1) = j
      BY <1>1, <1>7, <2>2
    <3> QED
      BY <3>1
  <2> QED
    BY <1>1, <2>1, <2>2
<1>10. \A i, j \in DOMAIN rest : from(i) = from(j) => i = j
  BY <1>1, <1>7
<1> HIDE DEF from
<1>11. OnceEach(rest)
  BY <1>8, <1>10 DEF OnceEach
<1>12. \A i : i \in IdsOf(rest) <=> i \in IdsOf(list) /\ i # list[k].id
  <2>1. ASSUME NEW j \in DOMAIN rest
        PROVE  rest[j].id \in IdsOf(list) /\ rest[j].id # list[k].id
    BY <1>1, <1>8 DEF OnceEach, IdsOf
  <2>2. ASSUME NEW j \in DOMAIN list, list[j].id # list[k].id
        PROVE  list[j].id \in IdsOf(rest)
    <3>1. PICK i \in DOMAIN rest : from(i) = j
      BY <1>9, <2>2
    <3> QED
      BY <1>8, <3>1 DEF IdsOf
  <2> QED
    BY <2>1, <2>2 DEF IdsOf
<1> QED
  BY <1>4, <1>11, <1>12 DEF rest, front, back

\* The front of a list in which every id is found once.
LEMMA FrontOnce ==
    ASSUME NEW list \in Seq(Listeners), NEW seen \in Seq(Listeners), OnceEach(list),
           Len(seen) <= Len(list), \A k \in 1 .. Len(seen) : seen[k] = list[k]
    PROVE  OnceEach(seen) /\ IdsOf(seen) \subseteq IdsOf(list)
<1>1. /\ DOMAIN seen = 1 .. Len(seen) /\ DOMAIN list = 1 .. Len(list)
      /\ Len(seen) \in Nat /\ Len(list) \in Nat
  OBVIOUS
<1>2. \A k \in DOMAIN seen : k \in DOMAIN list /\ seen[k] = list[k]
  BY <1>1
<1> QED
  BY <1>2 DEF OnceEach, IdsOf

\* What is left of a list is the list without the ids that match.
LEMMA LeftOver ==
    ASSUME NEW list \in Seq(Listeners), OnceEach(list), NEW id \in Ids \cup {AllIds},
           NEW left \in Left(list, id)
    PROVE  /\ left \in Seq(Listeners)
           /\ IdsOf(left) = IdsOf(list) \ {i \in IdsOf(list) : id \in {AllIds, i}}
           /\ OnceEach(left)
<1>1. CASE id = AllIds
  <2>1. left = <<>>
    BY <1>1 DEF Left
  <2>2. <<>> \in Seq(Listeners) /\ IdsOf(<<>>) = {} /\ OnceEach(<<>>)
    BY DEF IdsOf, OnceEach
  <2> QED
    BY <1>1, <2>1, <2>2
<1>2. CASE id # AllIds /\ id \notin IdsOf(list)
  <2>1. left = list
    BY <1>2 DEF Left
  <2> QED
    BY <1>2, <2>1
<1>3. CASE id # AllIds /\ id \in IdsOf(list)
  <2>1. PICK k \in DOMAIN list :
           /\ list[k].id = id
           /\ left = SubSeq(list, 1, k - 1) \o SubSeq(list, k + 1, Len(list))
    BY <1>3 DEF Left
  <2>2. /\ left \in Seq(Listeners)
        /\ IdsOf(left) = IdsOf(list) \ {id}
        /\ OnceEach(left)
    BY <2>1, RemovedAt
  <2>3. {i \in IdsOf(list) : id \in {AllIds, i}} = {id}
    BY <1>3
  <2> QED
    BY <2>2, <2>3
<1> QED
  BY <1>1, <1>2, <1>3

\* What erasing leaves behind: the list without the ids that match, or what an
\* addListener that overtook it made of the list.
LEMMA ErasedList ==
    ASSUME TypeOK, IdsInv, NEW t \in Threads, Erase(t)
    PROVE  \E type \in Types, rest \in Seq(Listeners) :
              LET gone == Matching(type, request[t].id)
                  list == handlers[type]
              IN  /\ handlers' = [handlers EXCEPT ![type] = rest]
                  /\ OnceEach(rest)
                  /\ IdsOf(rest) \subseteq IdsOf(list)
                  /\ erased' = erased \cup gone
                  /\ gone \subseteq IdsOf(list)
                  /\ \/ raced' = raced /\ IdsOf(rest) = IdsOf(list) \ gone
                     \/ raced' = raced \cup IdsOf(list)
<1> DEFINE type == request[t].type
           id   == request[t].id
           list == handlers[type]
           gone == Matching(type, id)
<1>1. /\ type \in Types /\ id \in Ids \cup {AllIds}
      /\ list \in Seq(Listeners) /\ OnceEach(list)
      /\ handlers \in [Types -> Seq(Listeners)]
      /\ torn[t] \in Tears
  BY DEF TypeOK, RequestsOK, Requests, ListenersOK, IdsInv
<1>2. gone \subseteq IdsOf(list) /\ erased' = erased \cup gone
  BY DEF Matching, Erase
<1>3. CASE UNCHANGED handlers /\ torn[t] # NoTear
  <2>1. raced' = raced \cup IdsOf(list)
    BY <1>3 DEF Erase
  <2>2. handlers' = [handlers EXCEPT ![type] = list]
    BY <1>1, <1>3
  <2> HIDE DEF type, list, gone
  <2>3. \E rest \in Seq(Listeners) :
            /\ handlers' = [handlers EXCEPT ![type] = rest]
            /\ OnceEach(rest) /\ IdsOf(rest) \subseteq IdsOf(list)
    BY <1>1, <2>2
  <2> QED
    BY <1>1, <1>2, <2>1, <2>3 DEF type, list, gone
<1>4. CASE \E seen \in Seen(t) : \E left \in Left(seen, id) :
              handlers' = [handlers EXCEPT ![type] = left]
  <2>1. PICK seen \in Seen(t) : \E left \in Left(seen, id) :
              handlers' = [handlers EXCEPT ![type] = left]
    BY <1>4
  <2>2. PICK left \in Left(seen, id) : handlers' = [handlers EXCEPT ![type] = left]
    BY <2>1
  <2>3. /\ seen \in Seq(Listeners)
        /\ Len(seen) <= Len(list)
        /\ \A k \in 1 .. Len(seen) : seen[k] = list[k]
        /\ torn[t] = NoTear => seen = list
    BY <1>1, SeenIsFront
  <2>4. OnceEach(seen) /\ IdsOf(seen) \subseteq IdsOf(list)
    BY <1>1, <2>3, FrontOnce
  <2>5. /\ left \in Seq(Listeners) /\ OnceEach(left)
        /\ IdsOf(left) = IdsOf(seen) \ {i \in IdsOf(seen) : id \in {AllIds, i}}
    BY <1>1, <2>3, <2>4, LeftOver
  <2>6. IdsOf(left) \subseteq IdsOf(list)
    BY <2>4, <2>5
  <2>7. \/ raced' = raced /\ IdsOf(left) = IdsOf(list) \ gone
        \/ raced' = raced \cup IdsOf(list)
    <3>1. CASE torn[t] = NoTear
      <4>1. raced' = raced
        BY <3>1 DEF Erase
      <4> QED
        BY <2>3, <2>5, <3>1, <4>1 DEF Matching
    <3>2. CASE torn[t] # NoTear
      BY <3>2 DEF Erase
    <3> QED
      BY <3>1, <3>2
  <2> HIDE DEF type, list, gone, id
  <2> QED
    BY <1>1, <1>2, <2>2, <2>5, <2>6, <2>7 DEF type, list, gone, id
<1> QED
  BY <1>3, <1>4 DEF Erase

\* The lists with one more listener.
LEMMA AddedList ==
    ASSUME TypeOK, NEW type \in Types, NEW kind \in Kinds,
           handlers' = [handlers EXCEPT ![type] = Append(@, [id |-> nextID, kind |-> kind])]
    PROVE  \E longer \in Seq(Listeners) :
              LET list == handlers[type]
              IN  /\ handlers' = [handlers EXCEPT ![type] = longer]
                  /\ Len(longer) = Len(list) + 1
                  /\ longer[Len(list) + 1].id = nextID
                  /\ \A k \in 1 .. Len(list) : longer[k] = list[k]
                  /\ IdsOf(longer) = IdsOf(list) \cup {nextID}
<1> DEFINE list   == handlers[type]
           new    == [id |-> nextID, kind |-> kind]
           longer == Append(list, new)
<1>1. list \in Seq(Listeners) /\ new \in Listeners
  BY EventSourceAssumption DEF EventSourceAssumption, TypeOK, ListenersOK, Listeners
<1>2. handlers' = [handlers EXCEPT ![type] = longer]
  OBVIOUS
<1>3. new.id = nextID
  OBVIOUS
<1> HIDE DEF list, new
<1>4. /\ longer \in Seq(Listeners) /\ Len(list) \in Nat
      /\ Len(longer) = Len(list) + 1 /\ longer[Len(list) + 1] = new
      /\ \A k \in 1 .. Len(list) : longer[k] = list[k]
  BY <1>1
<1> HIDE DEF longer
<1>5. DOMAIN longer = 1 .. Len(list) + 1 /\ DOMAIN list = 1 .. Len(list)
  BY <1>1, <1>4
<1>6. \A i : i \in IdsOf(longer) <=> i \in IdsOf(list) \/ i = nextID
  <2>1. ASSUME NEW i \in IdsOf(longer) PROVE i \in IdsOf(list) \/ i = nextID
    <3>1. PICK k \in 1 .. Len(list) + 1 : i = longer[k].id
      BY <1>5 DEF IdsOf
    <3>2. CASE k = Len(list) + 1
      BY <1>3, <1>4, <3>1, <3>2
    <3>3. CASE k \in 1 .. Len(list)
      BY <1>4, <1>5, <3>1, <3>3 DEF IdsOf
    <3> QED
      BY <1>4, <3>2, <3>3
  <2>2. ASSUME NEW i \in IdsOf(list) PROVE i \in IdsOf(longer)
    <3>1. PICK k \in 1 .. Len(list) : i = list[k].id
      BY <1>5 DEF IdsOf
    <3>2. k \in DOMAIN longer
      BY <1>4, <1>5
    <3> QED
      BY <1>4, <3>1, <3>2 DEF IdsOf
  <2>3. nextID \in IdsOf(longer)
    <3>1. Len(list) + 1 \in DOMAIN longer
      BY <1>4, <1>5
    <3> QED
      BY <1>3, <1>4, <3>1 DEF IdsOf
  <2> QED
    BY <2>1, <2>2, <2>3
<1> QED
  BY <1>2, <1>3, <1>4, <1>6 DEF list

\* Ids are given once, from wherever the uninitialised counter starts.
LEMMA IdsStep == TypeOK /\ IdsInv /\ [Next]_vars => IdsInv'
<1> SUFFICES ASSUME TypeOK, IdsInv, [Next]_vars PROVE IdsInv'
  OBVIOUS
<1>0. /\ handlers \in [Types -> Seq(Listeners)] /\ nextID \in Ids /\ adds \in Nat
      /\ MaxAdds \in Nat
  BY EventSourceAssumption DEF EventSourceAssumption, TypeOK, ListenersOK
<1>1. ASSUME NEW t \in Callers, NEW type \in Types, NEW kind \in Kinds,
             AddListener(t, type, kind)
      PROVE  IdsInv'
  <2>0. CASE UNCHANGED handlers /\ raced' = raced \cup {nextID}
    <3>1. /\ adds < MaxAdds /\ adds' = adds + 1
          /\ nextID' = (nextID + 1) % IdRange /\ erased' = erased
      BY <1>1 DEF AddListener
    <3>2. Used' = Used \cup {nextID}
      BY <1>0, <3>1, NextIsNew
    <3>3. Registered' = Registered /\ adds' <= MaxAdds
      BY <1>0, <2>0, <3>1 DEF Registered
    <3> QED
      BY <2>0, <3>1, <3>2, <3>3 DEF IdsInv
  <2>1. CASE /\ handlers' = [handlers EXCEPT ![type] = Append(@, [id |-> nextID, kind |-> kind])]
              /\ UNCHANGED raced
    <3> DEFINE list == handlers[type]
    <3>1. PICK longer \in Seq(Listeners) :
             /\ handlers' = [handlers EXCEPT ![type] = longer]
             /\ Len(longer) = Len(list) + 1
             /\ longer[Len(list) + 1].id = nextID
             /\ \A k \in 1 .. Len(list) : longer[k] = list[k]
             /\ IdsOf(longer) = IdsOf(list) \cup {nextID}
      BY <2>1, AddedList
    <3>2. /\ adds < MaxAdds /\ adds' = adds + 1
          /\ nextID' = (nextID + 1) % IdRange /\ erased' = erased /\ raced' = raced
      BY <1>1, <2>1 DEF AddListener
    <3>3. nextID \notin Used /\ Used' = Used \cup {nextID}
      BY <1>0, <3>2, NextIsNew
    <3>4. /\ handlers'[type] = longer
          /\ \A other \in Types \ {type} : handlers'[other] = handlers[other]
      BY <1>0, <3>1
    <3>5. Registered' = Registered \cup {nextID}
      BY <3>1, <3>4 DEF Registered
    <3>6. nextID \notin Registered /\ nextID \notin erased
      BY <3>3 DEF IdsInv
    <3>7. \A other \in Types : nextID \notin IdsOf(handlers[other])
      BY <3>6 DEF Registered
    <3>8. OnceEach(longer)
      <4> SUFFICES ASSUME NEW j \in DOMAIN longer, NEW k \in DOMAIN longer,
                          longer[j].id = longer[k].id
                   PROVE  j = k
        BY DEF OnceEach
      <4>1. /\ Len(list) \in Nat /\ DOMAIN list = 1 .. Len(list)
            /\ DOMAIN longer = 1 .. Len(list) + 1
        BY <1>0, <3>1
      <4>2. \A i \in 1 .. Len(list) : longer[i].id \in IdsOf(list)
        BY <3>1, <4>1 DEF IdsOf
      <4>3. CASE j \in 1 .. Len(list) /\ k \in 1 .. Len(list)
        BY <3>1, <4>1, <4>3 DEF IdsInv, OnceEach
      <4>4. CASE j = Len(list) + 1 \/ k = Len(list) + 1
        BY <3>1, <3>7, <4>1, <4>2, <4>4
      <4> QED
        BY <4>1, <4>3, <4>4
    <3>9. \A other \in Types : OnceEach(handlers'[other])
      BY <3>4, <3>8 DEF IdsInv
    <3>10. \A a, b \in Types : a # b => IdsOf(handlers'[a]) \cap IdsOf(handlers'[b]) = {}
      <4> SUFFICES ASSUME NEW a \in Types, NEW b \in Types, a # b
                   PROVE  IdsOf(handlers'[a]) \cap IdsOf(handlers'[b]) = {}
        OBVIOUS
      <4>1. IdsOf(handlers[a]) \cap IdsOf(handlers[b]) = {}
        BY DEF IdsInv
      <4>2. nextID \notin IdsOf(handlers[a]) /\ nextID \notin IdsOf(handlers[b])
        BY <3>7
      <4>3. IdsOf(longer) = IdsOf(handlers[type]) \cup {nextID}
        BY <3>1
      <4>4. CASE a = type
        BY <3>4, <4>1, <4>2, <4>3, <4>4
      <4>5. CASE b = type
        BY <3>4, <4>1, <4>2, <4>3, <4>5
      <4>6. CASE a # type /\ b # type
        BY <3>4, <4>1, <4>6
      <4> QED
        BY <4>4, <4>5, <4>6
    <3>11. /\ adds' <= MaxAdds
           /\ Registered' \cap erased' \subseteq raced'
           /\ Registered' \cup erased' \cup raced' = Used'
      BY <1>0, <3>2, <3>3, <3>5, <3>6 DEF IdsInv
    <3> QED
      BY <3>9, <3>10, <3>11 DEF IdsInv
  <2> QED
    BY <1>1, <2>0, <2>1 DEF AddListener
<1>2. ASSUME NEW t \in Threads, Erase(t) PROVE IdsInv'
  <2>1. PICK type \in Types, rest \in Seq(Listeners) :
           LET gone == Matching(type, request[t].id)
               list == handlers[type]
           IN  /\ handlers' = [handlers EXCEPT ![type] = rest]
               /\ OnceEach(rest)
               /\ IdsOf(rest) \subseteq IdsOf(list)
               /\ erased' = erased \cup gone
               /\ gone \subseteq IdsOf(list)
               /\ \/ raced' = raced /\ IdsOf(rest) = IdsOf(list) \ gone
                  \/ raced' = raced \cup IdsOf(list)
    BY <1>2, ErasedList
  <2> DEFINE gone == Matching(type, request[t].id)
             ids  == IdsOf(handlers[type])
  <2>2. /\ handlers'[type] = rest
        /\ \A other \in Types \ {type} : handlers'[other] = handlers[other]
    BY <1>0, <2>1
  <2>3. /\ gone \subseteq ids /\ IdsOf(rest) \subseteq ids
        /\ erased' = erased \cup gone
        /\ (raced' = raced /\ IdsOf(rest) = ids \ gone) \/ raced' = raced \cup ids
    BY <2>1
  <2> HIDE DEF gone
  <2>4. \A other \in Types \ {type} : IdsOf(handlers[other]) \cap ids = {}
    BY DEF IdsInv
  <2> DEFINE others == UNION {IdsOf(handlers[other]) : other \in Types \ {type}}
  <2>5. Registered = others \cup ids /\ others \cap ids = {}
    BY <2>4 DEF Registered
  <2>6. Registered' = others \cup IdsOf(rest)
    BY <2>2 DEF Registered
  <2>7. adds' = adds /\ Used' = Used
    BY <1>2 DEF Erase, Used
  <2>8. \A other \in Types : OnceEach(handlers'[other])
    BY <2>1, <2>2 DEF IdsInv
  <2>9. \A a, b \in Types : a # b => IdsOf(handlers'[a]) \cap IdsOf(handlers'[b]) = {}
    BY <2>2, <2>3 DEF IdsInv
  <2> HIDE DEF others, ids
  <2>10. Registered' \cap erased' \subseteq raced' /\ Registered' \cup erased' \cup raced' = Used'
    <3>1. Registered \cap erased \subseteq raced /\ Registered \cup erased \cup raced = Used
      BY DEF IdsInv
    <3>2. CASE raced' = raced /\ IdsOf(rest) = ids \ gone
      BY <3>1, <3>2, <2>3, <2>5, <2>6, <2>7
    <3>3. CASE raced' = raced \cup ids
      BY <3>1, <3>3, <2>3, <2>5, <2>6, <2>7
    <3> QED
      BY <2>3, <3>2, <3>3
  <2> QED
    BY <2>7, <2>8, <2>9, <2>10 DEF IdsInv
<1>3. CASE UNCHANGED listVars
  BY <1>3 DEF listVars, IdsInv, Registered, Used
<1> QED
  BY <1>1, <1>2, <1>3
     DEF CallErase, LockErase, TriggerEvents, LockSpawn, Spawn, Crash,
           SetDone, Return, ManagerTest, ManagerLock, Reap, ManagerUnlock,
           KillThreads, KillLock, JoinManager, JoinThreads, Next, LockStep,
           CallStep, HandlerStep, ManagerStep, KillStep, vars, listVars

\* The invariant of the ids holds of every state.
THEOREM IdsInvariance == Spec => []IdsInv
<1>1. Init => IdsInv
  <2> SUFFICES ASSUME Init PROVE IdsInv
    OBVIOUS
  <2>1. \A type \in Types : handlers[type] = <<>>
    BY DEF Init
  <2>2. \A type \in Types : IdsOf(handlers[type]) = {} /\ OnceEach(handlers[type])
    BY <2>1 DEF IdsOf, OnceEach
  <2>3. Registered = {} /\ erased = {} /\ raced = {} /\ adds = 0
    BY <2>2 DEF Registered, Init
  <2>4. nextID \in Nat
    BY EventSourceAssumption DEF EventSourceAssumption, Init, Ids
  <2>5. Used = {}
    BY <2>3, <2>4 DEF Used
  <2> QED
    BY <2>2, <2>3, <2>5, EventSourceAssumption DEF IdsInv, EventSourceAssumption
<1> QED
  BY <1>1, IdsStep, TypeCorrect, PTL DEF Spec

\* No two listeners get the same id before the counter comes round to where the
\* constructor happened to find it, so unsetListener erases what it is meant to.
THEOREM ListenersHaveOwnIds == Spec => []IdsAreUnique
<1>1. TypeOK /\ IdsInv => IdsAreUnique
  <2> SUFFICES ASSUME TypeOK, IdsInv PROVE IdsAreUnique
    OBVIOUS
  <2>0. handlers \in [Types -> Seq(Listeners)] /\ nextID \in Ids /\ adds \in Nat
    BY DEF TypeOK, ListenersOK
  <2>1. IsFiniteSet(Used) /\ Cardinality(Used) = adds /\ adds <= MaxAdds
    BY <2>0, UsedCounted DEF IdsInv
  <2>2. Cardinality(Registered \cup erased \cup raced) = adds /\ Registered \cap erased \subseteq raced
    BY <2>1 DEF IdsInv
  <2>3. \A type \in Types : Cardinality(IdsOf(handlers[type])) = Len(handlers[type])
    BY <2>0, IdsCounted DEF IdsInv
  <2> QED
    BY <2>2, <2>3 DEF IdsAreUnique
<1> QED
  BY <1>1, TypeCorrect, IdsInvariance, PTL

-----------------------------------------------------------------------------
(* Events and listeners                                                    *)

\* A push_back overtakes only an iteration, and what it pushed is at the end.
TornOK == \A t \in Threads : torn[t] # NoTear => pc[t] \in {"spawn", "erase", "dead"}

\* The listeners known at a call are still before the end that the call may
\* miss, but for those erased, or lost in a race.
KnownOK ==
    \A t \in Threads : pc[t] \in {"lockSpawn", "spawn"} =>
        LET list == handlers[request[t].type]
        IN  \A id \in request[t].known \ (erased \cup raced) :
                \E k \in 1 .. Len(list) - torn[t].pushed : list[k].id = id

EventInv == TornOK /\ KnownOK

\* The process dies as a whole.
DeadTogether == \A t \in Threads : pc[t] = "dead" <=> pc[Manager] = "dead"

\* The crash of an iteration ends every thread, and nothing else ends one so.
THEOREM ThreadsDieTogether == Spec => []DeadTogether
<1> USE EventSourceAssumption DEF EventSourceAssumption, Threads
<1>1. Init => DeadTogether
  BY DEF Init, DeadTogether
<1>2. TypeOK /\ DeadTogether /\ [Next]_vars => DeadTogether'
  <2> SUFFICES ASSUME TypeOK, DeadTogether, [Next]_vars PROVE DeadTogether'
    OBVIOUS
  <2>0. DOMAIN pc = Threads \cup {Manager} /\ PlacesOK
    BY DEF TypeOK, PlacesOK
  <2>1. ASSUME NEW t \in Threads \cup {Manager}, NEW place,
               pc[t] # "dead", place # "dead", pc' = [pc EXCEPT ![t] = place]
        PROVE  DeadTogether'
    BY <2>0, <2>1 DEF DeadTogether, PlacesOK
  <2>2. CASE \E t \in Threads : Crash(t)
    BY <2>0, <2>2 DEF Crash, DeadTogether
  <2>3. ASSUME NEW t \in Threads, Spawn(t) PROVE DeadTogether'
    <3>1. \A u \in Threads \cup {Manager} : pc[u] # "dead"
      BY <2>3 DEF Spawn, DeadTogether
    <3>2. \A u \in Threads \cup {Manager} : pc'[u] \in {"idle", "run", pc[u]}
      BY <2>0, <2>3 DEF Spawn, StartThreads, Home
    <3> QED
      BY <3>1, <3>2 DEF DeadTogether
  <2>4. CASE UNCHANGED pc
    BY <2>4 DEF DeadTogether
  <2>5. CASE \E t \in Callers, type \in Types :
                \E id \in IdsOf(handlers[type]) \cup {AllIds} : CallErase(t, type, id)
    BY <2>1, <2>5 DEF CallErase, Goto
  <2>6. CASE \E t \in Threads : LockStep(t) \/ Erase(t)
    BY <2>1, <2>6 DEF LockStep, LockErase, LockSpawn, Erase, Acquire, Release, Goto
  <2>7. CASE \E t \in Threads, type \in Types : TriggerEvents(t, type)
    BY <2>1, <2>7 DEF TriggerEvents, Goto
  <2>8. CASE \E n \in HandlerThreads : HandlerStep(n)
    BY <2>1, <2>8 DEF HandlerStep, SetDone, Return, Goto
  <2>9. CASE ManagerStep \/ ManagerLock
    BY <2>1, <2>4, <2>9 DEF ManagerStep, ManagerLock, ManagerTest, ManagerUnlock, Reap,
                            Acquire, Release, Goto
  <2>10. CASE KillThreads \/ KillLock \/ KillStep
    BY <2>1, <2>10 DEF KillStep, KillThreads, KillLock, JoinManager, JoinThreads,
                       Acquire, Release, Goto
  <2> QED
    BY <2>2, <2>3, <2>4, <2>5, <2>6, <2>7, <2>8, <2>9, <2>10
       DEF Next, CallStep, AddListener, vars
<1> QED
  BY <1>1, <1>2, TypeCorrect, PTL DEF Spec

\* Only the erasing thread is in a critical section when it erases, so that no
\* iteration loses its place.
LEMMA EventsStep ==
    TypeOK /\ LockProtects /\ DeadTogether /\ IdsInv /\ EventInv /\ [Next]_vars => EventInv'
<1> SUFFICES ASSUME TypeOK, LockProtects, DeadTogether, IdsInv, EventInv, [Next]_vars
             PROVE  EventInv'
  OBVIOUS
<1>0. /\ PlacesOK /\ handlers \in [Types -> Seq(Listeners)] /\ nextID \in Ids
      /\ request \in [Threads -> Requests] /\ torn \in [Threads -> Tears]
      /\ \A t \in Threads : request[t].type \in Types
      /\ DOMAIN pc = Threads \cup {Manager}
  BY DEF TypeOK, ListenersOK, RequestsOK, Requests, PlacesOK
<1>1. ASSUME NEW t \in Callers, NEW type \in Types, NEW kind \in Kinds,
             AddListener(t, type, kind)
      PROVE  EventInv'
  <2>1. /\ torn' = [u \in Threads |-> Torn(u, type)]
        /\ UNCHANGED <<pc, request, erased>> /\ raced \subseteq raced'
    BY <1>1 DEF AddListener
  <2>2. TornOK'
    BY <2>1 DEF EventInv, TornOK, Torn
  <2>3. ASSUME NEW u \in Threads, pc'[u] \in {"lockSpawn", "spawn"},
               NEW id \in request'[u].known \ (erased' \cup raced')
        PROVE  \E k \in 1 .. Len(handlers'[request'[u].type]) - torn'[u].pushed :
                   handlers'[request'[u].type][k].id = id
    <3>1. PICK k \in 1 .. Len(handlers[request[u].type]) - torn[u].pushed :
              handlers[request[u].type][k].id = id
      BY <2>1, <2>3 DEF EventInv, KnownOK
    <3>2. CASE UNCHANGED handlers /\ InsertionRaces(type)
      <4>1. PICK v \in Threads : pc[v] = "erase"
        BY <3>2 DEF InsertionRaces
      <4>2. pc[u] # "spawn"
        BY <4>1 DEF LockProtects, Holding
      <4>3. torn'[u] = torn[u]
        BY <2>1, <2>3, <4>2 DEF Torn
      <4> QED
        BY <2>1, <3>1, <3>2, <4>3
    <3>3. CASE handlers' = [handlers EXCEPT ![type] = Append(@, [id |-> nextID, kind |-> kind])]
      <4> DEFINE list == handlers[type]
      <4>1. PICK longer \in Seq(Listeners) :
               /\ handlers' = [handlers EXCEPT ![type] = longer]
               /\ Len(longer) = Len(list) + 1
               /\ \A j \in 1 .. Len(list) : longer[j] = list[j]
        BY <3>3, AddedList
      <4>2. CASE request[u].type # type
        <5>1. torn'[u].pushed = torn[u].pushed
          BY <1>0, <2>1, <4>2 DEF Torn, Tears
        <5> QED
          BY <1>0, <2>1, <3>1, <4>1, <4>2, <5>1
      <4>3. CASE request[u].type = type
        <5>1. handlers'[request'[u].type] = longer
          BY <1>0, <2>1, <4>1, <4>3
        <5>2. torn'[u].pushed \in {torn[u].pushed, torn[u].pushed + 1} /\ torn[u].pushed \in Nat
          BY <1>0, <2>1, <4>3 DEF Torn, Tears
        <5>3. Len(list) \in Nat
          BY <1>0
        <5>4. /\ k \in 1 .. Len(list) - torn[u].pushed /\ k \in 1 .. Len(list)
              /\ list[k].id = id
          BY <3>1, <4>3, <5>2, <5>3
        <5>5. k \in 1 .. Len(longer) - torn'[u].pushed
          <6>1. \A m, n, p, q \in Nat : m = n + 1 /\ q \in {p, p + 1} /\ k \in 1 .. n - p
                                        => k \in 1 .. m - q
            OBVIOUS
          <6>2. torn'[u].pushed \in Nat /\ Len(longer) \in Nat
            BY <4>1, <5>2, <5>3
          <6> QED
            BY <4>1, <5>2, <5>3, <5>4, <6>1, <6>2
        <5>6. longer[k].id = id
          BY <4>1, <5>4
        <5> QED
          BY <5>1, <5>5, <5>6
      <4> QED
        BY <4>2, <4>3
    <3> QED
      BY <1>1, <3>2, <3>3 DEF AddListener
  <2>4. KnownOK'
    BY <2>3 DEF KnownOK
  <2> QED
    BY <2>2, <2>4 DEF EventInv
<1>2. ASSUME NEW t \in Threads, Erase(t) PROVE EventInv'
  <2>1. PICK type \in Types, rest \in Seq(Listeners) :
           LET gone == Matching(type, request[t].id)
               list == handlers[type]
           IN  /\ handlers' = [handlers EXCEPT ![type] = rest]
               /\ OnceEach(rest)
               /\ IdsOf(rest) \subseteq IdsOf(list)
               /\ erased' = erased \cup gone
               /\ gone \subseteq IdsOf(list)
               /\ \/ raced' = raced /\ IdsOf(rest) = IdsOf(list) \ gone
                  \/ raced' = raced \cup IdsOf(list)
    BY <1>2, ErasedList
  <2>2. /\ pc[t] = "erase" /\ pc' = [pc EXCEPT ![t] = "idle"]
        /\ torn' = [torn EXCEPT ![t] = NoTear] /\ request' = [request EXCEPT ![t] = NoRequest]
    BY <1>2 DEF Erase, Release, Goto
  <2>3. TornOK'
    BY <1>0, <2>2 DEF EventInv, TornOK
  <2>4. ASSUME NEW u \in Threads, pc'[u] \in {"lockSpawn", "spawn"},
               NEW id \in request'[u].known \ (erased' \cup raced')
        PROVE  \E k \in 1 .. Len(handlers'[request'[u].type]) - torn'[u].pushed :
                   handlers'[request'[u].type][k].id = id
    <3>1. u # t /\ pc[u] = pc'[u] /\ request'[u] = request[u] /\ torn'[u] = torn[u]
      BY <1>0, <2>2, <2>4
    <3>2. pc[u] # "spawn"
      BY <2>2, <3>1 DEF LockProtects, Holding
    <3>3. torn[u] = NoTear
      BY <2>4, <3>1, <3>2 DEF EventInv, TornOK
    <3> DEFINE list == handlers[request[u].type]
    <3>4. /\ list \in Seq(Listeners) /\ handlers'[request[u].type] \in Seq(Listeners)
          /\ request[u].type \in Types
      BY <1>0, <2>1
    <3>5. id \notin erased' \cup raced' /\ id \in request[u].known \ (erased \cup raced)
      BY <2>1, <2>4, <3>1
    <3>6. id \in IdsOf(list)
      <4>1. PICK k \in 1 .. Len(list) - torn[u].pushed : list[k].id = id
        BY <2>4, <3>1, <3>5 DEF EventInv, KnownOK
      <4>2. k \in DOMAIN list
        BY <3>3, <3>4, <4>1, NothingTorn
      <4> QED
        BY <4>1, <4>2 DEF IdsOf
    <3>7. id \in IdsOf(handlers'[request[u].type])
      <4>1. CASE request[u].type = type
        BY <1>0, <2>1, <3>5, <3>6, <4>1
      <4>2. CASE request[u].type # type
        BY <1>0, <2>1, <3>4, <3>6, <4>2
      <4> QED
        BY <4>1, <4>2
    <3>8. PICK k \in DOMAIN handlers'[request[u].type] : handlers'[request[u].type][k].id = id
      BY <3>7 DEF IdsOf
    <3>9. k \in 1 .. Len(handlers'[request'[u].type]) - torn'[u].pushed
      BY <3>1, <3>3, <3>4, <3>8, NothingTorn
    <3> QED
      BY <3>1, <3>8, <3>9
  <2>5. KnownOK'
    BY <2>4 DEF KnownOK
  <2> QED
    BY <2>3, <2>5 DEF EventInv
<1>3. ASSUME NEW t \in Threads, NEW type \in Types, TriggerEvents(t, type) PROVE EventInv'
  <2> DEFINE new == [type |-> type, call |-> calls + 1, known |-> IdsOf(handlers[type]),
                     id |-> AllIds]
  <2>1. /\ pc[t] \in {"idle", "run"} /\ pc' = [pc EXCEPT ![t] = "lockSpawn"]
        /\ request' = [request EXCEPT ![t] = new]
        /\ UNCHANGED <<handlers, erased, raced, torn>>
    BY <1>3 DEF TriggerEvents, Goto, listVars
  <2>2. new.type = type /\ new.known = IdsOf(handlers[type])
    OBVIOUS
  <2> HIDE DEF new
  <2>3. TornOK'
    BY <1>0, <2>1 DEF EventInv, TornOK
  <2>4. ASSUME NEW u \in Threads, pc'[u] \in {"lockSpawn", "spawn"},
               NEW id \in request'[u].known \ (erased' \cup raced')
        PROVE  \E k \in 1 .. Len(handlers'[request'[u].type]) - torn'[u].pushed :
                   handlers'[request'[u].type][k].id = id
    <3>1. CASE u # t
      <4>1. pc[u] = pc'[u] /\ request'[u] = request[u]
        BY <1>0, <2>1, <3>1
      <4>2. id \in request[u].known \ (erased \cup raced) /\ pc[u] \in {"lockSpawn", "spawn"}
        BY <2>1, <2>4, <4>1
      <4>3. PICK k \in 1 .. Len(handlers[request[u].type]) - torn[u].pushed :
                handlers[request[u].type][k].id = id
        BY <4>2 DEF EventInv, KnownOK
      <4> QED
        BY <2>1, <4>1, <4>3
    <3>2. CASE u = t
      <4>1. request'[u] = new /\ torn[u] = NoTear
        BY <1>0, <2>1, <3>2 DEF EventInv, TornOK
      <4>2. PICK k \in DOMAIN handlers[type] : handlers[type][k].id = id
        BY <2>2, <2>4, <4>1 DEF IdsOf
      <4>3. handlers[type] \in Seq(Listeners)
        BY <1>0
      <4>4. k \in 1 .. Len(handlers[type]) - torn[u].pushed
        BY <4>1, <4>2, <4>3, NothingTorn
      <4> QED
        BY <2>1, <2>2, <4>1, <4>2, <4>4
    <3> QED
      BY <3>1, <3>2
  <2>5. KnownOK'
    BY <2>4 DEF KnownOK
  <2> QED
    BY <2>3, <2>5 DEF EventInv
<1>4. ASSUME NEW t \in Threads, Spawn(t) PROVE EventInv'
  <2>1. /\ pc[t] = "spawn" /\ torn' = [torn EXCEPT ![t] = NoTear]
        /\ request' = [request EXCEPT ![t] = NoRequest]
        /\ UNCHANGED <<handlers, erased, raced>>
    BY <1>4 DEF Spawn, listVars
  <2>2. \A u \in Threads : pc'[u] \in {"lockSpawn", "spawn"} => pc'[u] = pc[u] /\ u # t
    BY <1>0, <1>4 DEF Spawn, StartThreads, Home
  <2>3. \A u \in Threads \ {t} : pc[u] \notin {"spawn", "erase", "dead"}
    BY <2>1 DEF LockProtects, Holding, DeadTogether
  <2>4. \A u \in Threads : torn'[u] = NoTear
    BY <1>0, <2>1, <2>3 DEF EventInv, TornOK
  <2> QED
    BY <2>1, <2>2, <2>4 DEF EventInv, TornOK, KnownOK
<1>5. ASSUME NEW t \in Callers, NEW type \in Types,
             NEW id \in IdsOf(handlers[type]) \cup {AllIds}, CallErase(t, type, id)
      PROVE  EventInv'
  <2>1. /\ pc[t] = "idle" /\ pc' = [pc EXCEPT ![t] = "lockErase"] /\ t \in Threads
        /\ \A u \in Threads : u # t => request'[u] = request[u]
        /\ UNCHANGED <<handlers, erased, raced, torn>>
    BY <1>0, <1>5 DEF CallErase, Goto, listVars, Threads
  <2>2. \A u \in Threads \ {t} : pc'[u] = pc[u]
    BY <1>0, <2>1
  <2>3. pc'[t] = "lockErase" /\ torn[t] = NoTear
    BY <1>0, <2>1 DEF EventInv, TornOK
  <2> QED
    BY <2>1, <2>2, <2>3 DEF EventInv, TornOK, KnownOK
<1>6. CASE /\ UNCHANGED <<handlers, erased, raced, request, torn>>
           /\ \A u \in Threads :
                 /\ pc'[u] \in {"lockSpawn", "spawn"} => pc[u] \in {"lockSpawn", "spawn"}
                 /\ pc[u] \in {"spawn", "erase", "dead"} => pc'[u] \in {"spawn", "erase", "dead"}
  BY <1>6 DEF EventInv, TornOK, KnownOK
<1> USE DEF PlacesOK, listVars
<1>7. CASE \E t \in Threads : LockStep(t)
  BY <1>0, <1>6, <1>7 DEF LockStep, LockErase, LockSpawn, Acquire, Goto
<1>8. CASE \E t \in Threads : Crash(t)
  BY <1>0, <1>6, <1>8 DEF Crash
<1>9. CASE \E n \in HandlerThreads : HandlerStep(n)
  BY <1>0, <1>6, <1>9 DEF HandlerStep, SetDone, Return, Goto, Threads
<1>10. CASE ManagerStep \/ ManagerLock
  BY <1>0, <1>6, <1>10, EventSourceAssumption
     DEF EventSourceAssumption, ManagerStep, ManagerLock, ManagerTest, ManagerUnlock, Reap,
         Acquire, Release, Goto
<1>11. CASE KillThreads \/ KillLock \/ KillStep
  BY <1>0, <1>6, <1>11, EventSourceAssumption
     DEF EventSourceAssumption, Threads, KillStep, KillThreads, KillLock, JoinManager,
         JoinThreads, Acquire, Release, Goto
<1>12. CASE UNCHANGED vars
  BY <1>6, <1>12 DEF vars
<1> QED
  BY <1>1, <1>2, <1>3, <1>4, <1>5, <1>7, <1>8, <1>9, <1>10, <1>11, <1>12 DEF Next, CallStep

\* The invariant of the calls under way holds of every state.
THEOREM EventsInvariance == Spec => []EventInv
<1>1. Init => EventInv
  BY EventSourceAssumption DEF EventSourceAssumption, Threads, Init, EventInv, TornOK, KnownOK
<1> QED
  BY <1>1, EventsStep, TypeCorrect, TheLockProtects, ThreadsDieTogether, IdsInvariance, PTL
     DEF Spec

\* The threads that a call starts: one for each listener it does not miss.
LEMMA SpawnStarts ==
    ASSUME TypeOK, NEW t \in Threads, Spawn(t)
    PROVE  LET list == handlers[request[t].type]
               old  == Len(born)
           IN  \E number \in Nat :
                  /\ number <= Len(list)
                  /\ torn[t].moved \/ Len(list) - torn[t].pushed <= number
                  /\ DOMAIN born' = 1 .. old + number
                  /\ \A k \in 1 .. number :
                        born'[old + k] = [id   |-> list[k].id,
                                          kind |-> list[k].kind,
                                          call |-> request[t].call]
<1> DEFINE list == handlers[request[t].type]
<1>1. /\ list \in Seq(Listeners) /\ Len(born) \in Nat
      /\ handlers \in [Types -> Seq(Listeners)]
      /\ request[t].type \in Types /\ torn[t] \in Tears
  BY DEF TypeOK, ListenersOK, RequestsOK, Requests, HandlersOK
<1>2. PICK seen \in Seen(t) : StartThreads(t, seen)
  BY DEF Spawn
<1> DEFINE number == Len(seen)
<1>3. /\ number \in Nat /\ number <= Len(list)
      /\ torn[t].moved \/ Len(list) - torn[t].pushed <= number
      /\ \A k \in 1 .. number : seen[k] = list[k]
  BY <1>1, SeenIsFront
<1> HIDE DEF list
<1>4. born' = [n \in 1 .. Len(born) + number |->
                 IF n < Len(born) + 1 THEN born[n]
                 ELSE [id   |-> seen[n - Len(born)].id,
                       kind |-> seen[n - Len(born)].kind,
                       call |-> request[t].call]]
  BY <1>2 DEF StartThreads
<1> HIDE DEF number
<1>5. ASSUME NEW k \in 1 .. number
      PROVE  born'[Len(born) + k] = [id   |-> list[k].id, kind |-> list[k].kind,
                                     call |-> request[t].call]
  <2>1. /\ Len(born) + k \in 1 .. Len(born) + number
        /\ ~(Len(born) + k < Len(born) + 1)
        /\ (Len(born) + k) - Len(born) = k
    BY <1>1, <1>3
  <2> QED
    BY <1>3, <1>4, <2>1
<1>6. DOMAIN born' = 1 .. Len(born) + number
  BY <1>4
<1> QED
  BY <1>3, <1>5, <1>6 DEF list

\* Only the loop over the listeners starts threads and ends an iteration.
LEMMA OnlySpawnStarts ==
    ASSUME TypeOK, LockProtects, DeadTogether, [Next]_vars, \A t \in Threads : ~Spawn(t)
    PROVE  /\ born' = born
           /\ \A t \in Threads : pc[t] = "spawn" => pc'[t] \in {"spawn", "dead"}
<1> USE DEF TypeOK, PlacesOK, threadVars
<1>0. /\ DOMAIN pc = Threads \cup {Manager} /\ Manager \notin Threads
      /\ Callers \subseteq Threads /\ HandlerThreads \subseteq Threads /\ Owner \in Threads
  BY EventSourceAssumption DEF EventSourceAssumption, Threads
<1>1. CASE \E t \in Callers, type \in Types, kind \in Kinds : AddListener(t, type, kind)
  BY <1>1 DEF AddListener
<1>2. CASE \E t \in Callers, type \in Types :
              \E id \in IdsOf(handlers[type]) \cup {AllIds} : CallErase(t, type, id)
  BY <1>0, <1>2 DEF CallErase, Goto
<1>3. CASE \E t \in Threads : LockStep(t) \/ Erase(t)
  BY <1>0, <1>3 DEF LockStep, LockErase, LockSpawn, Erase, Acquire, Release, Goto
<1>4. CASE \E t \in Threads, type \in Types : TriggerEvents(t, type)
  BY <1>0, <1>4 DEF TriggerEvents, Goto
<1>5. CASE \E n \in HandlerThreads : HandlerStep(n)
  BY <1>0, <1>5 DEF HandlerStep, SetDone, Return, Goto
<1>6. CASE ManagerStep \/ ManagerLock
  BY <1>0, <1>6 DEF ManagerStep, ManagerLock, ManagerTest, ManagerUnlock, Reap, Acquire, Release,
                    Goto
<1>7. CASE KillThreads \/ KillLock \/ KillStep
  BY <1>0, <1>7 DEF KillStep, KillThreads, KillLock, JoinManager, JoinThreads, Acquire, Release,
                    Goto
<1>8. CASE \E t \in Threads : Crash(t)
  BY <1>0, <1>8 DEF Crash
<1>9. CASE UNCHANGED vars
  BY <1>9 DEF vars
<1> QED
  BY <1>1, <1>2, <1>3, <1>4, <1>5, <1>6, <1>7, <1>8, <1>9 DEF Next, CallStep

\* No thread is started for a listener that unsetListener or clearListeners
\* erased, also not for an event that was triggered before and waited, unless
\* an addListener had overtaken the erasing.
THEOREM ErasedNeverRuns == Spec => ErasedIsFinal
<1>1. TypeOK /\ LockProtects /\ DeadTogether /\ IdsInv /\ [Next]_vars
        => \A n \in DOMAIN born' \ Born : born'[n].id \notin erased \ raced
  <2> SUFFICES ASSUME TypeOK, LockProtects, DeadTogether, IdsInv, [Next]_vars,
                      NEW n \in DOMAIN born' \ Born
               PROVE  born'[n].id \notin erased \ raced
    OBVIOUS
  <2>1. PICK t \in Threads : Spawn(t)
    BY OnlySpawnStarts DEF Born
  <2> DEFINE list == handlers[request[t].type]
             old  == Len(born)
  <2>2. PICK number \in Nat :
            /\ number <= Len(list)
            /\ torn[t].moved \/ Len(list) - torn[t].pushed <= number
            /\ DOMAIN born' = 1 .. old + number
            /\ \A k \in 1 .. number :
                  born'[old + k] = [id   |-> list[k].id, kind |-> list[k].kind,
                                    call |-> request[t].call]
    BY <2>1, SpawnStarts
  <2>3. /\ list \in Seq(Listeners) /\ torn[t].pushed \in Nat /\ old \in Nat /\ Born = 1 .. old
        /\ request[t].type \in Types
    BY DEF TypeOK, ListenersOK, RequestsOK, Requests, HandlersOK, Born, Tears
  <2> HIDE DEF list, old
  <2>4. PICK k \in 1 .. number : n = old + k
    <3>1. n - old \in 1 .. number /\ n = old + (n - old)
      BY <2>2, <2>3
    <3> QED
      BY <3>1
  <2>5. k \in DOMAIN list
    BY <2>2, <2>3, <2>4
  <2>6. born'[n].id = list[k].id
    <3>1. born'[old + k] = [id |-> list[k].id, kind |-> list[k].kind, call |-> request[t].call]
      BY <2>2
    <3> QED
      BY <2>4, <3>1
  <2>7. list[k].id \in Registered
    BY <2>3, <2>5 DEF Registered, IdsOf, list
  <2> QED
    BY <2>6, <2>7 DEF IdsInv
<1> QED
  BY <1>1, TypeCorrect, TheLockProtects, ThreadsDieTogether, IdsInvariance, PTL
     DEF Spec, ErasedIsFinal

\* A call of triggerEvents starts a thread for every listener that was there
\* when it was called and was neither erased meanwhile nor lost in a race of an
\* addListener with an erasing, however long it waited for the lock and whatever
\* was pushed onto the list while it went through it.
THEOREM EventsReachListeners == Spec => EventReachesListeners
<1>1. TypeOK /\ LockProtects /\ DeadTogether /\ EventInv /\ [Next]_vars
        => \A t \in Threads : 
              pc[t] = "spawn" /\ pc'[t] \notin {"spawn", "dead"} /\ ~torn[t].moved =>
              \A id \in request[t].known \ (erased \cup raced) :
                  \E n \in DOMAIN born' :
                      born'[n].id = id /\ born'[n].call = request[t].call
  <2> SUFFICES ASSUME TypeOK, LockProtects, DeadTogether, EventInv, [Next]_vars,
                      NEW t \in Threads, pc[t] = "spawn", pc'[t] \notin {"spawn", "dead"},
                      ~torn[t].moved, NEW id \in request[t].known \ (erased \cup raced)
               PROVE  \E n \in DOMAIN born' :
                          born'[n].id = id /\ born'[n].call = request[t].call
    OBVIOUS
  <2>1. Spawn(t)
    <3>1. PICK u \in Threads : Spawn(u)
      BY OnlySpawnStarts
    <3>2. pc[u] = "spawn"
      BY <3>1 DEF Spawn
    <3> QED
      BY <3>1, <3>2 DEF LockProtects, Holding
  <2> DEFINE list == handlers[request[t].type]
             old  == Len(born)
  <2>2. PICK number \in Nat :
            /\ number <= Len(list)
            /\ torn[t].moved \/ Len(list) - torn[t].pushed <= number
            /\ DOMAIN born' = 1 .. old + number
            /\ \A k \in 1 .. number :
                  born'[old + k] = [id   |-> list[k].id, kind |-> list[k].kind,
                                    call |-> request[t].call]
    BY <2>1, SpawnStarts
  <2>3. list \in Seq(Listeners) /\ torn[t].pushed \in Nat /\ old \in Nat /\ Len(list) \in Nat
    BY DEF TypeOK, ListenersOK, RequestsOK, Requests, HandlersOK, Tears
  <2>4. PICK k \in 1 .. Len(list) - torn[t].pushed : list[k].id = id
    BY DEF EventInv, KnownOK
  <2> HIDE DEF list, old
  <2>5. k \in 1 .. number
    BY <2>2, <2>3, <2>4
  <2>6. old + k \in DOMAIN born'
    BY <2>2, <2>3, <2>5
  <2>7. born'[old + k].id = id /\ born'[old + k].call = request[t].call
    <3>1. born'[old + k] = [id |-> list[k].id, kind |-> list[k].kind, call |-> request[t].call]
      BY <2>2, <2>5
    <3> QED
      BY <2>4, <3>1
  <2> QED
    BY <2>6, <2>7
<1> QED
  BY <1>1, TypeCorrect, TheLockProtects, ThreadsDieTogether, EventsInvariance, PTL
     DEF Spec, EventReachesListeners

=============================================================================
