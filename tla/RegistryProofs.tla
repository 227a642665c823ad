---------------------------- MODULE RegistryProofs ----------------------------
(***************************************************************************)
(* Proofs about Registry: a mode can be reached exactly if it is started,  *)
(* reload() restores what ran, and a new run restores what was enabled     *)
(* when the last one ended, for any modes, services and runners, and any   *)
(* number of commands, signals, crashes and runs.                          *)
(*                                                                         *)
(* What a commander will do is in its stack of tasks.  The invariants say  *)
(* of these stacks what comes after what, and which jobs are still in them *)
(* while the state is not yet what it is going to be.                      *)
(***************************************************************************)
EXTENDS Registry, TLAPS

-----------------------------------------------------------------------------
(* Stacks                                                                  *)

UpSteps   == {"load", "rise", "listen", "add"}
DownSteps == {"remove", "delete", "fall", "deafen"}
Steps     == UpSteps \cup DownSteps
BootDos   == {"enable", "watch", "tell", "ready"} \cup UpSteps
RunDos    == {"start", "stop"} \cup Steps
StopDos   == {"join", "truncate", "write", "shut", "end", "reloaded"} \cup RunDos

Lists  == {"modes", "services"}
JobSet == [do : ({"disable"} \cup BootDos \cup StopDos) \ {"add", "truncate", "write"},
           on : SUBSET Units]
              \cup [do : {"add"}, on : SUBSET Modes]
              \cup [do : {"truncate", "write"}, on : SUBSET Lists]
Stacks == Seq(JobSet)

Of(dos)        == {j \in JobSet : j.do \in dos}
OfUnit(dos, u) == {j \in Of(dos) : u \in j.on}

Has(t, A) == \E k \in DOMAIN t : t[k] \in A

\* Each A is followed by a B.
Followed(t, A, B) == \A j \in DOMAIN t : t[j] \in A => \E k \in DOMAIN t : j < k /\ t[k] \in B

\* No A is followed by a B.
NoneAfter(t, A, B) == \A j, k \in DOMAIN t : j < k /\ t[j] \in A => t[k] \notin B

\* Each A that is followed by an R is followed by a B.
Before(t, A, R, B) ==
    \A j, r \in DOMAIN t : j < r /\ t[j] \in A /\ t[r] \in R
        => \E k \in DOMAIN t : j < k /\ t[k] \in B

\* The last job is an X, and the only one.
EndsIn(t, X) == t # <<>> /\ Followed(t, JobSet \ X, X) /\ NoneAfter(t, X, JobSet)

-----------------------------------------------------------------------------
(* The invariant                                                           *)

MoveSteps == {"add", "rise", "remove", "fall"}

Saves(f) == IF f = "modes" THEN Modes ELSE Services

Types ==
    /\ phase \in {"down", "booting", "running", "stopping"}
    /\ watching \subseteq Runners
    /\ task \in [Commanders -> Stacks]
    /\ started \subseteq Units
    /\ enabled \subseteq Units
    /\ saved \in [modes : SUBSET Modes, services : SUBSET Services]
    /\ promised \subseteq Units
    /\ before \subseteq Units
    /\ {meddled, interrupted, overlapped} \subseteq BOOLEAN

\* Who holds the ids of a listener has one.
CountsOK ==
    /\ killed \in BOOLEAN
    /\ hung \subseteq Commanders
    /\ grammar \subseteq Modes
    /\ coreGrammar \in {"none", "live", "deleted"}
    /\ listening \in Nat
    /\ held \in BOOLEAN
    /\ held => listening > 0
    /\ handlers \in [test : Nat, add : Nat]

\* Nothing is left of a process that ended.
DownOK ==
    phase = "down" => /\ Quiet
                      /\ started = {} /\ enabled = {} /\ grammar = {} /\ watching = {}
                      /\ handlers = NoHandlers
                      /\ ~meddled

\* A runner that ended was through with its command.
RunnersOK == \A c \in Runners : c \notin watching => Idle(c)

\* The stack of the main thread in each phase.
BootingOK(t) ==
    /\ \A k \in DOMAIN t : t[k].do \in BootDos
    /\ EndsIn(t, Of({"ready"}))
    /\ Followed(t, Of({"enable", "rise"}), Of({"watch"}))
    /\ NoneAfter(t, Of({"watch"}), Of({"watch"}))

RunningOK(t) ==
    /\ \A k \in DOMAIN t : t[k].do \in RunDos \cup {"reloaded"}
    /\ t = <<>> \/ EndsIn(t, Of({"reloaded"}))

StoppingOK(t) ==
    /\ \A k \in DOMAIN t : t[k].do \in StopDos
    /\ EndsIn(t, Of({"end"}))
    /\ NoneAfter(t, Of(StopDos \ RunDos), Of({"reloaded"}))
    /\ NoneAfter(t, Of({"join", "truncate", "write"}), Of({"join"}))
    /\ Followed(t, Of({"start", "rise"}), Of({"reloaded"}))
    /\ \A f \in Lists : /\ Followed(t, Of({"join"}), OfUnit({"write"}, f))
                        /\ Followed(t, OfUnit({"truncate"}, f), OfUnit({"write"}, f))

\* The lists of units do not change from the end of the last runner on.
MainOK(t) ==
    /\ phase = "booting"  => BootingOK(t) /\ (watching # {} => ~Has(t, Of({"watch"})))
    /\ phase = "running"  => RunningOK(t)
    /\ phase = "stopping" => /\ StoppingOK(t)
                             /\ ~Has(t, Of({"join"})) => enabled = promised /\ watching = {}

\* The steps that move one mode come together, and the root grammar and the
\* state are moved alike.
MoveOf(m)    == OfUnit(MoveSteps, m)
Moving(c, m) == Has(task[c], MoveOf(m))
NoMoveFrom(t, n, m) == \A k \in DOMAIN t : k >= n => t[k] \notin MoveOf(m)

Ahead(t, m) ==
    \/ t[1] = Job("add", {m}) /\ t[2] = Job("rise", {m}) /\ Len(t) >= 2 /\ NoMoveFrom(t, 3, m)
    \/ t[1] = Job("rise", {m}) /\ m \in grammar /\ NoMoveFrom(t, 2, m)
    \/ t[1] = Job("remove", {m}) /\ t[2] = Job("fall", {m}) /\ Len(t) >= 2 /\ NoMoveFrom(t, 3, m)
    \/ t[1] = Job("fall", {m}) /\ m \notin grammar /\ NoMoveFrom(t, 2, m)

MovesOK(m) ==
    /\ \A c, d \in Commanders : Moving(c, m) /\ Moving(d, m) => c = d
    /\ \A c \in Commanders : Moving(c, m) => Ahead(task[c], m)
    /\ (\A c \in Commanders : ~Moving(c, m)) => (m \in started <=> m \in grammar)

ReachOK == ~overlapped /\ phase # "stopping" => \A m \in OtherModes : MovesOK(m)

\* The unit u runs after what is left of reload() exactly if it did before.
RestartOK(t, u, ran, runsNow) ==
    /\ u \in ran =>
          /\ Before(t, OfUnit({"stop", "fall"}, u), Of({"reloaded"}), OfUnit({"start", "rise"}, u))
          /\ u \in runsNow \/ Has(t, OfUnit({"start", "rise"}, u))
    /\ u \notin ran => u \notin runsNow /\ ~Has(t, OfUnit({"start", "rise"}, u))

Undisturbed == ~meddled /\ Has(task[Main], Of({"reloaded"}))

ReloadOK(t) ==
    Undisturbed => /\ \A c \in Runners : Idle(c)
                   /\ \A u \in Units : RestartOK(t, u, before, started)

\* A list on disk holds what was promised, or is about to be written.
ListOK(f) ==
    \/ saved[f] = promised \cap Saves(f)
    \/ /\ phase = "stopping"
       /\ ~Has(task[Main], Of({"join"}))
       /\ Has(task[Main], OfUnit({"write"}, f))

SavedOK == ~interrupted => \A f \in Lists : ListOK(f)

\* At the start of a run: what was promised, and nothing else, is enabled or
\* will be; what is enabled, and nothing else, is started or will be.
EnablesOK(t, u, promise, on) == u \in promise \cup {Core} <=> u \in on \/ Has(t, OfUnit({"enable"}, u))
RisesOK(t, u, on, runsNow)   == u \in on <=> u \in runsNow \/ Has(t, OfUnit({"rise"}, u))

BootOK(t) ==
    phase = "booting" /\ ~meddled =>
        /\ \A c \in Runners : Idle(c)
        /\ ~interrupted => \A u \in Units : EnablesOK(t, u, promised, enabled)
        /\ \A u \in Units : RisesOK(t, u, enabled, started)

StackOK   == MainOK(task[Main])
ReloadInv == ReloadOK(task[Main])
BootInv   == BootOK(task[Main])

Inv ==
    /\ Types /\ CountsOK
    /\ DownOK /\ RunnersOK
    /\ StackOK /\ ReachOK /\ ReloadInv /\ SavedOK /\ BootInv

-----------------------------------------------------------------------------
(* Facts about stacks                                                      *)

\* The jobs of q are those of s and then those of r.
Joined(s, r, q) ==
    /\ q \in Stacks
    /\ Len(s) \in Nat
    /\ \A k \in DOMAIN s : k \in DOMAIN q /\ q[k] = s[k] /\ k \in Nat /\ k <= Len(s)
    /\ \A k \in DOMAIN r : Len(s) + k \in DOMAIN q /\ q[Len(s) + k] = r[k] /\ k \in Nat /\ k > 0
    /\ \A k \in DOMAIN q : k \in DOMAIN s \/ \E i \in DOMAIN r : k = Len(s) + i

LEMMA Pushed ==
    ASSUME NEW s \in Stacks, NEW r \in Stacks
    PROVE  Joined(s, r, s \o r)
<1>1. s \o r \in Stacks /\ Len(s) \in Nat /\ Len(r) \in Nat /\ Len(s \o r) = Len(s) + Len(r)
  BY DEF Stacks
<1>2. DOMAIN s = 1 .. Len(s) /\ DOMAIN r = 1 .. Len(r) /\ DOMAIN (s \o r) = 1 .. Len(s) + Len(r)
  BY <1>1 DEF Stacks
<1>3. \A k \in 1 .. Len(s) + Len(r) :
         (s \o r)[k] = IF k <= Len(s) THEN s[k] ELSE r[k - Len(s)]
  BY <1>1 DEF Stacks
<1>4. \A k \in DOMAIN s : k \in DOMAIN (s \o r) /\ (s \o r)[k] = s[k] /\ k \in Nat /\ k <= Len(s)
  BY <1>1, <1>2, <1>3
<1>5. ASSUME NEW k \in DOMAIN r
      PROVE  /\ Len(s) + k \in DOMAIN (s \o r) /\ (s \o r)[Len(s) + k] = r[k]
             /\ k \in Nat /\ k > 0
  <2>1. k \in 1 .. Len(r) /\ Len(s) + k \in 1 .. Len(s) + Len(r) /\ ~(Len(s) + k <= Len(s))
        /\ (Len(s) + k) - Len(s) = k
    BY <1>1, <1>2
  <2> QED
    BY <1>2, <1>3, <2>1
<1>6. ASSUME NEW k \in DOMAIN (s \o r)
      PROVE  k \in DOMAIN s \/ \E i \in DOMAIN r : k = Len(s) + i
  <2>1. k \in 1 .. Len(s) + Len(r)
    BY <1>2
  <2>2. k \in 1 .. Len(s) \/ (k - Len(s) \in 1 .. Len(r) /\ k = Len(s) + (k - Len(s)))
    BY <1>1, <2>1
  <2> QED
    BY <1>2, <2>2
<1> QED
  BY <1>1, <1>4, <1>5, <1>6 DEF Joined

LEMMA Tails ==
    ASSUME NEW t \in Stacks, t # <<>>
    PROVE  /\ Tail(t) \in Stacks
           /\ Head(t) = t[1] /\ 1 \in DOMAIN t /\ t[1] \in JobSet
           /\ \A k \in DOMAIN Tail(t) : k \in Nat /\ k > 0 /\ k + 1 \in DOMAIN t /\ Tail(t)[k] = t[k + 1]
           /\ \A k \in DOMAIN t : k \in Nat /\
                 (k = 1 \/ (k - 1 \in DOMAIN Tail(t) /\ Tail(t)[k - 1] = t[k] /\ k > 1))
<1>1. Tail(t) \in Stacks /\ Len(t) \in Nat /\ Len(t) > 0 /\ Len(Tail(t)) = Len(t) - 1 /\ Head(t) = t[1]
  BY DEF Stacks
<1>2. DOMAIN t = 1 .. Len(t) /\ DOMAIN Tail(t) = 1 .. Len(t) - 1
  BY <1>1 DEF Stacks
<1>3. \A k \in 1 .. Len(t) - 1 : Tail(t)[k] = t[k + 1]
  BY <1>1 DEF Stacks
<1>4. 1 \in DOMAIN t /\ t[1] \in JobSet
  BY <1>1, <1>2 DEF Stacks
<1>5. \A k \in DOMAIN Tail(t) : k \in Nat /\ k > 0 /\ k + 1 \in DOMAIN t /\ Tail(t)[k] = t[k + 1]
  BY <1>1, <1>2, <1>3
<1>6. ASSUME NEW k \in DOMAIN t, k # 1
      PROVE  k - 1 \in DOMAIN Tail(t) /\ Tail(t)[k - 1] = t[k] /\ k > 1
  <2>1. k \in 1 .. Len(t) /\ k - 1 \in 1 .. Len(t) - 1 /\ (k - 1) + 1 = k /\ k > 1
    BY <1>1, <1>2, <1>6
  <2> QED
    BY <1>2, <1>3, <2>1
<1>7. \A k \in DOMAIN t : k \in Nat
  BY <1>2
<1> QED
  BY <1>1, <1>4, <1>5, <1>6, <1>7

LEMMA HasPushed ==
    ASSUME NEW s \in Stacks, NEW r \in Stacks, NEW A
    PROVE  Has(s \o r, A) <=> Has(s, A) \/ Has(r, A)
<1> DEFINE q == s \o r
<1>0. Joined(s, r, q)
  BY Pushed
<1> HIDE DEF q
<1> SUFFICES Has(q, A) <=> Has(s, A) \/ Has(r, A)
  BY DEF q
<1>1. Has(s, A) => Has(q, A)
  BY <1>0 DEF Joined, Has
<1>2. Has(r, A) => Has(q, A)
  BY <1>0 DEF Joined, Has
<1>3. Has(q, A) => Has(s, A) \/ Has(r, A)
  BY <1>0 DEF Joined, Has
<1> QED
  BY <1>1, <1>2, <1>3

LEMMA HasTail ==
    ASSUME NEW t \in Stacks, t # <<>>, NEW A
    PROVE  Has(t, A) <=> t[1] \in A \/ Has(Tail(t), A)
<1>1. Has(Tail(t), A) => Has(t, A)
  BY Tails DEF Has
<1>2. t[1] \in A => Has(t, A)
  BY Tails DEF Has
<1>3. Has(t, A) => t[1] \in A \/ Has(Tail(t), A)
  BY Tails DEF Has
<1> QED
  BY <1>1, <1>2, <1>3

LEMMA FollowedPushed ==
    ASSUME NEW s \in Stacks, NEW r \in Stacks, NEW A, NEW B,
           Followed(r, A, B), Has(s, A) => Has(r, B)
    PROVE  Followed(s \o r, A, B)
<1> DEFINE q == s \o r
<1>0. Joined(s, r, q)
  BY Pushed
<1> HIDE DEF q
<1> SUFFICES Followed(q, A, B)
  BY DEF q
<1> SUFFICES ASSUME NEW j \in DOMAIN q, q[j] \in A
             PROVE  \E k \in DOMAIN q : j < k /\ q[k] \in B
  BY DEF Followed
<1>1. CASE j \in DOMAIN s
  <2>1. PICK k \in DOMAIN r : r[k] \in B
    BY <1>1, <1>0 DEF Has, Joined
  <2>2. j < Len(s) + k
    BY <1>1, <1>0 DEF Joined
  <2> QED
    BY <2>1, <2>2, <1>0 DEF Joined
<1>2. ASSUME NEW i \in DOMAIN r, j = Len(s) + i
      PROVE  \E k \in DOMAIN q : j < k /\ q[k] \in B
  <2>1. PICK k \in DOMAIN r : i < k /\ r[k] \in B
    BY <1>2, <1>0 DEF Followed, Joined
  <2>2. j < Len(s) + k
    BY <1>2, <2>1, <1>0 DEF Joined
  <2> QED
    BY <2>1, <2>2, <1>0 DEF Joined
<1> QED
  BY <1>1, <1>2, <1>0 DEF Joined

LEMMA FollowedTail ==
    ASSUME NEW t \in Stacks, t # <<>>, NEW A, NEW B, Followed(t, A, B)
    PROVE  Followed(Tail(t), A, B) /\ (t[1] \in A => Has(Tail(t), B))
<1>1. ASSUME NEW j \in DOMAIN Tail(t), Tail(t)[j] \in A
      PROVE  \E k \in DOMAIN Tail(t) : j < k /\ Tail(t)[k] \in B
  <2>1. PICK k \in DOMAIN t : j + 1 < k /\ t[k] \in B
    BY <1>1, Tails DEF Followed
  <2>2. k - 1 \in DOMAIN Tail(t) /\ Tail(t)[k - 1] = t[k] /\ j < k - 1
    BY <2>1, Tails
  <2> QED
    BY <2>1, <2>2
<1>2. ASSUME t[1] \in A PROVE Has(Tail(t), B)
  <2>1. PICK k \in DOMAIN t : 1 < k /\ t[k] \in B
    BY <1>2, Tails DEF Followed
  <2> QED
    BY <2>1, Tails DEF Has
<1> QED
  BY <1>1, <1>2 DEF Followed

LEMMA NoneAfterPushed ==
    ASSUME NEW s \in Stacks, NEW r \in Stacks, NEW A, NEW B,
           NoneAfter(s, A, B), NoneAfter(r, A, B), Has(s, A) => ~Has(r, B)
    PROVE  NoneAfter(s \o r, A, B)
<1> DEFINE q == s \o r
<1>0. Joined(s, r, q)
  BY Pushed
<1> HIDE DEF q
<1> SUFFICES NoneAfter(q, A, B)
  BY DEF q
<1> SUFFICES ASSUME NEW j \in DOMAIN q, NEW k \in DOMAIN q,
                    j < k, q[j] \in A
             PROVE  q[k] \notin B
  BY DEF NoneAfter
<1>1. CASE j \in DOMAIN s /\ k \in DOMAIN s
  BY <1>1, <1>0 DEF NoneAfter, Joined
<1>2. CASE j \in DOMAIN s /\ k \notin DOMAIN s
  <2>1. ~Has(r, B)
    BY <1>2, <1>0 DEF Has, Joined
  <2> QED
    BY <1>2, <2>1, <1>0 DEF Has, Joined
<1>3. CASE j \notin DOMAIN s
  <2>1. PICK i \in DOMAIN r : j = Len(s) + i
    BY <1>3, <1>0 DEF Joined
  <2>2. r[i] \in A
    BY <2>1, <1>0 DEF Joined
  <2>3. k \notin DOMAIN s
    BY <2>1, <1>0 DEF Joined
  <2>4. PICK l \in DOMAIN r : k = Len(s) + l
    BY <2>3, <1>0 DEF Joined
  <2>5. i < l
    BY <2>1, <2>4, <1>0 DEF Joined
  <2>6. r[l] \notin B
    BY <2>2, <2>5 DEF NoneAfter
  <2> QED
    BY <2>4, <2>6, <1>0 DEF Joined
<1> QED
  BY <1>1, <1>2, <1>3

LEMMA NoneAfterTail ==
    ASSUME NEW t \in Stacks, t # <<>>, NEW A, NEW B, NoneAfter(t, A, B)
    PROVE  NoneAfter(Tail(t), A, B) /\ (t[1] \in A => ~Has(Tail(t), B))
<1>1. ASSUME NEW j \in DOMAIN Tail(t), NEW k \in DOMAIN Tail(t), j < k, Tail(t)[j] \in A
      PROVE  Tail(t)[k] \notin B
  <2>1. j + 1 \in DOMAIN t /\ k + 1 \in DOMAIN t /\ j + 1 < k + 1
        /\ Tail(t)[j] = t[j + 1] /\ Tail(t)[k] = t[k + 1]
    BY <1>1, Tails
  <2> QED
    BY <1>1, <2>1 DEF NoneAfter
<1>2. ASSUME t[1] \in A, NEW k \in DOMAIN Tail(t)
      PROVE  Tail(t)[k] \notin B
  <2>1. 1 \in DOMAIN t /\ k + 1 \in DOMAIN t /\ 1 < k + 1 /\ Tail(t)[k] = t[k + 1]
    BY Tails
  <2> QED
    BY <1>2, <2>1 DEF NoneAfter
<1> QED
  BY <1>1, <1>2 DEF NoneAfter, Has

LEMMA BeforePushed ==
    ASSUME NEW s \in Stacks, NEW r \in Stacks, NEW A, NEW R, NEW B,
           Before(r, A, R, B), ~Has(s, R), Has(s, A) => Has(r, B)
    PROVE  Before(s \o r, A, R, B)
<1> DEFINE q == s \o r
<1>0. Joined(s, r, q)
  BY Pushed
<1> HIDE DEF q
<1> SUFFICES Before(q, A, R, B)
  BY DEF q
<1> SUFFICES ASSUME NEW j \in DOMAIN q, NEW l \in DOMAIN q, j < l,
                    q[j] \in A, q[l] \in R
             PROVE  \E k \in DOMAIN q : j < k /\ q[k] \in B
  BY DEF Before
<1>1. CASE j \in DOMAIN s
  <2>1. PICK k \in DOMAIN r : r[k] \in B
    BY <1>1, <1>0 DEF Has, Joined
  <2>2. j < Len(s) + k
    BY <1>1, <1>0 DEF Joined
  <2> QED
    BY <2>1, <2>2, <1>0 DEF Joined
<1>2. ASSUME NEW i \in DOMAIN r, j = Len(s) + i
      PROVE  \E k \in DOMAIN q : j < k /\ q[k] \in B
  <2>1. PICK m \in DOMAIN r : l = Len(s) + m
    BY <1>0 DEF Has, Joined
  <2>2. i < m
    BY <1>2, <2>1, <1>0 DEF Joined
  <2>3. PICK k \in DOMAIN r : i < k /\ r[k] \in B
    BY <1>2, <2>1, <2>2, <1>0 DEF Before, Joined
  <2>4. j < Len(s) + k
    BY <1>2, <2>3, <1>0 DEF Joined
  <2> QED
    BY <2>3, <2>4, <1>0 DEF Joined
<1> QED
  BY <1>1, <1>2, <1>0 DEF Joined

LEMMA BeforeTail ==
    ASSUME NEW t \in Stacks, t # <<>>, NEW A, NEW R, NEW B, Before(t, A, R, B)
    PROVE  Before(Tail(t), A, R, B) /\ (t[1] \in A /\ Has(Tail(t), R) => Has(Tail(t), B))
<1>1. ASSUME NEW j \in DOMAIN Tail(t), NEW l \in DOMAIN Tail(t), j < l,
             Tail(t)[j] \in A, Tail(t)[l] \in R
      PROVE  \E k \in DOMAIN Tail(t) : j < k /\ Tail(t)[k] \in B
  <2>1. j + 1 \in DOMAIN t /\ l + 1 \in DOMAIN t /\ j + 1 < l + 1
        /\ Tail(t)[j] = t[j + 1] /\ Tail(t)[l] = t[l + 1]
    BY <1>1, Tails
  <2>2. PICK k \in DOMAIN t : j + 1 < k /\ t[k] \in B
    BY <1>1, <2>1 DEF Before
  <2>3. k - 1 \in DOMAIN Tail(t) /\ Tail(t)[k - 1] = t[k] /\ j < k - 1
    BY <2>2, Tails
  <2> QED
    BY <2>2, <2>3
<1>2. ASSUME t[1] \in A, NEW l \in DOMAIN Tail(t), Tail(t)[l] \in R
      PROVE  Has(Tail(t), B)
  <2>1. 1 \in DOMAIN t /\ l + 1 \in DOMAIN t /\ 1 < l + 1 /\ Tail(t)[l] = t[l + 1]
    BY Tails
  <2>2. PICK k \in DOMAIN t : 1 < k /\ t[k] \in B
    BY <1>2, <2>1 DEF Before
  <2>3. k # 1
    BY <2>2, Tails
  <2>4. k - 1 \in DOMAIN Tail(t) /\ Tail(t)[k - 1] = t[k]
    BY <2>3, Tails
  <2> QED
    BY <2>2, <2>4 DEF Has
<1> QED
  BY <1>1, <1>2 DEF Before, Has

LEMMA EndsInPushed ==
    ASSUME NEW s \in Stacks, NEW r \in Stacks, NEW X, EndsIn(r, X), ~Has(s, X)
    PROVE  EndsIn(s \o r, X)
<1> DEFINE q == s \o r
<1>0. Joined(s, r, q)
  BY Pushed
<1> HIDE DEF q
<1> SUFFICES EndsIn(q, X)
  BY DEF q
<1>1. 1 \in DOMAIN r /\ r[1] \in JobSet
  BY Tails DEF EndsIn
<1>2. Has(r, X)
  <2>1. CASE r[1] \in X
    BY <1>1, <2>1 DEF Has
  <2>2. CASE r[1] \notin X
    BY <1>1, <2>2 DEF EndsIn, Followed, Has
  <2> QED
    BY <2>1, <2>2
<1>3. Followed(q, JobSet \ X, X)
  BY <1>2, FollowedPushed DEF EndsIn, q
<1>4. NoneAfter(q, X, JobSet)
  <2>1. NoneAfter(s, X, JobSet)
    BY DEF NoneAfter, Has
  <2> QED
    BY <2>1, NoneAfterPushed DEF EndsIn, q
<1>5. q # <<>>
  <2>1. Len(s) + 1 \in DOMAIN q
    BY <1>1, <1>0 DEF Joined
  <2>2. DOMAIN <<>> = {}
    OBVIOUS
  <2> QED
    BY <2>1, <2>2
<1> QED
  BY <1>3, <1>4, <1>5 DEF EndsIn

LEMMA EndsInTail ==
    ASSUME NEW t \in Stacks, NEW X, EndsIn(t, X)
    PROVE  (t[1] \notin X => EndsIn(Tail(t), X)) /\ (t[1] \in X => Tail(t) = <<>>)
<1>1. t # <<>> /\ Tail(t) \in Stacks /\ t[1] \in JobSet
  BY Tails DEF EndsIn
<1>2. Followed(Tail(t), JobSet \ X, X) /\ NoneAfter(Tail(t), X, JobSet)
  BY <1>1, FollowedTail, NoneAfterTail DEF EndsIn
<1>3. Tail(t) # <<>> => Has(Tail(t), JobSet)
  BY <1>1, Tails DEF Has
<1>4. ASSUME t[1] \notin X PROVE EndsIn(Tail(t), X)
  <2>1. Has(Tail(t), X)
    BY <1>1, <1>4, FollowedTail DEF EndsIn
  <2>2. Tail(t) # <<>>
    BY <2>1 DEF Has
  <2> QED
    BY <1>2, <2>2 DEF EndsIn
<1>5. ASSUME t[1] \in X PROVE Tail(t) = <<>>
  BY <1>1, <1>3, <1>5, NoneAfterTail DEF EndsIn
<1> QED
  BY <1>4, <1>5

-----------------------------------------------------------------------------
(* What an operation begins with                                           *)

LEMMA OneJob ==
    ASSUME NEW j \in JobSet
    PROVE  <<j>> \in Stacks /\ DOMAIN <<j>> = {1} /\ Len(<<j>>) = 1 /\ <<j>>[1] = j
BY DEF Stacks

LEMMA UpIs ==
    ASSUME NEW u \in Units
    PROVE  /\ Up(u) \in Stacks
           /\ \A k \in DOMAIN Up(u) : Up(u)[k].on = {u} /\ Up(u)[k].do \in UpSteps
           /\ \E k \in DOMAIN Up(u) : Up(u)[k] = Job("rise", {u})
           /\ u \in OtherModes => /\ Len(Up(u)) = 2 /\ DOMAIN Up(u) = 1 .. 2
                                  /\ Up(u)[1] = Job("add", {u}) /\ Up(u)[2] = Job("rise", {u})
<1>0. \A do \in UpSteps \cup DownSteps :
         /\ do # "add" \/ u \in Modes => Job(do, {u}) \in JobSet
         /\ Job(do, {u}).do = do /\ Job(do, {u}).on = {u}
  <2>1. \A do \in (UpSteps \cup DownSteps) \ {"add"} :
           do \in ({"disable"} \cup BootDos \cup StopDos) \ {"add", "truncate", "write"}
    BY DEF StopDos, RunDos, Steps, UpSteps, DownSteps
  <2> QED
    BY <2>1 DEF Job, JobSet
<1>1. CASE u = Core
  <2>1. Up(u) = [k \in 1 .. 3 |-> Job(<<"load", "rise", "listen">>[k], {u})]
    BY <1>1 DEF Up, Jobs
  <2>2. /\ Up(u)[1] = Job("load", {u}) /\ Up(u)[2] = Job("rise", {u})
        /\ Up(u)[3] = Job("listen", {u}) /\ DOMAIN Up(u) = 1 .. 3
    BY <2>1
  <2>3. \A k \in 1 .. 3 : k = 1 \/ k = 2 \/ k = 3
    OBVIOUS
  <2>4. \A k \in 1 .. 3 : Job(<<"load", "rise", "listen">>[k], {u}) \in JobSet
    BY <2>3, <1>0 DEF UpSteps, DownSteps
  <2>5. Up(u) \in Stacks
    BY <2>1, <2>4 DEF Stacks
  <2>6. \A k \in 1 .. 3 : Up(u)[k].on = {u} /\ Up(u)[k].do \in UpSteps
    BY <1>0, <2>2, <2>3 DEF UpSteps, DownSteps
  <2>7. u \notin OtherModes
    BY <1>1, RegistryAssumption DEF RegistryAssumption, Modes
  <2>8. \E k \in DOMAIN Up(u) : Up(u)[k] = Job("rise", {u})
    BY <2>2
  <2> QED
    BY <2>2, <2>5, <2>6, <2>7, <2>8
<1>2. CASE u # Core /\ u \in Modes
  <2>1. Up(u) = [k \in 1 .. 2 |-> Job(<<"add", "rise">>[k], {u})]
    BY <1>2 DEF Up, Jobs
  <2>2. Up(u)[1] = Job("add", {u}) /\ Up(u)[2] = Job("rise", {u}) /\ DOMAIN Up(u) = 1 .. 2
    BY <2>1
  <2>3. \A k \in 1 .. 2 : k = 1 \/ k = 2
    OBVIOUS
  <2>4. \A k \in 1 .. 2 : Job(<<"add", "rise">>[k], {u}) \in JobSet
    BY <1>2, <2>3, <1>0 DEF UpSteps, DownSteps
  <2>5. Up(u) \in Stacks /\ Len(Up(u)) = 2
    BY <2>1, <2>4 DEF Stacks
  <2>6. ASSUME NEW k \in 1 .. 2 PROVE Up(u)[k].on = {u} /\ Up(u)[k].do \in UpSteps
    <3>1. /\ Job("add", {u}).on = {u} /\ Job("add", {u}).do \in UpSteps
          /\ Job("rise", {u}).on = {u} /\ Job("rise", {u}).do \in UpSteps
      BY <1>0 DEF UpSteps
    <3>2. Up(u)[k] \in {Job("add", {u}), Job("rise", {u})}
      BY <2>2, <2>3
    <3> QED
      BY <3>1, <3>2
  <2>8. \E k \in DOMAIN Up(u) : Up(u)[k] = Job("rise", {u})
    BY <2>2
  <2> QED
    BY <2>2, <2>5, <2>6, <2>8
<1>3. CASE u # Core /\ u \notin Modes
  <2>1. Up(u) = [k \in 1 .. 1 |-> Job(<<"rise">>[k], {u})]
    BY <1>3 DEF Up, Jobs
  <2>2. Up(u)[1] = Job("rise", {u}) /\ DOMAIN Up(u) = 1 .. 1
    BY <2>1
  <2>3. \A k \in 1 .. 1 : k = 1
    OBVIOUS
  <2>4. \A k \in 1 .. 1 : Job(<<"rise">>[k], {u}) \in JobSet
    BY <2>3, <1>0 DEF UpSteps, DownSteps
  <2>5. Up(u) \in Stacks
    BY <2>1, <2>4 DEF Stacks
  <2>6. \A k \in 1 .. 1 : Up(u)[k].on = {u} /\ Up(u)[k].do \in UpSteps
    BY <1>0, <2>2, <2>3 DEF UpSteps, DownSteps
  <2>7. u \notin OtherModes
    BY <1>3, RegistryAssumption DEF RegistryAssumption, Modes
  <2>8. \E k \in DOMAIN Up(u) : Up(u)[k] = Job("rise", {u})
    BY <2>2
  <2> QED
    BY <2>2, <2>5, <2>6, <2>7, <2>8
<1> QED
  BY <1>1, <1>2, <1>3

LEMMA DownIs ==
    ASSUME NEW u \in Units
    PROVE  /\ Down(u) \in Stacks
           /\ \A k \in DOMAIN Down(u) : Down(u)[k].on = {u} /\ Down(u)[k].do \in DownSteps
           /\ u \in OtherModes => /\ Len(Down(u)) = 2 /\ DOMAIN Down(u) = 1 .. 2
                                  /\ Down(u)[1] = Job("remove", {u}) /\ Down(u)[2] = Job("fall", {u})
<1>0. \A do \in UpSteps \cup DownSteps :
         /\ do # "add" \/ u \in Modes => Job(do, {u}) \in JobSet
         /\ Job(do, {u}).do = do /\ Job(do, {u}).on = {u}
  <2>1. \A do \in (UpSteps \cup DownSteps) \ {"add"} :
           do \in ({"disable"} \cup BootDos \cup StopDos) \ {"add", "truncate", "write"}
    BY DEF StopDos, RunDos, Steps, UpSteps, DownSteps
  <2> QED
    BY <2>1 DEF Job, JobSet
<1>a. \A do \in DownSteps : Job(do, {u}).on = {u} /\ Job(do, {u}).do \in DownSteps
  BY <1>0
<1>b. {"remove", "delete", "fall", "deafen"} \subseteq DownSteps
  BY DEF DownSteps
<1>1. CASE u = Core
  <2>1. Down(u) = [k \in 1 .. 4 |-> Job(<<"remove", "delete", "fall", "deafen">>[k], {u})]
    BY <1>1 DEF Down, Jobs
  <2>2. /\ Down(u)[1] = Job("remove", {u}) /\ Down(u)[2] = Job("delete", {u})
        /\ Down(u)[3] = Job("fall", {u}) /\ Down(u)[4] = Job("deafen", {u})
        /\ DOMAIN Down(u) = 1 .. 4
    BY <2>1
  <2>3. \A k \in 1 .. 4 : k = 1 \/ k = 2 \/ k = 3 \/ k = 4
    OBVIOUS
  <2>4. \A k \in 1 .. 4 : Job(<<"remove", "delete", "fall", "deafen">>[k], {u}) \in JobSet
    BY <2>3, <1>0 DEF UpSteps, DownSteps
  <2>5. Down(u) \in Stacks
    BY <2>1, <2>4 DEF Stacks
  <2>6. \A k \in 1 .. 4 : Down(u)[k].on = {u} /\ Down(u)[k].do \in DownSteps
    BY <1>a, <1>b, <2>2, <2>3
  <2>7. u \notin OtherModes
    BY <1>1, RegistryAssumption DEF RegistryAssumption, Modes
  <2> QED
    BY <2>2, <2>5, <2>6, <2>7
<1>2. CASE u # Core /\ u \in Modes
  <2>1. Down(u) = [k \in 1 .. 2 |-> Job(<<"remove", "fall">>[k], {u})]
    BY <1>2 DEF Down, Jobs
  <2>2. Down(u)[1] = Job("remove", {u}) /\ Down(u)[2] = Job("fall", {u}) /\ DOMAIN Down(u) = 1 .. 2
    BY <2>1
  <2>3. \A k \in 1 .. 2 : k = 1 \/ k = 2
    OBVIOUS
  <2>4. \A k \in 1 .. 2 : Job(<<"remove", "fall">>[k], {u}) \in JobSet
    BY <2>3, <1>0 DEF UpSteps, DownSteps
  <2>5. Down(u) \in Stacks /\ Len(Down(u)) = 2
    BY <2>1, <2>4 DEF Stacks
  <2>6. \A k \in 1 .. 2 : Down(u)[k].on = {u} /\ Down(u)[k].do \in DownSteps
    BY <1>a, <1>b, <2>2, <2>3
  <2> QED
    BY <2>2, <2>5, <2>6
<1>3. CASE u # Core /\ u \notin Modes
  <2>1. Down(u) = [k \in 1 .. 1 |-> Job(<<"fall">>[k], {u})]
    BY <1>3 DEF Down, Jobs
  <2>2. Down(u)[1] = Job("fall", {u}) /\ DOMAIN Down(u) = 1 .. 1
    BY <2>1
  <2>3. \A k \in 1 .. 1 : k = 1
    OBVIOUS
  <2>4. \A k \in 1 .. 1 : Job(<<"fall">>[k], {u}) \in JobSet
    BY <2>3, <1>0 DEF UpSteps, DownSteps
  <2>5. Down(u) \in Stacks
    BY <2>1, <2>4 DEF Stacks
  <2>6. \A k \in 1 .. 1 : Down(u)[k].on = {u} /\ Down(u)[k].do \in DownSteps
    BY <1>a, <1>b, <2>2, <2>3
  <2>7. u \notin OtherModes
    BY <1>3, RegistryAssumption DEF RegistryAssumption, Modes
  <2> QED
    BY <2>2, <2>5, <2>6, <2>7
<1> QED
  BY <1>1, <1>2, <1>3

\* The job j is a step of the operation of h on the unit u.
StepOf(h, u, j) ==
    /\ j.on = {u}
    /\ \/ j.do \in UpSteps /\ h.do \in {"start", "enable"}
       \/ j.do \in DownSteps /\ h.do \in {"stop", "disable", "shut"}
       \/ j.do = "tell" /\ h.do \in {"enable", "disable"}

\* The steps that move the mode m, if there are any, are the first two of s.
MovesAhead(s, m) ==
    \/ NoMoveFrom(s, 1, m)
    \/ s[1] = Job("add", {m}) /\ s[2] = Job("rise", {m}) /\ Len(s) >= 2 /\ NoMoveFrom(s, 3, m)
    \/ s[1] = Job("remove", {m}) /\ s[2] = Job("fall", {m}) /\ Len(s) >= 2 /\ NoMoveFrom(s, 3, m)

\* The steps of the operation of h on u come first, then the operation on the
\* other units of h.
Begun(h, u, s) ==
    /\ h.do \in Operations /\ u \in h.on
    /\ \A k \in DOMAIN s : \/ s[k].do = h.do /\ s[k].on = h.on \ {u}
                           \/ StepOf(h, u, s[k])
    /\ \A v \in h.on \ {u} : \E k \in DOMAIN s : s[k].do = h.do /\ v \in s[k].on
    /\ h.do \in {"start", "enable"} => u \in started \/ \E k \in DOMAIN s : s[k] = Job("rise", {u})
    /\ u \in OtherModes => MovesAhead(s, u)

\* What the step list `first` of an operation on u has to satisfy.
FirstOK(h, u, s) ==
    /\ s \in Stacks
    /\ \A k \in DOMAIN s : StepOf(h, u, s[k])
    /\ h.do \in {"start", "enable"} => u \in started \/ \E k \in DOMAIN s : s[k] = Job("rise", {u})
    /\ u \in OtherModes => MovesAhead(s, u)

LEMMA NothingFirst ==
    ASSUME NEW u \in Units, NEW h \in JobSet, h.do \in {"start", "enable"} => u \in started
    PROVE  FirstOK(h, u, <<>>)
BY DEF FirstOK, Stacks, MovesAhead, NoMoveFrom

LEMMA StepsFirst ==
    ASSUME NEW u \in Units, NEW h \in JobSet, NEW x \in Stacks, NEW y \in Stacks,
           \A k \in DOMAIN x : StepOf(h, u, x[k]),
           \A k \in DOMAIN y : y[k] = Job("tell", {u}) /\ h.do \in {"enable", "disable"},
           h.do \in {"start", "enable"} => \E k \in DOMAIN x : x[k] = Job("rise", {u}),
           u \in OtherModes =>
              /\ DOMAIN x = 1 .. 2 /\ Len(x) = 2
              /\ \/ x[1] = Job("add", {u}) /\ x[2] = Job("rise", {u})
                 \/ x[1] = Job("remove", {u}) /\ x[2] = Job("fall", {u})
    PROVE  FirstOK(h, u, x \o y)
<1> DEFINE q == x \o y
<1>0. Joined(x, y, q)
  BY Pushed
<1> HIDE DEF q
<1> SUFFICES FirstOK(h, u, q)
  BY DEF q
<1>1. q \in Stacks
  BY <1>0 DEF Joined
<1>2. \A k \in DOMAIN y : StepOf(h, u, y[k]) /\ y[k].do = "tell"
  BY DEF StepOf, Job
<1>3. \A k \in DOMAIN q : StepOf(h, u, q[k])
  BY <1>0, <1>2 DEF Joined
<1>4. (\E k \in DOMAIN x : x[k] = Job("rise", {u})) => \E k \in DOMAIN q : q[k] = Job("rise", {u})
  BY <1>0 DEF Joined
<1>5. ASSUME u \in OtherModes PROVE MovesAhead(q, u)
  <2>1. 1 \in DOMAIN q /\ 2 \in DOMAIN q /\ q[1] = x[1] /\ q[2] = x[2] /\ DOMAIN x = 1 .. 2
    BY <1>0, <1>5 DEF Joined
  <2>2. Len(q) >= 2
    BY <1>1, <2>1 DEF Stacks
  <2>3. ASSUME NEW k \in DOMAIN q, k >= 3 PROVE q[k] \notin MoveOf(u)
    <3>1. k \notin DOMAIN x
      BY <2>1, <2>3
    <3>2. PICK i \in DOMAIN y : k = Len(x) + i
      BY <1>0, <3>1 DEF Joined
    <3>3. q[k].do = "tell"
      BY <1>0, <1>2, <3>2 DEF Joined
    <3> QED
      BY <3>3 DEF MoveOf, OfUnit, Of, MoveSteps
  <2> QED
    BY <1>5, <2>1, <2>2, <2>3 DEF MovesAhead, NoMoveFrom
<1> QED
  BY <1>1, <1>3, <1>4, <1>5 DEF FirstOK

LEMMA RestIs ==
    ASSUME NEW h \in JobSet, NEW u \in Units, h.do \in Operations
    PROVE  /\ Ask(h.do, h.on \ {u}) \in Stacks
           /\ \A k \in DOMAIN Ask(h.do, h.on \ {u}) :
                 /\ Ask(h.do, h.on \ {u})[k].do = h.do
                 /\ Ask(h.do, h.on \ {u})[k].on = h.on \ {u}
           /\ \A v \in h.on \ {u} : \E k \in DOMAIN Ask(h.do, h.on \ {u}) :
                 /\ Ask(h.do, h.on \ {u})[k].do = h.do
                 /\ v \in Ask(h.do, h.on \ {u})[k].on
<1> DEFINE left == h.on \ {u}
<1>1. Job(h.do, left) \in JobSet /\ Job(h.do, left).do = h.do /\ Job(h.do, left).on = left
  BY DEF Job, JobSet
<1>2. CASE left = {}
  <2>1. Ask(h.do, left) = <<>>
    BY <1>2 DEF Ask
  <2>2. Ask(h.do, left) \in Stacks /\ DOMAIN Ask(h.do, left) = {}
    <3>1. <<>> \in Stacks
      BY DEF Stacks
    <3>2. DOMAIN <<>> = {}
      OBVIOUS
    <3> QED
      BY <2>1, <3>1, <3>2
  <2> HIDE DEF left
  <2> QED
    BY <1>2, <2>2 DEF left
<1>3. CASE left # {}
  <2>1. Ask(h.do, left) = <<Job(h.do, left)>>
    BY <1>3 DEF Ask
  <2>2. /\ Ask(h.do, left) \in Stacks /\ DOMAIN Ask(h.do, left) = {1}
        /\ Ask(h.do, left)[1] = Job(h.do, left)
    BY <1>1, <2>1, OneJob
  <2> HIDE DEF left
  <2>3. /\ \A k \in DOMAIN Ask(h.do, left) :
              Ask(h.do, left)[k].do = h.do /\ Ask(h.do, left)[k].on = left
        /\ \A v \in left : \E k \in DOMAIN Ask(h.do, left) :
              Ask(h.do, left)[k].do = h.do /\ v \in Ask(h.do, left)[k].on
    BY <1>1, <2>2
  <2> QED
    BY <2>2, <2>3 DEF left
<1> QED
  BY <1>2, <1>3

LEMMA BegunWith ==
    ASSUME NEW u \in Units, NEW h \in JobSet, NEW first, NEW rest \in Stacks,
           FirstOK(h, u, first), h.do \in Operations, u \in h.on,
           \A k \in DOMAIN rest : rest[k].do = h.do /\ rest[k].on = h.on \ {u},
           \A v \in h.on \ {u} : \E k \in DOMAIN rest : rest[k].do = h.do /\ v \in rest[k].on
    PROVE  first \o rest \in Stacks /\ Begun(h, u, first \o rest)
<1> DEFINE s == first \o rest
<1>0. Joined(first, rest, s) /\ first \in Stacks
  BY Pushed DEF FirstOK
<1> HIDE DEF s
<1>1. s \in Stacks
  BY <1>0 DEF Joined
<1>2. \A k \in DOMAIN s : (s[k].do = h.do /\ s[k].on = h.on \ {u}) \/ StepOf(h, u, s[k])
  BY <1>0 DEF Joined, FirstOK
<1>3. \A v \in h.on \ {u} : \E k \in DOMAIN s : s[k].do = h.do /\ v \in s[k].on
  BY <1>0 DEF Joined
<1>4. h.do \in {"start", "enable"} => u \in started \/ \E k \in DOMAIN s : s[k] = Job("rise", {u})
  BY <1>0 DEF Joined, FirstOK
<1>5. ASSUME u \in OtherModes PROVE MovesAhead(s, u)
  <2>1. \A k \in DOMAIN rest : rest[k] \notin MoveOf(u)
    BY DEF MoveOf, OfUnit, Of, MoveSteps, Operations
  <2>2. MovesAhead(first, u)
    BY <1>5 DEF FirstOK
  <2>3. ASSUME NEW n \in {1, 3}, NoMoveFrom(first, n, u) PROVE NoMoveFrom(s, n, u)
    BY <1>0, <2>1, <2>3 DEF Joined, NoMoveFrom
  <2>4. Len(first) >= 2 => /\ 1 \in DOMAIN first /\ 2 \in DOMAIN first
    BY <1>0 DEF Stacks
  <2>5. Len(first) >= 2 => /\ s[1] = first[1] /\ s[2] = first[2] /\ 2 \in DOMAIN s
    BY <1>0, <2>4 DEF Joined
  <2>6. Len(first) >= 2 => Len(s) >= 2
    BY <1>1, <2>5 DEF Stacks
  <2> QED
    BY <2>2, <2>3, <2>5, <2>6 DEF MovesAhead
<1> QED
  BY <1>1, <1>2, <1>3, <1>4, <1>5 DEF Begun, s

LEMMA BeginsWith ==
    ASSUME Types, NEW c \in Commanders, NEW u \in Units, Begin(c, u)
    PROVE  \E s \in Stacks : /\ Begun(Head(task[c]), u, s)
                             /\ task' = [task EXCEPT ![c] = s \o Tail(task[c])]
<1> DEFINE h    == Head(task[c])
           rest == Ask(h.do, h.on \ {u})
           up   == h.do \in {"start", "enable"} /\ (u \in Services \/ u \notin started)
           down == h.do \in {"stop", "disable", "shut"}
                       /\ (u \in started \/ (u \in Services /\ h.do # "shut"))
           tell == IF h.do \in {"enable", "disable"} THEN <<Job("tell", {u})>> ELSE <<>>
           first == CASE up -> Up(u) \o tell [] down -> Down(u) \o tell [] OTHER -> <<>>
<1>1. task[c] \in Stacks /\ task[c] # <<>> /\ h \in JobSet /\ h.do \in Operations /\ u \in h.on
  <2>1. task[c] \in Stacks
    BY DEF Types
  <2>2. task[c] # <<>> /\ h.do \in Operations /\ u \in h.on
    BY DEF Begin, Idle
  <2> QED
    BY <2>1, <2>2, Tails
<1>2. task' = [task EXCEPT ![c] = (first \o rest) \o Tail(task[c])]
  BY DEF Begin, Replace
<1>3. tell \in Stacks /\ \A k \in DOMAIN tell :
         tell[k] = Job("tell", {u}) /\ h.do \in {"enable", "disable"}
  <2>1. Job("tell", {u}) \in JobSet
    BY DEF Job, JobSet, BootDos
  <2>2. CASE h.do \in {"enable", "disable"}
    <3>1. tell = <<Job("tell", {u})>>
      BY <2>2
    <3> QED
      BY <2>1, <2>2, <3>1, OneJob
  <2>3. CASE h.do \notin {"enable", "disable"}
    <3>1. tell = <<>>
      BY <2>3
    <3> QED
      BY <3>1 DEF Stacks
  <2> QED
    BY <2>2, <2>3
<1> HIDE DEF tell
<1>4. FirstOK(h, u, first)
  <2>1. CASE up
    <3>1. first = Up(u) \o tell
      BY <2>1
    <3>2. h.do \in {"start", "enable"}
      BY <2>1
    <3>3. \A k \in DOMAIN Up(u) : StepOf(h, u, Up(u)[k])
      BY <3>2, UpIs DEF StepOf
    <3>4. Up(u) \in Stacks /\ \E k \in DOMAIN Up(u) : Up(u)[k] = Job("rise", {u})
      BY UpIs
    <3>5. u \in OtherModes => /\ DOMAIN Up(u) = 1 .. 2 /\ Len(Up(u)) = 2
                              /\ Up(u)[1] = Job("add", {u}) /\ Up(u)[2] = Job("rise", {u})
      BY UpIs
    <3> HIDE DEF h
    <3>6. FirstOK(h, u, Up(u) \o tell)
      BY <1>1, <1>3, <3>3, <3>4, <3>5, StepsFirst
    <3> QED
      BY <3>1, <3>6
  <2>2. CASE ~up /\ down
    <3>1. first = Down(u) \o tell
      BY <2>2
    <3>2. h.do \in {"stop", "disable", "shut"}
      BY <2>2
    <3>3. \A k \in DOMAIN Down(u) : StepOf(h, u, Down(u)[k])
      BY <3>2, DownIs DEF StepOf
    <3>4. Down(u) \in Stacks
      BY DownIs
    <3>5. u \in OtherModes => /\ DOMAIN Down(u) = 1 .. 2 /\ Len(Down(u)) = 2
                              /\ Down(u)[1] = Job("remove", {u}) /\ Down(u)[2] = Job("fall", {u})
      BY DownIs
    <3> HIDE DEF h
    <3>6. FirstOK(h, u, Down(u) \o tell)
      BY <1>1, <1>3, <3>2, <3>3, <3>4, <3>5, StepsFirst
    <3> QED
      BY <3>1, <3>6
  <2>3. CASE ~up /\ ~down
    <3>1. first = <<>>
      BY <2>3
    <3>2. h.do \in {"start", "enable"} => u \in started
      BY <2>3
    <3> QED
      BY <1>1, <3>1, <3>2, NothingFirst
  <2> QED
    BY <2>1, <2>2, <2>3
<1>5. rest \in Stacks
      /\ (\A k \in DOMAIN rest : rest[k].do = h.do /\ rest[k].on = h.on \ {u})
      /\ (\A v \in h.on \ {u} : \E k \in DOMAIN rest : rest[k].do = h.do /\ v \in rest[k].on)
  BY <1>1, RestIs
<1> HIDE DEF first, rest, h
<1>6. first \o rest \in Stacks /\ Begun(h, u, first \o rest)
  BY <1>1, <1>4, <1>5, BegunWith
<1> QED
  BY <1>2, <1>6 DEF h

-----------------------------------------------------------------------------
(* The steps of a commander                                                *)

\* The head h of a stack is a step, which is taken.
Taken(h) ==
    /\ h.do \in Steps \cup {"tell"}
    /\ started' = IF h.do = "rise" THEN started \cup h.on
                  ELSE IF h.do = "fall" THEN started \ h.on
                  ELSE started
    /\ grammar' = IF h.do = "add" THEN grammar \cup h.on
                  ELSE IF h.do = "remove" THEN grammar \ h.on
                  ELSE grammar
    /\ UNCHANGED <<enabled, overlapped>>

\* The head h of the stack of c is an operation, which begins on the unit u.
Opened(c, h, u) ==
    /\ enabled' = IF h.do = "enable" THEN enabled \cup {u}
                  ELSE IF h.do = "disable" THEN enabled \ {u}
                  ELSE enabled
    /\ overlapped' = (overlapped \/ Shared(c, u))
    /\ UNCHANGED <<started, grammar>>

StepKind(c, h, s) ==
    \/ s = <<>> /\ Taken(h)
    \/ \E u \in Units : Begun(h, u, s) /\ Opened(c, h, u)

StepMoves(c, t, s) ==
    /\ s \in Stacks
    /\ task' = [task EXCEPT ![c] = s \o Tail(t)]
    /\ StepKind(c, t[1], s)
    /\ UNCHANGED <<phase, watching, saved, promised, interrupted, before, meddled>>

LEMMA HeadIs ==
    ASSUME Types, NEW c \in Commanders, ~Idle(c)
    PROVE  /\ task[c] \in Stacks /\ task[c] # <<>>
           /\ Head(task[c]) = task[c][1] /\ task[c][1] \in JobSet /\ Tail(task[c]) \in Stacks
<1>1. task[c] \in Stacks /\ task[c] # <<>>
  BY DEF Types, Idle
<1> QED
  BY <1>1, Tails

LEMMA StepsMove ==
    ASSUME Types, NEW c \in Commanders, Step(c)
    PROVE  ~Idle(c) /\ \E s \in Stacks : StepMoves(c, task[c], s)
<1> DEFINE Rest == UNCHANGED <<phase, watching, saved, promised, interrupted, before, meddled>>
<1>0. <<>> \in Stacks
  BY DEF Stacks
<1>1. ASSUME NEW u \in Units, Begin(c, u)
      PROVE  ~Idle(c) /\ \E s \in Stacks : StepMoves(c, task[c], s)
  <2>1. ~Idle(c) /\ Head(task[c]) = task[c][1]
    BY <1>1, HeadIs DEF Begin
  <2>2. PICK s \in Stacks : /\ Begun(Head(task[c]), u, s)
                            /\ task' = [task EXCEPT ![c] = s \o Tail(task[c])]
    BY <1>1, BeginsWith
  <2>3. Opened(c, Head(task[c]), u) /\ Rest
    BY <1>1 DEF Begin, Opened, processVars, boundVars
  <2>4. StepKind(c, task[c][1], s)
    BY <2>1, <2>2, <2>3 DEF StepKind
  <2>5. StepMoves(c, task[c], s)
    BY <2>2, <2>3, <2>4 DEF StepMoves
  <2> QED
    BY <2>1, <2>5
<1>2. ASSUME Add(c) \/ Remove(c) \/ Rise(c) \/ Fall(c) \/ Load(c) \/ Delete(c) \/ Listen(c)
             \/ Deafen(c) \/ Tell(c)
      PROVE  ~Idle(c) /\ \E s \in Stacks : StepMoves(c, task[c], s)
  <2>0. ~Idle(c)
    BY <1>2 DEF Add, Remove, Rise, Fall, Load, Delete, Listen, Deafen, Tell, Do
  <2>1. Head(task[c]) = task[c][1]
    BY <2>0, HeadIs
  <2>2. task' = [task EXCEPT ![c] = <<>> \o Tail(task[c])] /\ Rest
    BY <1>2 DEF Add, Remove, Rise, Fall, Load, Delete, Listen, Deafen, Tell, Pop, Replace,
       processVars, boundVars, historyVars
  <2> DEFINE h == Head(task[c])
  <2>3. CASE Add(c)
    <3>1. h.do = "add" /\ grammar' = grammar \cup h.on /\ UNCHANGED <<started, enabled, overlapped>>
      BY <2>3 DEF Add, Do, unitVars, historyVars
    <3> QED
      BY <2>0, <2>1, <2>2, <3>1, <1>0 DEF StepMoves, StepKind, Taken, Steps, UpSteps
  <2>4. CASE Remove(c)
    <3>1. h.do = "remove" /\ grammar' = grammar \ h.on /\ UNCHANGED <<started, enabled, overlapped>>
      BY <2>4 DEF Remove, Do, unitVars, historyVars
    <3> QED
      BY <2>0, <2>1, <2>2, <3>1, <1>0 DEF StepMoves, StepKind, Taken, Steps, DownSteps
  <2>5. CASE Rise(c)
    <3>1. h.do = "rise" /\ started' = started \cup h.on /\ UNCHANGED <<grammar, enabled, overlapped>>
      BY <2>5 DEF Rise, Do, historyVars
    <3> QED
      BY <2>0, <2>1, <2>2, <3>1, <1>0 DEF StepMoves, StepKind, Taken, Steps, UpSteps
  <2>6. CASE Fall(c)
    <3>1. h.do = "fall" /\ started' = started \ h.on /\ UNCHANGED <<grammar, enabled, overlapped>>
      BY <2>6 DEF Fall, Do, historyVars
    <3> QED
      BY <2>0, <2>1, <2>2, <3>1, <1>0 DEF StepMoves, StepKind, Taken, Steps, DownSteps
  <2>7. CASE Load(c) \/ Delete(c) \/ Listen(c) \/ Deafen(c) \/ Tell(c)
    <3>1. h.do \in {"load", "delete", "listen", "deafen", "tell"}
          /\ UNCHANGED <<grammar, started, enabled, overlapped>>
      BY <2>7 DEF Load, Delete, Listen, Deafen, Tell, Do, unitVars, historyVars
    <3> QED
      BY <2>0, <2>1, <2>2, <3>1, <1>0 DEF StepMoves, StepKind, Taken, Steps, UpSteps, DownSteps
  <2> QED
    BY <1>2, <2>3, <2>4, <2>5, <2>6, <2>7
<1> QED
  BY <1>1, <1>2 DEF Step

LEMMA PoppedIs ==
    ASSUME Types, NEW c \in Commanders, ~Idle(c), Pop(c)
    PROVE  task' = [task EXCEPT ![c] = Tail(task[c])]
<1>1. Tail(task[c]) \in Stacks
  BY HeadIs
<1>2. <<>> \o Tail(task[c]) = Tail(task[c])
  BY <1>1 DEF Stacks
<1> QED
  BY <1>2 DEF Pop, Replace

LEMMA TasksAre ==
    ASSUME Types, NEW c \in Commanders, NEW q \in Stacks, task' = [task EXCEPT ![c] = q]
    PROVE  /\ task' \in [Commanders -> Stacks]
           /\ task'[c] = q
           /\ \A d \in Commanders \ {c} : task'[d] = task[d]
BY DEF Types

\* What a step leaves in the stacks.
LEMMA StepLeaves ==
    ASSUME Types, NEW c \in Commanders, Step(c)
    PROVE  \E s \in Stacks :
              /\ StepMoves(c, task[c], s)
              /\ task' \in [Commanders -> Stacks]
              /\ task'[c] = s \o Tail(task[c])
              /\ \A d \in Commanders \ {c} : task'[d] = task[d]
<1>1. PICK s \in Stacks : StepMoves(c, task[c], s)
  BY StepsMove
<1>2. Tail(task[c]) \in Stacks
  BY StepsMove, HeadIs
<1> DEFINE q == s \o Tail(task[c])
<1>3. q \in Stacks
  BY <1>2, Pushed DEF Joined
<1>4. task' = [task EXCEPT ![c] = q]
  BY <1>1 DEF StepMoves
<1> HIDE DEF q
<1>5. task' \in [Commanders -> Stacks] /\ task'[c] = q /\ \A d \in Commanders \ {c} : task'[d] = task[d]
  BY <1>3, <1>4, TasksAre
<1> QED
  BY <1>1, <1>5 DEF q

LEMMA AskIs ==
    ASSUME NEW op \in Operations, NEW U \in SUBSET Units
    PROVE  /\ Ask(op, U) \in Stacks
           /\ \A k \in DOMAIN Ask(op, U) : Ask(op, U)[k] = Job(op, U)
           /\ \A u \in Units : Has(Ask(op, U), OfUnit({op}, u)) <=> u \in U
<1>1. Job(op, U) \in JobSet /\ Job(op, U).do = op /\ Job(op, U).on = U
  BY DEF Job, JobSet, Operations, BootDos, StopDos, RunDos
<1>2. CASE U = {}
  <2>1. Ask(op, U) = <<>>
    BY <1>2 DEF Ask
  <2>2. <<>> \in Stacks
    BY DEF Stacks
  <2>3. DOMAIN <<>> = {}
    OBVIOUS
  <2> QED
    BY <1>2, <2>1, <2>2, <2>3 DEF Has
<1>3. CASE U # {}
  <2>1. Ask(op, U) = <<Job(op, U)>>
    BY <1>3 DEF Ask
  <2>2. Ask(op, U) \in Stacks /\ DOMAIN Ask(op, U) = {1} /\ Ask(op, U)[1] = Job(op, U)
    BY <1>1, <2>1, OneJob
  <2> QED
    BY <1>1, <2>2 DEF Has, OfUnit, Of
<1> QED
  BY <1>2, <1>3

-----------------------------------------------------------------------------
(* The stacks of the main thread                                           *)

LEMMA BootingPushed ==
    ASSUME NEW s \in Stacks, NEW r \in Stacks, BootingOK(r),
           \A k \in DOMAIN s : s[k].do \in {"enable", "tell"} \cup UpSteps,
           Has(s, Of({"enable", "rise"})) => Has(r, Of({"watch"}))
    PROVE  BootingOK(s \o r) /\ (Has(s \o r, Of({"watch"})) <=> Has(r, Of({"watch"})))
<1> DEFINE q == s \o r
<1>0. Joined(s, r, q)
  BY Pushed
<1>1. ~Has(s, Of({"ready"})) /\ ~Has(s, Of({"watch"}))
  BY DEF Has, Of, UpSteps
<1>2. \A k \in DOMAIN q : q[k].do \in BootDos
  <2> HIDE DEF q
  <2> QED
    BY <1>0 DEF Joined, BootingOK, BootDos
<1>3. EndsIn(q, Of({"ready"}))
  BY <1>1, EndsInPushed DEF BootingOK
<1>4. Followed(q, Of({"enable", "rise"}), Of({"watch"}))
  BY FollowedPushed DEF BootingOK
<1>5. NoneAfter(q, Of({"watch"}), Of({"watch"}))
  <2>1. NoneAfter(s, Of({"watch"}), Of({"watch"}))
    BY <1>1 DEF NoneAfter, Has
  <2> QED
    BY <1>1, <2>1, NoneAfterPushed DEF BootingOK
<1>6. Has(q, Of({"watch"})) <=> Has(r, Of({"watch"}))
  BY <1>1, HasPushed
<1> HIDE DEF q
<1>7. BootingOK(q)
  BY <1>2, <1>3, <1>4, <1>5 DEF BootingOK
<1> QED
  BY <1>6, <1>7 DEF q

LEMMA BootingTail ==
    ASSUME NEW t \in Stacks, BootingOK(t)
    PROVE  /\ t # <<>>
           /\ t[1].do # "ready" => BootingOK(Tail(t))
           /\ t[1].do = "ready" => Tail(t) = <<>>
           /\ t[1].do \in {"enable", "rise"} => Has(Tail(t), Of({"watch"}))
           /\ t[1].do = "watch" => ~Has(Tail(t), Of({"watch"}))
<1>1. t # <<>>
  BY DEF BootingOK, EndsIn
<1>2. Tail(t) \in Stacks /\ t[1] \in JobSet
  BY <1>1, Tails
<1>3. \A k \in DOMAIN Tail(t) : Tail(t)[k].do \in BootDos
  BY <1>1, Tails DEF BootingOK
<1>4. (t[1] \notin Of({"ready"}) => EndsIn(Tail(t), Of({"ready"})))
      /\ (t[1] \in Of({"ready"}) => Tail(t) = <<>>)
  BY EndsInTail DEF BootingOK
<1>5. /\ Followed(Tail(t), Of({"enable", "rise"}), Of({"watch"}))
      /\ t[1] \in Of({"enable", "rise"}) => Has(Tail(t), Of({"watch"}))
  BY <1>1, FollowedTail DEF BootingOK
<1>6. /\ NoneAfter(Tail(t), Of({"watch"}), Of({"watch"}))
      /\ t[1] \in Of({"watch"}) => ~Has(Tail(t), Of({"watch"}))
  BY <1>1, NoneAfterTail DEF BootingOK
<1>7. \A A : t[1] \in Of(A) <=> t[1].do \in A
  BY <1>2 DEF Of
<1>8. t[1].do # "ready" => BootingOK(Tail(t))
  BY <1>3, <1>4, <1>5, <1>6, <1>7 DEF BootingOK
<1> QED
  BY <1>1, <1>4, <1>5, <1>6, <1>7, <1>8

LEMMA RunningPushed ==
    ASSUME NEW s \in Stacks, NEW r \in Stacks, RunningOK(r), r # <<>>,
           \A k \in DOMAIN s : s[k].do \in RunDos
    PROVE  RunningOK(s \o r)
<1> DEFINE q == s \o r
<1>0. Joined(s, r, q)
  BY Pushed
<1>1. ~Has(s, Of({"reloaded"}))
  BY DEF Has, Of, RunDos, Steps, UpSteps, DownSteps
<1>2. EndsIn(q, Of({"reloaded"}))
  BY <1>1, EndsInPushed DEF RunningOK
<1>3. \A k \in DOMAIN q : q[k].do \in RunDos \cup {"reloaded"}
  <2> HIDE DEF q
  <2> QED
    BY <1>0 DEF Joined, RunningOK
<1> HIDE DEF q
<1>4. RunningOK(q)
  BY <1>2, <1>3 DEF RunningOK
<1> QED
  BY <1>4 DEF q

LEMMA RunningTail ==
    ASSUME NEW t \in Stacks, t # <<>>, RunningOK(t)
    PROVE  RunningOK(Tail(t)) /\ (t[1].do # "reloaded" => Tail(t) # <<>>)
<1>2. Tail(t) \in Stacks /\ t[1] \in JobSet
  BY Tails
<1>3. \A k \in DOMAIN Tail(t) : Tail(t)[k].do \in RunDos \cup {"reloaded"}
  BY Tails DEF RunningOK
<1>4. (t[1] \notin Of({"reloaded"}) => EndsIn(Tail(t), Of({"reloaded"})))
      /\ (t[1] \in Of({"reloaded"}) => Tail(t) = <<>>)
  BY EndsInTail DEF RunningOK
<1>5. t[1] \in Of({"reloaded"}) <=> t[1].do = "reloaded"
  BY <1>2 DEF Of
<1> QED
  BY <1>3, <1>4, <1>5 DEF RunningOK, EndsIn

LEMMA StoppingPushed ==
    ASSUME NEW s \in Stacks, NEW r \in Stacks, StoppingOK(r),
           \A k \in DOMAIN s : s[k].do \in {"shut"} \cup RunDos,
           Has(s, Of({"shut"})) => ~Has(r, Of({"reloaded"})),
           Has(s, Of({"start", "rise"})) => Has(r, Of({"reloaded"}))
    PROVE  StoppingOK(s \o r) /\ (Has(s \o r, Of({"join"})) <=> Has(r, Of({"join"})))
<1> DEFINE q == s \o r
<1>0. Joined(s, r, q)
  BY Pushed
<1>1. /\ ~Has(s, Of({"join"})) /\ ~Has(s, Of({"join", "truncate", "write"})) /\ ~Has(s, Of({"end"}))
      /\ ~Has(s, Of({"reloaded"}))
      /\ \A f \in Lists : ~Has(s, OfUnit({"truncate"}, f))
  BY DEF Has, Of, OfUnit, RunDos, Steps, UpSteps, DownSteps
<1>2. Has(s, Of(StopDos \ RunDos)) => Has(s, Of({"shut"}))
  BY DEF Has, Of
<1>3. \A k \in DOMAIN q : q[k].do \in StopDos
  <2> HIDE DEF q
  <2> QED
    BY <1>0 DEF Joined, StoppingOK, StopDos
<1>4. EndsIn(q, Of({"end"}))
  BY <1>1, EndsInPushed DEF StoppingOK
<1>5. NoneAfter(q, Of(StopDos \ RunDos), Of({"reloaded"}))
  <2>1. NoneAfter(s, Of(StopDos \ RunDos), Of({"reloaded"}))
    BY <1>1 DEF NoneAfter, Has
  <2> QED
    BY <1>2, <2>1, NoneAfterPushed DEF StoppingOK
<1>6. NoneAfter(q, Of({"join", "truncate", "write"}), Of({"join"}))
  <2>1. NoneAfter(s, Of({"join", "truncate", "write"}), Of({"join"}))
    BY <1>1 DEF NoneAfter, Has
  <2> QED
    BY <1>1, <2>1, NoneAfterPushed DEF StoppingOK
<1>7. Followed(q, Of({"start", "rise"}), Of({"reloaded"}))
  BY FollowedPushed DEF StoppingOK
<1>8. ASSUME NEW f \in Lists
      PROVE  /\ Followed(q, Of({"join"}), OfUnit({"write"}, f))
             /\ Followed(q, OfUnit({"truncate"}, f), OfUnit({"write"}, f))
  <2>1. Followed(r, Of({"join"}), OfUnit({"write"}, f))
        /\ Followed(r, OfUnit({"truncate"}, f), OfUnit({"write"}, f))
    BY DEF StoppingOK
  <2> QED
    BY <1>1, <2>1, FollowedPushed
<1>9. Has(q, Of({"join"})) <=> Has(r, Of({"join"}))
  BY <1>1, HasPushed
<1> HIDE DEF q
<1>10. StoppingOK(q)
  BY <1>3, <1>4, <1>5, <1>6, <1>7, <1>8 DEF StoppingOK
<1> QED
  BY <1>9, <1>10 DEF q

LEMMA StoppingTail ==
    ASSUME NEW t \in Stacks, StoppingOK(t)
    PROVE  /\ t # <<>>
           /\ t[1].do # "end" => StoppingOK(Tail(t))
           /\ t[1].do \in StopDos \ RunDos => ~Has(Tail(t), Of({"reloaded"}))
           /\ t[1].do \in {"join", "truncate", "write"} => ~Has(Tail(t), Of({"join"}))
           /\ t[1].do \in {"start", "rise"} => Has(Tail(t), Of({"reloaded"}))
           /\ \A f \in Lists :
                 t[1].do = "join" \/ (t[1].do = "truncate" /\ f \in t[1].on)
                     => Has(Tail(t), OfUnit({"write"}, f))
<1>1. t # <<>>
  BY DEF StoppingOK, EndsIn
<1>2. Tail(t) \in Stacks /\ t[1] \in JobSet
  BY <1>1, Tails
<1>3. \A k \in DOMAIN Tail(t) : Tail(t)[k].do \in StopDos
  BY <1>1, Tails DEF StoppingOK
<1>4. t[1] \notin Of({"end"}) => EndsIn(Tail(t), Of({"end"}))
  BY EndsInTail DEF StoppingOK
<1>5. /\ NoneAfter(Tail(t), Of(StopDos \ RunDos), Of({"reloaded"}))
      /\ t[1] \in Of(StopDos \ RunDos) => ~Has(Tail(t), Of({"reloaded"}))
  BY <1>1, NoneAfterTail DEF StoppingOK
<1>6. /\ NoneAfter(Tail(t), Of({"join", "truncate", "write"}), Of({"join"}))
      /\ t[1] \in Of({"join", "truncate", "write"}) => ~Has(Tail(t), Of({"join"}))
  BY <1>1, NoneAfterTail DEF StoppingOK
<1>7. /\ Followed(Tail(t), Of({"start", "rise"}), Of({"reloaded"}))
      /\ t[1] \in Of({"start", "rise"}) => Has(Tail(t), Of({"reloaded"}))
  BY <1>1, FollowedTail DEF StoppingOK
<1>8. ASSUME NEW f \in Lists
      PROVE  /\ Followed(Tail(t), Of({"join"}), OfUnit({"write"}, f))
             /\ Followed(Tail(t), OfUnit({"truncate"}, f), OfUnit({"write"}, f))
             /\ t[1] \in Of({"join"}) => Has(Tail(t), OfUnit({"write"}, f))
             /\ t[1] \in OfUnit({"truncate"}, f) => Has(Tail(t), OfUnit({"write"}, f))
  <2>1. Followed(t, Of({"join"}), OfUnit({"write"}, f))
        /\ Followed(t, OfUnit({"truncate"}, f), OfUnit({"write"}, f))
    BY DEF StoppingOK
  <2> QED
    BY <1>1, <2>1, FollowedTail
<1>9. \A A : t[1] \in Of(A) <=> t[1].do \in A
  BY <1>2 DEF Of
<1>10. \A f \in Lists : t[1] \in OfUnit({"truncate"}, f) <=> t[1].do = "truncate" /\ f \in t[1].on
  BY <1>9 DEF OfUnit
<1>11. t[1].do # "end" => StoppingOK(Tail(t))
  BY <1>3, <1>4, <1>5, <1>6, <1>7, <1>8, <1>9 DEF StoppingOK
<1> QED
  BY <1>1, <1>5, <1>6, <1>7, <1>8, <1>9, <1>10, <1>11

\* The last jobs of a start.
BootEnd == <<Job("enable", {Core}), Job("watch", {}), Job("tell", {}), Job("ready", {})>>

LEMMA BootEndIs ==
    /\ BootEnd \in Stacks /\ BootingOK(BootEnd) /\ Has(BootEnd, Of({"watch"}))
    /\ \A u \in Units : /\ Has(BootEnd, OfUnit({"enable"}, u)) <=> u = Core
                        /\ ~Has(BootEnd, MoveOf(u))
<1> DEFINE t == BootEnd
<1>1. /\ t[1] = Job("enable", {Core}) /\ t[2] = Job("watch", {}) /\ t[3] = Job("tell", {})
      /\ t[4] = Job("ready", {}) /\ DOMAIN t = 1 .. 4
  BY DEF BootEnd
<1>2. \A k \in 1 .. 4 : k = 1 \/ k = 2 \/ k = 3 \/ k = 4
  OBVIOUS
<1>3. Core \in Units
  BY DEF Units, Modes
<1>4. /\ t[1] \in JobSet /\ t[1].do = "enable" /\ t[1].on = {Core}
      /\ t[2] \in JobSet /\ t[2].do = "watch" /\ t[2].on = {}
      /\ t[3] \in JobSet /\ t[3].do = "tell" /\ t[3].on = {}
      /\ t[4] \in JobSet /\ t[4].do = "ready" /\ t[4].on = {}
  BY <1>1, <1>3 DEF Job, JobSet, BootDos
<1>5. t \in Stacks
  <2>1. t = [k \in 1 .. 4 |-> t[k]]
    BY DEF BootEnd
  <2>2. \A k \in 1 .. 4 : t[k] \in JobSet
    BY <1>2, <1>4
  <2> QED
    BY <2>1, <2>2 DEF Stacks
<1>6. \A k \in DOMAIN t : t[k].do \in BootDos
  BY <1>1, <1>2, <1>4 DEF BootDos
<1>7. EndsIn(t, Of({"ready"}))
  <2>1. Followed(t, JobSet \ Of({"ready"}), Of({"ready"}))
    BY <1>1, <1>2, <1>4 DEF Followed, Of
  <2>2. NoneAfter(t, Of({"ready"}), JobSet)
    BY <1>1, <1>2, <1>4 DEF NoneAfter, Of
  <2>3. t # <<>>
    BY <1>1
  <2> QED
    BY <2>1, <2>2, <2>3 DEF EndsIn
<1>8. Followed(t, Of({"enable", "rise"}), Of({"watch"}))
  BY <1>1, <1>2, <1>4 DEF Followed, Of
<1>9. NoneAfter(t, Of({"watch"}), Of({"watch"}))
  BY <1>1, <1>2, <1>4 DEF NoneAfter, Of
<1>10. Has(t, Of({"watch"}))
  BY <1>1, <1>4 DEF Has, Of
<1>11. \A u \in Units : (Has(t, OfUnit({"enable"}, u)) <=> u = Core) /\ ~Has(t, MoveOf(u))
  BY <1>1, <1>2, <1>4 DEF Has, MoveOf, MoveSteps, OfUnit, Of
<1> QED
  BY <1>5, <1>6, <1>7, <1>8, <1>9, <1>10, <1>11 DEF BootingOK

\* What Boot puts on the stack of the main thread.
BootStack == Ask("enable", saved.services) \o Ask("enable", saved.modes) \o BootEnd

LEMMA BootStackIs ==
    ASSUME Types
    PROVE  /\ BootStack \in Stacks /\ BootingOK(BootStack)
           /\ \A u \in Units :
                 /\ Has(BootStack, OfUnit({"enable"}, u))
                        <=> u = Core \/ u \in saved.modes \/ u \in saved.services
                 /\ ~Has(BootStack, MoveOf(u))
<1>1. saved.modes \in SUBSET Units /\ saved.services \in SUBSET Units /\ "enable" \in Operations
  BY DEF Types, Units, Operations
<1> DEFINE x == Ask("enable", saved.services)
           y == Ask("enable", saved.modes)
<1>2. x \in Stacks /\ y \in Stacks
  BY <1>1, AskIs
<1>3. /\ \A k \in DOMAIN x : x[k] = Job("enable", saved.services)
      /\ \A k \in DOMAIN y : y[k] = Job("enable", saved.modes)
      /\ \A u \in Units : /\ Has(x, OfUnit({"enable"}, u)) <=> u \in saved.services
                          /\ Has(y, OfUnit({"enable"}, u)) <=> u \in saved.modes
  BY <1>1, AskIs
<1> HIDE DEF x, y
<1>4. (\A k \in DOMAIN x : x[k].do = "enable") /\ (\A k \in DOMAIN y : y[k].do = "enable")
  BY <1>3 DEF Job
<1>5. /\ \A u \in Units : ~Has(x, MoveOf(u)) /\ ~Has(y, MoveOf(u))
  BY <1>4 DEF Has, MoveOf, MoveSteps, OfUnit, Of
<1> DEFINE z == y \o BootEnd
<1>6. z \in Stacks
  BY <1>2, BootEndIs, Pushed DEF Joined
<1>7. BootingOK(z) /\ Has(z, Of({"watch"}))
  BY <1>2, <1>4, BootEndIs, BootingPushed
<1>8. \A u \in Units : /\ Has(z, OfUnit({"enable"}, u)) <=> u = Core \/ u \in saved.modes
                       /\ ~Has(z, MoveOf(u))
  BY <1>2, <1>3, <1>5, BootEndIs, HasPushed
<1> HIDE DEF z
<1> DEFINE q == x \o z
<1>9. q \in Stacks
  BY <1>2, <1>6, Pushed DEF Joined
<1>10. BootingOK(q)
  BY <1>2, <1>4, <1>6, <1>7, BootingPushed
<1>11. \A u \in Units : /\ Has(q, OfUnit({"enable"}, u))
                              <=> u = Core \/ u \in saved.modes \/ u \in saved.services
                        /\ ~Has(q, MoveOf(u))
  BY <1>2, <1>3, <1>5, <1>6, <1>8, HasPushed
<1> HIDE DEF q
<1>12. BootStack = q
  BY <1>2, BootEndIs DEF BootStack, q, z, x, y, Stacks
<1> QED
  BY <1>9, <1>10, <1>11, <1>12

\* What the destructor does.
StopStack ==
    <<Job("join", {}), Job("truncate", {"services"}), Job("write", {"services"}),
      Job("truncate", {"modes"}), Job("write", {"modes"}),
      Job("shut", Modes), Job("shut", Services), Job("end", {})>>

LEMMA StopStackIs ==
    /\ StopStack \in Stacks /\ StoppingOK(StopStack)
    /\ Has(StopStack, Of({"join"})) /\ ~Has(StopStack, Of({"reloaded"}))
<1> DEFINE t == StopStack
<1>1. /\ t[1] = Job("join", {}) /\ t[2] = Job("truncate", {"services"})
      /\ t[3] = Job("write", {"services"}) /\ t[4] = Job("truncate", {"modes"})
      /\ t[5] = Job("write", {"modes"}) /\ t[6] = Job("shut", Modes) /\ t[7] = Job("shut", Services)
      /\ t[8] = Job("end", {}) /\ DOMAIN t = 1 .. 8
  BY DEF StopStack
<1>2. \A k \in 1 .. 8 : k = 1 \/ k = 2 \/ k = 3 \/ k = 4 \/ k = 5 \/ k = 6 \/ k = 7 \/ k = 8
  OBVIOUS
<1>3. /\ t[1] \in JobSet /\ t[1].do = "join"
      /\ t[2] \in JobSet /\ t[2].do = "truncate" /\ t[2].on = {"services"}
      /\ t[3] \in JobSet /\ t[3].do = "write" /\ t[3].on = {"services"}
      /\ t[4] \in JobSet /\ t[4].do = "truncate" /\ t[4].on = {"modes"}
      /\ t[5] \in JobSet /\ t[5].do = "write" /\ t[5].on = {"modes"}
      /\ t[6] \in JobSet /\ t[6].do = "shut"
      /\ t[7] \in JobSet /\ t[7].do = "shut"
      /\ t[8] \in JobSet /\ t[8].do = "end"
  BY <1>1 DEF Job, JobSet, StopDos, Units, Lists
<1>4. t \in Stacks
  <2>1. t = [k \in 1 .. 8 |-> t[k]]
    BY DEF StopStack
  <2>2. \A k \in 1 .. 8 : t[k] \in JobSet
    BY <1>2, <1>3
  <2> QED
    BY <2>1, <2>2 DEF Stacks
<1>5. \A k \in DOMAIN t : t[k].do \in StopDos
  BY <1>1, <1>2, <1>3 DEF StopDos
<1>6. EndsIn(t, Of({"end"}))
  <2>1. Followed(t, JobSet \ Of({"end"}), Of({"end"}))
    BY <1>1, <1>2, <1>3 DEF Followed, Of
  <2>2. NoneAfter(t, Of({"end"}), JobSet)
    BY <1>1, <1>2, <1>3 DEF NoneAfter, Of
  <2>3. t # <<>>
    BY <1>1
  <2> QED
    BY <2>1, <2>2, <2>3 DEF EndsIn
<1>7. ~Has(t, Of({"reloaded"}))
  BY <1>1, <1>2, <1>3 DEF Has, Of
<1>8. NoneAfter(t, Of(StopDos \ RunDos), Of({"reloaded"}))
  BY <1>7 DEF NoneAfter, Has
<1>9. NoneAfter(t, Of({"join", "truncate", "write"}), Of({"join"}))
  BY <1>1, <1>2, <1>3 DEF NoneAfter, Of
<1>10. Followed(t, Of({"start", "rise"}), Of({"reloaded"}))
  BY <1>1, <1>2, <1>3 DEF Followed, Of
<1>11. \A f \in Lists : Followed(t, Of({"join"}), OfUnit({"write"}, f))
  BY <1>1, <1>2, <1>3 DEF Followed, Of, OfUnit, Lists
<1>12. \A f \in Lists : Followed(t, OfUnit({"truncate"}, f), OfUnit({"write"}, f))
  BY <1>1, <1>2, <1>3 DEF Followed, Of, OfUnit, Lists
<1>13. Has(t, Of({"join"}))
  BY <1>1, <1>3 DEF Has, Of
<1>14. StoppingOK(t)
  BY <1>5, <1>6, <1>8, <1>9, <1>10, <1>11, <1>12 DEF StoppingOK
<1> QED
  BY <1>4, <1>7, <1>13, <1>14

\* The stack q restarts the units V until its job "reloaded".
Restarts(q, V) ==
    /\ q \in Stacks
    /\ Has(q, Of({"reloaded"}))
    /\ \A u \in Units :
          /\ Has(q, OfUnit({"start", "rise"}, u)) <=> u \in V
          /\ Before(q, OfUnit({"stop", "fall"}, u), Of({"reloaded"}), OfUnit({"start", "rise"}, u))

LEMMA StartsAsked ==
    ASSUME NEW q \in Stacks, NEW U \in SUBSET Units, NEW V, Restarts(q, V)
    PROVE  Restarts(Ask("start", U) \o q, V \cup U)
<1> DEFINE x == Ask("start", U)
           z == x \o q
<1>1. x \in Stacks /\ (\A k \in DOMAIN x : x[k].do = "start" /\ x[k].on = U)
      /\ \A u \in Units : Has(x, OfUnit({"start"}, u)) <=> u \in U
  BY AskIs DEF Operations, Job
<1> HIDE DEF x
<1>2. \A u \in Units : /\ Has(x, OfUnit({"start", "rise"}, u)) <=> u \in U
                       /\ ~Has(x, OfUnit({"stop", "fall"}, u))
  BY <1>1 DEF Has, OfUnit, Of
<1>3. ~Has(x, Of({"reloaded"}))
  BY <1>1 DEF Has, Of
<1>4. z \in Stacks
  BY <1>1, Pushed DEF Joined
<1>5. Has(z, Of({"reloaded"}))
  BY <1>1, HasPushed DEF Restarts
<1>6. ASSUME NEW u \in Units
      PROVE  /\ Has(z, OfUnit({"start", "rise"}, u)) <=> u \in V \cup U
             /\ Before(z, OfUnit({"stop", "fall"}, u), Of({"reloaded"}), OfUnit({"start", "rise"}, u))
  <2>1. /\ Has(q, OfUnit({"start", "rise"}, u)) <=> u \in V
        /\ Before(q, OfUnit({"stop", "fall"}, u), Of({"reloaded"}), OfUnit({"start", "rise"}, u))
    BY DEF Restarts
  <2>2. Has(z, OfUnit({"start", "rise"}, u)) <=> u \in V \cup U
    BY <1>1, <1>2, <2>1, HasPushed
  <2>3. ~Has(x, OfUnit({"stop", "fall"}, u))
    BY <1>2
  <2>4. Before(z, OfUnit({"stop", "fall"}, u), Of({"reloaded"}), OfUnit({"start", "rise"}, u))
    BY <1>1, <1>3, <2>1, <2>3, BeforePushed
  <2> QED
    BY <2>2, <2>4
<1> HIDE DEF z
<1>7. Restarts(z, V \cup U)
  BY <1>4, <1>5, <1>6 DEF Restarts
<1> QED
  BY <1>7 DEF z, x

LEMMA StopsAsked ==
    ASSUME NEW q \in Stacks, NEW V, NEW U \in SUBSET Units, U \subseteq V, Restarts(q, V)
    PROVE  Restarts(Ask("stop", U) \o q, V)
<1> DEFINE x == Ask("stop", U)
           z == x \o q
<1>1. x \in Stacks /\ (\A k \in DOMAIN x : x[k].do = "stop" /\ x[k].on = U)
      /\ \A u \in Units : Has(x, OfUnit({"stop"}, u)) <=> u \in U
  BY AskIs DEF Operations, Job
<1> HIDE DEF x
<1>2. \A u \in Units : /\ Has(x, OfUnit({"stop", "fall"}, u)) <=> u \in U
                       /\ ~Has(x, OfUnit({"start", "rise"}, u))
  BY <1>1 DEF Has, OfUnit, Of
<1>3. ~Has(x, Of({"reloaded"}))
  BY <1>1 DEF Has, Of
<1>4. z \in Stacks
  BY <1>1, Pushed DEF Joined
<1>5. Has(z, Of({"reloaded"}))
  BY <1>1, HasPushed DEF Restarts
<1>6. ASSUME NEW u \in Units
      PROVE  /\ Has(z, OfUnit({"start", "rise"}, u)) <=> u \in V
             /\ Before(z, OfUnit({"stop", "fall"}, u), Of({"reloaded"}), OfUnit({"start", "rise"}, u))
  <2>1. /\ Has(q, OfUnit({"start", "rise"}, u)) <=> u \in V
        /\ Before(q, OfUnit({"stop", "fall"}, u), Of({"reloaded"}), OfUnit({"start", "rise"}, u))
    BY DEF Restarts
  <2>2. Has(z, OfUnit({"start", "rise"}, u)) <=> u \in V
    BY <1>1, <1>2, <2>1, HasPushed
  <2>3. Has(x, OfUnit({"stop", "fall"}, u)) => Has(q, OfUnit({"start", "rise"}, u))
    BY <1>2, <2>1
  <2>4. Before(z, OfUnit({"stop", "fall"}, u), Of({"reloaded"}), OfUnit({"start", "rise"}, u))
    BY <1>1, <1>3, <2>1, <2>3, BeforePushed
  <2> QED
    BY <2>2, <2>4
<1> HIDE DEF z
<1>7. Restarts(z, V)
  BY <1>4, <1>5, <1>6 DEF Restarts
<1> QED
  BY <1>7 DEF z, x

LEMMA Regrouped ==
    /\ \A s, r, q \in Stacks : (s \o r) \o q = s \o (r \o q)
    /\ \A s, r \in Stacks : s \o r \in Stacks
<1> SUFFICES ASSUME NEW s \in Stacks, NEW r \in Stacks, NEW q \in Stacks
             PROVE  (s \o r) \o q = s \o (r \o q) /\ s \o r \in Stacks
  OBVIOUS
<1> QED
  BY DEF Stacks

\* What reload() puts on the stack t of the main thread.
ReloadStack(t) ==
    Ask("stop", Modes \cap started) \o Ask("stop", Services \cap started)
        \o Ask("start", Services \cap started) \o Ask("start", Modes \cap started)
        \o <<Job("reloaded", {})>> \o t

LEMMA ReloadStackIs ==
    ASSUME NEW t \in Stacks, Types, ~Has(t, Of({"reloaded"})),
           \/ phase = "running" /\ t = <<>>
           \/ phase = "stopping" /\ StoppingOK(t)
    PROVE  /\ Restarts(ReloadStack(t), started)
           /\ phase = "running" => RunningOK(ReloadStack(t))
           /\ phase = "stopping" =>
                 /\ StoppingOK(ReloadStack(t))
                 /\ Has(ReloadStack(t), Of({"join"})) <=> Has(t, Of({"join"}))
           /\ \A f \in Lists : Has(t, OfUnit({"write"}, f)) => Has(ReloadStack(t), OfUnit({"write"}, f))
           /\ \A m \in OtherModes : Has(ReloadStack(t), MoveOf(m)) => Has(t, MoveOf(m))
<1> DEFINE a == Ask("stop", Modes \cap started)
           b == Ask("stop", Services \cap started)
           x == Ask("start", Services \cap started)
           y == Ask("start", Modes \cap started)
           e == <<Job("reloaded", {})>>
<1>1. /\ Modes \cap started \in SUBSET Units /\ Services \cap started \in SUBSET Units
      /\ (Modes \cap started) \cup (Services \cap started) = started
      /\ "stop" \in Operations /\ "start" \in Operations
  BY DEF Types, Units, Operations
<1>2. a \in Stacks /\ b \in Stacks /\ x \in Stacks /\ y \in Stacks
  BY <1>1, AskIs
<1>3. /\ \A k \in DOMAIN a : a[k].do = "stop"
      /\ \A k \in DOMAIN b : b[k].do = "stop"
      /\ \A k \in DOMAIN x : x[k].do = "start"
      /\ \A k \in DOMAIN y : y[k].do = "start"
  <2>1. /\ \A k \in DOMAIN a : a[k] = Job("stop", Modes \cap started)
        /\ \A k \in DOMAIN b : b[k] = Job("stop", Services \cap started)
        /\ \A k \in DOMAIN x : x[k] = Job("start", Services \cap started)
        /\ \A k \in DOMAIN y : y[k] = Job("start", Modes \cap started)
    BY <1>1, AskIs
  <2> HIDE DEF a, b, x, y
  <2> QED
    BY <2>1 DEF Job
<1>4. Job("reloaded", {}) \in JobSet /\ Job("reloaded", {}).do = "reloaded"
  BY DEF Job, JobSet, StopDos
<1>5. e \in Stacks /\ DOMAIN e = {1} /\ e[1].do = "reloaded" /\ e[1] \in JobSet
  BY <1>4, OneJob
<1> HIDE DEF e
<1>6. /\ Has(e, Of({"reloaded"}))
      /\ \A A : Has(e, Of(A)) => "reloaded" \in A
      /\ \A u, A : Has(e, OfUnit(A, u)) => "reloaded" \in A
  BY <1>5 DEF Has, Of, OfUnit
<1> DEFINE r0 == e \o t
<1>7. Joined(e, t, r0) /\ r0 \in Stacks
  BY <1>5, Pushed DEF Joined
<1>8. \A u \in Units : ~Has(t, OfUnit({"start", "rise"}, u))
  <2>1. CASE t = <<>>
    BY <2>1 DEF Has
  <2>2. CASE StoppingOK(t)
    <3>1. ~Has(t, Of({"start", "rise"}))
      BY <2>2 DEF StoppingOK, Followed, Has
    <3> QED
      BY <3>1 DEF Has, OfUnit
  <2> QED
    BY <2>1, <2>2
<1>9. Restarts(r0, {})
  <2>1. Has(r0, Of({"reloaded"}))
    BY <1>5, <1>6, HasPushed
  <2>2. \A u \in Units : ~Has(r0, OfUnit({"start", "rise"}, u))
    BY <1>5, <1>6, <1>8, HasPushed
  <2>3. ASSUME NEW r \in DOMAIN r0, r0[r] \in Of({"reloaded"}) PROVE r = 1
    <3> HIDE DEF r0
    <3>1. r \in DOMAIN e
      BY <1>7, <2>3 DEF Joined, Has
    <3> QED
      BY <1>5, <3>1
  <2>4. \A j \in DOMAIN r0 : ~(j < 1)
    <3> HIDE DEF r0
    <3> QED
      BY <1>7 DEF Stacks
  <2>5. \A u \in Units : Before(r0, OfUnit({"stop", "fall"}, u), Of({"reloaded"}),
                                OfUnit({"start", "rise"}, u))
    <3> HIDE DEF r0
    <3> QED
      BY <2>3, <2>4 DEF Before
  <2> HIDE DEF r0
  <2> QED
    BY <1>7, <2>1, <2>2, <2>5 DEF Restarts
<1> DEFINE r1 == y \o r0
           r2 == x \o r1
           r3 == b \o r2
           r4 == a \o r3
<1>10. r1 \in Stacks /\ r2 \in Stacks /\ r3 \in Stacks /\ r4 \in Stacks
  <2>1. r1 \in Stacks
    BY <1>2, <1>7, Regrouped
  <2>2. r2 \in Stacks
    BY <1>2, <2>1, Regrouped
  <2>3. r3 \in Stacks
    BY <1>2, <2>2, Regrouped
  <2> QED
    BY <1>2, <2>1, <2>2, <2>3, Regrouped
<1> HIDE DEF a, b, x, y, r0
<1>11. Restarts(r4, started)
  <2>1. Restarts(r1, {} \cup (Modes \cap started))
    BY <1>1, <1>7, <1>9, StartsAsked DEF y
  <2>2. Restarts(r2, ({} \cup (Modes \cap started)) \cup (Services \cap started))
    <3> HIDE DEF r1
    <3> QED
      BY <1>1, <1>10, <2>1, StartsAsked DEF x
  <2>3. Restarts(r2, started)
    BY <1>1, <2>2
  <2> HIDE DEF r2
  <2>4. Restarts(r3, started)
    BY <1>1, <1>10, <2>3, StopsAsked DEF b
  <2> HIDE DEF r3
  <2> QED
    BY <1>1, <1>10, <2>4, StopsAsked DEF a
<1>12. ReloadStack(t) = r4
  <2> DEFINE ab   == a \o b
             abx  == ab \o x
             abxy == abx \o y
             Same(u, v, w) == (u \o v) \o w = u \o (v \o w)
  <2>0. \A u, v, w \in Stacks : Same(u, v, w)
    BY Regrouped, Zenon
  <2> HIDE DEF Same
  <2>1. ReloadStack(t) = (abxy \o e) \o t
    BY DEF ReloadStack, a, b, x, y, e
  <2>2. ab \in Stacks
    BY <1>2, Regrouped
  <2> HIDE DEF ab, r1, r2, r3, r4
  <2>3. abx \in Stacks
    BY <1>2, <2>2, Regrouped
  <2> HIDE DEF abx
  <2>4. abxy \in Stacks
    BY <1>2, <2>3, Regrouped
  <2> HIDE DEF abxy
  <2>5. (abxy \o e) \o t = abxy \o r0
    <3>1. Same(abxy, e, t)
      BY <1>5, <2>0, <2>4
    <3> QED
      BY <3>1 DEF Same, r0
  <2>6. abxy \o r0 = abx \o r1
    <3>1. y \in Stacks /\ r0 \in Stacks
      BY <1>2, <1>7
    <3>2. Same(abx, y, r0)
      BY <2>0, <2>3, <3>1
    <3> QED
      BY <3>2 DEF Same, abxy, r1
  <2>7. abx \o r1 = ab \o r2
    <3>1. x \in Stacks /\ r1 \in Stacks
      BY <1>2, <1>10
    <3>2. Same(ab, x, r1)
      BY <2>0, <2>2, <3>1
    <3> QED
      BY <3>2 DEF Same, abx, r2
  <2>8. ab \o r2 = r4
    <3>1. a \in Stacks /\ b \in Stacks /\ r2 \in Stacks
      BY <1>2, <1>10
    <3>2. Same(a, b, r2)
      BY <2>0, <3>1
    <3> QED
      BY <3>2 DEF Same, ab, r3, r4
  <2> QED
    BY <2>1, <2>5, <2>6, <2>7, <2>8
<1>13. ASSUME phase = "running" PROVE RunningOK(r4)
  <2>1. RunningOK(r0) /\ r0 # <<>>
    <3>1. t = <<>>
      BY <1>13
    <3>2. r0 = e
      BY <1>5, <3>1 DEF r0, Stacks
    <3>3. Followed(e, JobSet \ Of({"reloaded"}), Of({"reloaded"}))
      BY <1>5 DEF Followed, Of
    <3>4. NoneAfter(e, Of({"reloaded"}), JobSet)
      BY <1>5 DEF NoneAfter
    <3>5. e # <<>>
      BY <1>5
    <3> QED
      BY <1>5, <3>2, <3>3, <3>4, <3>5 DEF RunningOK, EndsIn
  <2>2. /\ \A k \in DOMAIN a : a[k].do \in RunDos
        /\ \A k \in DOMAIN b : b[k].do \in RunDos
        /\ \A k \in DOMAIN x : x[k].do \in RunDos
        /\ \A k \in DOMAIN y : y[k].do \in RunDos
    BY <1>3 DEF RunDos
  <2>3. \A s, r : r \in Stacks /\ r # <<>> /\ s \in Stacks => s \o r # <<>>
    <3>1. ASSUME NEW s, NEW r, r \in Stacks, r # <<>>, s \in Stacks
          PROVE  s \o r # <<>>
      BY <3>1 DEF Stacks
    <3> QED
      BY <3>1
  <2>4. RunningOK(r1) /\ r1 # <<>>
    BY <1>2, <1>7, <2>1, <2>2, <2>3, RunningPushed
  <2>5. RunningOK(r2) /\ r2 # <<>>
    <3> HIDE DEF r1
    <3> QED
      BY <1>2, <1>10, <2>4, <2>2, <2>3, RunningPushed
  <2>6. RunningOK(r3) /\ r3 # <<>>
    <3> HIDE DEF r2
    <3> QED
      BY <1>2, <1>10, <2>5, <2>2, <2>3, RunningPushed
  <2> HIDE DEF r3
  <2> QED
    BY <1>2, <1>10, <2>6, <2>2, RunningPushed
<1>14. ASSUME phase = "stopping"
       PROVE  StoppingOK(r4) /\ (Has(r4, Of({"join"})) <=> Has(t, Of({"join"})))
  <2>0. StoppingOK(t)
    BY <1>14
  <2>1. StoppingOK(r0)
    <3>1. \A k \in DOMAIN r0 : r0[k].do \in StopDos
      BY <1>5, <1>7, <2>0 DEF Joined, StoppingOK, StopDos
    <3>2. EndsIn(r0, Of({"end"}))
      BY <1>5, <1>6, <2>0, EndsInPushed DEF StoppingOK, r0
    <3>3. NoneAfter(r0, Of(StopDos \ RunDos), Of({"reloaded"}))
      <4>1. NoneAfter(e, Of(StopDos \ RunDos), Of({"reloaded"}))
        BY <1>5 DEF NoneAfter
      <4>2. NoneAfter(t, Of(StopDos \ RunDos), Of({"reloaded"}))
        BY <2>0 DEF StoppingOK
      <4> QED
        BY <1>5, <4>1, <4>2, NoneAfterPushed DEF r0
    <3>4. NoneAfter(r0, Of({"join", "truncate", "write"}), Of({"join"}))
      <4>1. NoneAfter(e, Of({"join", "truncate", "write"}), Of({"join"}))
        BY <1>5 DEF NoneAfter
      <4>2. ~Has(e, Of({"join", "truncate", "write"}))
        BY <1>6
      <4> QED
        BY <1>5, <2>0, <4>1, <4>2, NoneAfterPushed DEF r0, StoppingOK
    <3>5. Followed(r0, Of({"start", "rise"}), Of({"reloaded"}))
      <4>1. ~Has(e, Of({"start", "rise"}))
        BY <1>6
      <4> QED
        BY <1>5, <2>0, <4>1, FollowedPushed DEF r0, StoppingOK
    <3>6. ASSUME NEW f \in Lists
          PROVE  /\ Followed(r0, Of({"join"}), OfUnit({"write"}, f))
                 /\ Followed(r0, OfUnit({"truncate"}, f), OfUnit({"write"}, f))
      <4>1. ~Has(e, Of({"join"})) /\ ~Has(e, OfUnit({"truncate"}, f))
        BY <1>6
      <4>2. Followed(t, Of({"join"}), OfUnit({"write"}, f))
            /\ Followed(t, OfUnit({"truncate"}, f), OfUnit({"write"}, f))
        BY <2>0 DEF StoppingOK
      <4> QED
        BY <1>5, <4>1, <4>2, FollowedPushed DEF r0
    <3> QED
      BY <3>1, <3>2, <3>3, <3>4, <3>5, <3>6 DEF StoppingOK
  <2>2. (Has(r0, Of({"join"})) <=> Has(t, Of({"join"}))) /\ Has(r0, Of({"reloaded"}))
    BY <1>5, <1>6, HasPushed DEF r0
  <2>3. /\ \A k \in DOMAIN a : a[k].do \in {"shut"} \cup RunDos
        /\ \A k \in DOMAIN b : b[k].do \in {"shut"} \cup RunDos
        /\ \A k \in DOMAIN x : x[k].do \in {"shut"} \cup RunDos
        /\ \A k \in DOMAIN y : y[k].do \in {"shut"} \cup RunDos
    BY <1>3 DEF RunDos
  <2>4. /\ ~Has(a, Of({"shut"})) /\ ~Has(b, Of({"shut"})) /\ ~Has(x, Of({"shut"})) /\ ~Has(y, Of({"shut"}))
    BY <1>3 DEF Has, Of
  <2>5. /\ StoppingOK(r1)
        /\ Has(r1, Of({"join"})) <=> Has(t, Of({"join"}))
        /\ Has(r1, Of({"reloaded"}))
    BY <1>2, <1>7, <2>1, <2>2, <2>3, <2>4, StoppingPushed, HasPushed
  <2>6. /\ StoppingOK(r2)
        /\ Has(r2, Of({"join"})) <=> Has(t, Of({"join"}))
        /\ Has(r2, Of({"reloaded"}))
    <3> HIDE DEF r1
    <3> QED
      BY <1>2, <1>10, <2>5, <2>3, <2>4, StoppingPushed, HasPushed
  <2>7. /\ StoppingOK(r3)
        /\ Has(r3, Of({"join"})) <=> Has(t, Of({"join"}))
        /\ Has(r3, Of({"reloaded"}))
    <3> HIDE DEF r2
    <3> QED
      BY <1>2, <1>10, <2>6, <2>3, <2>4, StoppingPushed, HasPushed
  <2> HIDE DEF r3
  <2> QED
    BY <1>2, <1>10, <2>7, <2>3, <2>4, StoppingPushed
<1>15. ASSUME NEW f \in Lists, Has(t, OfUnit({"write"}, f)) PROVE Has(r4, OfUnit({"write"}, f))
  <2>1. Has(r0, OfUnit({"write"}, f))
    BY <1>5, <1>15, HasPushed DEF r0
  <2>2. Has(r1, OfUnit({"write"}, f))
    BY <1>2, <1>7, <2>1, HasPushed
  <2>3. Has(r2, OfUnit({"write"}, f))
    <3> HIDE DEF r1
    <3> QED
      BY <1>2, <1>10, <2>2, HasPushed
  <2>4. Has(r3, OfUnit({"write"}, f))
    <3> HIDE DEF r2
    <3> QED
      BY <1>2, <1>10, <2>3, HasPushed
  <2> HIDE DEF r3
  <2> QED
    BY <1>2, <1>10, <2>4, HasPushed
<1>16. ASSUME NEW m \in OtherModes, Has(r4, MoveOf(m)) PROVE Has(t, MoveOf(m))
  <2>1. ~Has(a, MoveOf(m)) /\ ~Has(b, MoveOf(m)) /\ ~Has(x, MoveOf(m)) /\ ~Has(y, MoveOf(m))
    BY <1>3 DEF Has, MoveOf, OfUnit, Of, MoveSteps
  <2>2. Has(r3, MoveOf(m))
    <3> HIDE DEF r3
    <3> QED
      BY <1>2, <1>10, <1>16, <2>1, HasPushed
  <2>3. Has(r2, MoveOf(m))
    <3> HIDE DEF r2
    <3> QED
      BY <1>2, <1>10, <2>1, <2>2, HasPushed
  <2>4. Has(r1, MoveOf(m))
    <3> HIDE DEF r1
    <3> QED
      BY <1>2, <1>10, <2>1, <2>3, HasPushed
  <2>5. Has(r0, MoveOf(m))
    BY <1>2, <1>7, <2>1, <2>4, HasPushed
  <2>6. ~Has(e, MoveOf(m))
    BY <1>6 DEF MoveOf, MoveSteps
  <2> QED
    BY <1>5, <2>5, <2>6, HasPushed DEF r0
<1> HIDE DEF r4
<1> QED
  BY <1>11, <1>12, <1>13, <1>14, <1>15, <1>16

\* What a command puts on the stack of its thread.
CommandStack(op, u) ==
    CASE op # "reload" -> <<Job(op, {u})>>
      [] op = "reload" /\ u \in Modes    -> <<Job("stop", {u}), Job("start", {u})>>
      [] op = "reload" /\ u \in Services -> Down(u) \o Up(u)

CommandOps == {"start", "stop", "enable", "disable", "reload"}

LEMMA CommandStackIs ==
    ASSUME NEW op \in CommandOps, NEW u \in Units
    PROVE  /\ CommandStack(op, u) \in Stacks
           /\ \A m \in OtherModes : ~Has(CommandStack(op, u), MoveOf(m))
<1>1. CASE op # "reload"
  <2>1. CommandStack(op, u) = <<Job(op, {u})>>
    BY <1>1 DEF CommandStack
  <2>2. Job(op, {u}) \in JobSet /\ Job(op, {u}).do \notin MoveSteps
    BY <1>1 DEF Job, JobSet, BootDos, StopDos, RunDos, CommandOps, MoveSteps
  <2>3. Job(op, {u}) \notin {j \in JobSet : j.do \in MoveSteps}
    BY <2>2
  <2> QED
    BY <2>1, <2>2, <2>3, OneJob DEF Has, MoveOf, OfUnit, Of
<1>2. CASE op = "reload" /\ u \in Modes
  <2> DEFINE q == <<Job("stop", {u}), Job("start", {u})>>
  <2>1. CommandStack(op, u) = q
    <3>1. u \notin Services
      BY <1>2, RegistryAssumption DEF RegistryAssumption, Modes
    <3> QED
      BY <1>2, <3>1 DEF CommandStack
  <2>2. /\ Job("stop", {u}) \in JobSet /\ Job("stop", {u}).do = "stop"
        /\ Job("start", {u}) \in JobSet /\ Job("start", {u}).do = "start"
    BY DEF Job, JobSet, BootDos, StopDos, RunDos
  <2>3. q \in Stacks /\ \A k \in DOMAIN q : q[k].do \in {"stop", "start"}
    BY <2>2 DEF Stacks
  <2> HIDE DEF q
  <2>4. \A m \in OtherModes : ~Has(q, MoveOf(m))
    BY <2>3 DEF Has, MoveOf, OfUnit, Of, MoveSteps
  <2> QED
    BY <2>1, <2>3, <2>4
<1>3. CASE op = "reload" /\ u \notin Modes
  <2> DEFINE q == Down(u) \o Up(u)
  <2>1. CommandStack(op, u) = q /\ u \notin OtherModes
    <3>1. u \in Services /\ u \notin Modes /\ u \notin OtherModes
      BY <1>3 DEF Units, Modes
    <3>2. CommandStack(op, u) = Down(u) \o Up(u)
      BY <1>3, <3>1 DEF CommandStack
    <3> QED
      BY <3>1, <3>2
  <2>2. Down(u) \in Stacks /\ Up(u) \in Stacks
    BY UpIs, DownIs
  <2>3. Joined(Down(u), Up(u), q)
    BY <2>2, Pushed
  <2>4. /\ \A k \in DOMAIN Down(u) : Down(u)[k].on = {u}
        /\ \A k \in DOMAIN Up(u) : Up(u)[k].on = {u}
    BY UpIs, DownIs
  <2> HIDE DEF q
  <2>5. q \in Stacks /\ \A k \in DOMAIN q : q[k].on = {u}
    BY <2>3, <2>4 DEF Joined
  <2>6. \A m \in OtherModes : ~Has(q, MoveOf(m))
    BY <2>1, <2>5 DEF Has, MoveOf, OfUnit
  <2> QED
    BY <2>1, <2>5, <2>6
<1> QED
  BY <1>1, <1>2, <1>3

LEMMA RunnersAre == \A c \in Runners : c \in Commanders /\ c # Main
BY RegistryAssumption DEF RegistryAssumption, Commanders, Main

LEMMA MainIs == Main \in Commanders
BY DEF Commanders

\* What the other actions leave in the stacks.
LEMMA CommandLeaves ==
    ASSUME Types, NEW c \in Runners, NEW op \in CommandOps, NEW u \in Units, Command(c, op, u)
    PROVE  /\ Reached(c)
           /\ task' \in [Commanders -> Stacks]
           /\ task'[c] = CommandStack(op, u)
           /\ \A d \in Commanders \ {c} : task'[d] = task[d]
           /\ CommandStack(op, u) \in Stacks
           /\ \A m \in OtherModes : ~Has(CommandStack(op, u), MoveOf(m))
           /\ meddled' = TRUE
           /\ overlapped' = (overlapped \/ (op = "reload" /\ u \in Services /\ Shared(c, u)))
           /\ UNCHANGED <<phase, watching, started, enabled, grammar, handlers, saved, promised,
                          interrupted, before>>
<1>1. task' = [task EXCEPT ![c] = CommandStack(op, u)]
  BY DEF Command, CommandStack
<1>2. CommandStack(op, u) \in Stacks /\ \A m \in OtherModes : ~Has(CommandStack(op, u), MoveOf(m))
  BY CommandStackIs
<1>3. /\ task' \in [Commanders -> Stacks]
      /\ task'[c] = CommandStack(op, u)
      /\ \A d \in Commanders \ {c} : task'[d] = task[d]
  BY <1>1, <1>2, RunnersAre, TasksAre
<1> QED
  BY <1>2, <1>3 DEF Command, processVars, unitVars

\* An action of the main thread that takes the head of its stack.
Pops(what) ==
    /\ Do(Main, what)
    /\ task' \in [Commanders -> Stacks]
    /\ task'[Main] = Tail(task[Main])
    /\ \A d \in Runners : task'[d] = task[d]

LEMMA MainPops ==
    ASSUME Types, NEW what, Do(Main, what), Pop(Main)
    PROVE  Pops(what)
<1>1. ~Idle(Main)
  BY DEF Do
<1>2. Tail(task[Main]) \in Stacks /\ task' = [task EXCEPT ![Main] = Tail(task[Main])]
  BY <1>1, MainIs, HeadIs, PoppedIs
<1> QED
  BY <1>2, MainIs, RunnersAre, TasksAre DEF Pops

\* What the actions leave that neither touch a stack nor move a mode other
\* than the core mode.
Still ==
    /\ UNCHANGED <<phase, watching, task, started, enabled, saved, promised, interrupted, before,
                   meddled, overlapped>>
    /\ \A m \in OtherModes : m \in grammar' <=> m \in grammar
    /\ handlers = NoHandlers => UNCHANGED <<grammar, handlers>>

LEMMA Stills ==
    ASSUME \/ RequestStop
           \/ \E c \in Runners : Quit(c)
           \/ \E c \in Commanders : Hang(c)
           \/ HandlerTest
           \/ HandlerAdd
           \/ UNCHANGED vars
    PROVE  Still
<1>1. CASE RequestStop
  BY <1>1 DEF Still, RequestStop, unitVars, coreVars, boundVars, historyVars
<1>2. CASE \E c \in Runners : Quit(c)
  BY <1>2 DEF Still, Quit, unitVars, coreVars, boundVars, historyVars
<1>3. CASE HandlerTest
  BY <1>3 DEF Still, HandlerTest, NoHandlers, processVars, unitVars, coreVars, boundVars, historyVars
<1>4. CASE HandlerAdd
  <2>1. Core \notin OtherModes
    BY RegistryAssumption DEF RegistryAssumption
  <2> QED
    BY <1>4, <2>1 DEF Still, HandlerAdd, NoHandlers, processVars, unitVars, coreVars, boundVars,
       historyVars
<1>5. CASE UNCHANGED vars
  BY <1>5 DEF Still, vars
<1>6. CASE \E c \in Commanders : Hang(c)
  BY <1>6 DEF Still, Hang, unitVars, coreVars, boundVars, historyVars
<1> QED
  BY <1>1, <1>2, <1>3, <1>4, <1>5, <1>6

\* SIGHUP finds the main thread idle in its loop, or in the destructor.
LEMMA ReloadLeaves ==
    ASSUME Types, StackOK, Reload
    PROVE  /\ \/ phase = "running" /\ task[Main] = <<>>
              \/ phase = "stopping" /\ StoppingOK(task[Main])
           /\ ~Has(task[Main], Of({"reloaded"}))
           /\ ReloadStack(task[Main]) \in Stacks
           /\ task' \in [Commanders -> Stacks]
           /\ task'[Main] = ReloadStack(task[Main])
           /\ \A d \in Runners : task'[d] = task[d]
<1>1. ~Has(task[Main], Of({"reloaded"}))
  BY DEF Reload, Has, Of
<1>2. phase \in {"running", "stopping"}
  BY DEF Reload
<1>3. task[Main] \in Stacks
  BY MainIs DEF Types
<1>4. ASSUME phase = "running" PROVE task[Main] = <<>>
  <2>1. task[Main] = <<>> \/ EndsIn(task[Main], Of({"reloaded"}))
    BY <1>4 DEF StackOK, MainOK, RunningOK
  <2>2. ASSUME EndsIn(task[Main], Of({"reloaded"})) PROVE FALSE
    <3>1. task[Main] # <<>>
      BY <2>2 DEF EndsIn
    <3>2. task[Main][1] \in JobSet /\ 1 \in DOMAIN task[Main]
      BY <1>3, <3>1, Tails
    <3> QED
      BY <1>1, <2>2, <3>2 DEF EndsIn, Followed, Has
  <2> QED
    BY <2>1, <2>2
<1>5. phase = "stopping" => StoppingOK(task[Main])
  BY DEF StackOK, MainOK
<1>6. \/ phase = "running" /\ task[Main] = <<>>
      \/ phase = "stopping" /\ StoppingOK(task[Main])
  BY <1>2, <1>4, <1>5
<1>7. ReloadStack(task[Main]) \in Stacks
  BY <1>1, <1>3, <1>6, ReloadStackIs DEF Restarts
<1>8. task' = [task EXCEPT ![Main] = ReloadStack(task[Main])]
  BY DEF Reload, ReloadStack
<1> QED
  BY <1>1, <1>6, <1>7, <1>8, MainIs, RunnersAre, TasksAre

LEMMA TypesInit == Init => Types
<1> SUFFICES ASSUME Init PROVE Types
  OBVIOUS
<1>1. <<>> \in Stacks
  BY DEF Stacks
<1>2. task \in [Commanders -> Stacks]
  BY <1>1 DEF Init
<1> QED
  BY <1>2 DEF Init, Types, Units

LEMMA TypesStep ==
    ASSUME Types, StackOK, [Next]_vars
    PROVE  Types'
<1>0. <<>> \in Stacks
  BY DEF Stacks
<1>1. ASSUME NEW c \in Commanders, Step(c) PROVE Types'
  <2>1. PICK s \in Stacks : /\ StepMoves(c, task[c], s)
                            /\ task' \in [Commanders -> Stacks]
    BY <1>1, StepLeaves
  <2>2. task[c][1] \in JobSet
    BY <1>1, StepsMove, HeadIs
  <2>3. task[c][1].do \in {"rise", "fall"} => task[c][1].on \subseteq Units
    BY <2>2 DEF JobSet
  <2>4. started' \subseteq Units /\ enabled' \subseteq Units /\ overlapped' \in BOOLEAN
    <3>1. CASE Taken(task[c][1])
      BY <3>1, <2>3 DEF Taken, Types
    <3>2. ASSUME NEW u \in Units, Opened(c, task[c][1], u)
          PROVE  started' \subseteq Units /\ enabled' \subseteq Units /\ overlapped' \in BOOLEAN
      BY <3>2 DEF Opened, Types
    <3> QED
      BY <2>1, <3>1, <3>2 DEF StepMoves, StepKind
  <2>5. UNCHANGED <<phase, watching, saved, promised, interrupted, before, meddled>>
    BY <2>1 DEF StepMoves
  <2> QED
    BY <2>1, <2>4, <2>5 DEF Types
<1>2. CASE Boot
  <2>1. task' = [task EXCEPT ![Main] = BootStack]
    BY <1>2 DEF Boot, BootStack, BootEnd
  <2>2. task' \in [Commanders -> Stacks]
    BY <2>1, MainIs, BootStackIs, TasksAre
  <2> QED
    BY <1>2, <2>2 DEF Boot, Types, unitVars, historyVars
<1>3. CASE Watch
  BY <1>3, MainPops DEF Watch, Pops, Types, unitVars, historyVars
<1>4. CASE Ready
  BY <1>4, MainPops DEF Ready, Pops, Types, unitVars, historyVars
<1>5. CASE Reloaded
  BY <1>5, MainPops DEF Reloaded, Pops, Types, processVars, unitVars
<1>6. CASE MainLoopEnds
  <2>1. task' = [task EXCEPT ![Main] = StopStack]
    BY <1>6 DEF MainLoopEnds, StopStack
  <2>2. task' \in [Commanders -> Stacks]
    BY <2>1, MainIs, StopStackIs, TasksAre
  <2> QED
    BY <1>6, <2>2 DEF MainLoopEnds, Types, unitVars, historyVars
<1>7. CASE JoinRunners
  BY <1>7, MainPops DEF JoinRunners, Pops, Types, processVars, unitVars
<1>8. CASE Truncate
  <2>1. Pops("truncate")
    BY <1>8, MainPops DEF Truncate
  <2>2. saved' \in [modes : SUBSET Modes, services : SUBSET Services]
    BY <1>8 DEF Truncate, Types
  <2> QED
    BY <1>8, <2>1, <2>2 DEF Truncate, Pops, Types, processVars, unitVars, historyVars
<1>9. CASE Write
  <2>1. Pops("write")
    BY <1>9, MainPops DEF Write
  <2>2. saved' \in [modes : SUBSET Modes, services : SUBSET Services]
    BY <1>9 DEF Write, Types
  <2> QED
    BY <1>9, <2>1, <2>2 DEF Write, Pops, Types, processVars, unitVars, historyVars
<1>10. CASE End
  <2>1. task' \in [Commanders -> Stacks]
    BY <1>0, <1>10 DEF End
  <2> QED
    BY <1>10, <2>1 DEF End, Fresh, Types
<1>11. CASE Reload
  <2>1. task' \in [Commanders -> Stacks]
    BY <1>11, ReloadLeaves
  <2>2. meddled' \in BOOLEAN
    BY <1>11 DEF Reload
  <2> QED
    BY <1>11, <2>1, <2>2 DEF Reload, Types, processVars, unitVars
<1>12. CASE Crash
  <2>1. task' \in [Commanders -> Stacks]
    BY <1>0, <1>12 DEF Crash
  <2>2. interrupted' \in BOOLEAN
    BY <1>12 DEF Crash, Types
  <2> QED
    BY <1>12, <2>1, <2>2 DEF Crash, Fresh, Types
<1>13. ASSUME NEW c \in Runners, NEW op \in CommandOps, NEW u \in Units, Command(c, op, u)
       PROVE  Types'
  <2>1. overlapped' \in BOOLEAN
    BY <1>13, CommandLeaves DEF Types
  <2> QED
    BY <1>13, <2>1, CommandLeaves DEF Types
<1>14. ASSUME NEW c \in Runners, RunnerEnds(c) PROVE Types'
  BY <1>14 DEF RunnerEnds, Types, unitVars, historyVars
<1>15. CASE Still
  BY <1>15 DEF Still, Types
<1> QED
  BY <1>1, <1>2, <1>3, <1>4, <1>5, <1>6, <1>7, <1>8, <1>9, <1>10, <1>11, <1>12, <1>13, <1>14, <1>15,
     Stills DEF Next, MainStep, CommandOps

LEMMA DownStep ==
    ASSUME Types, StackOK, DownOK, RunnersOK, [Next]_vars
    PROVE  DownOK'
<1>1. ASSUME NEW c \in Commanders, Step(c) PROVE DownOK'
  <2>1. phase # "down"
    BY <1>1, StepsMove DEF DownOK, Quiet
  <2>2. phase' = phase
    BY <1>1, StepsMove DEF StepMoves
  <2> QED
    BY <2>1, <2>2 DEF DownOK
<1>2. CASE Boot
  BY <1>2 DEF Boot, DownOK
<1>3. ASSUME Watch \/ Reloaded \/ JoinRunners \/ Truncate \/ Write PROVE DownOK'
  <2>1. ~Idle(Main) /\ phase' = phase
    BY <1>3 DEF Watch, Reloaded, JoinRunners, Truncate, Write, Do, processVars
  <2>2. phase # "down"
    BY <2>1, MainIs DEF DownOK, Quiet
  <2> QED
    BY <2>1, <2>2 DEF DownOK
<1>4. ASSUME Ready \/ MainLoopEnds \/ Reload PROVE DownOK'
  <2>1. phase' # "down"
    BY <1>4 DEF Ready, MainLoopEnds, Reload, processVars
  <2> QED
    BY <2>1 DEF DownOK
<1>5. ASSUME End \/ Crash PROVE DownOK'
  <2>1. /\ task' = [c \in Commanders |-> <<>>]
        /\ started' = {} /\ enabled' = {} /\ grammar' = {} /\ watching' = {}
        /\ handlers' = NoHandlers /\ meddled' = FALSE
    BY <1>5 DEF End, Crash, Fresh
  <2>2. Quiet'
    BY <2>1 DEF Quiet, Idle
  <2> QED
    BY <2>1, <2>2 DEF DownOK, NoHandlers
<1>6. ASSUME NEW c \in Runners, NEW op \in CommandOps, NEW u \in Units, Command(c, op, u)
      PROVE  DownOK'
  <2>1. phase # "down" /\ phase' = phase
    BY <1>6, CommandLeaves DEF DownOK, Reached
  <2> QED
    BY <2>1 DEF DownOK
<1>7. ASSUME NEW c \in Runners, RunnerEnds(c) PROVE DownOK'
  <2>1. phase # "down" /\ phase' = phase
    BY <1>7 DEF RunnerEnds, DownOK
  <2> QED
    BY <2>1 DEF DownOK
<1>8. CASE Still
  <2>1. ASSUME phase' = "down"
        PROVE  /\ Quiet' /\ started' = {} /\ enabled' = {} /\ grammar' = {} /\ watching' = {}
               /\ handlers' = NoHandlers /\ ~meddled'
    BY <1>8, <2>1 DEF Still, DownOK, Quiet, Idle
  <2> QED
    BY <2>1 DEF DownOK, NoHandlers
<1> QED
  BY <1>1, <1>2, <1>3, <1>4, <1>5, <1>6, <1>7, <1>8, Stills DEF Next, MainStep, CommandOps

LEMMA RunnersStep ==
    ASSUME Types, StackOK, DownOK, RunnersOK, [Next]_vars
    PROVE  RunnersOK'
<1>0. \A c \in Runners : c \in Commanders /\ c # Main
  BY RunnersAre
<1>1. ASSUME NEW c \in Commanders, Step(c) PROVE RunnersOK'
  <2>1. ~Idle(c) /\ watching' = watching
    BY <1>1, StepsMove DEF StepMoves
  <2>2. \A d \in Commanders \ {c} : task'[d] = task[d]
    BY <1>1, StepLeaves
  <2> QED
    BY <1>0, <2>1, <2>2 DEF RunnersOK, Idle
<1>2. ASSUME Boot \/ MainLoopEnds \/ Reload PROVE RunnersOK'
  <2>1. watching' = watching /\ \A d \in Runners : task'[d] = task[d]
    BY <1>0, <1>2 DEF Boot, MainLoopEnds, Reload, processVars, Types
  <2> QED
    BY <2>1 DEF RunnersOK, Idle
<1>3. CASE Watch
  BY <1>3 DEF Watch, RunnersOK
<1>4. ASSUME Ready \/ Reloaded \/ JoinRunners \/ Truncate \/ Write PROVE RunnersOK'
  <2>1. watching' = watching /\ \A d \in Runners : task'[d] = task[d]
    BY <1>0, <1>4 DEF Ready, Reloaded, JoinRunners, Truncate, Write, Pop, Replace, processVars, Types
  <2> QED
    BY <2>1 DEF RunnersOK, Idle
<1>5. ASSUME End \/ Crash PROVE RunnersOK'
  <2>1. task' = [c \in Commanders |-> <<>>]
    BY <1>5 DEF End, Crash
  <2> QED
    BY <1>0, <2>1 DEF RunnersOK, Idle
<1>6. ASSUME NEW c \in Runners, NEW op \in CommandOps, NEW u \in Units, Command(c, op, u)
      PROVE  RunnersOK'
  <2>1. c \in watching /\ watching' = watching /\ \A d \in Commanders \ {c} : task'[d] = task[d]
    BY <1>6, CommandLeaves DEF Reached
  <2> QED
    BY <1>0, <2>1 DEF RunnersOK, Idle
<1>7. ASSUME NEW c \in Runners, RunnerEnds(c) PROVE RunnersOK'
  BY <1>7 DEF RunnerEnds, RunnersOK, Idle
<1>8. CASE Still
  BY <1>8 DEF Still, RunnersOK, Idle
<1> QED
  BY <1>1, <1>2, <1>3, <1>4, <1>5, <1>6, <1>7, <1>8, Stills DEF Next, MainStep, CommandOps

\* The jobs an operation begins with.
LEMMA BegunDos ==
    ASSUME NEW h \in JobSet, NEW u \in Units, NEW s \in Stacks, Begun(h, u, s)
    PROVE  /\ h.do = "enable" => \A k \in DOMAIN s : s[k].do \in {"enable", "tell"} \cup UpSteps
           /\ h.do \in {"start", "stop"} => \A k \in DOMAIN s : s[k].do \in RunDos
           /\ h.do = "shut" => \A k \in DOMAIN s : s[k].do \in {"shut"} \cup RunDos
           /\ h.do \in {"stop", "shut"} => ~Has(s, Of({"start", "rise"}))
           /\ h.do # "shut" => ~Has(s, Of({"shut"}))
<1>1. \A k \in DOMAIN s : \/ s[k].do = h.do
                          \/ s[k].do \in UpSteps /\ h.do \in {"start", "enable"}
                          \/ s[k].do \in DownSteps /\ h.do \in {"stop", "disable", "shut"}
                          \/ s[k].do = "tell" /\ h.do \in {"enable", "disable"}
  BY DEF Begun, StepOf
<1>2. h.do = "enable" => \A k \in DOMAIN s : s[k].do \in {"enable", "tell"} \cup UpSteps
  BY <1>1
<1>3. h.do \in {"start", "stop"} => \A k \in DOMAIN s : s[k].do \in RunDos
  BY <1>1 DEF RunDos, Steps
<1>4. h.do = "shut" => \A k \in DOMAIN s : s[k].do \in {"shut"} \cup RunDos
  BY <1>1 DEF RunDos, Steps
<1>5. h.do \in {"stop", "shut"} => ~Has(s, Of({"start", "rise"}))
  BY <1>1 DEF Has, Of, DownSteps
<1>6. h.do # "shut" => ~Has(s, Of({"shut"}))
  BY <1>1 DEF Has, Of, UpSteps, DownSteps
<1> QED
  BY <1>2, <1>3, <1>4, <1>5, <1>6

\* An operation or a step of the main thread.
LEMMA MainStepStack ==
    ASSUME Types, DownOK, RunnersOK, StackOK, Step(Main)
    PROVE  StackOK'
<1> DEFINE t == task[Main]
           r == Tail(t)
           h == t[1]
<1>1. PICK s \in Stacks : StepMoves(Main, t, s) /\ task'[Main] = s \o r
  BY MainIs, StepLeaves
<1>2. t \in Stacks /\ t # <<>> /\ h \in JobSet /\ r \in Stacks
  BY MainIs, StepsMove, HeadIs
<1> DEFINE q == s \o r
<1>3. UNCHANGED <<phase, watching, promised>>
  BY <1>1 DEF StepMoves
<1>4. (s = <<>> /\ Taken(h)) \/ \E u \in Units : Begun(h, u, s) /\ Opened(Main, h, u)
  BY <1>1 DEF StepMoves, StepKind
<1>5. s = <<>> => DOMAIN s = {} /\ q = r
  <2>1. DOMAIN <<>> = {}
    OBVIOUS
  <2>2. <<>> \o r = r
    BY <1>2 DEF Stacks
  <2> QED
    BY <2>1, <2>2
<1>6. h.do \in Steps \cup {"tell"} \cup Operations
  BY <1>4 DEF Taken, Begun
<1> HIDE DEF h, r, q, t
<1>7. ASSUME phase = "booting" PROVE BootingOK(q) /\ (watching # {} => ~Has(q, Of({"watch"})))
  <2>1. BootingOK(t) /\ (watching # {} => ~Has(t, Of({"watch"})))
    BY <1>7 DEF StackOK, MainOK, t
  <2>2. h.do \in BootDos
    BY <1>2, <2>1, Tails DEF BootingOK, h
  <2>3. h.do # "ready"
    BY <1>6 DEF Steps, UpSteps, DownSteps, Operations
  <2>4. BootingOK(r) /\ (h.do \in {"enable", "rise"} => Has(r, Of({"watch"})))
    BY <1>2, <2>1, <2>3, BootingTail DEF h, r
  <2>5. watching # {} => ~Has(r, Of({"watch"}))
    BY <1>2, <2>1, HasTail DEF r
  <2>6. CASE s = <<>>
    BY <1>5, <2>4, <2>5, <2>6
  <2>7. ASSUME NEW u \in Units, Begun(h, u, s)
        PROVE  BootingOK(q) /\ (watching # {} => ~Has(q, Of({"watch"})))
    <3>1. h.do = "enable"
      BY <2>2, <2>7 DEF Begun, BootDos, UpSteps, Operations
    <3>2. \A k \in DOMAIN s : s[k].do \in {"enable", "tell"} \cup UpSteps
      BY <1>2, <2>7, <3>1, BegunDos
    <3>3. Has(r, Of({"watch"}))
      BY <2>4, <3>1
    <3> QED
      BY <1>2, <2>4, <2>5, <3>2, <3>3, BootingPushed DEF q
  <2> QED
    BY <1>4, <2>6, <2>7
<1>8. ASSUME phase = "running" PROVE RunningOK(q)
  <2>1. RunningOK(t)
    BY <1>8 DEF StackOK, MainOK, t
  <2>2. h.do \in RunDos \cup {"reloaded"}
    BY <1>2, <2>1, Tails DEF RunningOK, h
  <2>3. h.do # "reloaded"
    BY <1>6 DEF Steps, UpSteps, DownSteps, Operations
  <2>4. RunningOK(r) /\ r # <<>>
    BY <1>2, <2>1, <2>3, RunningTail DEF h, r
  <2>5. CASE s = <<>>
    BY <1>5, <2>4, <2>5
  <2>6. ASSUME NEW u \in Units, Begun(h, u, s)
        PROVE  RunningOK(q)
    <3>1. h.do \in {"start", "stop"}
      BY <2>2, <2>3, <2>6 DEF Begun, RunDos, Steps, UpSteps, DownSteps, Operations
    <3>2. \A k \in DOMAIN s : s[k].do \in RunDos
      BY <1>2, <2>6, <3>1, BegunDos
    <3> QED
      BY <1>2, <2>4, <3>2, RunningPushed DEF q
  <2> QED
    BY <1>4, <2>5, <2>6
<1>9. ASSUME phase = "stopping"
      PROVE  StoppingOK(q) /\ (~Has(q, Of({"join"})) => enabled' = promised /\ watching = {})
  <2>1. StoppingOK(t) /\ (~Has(t, Of({"join"})) => enabled = promised /\ watching = {})
    BY <1>9 DEF StackOK, MainOK, t
  <2>2. h.do \in StopDos
    BY <1>2, <2>1, Tails DEF StoppingOK, h
  <2>3. h.do # "end" /\ h.do # "join" /\ h.do # "enable" /\ h.do # "disable"
    BY <1>6, <2>2 DEF Steps, UpSteps, DownSteps, Operations, StopDos, RunDos
  <2>4. /\ StoppingOK(r)
        /\ h.do = "shut" => ~Has(r, Of({"reloaded"}))
        /\ h.do \in {"start", "rise"} => Has(r, Of({"reloaded"}))
    <3>1. "shut" \in StopDos \ RunDos
      BY DEF StopDos, RunDos, Steps, UpSteps, DownSteps
    <3> QED
      BY <1>2, <2>1, <2>3, <3>1, StoppingTail DEF h, r
  <2>5. Has(t, Of({"join"})) => Has(r, Of({"join"}))
    <3>1. h \notin Of({"join"})
      BY <2>3 DEF Of
    <3> QED
      BY <1>2, <3>1, HasTail DEF r, h
  <2>6. enabled' = enabled
    BY <1>4, <2>3 DEF Taken, Opened
  <2>7. CASE s = <<>>
    BY <1>5, <2>1, <2>4, <2>5, <2>6, <2>7
  <2>8. ASSUME NEW u \in Units, Begun(h, u, s)
        PROVE  StoppingOK(q) /\ (Has(q, Of({"join"})) <=> Has(r, Of({"join"})))
    <3>1. h.do \in {"start", "stop", "shut"}
      BY <2>3, <2>8 DEF Begun, Operations
    <3>2. \A k \in DOMAIN s : s[k].do \in {"shut"} \cup RunDos
      BY <1>2, <2>8, <3>1, BegunDos
    <3>3. Has(s, Of({"shut"})) => ~Has(r, Of({"reloaded"}))
      BY <1>2, <2>4, <2>8, BegunDos
    <3>4. Has(s, Of({"start", "rise"})) => Has(r, Of({"reloaded"}))
      BY <1>2, <2>4, <2>8, <3>1, BegunDos
    <3> QED
      BY <1>2, <2>4, <3>2, <3>3, <3>4, StoppingPushed DEF q
  <2> QED
    BY <1>4, <2>1, <2>5, <2>6, <2>7, <2>8
<1>10. task'[Main] = q
  BY <1>1 DEF q, r, t
<1> QED
  BY <1>3, <1>7, <1>8, <1>9, <1>10 DEF StackOK, MainOK

LEMMA StackStep ==
    ASSUME Types, DownOK, RunnersOK, StackOK, [Next]_vars
    PROVE  StackOK'
<1> DEFINE t == task[Main]
<1>0. t \in Stacks
  BY MainIs DEF Types
<1>1. ASSUME NEW c \in Commanders, Step(c) PROVE StackOK'
  <2>1. CASE c = Main
    BY <1>1, <2>1, MainStepStack
  <2>2. CASE c # Main
    <3>1. c \in watching
      BY <1>1, <2>2, StepsMove DEF RunnersOK, Commanders
    <3>2. task'[Main] = t /\ UNCHANGED <<phase, watching, promised>>
      BY <1>1, <2>2, MainIs, StepLeaves DEF StepMoves
    <3> QED
      BY <3>1, <3>2 DEF StackOK, MainOK
  <2> QED
    BY <2>1, <2>2
<1>2. CASE Boot
  <2>1. task' = [task EXCEPT ![Main] = BootStack]
    BY <1>2 DEF Boot, BootStack, BootEnd
  <2>2. task'[Main] = BootStack
    BY <2>1, MainIs, BootStackIs, TasksAre
  <2>3. phase' = "booting" /\ watching' = {}
    BY <1>2 DEF Boot, DownOK
  <2> QED
    BY <2>2, <2>3, BootStackIs DEF StackOK, MainOK
<1>3. ASSUME NEW what, Do(Main, what), Pop(Main)
      PROVE  /\ t # <<>> /\ t[1] \in JobSet /\ t[1].do = what /\ task'[Main] = Tail(t)
             /\ phase = "booting" => what \in BootDos
             /\ phase = "running" => what \in RunDos \cup {"reloaded"}
             /\ phase = "stopping" => what \in StopDos
             /\ phase # "down"
  <2>1. t # <<>> /\ t[1] \in JobSet /\ t[1].do = what /\ task'[Main] = Tail(t)
    BY <1>3, MainIs, HeadIs, MainPops DEF Pops, Do, Idle
  <2>2. 1 \in DOMAIN t
    BY <1>0, <2>1, Tails
  <2>3. phase # "down"
    BY <2>1, MainIs DEF DownOK, Quiet, Idle
  <2> QED
    BY <2>1, <2>2, <2>3 DEF StackOK, MainOK, BootingOK, RunningOK, StoppingOK
<1>4. CASE Watch
  <2>1. t # <<>> /\ t[1].do = "watch" /\ task'[Main] = Tail(t) /\ phase = "booting"
    BY <1>3, <1>4 DEF Watch, Types, RunDos, Steps, UpSteps, DownSteps, StopDos
  <2>2. BootingOK(Tail(t)) /\ ~Has(Tail(t), Of({"watch"}))
    BY <1>0, <2>1, BootingTail DEF StackOK, MainOK
  <2>3. phase' = "booting"
    BY <1>4, <2>1 DEF Watch
  <2> QED
    BY <2>1, <2>2, <2>3 DEF StackOK, MainOK
<1>5. CASE Ready
  <2>1. t # <<>> /\ t[1].do = "ready" /\ task'[Main] = Tail(t) /\ phase = "booting"
    BY <1>3, <1>5 DEF Ready, Types, RunDos, Steps, UpSteps, DownSteps, StopDos
  <2>2. Tail(t) = <<>>
    BY <1>0, <2>1, BootingTail DEF StackOK, MainOK
  <2>3. DOMAIN <<>> = {}
    OBVIOUS
  <2>4. RunningOK(Tail(t))
    BY <2>2, <2>3 DEF RunningOK
  <2>5. phase' = "running"
    BY <1>5 DEF Ready
  <2> QED
    BY <2>1, <2>4, <2>5 DEF StackOK, MainOK
<1>6. CASE Reloaded
  <2>1. /\ t # <<>> /\ t[1].do = "reloaded" /\ task'[Main] = Tail(t) /\ phase \in {"running", "stopping"}
        /\ t[1] \in JobSet
    BY <1>3, <1>6 DEF Reloaded, Types, BootDos, UpSteps
  <2>2. UNCHANGED <<phase, watching, enabled, promised>>
    BY <1>6 DEF Reloaded, processVars, unitVars
  <2>3. ASSUME phase = "running" PROVE RunningOK(Tail(t))
    BY <1>0, <2>1, <2>3, RunningTail DEF StackOK, MainOK
  <2>4. ASSUME phase = "stopping"
        PROVE  StoppingOK(Tail(t)) /\ (~Has(Tail(t), Of({"join"})) => enabled = promised /\ watching = {})
    <3>1. StoppingOK(t) /\ (~Has(t, Of({"join"})) => enabled = promised /\ watching = {})
      BY <2>4 DEF StackOK, MainOK
    <3>2. StoppingOK(Tail(t))
      BY <1>0, <2>1, <3>1, StoppingTail
    <3>3. Has(t, Of({"join"})) => Has(Tail(t), Of({"join"}))
      <4>1. t[1] \notin Of({"join"})
        BY <2>1 DEF Of
      <4> QED
        BY <1>0, <2>1, <4>1, HasTail
    <3> QED
      BY <3>1, <3>2, <3>3
  <2> QED
    BY <2>1, <2>2, <2>3, <2>4 DEF StackOK, MainOK
<1>7. CASE MainLoopEnds
  <2>1. task' = [task EXCEPT ![Main] = StopStack]
    BY <1>7 DEF MainLoopEnds, StopStack
  <2>2. task'[Main] = StopStack
    BY <2>1, MainIs, StopStackIs, TasksAre
  <2>3. phase' = "stopping"
    BY <1>7 DEF MainLoopEnds
  <2> QED
    BY <2>2, <2>3, StopStackIs DEF StackOK, MainOK
<1>8. ASSUME JoinRunners \/ Truncate \/ Write PROVE StackOK'
  <2>1. PICK what \in {"join", "truncate", "write"} : Do(Main, what) /\ Pop(Main)
    BY <1>8 DEF JoinRunners, Truncate, Write
  <2>2. t # <<>> /\ t[1].do = what /\ task'[Main] = Tail(t) /\ phase = "stopping" /\ t[1] \in JobSet
    BY <1>3, <2>1 DEF Types, BootDos, RunDos, Steps, UpSteps, DownSteps
  <2>3. phase' = phase /\ watching' = watching /\ enabled' = enabled
    BY <1>8 DEF JoinRunners, Truncate, Write, processVars, unitVars
  <2>4. StoppingOK(t) /\ (~Has(t, Of({"join"})) => enabled = promised /\ watching = {})
    BY <2>2 DEF StackOK, MainOK
  <2>5. StoppingOK(Tail(t)) /\ ~Has(Tail(t), Of({"join"}))
    BY <1>0, <2>2, <2>4, StoppingTail
  <2>6. promised' = enabled /\ watching = {}
    <3>1. CASE JoinRunners
      BY <3>1 DEF JoinRunners
    <3>2. CASE Truncate \/ Write
      <4>1. t[1].do \in {"truncate", "write"} /\ promised' = promised
        BY <1>3, <3>2 DEF Truncate, Write, historyVars
      <4>2. ~Has(Tail(t), Of({"join"})) /\ t[1] \notin Of({"join"})
        BY <2>5, <4>1 DEF Of
      <4>3. ~Has(t, Of({"join"}))
        BY <1>0, <2>2, <4>2, HasTail
      <4> QED
        BY <2>4, <4>1, <4>3
    <3> QED
      BY <1>8, <3>1, <3>2
  <2> QED
    BY <2>2, <2>3, <2>5, <2>6 DEF StackOK, MainOK
<1>9. ASSUME End \/ Crash PROVE StackOK'
  <2>1. phase' = "down"
    BY <1>9 DEF End, Crash
  <2> QED
    BY <2>1 DEF StackOK, MainOK
<1>10. CASE Reload
  <2>1. /\ task'[Main] = ReloadStack(t)
        /\ \/ phase = "running" /\ t = <<>>
           \/ phase = "stopping" /\ StoppingOK(t)
        /\ ~Has(t, Of({"reloaded"}))
    BY <1>10, ReloadLeaves
  <2>2. /\ phase = "running" => RunningOK(ReloadStack(t))
        /\ phase = "stopping" => /\ StoppingOK(ReloadStack(t))
                                 /\ Has(ReloadStack(t), Of({"join"})) <=> Has(t, Of({"join"}))
    <3> HIDE DEF t
    <3> QED
      BY <1>0, <2>1, ReloadStackIs
  <2>3. UNCHANGED <<phase, watching, enabled, promised>>
    BY <1>10 DEF Reload, processVars, unitVars
  <2> QED
    BY <2>1, <2>2, <2>3 DEF StackOK, MainOK
<1>11. ASSUME NEW c \in Runners, NEW op \in CommandOps, NEW u \in Units, Command(c, op, u)
       PROVE  StackOK'
  <2>1. task'[Main] = t /\ UNCHANGED <<phase, watching, enabled, promised>>
    BY <1>11, MainIs, RunnersAre, CommandLeaves
  <2> QED
    BY <2>1 DEF StackOK, MainOK
<1>12. ASSUME NEW c \in Runners, RunnerEnds(c) PROVE StackOK'
  <2>1. UNCHANGED <<phase, task, enabled, promised>> /\ watching' \subseteq watching
    BY <1>12 DEF RunnerEnds, unitVars, historyVars
  <2> QED
    BY <2>1 DEF StackOK, MainOK
<1>13. CASE Still
  BY <1>13 DEF Still, StackOK, MainOK
<1> QED
  BY <1>1, <1>2, <1>4, <1>5, <1>6, <1>7, <1>8, <1>9, <1>10, <1>11, <1>12, <1>13, Stills
     DEF Next, MainStep, CommandOps

\* What the head of the stack of the main thread says of the phase.
LEMMA PhaseOfHead ==
    ASSUME Types, DownOK, StackOK, NEW what, Do(Main, what)
    PROVE  /\ phase = "booting" => what \in BootDos
           /\ phase = "running" => what \in RunDos \cup {"reloaded"}
           /\ phase = "stopping" => what \in StopDos
           /\ phase # "down"
           /\ task[Main] \in Stacks /\ task[Main] # <<>>
           /\ task[Main][1] \in JobSet /\ task[Main][1].do = what
<1>1. task[Main] # <<>> /\ task[Main][1] \in JobSet /\ task[Main][1].do = what /\ task[Main] \in Stacks
  BY MainIs, HeadIs DEF Do, Idle
<1>2. 1 \in DOMAIN task[Main]
  BY <1>1, Tails
<1>3. phase # "down"
  BY <1>1, MainIs DEF DownOK, Quiet, Idle
<1> QED
  BY <1>1, <1>2, <1>3 DEF StackOK, MainOK, BootingOK, RunningOK, StoppingOK

-----------------------------------------------------------------------------
(* The steps that move a mode                                              *)

LEMMA AheadIsMove ==
    ASSUME NEW t, NEW m, Ahead(t, m)
    PROVE  t[1].do \in MoveSteps
BY DEF Ahead, Job, MoveSteps

\* An action that lets the mode alone, and the stacks as far as they move it.
LEMMA MovesKept ==
    ASSUME NEW m \in OtherModes, MovesOK(m),
           m \in started' <=> m \in started, m \in grammar' <=> m \in grammar,
           \A c \in Commanders : \/ task'[c] = task[c]
                                 \/ ~Moving(c, m) /\ ~Has(task'[c], MoveOf(m))
    PROVE  MovesOK(m)'
<1>1. \A c \in Commanders : Moving(c, m)' <=> Has(task'[c], MoveOf(m))
  BY DEF Moving
<1>2. \A c \in Commanders : (Moving(c, m)' <=> Moving(c, m)) /\ (Moving(c, m) => task'[c] = task[c])
  BY <1>1 DEF Moving
<1>3. \A c, d \in Commanders : Moving(c, m)' /\ Moving(d, m)' => c = d
  BY <1>2 DEF MovesOK
<1>4. ASSUME NEW c \in Commanders, Moving(c, m)' PROVE Ahead(task[c], m)'
  <2>1. Ahead(task[c], m) /\ task'[c] = task[c]
    BY <1>2, <1>4 DEF MovesOK
  <2> QED
    BY <2>1 DEF Ahead
<1>5. (\A c \in Commanders : ~Moving(c, m)') => (m \in started' <=> m \in grammar')
  BY <1>2 DEF MovesOK
<1> QED
  BY <1>3, <1>4, <1>5 DEF MovesOK

LEMMA StepMovesOK ==
    ASSUME Types, NEW m \in OtherModes, MovesOK(m), NEW c \in Commanders, Step(c), ~overlapped'
    PROVE  MovesOK(m)'
<1> DEFINE t == task[c]
           r == Tail(t)
           h == t[1]
<1>1. PICK s \in Stacks : /\ StepMoves(c, t, s) /\ task'[c] = s \o r
                          /\ \A d \in Commanders \ {c} : task'[d] = task[d]
  BY StepLeaves
<1>2. t \in Stacks /\ t # <<>> /\ h \in JobSet /\ r \in Stacks
  BY StepsMove, HeadIs
<1>3. (s = <<>> /\ Taken(h)) \/ \E u \in Units : Begun(h, u, s) /\ Opened(c, h, u)
  BY <1>1 DEF StepMoves, StepKind
<1>4. /\ \A k \in DOMAIN r : k \in Nat /\ k > 0 /\ k + 1 \in DOMAIN t /\ r[k] = t[k + 1]
      /\ 1 \in DOMAIN t
  BY <1>2, Tails
<1>5. h \in MoveOf(m) \/ Has(r, MoveOf(m)) <=> Moving(c, m)
  BY <1>2, HasTail DEF Moving
<1>6. Moving(c, m) => Ahead(t, m)
  BY DEF MovesOK
<1>7. h.do \notin MoveSteps => ~Moving(c, m)
  BY <1>6, AheadIsMove
<1>8. Len(r) + 1 = Len(t) /\ Len(r) \in Nat /\ DOMAIN r = 1 .. Len(r)
  BY <1>2 DEF Stacks
<1> HIDE DEF t, r, h
<1>9. ASSUME NEW u \in Units, Begun(h, u, s), Opened(c, h, u) PROVE MovesOK(m)'
  <2>1. h.do \in Operations
    BY <1>9 DEF Begun
  <2>2. ~Moving(c, m) /\ ~Has(r, MoveOf(m))
    BY <1>5, <1>7, <2>1 DEF Operations, MoveSteps
  <2>3. started' = started /\ grammar' = grammar
    BY <1>9 DEF Opened
  <2>4. CASE ~Has(s, MoveOf(m))
    <3>1. ~Has(task'[c], MoveOf(m))
      BY <1>1, <1>2, <2>2, <2>4, HasPushed
    <3> QED
      BY <1>1, <2>2, <2>3, <3>1, MovesKept
  <2>5. CASE Has(s, MoveOf(m))
    <3>1. u = m
      <4>1. PICK k \in DOMAIN s : s[k] \in MoveOf(m)
        BY <2>5 DEF Has
      <4>2. s[k].do \in MoveSteps /\ m \in s[k].on
        BY <4>1 DEF MoveOf, OfUnit, Of
      <4>3. s[k].do # h.do
        BY <2>1, <4>2 DEF MoveSteps, Operations
      <4> QED
        BY <1>9, <4>2, <4>3 DEF Begun, StepOf
    <3>2. ASSUME NEW d \in Commanders \ {c} PROVE ~Moving(d, m)
      <4>1. ~Shared(c, m)
        BY <1>9, <3>1 DEF Opened
      <4>2. SUFFICES ASSUME Moving(d, m) PROVE FALSE
        OBVIOUS
      <4>3. PICK k \in DOMAIN task[d] : task[d][k] \in MoveOf(m)
        BY <4>2 DEF Moving, Has
      <4>4. task[d][k].do \notin Operations /\ m \in task[d][k].on
        BY <4>3 DEF MoveOf, OfUnit, Of, MoveSteps, Operations
      <4>5. m \in Units
        BY DEF Units, Modes
      <4> QED
        BY <4>1, <4>4, <4>5 DEF Shared, Busy
    <3>3. MovesAhead(s, m) /\ ~NoMoveFrom(s, 1, m)
      <4>1. MovesAhead(s, m)
        BY <1>9, <3>1 DEF Begun
      <4>2. \A k \in DOMAIN s : k >= 1
        BY DEF Stacks
      <4> QED
        BY <2>5, <4>1, <4>2 DEF Has, NoMoveFrom
    <3> DEFINE q == s \o r
    <3>4. Joined(s, r, q)
      BY <1>2, Pushed
    <3> HIDE DEF q
    <3>5. q \in Stacks /\ Len(s) >= 2 /\ 1 \in DOMAIN s /\ 2 \in DOMAIN s
      BY <3>3, <3>4 DEF MovesAhead, Joined, Stacks
    <3>6. q[1] = s[1] /\ q[2] = s[2] /\ 2 \in DOMAIN q
      BY <3>4, <3>5 DEF Joined
    <3>7. NoMoveFrom(s, 3, m) => NoMoveFrom(q, 3, m)
      BY <2>2, <3>4 DEF Joined, NoMoveFrom, Has
    <3>8. Len(q) >= 2
      BY <3>5, <3>6 DEF Stacks
    <3>9. /\ NoMoveFrom(q, 3, m)
          /\ \/ q[1] = Job("add", {m}) /\ q[2] = Job("rise", {m})
             \/ q[1] = Job("remove", {m}) /\ q[2] = Job("fall", {m})
      BY <3>3, <3>6, <3>7 DEF MovesAhead
    <3>10. task'[c] = q
      BY <1>1 DEF q
    <3>11. Ahead(task[c], m)'
      BY <3>8, <3>9, <3>10 DEF Ahead
    <3>12. \A d \in Commanders : Moving(d, m)' => d = c
      BY <1>1, <3>2 DEF Moving
    <3>13. Moving(c, m)'
      BY <2>5, <3>4, <3>10 DEF Moving, Has, Joined
    <3> QED
      BY <3>11, <3>12, <3>13 DEF MovesOK
  <2> QED
    BY <2>4, <2>5
<1>10. ASSUME s = <<>>, Taken(h) PROVE MovesOK(m)'
  <2>0. task'[c] = r
    <3>1. <<>> \o r = r
      BY <1>2 DEF Stacks
    <3> QED
      BY <1>1, <1>10, <3>1
  <2>1. CASE ~Moving(c, m)
    <3>1. h \notin MoveOf(m) /\ ~Has(r, MoveOf(m))
      BY <1>5, <2>1
    <3>2. h.do \in MoveSteps => m \notin h.on
      BY <1>2, <3>1 DEF MoveOf, OfUnit, Of
    <3>3. (m \in started' <=> m \in started) /\ (m \in grammar' <=> m \in grammar)
      BY <1>10, <3>2 DEF Taken, MoveSteps
    <3> QED
      BY <1>1, <2>0, <2>1, <3>1, <3>3, MovesKept
  <2>2. CASE Moving(c, m)
    <3>1. Ahead(t, m)
      BY <1>6, <2>2
    <3>2. \A d \in Commanders \ {c} : ~Moving(d, m)'
      BY <1>1, <2>2 DEF Moving, MovesOK
    <3>3. ASSUME NoMoveFrom(t, 3, m), Len(t) >= 2 
          PROVE  NoMoveFrom(r, 2, m) /\ r[1] = t[2] /\ 1 \in DOMAIN r /\ r[1] \in JobSet
      <4>1. NoMoveFrom(r, 2, m)
        BY <1>4, <3>3 DEF NoMoveFrom
      <4>2. 1 \in DOMAIN r
        BY <1>8, <3>3
      <4>3. r[1] \in JobSet
        BY <1>2, <4>2 DEF Stacks
      <4> QED
        BY <1>4, <4>1, <4>2, <4>3
    <3>4. ASSUME NoMoveFrom(t, 2, m) PROVE ~Moving(c, m)'
      <4>1. ~Has(r, MoveOf(m))
        BY <1>4, <3>4 DEF NoMoveFrom, Has
      <4> QED
        BY <2>0, <4>1 DEF Moving
    <3>5. ASSUME Ahead(task[c], m)', 1 \in DOMAIN r, r[1] \in MoveOf(m) PROVE MovesOK(m)'
      <4>1. Moving(c, m)'
        BY <2>0, <3>5 DEF Moving, Has
      <4> QED
        BY <3>2, <3>5, <4>1 DEF MovesOK
    <3>6. ASSUME ~Moving(c, m)', m \in started' <=> m \in grammar' PROVE MovesOK(m)'
      BY <3>2, <3>6 DEF MovesOK
    <3>7. CASE /\ t[1] = Job("add", {m}) /\ t[2] = Job("rise", {m}) /\ Len(t) >= 2
               /\ NoMoveFrom(t, 3, m)
      <4>1. h.do = "add" /\ h.on = {m}
        BY <3>7 DEF Job, h
      <4>2. m \in grammar'
        BY <1>10, <4>1 DEF Taken
      <4>3. r[1] = Job("rise", {m}) /\ NoMoveFrom(r, 2, m) /\ 1 \in DOMAIN r /\ r[1] \in JobSet
        BY <3>3, <3>7
      <4>4. r[1] \in MoveOf(m)
        BY <4>3 DEF Job, MoveOf, OfUnit, Of, MoveSteps
      <4>5. Ahead(task[c], m)'
        BY <2>0, <4>2, <4>3 DEF Ahead
      <4> QED
        BY <3>5, <4>3, <4>4, <4>5
    <3>8. CASE t[1] = Job("rise", {m}) /\ m \in grammar /\ NoMoveFrom(t, 2, m)
      <4>1. h.do = "rise" /\ h.on = {m}
        BY <3>8 DEF Job, h
      <4>2. m \in grammar' /\ m \in started'
        BY <1>10, <3>8, <4>1 DEF Taken
      <4> QED
        BY <3>4, <3>6, <3>8, <4>2
    <3>9. CASE /\ t[1] = Job("remove", {m}) /\ t[2] = Job("fall", {m}) /\ Len(t) >= 2
               /\ NoMoveFrom(t, 3, m)
      <4>1. h.do = "remove" /\ h.on = {m}
        BY <3>9 DEF Job, h
      <4>2. m \notin grammar'
        BY <1>10, <4>1 DEF Taken
      <4>3. r[1] = Job("fall", {m}) /\ NoMoveFrom(r, 2, m) /\ 1 \in DOMAIN r /\ r[1] \in JobSet
        BY <3>3, <3>9
      <4>4. r[1] \in MoveOf(m)
        BY <4>3 DEF Job, MoveOf, OfUnit, Of, MoveSteps
      <4>5. Ahead(task[c], m)'
        BY <2>0, <4>2, <4>3 DEF Ahead
      <4> QED
        BY <3>5, <4>3, <4>4, <4>5
    <3>10. CASE t[1] = Job("fall", {m}) /\ m \notin grammar /\ NoMoveFrom(t, 2, m)
      <4>1. h.do = "fall" /\ h.on = {m}
        BY <3>10 DEF Job, h
      <4>2. m \notin grammar' /\ m \notin started'
        BY <1>10, <3>10, <4>1 DEF Taken
      <4> QED
        BY <3>4, <3>6, <3>10, <4>2
    <3> QED
      BY <3>1, <3>7, <3>8, <3>9, <3>10 DEF Ahead
  <2> QED
    BY <2>1, <2>2
<1> QED
  BY <1>3, <1>9, <1>10

LEMMA ReachStep ==
    ASSUME Types, DownOK, RunnersOK, StackOK, ReachOK, [Next]_vars
    PROVE  ReachOK'
<1> SUFFICES ASSUME ~overlapped', phase' # "stopping", NEW m \in OtherModes
             PROVE  MovesOK(m)'
  BY DEF ReachOK
<1> DEFINE t == task[Main]
<1>0. m \in Units
  BY DEF Units, Modes
<1>1. ~overlapped /\ phase # "stopping" => MovesOK(m)
  BY DEF ReachOK
<1>2. ASSUME NEW c \in Commanders, Step(c) PROVE MovesOK(m)'
  <2>1. PICK s \in Stacks : StepMoves(c, task[c], s)
    BY <1>2, StepLeaves
  <2>2. phase' = phase
    BY <2>1 DEF StepMoves
  <2>3. Taken(task[c][1]) => overlapped' = overlapped
    BY DEF Taken
  <2>4. \A u \in Units : Opened(c, task[c][1], u) => (overlapped => overlapped')
    BY DEF Opened
  <2>5. overlapped => overlapped'
    BY <2>1, <2>3, <2>4 DEF StepMoves, StepKind
  <2> QED
    BY <1>1, <1>2, <2>2, <2>5, StepMovesOK
<1>3. ASSUME NEW c \in Commanders, ~overlapped, phase # "stopping",
             ~Moving(c, m), ~Has(task'[c], MoveOf(m)),
             \A d \in Commanders \ {c} : task'[d] = task[d],
             m \in started' <=> m \in started, m \in grammar' <=> m \in grammar
      PROVE  MovesOK(m)'
  BY <1>1, <1>3, MovesKept
<1>4. ASSUME NEW what, Pops(what), what \notin MoveSteps, ~overlapped, phase # "stopping",
             UNCHANGED <<started, grammar>>
      PROVE  MovesOK(m)'
  <2>1. t \in Stacks /\ t # <<>> /\ t[1].do = what
    BY <1>4, MainIs, HeadIs DEF Pops, Do, Idle
  <2>2. ~Moving(Main, m)
    BY <1>1, <1>4, <2>1, MainIs, AheadIsMove DEF MovesOK
  <2>3. ~Has(Tail(t), MoveOf(m))
    BY <2>1, <2>2, HasTail DEF Moving
  <2> QED
    BY <1>3, <1>4, <2>2, <2>3, MainIs DEF Pops, Commanders
<1>5. CASE Boot
  <2>1. task' = [task EXCEPT ![Main] = BootStack]
    BY <1>5 DEF Boot, BootStack, BootEnd
  <2>2. task'[Main] = BootStack /\ \A d \in Commanders \ {Main} : task'[d] = task[d]
    BY <2>1, MainIs, BootStackIs, TasksAre
  <2>3. ~Has(BootStack, MoveOf(m))
    BY <1>0, BootStackIs
  <2>4. phase = "down" /\ UNCHANGED <<started, grammar, overlapped>>
    BY <1>5 DEF Boot, unitVars, historyVars
  <2>5. ~Moving(Main, m)
    <3>1. task[Main] = <<>>
      BY <2>4, MainIs DEF DownOK, Quiet, Idle
    <3>2. DOMAIN <<>> = {}
      OBVIOUS
    <3> QED
      BY <3>1, <3>2 DEF Moving, Has
  <2> QED
    BY <1>3, <2>2, <2>3, <2>4, <2>5, MainIs
<1>6. CASE Watch
  BY <1>4, <1>6, MainPops DEF Watch, unitVars, historyVars, MoveSteps
<1>7. CASE Ready
  <2>1. Do(Main, "ready")
    BY <1>7 DEF Ready
  <2>2. phase # "stopping"
    BY <2>1, PhaseOfHead DEF StopDos, RunDos, Steps, UpSteps, DownSteps
  <2>3. Pops("ready") /\ UNCHANGED <<started, grammar, overlapped>>
    BY <1>7, MainPops DEF Ready, unitVars, historyVars
  <2> QED
    BY <1>4, <2>2, <2>3 DEF MoveSteps
<1>8. CASE Reloaded
  BY <1>4, <1>8, MainPops DEF Reloaded, processVars, unitVars, MoveSteps
<1>9. ASSUME JoinRunners \/ Truncate \/ Write PROVE FALSE
  <2>1. PICK what \in {"join", "truncate", "write"} : Do(Main, what)
    BY <1>9 DEF JoinRunners, Truncate, Write
  <2>2. phase' = phase
    BY <1>9 DEF JoinRunners, Truncate, Write, processVars
  <2> QED
    BY <2>1, <2>2, PhaseOfHead DEF Types, BootDos, RunDos, Steps, UpSteps, DownSteps
<1>10. ASSUME MainLoopEnds PROVE FALSE
  BY <1>10 DEF MainLoopEnds
<1>11. ASSUME End \/ Crash PROVE MovesOK(m)'
  <2>1. task' = [c \in Commanders |-> <<>>] /\ started' = {} /\ grammar' = {}
    BY <1>11 DEF End, Crash, Fresh
  <2>2. DOMAIN <<>> = {}
    OBVIOUS
  <2>3. \A c \in Commanders : ~Has(task'[c], MoveOf(m))
    BY <2>1, <2>2 DEF Has
  <2>4. \A c \in Commanders : ~Moving(c, m)'
    BY <2>3 DEF Moving
  <2> QED
    BY <2>1, <2>4 DEF MovesOK
<1>12. CASE Reload
  <2>1. /\ task'[Main] = ReloadStack(t)
        /\ \A d \in Runners : task'[d] = task[d]
        /\ UNCHANGED <<phase, started, grammar, overlapped>>
    BY <1>12, ReloadLeaves DEF Reload, processVars, unitVars
  <2>2. phase = "running" /\ t = <<>> /\ ~Has(t, Of({"reloaded"}))
    BY <1>12, <2>1, ReloadLeaves
  <2>3. DOMAIN <<>> = {} /\ t \in Stacks
    BY MainIs DEF Types
  <2>4. ~Has(t, MoveOf(m))
    BY <2>2, <2>3 DEF Has
  <2>5. ~Has(ReloadStack(t), MoveOf(m))
    <3> HIDE DEF t
    <3> QED
      BY <2>2, <2>3, <2>4, ReloadStackIs
  <2>6. ~Moving(Main, m)
    BY <2>4 DEF Moving
  <2> QED
    BY <1>3, <2>1, <2>2, <2>5, <2>6, MainIs DEF Commanders
<1>13. ASSUME NEW c \in Runners, NEW op \in CommandOps, NEW u \in Units, Command(c, op, u)
       PROVE  MovesOK(m)'
  <2>1. /\ task'[c] = CommandStack(op, u)
        /\ \A d \in Commanders \ {c} : task'[d] = task[d]
        /\ ~Has(CommandStack(op, u), MoveOf(m))
        /\ overlapped => overlapped'
        /\ UNCHANGED <<phase, started, grammar>>
        /\ Idle(c)
    BY <1>13, CommandLeaves DEF Reached
  <2>2. DOMAIN <<>> = {}
    OBVIOUS
  <2>3. ~Moving(c, m)
    BY <2>1, <2>2 DEF Moving, Has, Idle
  <2> QED
    BY <1>3, <2>1, <2>3, RunnersAre
<1>14. ASSUME NEW c \in Runners, RunnerEnds(c) PROVE MovesOK(m)'
  <2>1. UNCHANGED <<phase, task, started, grammar, overlapped>>
    BY <1>14 DEF RunnerEnds, unitVars, historyVars
  <2> QED
    BY <1>1, <2>1, MovesKept
<1>15. CASE Still
  <2>1. UNCHANGED <<phase, task, started, overlapped>> /\ (m \in grammar' <=> m \in grammar)
    BY <1>15 DEF Still
  <2> QED
    BY <1>1, <2>1, MovesKept
<1> QED
  BY <1>2, <1>5, <1>6, <1>7, <1>8, <1>9, <1>10, <1>11, <1>12, <1>13, <1>14, <1>15, Stills
     DEF Next, MainStep, CommandOps

-----------------------------------------------------------------------------
(* What reload() does                                                      *)

LEMMA RestartStep ==
    ASSUME Types, NEW u \in Units, Step(Main), RestartOK(task[Main], u, before, started),
           task[Main][1].do \in RunDos, Has(Tail(task[Main]), Of({"reloaded"}))
    PROVE  RestartOK(task'[Main], u, before', started')
<1> DEFINE t == task[Main]
           r == Tail(t)
           h == t[1]
           Falls == OfUnit({"stop", "fall"}, u)
           Rises   == OfUnit({"start", "rise"}, u)
<1>1. PICK s \in Stacks : StepMoves(Main, t, s) /\ task'[Main] = s \o r
  BY MainIs, StepLeaves
<1>2. t \in Stacks /\ t # <<>> /\ h \in JobSet /\ r \in Stacks
  BY MainIs, StepsMove, HeadIs
<1> DEFINE q == s \o r
<1>3. before' = before
  BY <1>1 DEF StepMoves
<1>4. (s = <<>> /\ Taken(h)) \/ \E v \in Units : Begun(h, v, s) /\ Opened(Main, h, v)
  BY <1>1 DEF StepMoves, StepKind
<1>5. u \in before => /\ Before(r, Falls, Of({"reloaded"}), Rises)
                      /\ h \in Falls => Has(r, Rises)
  BY <1>2, BeforeTail DEF RestartOK
<1>6. Has(t, Rises) <=> h \in Rises \/ Has(r, Rises)
  BY <1>2, HasTail
<1>7. \/ u \in before /\ (u \in started \/ Has(t, Rises))
      \/ u \notin before /\ u \notin started /\ ~Has(t, Rises)
  BY DEF RestartOK
<1>8. Has(q, Rises) <=> Has(s, Rises) \/ Has(r, Rises)
  BY <1>2, HasPushed
<1>9. /\ h \in Falls <=> h.do \in {"stop", "fall"} /\ u \in h.on
      /\ h \in Rises <=> h.do \in {"start", "rise"} /\ u \in h.on
  BY <1>2 DEF OfUnit, Of
<1>10. h.do \in RunDos
  OBVIOUS
<1>11. \A k \in DOMAIN s : /\ s[k] \in Falls <=> s[k].do \in {"stop", "fall"} /\ u \in s[k].on
                           /\ s[k] \in Rises <=> s[k].do \in {"start", "rise"} /\ u \in s[k].on
  BY DEF OfUnit, Of, Stacks
<1>12. task'[Main] = q
  BY <1>1
<1> HIDE DEF t, r, h, q, Falls, Rises
<1>13. ASSUME s = <<>>, Taken(h) PROVE RestartOK(q, u, before', started')
  <2>1. q = r
    <3>1. <<>> \o r = r
      BY <1>2 DEF Stacks
    <3> QED
      BY <1>13, <3>1 DEF q
  <2>2. h.do \in Steps
    BY <1>10, <1>13 DEF Taken, RunDos, Steps, UpSteps, DownSteps
  <2>3. h.do \notin {"start", "stop"}
    BY <2>2 DEF Steps, UpSteps, DownSteps
  <2>4. started' = IF h.do = "rise" THEN started \cup h.on
                   ELSE IF h.do = "fall" THEN started \ h.on
                   ELSE started
    BY <1>13 DEF Taken
  <2>5. u \in before => u \in started' \/ Has(r, Rises)
    BY <1>5, <1>6, <1>7, <1>9, <2>3, <2>4
  <2>6. u \notin before => u \notin started' /\ ~Has(r, Rises)
    BY <1>6, <1>7, <1>9, <2>3, <2>4
  <2> QED
    BY <1>3, <1>5, <2>1, <2>5, <2>6 DEF RestartOK, Rises, Falls
<1>14. ASSUME NEW v \in Units, Begun(h, v, s), Opened(Main, h, v) PROVE RestartOK(q, u, before', started')
  <2>1. h.do \in {"start", "stop"} /\ v \in h.on
    BY <1>10, <1>14 DEF Begun, RunDos, Steps, UpSteps, DownSteps, Operations
  <2>2. started' = started
    BY <1>14 DEF Opened
  <2>3. \A k \in DOMAIN s : \/ s[k].do = h.do /\ s[k].on = h.on \ {v}
                            \/ s[k].on = {v} /\ s[k].do \in UpSteps /\ h.do = "start"
                            \/ s[k].on = {v} /\ s[k].do \in DownSteps /\ h.do = "stop"
    BY <1>14, <2>1 DEF Begun, StepOf
  <2>4. Has(s, Falls) => h \in Falls
    BY <1>9, <1>11, <2>1, <2>3 DEF Has, UpSteps, DownSteps
  <2>5. Has(s, Rises) => h \in Rises
    BY <1>9, <1>11, <2>1, <2>3 DEF Has, UpSteps, DownSteps
  <2>6. ASSUME h \in Rises PROVE u \in started \/ Has(s, Rises)
    <3>1. h.do = "start" /\ u \in h.on
      BY <1>9, <2>1, <2>6
    <3>2. CASE u = v
      <4>1. u \in started \/ \E k \in DOMAIN s : s[k] = Job("rise", {u})
        BY <1>14, <3>1, <3>2 DEF Begun
      <4>2. Job("rise", {u}).do = "rise" /\ u \in Job("rise", {u}).on
        BY DEF Job
      <4> QED
        BY <1>11, <4>1, <4>2 DEF Has
    <3>3. CASE u # v
      <4>1. PICK k \in DOMAIN s : s[k].do = h.do /\ u \in s[k].on
        BY <1>14, <3>1, <3>3 DEF Begun
      <4> QED
        BY <1>11, <3>1, <4>1 DEF Has
    <3> QED
      BY <3>2, <3>3
  <2>7. ~Has(s, Of({"reloaded"}))
    BY <2>1, <2>3 DEF Has, Of, UpSteps, DownSteps
  <2>8. u \in before => Before(q, Falls, Of({"reloaded"}), Rises)
    BY <1>2, <1>5, <2>4, <2>7, BeforePushed DEF q
  <2>9. u \in before => u \in started \/ Has(q, Rises)
    BY <1>6, <1>7, <1>8, <2>6
  <2>10. u \notin before => u \notin started /\ ~Has(q, Rises)
    BY <1>6, <1>7, <1>8, <2>5
  <2> QED
    BY <1>3, <2>2, <2>8, <2>9, <2>10 DEF RestartOK, Rises, Falls
<1>15. RestartOK(q, u, before', started')
  BY <1>4, <1>13, <1>14
<1> QED
  BY <1>12, <1>15

LEMMA ReloadStep ==
    ASSUME Types, DownOK, RunnersOK, StackOK, ReloadInv, [Next]_vars
    PROVE  ReloadInv'
<1> DEFINE t == task[Main]
<1>0. t \in Stacks
  BY MainIs DEF Types
<1>1. Undisturbed => (\A c \in Runners : Idle(c)) /\ \A u \in Units : RestartOK(t, u, before, started)
  BY DEF ReloadInv, ReloadOK
<1>2. ASSUME Undisturbed', \A c \in Runners : Idle(c)',
             \A u \in Units : RestartOK(task'[Main], u, before', started')
      PROVE  ReloadInv'
  BY <1>2 DEF ReloadInv, ReloadOK
<1>3. ~Undisturbed' => ReloadInv'
  BY DEF ReloadInv, ReloadOK
<1>4. Undisturbed' <=> ~meddled' /\ Has(task'[Main], Of({"reloaded"}))
  BY DEF Undisturbed
<1>5. ASSUME UNCHANGED <<task, started, before, meddled>> PROVE ReloadInv'
  BY <1>5 DEF ReloadInv, ReloadOK, Undisturbed, Idle
<1>6. ASSUME NEW c \in Commanders, Step(c), Undisturbed'
      PROVE  ReloadInv'
  <2>1. PICK s \in Stacks : /\ StepMoves(c, task[c], s)
                            /\ task'[c] = s \o Tail(task[c])
                            /\ \A d \in Commanders \ {c} : task'[d] = task[d]
    BY <1>6, StepLeaves
  <2>2. ~Idle(c) /\ meddled' = meddled
    BY <1>6, <2>1, StepsMove DEF StepMoves
  <2>3. ASSUME c # Main PROVE FALSE
    <3>1. Undisturbed
      BY <1>4, <1>6, <2>1, <2>2, <2>3, MainIs DEF Undisturbed
    <3> QED
      BY <1>1, <2>2, <2>3, <3>1 DEF Commanders
  <2>4. CASE c = Main
    <3> DEFINE r == Tail(t)
               h == t[1]
    <3>1. t # <<>> /\ h \in JobSet /\ r \in Stacks /\ 1 \in DOMAIN t
      BY <1>0, <2>2, <2>4, Tails DEF Idle
    <3>2. (s = <<>> /\ Taken(h)) \/ \E u \in Units : Begun(h, u, s)
      BY <2>1, <2>4 DEF StepMoves, StepKind
    <3>3. h.do \in Steps \cup {"tell"} \cup Operations
      BY <3>2 DEF Taken, Begun
    <3>4. phase # "down" /\ phase' = phase
      BY <2>1, <2>2, <2>4, MainIs DEF DownOK, Quiet, StepMoves
    <3>5. Has(s \o r, Of({"reloaded"}))
      BY <1>4, <1>6, <2>1, <2>4
    <3>6. ~Has(s, Of({"reloaded"}))
      <4>1. CASE s = <<>>
        <5>1. DOMAIN <<>> = {}
          OBVIOUS
        <5> QED
          BY <4>1, <5>1 DEF Has
      <4>2. ASSUME NEW u \in Units, Begun(h, u, s) PROVE ~Has(s, Of({"reloaded"}))
        BY <4>2 DEF Begun, StepOf, Has, Of, UpSteps, DownSteps, Operations
      <4> QED
        BY <3>2, <4>1, <4>2
    <3>7. Has(r, Of({"reloaded"})) /\ Has(t, Of({"reloaded"}))
      BY <1>0, <3>1, <3>5, <3>6, HasPushed, HasTail
    <3>8. h.do \in RunDos
      <4>1. ASSUME phase = "booting" PROVE FALSE
        <5>1. \A k \in DOMAIN t : t[k].do \in BootDos
          BY <4>1 DEF StackOK, MainOK, BootingOK
        <5> QED
          BY <3>7, <5>1 DEF Has, Of, BootDos, UpSteps
      <4>2. ASSUME phase = "running" PROVE h.do \in RunDos
        <5>1. h.do \in RunDos \cup {"reloaded"}
          BY <3>1, <4>2 DEF StackOK, MainOK, RunningOK
        <5> QED
          BY <3>3, <5>1 DEF Steps, UpSteps, DownSteps, Operations
      <4>3. ASSUME phase = "stopping" PROVE h.do \in RunDos
        <5>1. StoppingOK(t) /\ h.do \in StopDos
          BY <3>1, <4>3 DEF StackOK, MainOK, StoppingOK
        <5>2. h.do \in StopDos \ RunDos => ~Has(r, Of({"reloaded"}))
          BY <1>0, <5>1, StoppingTail
        <5> QED
          BY <3>7, <5>1, <5>2
      <4> QED
        BY <3>4, <4>1, <4>2, <4>3 DEF Types
    <3>9. Undisturbed
      BY <1>4, <1>6, <2>2, <3>7 DEF Undisturbed
    <3>10. \A u \in Units : RestartOK(task'[Main], u, before', started')
      BY <1>1, <1>6, <2>4, <3>7, <3>8, <3>9, RestartStep
    <3>11. \A d \in Runners : Idle(d)'
      BY <1>1, <2>1, <2>4, <3>9, RunnersAre DEF Idle
    <3> QED
      BY <1>2, <1>6, <3>10, <3>11
  <2> QED
    BY <2>3, <2>4
<1>7. CASE Boot
  <2>1. task' = [task EXCEPT ![Main] = BootStack]
    BY <1>7 DEF Boot, BootStack, BootEnd
  <2>2. task'[Main] = BootStack /\ \A k \in DOMAIN BootStack : BootStack[k].do \in BootDos
    BY <2>1, MainIs, BootStackIs, TasksAre DEF BootingOK
  <2>3. ~Has(BootStack, Of({"reloaded"}))
    BY <2>2 DEF Has, Of, BootDos, UpSteps
  <2> QED
    BY <1>3, <1>4, <2>2, <2>3
<1>8. ASSUME Watch \/ Ready PROVE ReloadInv'
  <2>1. PICK what \in {"watch", "ready"} : Do(Main, what) /\ Pops(what)
    BY <1>8, MainPops DEF Watch, Ready
  <2>2. phase = "booting" /\ t # <<>>
    BY <2>1, PhaseOfHead DEF Types, RunDos, Steps, UpSteps, DownSteps, StopDos
  <2>3. \A k \in DOMAIN t : t[k].do \in BootDos
    BY <2>2 DEF StackOK, MainOK, BootingOK
  <2>4. ~Has(t, Of({"reloaded"}))
    BY <2>3 DEF Has, Of, BootDos, UpSteps
  <2>5. ~Has(Tail(t), Of({"reloaded"}))
    BY <1>0, <2>2, <2>4, HasTail
  <2> QED
    BY <1>3, <1>4, <2>1, <2>5 DEF Pops
<1>9. ASSUME NEW what \in {"reloaded", "join", "truncate", "write"}, Do(Main, what), Pops(what)
      PROVE  ReloadInv'
  <2>1. phase \in {"running", "stopping"} /\ t # <<>> /\ t[1] \in JobSet /\ t[1].do = what
    BY <1>9, PhaseOfHead DEF Types, BootDos, UpSteps
  <2>2. ~Has(Tail(t), Of({"reloaded"}))
    <3>1. CASE phase = "running"
      <4>1. RunningOK(t) /\ what = "reloaded"
        BY <1>9, <3>1, PhaseOfHead DEF StackOK, MainOK, RunDos, Steps, UpSteps, DownSteps
      <4>2. t[1] \in Of({"reloaded"})
        BY <2>1, <4>1 DEF Of
      <4>3. Tail(t) = <<>>
        BY <1>0, <2>1, <4>1, <4>2, EndsInTail DEF RunningOK
      <4>4. DOMAIN <<>> = {}
        OBVIOUS
      <4> QED
        BY <4>3, <4>4 DEF Has
    <3>2. CASE phase = "stopping"
      <4>1. StoppingOK(t)
        BY <3>2 DEF StackOK, MainOK
      <4>2. what \in StopDos \ RunDos
        BY DEF StopDos, RunDos, Steps, UpSteps, DownSteps
      <4> QED
        BY <1>0, <2>1, <4>1, <4>2, StoppingTail
    <3> QED
      BY <2>1, <3>1, <3>2
  <2> QED
    BY <1>3, <1>4, <1>9, <2>2 DEF Pops
<1>10. ASSUME Reloaded \/ JoinRunners \/ Truncate \/ Write PROVE ReloadInv'
  <2>1. PICK what \in {"reloaded", "join", "truncate", "write"} : Do(Main, what) /\ Pops(what)
    BY <1>10, MainPops DEF Reloaded, JoinRunners, Truncate, Write
  <2> QED
    BY <1>9, <2>1
<1>11. CASE MainLoopEnds
  <2>1. task' = [task EXCEPT ![Main] = StopStack]
    BY <1>11 DEF MainLoopEnds, StopStack
  <2>2. task'[Main] = StopStack
    BY <2>1, MainIs, StopStackIs, TasksAre
  <2> QED
    BY <1>3, <1>4, <2>2, StopStackIs
<1>12. ASSUME End \/ Crash PROVE ReloadInv'
  <2>1. task'[Main] = <<>>
    BY <1>12, MainIs DEF End, Crash
  <2>2. DOMAIN <<>> = {}
    OBVIOUS
  <2> QED
    BY <1>3, <1>4, <2>1, <2>2 DEF Has
<1>13. CASE Reload
  <2>1. /\ \/ phase = "running" /\ t = <<>>
           \/ phase = "stopping" /\ StoppingOK(t)
        /\ ~Has(t, Of({"reloaded"}))
        /\ task'[Main] = ReloadStack(t)
        /\ \A d \in Runners : task'[d] = task[d]
    BY <1>13, ReloadLeaves
  <2>2. Restarts(ReloadStack(t), started)
    <3> HIDE DEF t
    <3> QED
      BY <1>0, <2>1, ReloadStackIs
  <2>3. before' = started /\ started' = started /\ meddled' = (\E c \in Runners : ~Idle(c))
    BY <1>13 DEF Reload, unitVars
  <2>4. \A u \in Units : RestartOK(task'[Main], u, before', started')
    BY <2>1, <2>2, <2>3 DEF Restarts, RestartOK
  <2>5. ~meddled' => \A c \in Runners : Idle(c)'
    BY <2>1, <2>3 DEF Idle
  <2> QED
    BY <1>2, <1>3, <1>4, <2>4, <2>5
<1>14. ASSUME NEW c \in Runners, NEW op \in CommandOps, NEW u \in Units, Command(c, op, u)
       PROVE  ReloadInv'
  BY <1>3, <1>4, <1>14, CommandLeaves
<1>15. ASSUME NEW c \in Runners, RunnerEnds(c) PROVE ReloadInv'
  BY <1>5, <1>15 DEF RunnerEnds, unitVars, historyVars
<1>16. CASE Still
  BY <1>5, <1>16 DEF Still
<1> QED
  BY <1>3, <1>6, <1>7, <1>8, <1>10, <1>11, <1>12, <1>13, <1>14, <1>15, <1>16, Stills
     DEF Next, MainStep, CommandOps

-----------------------------------------------------------------------------
(* The lists on disk                                                       *)

LEMMA SavedStep ==
    ASSUME Types, DownOK, StackOK, SavedOK, [Next]_vars
    PROVE  SavedOK'
<1> SUFFICES ASSUME ~interrupted', NEW f \in Lists PROVE ListOK(f)'
  BY DEF SavedOK
<1> DEFINE t == task[Main]
<1>0. t \in Stacks
  BY MainIs DEF Types
<1>1. ~interrupted => ListOK(f)
  BY DEF SavedOK
<1>2. ListOK(f)' <=> \/ saved'[f] = promised' \cap Saves(f)
                     \/ /\ phase' = "stopping"
                        /\ ~Has(task'[Main], Of({"join"}))
                        /\ Has(task'[Main], OfUnit({"write"}, f))
  BY DEF ListOK, Saves
<1>3. ASSUME UNCHANGED <<phase, saved, promised, interrupted>>, task'[Main] = task[Main]
      PROVE  ListOK(f)'
  BY <1>1, <1>2, <1>3 DEF ListOK
<1>4. ASSUME phase # "stopping", UNCHANGED <<saved, promised, interrupted>> PROVE ListOK(f)'
  BY <1>1, <1>2, <1>4 DEF ListOK
<1>5. ASSUME UNCHANGED <<phase, saved, promised, interrupted>>,
             Has(task'[Main], Of({"join"})) => Has(t, Of({"join"})),
             Has(t, OfUnit({"write"}, f)) => Has(task'[Main], OfUnit({"write"}, f))
      PROVE  ListOK(f)'
  BY <1>1, <1>2, <1>5 DEF ListOK
<1>6. ASSUME NEW c \in Commanders, Step(c) PROVE ListOK(f)'
  <2>1. PICK s \in Stacks : /\ StepMoves(c, task[c], s)
                            /\ task'[c] = s \o Tail(task[c])
                            /\ \A d \in Commanders \ {c} : task'[d] = task[d]
    BY <1>6, StepLeaves
  <2>2. UNCHANGED <<phase, saved, promised, interrupted>>
    BY <2>1 DEF StepMoves
  <2>3. CASE c # Main
    BY <1>3, <2>1, <2>2, <2>3, MainIs
  <2>4. CASE c = Main
    <3> DEFINE r == Tail(t)
               h == t[1]
    <3>1. t # <<>> /\ h \in JobSet /\ r \in Stacks
      BY <1>0, <1>6, <2>4, StepsMove, Tails DEF Idle
    <3>2. (s = <<>> /\ Taken(h)) \/ \E u \in Units : Begun(h, u, s)
      BY <2>1, <2>4 DEF StepMoves, StepKind
    <3>3. h.do \in Steps \cup {"tell"} \cup Operations
      BY <3>2 DEF Taken, Begun
    <3>4. ~Has(s, Of({"join"}))
      <4>1. CASE s = <<>>
        <5>1. DOMAIN <<>> = {}
          OBVIOUS
        <5> QED
          BY <4>1, <5>1 DEF Has
      <4>2. ASSUME NEW u \in Units, Begun(h, u, s) PROVE ~Has(s, Of({"join"}))
        BY <4>2 DEF Begun, StepOf, Has, Of, UpSteps, DownSteps, Operations
      <4> QED
        BY <3>2, <4>1, <4>2
    <3>5. Has(s \o r, Of({"join"})) => Has(t, Of({"join"}))
      BY <1>0, <3>1, <3>4, HasPushed, HasTail
    <3>6. h \notin OfUnit({"write"}, f)
      BY <3>3 DEF OfUnit, Of, Steps, UpSteps, DownSteps, Operations
    <3>7. Has(t, OfUnit({"write"}, f)) => Has(s \o r, OfUnit({"write"}, f))
      BY <1>0, <3>1, <3>6, HasPushed, HasTail
    <3> QED
      BY <1>5, <2>1, <2>2, <2>4, <3>5, <3>7
  <2> QED
    BY <2>3, <2>4
<1>7. CASE Boot
  BY <1>4, <1>7 DEF Boot, historyVars
<1>8. ASSUME Watch \/ Ready PROVE ListOK(f)'
  <2>1. PICK what \in {"watch", "ready"} : Do(Main, what)
    BY <1>8 DEF Watch, Ready
  <2>2. phase # "stopping"
    BY <2>1, PhaseOfHead DEF RunDos, Steps, UpSteps, DownSteps, StopDos
  <2> QED
    BY <1>4, <1>8, <2>2 DEF Watch, Ready, historyVars
<1>9. CASE Reloaded
  <2>1. Do(Main, "reloaded") /\ task'[Main] = Tail(t)
    BY <1>9, MainPops DEF Reloaded, Pops
  <2>2. t # <<>> /\ t[1] \in JobSet /\ t[1].do = "reloaded"
    BY <2>1, PhaseOfHead
  <2>3. t[1] \notin OfUnit({"write"}, f)
    BY <2>2 DEF OfUnit, Of
  <2>4. UNCHANGED <<phase, saved, promised, interrupted>>
    BY <1>9 DEF Reloaded, processVars
  <2> QED
    BY <1>0, <1>5, <2>1, <2>2, <2>3, <2>4, HasTail
<1>10. CASE MainLoopEnds
  BY <1>4, <1>10 DEF MainLoopEnds, historyVars
<1>11. ASSUME NEW what \in {"join", "truncate", "write"}, Do(Main, what), Pop(Main)
       PROVE  /\ t # <<>> /\ t[1] \in JobSet /\ t[1].do = what /\ task'[Main] = Tail(t)
              /\ phase = "stopping" /\ StoppingOK(t)
              /\ ~Has(Tail(t), Of({"join"}))
              /\ what # "join" => enabled = promised
  <2>1. t # <<>> /\ t[1] \in JobSet /\ t[1].do = what /\ task'[Main] = Tail(t)
    BY <1>11, PhaseOfHead, MainPops DEF Pops
  <2>2. phase = "stopping"
    BY <1>11, PhaseOfHead DEF Types, BootDos, RunDos, Steps, UpSteps, DownSteps
  <2>3. StoppingOK(t) /\ (~Has(t, Of({"join"})) => enabled = promised)
    BY <2>2 DEF StackOK, MainOK
  <2>4. ~Has(Tail(t), Of({"join"}))
    BY <1>0, <2>1, <2>3, StoppingTail
  <2>5. ASSUME what # "join" PROVE enabled = promised
    <3>1. t[1] \notin Of({"join"})
      BY <2>1, <2>5 DEF Of
    <3> QED
      BY <1>0, <2>1, <2>3, <2>4, <3>1, HasTail
  <2> QED
    BY <2>1, <2>2, <2>3, <2>4, <2>5
<1>12. CASE JoinRunners
  <2>1. /\ t[1].do = "join" /\ task'[Main] = Tail(t) /\ phase = "stopping" /\ StoppingOK(t)
        /\ ~Has(Tail(t), Of({"join"}))
    BY <1>11, <1>12 DEF JoinRunners
  <2>2. Has(Tail(t), OfUnit({"write"}, f))
    BY <1>0, <2>1, StoppingTail
  <2>3. phase' = phase
    BY <1>12 DEF JoinRunners, processVars
  <2> QED
    BY <1>2, <2>1, <2>2, <2>3
<1>13. DOMAIN saved = Lists
  BY DEF Types, Lists
<1>14. CASE Truncate
  <2>1. /\ t # <<>> /\ t[1] \in JobSet /\ t[1].do = "truncate" /\ task'[Main] = Tail(t)
        /\ phase = "stopping" /\ StoppingOK(t) /\ ~Has(Tail(t), Of({"join"}))
    BY <1>11, <1>14 DEF Truncate
  <2>2. UNCHANGED <<phase, promised, interrupted>>
    BY <1>14 DEF Truncate, processVars, historyVars
  <2>3. saved'[f] = IF f \in t[1].on THEN {} ELSE saved[f]
    <3>1. Head(t) = t[1]
      BY <1>0, <2>1, Tails
    <3> QED
      BY <1>13, <1>14, <3>1 DEF Truncate
  <2>4. CASE f \in t[1].on
    <3>1. Has(Tail(t), OfUnit({"write"}, f))
      BY <1>0, <2>1, <2>4, StoppingTail
    <3> QED
      BY <1>2, <2>1, <2>2, <3>1
  <2>5. CASE f \notin t[1].on
    <3>1. t[1] \notin OfUnit({"write"}, f)
      BY <2>1 DEF OfUnit, Of
    <3>2. Has(t, OfUnit({"write"}, f)) => Has(Tail(t), OfUnit({"write"}, f))
      BY <1>0, <2>1, <3>1, HasTail
    <3> QED
      BY <1>1, <1>2, <2>1, <2>2, <2>3, <2>5, <3>2 DEF ListOK
  <2> QED
    BY <2>4, <2>5
<1>15. CASE Write
  <2>1. /\ t # <<>> /\ t[1] \in JobSet /\ t[1].do = "write" /\ task'[Main] = Tail(t)
        /\ phase = "stopping" /\ ~Has(Tail(t), Of({"join"})) /\ enabled = promised
    BY <1>11, <1>15 DEF Write
  <2>2. UNCHANGED <<phase, promised, interrupted>>
    BY <1>15 DEF Write, processVars, historyVars
  <2>3. saved'[f] = IF f \notin t[1].on THEN saved[f] ELSE enabled \cap Saves(f)
    <3>1. Head(t) = t[1]
      BY <1>0, <2>1, Tails
    <3> QED
      BY <1>13, <1>15, <3>1 DEF Write, Saves
  <2>4. CASE f \in t[1].on
    BY <1>2, <2>1, <2>2, <2>3, <2>4
  <2>5. CASE f \notin t[1].on
    <3>1. t[1] \notin OfUnit({"write"}, f)
      BY <2>5 DEF OfUnit
    <3>2. Has(t, OfUnit({"write"}, f)) => Has(Tail(t), OfUnit({"write"}, f))
      BY <1>0, <2>1, <3>1, HasTail
    <3> QED
      BY <1>1, <1>2, <2>1, <2>2, <2>3, <2>5, <3>2 DEF ListOK
  <2> QED
    BY <2>4, <2>5
<1>16. CASE End
  <2>1. Do(Main, "end") /\ UNCHANGED <<saved, promised, interrupted>>
    BY <1>16 DEF End
  <2>2. t # <<>> /\ t[1] \in JobSet /\ t[1].do = "end" /\ phase = "stopping"
    BY <2>1, PhaseOfHead DEF Types, BootDos, RunDos, Steps, UpSteps, DownSteps
  <2>3. EndsIn(t, Of({"end"})) /\ t[1] \in Of({"end"}) /\ t[1] \notin OfUnit({"write"}, f)
    BY <2>2 DEF StackOK, MainOK, StoppingOK, Of, OfUnit
  <2>4. Tail(t) = <<>>
    BY <1>0, <2>3, EndsInTail
  <2>5. DOMAIN <<>> = {}
    OBVIOUS
  <2>6. ~Has(Tail(t), OfUnit({"write"}, f))
    BY <2>4, <2>5 DEF Has
  <2>7. ~Has(t, OfUnit({"write"}, f))
    BY <1>0, <2>2, <2>3, <2>6, HasTail
  <2> QED
    BY <1>1, <1>2, <2>1, <2>7 DEF ListOK
<1>17. CASE Crash
  <2>1. ~interrupted /\ ~(Saving /\ ~Do(Main, "join")) /\ UNCHANGED <<saved, promised>>
    BY <1>17 DEF Crash
  <2>2. ASSUME phase = "stopping", ~Has(t, Of({"join"})), Has(t, OfUnit({"write"}, f)) PROVE FALSE
    <3>1. \E k \in DOMAIN t : t[k].do = "write"
      BY <2>2 DEF Has, OfUnit, Of
    <3>2. Do(Main, "join")
      BY <2>1, <2>2, <3>1 DEF Saving
    <3>3. t # <<>> /\ t[1] \in JobSet /\ t[1].do = "join"
      BY <3>2, PhaseOfHead
    <3>4. t[1] \in Of({"join"})
      BY <3>3 DEF Of
    <3> QED
      BY <1>0, <2>2, <3>3, <3>4, HasTail
  <2> QED
    BY <1>1, <1>2, <2>1, <2>2 DEF ListOK
<1>18. CASE Reload
  <2>1. /\ \/ phase = "running" /\ t = <<>>
           \/ phase = "stopping" /\ StoppingOK(t)
        /\ ~Has(t, Of({"reloaded"}))
        /\ task'[Main] = ReloadStack(t)
    BY <1>18, ReloadLeaves
  <2>2. UNCHANGED <<phase, saved, promised, interrupted>>
    BY <1>18 DEF Reload, processVars
  <2>3. ASSUME phase = "stopping"
        PROVE  /\ Has(ReloadStack(t), Of({"join"})) => Has(t, Of({"join"}))
               /\ Has(t, OfUnit({"write"}, f)) => Has(ReloadStack(t), OfUnit({"write"}, f))
    <3> HIDE DEF t
    <3> QED
      BY <1>0, <2>1, <2>3, ReloadStackIs
  <2> QED
    BY <1>4, <1>5, <2>1, <2>2, <2>3
<1>19. ASSUME NEW c \in Runners, NEW op \in CommandOps, NEW u \in Units, Command(c, op, u)
       PROVE  ListOK(f)'
  BY <1>3, <1>19, MainIs, RunnersAre, CommandLeaves
<1>20. ASSUME NEW c \in Runners, RunnerEnds(c) PROVE ListOK(f)'
  BY <1>3, <1>20 DEF RunnerEnds, historyVars
<1>21. CASE Still
  BY <1>3, <1>21 DEF Still
<1> QED
  BY <1>6, <1>7, <1>8, <1>9, <1>10, <1>12, <1>14, <1>15, <1>16, <1>17, <1>18, <1>19, <1>20, <1>21,
     Stills DEF Next, MainStep, CommandOps

-----------------------------------------------------------------------------
(* The start of a run                                                      *)

LEMMA BootUnitStep ==
    ASSUME Types, NEW u \in Units, Step(Main), task[Main][1].do \in {"enable", "tell"} \cup UpSteps
    PROVE  /\ EnablesOK(task[Main], u, promised, enabled)
                  => EnablesOK(task'[Main], u, promised', enabled')
           /\ RisesOK(task[Main], u, enabled, started)
                  => RisesOK(task'[Main], u, enabled', started')
<1> DEFINE t == task[Main]
           r == Tail(t)
           h == t[1]
           Ons   == OfUnit({"enable"}, u)
           Rises == OfUnit({"rise"}, u)
<1>1. PICK s \in Stacks : StepMoves(Main, t, s) /\ task'[Main] = s \o r
  BY MainIs, StepLeaves
<1>2. t \in Stacks /\ t # <<>> /\ h \in JobSet /\ r \in Stacks
  BY MainIs, StepsMove, HeadIs
<1> DEFINE q == s \o r
<1>3. promised' = promised
  BY <1>1 DEF StepMoves
<1>4. (s = <<>> /\ Taken(h)) \/ \E v \in Units : Begun(h, v, s) /\ Opened(Main, h, v)
  BY <1>1 DEF StepMoves, StepKind
<1>5. /\ Has(t, Ons) <=> h \in Ons \/ Has(r, Ons)
      /\ Has(t, Rises) <=> h \in Rises \/ Has(r, Rises)
  BY <1>2, HasTail
<1>6. /\ Has(q, Ons) <=> Has(s, Ons) \/ Has(r, Ons)
      /\ Has(q, Rises) <=> Has(s, Rises) \/ Has(r, Rises)
  BY <1>2, HasPushed
<1>7. /\ h \in Ons <=> h.do = "enable" /\ u \in h.on
      /\ h \in Rises <=> h.do = "rise" /\ u \in h.on
  BY <1>2 DEF OfUnit, Of
<1>8. h.do \in {"enable", "tell"} \cup UpSteps
  OBVIOUS
<1>9. \A k \in DOMAIN s : /\ s[k] \in Ons <=> s[k].do = "enable" /\ u \in s[k].on
                          /\ s[k] \in Rises <=> s[k].do = "rise" /\ u \in s[k].on
  BY DEF OfUnit, Of, Stacks
<1>10. task'[Main] = q
  BY <1>1
<1> HIDE DEF t, r, h, q, Ons, Rises
<1> DEFINE Goal ==
        /\ (u \in promised \cup {Core} <=> u \in enabled \/ Has(t, Ons))
               => (u \in promised \cup {Core} <=> u \in enabled' \/ Has(q, Ons))
        /\ (u \in enabled <=> u \in started \/ Has(t, Rises))
               => (u \in enabled' <=> u \in started' \/ Has(q, Rises))
<1>11. ASSUME s = <<>>, Taken(h) PROVE Goal
  <2>1. q = r
    <3>1. <<>> \o r = r
      BY <1>2 DEF Stacks
    <3> QED
      BY <1>11, <3>1 DEF q
  <2>2. h.do # "enable" /\ h.do # "fall"
    BY <1>8, <1>11 DEF Taken, Steps, UpSteps, DownSteps
  <2>3. /\ enabled' = enabled
        /\ started' = IF h.do = "rise" THEN started \cup h.on ELSE started
    BY <1>11, <2>2 DEF Taken
  <2> QED
    BY <1>5, <1>7, <2>1, <2>2, <2>3
<1>12. ASSUME NEW v \in Units, Begun(h, v, s), Opened(Main, h, v) PROVE Goal
  <2>1. h.do = "enable" /\ v \in h.on
    BY <1>8, <1>12 DEF Begun, UpSteps, Operations
  <2>2. started' = started /\ enabled' = enabled \cup {v}
    BY <1>12, <2>1 DEF Opened
  <2>3. \A k \in DOMAIN s : \/ s[k].do = "enable" /\ s[k].on = h.on \ {v}
                            \/ s[k].on = {v} /\ s[k].do \in UpSteps \cup {"tell"}
    BY <1>12, <2>1 DEF Begun, StepOf
  <2>4. Has(s, Ons) <=> u \in h.on \ {v}
    <3>1. Has(s, Ons) => u \in h.on \ {v}
      BY <1>9, <2>3 DEF Has, UpSteps
    <3>2. ASSUME u \in h.on \ {v} PROVE Has(s, Ons)
      <4>1. PICK k \in DOMAIN s : s[k].do = h.do /\ u \in s[k].on
        BY <1>12, <3>2 DEF Begun
      <4> QED
        BY <1>9, <2>1, <4>1 DEF Has
    <3> QED
      BY <3>1, <3>2
  <2>5. Has(s, Rises) => u = v
    BY <1>9, <2>3 DEF Has
  <2>6. u = v => u \in started \/ Has(s, Rises)
    <3>1. ASSUME u = v PROVE u \in started \/ Has(s, Rises)
      <4>1. u \in started \/ \E k \in DOMAIN s : s[k] = Job("rise", {u})
        BY <1>12, <2>1, <3>1 DEF Begun
      <4>2. Job("rise", {u}).do = "rise" /\ u \in Job("rise", {u}).on
        BY DEF Job
      <4> QED
        BY <1>9, <4>1, <4>2 DEF Has
    <3> QED
      BY <3>1
  <2>7. h \notin Rises /\ (h \in Ons <=> u \in h.on)
    BY <1>7, <2>1
  <2> QED
    BY <1>5, <1>6, <2>1, <2>2, <2>4, <2>5, <2>6, <2>7
<1>13. Goal
  BY <1>4, <1>11, <1>12
<1> QED
  BY <1>3, <1>10, <1>13 DEF EnablesOK, RisesOK, t, Ons, Rises

LEMMA BootStep ==
    ASSUME Types, DownOK, RunnersOK, StackOK, SavedOK, BootInv, [Next]_vars
    PROVE  BootInv'
<1> DEFINE t == task[Main]
<1>0. t \in Stacks
  BY MainIs DEF Types
<1>1. phase = "booting" /\ ~meddled =>
        /\ \A c \in Runners : Idle(c)
        /\ ~interrupted => \A u \in Units : EnablesOK(t, u, promised, enabled)
        /\ \A u \in Units : RisesOK(t, u, enabled, started)
  BY DEF BootInv, BootOK
<1>2. ASSUME phase' = "booting", ~meddled' =>
                /\ \A c \in Runners : Idle(c)'
                /\ ~interrupted' => \A u \in Units : EnablesOK(task'[Main], u, promised', enabled')
                /\ \A u \in Units : RisesOK(task'[Main], u, enabled', started')
      PROVE  BootInv'
  BY <1>2 DEF BootInv, BootOK, EnablesOK, RisesOK
<1>3. phase' # "booting" \/ meddled' => BootInv'
  BY DEF BootInv, BootOK
<1>4. ASSUME UNCHANGED <<phase, task, started, enabled, promised, interrupted, meddled>>
      PROVE  BootInv'
  BY <1>4 DEF BootInv, BootOK, EnablesOK, RisesOK, Idle
<1>5. ASSUME NEW c \in Commanders, Step(c) PROVE BootInv'
  <2>1. PICK s \in Stacks : /\ StepMoves(c, task[c], s)
                            /\ task'[c] = s \o Tail(task[c])
                            /\ \A d \in Commanders \ {c} : task'[d] = task[d]
    BY <1>5, StepLeaves
  <2>2. ~Idle(c) /\ UNCHANGED <<phase, meddled, interrupted>>
    BY <1>5, <2>1, StepsMove DEF StepMoves
  <2>3. SUFFICES ASSUME phase = "booting", ~meddled PROVE BootInv'
    BY <1>3, <2>2
  <2>4. c = Main
    BY <1>1, <2>2, <2>3 DEF Commanders
  <2>5. t[1].do \in {"enable", "tell"} \cup UpSteps
    <3>1. t[1].do \in BootDos
      BY <1>0, <2>2, <2>3, <2>4, Tails DEF StackOK, MainOK, BootingOK, Idle
    <3>2. t[1].do \in Steps \cup {"tell"} \cup Operations
      BY <2>1, <2>4 DEF StepMoves, StepKind, Taken, Begun
    <3> QED
      BY <3>1, <3>2 DEF BootDos, Steps, UpSteps, DownSteps, Operations
  <2>6. \A u \in Units :
           /\ EnablesOK(t, u, promised, enabled) => EnablesOK(task'[Main], u, promised', enabled')
           /\ RisesOK(t, u, enabled, started) => RisesOK(task'[Main], u, enabled', started')
    BY <1>5, <2>4, <2>5, BootUnitStep
  <2>7. \A d \in Runners : Idle(d)'
    BY <1>1, <2>1, <2>3, <2>4, RunnersAre DEF Idle
  <2> QED
    BY <1>1, <1>2, <2>2, <2>3, <2>6, <2>7
<1>6. CASE Boot
  <2>1. task' = [task EXCEPT ![Main] = BootStack]
    BY <1>6 DEF Boot, BootStack, BootEnd
  <2>2. task'[Main] = BootStack /\ \A d \in Commanders \ {Main} : task'[d] = task[d]
    BY <2>1, MainIs, BootStackIs, TasksAre
  <2>3. phase = "down" /\ phase' = "booting"
        /\ UNCHANGED <<enabled, started, promised, interrupted, meddled>>
    BY <1>6 DEF Boot, unitVars, historyVars
  <2>4. Quiet /\ enabled = {} /\ started = {}
    BY <2>3 DEF DownOK
  <2>5. \A d \in Runners : Idle(d)'
    BY <2>2, <2>4, RunnersAre DEF Quiet, Idle
  <2>6. ASSUME ~interrupted
        PROVE  saved.modes = promised \cap Modes /\ saved.services = promised \cap Services
    <3>1. ListOK("modes") /\ ListOK("services")
      BY <2>6 DEF SavedOK, Lists
    <3> QED
      BY <2>3, <3>1 DEF ListOK, Saves
  <2>7. \A u \in Units : /\ Has(BootStack, OfUnit({"enable"}, u))
                                <=> u = Core \/ u \in saved.modes \/ u \in saved.services
                         /\ ~Has(BootStack, MoveOf(u))
    BY BootStackIs
  <2>8. \A u \in Units : ~Has(BootStack, OfUnit({"rise"}, u))
    BY <2>7 DEF Has, MoveOf, OfUnit, Of, MoveSteps
  <2>9. ~interrupted => \A u \in Units : EnablesOK(BootStack, u, promised, enabled)
    BY <2>4, <2>6, <2>7 DEF EnablesOK, Units
  <2>10. \A u \in Units : RisesOK(BootStack, u, enabled, started)
    BY <2>4, <2>8 DEF RisesOK
  <2> QED
    BY <1>2, <2>2, <2>3, <2>5, <2>9, <2>10
<1>7. CASE Watch
  <2>1. Pops("watch") /\ UNCHANGED <<phase, enabled, started, promised, interrupted, meddled>>
    BY <1>7, MainPops DEF Watch, unitVars, historyVars
  <2>2. t # <<>> /\ t[1] \in JobSet /\ t[1].do = "watch"
    BY <2>1, PhaseOfHead DEF Pops
  <2>3. phase = "booting"
    BY <2>1, PhaseOfHead DEF Pops, Types, RunDos, Steps, UpSteps, DownSteps, StopDos
  <2>4. \A u \in Units : t[1] \notin OfUnit({"enable"}, u) /\ t[1] \notin OfUnit({"rise"}, u)
    BY <2>2 DEF OfUnit, Of
  <2>5. \A u \in Units : /\ Has(t, OfUnit({"enable"}, u)) <=> Has(Tail(t), OfUnit({"enable"}, u))
                         /\ Has(t, OfUnit({"rise"}, u)) <=> Has(Tail(t), OfUnit({"rise"}, u))
    BY <1>0, <2>2, <2>4, HasTail
  <2>6. task'[Main] = Tail(t) /\ \A d \in Runners : task'[d] = task[d]
    BY <2>1 DEF Pops
  <2>7. \A u \in Units :
           /\ EnablesOK(t, u, promised, enabled) => EnablesOK(task'[Main], u, promised', enabled')
           /\ RisesOK(t, u, enabled, started) => RisesOK(task'[Main], u, enabled', started')
    BY <2>1, <2>5, <2>6 DEF EnablesOK, RisesOK
  <2>8. \A d \in Runners : Idle(d) => Idle(d)'
    BY <2>6 DEF Idle
  <2> QED
    BY <1>1, <1>2, <2>1, <2>3, <2>7, <2>8
<1>8. ASSUME Ready \/ MainLoopEnds \/ End \/ Crash PROVE BootInv'
  <2>1. phase' # "booting"
    BY <1>8 DEF Ready, MainLoopEnds, End, Crash
  <2> QED
    BY <1>3, <2>1
<1>9. CASE Reload
  <2>1. phase' # "booting"
    BY <1>9 DEF Reload, processVars
  <2> QED
    BY <1>3, <2>1
<1>10. ASSUME Reloaded \/ JoinRunners \/ Truncate \/ Write PROVE BootInv'
  <2>1. PICK what \in {"reloaded", "join", "truncate", "write"} : Do(Main, what)
    BY <1>10 DEF Reloaded, JoinRunners, Truncate, Write
  <2>2. phase # "booting"
    BY <2>1, PhaseOfHead DEF BootDos, UpSteps
  <2>3. phase' = phase
    BY <1>10 DEF Reloaded, JoinRunners, Truncate, Write, processVars
  <2> QED
    BY <1>3, <2>2, <2>3
<1>11. ASSUME NEW c \in Runners, NEW op \in CommandOps, NEW u \in Units, Command(c, op, u)
       PROVE  BootInv'
  <2>1. meddled'
    BY <1>11, CommandLeaves
  <2> QED
    BY <1>3, <2>1
<1>12. ASSUME NEW c \in Runners, RunnerEnds(c) PROVE BootInv'
  BY <1>4, <1>12 DEF RunnerEnds, unitVars, historyVars
<1>13. CASE Still
  BY <1>4, <1>13 DEF Still
<1> QED
  BY <1>5, <1>6, <1>7, <1>8, <1>9, <1>10, <1>11, <1>12, <1>13, Stills DEF Next, MainStep, CommandOps

-----------------------------------------------------------------------------
(* Types of the rest                                                       *)

LEMMA CountsStep ==
    ASSUME Types, CountsOK, [Next]_vars
    PROVE  CountsOK'
<1>1. ASSUME NEW c \in Commanders, Step(c) PROVE CountsOK'
  <2>1. ASSUME NEW u \in Units, Begin(c, u) PROVE CountsOK'
    BY <2>1 DEF Begin, CountsOK, processVars, coreVars
  <2>2. CASE Add(c)
    <3>1. Head(task[c]) \in JobSet /\ Head(task[c]).do = "add"
      BY <2>2, HeadIs DEF Add, Do
    <3>2. Head(task[c]).on \subseteq Modes
      BY <3>1 DEF JobSet
    <3> QED
      BY <2>2, <3>2 DEF Add, CountsOK, processVars, coreVars
  <2>3. CASE Remove(c)
    BY <2>3 DEF Remove, CountsOK, processVars, coreVars
  <2>4. CASE Rise(c)
    BY <2>4 DEF Rise, CountsOK, processVars, coreVars
  <2>5. CASE Fall(c)
    BY <2>5 DEF Fall, CountsOK, processVars, coreVars
  <2>6. CASE Load(c)
    BY <2>6 DEF Load, CountsOK, processVars
  <2>7. CASE Delete(c)
    BY <2>7 DEF Delete, CountsOK, processVars
  <2>8. CASE Listen(c)
    BY <2>8 DEF Listen, CountsOK, processVars
  <2>9. CASE Deafen(c)
    <3>1. listening' \in Nat /\ held' = FALSE
      BY <2>9 DEF Deafen, CountsOK
    <3> QED
      BY <2>9, <3>1 DEF Deafen, CountsOK, processVars
  <2>10. CASE Tell(c)
    <3>1. handlers' \in [test : Nat, add : Nat]
      BY <2>10 DEF Tell, CountsOK
    <3> QED
      BY <2>10, <3>1 DEF Tell, CountsOK, processVars, coreVars
  <2> QED
    BY <1>1, <2>1, <2>2, <2>3, <2>4, <2>5, <2>6, <2>7, <2>8, <2>9, <2>10 DEF Step
<1>2. ASSUME Boot \/ Watch \/ Ready \/ MainLoopEnds PROVE CountsOK'
  BY <1>2 DEF Boot, Watch, Ready, MainLoopEnds, CountsOK, coreVars
<1>3. ASSUME Reloaded \/ JoinRunners \/ Truncate \/ Write \/ Reload PROVE CountsOK'
  <2>1. UNCHANGED <<killed, hung, grammar, coreGrammar, listening, held, handlers>>
    BY <1>3 DEF Reloaded, JoinRunners, Truncate, Write, Reload, processVars, coreVars
  <2> QED
    BY <2>1 DEF CountsOK
<1>4. ASSUME End \/ Crash PROVE CountsOK'
  <2>1. /\ killed' = FALSE /\ hung' = {} /\ grammar' = {} /\ coreGrammar' = "none"
        /\ listening' = 0 /\ held' = FALSE /\ handlers' = NoHandlers
    BY <1>4 DEF End, Crash, Fresh
  <2> QED
    BY <2>1 DEF CountsOK, NoHandlers
<1>5. ASSUME NEW c \in Runners, NEW op \in CommandOps, NEW u \in Units, Command(c, op, u)
      PROVE  CountsOK'
  BY <1>5 DEF Command, CountsOK, processVars, coreVars
<1>6. ASSUME RequestStop \/ \E c \in Runners : Quit(c) \/ RunnerEnds(c) PROVE CountsOK'
  <2>1. UNCHANGED <<hung, grammar, coreGrammar, listening, held, handlers>>
    BY <1>6 DEF RequestStop, Quit, RunnerEnds, coreVars
  <2>2. killed' \in BOOLEAN
    BY <1>6 DEF RequestStop, Quit, RunnerEnds, CountsOK
  <2> QED
    BY <2>1, <2>2 DEF CountsOK
<1>7. CASE HandlerTest
  <2>1. handlers' \in [test : Nat, add : Nat]
    BY <1>7 DEF HandlerTest, CountsOK
  <2> QED
    BY <1>7, <2>1 DEF HandlerTest, CountsOK, processVars, coreVars
<1>8. CASE HandlerAdd
  <2>1. handlers' \in [test : Nat, add : Nat]
    BY <1>8 DEF HandlerAdd, CountsOK
  <2>2. grammar' \subseteq Modes
    BY <1>8 DEF HandlerAdd, CountsOK, Modes
  <2> QED
    BY <1>8, <2>1, <2>2 DEF HandlerAdd, CountsOK, processVars, coreVars
<1>9. CASE UNCHANGED vars
  BY <1>9 DEF vars, CountsOK
<1>10. ASSUME NEW c \in Commanders, Hang(c) PROVE CountsOK'
  BY <1>10 DEF Hang, CountsOK, coreVars
<1> QED
  BY <1>1, <1>2, <1>3, <1>4, <1>5, <1>6, <1>7, <1>8, <1>9, <1>10 DEF Next, MainStep, CommandOps

-----------------------------------------------------------------------------
(* The theorems                                                            *)

LEMMA InvInit == Init => Inv
<1> SUFFICES ASSUME Init PROVE Inv
  OBVIOUS
<1>1. Types
  BY TypesInit
<1>2. \A c \in Commanders : task[c] = <<>>
  BY DEF Init
<1>3. DOMAIN <<>> = {}
  OBVIOUS
<1>4. \A c \in Commanders : \A A : ~Has(task[c], A)
  BY <1>2, <1>3 DEF Has
<1>5. DownOK
  BY <1>2 DEF Init, DownOK, Quiet, Idle
<1>6. RunnersOK
  BY <1>2, RunnersAre DEF RunnersOK, Idle
<1>7. StackOK
  BY DEF Init, StackOK, MainOK
<1>8. ReachOK
  <2>1. ASSUME NEW m \in OtherModes PROVE MovesOK(m)
    BY <1>4 DEF Init, MovesOK, Moving
  <2> QED
    BY <2>1 DEF ReachOK
<1>9. ReloadInv
  BY <1>4, MainIs DEF ReloadInv, ReloadOK, Undisturbed
<1>10. SavedOK
  <2>1. Services \cap Modes = {}
    BY RegistryAssumption DEF RegistryAssumption, Modes
  <2>2. saved["modes"] = {} /\ saved["services"] = Services /\ promised = Services
    BY DEF Init
  <2>3. \A f \in Lists : saved[f] = promised \cap Saves(f)
    BY <2>1, <2>2 DEF Lists, Saves
  <2> QED
    BY <2>3 DEF SavedOK, ListOK
<1>11. BootInv
  BY DEF Init, BootInv, BootOK
<1>12. CountsOK
  BY DEF Init, CountsOK, NoHandlers
<1> QED
  BY <1>1, <1>5, <1>6, <1>7, <1>8, <1>9, <1>10, <1>11, <1>12 DEF Inv

\* The invariant holds of any modes, services and runners, however often they
\* are told to start, stop, reload or end, and whenever the process crashes.
THEOREM Invariance == Spec => []Inv
<1>1. Inv /\ [Next]_vars => Inv'
  BY TypesStep, CountsStep, DownStep, RunnersStep, StackStep, ReachStep, ReloadStep, SavedStep,
     BootStep DEF Inv
<1> QED
  BY InvInit, <1>1, PTL DEF Spec

\* Every variable has its type; CoreMode::stop() never unsets a listener that
\* is not there.
THEOREM TypeCorrect == Spec => []TypeOK
<1>1. Inv => TypeOK
  BY DEF Inv, Types, CountsOK, TypeOK
<1> QED
  BY Invariance, <1>1, PTL

\* Between operations a mode can be reached through the root grammar exactly
\* if it is started, unless two commanders worked on one unit at once.
THEOREM ReachedIfStarted == Spec => []ReachableIffStarted
<1>1. Inv => ReachableIffStarted
  <2> SUFFICES ASSUME Inv, Quiet, ~overlapped, NEW m \in OtherModes
               PROVE  m \in started <=> m \in grammar
    BY DEF ReachableIffStarted
  <2>1. phase # "stopping"
    <3>1. phase = "stopping" => task[Main] # <<>>
      BY DEF Inv, StackOK, MainOK, StoppingOK, EndsIn
    <3> QED
      BY <3>1, MainIs DEF Quiet, Idle
  <2>2. MovesOK(m)
    BY <2>1 DEF Inv, ReachOK
  <2>3. DOMAIN <<>> = {}
    OBVIOUS
  <2>4. \A c \in Commanders : ~Moving(c, m)
    BY <2>3 DEF Quiet, Idle, Moving, Has
  <2> QED
    BY <2>2, <2>4 DEF MovesOK
<1> QED
  BY Invariance, <1>1, PTL

\* reload() brings back what ran before, if no command came in between, also
\* when SIGHUP arrives while the destructor runs.
THEOREM ReloadBringsBack == Spec => []ReloadRestores
<1>1. Inv => ReloadRestores
  <2> SUFFICES ASSUME Inv, Do(Main, "reloaded"), ~meddled
               PROVE  started = before
    BY DEF ReloadRestores
  <2> DEFINE t == task[Main]
  <2>1. Types /\ DownOK /\ StackOK /\ ReloadInv
    BY DEF Inv
  <2>2. /\ t \in Stacks /\ t # <<>> /\ t[1] \in JobSet /\ t[1].do = "reloaded"
        /\ phase \in {"running", "stopping"}
    BY <2>1, PhaseOfHead DEF Types, BootDos, UpSteps
  <2>3. t[1] \in Of({"reloaded"})
    BY <2>2 DEF Of
  <2>4. Undisturbed
    BY <2>2, <2>3, HasTail DEF Undisturbed
  <2>5. ~Has(Tail(t), Of({"start", "rise"}))
    <3>1. CASE phase = "running"
      <4>1. Tail(t) = <<>>
        BY <2>1, <2>2, <2>3, <3>1, EndsInTail DEF StackOK, MainOK, RunningOK
      <4>2. DOMAIN <<>> = {}
        OBVIOUS
      <4> QED
        BY <4>1, <4>2 DEF Has
    <3>2. CASE phase = "stopping"
      <4>1. StoppingOK(t)
        BY <2>1, <3>2 DEF StackOK, MainOK
      <4>2. "reloaded" \in StopDos \ RunDos
        BY DEF StopDos, RunDos, Steps, UpSteps, DownSteps
      <4>3. StoppingOK(Tail(t)) /\ ~Has(Tail(t), Of({"reloaded"}))
        BY <2>2, <4>1, <4>2, StoppingTail
      <4> QED
        BY <4>3 DEF StoppingOK, Followed, Has
    <3> QED
      BY <2>2, <3>1, <3>2
  <2>6. \A u \in Units : ~Has(t, OfUnit({"start", "rise"}, u))
    <3>1. t[1] \notin Of({"start", "rise"})
      BY <2>2 DEF Of
    <3>2. ~Has(t, Of({"start", "rise"}))
      BY <2>2, <2>5, <3>1, HasTail
    <3> QED
      BY <3>2 DEF Has, OfUnit
  <2>7. \A u \in Units : RestartOK(t, u, before, started)
    BY <2>1, <2>4 DEF ReloadInv, ReloadOK
  <2>8. \A u \in Units : u \in before <=> u \in started
    BY <2>6, <2>7 DEF RestartOK
  <2> QED
    BY <2>1, <2>8 DEF Types
<1> QED
  BY Invariance, <1>1, PTL

\* A new run enables and starts what was enabled when the last orderly end
\* began to save it, and the core mode, unless a crash hit between the two
\* writes of the lists.
THEOREM RestartBringsBack == Spec => []RestartRestores
<1>1. Inv => RestartRestores
  <2> SUFFICES ASSUME Inv, phase = "booting", watching # {}, ~meddled, ~interrupted
               PROVE  enabled = promised \cup {Core} /\ started = enabled
    BY DEF RestartRestores
  <2> DEFINE t == task[Main]
  <2>1. BootingOK(t) /\ ~Has(t, Of({"watch"}))
    BY DEF Inv, StackOK, MainOK
  <2>2. ~Has(t, Of({"enable", "rise"}))
    BY <2>1 DEF BootingOK, Followed, Has
  <2>3. \A u \in Units : ~Has(t, OfUnit({"enable"}, u)) /\ ~Has(t, OfUnit({"rise"}, u))
    BY <2>2 DEF Has, OfUnit, Of
  <2>4. \A u \in Units : EnablesOK(t, u, promised, enabled) /\ RisesOK(t, u, enabled, started)
    BY DEF Inv, BootInv, BootOK
  <2>5. \A u \in Units : /\ u \in promised \cup {Core} <=> u \in enabled
                         /\ u \in enabled <=> u \in started
    BY <2>3, <2>4 DEF EnablesOK, RisesOK
  <2>6. promised \subseteq Units /\ enabled \subseteq Units /\ started \subseteq Units /\ Core \in Units
    BY DEF Inv, Types, Units, Modes
  <2> QED
    BY <2>5, <2>6
<1> QED
  BY Invariance, <1>1, PTL

=============================================================================
