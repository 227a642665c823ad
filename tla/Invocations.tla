------------------------------ MODULE Invocations ------------------------------
(***************************************************************************)
(* The invocations of the program (src/main.cpp).  Each opens the lock     *)
(* file and sets up the directories; one with -c then sends its command to *)
(* the socket.  Of the others, whoever gets the lock becomes Buckey, in    *)
(* the foreground or, with -d, as a child it forks, and the rest become    *)
(* command lines for that one.  SocketReader.tla is the other end of the   *)
(* connection.                                                             *)
(*                                                                         *)
(* lockf is a lock of the process: a child does not inherit it, and the    *)
(* kernel releases it at the end of the process.  Options that only print  *)
(* something end before any of this.  Other programs may connect as well   *)
(* and send what they like; here they are processes with the role          *)
(* "stranger".                                                             *)
(***************************************************************************)
EXTENDS SocketReader

CONSTANTS ListenBacklog, \* what listen() was called with
          Typed,         \* what users type or give to -c
          Fragments,     \* what other programs send, once each
          Roles,         \* who there is, a subset of AllRoles
          MaxLines       \* bound: lines sent by a process

AllRoles == {"plain", "daemon", "command", "stranger"}

ASSUME InvocationsAssumption ==
    /\ ListenBacklog \in Nat
    /\ MaxLines \in Nat
    /\ Roles \subseteq AllRoles
    /\ Typed \subseteq Seq(Letters \cup {Colon})
    /\ Fragments \subseteq Seq(Characters)

VARIABLES at,    \* where each process is
          role,
          lock,  \* who holds the lock file
          dirs,  \* the directories there are, config/core and assets/core as "core"
          sent   \* history: the lines each process sent

processVars == <<at, role, lock, dirs, sent>>
vars == <<readerVars, processVars>>

SettingUp == {"core", "makeCore", "oldTmp", "removeTmp", "checkTmp", "makeTmp"}
Places == SettingUp \cup {"unborn", "ready", "connect", "client", "fork", "parent", "child",
                          "init", "up", "over", "cut"}

TypeOK ==
    /\ ReaderTypeOK
    /\ at \in [Processes -> Places]
    /\ role \in [Processes -> AllRoles]
    /\ lock \in Processes \cup {Nobody}
    /\ dirs \in SUBSET {"core", "tmp"}
    /\ sent \in [Processes -> Seq(Seq(Characters))]

Init ==
    /\ ReaderInit
    /\ at = [p \in Processes |-> "unborn"]
    /\ role = [p \in Processes |-> "plain"]
    /\ lock = Nobody
    /\ dirs \in {{}, {"core", "tmp"}}
    /\ sent = [p \in Processes |-> <<>>]

-----------------------------------------------------------------------------

Goto(p, place) == at' = [at EXCEPT ![p] = place]

\* The kernel closes what the process had open.
Exit(p, place) ==
    /\ Goto(p, place)
    /\ lock' = IF lock = p THEN Nobody ELSE lock
    /\ closed' = closed \cup {p}

\* A user, or another program that connects.
Invoke(p, r) ==
    /\ at[p] = "unborn"
    /\ Goto(p, IF r = "stranger" THEN "connect" ELSE "core")
    /\ role' = [role EXCEPT ![p] = r]
    /\ UNCHANGED <<readerVars, lock, dirs, sent>>

-----------------------------------------------------------------------------
(* setupDirectories                                                        *)

Test(p, here, dir, present, absent) ==
    /\ at[p] = here
    /\ Goto(p, IF dir \in dirs THEN present ELSE absent)
    /\ UNCHANGED <<readerVars, role, lock, dirs, sent>>

\* Creating a directory that another process created since the test fails, and
\* the process exits.
Create(p, here, dir, next) ==
    /\ at[p] = here
    /\ IF dir \in dirs
       THEN Exit(p, "over") /\ UNCHANGED dirs
       ELSE Goto(p, next) /\ dirs' = dirs \cup {dir} /\ UNCHANGED <<lock, closed>>
    /\ UNCHANGED <<killed, reading, backlog, socket2Handle, stream, lineVars, passed, role, sent>>

RemoveTmp(p) ==
    /\ at[p] = "removeTmp"
    /\ dirs' = dirs \ {"tmp"}
    /\ Goto(p, "checkTmp")
    /\ UNCHANGED <<readerVars, role, lock, sent>>

\* Wrong: the old directory is removed and no new one created.
BadCheckTmp(p) ==
    /\ at[p] = "checkTmp"
    /\ Goto(p, IF "tmp" \in dirs THEN "over" ELSE "ready")
    /\ UNCHANGED <<readerVars, role, lock, dirs, sent>>

\* "This bug should never happen!"
CheckTmp(p) ==
    /\ at[p] = "checkTmp"
    /\ IF "tmp" \in dirs THEN Exit(p, "over")
       ELSE Goto(p, "makeTmp") /\ UNCHANGED <<lock, closed>>
    /\ UNCHANGED <<killed, reading, backlog, socket2Handle, stream, lineVars, passed, role, dirs, sent>>

SetUpDirectories(p) ==
    \/ Test(p, "core", "core", "oldTmp", "makeCore")
    \/ Create(p, "makeCore", "core", "oldTmp")
    \/ Test(p, "oldTmp", "tmp", "removeTmp", "makeTmp")
    \/ RemoveTmp(p)
    \/ CheckTmp(p)
    \/ Create(p, "makeTmp", "tmp", "ready")

-----------------------------------------------------------------------------
(* Who becomes Buckey                                                      *)

\* With -c the lock is not looked at.
TryLock(p) ==
    /\ at[p] = "ready"
    /\ IF role[p] = "command" \/ lock # Nobody
       THEN Goto(p, "connect") /\ UNCHANGED lock
       ELSE Goto(p, IF role[p] = "daemon" THEN "fork" ELSE "init") /\ lock' = p
    /\ UNCHANGED <<readerVars, role, dirs, sent>>

Fork(p, q) ==
    /\ at[p] = "fork"
    /\ at[q] = "unborn"
    /\ at' = [at EXCEPT ![p] = "parent", ![q] = "child"]
    /\ role' = [role EXCEPT ![q] = "daemon"]
    /\ UNCHANGED <<readerVars, lock, dirs, sent>>

\* The parent is through; or fork failed, or daemonize returned at once
\* because the process is a child of init.
ParentExits(p) ==
    /\ at[p] \in {"fork", "parent"}
    /\ Exit(p, "over")
    /\ UNCHANGED <<killed, reading, backlog, socket2Handle, stream, lineVars, passed, role, dirs, sent>>

\* Wrong: takes the lock of the parent for its own.
BadChildLocks(p) ==
    /\ at[p] = "child"
    /\ Goto(p, "init")
    /\ UNCHANGED <<readerVars, role, lock, dirs, sent>>

\* The child tries the lock, which its parent may still hold.
ChildLocks(p) ==
    /\ at[p] = "child"
    /\ IF lock = Nobody THEN Goto(p, "init") /\ lock' = p /\ UNCHANGED closed
       ELSE Exit(p, "over")
    /\ UNCHANGED <<killed, reading, backlog, socket2Handle, stream, lineVars, passed, role, dirs, sent>>

\* makeBuckey, up to the socket at the end of init().
MakeBuckey(p) ==
    /\ at[p] = "init"
    /\ Goto(p, "up")
    /\ MakeServerSocket
    /\ UNCHANGED <<stream, closed, passed, role, lock, dirs, sent>>

\* A signal, or a command: requestStop.
RequestStop(p) ==
    /\ at[p] = "up"
    /\ killed' = TRUE
    /\ UNCHANGED <<reading, backlog, closed, socket2Handle, stream, lineVars, passed, processVars>>

\* The main loop of the foreground ends, and the destructor joins the reader.
\* That of a daemon waits for isRunning(), which only the destructor changes.
BuckeyEnds(p) ==
    /\ at[p] = "up" /\ killed /\ ~reading
    /\ role[p] # "daemon"
    /\ Exit(p, "over")
    /\ NoServer
    /\ UNCHANGED <<killed, stream, lineVars, passed, role, dirs, sent>>

\* SIGKILL, a crash, the end of the machine.
Die(p) ==
    /\ at[p] \notin {"unborn", "over", "cut"}
    /\ Exit(p, IF at[p] \in {"checkTmp", "makeTmp"} THEN "cut" ELSE "over")
    /\ IF at[p] = "up" THEN NoServer ELSE UNCHANGED <<reading, backlog, socket2Handle>>
    /\ UNCHANGED <<killed, stream, lineVars, passed, role, dirs, sent>>

-----------------------------------------------------------------------------
(* Command lines                                                           *)

\* connect waits while the backlog is full, and is refused when nothing listens.
Connect(p) ==
    /\ at[p] = "connect"
    /\ IF reading
       THEN /\ Len(backlog) <= ListenBacklog
            /\ backlog' = Append(backlog, p)
            /\ Goto(p, "client")
            /\ UNCHANGED <<lock, closed>>
       ELSE Exit(p, "over") /\ UNCHANGED backlog
    /\ UNCHANGED <<killed, reading, socket2Handle, stream, lineVars, passed, role, dirs, sent>>

\* Wrong: a command as long as the limit leaves no room for the end of the line.
BadFits(text) == Len(text) <= MaxCommandSize

Fits(text) == Len(text) <= MaxCommandSize - 1

\* What a process makes of the words: a command line refuses lines that are too
\* long and adds the end of the line, and -c adds the colon in front.
Text(p, words) == IF role[p] = "command" THEN <<Colon>> \o words ELSE words

Put(p, line) ==
    IF p \in Connected
    THEN /\ stream' = [stream EXCEPT ![p] = @ \o line]
         /\ sent' = [sent EXCEPT ![p] = Append(@, line)]
         /\ IF role[p] = "command" THEN Exit(p, "over") ELSE UNCHANGED <<at, lock, closed>>
    ELSE Exit(p, "over") /\ UNCHANGED <<stream, sent>>

Send(p) ==
    /\ at[p] = "client"
    /\ Len(sent[p]) < MaxLines
    /\ IF role[p] = "stranger" THEN sent[p] = <<>> /\ \E f \in Fragments : Put(p, f)
       ELSE \E words \in Typed :
               /\ Text(p, words) # <<>>
               /\ Fits(Text(p, words))
               /\ Put(p, Append(Text(p, words), NewLine))
    /\ UNCHANGED <<killed, reading, backlog, socket2Handle, lineVars, passed, role, dirs>>

\* The user types exit, or gave -c more than fits, or the other program ends.
Leave(p) ==
    /\ at[p] = "client"
    /\ role[p] = "command" => \E words \in Typed : ~Fits(Text(p, words))
    /\ Exit(p, "over")
    /\ UNCHANGED <<killed, reading, backlog, socket2Handle, stream, lineVars, passed, role, dirs, sent>>

ProcessNext ==
    \E p \in Processes :
        \/ \E r \in Roles : Invoke(p, r)
        \/ SetUpDirectories(p) \/ TryLock(p)
        \/ \E q \in Processes : Fork(p, q)
        \/ ParentExits(p) \/ ChildLocks(p) \/ MakeBuckey(p)
        \/ RequestStop(p) \/ BuckeyEnds(p) \/ Die(p)
        \/ Connect(p) \/ Send(p) \/ Leave(p)

Next == ProcessNext \/ (ReaderNext /\ UNCHANGED processVars)

Spec     == Init /\ [][Next]_vars
FairSpec == Spec /\ WF_vars(ReaderNext /\ UNCHANGED processVars)

-----------------------------------------------------------------------------
(* Properties                                                              *)

\* Whatever is invoked when, with or without -d, and whoever dies when: at most
\* one process is Buckey (main.cpp, the lock file).
OneBuckey ==
    \A p, q \in Processes :
        at[p] \in {"init", "up"} /\ at[q] \in {"init", "up"} => p = q

\* Every invocation removes and creates the temporary directory, the one of a
\* running Buckey as well.  When one is running it is there, or somebody is
\* about to create it, or died in between.
TempDirReturns ==
    (\E p \in Processes : at[p] \in {"init", "up"}) =>
        \/ "tmp" \in dirs
        \/ \E q \in Processes : at[q] \in {"checkTmp", "makeTmp", "cut"}

Strange(p) == role[p] = "stranger"

\* What the reader passes on from a command line is what was typed there, line
\* by line and in order, however the stream was cut by the buffer and whatever
\* other programs sent or left unfinished before.
LinesArrive ==
    \A p \in Processes : ~Strange(p) =>
        /\ Len(passed[p]) <= Len(sent[p])
        /\ \A k \in DOMAIN passed[p] : passed[p][k] = PassOn(sent[p][k])

Pending(p, k) == ~Strange(p) /\ p \in Connected /\ k \in Len(passed[p]) + 1 .. Len(sent[p])
Strayed       == \E p \in Processes : Strange(p) /\ sent[p] # <<>>

\* The reader has nothing to do but wait for a connection other than p's.
Kept(p) == socket2Handle \notin {p, Nobody} \cup closed /\ stream[socket2Handle] = <<>>

\* A line that was sent is passed on, also when its sender is gone by then,
\* unless Buckey stops, another program disturbed the count, or the reader is
\* kept by another connection.
LinesAreTaken ==
    \A p \in Processes, k \in 1 .. MaxLines :
        Pending(p, k) ~> Len(passed[p]) >= k \/ killed \/ ~reading \/ Strayed \/ Kept(p)

=============================================================================
