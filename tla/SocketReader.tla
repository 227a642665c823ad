----------------------------- MODULE SocketReader -----------------------------
(***************************************************************************)
(* The thread of Buckey that reads the UNIX socket                         *)
(* (manageUnixSocket in src/core/Buckey.cpp): it serves one connection at  *)
(* a time, receives what has arrived, up to the size of its buffer, and    *)
(* cuts it into lines, which it passes on.  Who connects and what it sends *)
(* is in Invocations.tla, which composes this module with the processes at *)
(* both ends.                                                              *)
(*                                                                         *)
(* A stream is a sequence of characters, of which only the end of a line,  *)
(* the colon of a command and the space that replaces it have a meaning.   *)
(***************************************************************************)
EXTENDS Naturals, Sequences

CONSTANTS Processes,      \* what may connect
          Nobody,
          Letters, NewLine, Colon, Space,
          BufferSize,     \* what one recv takes, SOCKET_BUFFER_SIZE - 1
          MaxCommandSize

ASSUME ReaderAssumption ==
    /\ Nobody \notin Processes
    /\ NewLine \notin Letters \cup {Colon}
    /\ {BufferSize, MaxCommandSize} \subseteq Nat \ {0}

VARIABLES killed,          \* requestStop() was called
          reading,         \* the thread runs and the socket listens
          backlog,         \* connections to be accepted
          stream,          \* what each connection sent that was not received
          closed,          \* the connections whose other end was closed
          socket2Handle,   \* the connection that is served
          readBuffer,      \* what is left of it in the loop over its characters
          s,               \* the line so far
          currentReadSize,
          passed           \* history: the lines passed on, by connection

socketVars == <<killed, reading, backlog, closed, socket2Handle>>
lineVars   == <<readBuffer, s, currentReadSize>>
readerVars == <<socketVars, stream, lineVars, passed>>

Characters == Letters \cup {NewLine, Colon, Space}
Connected  == {backlog[k] : k \in DOMAIN backlog} \cup {socket2Handle}

ReaderTypeOK ==
    /\ killed \in BOOLEAN
    /\ reading \in BOOLEAN
    /\ backlog \in Seq(Processes)
    /\ stream \in [Processes -> Seq(Characters)]
    /\ closed \in SUBSET Processes
    /\ socket2Handle \in Processes \cup {Nobody}
    /\ readBuffer \in Seq(Characters)
    /\ s \in Seq(Characters)
    /\ currentReadSize \in Nat
    /\ passed \in [Processes -> Seq(Seq(Characters))]

\* Nothing listens.
NoServer ==
    /\ reading' = FALSE
    /\ backlog' = <<>>
    /\ socket2Handle' = Nobody

ReaderInit ==
    /\ killed = FALSE
    /\ reading = FALSE
    /\ backlog = <<>>
    /\ stream = [p \in Processes |-> <<>>]
    /\ closed = {}
    /\ socket2Handle = Nobody
    /\ readBuffer = <<>>
    /\ s = <<>>
    /\ currentReadSize = 0
    /\ passed = [p \in Processes |-> <<>>]

\* makeServerSocket, and the start of the thread with its locals.
MakeServerSocket ==
    /\ reading' = TRUE
    /\ backlog' = <<>>
    /\ socket2Handle' = Nobody
    /\ killed' = FALSE
    /\ readBuffer' = <<>>
    /\ s' = <<>>
    /\ currentReadSize' = 0

-----------------------------------------------------------------------------

\* Wrong: what is left of the line of the last connection stays.
BadAccept ==
    /\ reading /\ ~killed
    /\ socket2Handle = Nobody
    /\ backlog # <<>>
    /\ socket2Handle' = Head(backlog)
    /\ backlog' = Tail(backlog)
    /\ UNCHANGED <<killed, reading, stream, closed, lineVars, passed>>

\* The line is reset for a new connection, and currentReadSize is not.
Accept ==
    /\ reading /\ ~killed
    /\ socket2Handle = Nobody
    /\ backlog # <<>>
    /\ socket2Handle' = Head(backlog)
    /\ backlog' = Tail(backlog)
    /\ s' = <<>>
    /\ UNCHANGED <<killed, reading, stream, closed, readBuffer, currentReadSize, passed>>

Serving == reading /\ socket2Handle # Nobody /\ readBuffer = <<>>

\* recv: what there is, as far as the buffer goes.
Receive ==
    /\ Serving /\ ~killed
    /\ LET have == stream[socket2Handle]
           n    == IF Len(have) < BufferSize THEN Len(have) ELSE BufferSize
       IN  /\ have # <<>>
           /\ readBuffer' = SubSeq(have, 1, n)
           /\ stream' = [stream EXCEPT ![socket2Handle] = SubSeq(have, n + 1, Len(have))]
    /\ UNCHANGED <<socketVars, s, currentReadSize, passed>>

\* passCommand or passInput: a command has a space in the place of its colon.
PassOn(line) == IF line[1] = Colon THEN [line EXCEPT ![1] = Space] ELSE line

\* One character.  A line that is too long ends the loop over what was received,
\* and neither the line nor the count is reset.
ReadCharacter ==
    /\ reading
    /\ readBuffer # <<>>
    /\ LET c    == Head(readBuffer)
           line == Append(s, c)
           over == currentReadSize + 1 > MaxCommandSize
           ends == c = NewLine /\ ~over
       IN  /\ readBuffer' = IF over THEN <<>> ELSE Tail(readBuffer)
           /\ s' = IF ends THEN <<>> ELSE line
           /\ currentReadSize' = IF ends THEN 0 ELSE currentReadSize + 1
           /\ passed' = IF ends THEN [passed EXCEPT ![socket2Handle] = Append(@, PassOn(line))]
                        ELSE passed
    /\ UNCHANGED <<socketVars, stream>>

\* recv has nothing more to return.
HangUp ==
    /\ Serving /\ ~killed
    /\ socket2Handle \in closed
    /\ stream[socket2Handle] = <<>>
    /\ socket2Handle' = Nobody
    /\ UNCHANGED <<killed, reading, backlog, closed, stream, lineVars, passed>>

\* The thread sees the stop between two buffers and closes the socket; the
\* connection it served is left to the destructor.
ReaderEnds ==
    /\ reading /\ killed
    /\ readBuffer = <<>>
    /\ reading' = FALSE
    /\ backlog' = <<>>
    /\ UNCHANGED <<killed, closed, socket2Handle, stream, lineVars, passed>>

ReaderNext == Accept \/ Receive \/ ReadCharacter \/ HangUp \/ ReaderEnds

=============================================================================
