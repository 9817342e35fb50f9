-------------------------- MODULE TerminalSessions --------------------------
(***************************************************************************)
(* The web terminal of the agent.  A connection is served by a handler of  *)
(* its own.  A session is a shell in a container with two goroutines, one  *)
(* that reads its output and one that waits for its end; it outlives its   *)
(* connections, so that a client can come back to it.  A cleaner looks for *)
(* sessions nobody uses.  Handlers, goroutines and cleaner share the table *)
(* of sessions (sessionsMutex) and the clients of each (ClientsMutex).     *)
(*                                                                         *)
(* Output is counted in chunks, one for each read of the PTY.  A lock that *)
(* is held over one step only is part of that step; the cleaner holds      *)
(* sessionsMutex, and a reader that sends holds ClientsMutex, over several.*)
(***************************************************************************)
EXTENDS Integers, Sequences

CONSTANTS
    Conns,      \* WebSocket connections
    Servers,    \* servers that have a terminal
    Sessions,   \* bound: the sessions that can be created
    None,       \* no server, no session
    MaxOutput,  \* bound: chunks a shell writes
    Idling      \* TRUE iff a session may stay unused for 30 minutes

ASSUME TerminalAssumption ==
    /\ None \notin Servers \cup Sessions
    /\ MaxOutput \in Nat
    /\ Idling \in BOOLEAN

VARIABLES
    conn,       \* the connections and their handlers
    session,    \* the sessions and their goroutines
    sessions,   \* the table of sessions
    cleaner,    \* the cleaner goroutine
    up          \* the agent has not panicked

vars == <<conn, session, sessions, cleaner, up>>

HandlerPcs == {"lookup", "replay", "create", "publish", "register", "attached", "detach"}

Handlers == [pc: {"new", "closed"} \cup HandlerPcs,
             server: Servers \cup {None},
             session: Sessions \cup {None},
             open: BOOLEAN,          \* the agent can write to the connection
             replayed: Nat,          \* the last chunk sent from the buffer
             live: Seq(1..MaxOutput)]  \* the chunks sent by the reader

NewConn == [pc |-> "new", server |-> None, session |-> None, open |-> FALSE,
            replayed |-> 0, live |-> <<>>]

\* The handler has returned, and its connection is closed.
Returned == [NewConn EXCEPT !.pc = "closed"]

Shells == [server: Servers \cup {None},
           shell: {"none", "running", "exited"},
           pty: BOOLEAN,            \* the PTY is open
           done: BOOLEAN,           \* the channel Done is closed
           clients: SUBSET Conns,
           locked: BOOLEAN,         \* the reader holds ClientsMutex
           idle: BOOLEAN,           \* LastActivity is more than 30 minutes ago
           read: 0..MaxOutput,      \* the last chunk read
           buffered: 0..MaxOutput,  \* the last chunk in OutputBuffer
           reader: {"none", "read", "append", "lock", "send", "ended"},
           waiter: {"none", "wait", "close", "sleep", "ended"}]

NoShell == [server |-> None, shell |-> "none", pty |-> FALSE, done |-> FALSE,
            clients |-> {}, locked |-> FALSE, idle |-> FALSE, read |-> 0,
            buffered |-> 0, reader |-> "none", waiter |-> "none"]

TypeOK ==
    /\ conn \in [Conns -> Handlers]
    /\ session \in [Sessions -> Shells]
    /\ sessions \subseteq Sessions
    /\ cleaner \in [pc: {"wait", "scan", "clean"}, left: SUBSET Sessions,
                    at: Sessions \cup {None}]
    /\ up \in BOOLEAN

Waiting == [pc |-> "wait", left |-> {}, at |-> None]

Init ==
    /\ conn = [c \in Conns |-> NewConn]
    /\ session = [s \in Sessions |-> NoShell]
    /\ sessions = {}
    /\ cleaner = Waiting
    /\ up = TRUE

\* sessionsMutex is free.
TableFree == cleaner.pc = "wait"

\* close(s.Done), which panics the second time.
CloseDone(s, after) ==
    IF session[s].done
      THEN up' = FALSE /\ UNCHANGED session
      ELSE UNCHANGED up /\ session' = [session EXCEPT ![s] = [after EXCEPT !.done = TRUE]]

\* The connections in `closed` are closed by the agent.
Closing(closed) == [c \in Conns |-> IF c \in closed THEN [conn[c] EXCEPT !.open = FALSE]
                                                    ELSE conn[c]]

-----------------------------------------------------------------------------
\* A client asks for the terminal of a server, and may name a session to come
\* back to.  It is refused when the server is unknown or does not run.
Dial(c, server, wanted) ==
    /\ conn[c].pc = "new"
    /\ \/ conn' = [conn EXCEPT ![c] = [NewConn EXCEPT !.pc = IF wanted = None THEN "create"
                                                                             ELSE "lookup",
                                                      !.server = server,
                                                      !.session = wanted, !.open = TRUE]]
       \/ conn' = [conn EXCEPT ![c] = Returned]
    /\ UNCHANGED <<session, sessions, cleaner, up>>

\* Mutant of Usable: a session of any server will do.
UsableByAnyone(c) == conn[c].session \in sessions

\* The session named is in the table and is one of that server.
Usable(c) ==
    /\ conn[c].session \in sessions
    /\ session[conn[c].session].server = conn[c].server

Lookup(c) ==
    /\ conn[c].pc = "lookup"
    /\ TableFree
    /\ conn' = [conn EXCEPT ![c].pc = IF Usable(c) THEN "replay" ELSE "create"]
    /\ UNCHANGED <<session, sessions, cleaner, up>>

\* The buffer is sent without a lock: while the reader appends to it, the agent
\* sends what was there before, or the new chunk with it, or bytes of neither.
Replay(c) ==
    LET s == conn[c].session IN
    /\ conn[c].pc = "replay"
    /\ \E last \in {session[s].buffered} \cup
                   (IF session[s].reader = "append" THEN {session[s].read, 0} ELSE {}) :
          conn' = [conn EXCEPT ![c].pc = "register", ![c].replayed = last]
    /\ UNCHANGED <<session, sessions, cleaner, up>>

\* Mutant of Create: the handler goes on without a session.
CreateUnchecked(c) ==
    /\ conn[c].pc = "create"
    /\ conn' = [conn EXCEPT ![c].pc = "publish", ![c].session = None]
    /\ UNCHANGED <<session, sessions, cleaner, up>>

\* The handler starts a shell on a PTY, or cannot and closes the connection.
Create(c) ==
    /\ conn[c].pc = "create"
    /\ \/ \E s \in Sessions :
             /\ session[s] = NoShell
             /\ session' = [session EXCEPT ![s] =
                              [NoShell EXCEPT !.server = conn[c].server, !.shell = "running",
                                              !.pty = TRUE, !.reader = "read",
                                              !.waiter = "wait"]]
             /\ conn' = [conn EXCEPT ![c].pc = "publish", ![c].session = s]
       \/ /\ conn' = [conn EXCEPT ![c] = Returned]
          /\ UNCHANGED session
    /\ UNCHANGED <<sessions, cleaner, up>>

Publish(c) ==
    /\ conn[c].pc = "publish"
    /\ TableFree
    /\ sessions' = sessions \cup {conn[c].session}
    /\ conn' = [conn EXCEPT ![c].pc = "register"]
    /\ UNCHANGED <<session, cleaner, up>>

\* Mutant of Replaced: the old clients are dropped and not disconnected.
ReplacedQuietly(c) == {}

\* The clients that the connection disconnects when it registers.
Replaced(c) == session[conn[c].session].clients

\* The connection becomes the one client of the session.
Register(c) ==
    LET s == conn[c].session IN
    /\ conn[c].pc = "register"
    /\ ~session[s].locked
    /\ session' = [session EXCEPT ![s].clients = {c}, ![s].idle = FALSE]
    /\ conn' = [Closing(Replaced(c)) EXCEPT ![c].pc = "attached"]
    /\ UNCHANGED <<sessions, cleaner, up>>

\* Keys the client sent, maybe before it was disconnected, go to the shell;
\* writing to a PTY that is closed, or whose shell has exited, may fail, which
\* ends the handler.
Type(c) ==
    LET s == conn[c].session IN
    /\ conn[c].pc = "attached"
    /\ \/ /\ session[s].pty
          /\ session' = [session EXCEPT ![s].idle = FALSE]
          /\ UNCHANGED conn
       \/ /\ ~session[s].pty \/ session[s].shell = "exited"
          /\ conn' = [conn EXCEPT ![c].pc = "detach"]
          /\ UNCHANGED session
    /\ UNCHANGED <<sessions, cleaner, up>>

\* The client goes away.
Leave(c) ==
    /\ conn[c].pc \in HandlerPcs
    /\ conn[c].open
    /\ conn' = [conn EXCEPT ![c].open = FALSE]
    /\ UNCHANGED <<session, sessions, cleaner, up>>

\* Reading from a connection that is closed ends the handler.
HangUp(c) ==
    /\ conn[c].pc = "attached"
    /\ ~conn[c].open
    /\ conn' = [conn EXCEPT ![c].pc = "detach"]
    /\ UNCHANGED <<session, sessions, cleaner, up>>

\* Mutant of Remaining: the handler that leaves forgets every client.
NoneRemaining(c) == {}

\* The clients that stay when the handler leaves.
Remaining(c) == session[conn[c].session].clients \ {c}

Detach(c) ==
    LET s == conn[c].session IN
    /\ conn[c].pc = "detach"
    /\ ~session[s].locked
    /\ session' = [session EXCEPT ![s].clients = Remaining(c), ![s].idle = FALSE]
    /\ conn' = [conn EXCEPT ![c] = Returned]
    /\ UNCHANGED <<sessions, cleaner, up>>

\* What the handler does of itself; Dial, Type and Leave are up to the client.
Handle(c) ==
    \/ Lookup(c) \/ Replay(c) \/ Create(c) \/ Publish(c) \/ Register(c)
    \/ HangUp(c) \/ Detach(c)

-----------------------------------------------------------------------------
\* The reader reads a chunk ...
Read(s) ==
    /\ session[s].reader = "read"
    /\ session[s].pty
    /\ session[s].read < MaxOutput
    /\ session' = [session EXCEPT ![s].read = @ + 1, ![s].reader = "append"]
    /\ UNCHANGED <<conn, sessions, cleaner, up>>

\* Mutant of Keep: the chunk is kept and not sent.
KeepSilently(s) ==
    /\ session[s].reader = "append"
    /\ session' = [session EXCEPT ![s].buffered = session[s].read, ![s].reader = "read"]
    /\ UNCHANGED <<conn, sessions, cleaner, up>>

\* ... keeps it in the buffer, without a lock ...
Keep(s) ==
    /\ session[s].reader = "append"
    /\ session' = [session EXCEPT ![s].buffered = session[s].read, ![s].reader = "lock"]
    /\ UNCHANGED <<conn, sessions, cleaner, up>>

\* ... and sends it to the clients, dropping those it cannot write to.
LockClients(s) ==
    /\ session[s].reader = "lock"
    /\ ~session[s].locked
    /\ session' = [session EXCEPT ![s].locked = TRUE, ![s].reader = "send"]
    /\ UNCHANGED <<conn, sessions, cleaner, up>>

\* Mutant of Sent: the whole buffer is sent.
SentBuffer(s, failed) ==
    [c \in Conns |->
        IF c \in failed THEN [conn[c] EXCEPT !.open = FALSE]
        ELSE IF c \in session[s].clients
          THEN [conn[c] EXCEPT !.live = @ \o [i \in 1..session[s].buffered |-> i]]
        ELSE conn[c]]

\* The connections after a write to the clients of which some failed.
Sent(s, failed) ==
    [c \in Conns |->
        IF c \in failed THEN [conn[c] EXCEPT !.open = FALSE]
        ELSE IF c \in session[s].clients THEN [conn[c] EXCEPT !.live = Append(@, session[s].read)]
        ELSE conn[c]]

Send(s) ==
    /\ session[s].reader = "send"
    /\ \E failed \in SUBSET session[s].clients :
          /\ {c \in session[s].clients : ~conn[c].open} \subseteq failed
          /\ conn' = Sent(s, failed)
          /\ session' = [session EXCEPT ![s].clients = @ \ failed, ![s].locked = FALSE,
                                        ![s].reader = "read"]
    /\ UNCHANGED <<sessions, cleaner, up>>

\* Done is closed, or the PTY has nothing more to give.
EndReader(s) ==
    /\ session[s].reader = "read"
    /\ session[s].done \/ ~session[s].pty \/ session[s].shell = "exited"
    /\ session' = [session EXCEPT ![s].reader = "ended"]
    /\ UNCHANGED <<conn, sessions, cleaner, up>>

\* The shell exits, or the container it runs in stops.
Exit(s) ==
    /\ session[s].shell = "running"
    /\ session' = [session EXCEPT ![s].shell = "exited"]
    /\ UNCHANGED <<conn, sessions, cleaner, up>>

\* The waiter closes Done ...
EndShell(s) ==
    /\ session[s].waiter = "wait"
    /\ session[s].shell = "exited"
    /\ CloseDone(s, [session[s] EXCEPT !.waiter = "close"])
    /\ UNCHANGED <<conn, sessions, cleaner>>

\* Mutant of CloseClients: the session ends and tells nobody.
CloseNobody(s) ==
    /\ session[s].waiter = "close"
    /\ session' = [session EXCEPT ![s].waiter = "sleep"]
    /\ UNCHANGED <<conn, sessions, cleaner, up>>

\* ... and the connections of the clients, which stay in the set ...
CloseClients(s) ==
    /\ session[s].waiter = "close"
    /\ ~session[s].locked
    /\ conn' = Closing(session[s].clients)
    /\ session' = [session EXCEPT ![s].waiter = "sleep"]
    /\ UNCHANGED <<sessions, cleaner, up>>

\* Mutant of Forget: the session stays in the table.
ForgetNothing(s) ==
    /\ session[s].waiter = "sleep"
    /\ session' = [session EXCEPT ![s].waiter = "ended"]
    /\ UNCHANGED <<conn, sessions, cleaner, up>>

\* ... and five minutes later, long after the handler that created the session
\* has put it in the table, takes it out.
Forget(s) ==
    /\ session[s].waiter = "sleep"
    /\ TableFree
    /\ \A c \in Conns : ~(conn[c].pc = "publish" /\ conn[c].session = s)
    /\ sessions' = sessions \ {s}
    /\ session' = [session EXCEPT ![s].waiter = "ended"]
    /\ UNCHANGED <<conn, cleaner, up>>

\* What the reader does of itself; Read is up to the shell.
ReaderStep(s) == Keep(s) \/ LockClients(s) \/ Send(s) \/ EndReader(s)

WaiterStep(s) == EndShell(s) \/ CloseClients(s) \/ Forget(s)

-----------------------------------------------------------------------------
\* Thirty minutes pass in which nothing touches the session; no handler or
\* reader takes that long over its next step.
Idle(s) ==
    /\ Idling
    /\ session[s].shell # "none"
    /\ session[s].reader \in {"read", "ended"}
    /\ \A c \in Conns : conn[c].session = s => conn[c].pc \in {"attached", "closed"}
    /\ session' = [session EXCEPT ![s].idle = TRUE]
    /\ UNCHANGED <<conn, sessions, cleaner, up>>

\* Every five minutes the cleaner takes sessionsMutex ...
Tick ==
    /\ cleaner.pc = "wait"
    /\ cleaner' = [pc |-> "scan", left |-> sessions, at |-> None]
    /\ UNCHANGED <<conn, session, sessions, up>>

\* ... looks at each session for clients, and at its last activity ...
Look(s) ==
    /\ cleaner.pc = "scan"
    /\ s \in cleaner.left
    /\ ~session[s].locked
    /\ cleaner' = [pc |-> IF session[s].clients = {} /\ session[s].idle THEN "clean" ELSE "scan",
                   left |-> cleaner.left \ {s}, at |-> s]
    /\ UNCHANGED <<conn, session, sessions, up>>

\* ... and ends a session that nobody uses.
Clean ==
    LET s == cleaner.at IN
    /\ cleaner.pc = "clean"
    /\ CloseDone(s, [session[s] EXCEPT !.pty = FALSE, !.shell = "exited"])
    /\ sessions' = sessions \ {s}
    /\ cleaner' = [cleaner EXCEPT !.pc = "scan"]
    /\ UNCHANGED conn

\* Mutant of Unlock: the cleaner leaves with sessionsMutex held.
UnlockNever == FALSE /\ UNCHANGED vars

Unlock ==
    /\ cleaner.pc = "scan"
    /\ cleaner.left = {}
    /\ cleaner' = Waiting
    /\ UNCHANGED <<conn, session, sessions, up>>

CleanerStep == (\E s \in Sessions : Look(s)) \/ Clean \/ Unlock

-----------------------------------------------------------------------------
\* The sessions a client can have heard of.
Known == {s \in Sessions : session[s] # NoShell}

ClientStep(c) ==
    \/ \E server \in Servers : Dial(c, server, None)
    \/ \E server \in Servers, wanted \in Known : Dial(c, server, wanted)
    \/ Type(c)
    \/ Leave(c)

Step ==
    \/ \E c \in Conns : ClientStep(c) \/ Handle(c)
    \/ \E s \in Sessions : Read(s) \/ ReaderStep(s) \/ Exit(s) \/ WaiterStep(s) \/ Idle(s)
    \/ Tick \/ CleanerStep

Next == up /\ Step

Spec == Init /\ [][Next]_vars

\* Goroutines run, and one that waits for a mutex gets it although others take
\* it in between.  Clients read what they are sent, so that a write ends.
Fairness ==
    /\ \A c \in Conns : SF_vars(up /\ Handle(c))
    /\ \A s \in Sessions : SF_vars(up /\ ReaderStep(s)) /\ SF_vars(up /\ WaiterStep(s))
    /\ SF_vars(up /\ CleanerStep)

FairSpec == Spec /\ Fairness

-----------------------------------------------------------------------------
Attached(c) == conn[c].pc = "attached" /\ conn[c].open

\* A connection that comes back to a session gets the terminal of the server it
\* asked for and of no other (SSHTerminalWebSocket).
OwnServer ==
    \A c \in Conns :
        conn[c].pc \in {"replay", "register", "attached", "detach"}
          => session[conn[c].session].server = conn[c].server

\* At most one open connection is at the keyboard of a session: a new one
\* disconnects the old (SSHTerminalWebSocket).
OneAtKeyboard ==
    \A c, d \in Conns :
        Attached(c) /\ Attached(d) /\ conn[c].session = conn[d].session => c = d

\* An open connection gets the output of its session: a handler that leaves
\* late, after it was replaced, does not take its successor with it.
AttachedIsClient ==
    \A c \in Conns : Attached(c) => c \in session[conn[c].session].clients

\* A client never sees output go back: what it gets live is without gap or
\* repetition, and does not begin before what was replayed from the buffer,
\* however the replay and the reader interleave.
OutputInOrder ==
    \A c \in Conns :
        LET live == conn[c].live IN
        /\ \A i \in 1..Len(live) - 1 : live[i + 1] = live[i] + 1
        /\ live # <<>> => conn[c].replayed <= live[1]

\* A handler is never stuck on a mutex: its connection gets a terminal or is
\* closed (the order in which the two mutexes are taken).
DialsAnswered ==
    \A c \in Conns :
        conn[c].pc \in HandlerPcs \ {"attached"} ~> conn[c].pc \in {"attached", "closed"}

\* The table forgets a session whose shell has exited (createTerminalSession).
EndedForgotten ==
    \A s \in Sessions : session[s].shell = "exited" ~> [](s \notin sessions)

\* A connection that was attached when its shell exited, or came before the
\* waiter got to the clients, is closed with the session; one that comes later
\* is not (createTerminalSession).
ClosedAtEnd ==
    \A c \in Conns, s \in Sessions :
        (/\ Attached(c) /\ conn[c].session = s
         /\ session[s].shell = "exited" /\ session[s].waiter \in {"wait", "close"})
          ~> ~Attached(c)

\* A chunk that is read while a connection is attached reaches it, unless it
\* leaves (createTerminalSession).
OutputDelivered ==
    \A c \in Conns, s \in Sessions, n \in 1..MaxOutput :
        (/\ Attached(c) /\ conn[c].session = s
         /\ session[s].reader = "append" /\ session[s].read = n)
          ~> (~Attached(c) \/ \E i \in 1..Len(conn[c].live) : conn[c].live[i] = n)

-----------------------------------------------------------------------------
\* Cleaning up an inactive session does not stop the agent.
AgentSurvives == up

=============================================================================
