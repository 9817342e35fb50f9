---------------------------- MODULE TerminalProofs ----------------------------
(***************************************************************************)
(* Proofs about the terminal, for every number of connections, servers and *)
(* sessions and any amount of output.  The invariant TInv says which       *)
(* session a handler works on at each point, that a session has at most    *)
(* one client, and that a client has seen everything sent since it came.   *)
(***************************************************************************)
EXTENDS TerminalSessions, TLAPS

\* The handlers that have a session.
SessionPcs == {"replay", "publish", "register", "attached", "detach"}

\* The reader has a chunk that it has not sent yet.
Pending(shell) == shell.reader \in {"append", "lock", "send"}

\* The last chunk that was sent.
LastSent(shell) == IF Pending(shell) THEN shell.read - 1 ELSE shell.read

InOrder(live) == \A i \in 1..Len(live) - 1 : live[i + 1] = live[i] + 1

\* What a connection `cn` has to do with the sessions `ss`.
ConnOK(cn, ss) ==
    /\ cn \in Handlers
    /\ cn.pc \in HandlerPcs => cn.server \in Servers
    /\ cn.pc \in SessionPcs => cn.session \in Sessions /\ ss[cn.session].server = cn.server
    /\ cn.pc \notin {"register", "attached", "detach"} => cn.replayed = 0
    /\ cn.pc \in {"register", "attached", "detach"} => cn.replayed <= ss[cn.session].read
    /\ cn.pc \notin {"attached", "detach"} => cn.live = <<>>
    /\ InOrder(cn.live)
    /\ cn.live # <<>> => cn.replayed <= cn.live[1]

\* What session `s` has to do with its clients.
ShellOK(s, shell, cs) ==
    /\ shell \in Shells
    /\ shell.buffered <= shell.read
    /\ Pending(shell) => shell.read > 0
    /\ \A c \in shell.clients :
          /\ cs[c].session = s /\ cs[c].pc \in {"attached", "detach"}
          /\ cs[c].live # <<>> => cs[c].live[Len(cs[c].live)] = LastSent(shell)
    /\ \A c, d \in shell.clients : c = d

Terminals ==
    /\ conn \in [Conns -> Handlers]
    /\ session \in [Sessions -> Shells]
    /\ \A c \in Conns : ConnOK(conn[c], session)
    /\ \A s \in Sessions : ShellOK(s, session[s], conn)
    /\ AttachedIsClient

\* The table, the cleaner and the agent itself.
Table ==
    /\ sessions \subseteq Sessions
    /\ cleaner \in [pc: {"wait", "scan", "clean"}, left: SUBSET Sessions,
                    at: Sessions \cup {None}]
    /\ cleaner.pc = "clean" => cleaner.at \in Sessions
    /\ up \in BOOLEAN

TInv == Terminals /\ Table

-----------------------------------------------------------------------------
\* No terminal is there at first.
LEMMA TInvInit == Init => TInv
<1> SUFFICES ASSUME Init
             PROVE  TInv
  OBVIOUS
<1>1. NewConn \in Handlers /\ ConnOK(NewConn, session)
  <2>1. NewConn \in Handlers
    BY DEF NewConn, Handlers
  <2>2. QED
    BY <2>1 DEF NewConn, ConnOK, HandlerPcs, SessionPcs, InOrder
<1>2. NoShell \in Shells
  BY TerminalAssumption DEF NoShell, Shells
<1>3. \A s \in Sessions : ShellOK(s, NoShell, conn)
  BY <1>2 DEF NoShell, ShellOK, Pending
<1>4. AttachedIsClient
  BY DEF Init, AttachedIsClient, Attached, NewConn
<1>5. cleaner \in [pc: {"wait", "scan", "clean"}, left: SUBSET Sessions,
                   at: Sessions \cup {None}] /\ cleaner.pc # "clean"
  BY DEF Init, Waiting
<1>6. QED
  BY <1>1, <1>2, <1>3, <1>4, <1>5 DEF Init, TInv, Terminals, Table

-----------------------------------------------------------------------------
\* A step of a goroutine of session `s` that concerns no client.
LEMMA ShellKeeps ==
    ASSUME Terminals, NEW s \in Sessions, NEW new \in Shells,
           session' = [session EXCEPT ![s] = new],
           new.server = session[s].server, new.clients = session[s].clients,
           new.read = session[s].read, Pending(new) <=> Pending(session[s]),
           new.buffered <= new.read,
           UNCHANGED conn
    PROVE  Terminals'
<1>1. session \in [Sessions -> Shells] /\ conn \in [Conns -> Handlers]
  BY DEF Terminals
<1>2. session' \in [Sessions -> Shells] /\ session'[s] = new
  BY <1>1
<1>3. ASSUME NEW q \in Sessions
      PROVE  /\ session'[q].server = session[q].server
             /\ session'[q].clients = session[q].clients
             /\ session'[q].read = session[q].read
             /\ LastSent(session'[q]) = LastSent(session[q])
             /\ Pending(session'[q]) <=> Pending(session[q])
             /\ session'[q].buffered <= session'[q].read
             /\ session'[q] \in Shells
  <2>1. CASE q = s
    BY <1>2, <2>1 DEF LastSent
  <2>2. CASE q # s
    BY <1>1, <2>2 DEF Terminals, ShellOK
  <2>3. QED
    BY <2>1, <2>2
<1>4. ASSUME NEW c \in Conns
      PROVE  ConnOK(conn'[c], session')
  <2>1. ConnOK(conn[c], session)
    BY DEF Terminals
  <2>2. conn[c].pc \in SessionPcs => conn[c].session \in Sessions
    BY <2>1 DEF ConnOK
  <2>3. QED
    BY <1>3, <2>1, <2>2 DEF ConnOK, SessionPcs
<1>5. ASSUME NEW q \in Sessions
      PROVE  ShellOK(q, session'[q], conn')
  BY <1>3 DEF Terminals, ShellOK
<1>6. AttachedIsClient'
  <2>1. ASSUME NEW c \in Conns, Attached(c)
        PROVE  c \in session'[conn[c].session].clients
    <3>1. conn[c].session \in Sessions /\ c \in session[conn[c].session].clients
      BY <2>1 DEF Terminals, ConnOK, SessionPcs, AttachedIsClient, Attached
    <3>2. QED
      BY <1>3, <3>1
  <2>2. QED
    BY <2>1 DEF AttachedIsClient, Attached
<1>7. QED
  BY <1>1, <1>2, <1>4, <1>5, <1>6 DEF Terminals

\* A step of a handler that concerns no session.
LEMMA ConnKeeps ==
    ASSUME Terminals, NEW c \in Conns, NEW new \in Handlers, ConnOK(new, session),
           conn' = [conn EXCEPT ![c] = new],
           \A s \in Sessions : c \in session[s].clients =>
              /\ new.session = s /\ new.pc \in {"attached", "detach"}
              /\ new.live = conn[c].live,
           new.pc # "attached" \/ ~new.open,
           UNCHANGED session
    PROVE  Terminals'
<1>1. session \in [Sessions -> Shells] /\ conn \in [Conns -> Handlers]
  BY DEF Terminals
<1>2. /\ conn' \in [Conns -> Handlers] /\ conn'[c] = new
      /\ \A d \in Conns \ {c} : conn'[d] = conn[d]
  BY <1>1
<1>3. ASSUME NEW d \in Conns
      PROVE  ConnOK(conn'[d], session')
  BY <1>2 DEF Terminals
<1>4. ASSUME NEW s \in Sessions
      PROVE  ShellOK(s, session'[s], conn')
  <2>1. ShellOK(s, session[s], conn)
    BY DEF Terminals
  <2>2. session[s].clients \subseteq Conns
    BY <1>1 DEF Shells
  <2>3. ASSUME NEW d \in session[s].clients
        PROVE  /\ conn'[d].session = s /\ conn'[d].pc \in {"attached", "detach"}
               /\ conn'[d].live = conn[d].live
    <3>1. CASE d = c
      BY <1>2, <3>1
    <3>2. CASE d # c
      BY <1>2, <2>1, <2>2, <3>2 DEF ShellOK
    <3>3. QED
      BY <3>1, <3>2
  <2>4. QED
    BY <2>1, <2>3 DEF ShellOK
<1>5. AttachedIsClient'
  BY <1>2 DEF Terminals, AttachedIsClient, Attached
<1>6. QED
  BY <1>1, <1>2, <1>3, <1>4, <1>5 DEF Terminals

-----------------------------------------------------------------------------
\* The session of a handler that has one.
LEMMA HandlersSession ==
    ASSUME Terminals, NEW c \in Conns, conn[c].pc \in SessionPcs
    PROVE  conn[c].session \in Sessions /\ session[conn[c].session] \in Shells
BY DEF Terminals, ConnOK

\* Only a handler that is attached or leaves is a client, and of its session.
LEMMA ClientsAttached ==
    ASSUME Terminals, NEW c \in Conns, NEW s \in Sessions, c \in session[s].clients
    PROVE  conn[c].session = s /\ conn[c].pc \in {"attached", "detach"}
BY DEF Terminals, ShellOK

\* A connection that is new or has been closed has nothing to do with a session.
LEMMA IdleConns ==
    ASSUME Terminals
    PROVE  /\ NewConn \in Handlers /\ ConnOK(NewConn, session)
           /\ Returned \in Handlers /\ ConnOK(Returned, session)
<1>1. NewConn \in Handlers
  BY DEF NewConn, Handlers
<1>2. Returned \in Handlers
  BY <1>1 DEF Returned, Handlers
<1>3. Returned.pc = "closed" /\ Returned.live = <<>> /\ Returned.replayed = 0
  BY DEF Returned, NewConn
<1>4. QED
  BY <1>1, <1>2, <1>3 DEF NewConn, ConnOK, HandlerPcs, SessionPcs, InOrder

\* The steps of a handler that leave the sessions alone.
LEMMA DialKeeps ==
    ASSUME Terminals, NEW c \in Conns, NEW server \in Servers,
           NEW wanted \in Sessions \cup {None}, Dial(c, server, wanted)
    PROVE  Terminals'
<1>1. PICK new \in {Returned, [NewConn EXCEPT !.pc = IF wanted = None THEN "create" ELSE "lookup",
                                              !.server = server,
                                              !.session = wanted, !.open = TRUE]} :
         conn' = [conn EXCEPT ![c] = new]
  BY DEF Dial
<1>2. new \in Handlers /\ ConnOK(new, session) /\ new.pc # "attached"
  <2>1. CASE new = Returned
    BY <2>1, IdleConns DEF Returned, NewConn
  <2>2. CASE new # Returned
    <3>1. new \in Handlers
      BY <1>1, <2>2, IdleConns DEF Handlers, HandlerPcs, NewConn
    <3>2. /\ new.pc \in {"create", "lookup"} /\ new.server = server
          /\ new.live = <<>> /\ new.replayed = 0
      BY <1>1, <2>2 DEF NewConn
    <3>3. QED
      BY <3>1, <3>2 DEF ConnOK, HandlerPcs, SessionPcs, InOrder
  <2>3. QED
    BY <2>1, <2>2
<1>3. \A s \in Sessions : c \notin session[s].clients
  BY ClientsAttached DEF Dial
<1>4. QED
  BY <1>1, <1>2, <1>3, ConnKeeps DEF Dial

\* A session is replayed only if it is of the server the connection is for.
LEMMA LookupKeeps ==
    ASSUME Terminals, NEW c \in Conns, Lookup(c), sessions \subseteq Sessions
    PROVE  Terminals'
<1> DEFINE new == [conn[c] EXCEPT !.pc = IF Usable(c) THEN "replay" ELSE "create"]
<1>1. ConnOK(conn[c], session) /\ conn[c].pc = "lookup"
  BY DEF Terminals, Lookup
<1>2. new \in Handlers
  BY <1>1 DEF ConnOK, Handlers, HandlerPcs
<1>3. ConnOK(new, session) /\ new.pc # "attached"
  BY <1>1, <1>2 DEF ConnOK, HandlerPcs, SessionPcs, Usable, Handlers
<1>4. conn' = [conn EXCEPT ![c] = new] /\ UNCHANGED session
  BY DEF Lookup
<1>5. \A s \in Sessions : c \notin session[s].clients
  BY <1>1, ClientsAttached
<1>6. QED
  BY <1>2, <1>3, <1>4, <1>5, ConnKeeps

\* What is replayed is no later than what the reader has read.
LEMMA ReplayKeeps ==
    ASSUME Terminals, NEW c \in Conns, Replay(c)
    PROVE  Terminals'
<1>1. ConnOK(conn[c], session) /\ conn[c].pc = "replay"
  BY DEF Terminals, Replay
<1> DEFINE s == conn[c].session
<1>2. s \in Sessions /\ session[s] \in Shells /\ session[s].buffered <= session[s].read
  BY <1>1, HandlersSession DEF SessionPcs, Terminals, ShellOK
<1>3. PICK last \in {session[s].buffered, session[s].read, 0} :
         conn' = [conn EXCEPT ![c].pc = "register", ![c].replayed = last]
  BY DEF Replay
<1> DEFINE new == [conn[c] EXCEPT !.pc = "register", !.replayed = last]
<1>4. last \in Nat /\ last <= session[s].read
  BY <1>2, TerminalAssumption DEF Shells
<1>5. new \in Handlers
  BY <1>1, <1>4 DEF ConnOK, Handlers, HandlerPcs
<1>6. ConnOK(new, session) /\ new.pc # "attached"
  <2>1. /\ new.pc = "register" /\ new.replayed = last /\ new.session = s
        /\ new.server = conn[c].server /\ new.live = conn[c].live
    BY <1>1 DEF ConnOK, Handlers
  <2>2. QED
    BY <1>1, <1>4, <1>5, <2>1 DEF ConnOK, HandlerPcs, SessionPcs
<1>7. conn' = [conn EXCEPT ![c] = new] /\ UNCHANGED session
  BY <1>3 DEF Replay
<1>8. \A q \in Sessions : c \notin session[q].clients
  BY <1>1, ClientsAttached
<1>9. QED
  BY <1>5, <1>6, <1>7, <1>8, ConnKeeps

\* A session that was just created is put in the table.
LEMMA PublishKeeps ==
    ASSUME Terminals, NEW c \in Conns, Publish(c)
    PROVE  Terminals'
<1> DEFINE new == [conn[c] EXCEPT !.pc = "register"]
<1>1. ConnOK(conn[c], session) /\ conn[c].pc = "publish"
  BY DEF Terminals, Publish
<1>2. new \in Handlers
  BY <1>1 DEF ConnOK, Handlers, HandlerPcs
<1>3. ConnOK(new, session) /\ new.pc # "attached"
  <2>1. session[conn[c].session].read \in Nat
    BY <1>1, HandlersSession, TerminalAssumption DEF SessionPcs, Shells
  <2>2. QED
    BY <1>1, <1>2, <2>1 DEF ConnOK, HandlerPcs, SessionPcs, Handlers
<1>4. conn' = [conn EXCEPT ![c] = new] /\ UNCHANGED session
  BY DEF Publish
<1>5. \A s \in Sessions : c \notin session[s].clients
  BY <1>1, ClientsAttached
<1>6. QED
  BY <1>2, <1>3, <1>4, <1>5, ConnKeeps

\* A handler whose connection goes away, or that starts to leave.
LEMMA LeavingKeeps ==
    ASSUME Terminals, NEW c \in Conns, NEW pc, NEW open \in BOOLEAN,
           conn' = [conn EXCEPT ![c] = [@ EXCEPT !.pc = pc, !.open = open]],
           \/ pc = conn[c].pc /\ ~open
           \/ conn[c].pc = "attached" /\ pc = "detach",
           UNCHANGED session
    PROVE  Terminals'
<1> DEFINE new == [conn[c] EXCEPT !.pc = pc, !.open = open]
<1>1. ConnOK(conn[c], session)
  BY DEF Terminals
<1>2. new \in Handlers
  BY <1>1 DEF ConnOK, Handlers, HandlerPcs
<1>3. /\ new.pc = pc /\ new.open = open /\ new.server = conn[c].server
      /\ new.session = conn[c].session /\ new.replayed = conn[c].replayed
      /\ new.live = conn[c].live
  BY <1>1 DEF ConnOK, Handlers
<1>4. ConnOK(new, session)
  BY <1>1, <1>2, <1>3 DEF ConnOK, HandlerPcs, SessionPcs
<1>5. new.pc # "attached" \/ ~new.open
  BY <1>3
<1>6. \A s \in Sessions : c \in session[s].clients =>
         /\ new.session = s /\ new.pc \in {"attached", "detach"}
         /\ new.live = conn[c].live
  BY <1>3, ClientsAttached
<1>7. conn' = [conn EXCEPT ![c] = new]
  OBVIOUS
<1> HIDE DEF new
<1>8. QED
  BY <1>2, <1>4, <1>5, <1>6, <1>7, ConnKeeps

\* Keys that reach the shell touch the time of its session.
LEMMA TypeKeeps ==
    ASSUME Terminals, NEW c \in Conns, Type(c)
    PROVE  Terminals'
<1> DEFINE s == conn[c].session
<1>1. s \in Sessions /\ session[s] \in Shells /\ ConnOK(conn[c], session)
  BY HandlersSession DEF SessionPcs, Type, Terminals
<1>2. CASE session' = [session EXCEPT ![s].idle = FALSE] /\ UNCHANGED conn
  <2> DEFINE new == [session[s] EXCEPT !.idle = FALSE]
  <2>1. /\ new \in Shells /\ new.server = session[s].server
        /\ new.clients = session[s].clients /\ new.read = session[s].read
        /\ new.reader = session[s].reader /\ new.buffered = session[s].buffered
    BY <1>1 DEF Shells
  <2>2. new.buffered <= new.read
    BY <1>1, <2>1 DEF Terminals, ShellOK
  <2>3. session' = [session EXCEPT ![s] = new]
    BY <1>2
  <2>4. Pending(new) <=> Pending(session[s])
    BY <2>1 DEF Pending
  <2> HIDE DEF new
  <2>5. QED
    BY <1>1, <1>2, <2>1, <2>2, <2>3, <2>4, ShellKeeps
<1>3. CASE conn' = [conn EXCEPT ![c].pc = "detach"] /\ UNCHANGED session
  <2>1. conn[c].open \in BOOLEAN
    BY <1>1 DEF ConnOK, Handlers
  <2>2. conn' = [conn EXCEPT ![c] = [@ EXCEPT !.pc = "detach", !.open = conn[c].open]]
    BY <1>1, <1>3 DEF ConnOK, Handlers
  <2>3. QED
    BY <1>3, <2>1, <2>2, LeavingKeeps DEF Type
<1>4. QED
  BY <1>2, <1>3 DEF Type

\* The client goes away.
LEMMA LeaveKeeps ==
    ASSUME Terminals, NEW c \in Conns, Leave(c)
    PROVE  Terminals'
<1>1. conn' = [conn EXCEPT ![c] = [@ EXCEPT !.pc = conn[c].pc, !.open = FALSE]]
  BY DEF Leave, Terminals, Handlers
<1>2. QED
  BY <1>1, LeavingKeeps DEF Leave

\* The handler notices that its connection is closed.
LEMMA HangUpKeeps ==
    ASSUME Terminals, NEW c \in Conns, HangUp(c)
    PROVE  Terminals'
<1>1. conn' = [conn EXCEPT ![c] = [@ EXCEPT !.pc = "detach", !.open = FALSE]]
  BY DEF HangUp, Terminals, Handlers
<1>2. QED
  BY <1>1, LeavingKeeps DEF HangUp


-----------------------------------------------------------------------------
\* The steps of the goroutines of a session that concern no client.
LEMMA QuietKeeps ==
    ASSUME Terminals, NEW s \in Sessions, NEW new \in Shells,
           session' = [session EXCEPT ![s] = new], UNCHANGED conn,
           new.server = session[s].server, new.clients = session[s].clients,
           new.read = session[s].read, new.buffered \in {session[s].buffered, session[s].read},
           \/ new.reader = session[s].reader
           \/ session[s].reader = "append" /\ new.reader = "lock"
           \/ session[s].reader = "lock" /\ new.reader = "send"
           \/ session[s].reader = "read" /\ new.reader = "ended"
    PROVE  Terminals'
<1>1. session[s] \in Shells /\ ShellOK(s, session[s], conn)
  BY DEF Terminals
<1>2. new.buffered <= new.read
  BY <1>1 DEF ShellOK, Shells
<1>3. Pending(new) <=> Pending(session[s])
  BY DEF Pending
<1>4. QED
  BY <1>2, <1>3, ShellKeeps

\* The reader keeps the chunk, and has it still to send.
LEMMA KeepKeeps ==
    ASSUME Terminals, NEW s \in Sessions, Keep(s)
    PROVE  Terminals'
<1> DEFINE new == [session[s] EXCEPT !.buffered = session[s].read, !.reader = "lock"]
<1>1. session[s] \in Shells
  BY DEF Terminals
<1>2. /\ new \in Shells /\ new.server = session[s].server
      /\ new.clients = session[s].clients /\ new.read = session[s].read
      /\ new.buffered = session[s].read /\ new.reader = "lock"
  BY <1>1 DEF Shells
<1>3. session' = [session EXCEPT ![s] = new]
  BY DEF Keep
<1> HIDE DEF new
<1>4. QED
  BY <1>2, <1>3, QuietKeeps DEF Keep

\* The reader takes ClientsMutex.
LEMMA LockClientsKeeps ==
    ASSUME Terminals, NEW s \in Sessions, LockClients(s)
    PROVE  Terminals'
<1> DEFINE new == [session[s] EXCEPT !.locked = TRUE, !.reader = "send"]
<1>1. session[s] \in Shells
  BY DEF Terminals
<1>2. /\ new \in Shells /\ new.server = session[s].server
      /\ new.clients = session[s].clients /\ new.read = session[s].read
      /\ new.buffered = session[s].buffered /\ new.reader = "send"
  BY <1>1 DEF Shells
<1>3. session' = [session EXCEPT ![s] = new]
  BY DEF LockClients
<1> HIDE DEF new
<1>4. QED
  BY <1>2, <1>3, QuietKeeps DEF LockClients

\* The reader ends with nothing to send.
LEMMA EndReaderKeeps ==
    ASSUME Terminals, NEW s \in Sessions, EndReader(s)
    PROVE  Terminals'
<1> DEFINE new == [session[s] EXCEPT !.reader = "ended"]
<1>1. session[s] \in Shells
  BY DEF Terminals
<1>2. /\ new \in Shells /\ new.server = session[s].server
      /\ new.clients = session[s].clients /\ new.read = session[s].read
      /\ new.buffered = session[s].buffered /\ new.reader = "ended"
  BY <1>1 DEF Shells
<1>3. session' = [session EXCEPT ![s] = new]
  BY DEF EndReader
<1> HIDE DEF new
<1>4. QED
  BY <1>2, <1>3, QuietKeeps DEF EndReader

\* The shell exits.
LEMMA ExitKeeps ==
    ASSUME Terminals, NEW s \in Sessions, Exit(s)
    PROVE  Terminals'
<1> DEFINE old == session[s]
           new == [old EXCEPT !.shell = "exited"]
<1>1. old \in Shells
  BY DEF Terminals
<1>2. /\ new \in Shells /\ new.server = old.server /\ new.clients = old.clients
      /\ new.read = old.read /\ new.buffered = old.buffered
      /\ new.reader = old.reader
  BY <1>1 DEF Shells
<1>3. session' = [session EXCEPT ![s] = new]
  BY DEF Exit
<1> HIDE DEF new
<1>4. QED
  BY <1>2, <1>3, QuietKeeps DEF Exit

\* Thirty minutes pass.
LEMMA IdleKeeps ==
    ASSUME Terminals, NEW s \in Sessions, Idle(s)
    PROVE  Terminals'
<1> DEFINE old == session[s]
           new == [old EXCEPT !.idle = TRUE]
<1>1. old \in Shells
  BY DEF Terminals
<1>2. /\ new \in Shells /\ new.server = old.server /\ new.clients = old.clients
      /\ new.read = old.read /\ new.buffered = old.buffered
      /\ new.reader = old.reader
  BY <1>1 DEF Shells
<1>3. session' = [session EXCEPT ![s] = new]
  BY DEF Idle
<1> HIDE DEF new
<1>4. QED
  BY <1>2, <1>3, QuietKeeps DEF Idle

\* The waiter takes the session out of the table.
LEMMA ForgetKeeps ==
    ASSUME Terminals, NEW s \in Sessions, Forget(s)
    PROVE  Terminals'
<1> DEFINE old == session[s]
           new == [old EXCEPT !.waiter = "ended"]
<1>1. old \in Shells
  BY DEF Terminals
<1>2. /\ new \in Shells /\ new.server = old.server /\ new.clients = old.clients
      /\ new.read = old.read /\ new.buffered = old.buffered
      /\ new.reader = old.reader
  BY <1>1 DEF Shells
<1>3. session' = [session EXCEPT ![s] = new]
  BY DEF Forget
<1> HIDE DEF new
<1>4. QED
  BY <1>2, <1>3, QuietKeeps DEF Forget

\* A panic in close(s.Done) changes nothing else.
LEMMA StutterKeeps ==
    ASSUME Terminals, UNCHANGED <<conn, session>>
    PROVE  Terminals'
BY DEF Terminals, ConnOK, ShellOK, AttachedIsClient, Attached

\* The waiter closes Done.
LEMMA EndShellKeeps ==
    ASSUME Terminals, NEW s \in Sessions, EndShell(s)
    PROVE  Terminals'
<1> DEFINE old == session[s]
           after == [old EXCEPT !.waiter = "close"]
           new == [after EXCEPT !.done = TRUE]
<1>1. old \in Shells
  BY DEF Terminals
<1>2. CASE old.done
  BY <1>2, StutterKeeps DEF EndShell, CloseDone
<1>3. CASE ~old.done
  <2>1. after \in Shells
    BY <1>1 DEF Shells
  <2>2. /\ new \in Shells /\ new.server = old.server /\ new.clients = old.clients
        /\ new.read = old.read /\ new.buffered = old.buffered
        /\ new.reader = old.reader
    BY <1>1, <2>1 DEF Shells
  <2>3. session' = [session EXCEPT ![s] = new] /\ UNCHANGED conn
    BY <1>3 DEF EndShell, CloseDone
  <2> HIDE DEF new
  <2>4. QED
    BY <1>1, <2>2, <2>3, QuietKeeps
<1>4. QED
  BY <1>2, <1>3

\* The cleaner ends a session.
LEMMA CleanKeeps ==
    ASSUME Terminals, Table, Clean
    PROVE  Terminals'
<1> DEFINE s == cleaner.at
           old == session[s]
           after == [old EXCEPT !.pty = FALSE, !.shell = "exited"]
           new == [after EXCEPT !.done = TRUE]
<1>1. s \in Sessions /\ old \in Shells
  BY DEF Terminals, Table, Clean
<1>2. CASE old.done
  BY <1>2, StutterKeeps DEF Clean, CloseDone
<1>3. CASE ~old.done
  <2>1. after \in Shells
    BY <1>1 DEF Shells
  <2>2. /\ new \in Shells /\ new.server = old.server /\ new.clients = old.clients
        /\ new.read = old.read /\ new.buffered = old.buffered
        /\ new.reader = old.reader
    BY <1>1, <2>1 DEF Shells
  <2>3. session' = [session EXCEPT ![s] = new] /\ UNCHANGED conn
    BY <1>3 DEF Clean, CloseDone
  <2> HIDE DEF new
  <2>4. QED
    BY <1>1, <2>2, <2>3, QuietKeeps
<1>4. QED
  BY <1>2, <1>3

-----------------------------------------------------------------------------
\* What a connection needs of its session survives when the session goes on.
LEMMA ConnFollows ==
    ASSUME NEW cn, NEW ss, NEW tt, ConnOK(cn, ss),
           cn.pc \in SessionPcs =>
              /\ tt[cn.session].server = ss[cn.session].server
              /\ ss[cn.session].read \in Nat /\ tt[cn.session].read \in Nat
              /\ ss[cn.session].read <= tt[cn.session].read
    PROVE  ConnOK(cn, tt)
<1>1. CASE cn.pc \in {"register", "attached", "detach"}
  <2>1. cn.replayed \in Nat
    BY DEF ConnOK, Handlers
  <2>2. cn.replayed <= tt[cn.session].read
    BY <1>1, <2>1 DEF ConnOK, SessionPcs
  <2>3. QED
    BY <1>1, <2>2 DEF ConnOK, SessionPcs
<1>2. CASE cn.pc \notin {"register", "attached", "detach"}
  BY <1>2 DEF ConnOK
<1>3. QED
  BY <1>1, <1>2

\* What a session needs of its clients survives when they are closed or stay.
LEMMA ShellFollows ==
    ASSUME NEW s, NEW shell, NEW cs, NEW ds, ShellOK(s, shell, cs),
           \A c \in shell.clients : /\ ds[c].session = cs[c].session
                                    /\ ds[c].pc = cs[c].pc
                                    /\ ds[c].live = cs[c].live
    PROVE  ShellOK(s, shell, ds)
BY DEF ShellOK

\* Closing a connection changes nothing else of it.
LEMMA ClosingFacts ==
    ASSUME Terminals, NEW closed \in SUBSET Conns, NEW d \in Conns
    PROVE  /\ Closing(closed)[d] \in Handlers
           /\ Closing(closed)[d].pc = conn[d].pc
           /\ Closing(closed)[d].session = conn[d].session
           /\ Closing(closed)[d].live = conn[d].live
           /\ Closing(closed)[d].open => conn[d].open /\ d \notin closed
           /\ ConnOK(Closing(closed)[d], session)
<1> DEFINE new == Closing(closed)[d]
<1>1. ConnOK(conn[d], session) /\ conn[d] \in Handlers
  BY DEF Terminals
<1>2. new = IF d \in closed THEN [conn[d] EXCEPT !.open = FALSE] ELSE conn[d]
  BY DEF Closing
<1>3. /\ new \in Handlers /\ new.pc = conn[d].pc /\ new.server = conn[d].server
      /\ new.session = conn[d].session /\ new.replayed = conn[d].replayed
      /\ new.live = conn[d].live
      /\ new.open => conn[d].open /\ d \notin closed
  <2>1. CASE d \in closed
    BY <1>1, <1>2, <2>1 DEF Handlers
  <2>2. CASE d \notin closed
    BY <1>1, <1>2, <2>2
  <2>3. QED
    BY <2>1, <2>2
<1> HIDE DEF new
<1>4. ConnOK(new, session)
  BY <1>1, <1>3 DEF ConnOK
<1>5. QED
  BY <1>3, <1>4 DEF new

\* A session of its own: nobody works on it yet.
LEMMA CreateKeeps ==
    ASSUME Terminals, NEW c \in Conns, Create(c)
    PROVE  Terminals'
<1>1. ConnOK(conn[c], session) /\ conn[c].pc = "create" /\ conn[c] \in Handlers
  BY DEF Terminals, Create
<1>2. \A q \in Sessions : c \notin session[q].clients
  BY <1>1, ClientsAttached
<1>3. CASE conn' = [conn EXCEPT ![c] = Returned] /\ UNCHANGED session
  <2>1. Returned.pc # "attached"
    BY DEF Returned, NewConn
  <2>2. QED
    BY <1>2, <1>3, <2>1, IdleConns, ConnKeeps
<1>4. ASSUME NEW s \in Sessions, session[s] = NoShell,
             session' = [session EXCEPT ![s] =
                           [NoShell EXCEPT !.server = conn[c].server, !.shell = "running",
                                           !.pty = TRUE, !.reader = "read",
                                           !.waiter = "wait"]],
             conn' = [conn EXCEPT ![c].pc = "publish", ![c].session = s]
      PROVE  Terminals'
  <2> DEFINE new == [NoShell EXCEPT !.server = conn[c].server, !.shell = "running",
                                    !.pty = TRUE, !.reader = "read", !.waiter = "wait"]
             cn == [conn[c] EXCEPT !.pc = "publish", !.session = s]
  <2>1. conn[c].server \in Servers
    BY <1>1 DEF ConnOK, HandlerPcs
  <2>2. /\ new \in Shells /\ new.server = conn[c].server /\ new.clients = {}
        /\ new.read = 0 /\ new.buffered = 0 /\ new.reader = "read"
    <3>1. /\ NoShell \in Shells /\ NoShell.clients = {} /\ NoShell.read = 0
          /\ NoShell.buffered = 0
      BY TerminalAssumption DEF NoShell, Shells
    <3>2. QED
      BY <2>1, <3>1 DEF Shells
  <2>3. /\ cn \in Handlers /\ cn.pc = "publish" /\ cn.session = s
        /\ cn.server = conn[c].server /\ cn.replayed = conn[c].replayed
        /\ cn.live = conn[c].live
    BY <1>1 DEF Handlers, HandlerPcs
  <2>4. session' = [session EXCEPT ![s] = new] /\ conn' = [conn EXCEPT ![c] = cn]
    BY <1>4
  <2> HIDE DEF new, cn
  <2>5. /\ conn' \in [Conns -> Handlers] /\ session' \in [Sessions -> Shells]
        /\ conn'[c] = cn /\ session'[s] = new
        /\ \A d \in Conns \ {c} : conn'[d] = conn[d]
        /\ \A q \in Sessions \ {s} : session'[q] = session[q]
    BY <2>2, <2>3, <2>4 DEF Terminals
  <2>6. \A d \in Conns : conn[d].pc \in SessionPcs => conn[d].session \in Sessions \ {s}
    <3>1. session[s].server \notin Servers
      BY <1>4, TerminalAssumption DEF NoShell
    <3>2. QED
      BY <3>1 DEF Terminals, ConnOK, SessionPcs, HandlerPcs
  <2>7. ASSUME NEW d \in Conns
        PROVE  ConnOK(conn'[d], session')
    <3>1. CASE d = c
      BY <1>1, <2>1, <2>2, <2>3, <2>5, <3>1 DEF ConnOK, SessionPcs, HandlerPcs
    <3>2. CASE d # c
      <4>1. ConnOK(conn[d], session) /\ conn'[d] = conn[d]
        BY <2>5, <3>2 DEF Terminals
      <4>2. conn[d].pc \in SessionPcs =>
              /\ session'[conn[d].session] = session[conn[d].session]
              /\ session[conn[d].session].read \in Nat
        BY <2>5, <2>6, HandlersSession, TerminalAssumption DEF Shells
      <4>3. ConnOK(conn[d], session')
        BY <4>1, <4>2, ConnFollows
      <4>4. QED
        BY <4>1, <4>3
    <3>3. QED
      BY <3>1, <3>2
  <2>8. ASSUME NEW q \in Sessions
        PROVE  ShellOK(q, session'[q], conn')
    <3>1. CASE q = s
      BY <2>2, <2>5, <3>1 DEF ShellOK, Pending
    <3>2. CASE q # s
      <4>1. ShellOK(q, session[q], conn) /\ session'[q] = session[q]
        BY <2>5, <3>2 DEF Terminals
      <4>2. \A d \in session[q].clients : d \in Conns \ {c}
        BY <1>2 DEF Terminals, Shells
      <4>3. QED
        BY <2>5, <4>1, <4>2, ShellFollows
    <3>3. QED
      BY <3>1, <3>2
  <2>9. AttachedIsClient'
    BY <2>3, <2>5, <2>6 DEF Terminals, AttachedIsClient, Attached, SessionPcs
  <2>10. QED
    BY <2>5, <2>7, <2>8, <2>9 DEF Terminals
<1>5. QED
  BY <1>3, <1>4 DEF Create

\* The reader has one chunk more, and has not sent it.
LEMMA ReadKeeps ==
    ASSUME Terminals, NEW s \in Sessions, Read(s)
    PROVE  Terminals'
<1> DEFINE old == session[s]
           new == [old EXCEPT !.read = @ + 1, !.reader = "append"]
<1>1. old \in Shells /\ ShellOK(s, old, conn) /\ old.reader = "read"
  BY DEF Terminals, Read
<1>2. old.read \in Nat /\ old.read + 1 \in 0..MaxOutput
  BY <1>1, TerminalAssumption DEF Read, Shells
<1>3. /\ new \in Shells /\ new.server = old.server /\ new.clients = old.clients
      /\ new.read = old.read + 1 /\ new.buffered = old.buffered
      /\ new.reader = "append"
  BY <1>1, <1>2 DEF Shells
<1>4. session' = [session EXCEPT ![s] = new] /\ UNCHANGED conn
  BY DEF Read
<1> HIDE DEF new
<1>5. /\ session' \in [Sessions -> Shells] /\ session'[s] = new
      /\ \A q \in Sessions \ {s} : session'[q] = session[q]
  BY <1>3, <1>4 DEF Terminals
<1>6. ASSUME NEW d \in Conns
      PROVE  ConnOK(conn'[d], session')
  <2>1. ConnOK(conn[d], session)
    BY DEF Terminals
  <2>2. ASSUME conn[d].pc \in SessionPcs
        PROVE  LET q == conn[d].session IN
               /\ session'[q].server = session[q].server
               /\ session[q].read \in Nat /\ session'[q].read \in Nat
               /\ session[q].read <= session'[q].read
    <3> DEFINE q == conn[d].session
    <3>1. q \in Sessions /\ session[q].read \in Nat
      BY <2>2, HandlersSession, TerminalAssumption DEF Shells
    <3>2. CASE q = s
      BY <1>2, <1>3, <1>5, <3>2
    <3>3. CASE q # s
      BY <1>5, <3>1, <3>3
    <3>4. QED
      BY <3>2, <3>3
  <2>3. ConnOK(conn[d], session')
    BY <2>1, <2>2, ConnFollows
  <2>4. QED
    BY <1>4, <2>3
<1>7. ASSUME NEW q \in Sessions
      PROVE  ShellOK(q, session'[q], conn')
  <2>1. CASE q = s
    <3>1. old.buffered <= new.read
      BY <1>1, <1>2, <1>3, TerminalAssumption DEF ShellOK, Shells
    <3>2. LastSent(new) = LastSent(old)
      BY <1>1, <1>2, <1>3 DEF LastSent, Pending
    <3>3. ShellOK(s, new, conn)
      BY <1>1, <1>2, <1>3, <3>1, <3>2 DEF ShellOK
    <3>4. QED
      BY <1>4, <1>5, <2>1, <3>3
  <2>2. CASE q # s
    BY <1>4, <1>5, <2>2 DEF Terminals
  <2>3. QED
    BY <2>1, <2>2
<1>8. AttachedIsClient'
  <2>1. \A q \in Sessions : session'[q].clients = session[q].clients
    BY <1>3, <1>5
  <2>2. \A d \in Conns : Attached(d) => conn[d].session \in Sessions
    BY DEF Attached, Terminals, ConnOK, SessionPcs
  <2>3. QED
    BY <1>4, <2>1, <2>2 DEF Terminals, AttachedIsClient, Attached
<1>9. QED
  BY <1>4, <1>5, <1>6, <1>7, <1>8 DEF Terminals

-----------------------------------------------------------------------------
\* A step that leaves to every session its server, what it has read and what
\* of it was sent, and changes what its clients are.
LEMMA ClientsChange ==
    ASSUME Terminals, NEW s \in Sessions, NEW new \in Shells,
           session' = [session EXCEPT ![s] = new],
           new.server = session[s].server, new.read = session[s].read,
           new.buffered = session[s].buffered,
           conn' \in [Conns -> Handlers],
           \A d \in Conns : ConnOK(conn'[d], session),
           \A q \in Sessions : ShellOK(q, session'[q], conn'),
           \A d \in Conns : Attached(d)' =>
              d \in IF conn'[d].session = s THEN new.clients
                                            ELSE session[conn'[d].session].clients
    PROVE  Terminals'
<1>1. /\ session' \in [Sessions -> Shells] /\ session'[s] = new
      /\ \A q \in Sessions \ {s} : session'[q] = session[q]
  BY DEF Terminals
<1>2. ASSUME NEW d \in Conns
      PROVE  ConnOK(conn'[d], session')
  <2>1. ASSUME conn'[d].pc \in SessionPcs
        PROVE  LET q == conn'[d].session IN
               /\ session'[q].server = session[q].server
               /\ session[q].read \in Nat /\ session'[q].read \in Nat
               /\ session[q].read <= session'[q].read
    <3>1. conn'[d].session \in Sessions
      BY <2>1 DEF ConnOK
    <3>2. \A q \in Sessions : session[q].read \in Nat
      BY TerminalAssumption DEF Terminals, Shells
    <3>3. QED
      BY <1>1, <3>1, <3>2
  <2>2. PICK cn : cn = conn'[d]
    OBVIOUS
  <2>3. QED
    BY <2>1, <2>2, ConnFollows
<1>3. AttachedIsClient'
  <2>1. ASSUME NEW d \in Conns, Attached(d)'
        PROVE  d \in session'[conn'[d].session].clients
    <3>1. conn'[d].session \in Sessions
      BY <2>1 DEF Attached, ConnOK, SessionPcs
    <3>2. QED
      BY <1>1, <2>1, <3>1
  <2>2. QED
    BY <2>1 DEF AttachedIsClient
<1>4. QED
  BY <1>1, <1>2, <1>3 DEF Terminals

\* The connection takes the place of the others.
LEMMA RegisterKeeps ==
    ASSUME Terminals, NEW c \in Conns, Register(c)
    PROVE  Terminals'
<1> DEFINE s == conn[c].session
           old == session[s]
           new == [old EXCEPT !.clients = {c}, !.idle = FALSE]
           closed == Closing(Replaced(c))
<1>1. /\ s \in Sessions /\ old \in Shells /\ conn[c].pc = "register"
      /\ ConnOK(conn[c], session) /\ conn[c].live = <<>>
  BY HandlersSession DEF SessionPcs, Register, Terminals, ConnOK
<1>2. /\ new \in Shells /\ new.server = old.server /\ new.clients = {c}
      /\ new.read = old.read /\ new.buffered = old.buffered
      /\ new.reader = old.reader
  BY <1>1 DEF Shells
<1>3. session' = [session EXCEPT ![s] = new]
  BY DEF Register
<1>4. Replaced(c) \in SUBSET Conns /\ c \notin Replaced(c)
  BY <1>1, ClientsAttached DEF Replaced, Shells
<1>5. closed \in [Conns -> Handlers] /\ closed[c] = conn[c]
  <2>1. \A d \in Conns : closed[d] \in Handlers
    BY <1>4, ClosingFacts
  <2>2. QED
    BY <1>4, <2>1 DEF Closing
<1> DEFINE cn == [conn[c] EXCEPT !.pc = "attached"]
<1>6. conn' = [closed EXCEPT ![c] = cn]
  BY <1>5 DEF Register
<1>7. /\ cn \in Handlers /\ cn.pc = "attached" /\ cn.session = s
      /\ cn.server = conn[c].server /\ cn.replayed = conn[c].replayed
      /\ cn.live = <<>>
  BY <1>1 DEF ConnOK, Handlers, HandlerPcs
<1> HIDE DEF cn
<1>8. conn' \in [Conns -> Handlers] /\ conn'[c] = cn
      /\ \A d \in Conns \ {c} : conn'[d] = closed[d]
  BY <1>5, <1>6, <1>7
<1>9. \A d \in Conns : ConnOK(conn'[d], session)
  <2>1. ConnOK(cn, session)
    BY <1>1, <1>7 DEF ConnOK, HandlerPcs, SessionPcs
  <2>2. QED
    BY <1>4, <1>8, <2>1, ClosingFacts
<1>10. ASSUME NEW q \in Sessions
       PROVE  ShellOK(q, session'[q], conn')
  <2>1. ShellOK(q, session[q], conn)
    BY DEF Terminals
  <2>2. CASE q = s
    <3>1. session'[q] = new
      BY <1>2, <1>3, <2>2 DEF Terminals
    <3>2. ShellOK(s, new, conn')
      BY <1>2, <1>7, <1>8, <2>1, <2>2 DEF ShellOK, Pending
    <3>3. QED
      BY <2>2, <3>1, <3>2
  <2>3. CASE q # s
    <3>1. session'[q] = session[q]
      BY <1>3, <2>3 DEF Terminals
    <3>2. \A d \in session[q].clients : d \in Conns \ {c}
      BY <1>1, ClientsAttached DEF Terminals, Shells
    <3>3. \A d \in session[q].clients : /\ conn'[d].session = conn[d].session
                                        /\ conn'[d].pc = conn[d].pc
                                        /\ conn'[d].live = conn[d].live
      BY <1>4, <1>8, <3>2, ClosingFacts
    <3>4. ShellOK(q, session[q], conn')
      BY <2>1, <3>3, ShellFollows
    <3>5. QED
      BY <3>1, <3>4
  <2>4. QED
    BY <2>2, <2>3
<1>11. ASSUME NEW d \in Conns, Attached(d)'
       PROVE  d \in IF conn'[d].session = s THEN new.clients
                                            ELSE session[conn'[d].session].clients
  <2>1. CASE d = c
    BY <1>2, <1>7, <1>8, <2>1
  <2>2. CASE d # c
    <3>1. conn'[d].session = conn[d].session /\ Attached(d) /\ d \notin Replaced(c)
      BY <1>4, <1>8, <1>11, <2>2, ClosingFacts DEF Attached
    <3>2. d \in session[conn[d].session].clients
      BY <3>1 DEF Terminals, AttachedIsClient
    <3>3. QED
      BY <3>1, <3>2 DEF Replaced
  <2>3. QED
    BY <2>1, <2>2
<1> HIDE DEF new
<1>12. QED
  BY <1>1, <1>2, <1>3, <1>8, <1>9, <1>10, <1>11, ClientsChange

\* The handler takes itself out of the clients, and nobody else.
LEMMA DetachKeeps ==
    ASSUME Terminals, NEW c \in Conns, Detach(c)
    PROVE  Terminals'
<1> DEFINE s == conn[c].session
           old == session[s]
           new == [old EXCEPT !.clients = Remaining(c), !.idle = FALSE]
<1>1. s \in Sessions /\ old \in Shells /\ conn[c].pc = "detach"
  BY HandlersSession DEF SessionPcs, Detach
<1>2. /\ new \in Shells /\ new.server = old.server /\ new.clients = old.clients \ {c}
      /\ new.read = old.read /\ new.buffered = old.buffered
      /\ new.reader = old.reader
  BY <1>1 DEF Shells, Remaining
<1>3. session' = [session EXCEPT ![s] = new] /\ conn' = [conn EXCEPT ![c] = Returned]
  BY DEF Detach
<1> HIDE DEF new
<1>4. /\ conn' \in [Conns -> Handlers] /\ conn'[c] = Returned
      /\ \A d \in Conns \ {c} : conn'[d] = conn[d]
  BY <1>3, IdleConns DEF Terminals
<1>5. \A d \in Conns : ConnOK(conn'[d], session)
  BY <1>4, IdleConns DEF Terminals
<1>6. ASSUME NEW q \in Sessions
      PROVE  ShellOK(q, session'[q], conn')
  <2>1. ShellOK(q, session[q], conn) /\ session[q].clients \subseteq Conns
    BY DEF Terminals, Shells
  <2>2. CASE q = s
    <3>1. session'[q] = new
      BY <1>2, <1>3, <2>2 DEF Terminals
    <3>2. \A d \in new.clients : conn'[d] = conn[d]
      BY <1>2, <1>4, <2>1, <2>2
    <3>3. ShellOK(s, new, conn)
      BY <1>2, <2>1, <2>2 DEF ShellOK, Pending, LastSent
    <3>4. ShellOK(s, new, conn')
      BY <3>2, <3>3, ShellFollows
    <3>5. QED
      BY <2>2, <3>1, <3>4
  <2>3. CASE q # s
    <3>1. session'[q] = session[q]
      BY <1>3, <2>3 DEF Terminals
    <3>2. \A d \in session[q].clients : conn'[d] = conn[d]
      BY <1>4, <2>1, <2>3, ClientsAttached
    <3>3. QED
      BY <2>1, <3>1, <3>2, ShellFollows
  <2>4. QED
    BY <2>2, <2>3
<1>7. ASSUME NEW d \in Conns, Attached(d)'
      PROVE  d \in IF conn'[d].session = s THEN new.clients
                                           ELSE session[conn'[d].session].clients
  <2>1. d # c /\ conn'[d] = conn[d]
    BY <1>4, <1>7 DEF Attached, Returned, NewConn
  <2>2. d \in session[conn[d].session].clients
    BY <1>7, <2>1 DEF Terminals, AttachedIsClient, Attached
  <2>3. QED
    BY <1>2, <2>1, <2>2
<1>8. QED
  BY <1>1, <1>2, <1>3, <1>4, <1>5, <1>6, <1>7, ClientsChange

\* The waiter closes the clients and leaves them in the set.
LEMMA CloseClientsKeeps ==
    ASSUME Terminals, NEW s \in Sessions, CloseClients(s)
    PROVE  Terminals'
<1> DEFINE old == session[s]
           new == [old EXCEPT !.waiter = "sleep"]
<1>1. old \in Shells /\ old.clients \in SUBSET Conns
  BY DEF Terminals, Shells
<1>2. /\ new \in Shells /\ new.server = old.server /\ new.clients = old.clients
      /\ new.read = old.read /\ new.buffered = old.buffered
      /\ new.reader = old.reader
  BY <1>1 DEF Shells
<1>3. session' = [session EXCEPT ![s] = new] /\ conn' = Closing(old.clients)
  BY DEF CloseClients
<1> HIDE DEF new
<1>4. conn' \in [Conns -> Handlers]
  <2>1. \A d \in Conns : conn'[d] \in Handlers
    BY <1>1, <1>3, ClosingFacts
  <2>2. QED
    BY <1>3, <2>1 DEF Closing
<1>5. \A d \in Conns : ConnOK(conn'[d], session)
  BY <1>1, <1>3, ClosingFacts
<1>6. ASSUME NEW q \in Sessions
      PROVE  ShellOK(q, session'[q], conn')
  <2>1. ShellOK(q, session[q], conn) /\ session[q].clients \subseteq Conns
    BY DEF Terminals, Shells
  <2>2. \A d \in Conns : /\ conn'[d].session = conn[d].session
                         /\ conn'[d].pc = conn[d].pc
                         /\ conn'[d].live = conn[d].live
    BY <1>1, <1>3, ClosingFacts
  <2>3. ShellOK(q, session[q], conn')
    BY <2>1, <2>2, ShellFollows
  <2>4. CASE q = s
    <3>1. session'[q] = new
      BY <1>2, <1>3, <2>4 DEF Terminals
    <3>2. QED
      BY <1>2, <2>3, <2>4, <3>1 DEF ShellOK, Pending, LastSent
  <2>5. CASE q # s
    BY <1>3, <2>3, <2>5 DEF Terminals
  <2>6. QED
    BY <2>4, <2>5
<1>7. ASSUME NEW d \in Conns, Attached(d)'
      PROVE  d \in IF conn'[d].session = s THEN new.clients
                                           ELSE session[conn'[d].session].clients
  <2>1. conn'[d].session = conn[d].session /\ Attached(d)
    BY <1>1, <1>3, <1>7, ClosingFacts DEF Attached
  <2>2. QED
    BY <1>2, <2>1 DEF Terminals, AttachedIsClient
<1>8. QED
  BY <1>1, <1>2, <1>3, <1>4, <1>5, <1>6, <1>7, ClientsChange

\* One more chunk at the end of what a client has seen.
LEMMA AppendInOrder ==
    ASSUME NEW live \in Seq(1..MaxOutput), NEW n \in 1..MaxOutput, NEW replayed \in Nat,
           InOrder(live), live # <<>> => live[Len(live)] = n - 1 /\ replayed <= live[1],
           replayed <= n
    PROVE  LET longer == Append(live, n) IN
           /\ longer \in Seq(1..MaxOutput) /\ longer # <<>>
           /\ InOrder(longer) /\ longer[Len(longer)] = n /\ replayed <= longer[1]
<1> DEFINE longer == Append(live, n)
<1>1. /\ longer \in Seq(1..MaxOutput) /\ Len(longer) = Len(live) + 1
      /\ Len(live) \in Nat /\ longer[Len(live) + 1] = n
      /\ \A i \in 1..Len(live) : longer[i] = live[i]
  OBVIOUS
<1>2. live # <<>> => Len(live) > 0
  OBVIOUS
<1>3. live = <<>> => Len(live) = 0
  OBVIOUS
<1> HIDE DEF longer
<1>4. ASSUME NEW i \in 1..Len(longer) - 1
      PROVE  longer[i + 1] = longer[i] + 1
  <2>1. CASE i = Len(live)
    <3>1. live[i] = n - 1 /\ longer[i] = live[i] /\ longer[i + 1] = n
      BY <1>1, <1>3, <2>1
    <3>2. QED
      BY <3>1, TerminalAssumption
  <2>2. CASE i # Len(live)
    <3>1. i \in 1..Len(live) - 1 /\ i + 1 \in 1..Len(live)
      BY <1>1, <2>2
    <3>2. longer[i] = live[i] /\ longer[i + 1] = live[i + 1] /\ live[i + 1] = live[i] + 1
      BY <1>1, <3>1 DEF InOrder
    <3>3. QED
      BY <3>2
  <2>3. QED
    BY <2>1, <2>2
<1>5. replayed <= longer[1]
  <2>1. CASE live = <<>>
    BY <1>1, <1>3, <2>1
  <2>2. CASE live # <<>>
    BY <1>1, <1>2, <2>2
  <2>3. QED
    BY <2>1, <2>2
<1>6. longer # <<>> /\ longer[Len(longer)] = n
  BY <1>1
<1>7. InOrder(longer)
  BY <1>4 DEF InOrder
<1>8. QED
  BY <1>1, <1>5, <1>6, <1>7 DEF longer

\* The clients get the chunk; those that cannot are closed and dropped.
LEMMA SendKeeps ==
    ASSUME Terminals, NEW s \in Sessions, Send(s)
    PROVE  Terminals'
<1> DEFINE old == session[s]
<1>1. /\ old \in Shells /\ old.clients \in SUBSET Conns /\ old.reader = "send"
      /\ ShellOK(s, old, conn)
  BY DEF Terminals, Shells, Send
<1>2. /\ old.read \in 1..MaxOutput /\ old.read \in Nat /\ LastSent(old) = old.read - 1
      /\ old.buffered <= old.read
  BY <1>1, TerminalAssumption DEF ShellOK, Pending, LastSent, Shells
<1>3. PICK failed \in SUBSET old.clients :
         /\ conn' = Sent(s, failed)
         /\ session' = [session EXCEPT ![s].clients = @ \ failed, ![s].locked = FALSE,
                                       ![s].reader = "read"]
  BY DEF Send
<1> DEFINE new == [old EXCEPT !.clients = @ \ failed, !.locked = FALSE, !.reader = "read"]
<1>4. /\ new \in Shells /\ new.server = old.server /\ new.clients = old.clients \ failed
      /\ new.read = old.read /\ new.buffered = old.buffered /\ new.reader = "read"
  BY <1>1 DEF Shells
<1>5. session' = [session EXCEPT ![s] = new]
  BY <1>3
<1> HIDE DEF new
<1>6. ASSUME NEW d \in Conns
      PROVE  conn'[d] = IF d \in failed THEN [conn[d] EXCEPT !.open = FALSE]
                        ELSE IF d \in old.clients
                          THEN [conn[d] EXCEPT !.live = Append(@, old.read)]
                        ELSE conn[d]
  BY <1>3 DEF Sent
\* A connection that gets the chunk.
<1>7. ASSUME NEW d \in old.clients \ failed
      PROVE  /\ d \in Conns
             /\ conn'[d] \in Handlers /\ conn'[d].pc = conn[d].pc
             /\ conn'[d].session = s /\ conn'[d].pc \in {"attached", "detach"}
             /\ conn'[d].live # <<>> /\ conn'[d].live[Len(conn'[d].live)] = old.read
             /\ ConnOK(conn'[d], session)
  <2>1. d \in Conns /\ conn[d] \in Handlers /\ ConnOK(conn[d], session)
    BY <1>1 DEF Terminals
  <2>2. /\ conn[d].session = s /\ conn[d].pc \in {"attached", "detach"}
        /\ conn[d].live # <<>> => conn[d].live[Len(conn[d].live)] = old.read - 1
    BY <1>1, <1>2 DEF ShellOK
  <2>3. conn[d].live \in Seq(1..MaxOutput) /\ conn[d].replayed \in Nat
    BY <2>1 DEF Handlers
  <2>4. /\ InOrder(conn[d].live) /\ conn[d].replayed <= old.read
        /\ conn[d].live # <<>> => conn[d].replayed <= conn[d].live[1]
    BY <2>1, <2>2 DEF ConnOK
  <2> DEFINE longer == Append(conn[d].live, old.read)
  <2>5. /\ longer \in Seq(1..MaxOutput) /\ longer # <<>>
        /\ InOrder(longer) /\ longer[Len(longer)] = old.read
        /\ conn[d].replayed <= longer[1]
    BY <1>2, <2>2, <2>3, <2>4, AppendInOrder
  <2> HIDE DEF longer
  <2>6. conn'[d] = [conn[d] EXCEPT !.live = longer]
    BY <1>6, <2>1 DEF longer
  <2>7. /\ conn'[d] \in Handlers /\ conn'[d].pc = conn[d].pc /\ conn'[d].live = longer
        /\ conn'[d].session = conn[d].session /\ conn'[d].server = conn[d].server
        /\ conn'[d].replayed = conn[d].replayed
    BY <2>1, <2>5, <2>6 DEF Handlers
  <2>8. ConnOK(conn'[d], session)
    BY <2>1, <2>2, <2>4, <2>5, <2>7 DEF ConnOK
  <2>9. QED
    BY <2>1, <2>2, <2>5, <2>7, <2>8
\* The others see nothing.
<1>8. ASSUME NEW d \in Conns, d \notin old.clients \ failed
      PROVE  /\ conn'[d] \in Handlers /\ conn'[d].pc = conn[d].pc
             /\ conn'[d].session = conn[d].session /\ conn'[d].live = conn[d].live
             /\ conn'[d].open => conn[d].open /\ d \notin failed
             /\ ConnOK(conn'[d], session)
  <2>1. failed \in SUBSET Conns
    BY <1>1
  <2>2. conn'[d] = Closing(failed)[d]
    BY <1>6, <1>8 DEF Closing
  <2>3. QED
    BY <2>1, <2>2, ClosingFacts
<1>9. conn' \in [Conns -> Handlers]
  <2>1. \A d \in Conns : conn'[d] \in Handlers
    BY <1>7, <1>8
  <2>2. QED
    BY <1>3, <2>1 DEF Sent
<1>10. \A d \in Conns : ConnOK(conn'[d], session)
  BY <1>7, <1>8
<1>11. ASSUME NEW q \in Sessions
       PROVE  ShellOK(q, session'[q], conn')
  <2>1. ShellOK(q, session[q], conn) /\ session[q].clients \subseteq Conns
    BY DEF Terminals, Shells
  <2>2. CASE q = s
    <3>1. session'[q] = new
      BY <1>4, <1>5, <2>2 DEF Terminals
    <3>2. LastSent(new) = old.read /\ ~Pending(new)
      BY <1>4 DEF LastSent, Pending
    <3>3. \A c, d \in new.clients : c = d
      BY <1>1, <1>4 DEF ShellOK
    <3>4. ShellOK(s, new, conn')
      BY <1>2, <1>4, <1>7, <3>2, <3>3 DEF ShellOK
    <3>5. QED
      BY <2>2, <3>1, <3>4
  <2>3. CASE q # s
    <3>1. session'[q] = session[q]
      BY <1>5, <2>3 DEF Terminals
    <3>2. \A d \in session[q].clients : d \in Conns /\ d \notin old.clients
      BY <2>1, <2>3, ClientsAttached
    <3>3. \A d \in session[q].clients : /\ conn'[d].session = conn[d].session
                                        /\ conn'[d].pc = conn[d].pc
                                        /\ conn'[d].live = conn[d].live
      BY <1>8, <3>2
    <3>4. QED
      BY <2>1, <3>1, <3>3, ShellFollows
  <2>4. QED
    BY <2>2, <2>3
<1>12. ASSUME NEW d \in Conns, Attached(d)'
       PROVE  d \in IF conn'[d].session = s THEN new.clients
                                            ELSE session[conn'[d].session].clients
  <2>1. CASE d \in old.clients \ failed
    BY <1>4, <1>7, <2>1
  <2>2. CASE d \notin old.clients \ failed
    <3>1. conn'[d].session = conn[d].session /\ Attached(d) /\ d \notin failed
      BY <1>8, <1>12, <2>2 DEF Attached
    <3>2. d \in session[conn[d].session].clients
      BY <3>1 DEF Terminals, AttachedIsClient
    <3>3. QED
      BY <1>4, <3>1, <3>2
  <2>3. QED
    BY <2>1, <2>2
<1>13. QED
  BY <1>1, <1>4, <1>5, <1>9, <1>10, <1>11, <1>12, ClientsChange

-----------------------------------------------------------------------------
\* The table holds sessions, and the cleaner ends one that it has looked at.
LEMMA TableKeeps ==
    ASSUME TInv, Next
    PROVE  Table'
<1> USE DEF TInv, Table
<1>1. ASSUME NEW c \in Conns, ClientStep(c)
      PROVE  Table'
  BY <1>1 DEF ClientStep, Dial, Type, Leave
<1>2. ASSUME NEW c \in Conns, Handle(c)
      PROVE  Table'
  <2>1. CASE Publish(c)
    <3>1. conn[c].session \in Sessions
      BY <2>1, HandlersSession DEF Publish, SessionPcs
    <3>2. QED
      BY <2>1, <3>1 DEF Publish
  <2>2. CASE Lookup(c) \/ Replay(c) \/ Create(c) \/ Register(c) \/ HangUp(c) \/ Detach(c)
    BY <2>2 DEF Lookup, Replay, Create, Register, HangUp, Detach
  <2>3. QED
    BY <1>2, <2>1, <2>2 DEF Handle
<1>3. ASSUME NEW s \in Sessions,
             Read(s) \/ ReaderStep(s) \/ Exit(s) \/ Idle(s) \/ CloseClients(s) \/ Forget(s)
      PROVE  Table'
  BY <1>3 DEF Read, ReaderStep, Keep, LockClients, Send, EndReader, Exit, Idle,
              CloseClients, Forget
<1>4. ASSUME NEW s \in Sessions, EndShell(s)
      PROVE  Table'
  BY <1>4 DEF EndShell, CloseDone
<1>5. CASE Tick
  BY <1>5 DEF Tick
<1>6. ASSUME NEW s \in Sessions, Look(s)
      PROVE  Table'
  BY <1>6 DEF Look
<1>7. CASE Clean
  BY <1>7 DEF Clean, CloseDone
<1>8. CASE Unlock
  BY <1>8 DEF Unlock, Waiting
<1>9. QED
  BY <1>1, <1>2, <1>3, <1>4, <1>5, <1>6, <1>7, <1>8
     DEF Next, Step, WaiterStep, CleanerStep

\* Every step keeps what connections and sessions owe each other.
LEMMA TerminalsKeep ==
    ASSUME TInv, Next
    PROVE  Terminals'
<1> USE DEF TInv
<1>1. ASSUME NEW c \in Conns, ClientStep(c)
      PROVE  Terminals'
  <2>1. Known \subseteq Sessions
    BY DEF Known
  <2>2. QED
    BY <1>1, <2>1, DialKeeps, TypeKeeps, LeaveKeeps DEF ClientStep
<1>2. ASSUME NEW c \in Conns, Handle(c)
      PROVE  Terminals'
  BY <1>2, LookupKeeps, ReplayKeeps, CreateKeeps, PublishKeeps, RegisterKeeps, HangUpKeeps,
     DetachKeeps DEF Handle, Table
<1>3. ASSUME NEW s \in Sessions, Read(s) \/ ReaderStep(s) \/ Exit(s) \/ WaiterStep(s) \/ Idle(s)
      PROVE  Terminals'
  BY <1>3, ReadKeeps, KeepKeeps, LockClientsKeeps, SendKeeps, EndReaderKeeps, ExitKeeps,
     EndShellKeeps, CloseClientsKeeps, ForgetKeeps, IdleKeeps DEF ReaderStep, WaiterStep
<1>4. CASE Tick \/ Unlock \/ \E s \in Sessions : Look(s)
  BY <1>4, StutterKeeps DEF Tick, Unlock, Look
<1>5. CASE Clean
  BY <1>5, CleanKeeps
<1>6. QED
  BY <1>1, <1>2, <1>3, <1>4, <1>5 DEF Next, Step, CleanerStep

\* TInv is an invariant of the terminal, fair or not.
THEOREM TerminalInvariance == Spec => []TInv
<1>1. TInv /\ [Next]_vars => TInv'
  <2>1. ASSUME TInv, Next
        PROVE  TInv'
    BY <2>1, TableKeeps, TerminalsKeep DEF TInv
  <2>2. ASSUME TInv, UNCHANGED vars
        PROVE  TInv'
    <3>1. Terminals'
      BY <2>2, StutterKeeps DEF TInv, vars
    <3>2. QED
      BY <2>2, <3>1 DEF TInv, Table, vars
  <2>3. QED
    BY <2>1, <2>2
<1>2. QED
  BY TInvInit, <1>1, PTL DEF Spec

\* Every variable keeps its type.
THEOREM TerminalTyped == Spec => []TypeOK
<1>1. TInv => TypeOK
  BY DEF TInv, Terminals, Table, TypeOK
<1>2. QED
  BY <1>1, TerminalInvariance, PTL

\* A connection that comes back to a session gets a terminal of the server it
\* asked for: Lookup checks it before the handler goes on without a lock, and
\* the server of a session never changes (SSHTerminalWebSocket).
THEOREM TerminalOwnServer == Spec => []OwnServer
<1>1. TInv => OwnServer
  BY DEF TInv, Terminals, ConnOK, SessionPcs, OwnServer
<1>2. QED
  BY <1>1, TerminalInvariance, PTL

\* An open connection that is attached is a client of its session
\* (SSHTerminalWebSocket).
THEOREM TerminalAttachedIsClient == Spec => []AttachedIsClient
<1>1. TInv => AttachedIsClient
  BY DEF TInv, Terminals
<1>2. QED
  BY <1>1, TerminalInvariance, PTL

\* One open connection is at the keyboard of a session: it is a client of it,
\* and a session has no more than one (SSHTerminalWebSocket).
THEOREM TerminalOneAtKeyboard == Spec => []OneAtKeyboard
<1>1. TInv => OneAtKeyboard
  <2> SUFFICES ASSUME TInv, NEW c \in Conns, NEW d \in Conns, Attached(c), Attached(d),
                      conn[c].session = conn[d].session
               PROVE  c = d
    BY DEF OneAtKeyboard
  <2>1. conn[c].session \in Sessions
    BY DEF TInv, Terminals, ConnOK, SessionPcs, Attached
  <2>2. c \in session[conn[c].session].clients /\ d \in session[conn[c].session].clients
    BY DEF TInv, Terminals, AttachedIsClient
  <2>3. QED
    BY <2>1, <2>2 DEF TInv, Terminals, ShellOK
<1>2. QED
  BY <1>1, TerminalInvariance, PTL

\* What a client sees never goes back or leaves a gap, and does not begin
\* before what was replayed (createTerminalSession).
THEOREM TerminalOutputInOrder == Spec => []OutputInOrder
<1>1. TInv => OutputInOrder
  BY DEF TInv, Terminals, ConnOK, InOrder, OutputInOrder
<1>2. QED
  BY <1>1, TerminalInvariance, PTL

=============================================================================
