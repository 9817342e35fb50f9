------------------------------- MODULE Panel -------------------------------
(***************************************************************************)
(* The connections of the panel (SetupRouter): the metrics streams, which  *)
(* ask for no key, and the calls of the management API, which all pass the *)
(* check of the node key first.  Each call is checked on its own; what the *)
(* handler behind the check does is in ServerController.                   *)
(***************************************************************************)
EXTENDS MetricsStreams, NodeKey

VARIABLES
    secretOk,  \* API_KEY_SECRET is there and has the length of a key
    answer     \* what each call sent and what it got

vars == <<streamVars, secretOk, answer>>

Headers == Keys \cup {Missing, Garbled}
Answers == {"served", "unauthorized", "error", "dropped"}

TypeOK ==
    /\ StreamsTypeOK
    /\ secretOk \in BOOLEAN
    /\ answer \in [Conns -> [header: Headers, got: Answers \cup {"nothing"}]]

\* Without a call, the secret makes no difference.
Init ==
    /\ StreamsInit
    /\ secretOk \in IF \E c \in Conns : stream[c].kind = "call" THEN BOOLEAN ELSE {TRUE}
    /\ answer = [c \in Conns |-> [header |-> Missing, got |-> "nothing"]]

\* NodeApiKeyMiddleware for a header that decrypts to the machine id or not; the
\* file of the machine id is read last.
Checked(text, readable) ==
    CASE ~text.ok -> "unauthorized"
      [] text.ok /\ ~readable -> "error"
      [] text.ok /\ readable /\ text.text # MachineId -> "unauthorized"
      [] OTHER -> "served"

\* NodeApiKeyMiddleware and DecryptNodeKey.  A panic ends the call and its
\* connection, not the agent.
Verdict(header, readable) ==
    CASE header \in {Missing, Garbled} \/ ~secretOk -> "unauthorized"
      [] OTHER -> IF Panics(header) THEN "dropped"
                  ELSE Checked(RemovePKCS7Padding(header.data), readable)

Call(c) ==
    /\ stream[c].kind = "call"
    /\ answer[c].got = "nothing"
    /\ \E header \in Headers, readable \in BOOLEAN :
          answer' = [answer EXCEPT ![c] = [header |-> header, got |-> Verdict(header, readable)]]
    /\ UNCHANGED <<streamVars, secretOk>>

Next ==
    \/ HostStep /\ UNCHANGED <<secretOk, answer>>
    \/ \E c \in Conns : StreamStep(c) /\ UNCHANGED <<secretOk, answer>>
    \/ \E c \in Conns : Call(c)

Spec == Init /\ [][Next]_vars /\ StreamsFairness

-----------------------------------------------------------------------------
\* The panel's own key passes: it is never refused and never panics.  The
\* machine id has 32 characters, two whole blocks, so the padding is always a
\* third one (removePKCS7Padding).
OwnKeyServed ==
    \A c \in Conns :
        secretOk /\ answer[c].header = PanelKey => answer[c].got \in {"nothing", "served", "error"}

\* Only a key that stands for this node's machine id and nothing else passes,
\* whatever bytes it decrypts to (NodeApiKeyMiddleware, removePKCS7Padding).
OnlyOwnKeyServed ==
    \A c \in Conns :
        answer[c].got = "served" =>
            /\ answer[c].header \in Keys
            /\ \E p \in 1..MaxData : answer[c].header.data = MachineId \o [i \in 1..p |-> p]

\* README:98 says that a request with a malformed key is rejected with 401; a
\* key whose IV or data has no size the cipher takes panics in DecryptNodeKey
\* and the connection is dropped without an answer.
MalformedRejected ==
    \A c \in Conns :
        LET header == answer[c].header IN
        /\ answer[c].got # "nothing"
        /\ \/ header = Garbled
           \/ header \in Keys /\ (Panics(header) \/ ~RemovePKCS7Padding(header.data).ok)
        => answer[c].got = "unauthorized"

=============================================================================
