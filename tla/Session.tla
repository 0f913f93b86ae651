------------------------------- MODULE Session -------------------------------
(***************************************************************************)
(* The server's connections: the accept loop with its semaphore of         *)
(* MaxConns slots, the start of a session (SSL request, startup message,   *)
(* password, database) and the messages of the simple and the extended     *)
(* query protocol, each handled to its end before the next is read.        *)
(*                                                                         *)
(* A client opens its connection and then asks one request after another:  *)
(* the messages of a request are sent one at a time, whether or not the    *)
(* server has answered the earlier ones, and the request is over at the    *)
(* first ReadyForQuery that the client reads.  A client may vanish at any  *)
(* moment.                                                                 *)
(*                                                                         *)
(* Left out: the bytes of a message, the parameters the server reports,    *)
(* the schema a session has chosen (SET search_path answers here but       *)
(* changes nothing), and every data row but one.                           *)
(***************************************************************************)
EXTENDS Naturals, FiniteSets, Sequences, SequencesExt

CONSTANTS
  Connections, \* connections there may be at a time
  MaxConns,    \* slots of the semaphore
  Openings,    \* message sequences a client opens its connection with
  Requests,    \* message sequences a client asks later
  None         \* "nothing prepared", "no connection accepted"

ASSUME MaxConnsAssumption == MaxConns \in Nat \ {0}
ASSUME ConnectionsAssumption == IsFiniteSet(Connections)
ASSUME NoneAssumption == None \notin Connections

VARIABLES
  backlog,    \* connections the kernel has completed, oldest first
  admitting,  \* the connection the accept loop holds and has no slot for yet
  slots,      \* slots taken
  link,       \* where each connection is in its life
  prepared,   \* lastPrepared of each connection
  inbox,      \* messages under way to the server
  outbox,     \* replies under way to the client
  request,    \* the request each client is at, or was last
  sent,       \* how many of its messages it has sent
  got,        \* the replies it has read since it began
  gone        \* clients that have vanished

loop == <<backlog, admitting>>
client == <<request, sent, got, gone>>
sessionVars == <<loop, slots, link, prepared, inbox, outbox, client>>

----------------------------------------------------------------------------
(* Messages, statements and replies                                        *)

\* "rows" is any statement answered with columns, canned (checkBypass) or run.
Kinds == {"selectOne", "setPath", "system", "rows", "tag", "failing"}

ASSUME KindsAssumption == None \notin Kinds

Rows == <<"RowDescription", "DataRow", "CommandComplete">>

\* Mutant: what README.md:309 says was removed.
SystemResultReady == Rows \o <<"Ready">>

\* writeSystemResult: no ReadyForQuery, the request's own follows.
SystemResult == Rows

\* What a simple query writes for each kind of statement.
QueryResult ==
  [k \in Kinds |->
    CASE k = "selectOne" -> Rows \o <<"Ready">>
      [] k = "setPath" -> <<"RowDescription", "CommandComplete">>
      [] k = "tag" -> <<"CommandComplete">>
      [] k = "failing" -> <<"Error">>
      [] k = "system" -> SystemResult
      [] OTHER -> Rows]

\* The statements of a simple query that are run: the first error ends it.
Runs(stmts) ==
  LET failed == {i \in DOMAIN stmts : stmts[i] = "failing"}
  IN IF failed = {} THEN Len(stmts) ELSE CHOOSE i \in failed : \A j \in failed : i <= j

\* Mutant: an error goes on to the next statement.
QueryReplyGoesOn(stmts) ==
  IF stmts = <<>> THEN <<"EmptyQuery", "Ready">>
  ELSE FlattenSeq([i \in 1..Len(stmts) |-> QueryResult[stmts[i]]]) \o <<"Ready">>

QueryReply(stmts) ==
  IF stmts = <<>> THEN <<"EmptyQuery", "Ready">>
  ELSE FlattenSeq([i \in 1..Runs(stmts) |-> QueryResult[stmts[i]]]) \o <<"Ready">>

\* What Execute writes for the statement prepared last.
ExecuteReply(k) ==
  CASE k = None -> <<"Error">>
    [] k = "selectOne" -> <<"DataRow", "CommandComplete">>
    [] k \in {"setPath", "tag"} -> <<"CommandComplete">>
    [] k = "failing" -> <<"Error", "Ready">>
    [] k = "system" -> SystemResult
    [] OTHER -> Rows

DescribeReply(k) == IF k = "selectOne" THEN <<"RowDescription">> ELSE <<"NoData">>

----------------------------------------------------------------------------
(* Connections                                                                 *)

Served == {c \in Connections : link[c] \in {"startup", "password", "ready"}}

\* The client has read the ReadyForQuery of its request.
Idle(c) == got[c] # <<>> /\ Last(got[c]) = "Ready"

SessionInit ==
  /\ backlog = <<>> /\ admitting = None /\ slots = 0
  /\ link = [c \in Connections |-> "closed"]
  /\ prepared = [c \in Connections |-> None]
  /\ inbox = [c \in Connections |-> <<>>]
  /\ outbox = [c \in Connections |-> <<>>]
  /\ request = [c \in Connections |-> <<>>]
  /\ sent = [c \in Connections |-> 0]
  /\ got = [c \in Connections |-> <<>>]
  /\ gone = {}

Begin(c, r) ==
  /\ request' = [request EXCEPT ![c] = r]
  /\ sent' = [sent EXCEPT ![c] = 0]
  /\ got' = [got EXCEPT ![c] = <<>>]

Connect(c) ==
  /\ link[c] = "closed"
  /\ link' = [link EXCEPT ![c] = "backlog"]
  /\ backlog' = Append(backlog, c)
  /\ \E r \in Openings : Begin(c, r)
  /\ UNCHANGED <<admitting, slots, prepared, inbox, outbox, gone>>

Ask(c) ==
  /\ link[c] = "ready" /\ c \notin gone /\ Idle(c)
  /\ \E r \in Requests : Begin(c, r)
  /\ UNCHANGED <<loop, slots, link, prepared, inbox, outbox, gone>>

\* Bytes sent to a connection without a goroutine wait in the kernel: to the
\* server it is all one whether they were sent then or later.
Send(c) ==
  /\ c \in Served \ gone
  /\ sent[c] < Len(request[c])
  /\ inbox' = [inbox EXCEPT ![c] = Append(@, request[c][sent[c] + 1])]
  /\ sent' = [sent EXCEPT ![c] = @ + 1]
  /\ UNCHANGED <<loop, slots, link, prepared, outbox, request, got, gone>>

Receive(c) ==
  /\ outbox[c] # <<>> /\ c \notin gone /\ ~ Idle(c)
  /\ outbox' = [outbox EXCEPT ![c] = Tail(@)]
  /\ got' = [got EXCEPT ![c] = Append(@, Head(outbox[c]))]
  /\ UNCHANGED <<loop, slots, link, prepared, inbox, request, sent, gone>>

\* The client vanishes; what it has sent reaches the server or does not.
Leave(c) ==
  /\ link[c] # "closed" /\ c \notin gone
  /\ gone' = gone \cup {c}
  /\ outbox' = [outbox EXCEPT ![c] = <<>>]
  /\ \E lost \in BOOLEAN :
       inbox' = IF lost THEN [inbox EXCEPT ![c] = <<>>] ELSE inbox
  /\ UNCHANGED <<loop, slots, link, prepared, request, sent, got>>

----------------------------------------------------------------------------
(* The accept loop                                                         *)

Accept ==
  /\ admitting = None /\ backlog # <<>>
  /\ admitting' = Head(backlog)
  /\ backlog' = Tail(backlog)
  /\ link' = [link EXCEPT ![Head(backlog)] = "accepted"]
  /\ UNCHANGED <<slots, prepared, inbox, outbox, client>>

\* A slot is taken before the goroutine that serves the connection starts.
Admit ==
  /\ admitting # None
  /\ slots < MaxConns
  /\ slots' = slots + 1
  /\ link' = [link EXCEPT ![admitting] = "startup"]
  /\ prepared' = [prepared EXCEPT ![admitting] = None]
  /\ admitting' = None
  /\ UNCHANGED <<backlog, inbox, outbox, client>>

\* Mutant: the slot comes back where the message loop returns only.
CloseLate(c) ==
  /\ slots' = IF link[c] = "ready" THEN slots - 1 ELSE slots
  /\ link' = [link EXCEPT ![c] = "closed"]
  /\ inbox' = [inbox EXCEPT ![c] = <<>>]
  /\ outbox' = [outbox EXCEPT ![c] = <<>>]
  /\ Begin(c, <<>>)
  /\ gone' = gone \ {c}
  /\ UNCHANGED <<loop, prepared>>

\* handleConn returns: its defers close the connection, release the slot.
Close(c) ==
  /\ slots' = slots - 1
  /\ link' = [link EXCEPT ![c] = "closed"]
  /\ inbox' = [inbox EXCEPT ![c] = <<>>]
  /\ outbox' = [outbox EXCEPT ![c] = <<>>]
  /\ Begin(c, <<>>)
  /\ gone' = gone \ {c}
  /\ UNCHANGED <<loop, prepared>>

\* A read or a flush fails once the client has vanished.
Hangup(c) == c \in Served \cap gone /\ Close(c)

----------------------------------------------------------------------------
(* The handlers of a connection                                            *)

NextIs(c, type) == inbox[c] # <<>> /\ Head(inbox[c]).type = type
Payload(c) == Head(inbox[c]).of

\* The message is handled: its replies are flushed to the client.
Reply(c, replies) ==
  /\ inbox' = [inbox EXCEPT ![c] = Tail(@)]
  /\ outbox' = IF c \in gone THEN outbox ELSE [outbox EXCEPT ![c] = @ \o replies]
  /\ UNCHANGED <<loop, slots, client>>

RefuseSSL(c) ==
  /\ link[c] = "startup" /\ NextIs(c, "SSLRequest")
  /\ Reply(c, <<"NoSSL">>)
  /\ UNCHANGED <<link, prepared>>

Startup(c) ==
  /\ link[c] = "startup" /\ NextIs(c, "Startup")
  /\ Reply(c, <<"AuthRequest">>)
  /\ link' = [link EXCEPT ![c] = "password"]
  /\ UNCHANGED prepared

\* The right password and a database that exists.
Authenticate(c) ==
  /\ link[c] = "password" /\ NextIs(c, "Password") /\ Payload(c) = <<"good">>
  /\ Reply(c, <<"AuthOK", "Ready">>)
  /\ link' = [link EXCEPT ![c] = "ready"]
  /\ UNCHANGED prepared

\* Anything else ends the connection, after an error or without one: a wrong
\* password, a database that does not exist, another message.
Reject(c) ==
  /\ link[c] = "password" /\ inbox[c] # <<>>
  /\ ~ (NextIs(c, "Password") /\ Payload(c) = <<"good">>)
  /\ Close(c)

Handles(c, type) == link[c] = "ready" /\ NextIs(c, type)

SimpleQuery(c) ==
  /\ Handles(c, "Query")
  /\ Reply(c, QueryReply(Payload(c)))
  /\ UNCHANGED <<link, prepared>>

\* A query text that cannot be read leaves what was prepared before.
Parse(c) ==
  /\ Handles(c, "Parse")
  /\ IF Payload(c) = <<>>
     THEN Reply(c, <<"Error">>) /\ UNCHANGED prepared
     ELSE Reply(c, <<"ParseComplete">>) /\ prepared' = [prepared EXCEPT ![c] = Payload(c)[1]]
  /\ UNCHANGED link

Bind(c) ==
  /\ Handles(c, "Bind")
  /\ Reply(c, <<"BindComplete">>)
  /\ UNCHANGED <<link, prepared>>

Describe(c) ==
  /\ Handles(c, "Describe")
  /\ Reply(c, DescribeReply(prepared[c]))
  /\ UNCHANGED <<link, prepared>>

Execute(c) ==
  /\ Handles(c, "Execute")
  /\ Reply(c, ExecuteReply(prepared[c]))
  /\ UNCHANGED <<link, prepared>>

\* Mutant: Sync only flushes.
SyncSilent(c) ==
  /\ Handles(c, "Sync")
  /\ Reply(c, <<>>)
  /\ UNCHANGED <<link, prepared>>

Sync(c) ==
  /\ Handles(c, "Sync")
  /\ Reply(c, <<"Ready">>)
  /\ UNCHANGED <<link, prepared>>

Flush(c) ==
  /\ Handles(c, "Flush")
  /\ Reply(c, <<>>)
  /\ UNCHANGED <<link, prepared>>

Terminate(c) == Handles(c, "Terminate") /\ Close(c)

Unknown(c) ==
  /\ Handles(c, "Unknown")
  /\ Reply(c, <<"Error", "Ready">>)
  /\ UNCHANGED <<link, prepared>>

Serve(c) ==
  \/ RefuseSSL(c) \/ Startup(c) \/ Authenticate(c) \/ Reject(c)
  \/ SimpleQuery(c) \/ Parse(c) \/ Bind(c) \/ Describe(c) \/ Execute(c)
  \/ Sync(c) \/ Flush(c) \/ Terminate(c) \/ Unknown(c) \/ Hangup(c)

SessionNext ==
  \/ Accept \/ Admit
  \/ \E c \in Connections :
       Connect(c) \/ Ask(c) \/ Send(c) \/ Receive(c) \/ Leave(c) \/ Serve(c)

SessionSpec == SessionInit /\ [][SessionNext]_sessionVars

\* The accept loop and every connection's goroutine go on while they can; a
\* client need not do anything.
FairSessionSpec ==
  /\ SessionSpec
  /\ WF_sessionVars(Accept) /\ WF_sessionVars(Admit)
  /\ \A c \in Connections : WF_sessionVars(Serve(c))

----------------------------------------------------------------------------
(* Properties                                                              *)

Links == {"closed", "backlog", "accepted", "startup", "password", "ready"}

\* The slots taken are those of the connections being served, however each
\* session ended or will end, and never more than there are ("max
\* connections to prevent OOM", conn.go:31).
SlotsAreExact == slots = Cardinality(Served) /\ slots <= MaxConns

\* A client that has read ReadyForQuery is in step with the server: none of
\* its messages is still to be handled and no reply is still to come, so the
\* first reply to its next request is that request's own (README.md:309).
InStep ==
  \A c \in Connections : Idle(c) => inbox[c] = <<>> /\ outbox[c] = <<>>

\* When that is so: a session opens with its password last, and a request has
\* one message that answers ReadyForQuery, its last.  The code answers twice
\* to SELECT 1 by simple query and to an Execute that fails.
OpensWithPassword(r) ==
  /\ r \in Seq([type : STRING, of : Seq(STRING)])
  /\ \A i \in 1..Len(r) : r[i].type = "Password" /\ r[i].of = <<"good">> => i = Len(r)

AnswersOnce(m) ==
  m.type \in {"Query", "Sync", "Unknown", "Terminate"} /\ "selectOne" \notin Range(m.of)

Pipelined(m) ==
  m.type \in {"Parse", "Bind", "Describe", "Execute", "Flush"} /\ "failing" \notin Range(m.of)

AsksOnce(r) ==
  /\ r \in Seq([type : STRING, of : Seq(Kinds)]) /\ r # <<>>
  /\ AnswersOnce(r[Len(r)])
  /\ \A i \in 1..Len(r) - 1 : Pipelined(r[i])

Orderly == (\A r \in Openings : OpensWithPassword(r)) /\ (\A r \in Requests : AsksOnce(r))

\* How many statements of a message are carried out or refused.
Statements(m) ==
  CASE m.type = "Query" -> Runs(m.of)
    [] m.type \in {"Execute", "Unknown"} -> 1
    [] m.type = "Parse" /\ m.of = <<>> -> 1
    [] OTHER -> 0

\* The statements of a request, each by its place in its message.
Called(r) == UNION {{i} \X (1..Statements(r[i])) : i \in DOMAIN r}

\* The replies that end a statement.
Outcomes(replies) == {i \in DOMAIN replies : replies[i] \in {"CommandComplete", "Error"}}

\* When a request is over each of its statements that ran has had one
\* outcome, a completion or an error, and no other statement has had one.
OneOutcomePerStatement ==
  \A c \in Connections :
    Idle(c) =>
      Cardinality(Outcomes(got[c])) = Cardinality(Called(request[c]))

\* A request that has been sent to a connection being served is answered,
\* or the connection is closed; the client need not have read a byte.
Answered ==
  \A c \in Connections :
    c \in Served /\ request[c] # <<>> /\ sent[c] = Len(request[c])
      ~> link[c] = "closed" \/ Idle(c) \/ Contains(outbox[c], "Ready")

\* Connections keep being served below the limit: a connection waits in
\* the backlog for ever only if from some time on MaxConns others never end.
Admission ==
  []<>(Cardinality(Served) < MaxConns) =>
    \A c \in Connections : link[c] = "backlog" ~> link[c] \notin {"backlog", "accepted"}

\* Neither a connection nor a request is forgotten.
EveryoneIsServed == Answered /\ Admission
=============================================================================
