-------------------------------- MODULE Wire --------------------------------
(***************************************************************************)
(* The bytes between a client and its thread in the server.  A connection  *)
(* is two streams without boundaries: the server takes 5 bytes for a       *)
(* header, then as many as it believes the command has; the client takes   *)
(* as many as it believes the answer has.  Every byte is the triple of the *)
(* call it belongs to, its part of the frame and its place in it; a thread  *)
(* that takes the middle of one frame for the start of another is astray,  *)
(* and what it does then, depending on those bytes, is not followed.       *)
(*                                                                         *)
(* One application uses one connection after another; the threads of the   *)
(* earlier ones go on with what they were sent.  Connections may break and *)
(* calls may time out.  There is one database, which no other application  *)
(* drops (Server has the sharing).                                         *)
(***************************************************************************)
EXTENDS Naturals, SequencesExt

CONSTANTS
    MaxConnections,     \* bound: connections made
    MaxCalls,           \* bound: calls made, selections included
    Commands,           \* the commands the application uses
    Names,              \* the names it selects: some of "good", "bad", "long"
    Dims,               \* the dimensions it believes in
    Kinds,              \* its clients: "reference" (Client), "sdk" (redbox-sdk)
    CarriesOn,          \* does it use a connection after a call on it failed?
    MaxNameLen,         \* MAX_DB_NAME_LEN
    Cuts                \* bound: the bytes a sendall that times out may have sent

ASSUME WireAssumption ==
    /\ MaxConnections \in Nat
    /\ MaxCalls \in Nat
    /\ Names \subseteq {"good", "bad", "long"}
    /\ Dims \subseteq Nat \ {0}
    /\ Kinds \subseteq {"reference", "sdk"}
    /\ CarriesOn \in BOOLEAN
    /\ MaxNameLen \in Nat \ {0}
    /\ Cuts \subseteq Nat

VARIABLES
    calls,      \* every call made: connection, command, name, outcome, and
                \* got, whose bytes were taken for the answer
    current,    \* the connection in use, or 0
    ends,       \* per connection: kind, dim, closed by the client, link
    toServer,   \* bytes sent and not yet read by the server
    toClient,   \* bytes answered and not yet read by the client
    phase,      \* what the connection's thread does next
    want,       \* how many bytes it waits for
    handling,   \* the call it handles, or 0
    active,     \* the dimension of the selected database, 0 if none
    differs,    \* a selection asked for another dimension than its
    executed,   \* the calls executed, in order
    db          \* the dimension of the database, 0 if there is none

vars == <<calls, current, ends, toServer, toClient, phase, want, handling,
          active, differs, executed, db>>

Conns == 1..MaxConnections
Selections == {"SELECT_DB", "CREATE_HNSW_DB"}
WithVector == {"INSERT", "SEARCH", "UPDATE", "INSERT_AUTO", "SEARCH_N"}
AllCommands == Selections \cup WithVector \cup
    {"DELETE", "DROP_DB", "SET_PROBES", "SET_HNSW_EF", "LIST_DBS", "DB_INFO",
     "UNKNOWN"}

HeaderBytes == 5
FloatBytes == 4

(* Of SEARCH_N one result, of LIST_DBS no database, of DB_INFO a server    *)
(* without PostgreSQL.                                                     *)
ReplyBytes(k) ==
    CASE k \in {"SEARCH", "LIST_DBS"} -> 4
      [] k \in {"INSERT_AUTO", "SEARCH_N"} -> 8
      [] OTHER -> 1

(* Mutant: the client reads an automatic id like any other id. *)
ExpectedShort(k) == IF k = "INSERT_AUTO" THEN 4 ELSE ReplyBytes(k)

(* What the client reads for an answer. *)
Expected(k) == ReplyBytes(k)

Bytes(n, part, size) == [i \in 1..size |-> <<n, part, i>>]
First(s, k) == SubSeq(s, 1, k)
After(s, k) == SubSeq(s, k + 1, Len(s))

NameLength(name) == IF name = "long" THEN MaxNameLen + 1 ELSE 1

-----------------------------------------------------------------------------
(* What the client sends.                                                  *)

CallsOn(c) == {n \in DOMAIN calls: calls[n].conn = c}
Waiting(n) == n \in DOMAIN calls /\ calls[n].outcome = "waiting"
Idle == \A n \in DOMAIN calls: ~Waiting(n)
FailedOn(c) == \E n \in CallsOn(c): calls[n].outcome = "failed"
ConstructorFailed(c) ==
    \E n \in CallsOn(c): calls[n].outcome = "failed" /\ \A m \in CallsOn(c): n <= m
Gone(c) == phase[c] = "gone" \/ ends[c].link = "down"

(* The SDK's handshake sends no capacity. *)
Handshake(n, k, name, kind) ==
    Bytes(n, "name", NameLength(name)) \o Bytes(n, "dim", 4)
      \o Bytes(n, "capacity", IF kind = "sdk" THEN 0 ELSE 4)
      \o Bytes(n, "hnsw", IF k = "CREATE_HNSW_DB" THEN 3 ELSE 0)

Frame(n, k, name, c) ==
    Bytes(n, "header", HeaderBytes) \o
    (CASE k \in Selections -> Handshake(n, k, name, ends[c].kind)
       [] k \in WithVector -> Bytes(n, "vector", FloatBytes * ends[c].dim)
       [] OTHER -> <<>>)

Init ==
    /\ calls = <<>>
    /\ current = 0
    /\ ends = [c \in Conns |-> [kind |-> "none", dim |-> 0, closed |-> FALSE, link |-> "down"]]
    /\ toServer = [c \in Conns |-> <<>>]
    /\ toClient = [c \in Conns |-> <<>>]
    /\ phase = [c \in Conns |-> "none"]
    /\ want = [c \in Conns |-> 0]
    /\ handling = [c \in Conns |-> 0]
    /\ active = [c \in Conns |-> 0]
    /\ differs = [c \in Conns |-> FALSE]
    /\ executed = [c \in Conns |-> <<>>]
    /\ db = 0

serverVars == <<phase, want, handling, active, differs, executed, db>>

(* connect, accept, and a thread for the connection. *)
Connect(c) ==
    /\ current = 0
    /\ phase[c] = "none" /\ (\A b \in Conns: b < c => phase[b] # "none")
    /\ current' = c
    /\ \E kind \in Kinds, d \in Dims:
         ends' = [ends EXCEPT ![c] = [kind |-> kind, dim |-> d, closed |-> FALSE, link |-> "up"]]
    /\ phase' = [phase EXCEPT ![c] = "header"]
    /\ want' = [want EXCEPT ![c] = HeaderBytes]
    /\ UNCHANGED <<calls, toServer, toClient, handling, active, differs, executed, db>>

(* The next call.  The constructor's is a selection, and a client whose    *)
(* constructor failed is closed.  sendall may time out in the middle.      *)
NextCall(c, k, name) ==
    /\ current = c /\ Idle /\ Len(calls) < MaxCalls
    /\ CallsOn(c) = {} => k \in Selections
    /\ FailedOn(c) => (CarriesOn /\ ~ConstructorFailed(c))
    /\ (name = "none") <=> (k \notin Selections)
    /\ LET frame == Frame(Len(calls) + 1, k, name, c)
           call == [conn |-> c, cmd |-> k, name |-> name, outcome |-> "waiting", got |-> {}]
       IN  \/ /\ calls' = Append(calls, call)
              /\ toServer' = [toServer EXCEPT ![c] = IF Gone(c) THEN <<>> ELSE @ \o frame]
           \/ /\ ends[c].kind = "reference"
              /\ calls' = Append(calls, [call EXCEPT !.outcome = "failed"])
              /\ \E sent \in Cuts \cap 0..(Len(frame) - 1):
                   toServer' = [toServer EXCEPT ![c] =
                                  IF Gone(c) THEN <<>> ELSE @ \o First(frame, sent)]
    /\ UNCHANGED <<current, ends, toClient>> /\ UNCHANGED serverVars

(* The answer is there: _recv_ack, _recv_exact. *)
Receive(c) ==
    \E n \in DOMAIN calls:
      /\ Waiting(n) /\ calls[n].conn = c
      /\ LET size == Expected(calls[n].cmd)
         IN  /\ Len(toClient[c]) >= size
             /\ calls' = [calls EXCEPT ![n].outcome = "answered",
                    ![n].got = {toClient[c][i][1]: i \in 1..size}]
             /\ toClient' = [toClient EXCEPT ![c] = After(@, size)]
      /\ UNCHANGED <<current, ends, toServer>> /\ UNCHANGED serverVars

(* recv raises: some of the answer may have been taken by then. *)
CallFails(c, n) ==
    /\ Waiting(n) /\ calls[n].conn = c
    /\ Len(toClient[c]) < Expected(calls[n].cmd)
    /\ calls' = [calls EXCEPT ![n].outcome = "failed"]
    /\ \E taken \in 0..Len(toClient[c]):
         toClient' = [toClient EXCEPT ![c] = After(@, taken)]
    /\ UNCHANGED <<current, ends, toServer>> /\ UNCHANGED serverVars

Disconnected(c) == Gone(c) /\ \E n \in DOMAIN calls: CallFails(c, n)

(* 30 seconds without a byte.  The SDK has no timeout. *)
Timeout(c) ==
    ~Gone(c) /\ ends[c].kind = "reference" /\ \E n \in DOMAIN calls: CallFails(c, n)

Close(c) ==
    /\ current = c /\ Idle
    /\ current' = 0
    /\ ends' = [ends EXCEPT ![c].closed = TRUE]
    /\ toClient' = [toClient EXCEPT ![c] = <<>>]
    /\ UNCHANGED <<calls, toServer>> /\ UNCHANGED serverVars

(* The network, not the program: what was not read is lost. *)
LoseLink(c) ==
    /\ ends[c].link = "up"
    /\ ends' = [ends EXCEPT ![c].link = "down"]
    /\ toServer' = [toServer EXCEPT ![c] = <<>>]
    /\ toClient' = [toClient EXCEPT ![c] = <<>>]
    /\ UNCHANGED <<calls, current>> /\ UNCHANGED serverVars

-----------------------------------------------------------------------------
(* The thread of a connection.                                             *)

Goto(c, p, bytes) ==
    /\ phase' = [phase EXCEPT ![c] = p]
    /\ want' = [want EXCEPT ![c] = bytes]

(* The next turn of the loop: header_buffer is read anew.                  *)
ToHeader(c) ==
    /\ Goto(c, "header", HeaderBytes)
    /\ handling' = [handling EXCEPT ![c] = 0]

(* recv_all *)
Take(c) ==
    /\ Len(toServer[c]) >= want[c]
    /\ toServer' = [toServer EXCEPT ![c] = After(@, want[c])]

(* The bytes the thread waits for are those of its call from the place     *)
(* named on, no others in between.                                         *)
InPlace(c, n, from) ==
    IsPrefix(First(toServer[c], want[c]),
             After(Frame(n, calls[n].cmd, calls[n].name, c), from))

Command(c) == calls[handling[c]].cmd

(* Mutant: the vector of INSERT_AUTO is left in the stream. *)
PayloadUnread(c, k) ==
    IF k \in WithVector \ {"INSERT_AUTO"} THEN FloatBytes * active[c] ELSE 0

(* What follows the header of a command that is no selection: as many      *)
(* floats as the server's database has dimensions.                         *)
Payload(c, k) == IF k \in WithVector THEN FloatBytes * active[c] ELSE 0

(* Mutant: no check for a database. *)
ReadHeaderUnchecked(c) ==
    /\ phase[c] = "header" /\ Take(c)
    /\ LET n == toServer[c][1][1]
           k == calls[n].cmd
       IN  /\ InPlace(c, n, 0)
           /\ handling' = [handling EXCEPT ![c] = n]
           /\ IF k \in Selections THEN Goto(c, "name", NameLength(calls[n].name))
              ELSE Goto(c, "payload", Payload(c, k))
    /\ UNCHANGED <<calls, current, ends, toClient, active, differs, executed, db>>

ReadHeader(c) ==
    /\ phase[c] = "header" /\ Take(c)
    /\ LET n == toServer[c][1][1]
           k == calls[n].cmd
       IN  IF ~InPlace(c, n, 0) THEN Goto(c, "astray", 0) /\ UNCHANGED handling
           ELSE /\ handling' = [handling EXCEPT ![c] = n]
                /\ \/ k \in Selections /\ calls[n].name = "long" /\ Goto(c, "gone", 0)
                   \/ /\ k \in Selections /\ calls[n].name # "long"
                      /\ Goto(c, "name", NameLength(calls[n].name))
                   \/ k \notin Selections /\ active[c] = 0 /\ Goto(c, "gone", 0)
                   \/ k \notin Selections /\ active[c] # 0 /\ Goto(c, "payload", Payload(c, k))
    /\ UNCHANGED <<calls, current, ends, toClient, active, differs, executed, db>>

Send(c, size) ==
    toClient' = [toClient EXCEPT ![c] =
                   IF ends[c].closed THEN <<>> ELSE @ \o Bytes(handling[c], "answer", size)]

(* A name with other characters is answered 0 at once; dimension, capacity *)
(* and the rest stay in the stream.                                        *)
ReadName(c) ==
    /\ phase[c] = "name" /\ Take(c)
    /\ \/ ~InPlace(c, handling[c], HeaderBytes) /\ Goto(c, "astray", 0) /\ UNCHANGED <<toClient, handling>>
       \/ /\ InPlace(c, handling[c], HeaderBytes) /\ calls[handling[c]].name = "good"
          /\ Goto(c, "payload", IF Command(c) = "CREATE_HNSW_DB" THEN 11 ELSE 8)
          /\ UNCHANGED <<toClient, handling>>
       \/ /\ InPlace(c, handling[c], HeaderBytes) /\ calls[handling[c]].name = "bad"
          /\ ToHeader(c) /\ Send(c, 1)
    /\ UNCHANGED <<calls, current, ends, active, differs, executed, db>>

ReadPayload(c) ==
    /\ phase[c] = "payload" /\ Take(c)
    /\ LET before == HeaderBytes + (IF Command(c) \in Selections THEN NameLength("good") ELSE 0)
       IN  Goto(c, IF InPlace(c, handling[c], before) THEN "execute" ELSE "astray", 0)
    /\ UNCHANGED <<calls, current, ends, toClient, handling, active, differs, executed, db>>

(* A selection of the database: it is opened with the dimension asked for  *)
(* if it is not open, and whatever its dimension, if it is.                *)
Select(c) ==
    /\ db' = IF db = 0 THEN ends[c].dim ELSE db
    /\ active' = [active EXCEPT ![c] = db']
    /\ differs' = [differs EXCEPT ![c] = @ \/ ends[c].dim # db']

Drop(c) ==
    /\ db' = 0
    /\ active' = [active EXCEPT ![c] = 0]
    /\ UNCHANGED differs

(* The call on the engine and on the metadata store.                       *)
Execute(c) ==
    /\ phase[c] = "execute"
    /\ executed' = [executed EXCEPT ![c] = Append(@, handling[c])]
    /\ \/ Command(c) \in Selections /\ Select(c)
       \/ Command(c) = "DROP_DB" /\ Drop(c)
       \/ Command(c) \notin Selections \cup {"DROP_DB"} /\ UNCHANGED <<db, active, differs>>
    /\ Goto(c, "answer", 0)
    /\ UNCHANGED <<calls, current, ends, toServer, toClient, handling>>

(* Mutant: a drop is not answered. *)
AnswerAllButDrop(c) ==
    /\ phase[c] = "answer" /\ ends[c].link = "up"
    /\ Send(c, IF Command(c) = "DROP_DB" THEN 0 ELSE ReplyBytes(Command(c))) /\ ToHeader(c)
    /\ UNCHANGED <<calls, current, ends, toServer, active, differs, executed, db>>

Answer(c) ==
    /\ phase[c] = "answer" /\ ends[c].link = "up"
    /\ Send(c, ReplyBytes(Command(c))) /\ ToHeader(c)
    /\ UNCHANGED <<calls, current, ends, toServer, active, differs, executed, db>>

(* recv or send says that the other end is gone. *)
Hangup(c) ==
    /\ phase[c] \notin {"none", "execute", "astray", "gone"}
    /\ ends[c].closed \/ ends[c].link = "down"
    /\ (phase[c] # "answer") => (Len(toServer[c]) < want[c])
    /\ Goto(c, "gone", 0)
    /\ toServer' = [toServer EXCEPT ![c] = <<>>]
    /\ UNCHANGED <<calls, current, ends, toClient, handling, active,
                   differs, executed, db>>

(* The engine throws, and nothing was done, or the metadata store, and the *)
(* engine's part was.                                                      *)
Throws(c) ==
    /\ phase[c] \in {"execute", "answer"}
    /\ Goto(c, "gone", 0)
    /\ toServer' = [toServer EXCEPT ![c] = <<>>]
    /\ UNCHANGED <<calls, current, ends, toClient, handling, active,
                   differs, executed, db>>

ServerStep(c) ==
    ReadHeader(c) \/ ReadName(c) \/ ReadPayload(c) \/ Execute(c) \/ Answer(c) \/ Hangup(c)

ClientStep(c) == Receive(c) \/ Disconnected(c)

Next ==
    \E c \in Conns:
      \/ Connect(c)
      \/ \E k \in Commands, name \in Names \cup {"none"}: NextCall(c, k, name)
      \/ ClientStep(c)
      \/ Timeout(c)
      \/ Close(c)
      \/ LoseLink(c)
      \/ ServerStep(c)
      \/ Throws(c)

Spec == Init /\ [][Next]_vars

(* Threads run and bytes arrive.  Nobody has to call, to time out, to      *)
(* close, to throw or to lose a link.                                      *)
FairSpec == Spec /\ \A c \in Conns: WF_vars(ServerStep(c)) /\ WF_vars(ClientStep(c))

-----------------------------------------------------------------------------
(* Properties.                                                             *)

Call == [conn: Conns, cmd: Commands, name: Names \cup {"none"},
         outcome: {"waiting", "answered", "failed"}, got: SUBSET (1..MaxCalls)]

Wants == {0, HeaderBytes, NameLength("good"), 8, 11} \cup {FloatBytes * d: d \in Dims}

(* The shapes; only the last call may be waiting; a thread waits for as    *)
(* much as a part of a frame may have, and never for a payload without a   *)
(* database.                                                               *)
TypeOK ==
    /\ \A n \in DOMAIN calls: calls[n] \in Call
    /\ Len(calls) <= MaxCalls
    /\ \A n \in DOMAIN calls: Waiting(n) => n = Len(calls)
    /\ current \in Conns \cup {0}
    /\ \A c \in Conns:
         /\ phase[c] \in {"none", "header", "name", "payload", "execute", "answer", "astray", "gone"}
         /\ want[c] \in Wants
         /\ (phase[c] \in {"payload", "execute"} /\ Command(c) \notin Selections) => (active[c] # 0)
         /\ active[c] \in Dims \cup {0}
         /\ executed[c] \in Seq(1..MaxCalls)
    /\ db \in Dims \cup {0}

(* What makes the two ends of a connection part: the SDK's handshake, a    *)
(* refused name, a dimension that is not the database's, a call after one  *)
(* that failed.                                                            *)
Spoilt(c) ==
    \/ ends[c].kind = "sdk"
    \/ differs[c]
    \/ \E n \in CallsOn(c): calls[n].name = "bad"
    \/ \E m, n \in CallsOn(c): m < n /\ calls[m].outcome = "failed"

(* What was executed before a call is what was called before it.           *)
InOrder(c) ==
    \A i \in DOMAIN executed[c]:
      /\ executed[c][i] \in CallsOn(c)
      /\ \A m \in CallsOn(c):
           m < executed[c][i] <=> \E j \in 1..(i - 1): executed[c][j] = m

Executed(c, n) == \E i \in DOMAIN executed[c]: executed[c][i] = n

(* The server takes frames where the client began them, and executes what  *)
(* was called, in order, each call once, through breaks, timeouts and      *)
(* exceptions; these four causes are all that lead it astray.              *)
FramesAgree ==
    \A c \in Conns: ~Spoilt(c) =>
      phase[c] # "astray" /\ InOrder(c)

(* An answer a call accepts is the whole answer to it, and the call was    *)
(* executed.  No late answer, and no rest of an answer, is taken for it.   *)
AnswersMatch ==
    \A n \in DOMAIN calls:
      (calls[n].outcome = "answered" /\ ~Spoilt(calls[n].conn)) =>
        /\ calls[n].got = {n}
        /\ Executed(calls[n].conn, n)

(* Every call ends, without the help of a timeout, unless one of the four  *)
(* causes is there: client and server never wait for each other.           *)
CallEnds ==
    \A n \in 1..MaxCalls:
      Waiting(n) ~> (~Waiting(n) \/ \E c \in Conns: c = calls[n].conn /\ Spoilt(c))
=============================================================================
