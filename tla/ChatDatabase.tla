------------------------------ MODULE ChatDatabase -------------------------------
(*********************************************************************************)
(* ChatDatabase: the two PostgreSQL tables and the singleton's ONE libpqxx       *)
(* connection, which every client handler thread uses without a lock.            *)
(*                                                                               *)
(* A call of ExecuteQuery is two steps of its thread.  ExecuteQuery opens the    *)
(* transaction: libpqxx refuses a second transaction on a connection, the        *)
(* exception is caught and the caller gets nullopt (NULL).  Commit, Reject or    *)
(* InDoubt runs the statement, ends the transaction and returns to the caller.   *)
(* Between the two steps the other threads run.                                  *)
(*********************************************************************************)
EXTENDS AuthenticationManager, Naturals, Sequences

CONSTANTS Handlers,    \* the client handler threads
          Usernames,   \* the names clients use, registered or not
          Contents,    \* the message texts
          Apostrophe,  \* the names and texts that hold an apostrophe
          NULL         \* std::nullopt, and "no value" in general

VARIABLES users,       \* table users: a set of rows
          messages,    \* table messages: its rows in the order of sent_at
          nextUserId,  \* the sequence behind users.user_id SERIAL
          connected,   \* whether the connection to PostgreSQL is alive
          query,       \* query[h]: the statement in h's open transaction, or NULL
          results      \* results[h]: what ExecuteQuery returned to h so far, for
                       \* the request h is serving

dbVars == <<users, messages, nextUserId, connected, query, results>>

UserRows    == [user_id : Nat, username : Usernames, password_hash : Hashes,
                salt : Salts]
MessageRows == [sender_id : Nat, receiver_id : Nat, content : Contents]
\* place: the place of the row in messages, which orders the rows (sent_at).
ChatRows    == [place : Nat, username : Usernames, content : Contents]

(*********************************************************************************)
(* The statements.  One record per query string; the fields other than op are    *)
(* the values spliced into it between apostrophes.                               *)
(*********************************************************************************)
CreateUser(username, hash, salt) ==
  [op |-> "CreateUser", username |-> username, hash |-> hash, salt |-> salt]
ListUsers == [op |-> "ListUsers"]
ListMessages(sender, receiver) ==
  [op |-> "ListMessages", sender |-> sender, receiver |-> receiver]
ClearDatabase == [op |-> "ClearDatabase"]
GetPasswordHashByUsername(username) ==
  [op |-> "GetPasswordHashByUsername", username |-> username]
GetSaltByUsername(username) == [op |-> "GetSaltByUsername", username |-> username]
GetIDByUsername(username)   == [op |-> "GetIDByUsername", username |-> username]
CreateMessage(senderID, receiverID, content) ==
  [op |-> "CreateMessage", senderID |-> senderID, receiverID |-> receiverID,
   content |-> content]

NameOps == {"GetSaltByUsername", "GetPasswordHashByUsername", "GetIDByUsername"}

Queries ==
  [op : {"CreateUser"}, username : Usernames, hash : Hashes, salt : Salts]
    \union [op : {"ListUsers", "ClearDatabase"}]
    \union [op : {"ListMessages"}, sender : Usernames, receiver : Usernames]
    \union [op : NameOps, username : Usernames]
    \union [op : {"CreateMessage"}, senderID : Nat, receiverID : Nat,
            content : Contents]

\* A value with an apostrophe ends its SQL literal early: a syntax error.
WellFormed(q) == \A f \in DOMAIN q \ {"op"} : q[f] \notin Apostrophe

(*********************************************************************************)
(* What the statements do.                                                       *)
(*********************************************************************************)
Named(name) == {u \in users : u.username = name}
IDs         == {u.user_id : u \in users}
NameOf(id)  == (CHOOSE u \in users : u.user_id = id).username

\* Mutant: username is not declared UNIQUE.
NamesMayRepeat(q) ==
  q.op = "CreateMessage" => q.senderID \in IDs /\ q.receiverID \in IDs

\* Mutant: sender_id is declared without REFERENCES.
SenderUnchecked(q) ==
  /\ q.op = "CreateUser"    => Named(q.username) = {}
  /\ q.op = "CreateMessage" => q.receiverID \in IDs

\* UNIQUE (username) of table users, REFERENCES users(user_id) of table messages.
ConstraintsHold(q) ==
  /\ q.op = "CreateUser"    => Named(q.username) = {}
  /\ q.op = "CreateMessage" => q.senderID \in IDs /\ q.receiverID \in IDs

Accepted(q) == WellFormed(q) /\ ConstraintsHold(q)

Sent(i, a, b) == NameOf(messages[i].sender_id) = a /\ NameOf(messages[i].receiver_id) = b

\* Mutant: the WHERE clause has only the first of its two disjuncts.
OneDirection(i, a, b) == Sent(i, a, b)

Between(i, a, b) == Sent(i, a, b) \/ Sent(i, b, a)

\* The messages between two users in the order they were sent.
Chat(a, b) ==
  {[place    |-> i,
    username |-> NameOf(messages[i].sender_id),
    content  |-> messages[i].content] : i \in {i \in DOMAIN messages : Between(i, a, b)}}

\* The rows a statement returns; none for a statement that is not a SELECT.
Rows(q) ==
  CASE q.op = "ListUsers"         -> {u.username : u \in users}
    [] q.op = "ListMessages"      -> Chat(q.sender, q.receiver)
    [] q.op = "GetSaltByUsername" -> {u.salt : u \in Named(q.username)}
    [] q.op = "GetPasswordHashByUsername"
                                  -> {u.password_hash : u \in Named(q.username)}
    [] q.op = "GetIDByUsername"   -> {u.user_id : u \in Named(q.username)}
    [] OTHER                      -> {}

InsertUser(q) ==
  /\ q.op = "CreateUser"
  /\ users' = users \union {[user_id |-> nextUserId, username |-> q.username,
                             password_hash |-> q.hash, salt |-> q.salt]}
  /\ UNCHANGED messages

InsertMessage(q) ==
  /\ q.op = "CreateMessage"
  /\ messages' = Append(messages, [sender_id |-> q.senderID,
                                   receiver_id |-> q.receiverID,
                                   content |-> q.content])
  /\ UNCHANGED users

TruncateTables(q) ==
  /\ q.op = "ClearDatabase"
  /\ users' = {}
  /\ messages' = <<>>

Select(q) ==
  /\ q.op \in NameOps \union {"ListUsers", "ListMessages"}
  /\ UNCHANGED <<users, messages>>

Effect(q) == InsertUser(q) \/ InsertMessage(q) \/ TruncateTables(q) \/ Select(q)

\* Mutant: TRUNCATE ... RESTART IDENTITY.
RestartIdentity(q) ==
  nextUserId' = CASE q.op = "CreateUser" /\ WellFormed(q) -> nextUserId + 1
                  [] q.op = "ClearDatabase"               -> 1
                  [] OTHER                                -> nextUserId

\* An INSERT draws its SERIAL before the constraints are checked and a rollback
\* does not give it back; TRUNCATE without RESTART IDENTITY leaves it alone.
DrawSerial(q) ==
  nextUserId' = IF q.op = "CreateUser" /\ WellFormed(q)
                THEN nextUserId + 1 ELSE nextUserId

(*********************************************************************************)
(* ExecuteQuery, step by step.                                                   *)
(*********************************************************************************)
Busy == \E t \in Handlers : query[t] # NULL

\* The optional's value, or nullopt, is handed to the caller.
Return(h, rows) == results' = [results EXCEPT ![h] = Append(@, rows)]

\* Mutant: a connection that lets transactions overlap.
OpenAnyway(h, q) ==
  /\ connected
  /\ query' = [query EXCEPT ![h] = q]
  /\ UNCHANGED <<users, messages, nextUserId, connected, results>>

OpenTransaction(h, q) ==
  /\ connected
  /\ ~ Busy
  /\ query' = [query EXCEPT ![h] = q]
  /\ UNCHANGED <<users, messages, nextUserId, connected, results>>

\* Mutant: a refused call is tried again until it succeeds.
TryAgain(h) == (~ connected \/ Busy) /\ UNCHANGED dbVars

\* pqxx::work throws: another transaction is open, or the connection is broken.
RefuseTransaction(h) ==
  /\ ~ connected \/ Busy
  /\ Return(h, NULL)
  /\ UNCHANGED <<users, messages, nextUserId, connected, query>>

ExecuteQuery(h, q) == OpenTransaction(h, q) \/ RefuseTransaction(h)

EndTransaction(h, rows) ==
  /\ query' = [query EXCEPT ![h] = NULL]
  /\ Return(h, rows)
  /\ UNCHANGED connected

\* exec and commit succeed.
Commit(h) ==
  /\ query[h] # NULL
  /\ connected
  /\ Accepted(query[h])
  /\ Effect(query[h])
  /\ DrawSerial(query[h])
  /\ EndTransaction(h, Rows(query[h]))

\* exec throws: the transaction is rolled back.
Reject(h) ==
  /\ query[h] # NULL
  /\ connected
  /\ ~ Accepted(query[h])
  /\ DrawSerial(query[h])
  /\ EndTransaction(h, NULL)
  /\ UNCHANGED <<users, messages>>

\* Mutant: a broken connection is reported as an empty result.
EmptyOnLoss(h) ==
  /\ query[h] # NULL
  /\ ~ connected
  /\ EndTransaction(h, {})
  /\ UNCHANGED <<users, messages, nextUserId>>

\* The connection broke during exec or commit.  The caller gets nullopt, whether or
\* not the server had carried the transaction out.
InDoubt(h) ==
  /\ query[h] # NULL
  /\ ~ connected
  /\ \/ Accepted(query[h]) /\ Effect(query[h]) /\ DrawSerial(query[h])
     \/ UNCHANGED <<users, messages, nextUserId>>
     \/ UNCHANGED <<users, messages>> /\ DrawSerial(query[h])
  /\ EndTransaction(h, NULL)

\* PostgreSQL restarts or the network fails.  Nothing in the process reconnects.
LoseConnection ==
  /\ connected
  /\ connected' = FALSE
  /\ UNCHANGED <<users, messages, nextUserId, query, results>>

DbInit ==
  /\ users = {}
  /\ messages = <<>>
  /\ nextUserId = 1
  /\ connected = TRUE
  /\ query = [h \in Handlers |-> NULL]
  /\ results = [h \in Handlers |-> <<>>]

DbTypeOK ==
  /\ users \subseteq UserRows
  /\ messages \in Seq(MessageRows)
  /\ nextUserId \in Nat
  /\ connected \in BOOLEAN
  /\ query \in [Handlers -> Queries \union {NULL}]
  /\ DOMAIN results = Handlers
==================================================================================
