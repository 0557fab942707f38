--------------------------- MODULE ClientHandlerProofs ---------------------------
(*********************************************************************************)
(* Proofs about the request handling, for any number of handlers, any sets of    *)
(* names, passwords, salts and texts, and any number of requests.                *)
(*********************************************************************************)
EXTENDS ClientHandlerProperties, SequenceTheorems, TLAPS

(*********************************************************************************)
(* Lemmas about the Handle... functions.                                         *)
(*********************************************************************************)
\* A digest of a password of a client, and a salt that can be drawn, is a hash.
LEMMA HashType ==
  ASSUME NEW p \in Passwords, NEW s \in Salts
  PROVE  /\ HashPassword(p, s).hash \in Hashes
         /\ HashPassword(p, s).salt \in Salts
  BY DEF HashPassword, HashPasswordWithSalt, Hashes

\* The actions there are.
LEMMA ActionType ==
  ASSUME NEW req \in Requests
  PROVE  req.action \in {"CREATE_USER", "VERIFY_USER", "SEND_MESSAGE_TO_USER",
                        "SHOW_CHAT_HISTORY_WITH_USER", "LIST_USERS", "TRUNCATE_TABLES",
                        "CHECK_CONNECTION_WITH_SERVER", "UNKNOWN"}
  BY DEF Requests

\* The results a handler holds in the middle of a request: their number and types.
HeldBy(req, res) ==
  /\ req \in Requests
  /\ res \in Seq({NULL} \union RowsOf(req.action))
  /\ Len(res) <= CallsOf(req.action)

\* The statements the calls of an action carry.
Makes(action, op) ==
  \/ action = "CREATE_USER" /\ op = "CreateUser"
  \/ action = "VERIFY_USER" /\ op \in {"GetSaltByUsername", "GetPasswordHashByUsername"}
  \/ action = "SEND_MESSAGE_TO_USER" /\ op \in {"GetIDByUsername", "CreateMessage"}
  \/ action = "SHOW_CHAT_HISTORY_WITH_USER" /\ op = "ListMessages"
  \/ action = "LIST_USERS" /\ op = "ListUsers"
  \/ action = "TRUNCATE_TABLES" /\ op = "ClearDatabase"

\* A Handle... function that calls ExecuteQuery hands it a query of the right types, and
\* has one more call to make than it has results (HandleAction and what it dispatches to).
LEMMA CallType ==
  ASSUME NEW req, NEW res, HeldBy(req, res), HandleAction(req, res).kind = "call"
  PROVE  /\ HandleAction(req, res).query \in Queries
         /\ Len(res) < CallsOf(req.action)
         /\ Makes(req.action, HandleAction(req, res).query.op)
<1> DEFINE move == HandleAction(req, res)
<1>0. Len(res) \in Nat
  BY LenProperties DEF HeldBy
<1>1. CASE req.action = "CREATE_USER"
  <2>1. req.username \in Usernames /\ req.password \in Passwords /\ req.salt \in Salts
    BY <1>1 DEF Requests, HeldBy
  <2>2. move = HandleCreateUser(req, res)
    BY <1>1 DEF HandleAction
  <2>3. res = <<>>
    BY <2>2 DEF HandleCreateUser, Reply, Success, Error
  <2>4. move = Call(CreateUser(req.username, HashPassword(req.password, req.salt).hash,
                               HashPassword(req.password, req.salt).salt))
    BY <2>2, <2>3 DEF HandleCreateUser
  <2>5. move.query \in Queries /\ Makes(req.action, move.query.op)
    BY <1>1, <2>1, <2>4, HashType DEF Call, CreateUser, Queries, Makes
  <2> QED
    BY <1>1, <2>3, <2>5 DEF CallsOf
<1>2. CASE req.action = "VERIFY_USER"
  <2>1. req.username \in Usernames
    BY <1>2 DEF Requests, HeldBy
  <2>2. move = HandleVerifyUser(req, res)
    BY <1>2 DEF HandleAction
  <2>3. Len(res) = 0 \/ Len(res) = 1
    BY <1>0, <2>2 DEF HandleVerifyUser, Reply, Success, Error
  <2>4. \/ move = Call(GetSaltByUsername(req.username))
        \/ move = Call(GetPasswordHashByUsername(req.username))
    BY <2>2, <2>3 DEF HandleVerifyUser
  <2>5. move.query \in Queries /\ Makes(req.action, move.query.op)
    BY <1>2, <2>1, <2>4
    DEF Call, GetSaltByUsername, GetPasswordHashByUsername, NameOps, Queries, Makes
  <2> QED
    BY <1>2, <2>3, <2>5 DEF CallsOf
<1>3. CASE req.action = "SEND_MESSAGE_TO_USER"
  <2>1. req.sender \in Usernames /\ req.receiver \in Usernames /\ req.content \in Contents
    BY <1>3 DEF Requests, HeldBy
  <2>2. move = HandleSendMessageToUser(req, res)
    BY <1>3 DEF HandleAction
  <2>3. Len(res) \in {0, 1, 2}
    BY <1>0, <2>2 DEF HandleSendMessageToUser, Reply, Success, Error
  <2>4. CASE Len(res) \in {0, 1}
    <3>1. \/ move = Call(GetIDByUsername(req.sender))
          \/ move = Call(GetIDByUsername(req.receiver))
      BY <2>2, <2>4 DEF HandleSendMessageToUser
    <3> QED
      BY <1>3, <2>1, <2>4, <3>1 DEF Call, GetIDByUsername, NameOps, Queries, CallsOf, Makes
  <2>5. CASE Len(res) = 2
    <3>1. /\ HasValue(res[1]) /\ HasValue(res[2])
          /\ res[1] # {} /\ res[2] # {}
          /\ move = Call(CreateMessage(FirstField(res[1]), FirstField(res[2]), req.content))
      BY <2>2, <2>5 DEF HandleSendMessageToUser, Reply, Error, Crash
    <3>2. res[1] \in {NULL} \union SUBSET Nat /\ res[2] \in {NULL} \union SUBSET Nat
      <4>1. res \in Seq({NULL} \union SUBSET Nat)
        BY <1>3 DEF RowsOf, HeldBy
      <4> QED
        <5>1. 1 \in 1 .. Len(res) /\ 2 \in 1 .. Len(res)
          BY <2>5
        <5> QED
          BY <4>1, <5>1, ElementOfSeq
    <3>3. FirstField(res[1]) \in Nat /\ FirstField(res[2]) \in Nat
      BY <3>1, <3>2 DEF FirstField, HasValue
    <3> QED
      BY <1>3, <2>1, <2>5, <3>1, <3>3 DEF Call, CreateMessage, Queries, CallsOf, Makes
  <2> QED
    BY <2>3, <2>4, <2>5
<1>4. CASE req.action = "SHOW_CHAT_HISTORY_WITH_USER"
  <2>1. req.sender \in Usernames /\ req.receiver \in Usernames
    BY <1>4 DEF Requests, HeldBy
  <2>2. move = HandleShowChatHistoryWithUser(req, res)
    BY <1>4 DEF HandleAction
  <2>3. res = <<>> /\ move = Call(ListMessages(req.sender, req.receiver))
    BY <2>2 DEF HandleShowChatHistoryWithUser, Reply, Error
  <2> QED
    BY <1>4, <2>1, <2>3 DEF Call, ListMessages, Queries, CallsOf, Makes
<1>5. CASE req.action = "LIST_USERS"
  <2>1. move = HandleListUsers(req, res)
    BY <1>5 DEF HandleAction
  <2>2. res = <<>> /\ move = Call(ListUsers)
    BY <2>1 DEF HandleListUsers, Reply, Error
  <2> QED
    BY <1>5, <2>2 DEF Call, ListUsers, Queries, CallsOf, Makes
<1>6. CASE req.action = "TRUNCATE_TABLES"
  <2>1. move = HandleTruncateTables(req, res)
    BY <1>6 DEF HandleAction
  <2>2. res = <<>> /\ move = Call(ClearDatabase)
    BY <2>1 DEF HandleTruncateTables, Reply, Success, Error
  <2> QED
    BY <1>6, <2>2 DEF Call, ClearDatabase, Queries, CallsOf, Makes
<1>7. CASE req.action \in {"CHECK_CONNECTION_WITH_SERVER", "UNKNOWN"}
  <2>1. move.kind = "reply"
    BY <1>7 DEF HandleAction, HandleCheckConnectionWithServer, Success, Reply
  <2> QED
    BY <2>1
<1>8. req.action \in {"CREATE_USER", "VERIFY_USER", "SEND_MESSAGE_TO_USER",
                      "SHOW_CHAT_HISTORY_WITH_USER", "LIST_USERS", "TRUNCATE_TABLES",
                      "CHECK_CONNECTION_WITH_SERVER", "UNKNOWN"}
  <2>1. req \in Requests
    BY DEF HeldBy
  <2> QED
    BY <2>1, ActionType
<1> QED
  BY <1>1, <1>2, <1>3, <1>4, <1>5, <1>6, <1>7, <1>8

\* The rows PostgreSQL returns to a call have the types its action counts on (Rows).
LEMMA RowsType ==
  ASSUME users \subseteq UserRows, messages \in Seq(MessageRows), TablesConsistent,
         NEW q \in Queries, NEW action, Makes(action, q.op)
  PROVE  Rows(q) \in RowsOf(action)
<1>1. CASE q.op = "ListUsers"
  <2>1. Rows(q) = {u.username : u \in users}
    BY <1>1 DEF Rows
  <2> QED
    BY <1>1, <2>1 DEF RowsOf, Makes, UserRows
<1>2. CASE q.op = "ListMessages"
  <2>1. Rows(q) = Chat(q.sender, q.receiver)
    BY <1>2 DEF Rows
  <2>2. ASSUME NEW i \in DOMAIN messages
        PROVE  [place |-> i, username |-> NameOf(messages[i].sender_id),
                content |-> messages[i].content] \in ChatRows
    <3>1. i \in Nat /\ messages[i] \in MessageRows
      BY <2>2, ElementOfSeq
    <3>2. PICK u \in users : u.user_id = messages[i].sender_id
      BY <2>2 DEF TablesConsistent, IDs
    <3>3. NameOf(messages[i].sender_id) \in Usernames
      BY <3>2 DEF NameOf, UserRows
    <3> QED
      BY <3>1, <3>3 DEF MessageRows, ChatRows
  <2>3. Chat(q.sender, q.receiver) \subseteq ChatRows
    BY <2>2 DEF Chat
  <2> QED
    BY <1>2, <2>1, <2>3 DEF RowsOf, Makes
<1>3. CASE q.op = "GetSaltByUsername"
  <2>1. Rows(q) = {u.salt : u \in Named(q.username)}
    BY <1>3 DEF Rows
  <2> QED
    BY <1>3, <2>1 DEF RowsOf, Makes, UserRows, Named
<1>4. CASE q.op = "GetPasswordHashByUsername"
  <2>1. Rows(q) = {u.password_hash : u \in Named(q.username)}
    BY <1>4 DEF Rows
  <2> QED
    BY <1>4, <2>1 DEF RowsOf, Makes, UserRows, Named
<1>5. CASE q.op = "GetIDByUsername"
  <2>1. Rows(q) = {u.user_id : u \in Named(q.username)}
    BY <1>5 DEF Rows
  <2> QED
    BY <1>5, <2>1 DEF RowsOf, Makes, UserRows, Named
<1>6. CASE q.op \in {"CreateUser", "ClearDatabase", "CreateMessage"}
  <2>1. Rows(q) = {}
    BY <1>6 DEF Rows
  <2> QED
    BY <1>6, <2>1 DEF RowsOf, Makes
<1> QED
  BY <1>1, <1>2, <1>3, <1>4, <1>5, <1>6 DEF Makes

(*********************************************************************************)
(* What a statement does to the tables.                                          *)
(*********************************************************************************)
\* The outcomes of ExecuteQuery: the statement is carried out, or at most a serial is
\* drawn for nothing.
Outcome(q) ==
  \/ Accepted(q) /\ Effect(q) /\ DrawSerial(q)
  \/ /\ UNCHANGED <<users, messages>>
     /\ nextUserId' = nextUserId \/ nextUserId' = nextUserId + 1

\* Whatever the outcome, the tables stay consistent, and a row that was not there before
\* has an id nobody has seen (InsertUser, InsertMessage, TruncateTables).
LEMMA TablesStep ==
  ASSUME TablesOK, NEW q \in Queries, Outcome(q)
  PROVE  /\ TablesOK'
         /\ nextUserId <= nextUserId'
         /\ \A u \in users' : u \in users \/ u.user_id = nextUserId
<1> USE DEF TablesOK
<1>1. CASE Accepted(q) /\ InsertUser(q) /\ DrawSerial(q)
  <2> DEFINE row == [user_id |-> nextUserId, username |-> q.username,
                     password_hash |-> q.hash, salt |-> q.salt]
  <2>1. /\ q.username \in Usernames /\ q.hash \in Hashes /\ q.salt \in Salts
    BY <1>1 DEF InsertUser, Queries, NameOps
  <2>2. row \in UserRows
    BY <2>1 DEF UserRows
  <2>3. users' = users \union {row} /\ messages' = messages
    BY <1>1 DEF InsertUser
  <2>4. nextUserId' = nextUserId + 1
    BY <1>1 DEF InsertUser, Accepted, DrawSerial
  <2>5. \A u \in users : u.username # q.username
    BY <1>1 DEF InsertUser, Accepted, ConstraintsHold, Named
  <2>6. \A u \in users' : u.user_id < nextUserId'
    BY <2>2, <2>3, <2>4 DEF UserRows
  <2>7. \A u \in users : u.user_id # row.user_id /\ u.username # row.username
    BY <2>5 DEF UserRows
  <2>8. \A u, v \in users' : u.username = v.username \/ u.user_id = v.user_id => u = v
    BY <2>3, <2>7 DEF TablesConsistent
  <2>9. \A i \in DOMAIN messages' :
          messages'[i].sender_id \in IDs' /\ messages'[i].receiver_id \in IDs'
    BY <2>3 DEF TablesConsistent, IDs
  <2> QED
    BY <2>2, <2>3, <2>4, <2>6, <2>8, <2>9 DEF TablesConsistent
<1>2. CASE Accepted(q) /\ InsertMessage(q) /\ DrawSerial(q)
  <2> DEFINE row == [sender_id |-> q.senderID, receiver_id |-> q.receiverID,
                     content |-> q.content]
  <2>1. row \in MessageRows
    BY <1>2 DEF InsertMessage, Queries, NameOps, MessageRows
  <2>2. users' = users /\ messages' = Append(messages, row) /\ nextUserId' = nextUserId
    BY <1>2 DEF InsertMessage, DrawSerial
  <2>3. row.sender_id \in IDs /\ row.receiver_id \in IDs
    BY <1>2 DEF InsertMessage, Accepted, ConstraintsHold
  <2>4. /\ messages' \in Seq(MessageRows)
        /\ \A i \in DOMAIN messages' :
             \/ messages'[i] = row
             \/ i \in DOMAIN messages /\ messages'[i] = messages[i]
    BY <2>1, <2>2, AppendProperties
  <2>5. IDs' = IDs
    BY <2>2 DEF IDs
  <2>6. ASSUME NEW i \in DOMAIN messages'
        PROVE  messages'[i].sender_id \in IDs' /\ messages'[i].receiver_id \in IDs'
    <3>1. CASE messages'[i] = row
      BY <2>3, <2>5, <3>1
    <3>2. CASE i \in DOMAIN messages /\ messages'[i] = messages[i]
      BY <2>5, <3>2 DEF TablesConsistent
    <3> QED
      BY <2>4, <3>1, <3>2
  <2> QED
    BY <2>2, <2>4, <2>6 DEF TablesConsistent
<1>3. CASE TruncateTables(q) /\ DrawSerial(q)
  <2>1. users' = {} /\ messages' = <<>> /\ nextUserId' = nextUserId
    BY <1>3 DEF TruncateTables, DrawSerial
  <2>2. messages' \in Seq(MessageRows) /\ DOMAIN messages' = {}
    BY <2>1
  <2> QED
    BY <2>1, <2>2 DEF TablesConsistent
<1>4. CASE UNCHANGED <<users, messages>> /\ (nextUserId' = nextUserId \/ nextUserId' = nextUserId + 1)
  <2>1. \A u \in users' : u.user_id < nextUserId'
    BY <1>4 DEF UserRows
  <2> QED
    BY <1>4, <2>1 DEF TablesConsistent, IDs
<1>5. ASSUME Select(q), DrawSerial(q)
      PROVE  UNCHANGED <<users, messages, nextUserId>>
  BY <1>5 DEF Select, DrawSerial, NameOps
<1> QED
  BY <1>1, <1>2, <1>3, <1>4, <1>5 DEF Outcome, Effect

(*********************************************************************************)
(* The inductive invariant, by handler.                                          *)
(*********************************************************************************)
\* The invariant implies the properties the runs check.
LEMMA Consequences ==
  ASSUME IInv
  PROVE  TypeOK /\ TablesConsistent /\ StaleIdsNeverRebound
<1>1. TypeOK
  BY Zenon DEF IInv, TablesOK, VariablesOK, HandlerOK, TypeOK, DbTypeOK
<1>2. StaleIdsNeverRebound
  BY Zenon DEF IInv, HandlerOK, StaleIdsNeverRebound
<1> QED
  BY <1>1, <1>2 DEF IInv, TablesOK

\* Nothing another thread does to the tables disturbs a handler: the ids it holds keep
\* their owner or lose it.
LEMMA Undisturbed ==
  ASSUME IInv, NEW t \in Handlers,
         nextUserId' \in Nat, nextUserId <= nextUserId',
         \A u \in users' : u \in users \/ u.user_id = nextUserId,
         phase'[t] = phase[t], request'[t] = request[t],
         results'[t] = results[t], query'[t] = query[t]
  PROVE  HandlerOK(t)'
<1>1. HandlerOK(t) /\ nextUserId \in Nat
  BY DEF IInv, TablesOK
<1>2. Move(t)' = Move(t) /\ Handling(t)' = Handling(t)
  BY DEF Move, Handling
<1>3. ResultsOK(t)'
  BY <1>1 DEF HandlerOK, ResultsOK
<1>4. LookedUp(t)' = LookedUp(t)
  BY <1>2 DEF LookedUp
<1>5. ASSUME NEW l \in LookedUp(t)', NEW id \in (results[t][l[1]])'
      PROVE  /\ id < nextUserId'
             /\ \A u \in users' : u.user_id = id => u.username = l[2]
  <2>1. /\ id < nextUserId
        /\ \A u \in users : u.user_id = id => u.username = l[2]
    BY <1>1, <1>4, <1>5 DEF HandlerOK
  <2>2. id \in Nat
    <3>1. /\ Handling(t) /\ request[t].action = "SEND_MESSAGE_TO_USER"
          /\ l[1] \in DOMAIN results[t] /\ results[t][l[1]] # NULL
      BY <1>4, <1>5 DEF LookedUp
    <3>2. results[t] \in Seq({NULL} \union SUBSET Nat)
      BY <1>1, <3>1 DEF HandlerOK, ResultsOK, RowsOf
    <3>3. results[t][l[1]] \in {NULL} \union SUBSET Nat
      BY <3>1, <3>2, ElementOfSeq
    <3> QED
      BY <1>5, <3>1, <3>3
  <2> QED
    BY <1>1, <2>1, <2>2
<1> QED
  BY <1>1, <1>2, <1>3, <1>5 DEF HandlerOK

\* In particular when the tables stay as they are.
LEMMA Untouched ==
  ASSUME IInv, NEW t \in Handlers, UNCHANGED <<users, nextUserId>>,
         phase'[t] = phase[t], request'[t] = request[t],
         results'[t] = results[t], query'[t] = query[t]
  PROVE  HandlerOK(t)'
<1>1. nextUserId \in Nat
  BY DEF IInv, TablesOK
<1> QED
  BY <1>1, Undisturbed

\* A handler that gets one more result is in order again, if the result has the right
\* type and any id in it is the one the name was looked up for.
LEMMA Answered ==
  ASSUME IInv, NEW h \in Handlers, NEW r, HeldBy(request[h], results[h]), Handling(h),
         Len(results[h]) < CallsOf(request[h].action),
         r \in {NULL} \union RowsOf(request[h].action),
         nextUserId' \in Nat, nextUserId <= nextUserId',
         \A u \in users' : u \in users \/ u.user_id = nextUserId,
         r # NULL /\ Move(h).query.op = "GetIDByUsername" =>
           \A id \in r : /\ id \in Nat
                         /\ id < nextUserId
                         /\ \A u \in users : u.user_id = id => u.username = Move(h).query.username,
         Move(h).kind = "call",
         phase'[h] = phase[h], request'[h] = request[h],
         results'[h] = Append(results[h], r), query'[h] = NULL
  PROVE  HandlerOK(h)'
<1> DEFINE res  == results[h]
           req  == request[h]
           R    == {NULL} \union RowsOf(req.action)
<1>1. req \in Requests /\ res \in Seq(R) /\ Len(res) \in Nat
  BY LenProperties DEF HeldBy
<1>2. /\ Append(res, r) \in Seq(R)
      /\ Len(Append(res, r)) = Len(res) + 1
      /\ \A k \in 1 .. Len(res) : Append(res, r)[k] = res[k]
      /\ Append(res, r)[Len(res) + 1] = r
      /\ DOMAIN Append(res, r) = 1 .. Len(res) + 1
      /\ DOMAIN res = 1 .. Len(res)
  BY <1>1, AppendProperties, LenProperties
<1>3. req # NULL /\ HandlerOK(h) /\ nextUserId \in Nat
  BY <1>1, HandlerAssumption DEF IInv, TablesOK
<1>4. ResultsOK(h)'
  <2>1. CallsOf(req.action) \in Nat
    BY DEF CallsOf
  <2>2. Len(Append(res, r)) <= CallsOf(req.action)
    BY <1>1, <1>2, <2>1
  <2> QED
    BY <1>2, <1>3, <2>2 DEF ResultsOK
<1>5. Handling(h)'
  BY DEF Handling
<1>6. ASSUME NEW l \in LookedUp(h)', NEW id \in (results[h][l[1]])'
      PROVE  /\ id < nextUserId'
             /\ \A u \in users' : u.user_id = id => u.username = l[2]
  <2>1. /\ req.action = "SEND_MESSAGE_TO_USER"
        /\ l \in {<<1, req.sender>>, <<2, req.receiver>>}
        /\ l[1] \in 1 .. Len(res) + 1
        /\ Append(res, r)[l[1]] # NULL
        /\ id \in Append(res, r)[l[1]]
    BY <1>2, <1>6 DEF LookedUp
  <2>2. /\ id \in Nat /\ id < nextUserId
        /\ \A u \in users : u.user_id = id => u.username = l[2]
    <3>1. CASE l[1] \in 1 .. Len(res)
      <4>1. Append(res, r)[l[1]] = res[l[1]]
        BY <1>2, <3>1
      <4>2. l \in LookedUp(h)
        BY <1>2, <2>1, <3>1, <4>1 DEF LookedUp
      <4>3. res \in Seq({NULL} \union SUBSET Nat)
        BY <1>1, <2>1 DEF RowsOf
      <4>4. res[l[1]] \in {NULL} \union SUBSET Nat
        BY <3>1, <4>3, ElementOfSeq
      <4> QED
        BY <1>3, <2>1, <4>1, <4>2, <4>4 DEF HandlerOK
    <3>2. CASE l[1] = Len(res) + 1
      <4>1. id \in r /\ r # NULL
        BY <1>2, <2>1, <3>2
      <4>2. Move(h).query = GetIDByUsername(l[2])
        <5>1. Move(h) = HandleSendMessageToUser(req, res)
          BY <2>1 DEF Move, HandleAction
        <5>2. CASE l = <<1, req.sender>>
          <6>1. Len(res) = 0 /\ l[2] = req.sender
            BY <1>1, <3>2, <5>2
          <6> QED
            BY <5>1, <6>1 DEF HandleSendMessageToUser, Call
        <5>3. CASE l = <<2, req.receiver>>
          <6>1. l[1] = 2
            BY <5>3
          <6>2. Len(res) = 1
            <7>1. PICK n \in Nat : n = Len(res)
              BY <1>1
            <7>2. n + 1 = 2
              BY <3>2, <6>1, <7>1
            <7>3. n = 1
              BY <7>2
            <7> QED
              BY <7>1, <7>3
          <6>3. l[2] = req.receiver
            BY <5>3
          <6> QED
            BY <5>1, <6>2, <6>3 DEF HandleSendMessageToUser, Call
        <5> QED
          BY <2>1, <5>2, <5>3
      <4> QED
        BY <4>1, <4>2 DEF GetIDByUsername
    <3> QED
      BY <1>1, <2>1, <3>1, <3>2
  <2> QED
    BY <1>3, <2>2
<1> QED
  BY <1>3, <1>4, <1>5, <1>6 DEF HandlerOK

\* A handler with no request and no transaction is in order.
LEMMA Idle ==
  ASSUME NEW t \in Handlers, phase'[t] # "handling", request'[t] = NULL,
         results'[t] = <<>>, query'[t] = NULL
  PROVE  HandlerOK(t)'
  BY DEF HandlerOK, ResultsOK, Handling, LookedUp

\* The tables are in order after a step that leaves them alone.
LEMMA TablesUnchanged ==
  ASSUME TablesOK, UNCHANGED <<users, messages, nextUserId>>
  PROVE  TablesOK'
  BY DEF TablesOK, TablesConsistent, IDs

(*********************************************************************************)
(* The initial states, and one lemma per action.                                 *)
(*********************************************************************************)
LEMMA InitInv == Init => IInv
<1> SUFFICES ASSUME Init PROVE IInv
  OBVIOUS
<1>1. TablesOK
  <2>1. messages \in Seq(MessageRows) /\ DOMAIN messages = {}
    BY DEF Init, DbInit
  <2> QED
    BY <2>1 DEF Init, DbInit, TablesOK, TablesConsistent
<1>2. VariablesOK /\ OneTransaction
  BY HandlerAssumption DEF Init, DbInit, VariablesOK, OneTransaction
<1>3. ASSUME NEW h \in Handlers PROVE HandlerOK(h)
  BY DEF Init, DbInit, HandlerOK, ResultsOK, Handling, LookedUp
<1> QED
  BY <1>1, <1>2, <1>3 DEF IInv

LEMMA AcceptInv ==
  ASSUME IInv, NEW h \in Handlers, Accept(h)
  PROVE  IInv'
<1> USE DEF Accept, dbVars
<1>1. TablesOK'
  BY TablesUnchanged DEF IInv
<1>2. VariablesOK' /\ OneTransaction'
  BY DEF IInv, VariablesOK, OneTransaction
<1>3. ASSUME NEW t \in Handlers PROVE HandlerOK(t)'
  <2>1. CASE t = h
    <3>1. request[h] = NULL /\ results[h] = <<>> /\ query[h] = NULL
      BY DEF IInv, HandlerOK, ResultsOK, Handling
    <3>2. phase'[h] = "waiting"
      BY DEF IInv, VariablesOK
    <3> QED
      BY <2>1, <3>1, <3>2, Idle
  <2>2. CASE t # h
    BY <2>2, Untouched DEF IInv, VariablesOK
  <2> QED
    BY <2>1, <2>2
<1> QED
  BY <1>1, <1>2, <1>3 DEF IInv

LEMMA ReceiveFailsInv ==
  ASSUME IInv, NEW h \in Handlers, ReceiveFails(h)
  PROVE  IInv'
<1> USE DEF ReceiveFails, dbVars
<1>1. TablesOK'
  BY TablesUnchanged DEF IInv
<1>2. VariablesOK' /\ OneTransaction'
  BY DEF IInv, VariablesOK, OneTransaction
<1>3. ASSUME NEW t \in Handlers PROVE HandlerOK(t)'
  <2>1. CASE t = h
    <3>1. request[h] = NULL /\ results[h] = <<>> /\ query[h] = NULL
      BY DEF IInv, HandlerOK, ResultsOK, Handling
    <3>2. phase'[h] = "gone"
      BY DEF IInv, VariablesOK
    <3> QED
      BY <2>1, <3>1, <3>2, Idle
  <2>2. CASE t # h
    BY <2>2, Untouched DEF IInv, VariablesOK
  <2> QED
    BY <2>1, <2>2
<1> QED
  BY <1>1, <1>2, <1>3 DEF IInv

LEMMA ReceiveRequestInv ==
  ASSUME IInv, NEW h \in Handlers, ReceiveRequest(h)
  PROVE  IInv'
<1>1. PICK r \in Requests : request' = [request EXCEPT ![h] = r]
  BY DEF ReceiveRequest
<1>2. UNCHANGED <<users, messages, nextUserId, connected, query, results, up>>
  BY DEF ReceiveRequest, dbVars
<1>3. TablesOK'
  BY <1>2, TablesUnchanged DEF IInv
<1>4. VariablesOK'
  <2>1. received' \in 0 .. MaxRequests
    BY HandlerAssumption DEF IInv, VariablesOK, ReceiveRequest
  <2>2. contended' \in [Handlers -> BOOLEAN]
    <3>1. ASSUME NEW t \in Handlers
          PROVE  (CASE t = h -> \E o \in Handlers \ {h} : Handling(o)
                    [] Handling(t) -> TRUE
                    [] OTHER -> FALSE) \in BOOLEAN
      OBVIOUS
    <3> QED
      BY <3>1 DEF ReceiveRequest
  <2>3. phase' \in [Handlers -> {"gone", "waiting", "handling"}]
    BY DEF IInv, VariablesOK, ReceiveRequest
  <2> QED
    BY <1>1, <1>2, <2>1, <2>2, <2>3 DEF IInv, VariablesOK
<1>5. OneTransaction'
  BY <1>2 DEF IInv, OneTransaction
<1>6. ASSUME NEW t \in Handlers PROVE HandlerOK(t)'
  <2>1. CASE t = h
    <3>1. results[h] = <<>> /\ query[h] = NULL
      BY DEF IInv, HandlerOK, ResultsOK, Handling, ReceiveRequest
    <3>2. phase'[h] = "handling" /\ request'[h] = r /\ r # NULL
      BY <1>1, HandlerAssumption DEF IInv, VariablesOK, ReceiveRequest
    <3>3. ResultsOK(h)'
      <4>1. CallsOf(r.action) >= 0 /\ Len(<<>>) = 0
        BY DEF CallsOf
      <4> QED
        BY <1>2, <3>1, <3>2, <4>1 DEF ResultsOK
    <3>4. LookedUp(h)' = {}
      BY <1>2, <3>1 DEF LookedUp
    <3> QED
      BY <1>2, <2>1, <3>1, <3>2, <3>3, <3>4 DEF HandlerOK, Handling
  <2>2. CASE t # h
    BY <1>1, <1>2, <2>2, Untouched DEF IInv, VariablesOK, ReceiveRequest
  <2> QED
    BY <2>1, <2>2
<1> QED
  BY <1>3, <1>4, <1>5, <1>6 DEF IInv

LEMMA CallDatabaseInv ==
  ASSUME IInv, NEW h \in Handlers, CallDatabase(h)
  PROVE  IInv'
<1> DEFINE q == Move(h).query
<1>1. /\ Handling(h) /\ query[h] = NULL /\ Move(h).kind = "call"
      /\ UNCHANGED <<phase, request, up, received, contended>>
  BY DEF CallDatabase, Running, handlerVars
<1>2. HeldBy(request[h], results[h])
  BY <1>1 DEF IInv, VariablesOK, HandlerOK, ResultsOK, HeldBy
<1>3. q \in Queries /\ Len(results[h]) < CallsOf(request[h].action)
  BY <1>1, <1>2, CallType DEF Move
<1>4. UNCHANGED <<users, messages, nextUserId, connected>>
  BY DEF CallDatabase, ExecuteQuery, OpenTransaction, RefuseTransaction
<1>5. TablesOK'
  BY <1>4, TablesUnchanged DEF IInv
<1>6. ASSUME NEW t \in Handlers, t # h PROVE HandlerOK(t)'
  <2>1. results'[t] = results[t] /\ query'[t] = query[t]
    BY <1>6 DEF CallDatabase, ExecuteQuery, OpenTransaction, RefuseTransaction, Return,
                IInv, VariablesOK
  <2> QED
    BY <1>1, <1>4, <2>1, Untouched
<1>7. CASE OpenTransaction(h, q)
  <2>1. VariablesOK'
    BY <1>1, <1>3, <1>7 DEF IInv, VariablesOK, OpenTransaction
  <2>2. OneTransaction'
    BY <1>7 DEF IInv, VariablesOK, OpenTransaction, Busy, OneTransaction
  <2>3. HandlerOK(h)'
    <3>1. results' = results /\ query'[h] = q
      BY <1>7 DEF OpenTransaction, IInv, VariablesOK
    <3>2. Move(h)' = Move(h) /\ Handling(h)' = Handling(h) /\ LookedUp(h)' = LookedUp(h)
      BY <1>1, <3>1 DEF Move, Handling, LookedUp
    <3> QED
      BY <1>1, <1>4, <3>1, <3>2 DEF IInv, HandlerOK, ResultsOK
  <2> QED
    BY <1>5, <1>6, <2>1, <2>2, <2>3 DEF IInv
<1>8. CASE RefuseTransaction(h)
  <2>1. /\ results' = [results EXCEPT ![h] = Append(@, NULL)] /\ query' = query
    BY <1>8 DEF RefuseTransaction, Return
  <2>2. VariablesOK' /\ OneTransaction'
    BY <1>1, <1>4, <2>1 DEF IInv, VariablesOK, OneTransaction
  <2>3. HandlerOK(h)'
    <3>1. results'[h] = Append(results[h], NULL)
      BY <2>1 DEF IInv, VariablesOK
    <3>2. /\ nextUserId' \in Nat /\ nextUserId <= nextUserId'
          /\ \A u \in users' : u \in users \/ u.user_id = nextUserId
          /\ query'[h] = NULL /\ phase'[h] = phase[h] /\ request'[h] = request[h]
      BY <1>1, <1>4, <2>1 DEF IInv, TablesOK
    <3> QED
      BY <1>1, <1>2, <1>3, <3>1, <3>2, Answered
  <2> QED
    BY <1>5, <1>6, <2>2, <2>3 DEF IInv
<1> QED
  BY <1>7, <1>8 DEF CallDatabase, ExecuteQuery

\* What ExecuteQuery's return does, in one formula: an outcome for the tables, the end of
\* the transaction, and nullopt or, if the statement was carried out, its rows.
LEMMA ReturnStep ==
  ASSUME NEW h \in Handlers, DatabaseReturns(h)
  PROVE  /\ query[h] # NULL
         /\ Outcome(query[h])
         /\ query' = [query EXCEPT ![h] = NULL]
         /\ \E r \in {NULL, Rows(query[h])} : results' = [results EXCEPT ![h] = Append(@, r)]
         /\ UNCHANGED <<connected, phase, request, up, received, contended>>
<1>1. CASE Commit(h)
  BY <1>1 DEF DatabaseReturns, Commit, EndTransaction, Return, Outcome, handlerVars
<1>2. CASE Reject(h)
  BY <1>2 DEF DatabaseReturns, Reject, EndTransaction, Return, Outcome, DrawSerial, handlerVars
<1>3. CASE InDoubt(h)
  BY <1>3 DEF DatabaseReturns, InDoubt, EndTransaction, Return, Outcome, DrawSerial, handlerVars
<1> QED
  BY <1>1, <1>2, <1>3 DEF DatabaseReturns

LEMMA DatabaseReturnsInv ==
  ASSUME IInv, NEW h \in Handlers, DatabaseReturns(h)
  PROVE  IInv'
<1> DEFINE q == query[h]
<1>1. /\ q # NULL /\ Outcome(q)
      /\ query' = [query EXCEPT ![h] = NULL]
      /\ UNCHANGED <<connected, phase, request, up, received, contended>>
  BY ReturnStep
<1>2. PICK r \in {NULL, Rows(q)} : results' = [results EXCEPT ![h] = Append(@, r)]
  BY ReturnStep
<1>3. /\ Handling(h) /\ Move(h).kind = "call" /\ q = Move(h).query
      /\ HeldBy(request[h], results[h])
  BY <1>1 DEF IInv, VariablesOK, HandlerOK, ResultsOK, HeldBy
<1>4. /\ q \in Queries
      /\ Len(results[h]) < CallsOf(request[h].action)
      /\ Makes(request[h].action, q.op)
  BY <1>3, CallType DEF Move
<1>5. /\ TablesOK'
      /\ nextUserId <= nextUserId'
      /\ \A u \in users' : u \in users \/ u.user_id = nextUserId
  BY <1>1, <1>4, TablesStep DEF IInv
<1>6. VariablesOK'
  BY <1>1, <1>2 DEF IInv, VariablesOK
<1>7. OneTransaction'
  BY <1>1 DEF IInv, VariablesOK, OneTransaction
<1>8. nextUserId' \in Nat
  BY <1>5 DEF TablesOK
<1>9. ASSUME NEW t \in Handlers, t # h PROVE HandlerOK(t)'
  <2>1. results'[t] = results[t] /\ query'[t] = query[t]
    BY <1>1, <1>2, <1>9 DEF IInv, VariablesOK
  <2> QED
    BY <1>1, <1>5, <1>8, <2>1, Undisturbed
<1>10. HandlerOK(h)'
  <2>1. r \in {NULL} \union RowsOf(request[h].action)
    BY <1>4, RowsType DEF IInv, TablesOK
  <2>2. ASSUME r # NULL, q.op = "GetIDByUsername", NEW id \in r
        PROVE  /\ id \in Nat /\ id < nextUserId
               /\ \A u \in users : u.user_id = id => u.username = q.username
    <3>1. r = {u.user_id : u \in Named(q.username)}
      BY <2>2 DEF Rows
    <3>2. PICK v \in users : v.username = q.username /\ v.user_id = id
      BY <2>2, <3>1 DEF Named
    <3>3. id \in Nat /\ id < nextUserId
      BY <3>2 DEF IInv, TablesOK, UserRows
    <3>4. ASSUME NEW u \in users, u.user_id = id PROVE u.username = q.username
      BY <3>2, <3>4 DEF IInv, TablesOK, TablesConsistent
    <3> QED
      BY <3>3, <3>4
  <2>3. results'[h] = Append(results[h], r) /\ query'[h] = NULL
    BY <1>1, <1>2 DEF IInv, VariablesOK
  <2>4. r # NULL /\ Move(h).query.op = "GetIDByUsername" =>
          \A id \in r : /\ id \in Nat /\ id < nextUserId
                        /\ \A u \in users : u.user_id = id => u.username = Move(h).query.username
    BY <1>3, <2>2
  <2> QED
    BY <1>1, <1>3, <1>4, <1>5, <1>8, <2>1, <2>3, <2>4, Answered
<1> QED
  BY <1>5, <1>6, <1>7, <1>9, <1>10 DEF IInv

LEMMA ReplyInv ==
  ASSUME IInv, NEW h \in Handlers, SendResponse(h) \/ SendFails(h)
  PROVE  IInv'
<1>1. /\ query[h] = NULL
      /\ phase' = [phase EXCEPT ![h] = "waiting"] \/ phase' = [phase EXCEPT ![h] = "gone"]
      /\ request' = [request EXCEPT ![h] = NULL]
      /\ results' = [results EXCEPT ![h] = <<>>]
      /\ contended' = [contended EXCEPT ![h] = FALSE]
      /\ UNCHANGED <<users, messages, nextUserId, connected, query, up, received>>
  BY DEF SendResponse, SendFails, Replies, Running, Drop
<1>2. TablesOK'
  BY <1>1, TablesUnchanged DEF IInv
<1>3. VariablesOK' /\ OneTransaction'
  BY <1>1 DEF IInv, VariablesOK, OneTransaction
<1>4. ASSUME NEW t \in Handlers PROVE HandlerOK(t)'
  <2>1. CASE t = h
    <3>1. phase'[h] # "handling" /\ request'[h] = NULL /\ results'[h] = <<>> /\ query'[h] = NULL
      BY <1>1 DEF IInv, VariablesOK
    <3> QED
      BY <2>1, <3>1, Idle
  <2>2. CASE t # h
    BY <1>1, <2>2, Untouched DEF IInv, VariablesOK
  <2> QED
    BY <2>1, <2>2
<1> QED
  BY <1>2, <1>3, <1>4 DEF IInv

LEMMA ServerCrashesInv ==
  ASSUME IInv, NEW h \in Handlers, ServerCrashes(h)
  PROVE  IInv'
<1> USE DEF ServerCrashes
<1>1. TablesOK'
  BY TablesUnchanged DEF IInv
<1>2. VariablesOK' /\ OneTransaction'
  BY DEF IInv, VariablesOK, OneTransaction
<1>3. ASSUME NEW t \in Handlers PROVE HandlerOK(t)'
  BY Idle
<1> QED
  BY <1>1, <1>2, <1>3 DEF IInv

\* A restart of the process, the loss of the connection, and no step at all.
LEMMA ElsewhereInv ==
  ASSUME IInv, Restart \/ ConnectionLost \/ UNCHANGED vars
  PROVE  IInv'
<1>1. /\ UNCHANGED <<users, messages, nextUserId, query, results, phase, request, received,
                    contended>>
      /\ connected' \in BOOLEAN /\ up' \in BOOLEAN
  BY DEF IInv, VariablesOK, Restart, ConnectionLost, LoseConnection, vars, dbVars, handlerVars
<1>2. TablesOK'
  BY <1>1, TablesUnchanged DEF IInv
<1>3. VariablesOK' /\ OneTransaction'
  BY <1>1 DEF IInv, VariablesOK, OneTransaction
<1>4. ASSUME NEW t \in Handlers PROVE HandlerOK(t)'
  BY <1>1, Untouched
<1> QED
  BY <1>2, <1>3, <1>4 DEF IInv

LEMMA NextInv == IInv /\ [Next]_vars => IInv'
<1> SUFFICES ASSUME IInv, [Next]_vars PROVE IInv'
  OBVIOUS
<1>1. ASSUME NEW h \in Handlers, Handler(h) PROVE IInv'
  BY <1>1, AcceptInv, ReceiveRequestInv, ReceiveFailsInv, CallDatabaseInv,
     DatabaseReturnsInv, ReplyInv, ServerCrashesInv DEF Handler
<1> QED
  BY <1>1, ElsewhereInv DEF Next

(*********************************************************************************)
(* The theorems.                                                                 *)
(*********************************************************************************)
\* IInv holds in every state the server and its database can reach.
THEOREM Invariance == Spec => []IInv
  BY InitInv, NextInv, PTL DEF Spec

\* Every variable has its type: what a Handle... function finds in the results of its
\* calls is what its action counts on.
THEOREM TypeCorrect == Spec => []TypeOK
<1>1. IInv => TypeOK
  BY Consequences
<1> QED
  BY <1>1, Invariance, PTL

\* Names and ids stay unique and messages keep both their users, for any interleaving.
THEOREM TablesStayConsistent == Spec => []TablesConsistent
<1>1. IInv => TablesConsistent
  BY Consequences
<1> QED
  BY <1>1, Invariance, PTL

\* No message is ever stored for another user than the one whose name was looked up,
\* whatever is truncated and registered between HandleSendMessageToUser's transactions.
THEOREM IdsNeverRebound == Spec => []StaleIdsNeverRebound
<1>1. IInv => StaleIdsNeverRebound
  BY Consequences
<1> QED
  BY <1>1, Invariance, PTL
==================================================================================
