-------------------------- MODULE ClientHandlerRefinement ------------------------
(*********************************************************************************)
(* The handlers implement the abstract service: the proof of ServiceRefined, for *)
(* any number of handlers and requests.                                          *)
(*********************************************************************************)
EXTENDS ClientHandlerStepProofs

\* What TLC cannot evaluate of NULL: it is none of the sets of rows a call returns.
NullIsNoRows ==
  NULL \notin SUBSET (Nat \union Usernames \union Salts \union Hashes \union ChatRows)

(*********************************************************************************)
(* What the Handle... functions call, and what they make of its result.          *)
(*********************************************************************************)
\* Actions of one call.
LEMMA OneCall ==
  ASSUME NEW req, NEW res, HeldBy(req, res), HandleAction(req, res).kind = "call", NEW r,
         req.action \in {"CREATE_USER", "TRUNCATE_TABLES", "LIST_USERS",
                         "SHOW_CHAT_HISTORY_WITH_USER"}
  PROVE  LET q == HandleAction(req, res).query
             m == HandleAction(req, Append(res, r))
         IN  /\ req.action = "CREATE_USER" =>
                  q = CreateUser(req.username, HashPasswordWithSalt(req.password, req.salt),
                                 req.salt)
             /\ req.action = "TRUNCATE_TABLES" => q = ClearDatabase
             /\ req.action = "LIST_USERS" => q = ListUsers
             /\ req.action = "SHOW_CHAT_HISTORY_WITH_USER" =>
                  q = ListMessages(req.sender, req.receiver)
             /\ m = IF r = NULL THEN Error
                    ELSE IF req.action \in {"CREATE_USER", "TRUNCATE_TABLES"} THEN Success
                         ELSE Reply("Success", r)
<1>1. res = <<>>
  <2>1. Len(res) < 1
    BY CallType DEF CallsOf
  <2> QED BY <2>1, LenProperties, EmptySeq DEF HeldBy
<1>2. Append(res, r) # <<>> /\ Append(res, r)[1] = r
  BY <1>1
<1> DEFINE next == Append(res, r)
<1> HIDE DEF next
<1>3. next # <<>> /\ next[1] = r
  BY <1>2 DEF next
<1>4. CASE req.action = "CREATE_USER"
  <2>1. /\ HandleAction(req, res) = HandleCreateUser(req, res)
        /\ HandleAction(req, next) = HandleCreateUser(req, next)
    BY <1>4 DEF HandleAction
  <2>2. HandleAction(req, next) = IF r = NULL THEN Error ELSE Success
    BY <1>3, <2>1 DEF HandleCreateUser, HasValue
  <2>3. HandleAction(req, res).query =
          CreateUser(req.username, HashPasswordWithSalt(req.password, req.salt), req.salt)
    BY <1>1, <2>1 DEF HandleCreateUser, Call, HashPassword
  <2> QED BY <1>4, <2>2, <2>3 DEF next
<1>5. CASE req.action = "TRUNCATE_TABLES"
  <2>1. /\ HandleAction(req, res) = HandleTruncateTables(req, res)
        /\ HandleAction(req, next) = HandleTruncateTables(req, next)
    BY <1>5 DEF HandleAction
  <2> QED BY <1>1, <1>3, <1>5, <2>1 DEF HandleTruncateTables, HasValue, Call, next
<1>6. CASE req.action = "LIST_USERS"
  <2>1. /\ HandleAction(req, res) = HandleListUsers(req, res)
        /\ HandleAction(req, next) = HandleListUsers(req, next)
    BY <1>6 DEF HandleAction
  <2> QED BY <1>1, <1>3, <1>6, <2>1 DEF HandleListUsers, HasValue, Call, next
<1>7. CASE req.action = "SHOW_CHAT_HISTORY_WITH_USER"
  <2>1. /\ HandleAction(req, res) = HandleShowChatHistoryWithUser(req, res)
        /\ HandleAction(req, next) = HandleShowChatHistoryWithUser(req, next)
    BY <1>7 DEF HandleAction
  <2> QED BY <1>1, <1>3, <1>7, <2>1 DEF HandleShowChatHistoryWithUser, HasValue, Call, next
<1> QED BY <1>4, <1>5, <1>6, <1>7

\* What a sequence of results is with one more.
LEMMA OneMore ==
  ASSUME NEW S, NEW s \in Seq(S), NEW r \in S, NEW n \in Nat, Len(s) = n
  PROVE  /\ Len(Append(s, r)) = n + 1 /\ Append(s, r)[n + 1] = r
         /\ DOMAIN Append(s, r) = 1 .. n + 1 /\ DOMAIN s = 1 .. n
         /\ \A i \in 1 .. n : Append(s, r)[i] = s[i]
  BY AppendProperties, LenProperties

\* VERIFY_USER looks up the salt, then the hash.
LEMMA TwoCalls ==
  ASSUME NEW req, NEW res, HeldBy(req, res), HandleAction(req, res).kind = "call",
         NEW r \in {NULL} \union RowsOf(req.action), req.action = "VERIFY_USER"
  PROVE  LET q == HandleAction(req, res).query
             m == HandleAction(req, Append(res, r))
         IN  \/ /\ Len(res) = 0 /\ q = GetSaltByUsername(req.username)
                /\ m = Call(GetPasswordHashByUsername(req.username))
             \/ /\ Len(res) = 1 /\ q = GetPasswordHashByUsername(req.username)
                /\ m = IF /\ r # NULL /\ res[1] # NULL /\ r # {} /\ res[1] # {}
                          /\ VerifyPassword(req.password, FirstField(r), FirstField(res[1]))
                       THEN Success ELSE Error
<1> DEFINE next == Append(res, r)
           S    == {NULL} \union RowsOf(req.action)
<1>1. PICK n \in Nat : n = Len(res)
  BY LenProperties DEF HeldBy
<1>2. n = 0 \/ n = 1
  <2>1. n < 2
    BY <1>1, CallType DEF CallsOf
  <2> QED BY <2>1
<1>3. res \in Seq(S) /\ r \in S
  BY DEF HeldBy
<1> HIDE DEF S
<1>4. Len(next) = n + 1 /\ next[n + 1] = r /\ \A i \in 1 .. n : next[i] = res[i]
  BY <1>1, <1>3, OneMore
<1>5. /\ HandleAction(req, res) = HandleVerifyUser(req, res)
      /\ HandleAction(req, next) = HandleVerifyUser(req, next)
  BY DEF HandleAction
<1> HIDE DEF next
<1>6. CASE n = 0
  BY <1>1, <1>4, <1>5, <1>6 DEF HandleVerifyUser, Call, next
<1>7. CASE n = 1
  <2>1. Len(next) = 2 /\ next[2] = r /\ next[1] = res[1]
    BY <1>4, <1>7
  <2>2. HandleAction(req, res) = Call(GetPasswordHashByUsername(req.username))
    BY <1>1, <1>5, <1>7 DEF HandleVerifyUser
  <2>3. HandleAction(req, next) =
          IF /\ r # NULL /\ res[1] # NULL /\ r # {} /\ res[1] # {}
             /\ VerifyPassword(req.password, FirstField(r), FirstField(res[1]))
          THEN Success ELSE Error
    BY <1>5, <2>1 DEF HandleVerifyUser, HasValue
  <2> QED BY <1>1, <1>7, <2>2, <2>3 DEF Call, next
<1> QED BY <1>2, <1>6, <1>7

\* SEND_MESSAGE_TO_USER looks up two ids, then stores the message.
LEMMA ThreeCalls ==
  ASSUME NEW req, NEW res, HeldBy(req, res), HandleAction(req, res).kind = "call",
         NEW r \in {NULL} \union RowsOf(req.action), req.action = "SEND_MESSAGE_TO_USER"
  PROVE  LET q == HandleAction(req, res).query
             m == HandleAction(req, Append(res, r))
         IN  \/ /\ Len(res) = 0 /\ q = GetIDByUsername(req.sender)
                /\ m = Call(GetIDByUsername(req.receiver))
             \/ /\ Len(res) = 1 /\ q = GetIDByUsername(req.receiver)
                /\ m = IF r = NULL \/ res[1] = NULL THEN Error
                       ELSE IF r = {} \/ res[1] = {} THEN Crash
                       ELSE Call(CreateMessage(FirstField(res[1]), FirstField(r), req.content))
             \/ /\ Len(res) = 2 /\ res[1] \notin {NULL, {}} /\ res[2] \notin {NULL, {}}
                /\ q = CreateMessage(FirstField(res[1]), FirstField(res[2]), req.content)
                /\ m = IF r = NULL THEN Error ELSE Success
<1> DEFINE next == Append(res, r)
           S    == {NULL} \union RowsOf(req.action)
<1>1. PICK n \in Nat : n = Len(res)
  BY LenProperties DEF HeldBy
<1>2. n \in {0, 1, 2}
  <2>1. n < 3
    BY <1>1, CallType DEF CallsOf
  <2> QED BY <2>1
<1>3. res \in Seq(S) /\ r \in S
  BY DEF HeldBy
<1> HIDE DEF S
<1>4. Len(next) = n + 1 /\ next[n + 1] = r /\ \A i \in 1 .. n : next[i] = res[i]
  BY <1>1, <1>3, OneMore
<1>5. /\ HandleAction(req, res) = HandleSendMessageToUser(req, res)
      /\ HandleAction(req, next) = HandleSendMessageToUser(req, next)
  BY DEF HandleAction
<1> HIDE DEF next
<1>6. CASE n = 0
  BY <1>1, <1>4, <1>5, <1>6 DEF HandleSendMessageToUser, Call, next
<1>7. CASE n = 1
  <2>1. Len(next) = 2 /\ next[2] = r /\ next[1] = res[1]
    BY <1>4, <1>7
  <2>2. HandleAction(req, res) = Call(GetIDByUsername(req.receiver))
    BY <1>1, <1>5, <1>7 DEF HandleSendMessageToUser
  <2>3. HandleAction(req, next) =
          IF r = NULL \/ res[1] = NULL THEN Error
          ELSE IF r = {} \/ res[1] = {} THEN Crash
          ELSE Call(CreateMessage(FirstField(res[1]), FirstField(r), req.content))
    BY <1>5, <2>1 DEF HandleSendMessageToUser, HasValue
  <2> QED BY <1>1, <1>7, <2>2, <2>3 DEF Call, next
<1>8. CASE n = 2
  <2>1. Len(next) = 3 /\ next[3] = r
    BY <1>4, <1>8
  <2>2. /\ res[1] \notin {NULL, {}} /\ res[2] \notin {NULL, {}}
        /\ HandleAction(req, res) =
             Call(CreateMessage(FirstField(res[1]), FirstField(res[2]), req.content))
    BY <1>1, <1>5, <1>8 DEF HandleSendMessageToUser, HasValue, Error, Reply, Crash
  <2>3. HandleAction(req, next) = IF r = NULL THEN Error ELSE Success
    BY <1>5, <2>1 DEF HandleSendMessageToUser, HasValue
  <2> QED BY <1>1, <1>8, <2>2, <2>3 DEF Call, next
<1> QED BY <1>2, <1>6, <1>7, <1>8

(*********************************************************************************)
(* The invariant of the refinement.                                              *)
(*********************************************************************************)
\* The actions of others, short of a restart, leave a handler's lookups in order: what they
\* change of users, they change while its request is there.
LEMMA LookupsKept ==
  ASSUME NEW t \in Handlers, LookupsOK(t),
         phase'[t] = phase[t], request'[t] = request[t], results'[t] = results[t],
         connected' => connected, contended[t] => contended'[t],
         users' = users \/ contended'[t] \/ ~ Handling(t)
  PROVE  LookupsOK(t)'
<1>1. Lookups(t)' = Lookups(t)
  BY DEF Lookups, Handling
<1>2. ASSUME NEW l \in Lookups(t), l[1] \in DOMAIN results[t]
      PROVE  IF results[t][l[1]] = NULL THEN contended'[t] \/ ~ connected' \/ ~ WellFormed(l[2])
             ELSE WellFormed(l[2]) /\ (contended'[t] \/ results[t][l[1]] = Rows(l[2])')
  <2>1. Handling(t)
    BY <1>2 DEF Lookups
  <2>2. users' = users => Rows(l[2])' = Rows(l[2])
    <3>1. \/ l[2] = GetSaltByUsername(request[t].username)
          \/ l[2] = GetIDByUsername(request[t].sender)
          \/ l[2] = GetIDByUsername(request[t].receiver)
      BY <1>2 DEF Lookups
    <3>2. CASE l[2] = GetSaltByUsername(request[t].username)
      BY <3>2 DEF Rows, GetSaltByUsername, Named
    <3>3. CASE l[2] = GetIDByUsername(request[t].sender)
      BY <3>3 DEF Rows, GetIDByUsername, Named
    <3>4. CASE l[2] = GetIDByUsername(request[t].receiver)
      BY <3>4 DEF Rows, GetIDByUsername, Named
    <3> QED BY <3>1, <3>2, <3>3, <3>4
  <2> QED BY <1>2, <2>1, <2>2 DEF LookupsOK
<1> QED BY <1>1, <1>2 DEF LookupsOK, WellFormed

\* A handler without a request has no lookups.
LEMMA NoLookups ==
  ASSUME NEW t \in Handlers, phase'[t] # "handling" \/ results'[t] = <<>>
  PROVE  LookupsOK(t)'
  BY DEF LookupsOK, Lookups, Handling

\* How ExecuteQuery comes out for a handler: carried out, failed without a trace but
\* perhaps a serial, or lost after it was carried out.
Succeeds(h, q, r) == r = Rows(q) /\ connected /\ Accepted(q) /\ Effect(q)
Fails(h, q, r)    == /\ r = NULL /\ UNCHANGED <<users, messages>>
                     /\ contended[h] \/ ~ connected \/ ~ Accepted(q)
IsLost(h, q, r)   == r = NULL /\ ~ connected /\ Accepted(q) /\ Effect(q)

\* h's call q of ExecuteQuery returns r.
Answers(h, q, r) ==
  /\ Handling(h) /\ Move(h).kind = "call" /\ q = Move(h).query /\ q \in Queries
  /\ HeldBy(request[h], results[h])
  /\ results' = [results EXCEPT ![h] = Append(results[h], r)]
  /\ \A t \in Handlers \ {h} : query'[t] = query[t]
  /\ query'[h] = NULL
  /\ UNCHANGED <<phase, request, up, contended, connected>>
  /\ Succeeds(h, q, r) \/ Fails(h, q, r) \/ IsLost(h, q, r)

\* A call of ExecuteQuery that returns has one of these outcomes; a refused one is due to
\* another request or the connection.
LEMMA CallAnswers ==
  ASSUME IInv, RefinementInv, NEW h \in Handlers,
         DatabaseReturns(h) \/ (CallDatabase(h) /\ RefuseTransaction(h))
  PROVE  \E r \in {NULL} \union RowsOf(request[h].action) : Answers(h, Move(h).query, r)
<1>1. CASE DatabaseReturns(h)
  <2> DEFINE q == query[h]
  <2>1. /\ q # NULL /\ query' = [query EXCEPT ![h] = NULL]
        /\ UNCHANGED <<connected, phase, request, up, received, contended>>
    BY <1>1, ReturnStep
  <2>2. Handling(h) /\ Move(h).kind = "call" /\ q = Move(h).query /\ HeldBy(request[h], results[h])
    BY <2>1, <1>1, Returned DEF IInv, HandlerOK
  <2>3. q \in Queries /\ Makes(request[h].action, q.op)
    BY <2>2, CallType DEF Move
  <2>4. Rows(q) \in RowsOf(request[h].action)
    BY <2>3, RowsType DEF IInv, TablesOK
  <2>5. \E r \in {NULL, Rows(q)} : /\ results' = [results EXCEPT ![h] = Append(results[h], r)]
                                   /\ Succeeds(h, q, r) \/ Fails(h, q, r) \/ IsLost(h, q, r)
    <3>1. CASE Commit(h)
      BY <3>1 DEF Commit, EndTransaction, Return, Succeeds
    <3>2. CASE Reject(h)
      BY <3>2 DEF Reject, EndTransaction, Return, Fails
    <3>3. CASE InDoubt(h)
      BY <3>3 DEF InDoubt, EndTransaction, Return, Fails, IsLost
    <3> QED BY <1>1, <3>1, <3>2, <3>3 DEF DatabaseReturns
  <2>6. query'[h] = NULL /\ \A t \in Handlers \ {h} : query'[t] = query[t]
    BY <2>1 DEF IInv, VariablesOK
  <2> QED BY <2>1, <2>2, <2>3, <2>4, <2>5, <2>6 DEF Answers
<1>2. CASE CallDatabase(h) /\ RefuseTransaction(h)
  <2>1. /\ Handling(h) /\ query[h] = NULL /\ Move(h).kind = "call" /\ query' = query
        /\ UNCHANGED <<users, messages, connected, phase, request, up, received, contended>>
        /\ results' = [results EXCEPT ![h] = Append(results[h], NULL)]
    BY <1>2 DEF CallDatabase, RefuseTransaction, Running, Return, handlerVars
  <2>2. HeldBy(request[h], results[h])
    BY <2>1, Held
  <2>3. Move(h).query \in Queries
    BY <2>1, <2>2, CallType DEF Move
  <2>4. ~ connected \/ contended[h]
    <3>1. CASE Busy
      <4>1. PICK t \in Handlers : query[t] # NULL
        BY <3>1 DEF Busy
      <4>2. Handling(t) /\ t # h
        BY <2>1, <4>1 DEF IInv, HandlerOK
      <4> QED BY <2>1, <4>2 DEF RefinementInv
    <3> QED BY <1>2, <3>1 DEF RefuseTransaction
  <2> QED BY <2>1, <2>2, <2>3, <2>4 DEF Answers, Fails
<1> QED BY <1>1, <1>2

\* An action that looks something up first changes no users, and its next call is the
\* lookup its results end before.
LEMMA LooksUp ==
  ASSUME NEW h \in Handlers, NEW q, NEW r \in {NULL} \union RowsOf(request[h].action),
         Answers(h, q, r), Lookups(h) # {}
  PROVE  /\ users' = users
         /\ \A l \in Lookups(h) : l[1] = Len(results[h]) + 1 =>
              l[2] = q /\ q.op # "CreateUser" /\ q.op # "CreateMessage"
<1> DEFINE req == request[h]
           n   == Len(results[h])
<1>1. /\ HeldBy(req, results[h]) /\ Move(h) = HandleAction(req, results[h])
      /\ HandleAction(req, results[h]).kind = "call" /\ q = HandleAction(req, results[h]).query
  BY DEF Answers, Move
<1>2. Succeeds(h, q, r) \/ Fails(h, q, r) \/ IsLost(h, q, r)
  BY DEF Answers
<1>3. CASE req.action = "VERIFY_USER"
  <2>1. \/ n = 0 /\ q = GetSaltByUsername(req.username)
        \/ n = 1 /\ q = GetPasswordHashByUsername(req.username)
    BY <1>1, <1>3, TwoCalls
  <2>2. q.op \in {"GetSaltByUsername", "GetPasswordHashByUsername"}
    BY <2>1 DEF GetSaltByUsername, GetPasswordHashByUsername
  <2>3. users' = users
    BY <1>2, <2>2 DEF Succeeds, Fails, IsLost, Effect, InsertUser, InsertMessage, TruncateTables,
                      Select
  <2>4. \A l \in Lookups(h) : l = <<1, GetSaltByUsername(req.username)>>
    BY <1>3 DEF Lookups
  <2> QED BY <2>1, <2>2, <2>3, <2>4
<1>4. CASE req.action = "SEND_MESSAGE_TO_USER"
  <2>1. \/ n = 0 /\ q = GetIDByUsername(req.sender)
        \/ n = 1 /\ q = GetIDByUsername(req.receiver)
        \/ /\ n = 2
           /\ q = CreateMessage(FirstField(results[h][1]), FirstField(results[h][2]), req.content)
    BY <1>1, <1>4, ThreeCalls
  <2>2. /\ n \in {0, 1} => q.op = "GetIDByUsername"
        /\ n = 2 => q.op = "CreateMessage"
    BY <2>1 DEF GetIDByUsername, CreateMessage
  <2>3. users' = users
    BY <1>2, <2>1, <2>2 DEF Succeeds, Fails, IsLost, Effect, InsertUser, InsertMessage,
                      TruncateTables, Select
  <2>4. \A l \in Lookups(h) : \/ l = <<1, GetIDByUsername(req.sender)>>
                              \/ l = <<2, GetIDByUsername(req.receiver)>>
    BY <1>4 DEF Lookups
  <2> QED BY <2>1, <2>2, <2>3, <2>4
<1> QED BY <1>3, <1>4 DEF Lookups

\* What a call returns to a handler is in order.
LEMMA LookupsAnswered ==
  ASSUME NEW h \in Handlers, NEW q, NEW r \in {NULL} \union RowsOf(request[h].action),
         DOMAIN results = Handlers, Answers(h, q, r), LookupsOK(h),
         Rows(q) # NULL
  PROVE  LookupsOK(h)'
<1> DEFINE res == results[h]
           n   == Len(results[h])
<1>1. /\ results'[h] = Append(res, r) /\ Lookups(h)' = Lookups(h)
      /\ UNCHANGED <<contended, connected>>
  BY DEF Answers, Lookups, Handling
<1>2. /\ n \in Nat /\ DOMAIN results'[h] = 1 .. n + 1 /\ DOMAIN res = 1 .. n
      /\ results'[h][n + 1] = r /\ \A i \in 1 .. n : results'[h][i] = res[i]
  <2> DEFINE S == {NULL} \union RowsOf(request[h].action)
  <2>1. res \in Seq(S) /\ r \in S
    BY DEF Answers, HeldBy
  <2> HIDE DEF S
  <2> QED BY <1>1, <2>1, OneMore, LenProperties
<1>3. ASSUME NEW l \in Lookups(h), l[1] \in 1 .. n + 1
      PROVE  IF results'[h][l[1]] = NULL THEN contended[h] \/ ~ connected \/ ~ WellFormed(l[2])
             ELSE WellFormed(l[2]) /\ (contended[h] \/ results'[h][l[1]] = Rows(l[2])')
  <2>1. /\ users' = users
        /\ l[1] = n + 1 => l[2] = q /\ q.op # "CreateUser" /\ q.op # "CreateMessage"
    BY <1>3, LooksUp
  <2>2. Rows(l[2])' = Rows(l[2])
    <3>1. \/ l[2] = GetSaltByUsername(request[h].username)
          \/ l[2] = GetIDByUsername(request[h].sender)
          \/ l[2] = GetIDByUsername(request[h].receiver)
      BY <1>3 DEF Lookups
    <3>2. CASE l[2] = GetSaltByUsername(request[h].username)
      BY <2>1, <3>2 DEF Rows, GetSaltByUsername, Named
    <3>3. CASE l[2] = GetIDByUsername(request[h].sender)
      BY <2>1, <3>3 DEF Rows, GetIDByUsername, Named
    <3>4. CASE l[2] = GetIDByUsername(request[h].receiver)
      BY <2>1, <3>4 DEF Rows, GetIDByUsername, Named
    <3> QED BY <3>1, <3>2, <3>3, <3>4
  <2>3. CASE l[1] = n + 1
    <3>1. Succeeds(h, q, r) \/ Fails(h, q, r) \/ IsLost(h, q, r)
      BY DEF Answers
    <3>2. Accepted(q) <=> WellFormed(q)
      BY <2>1, <2>3 DEF Accepted, ConstraintsHold
    <3> QED BY <1>2, <2>1, <2>2, <2>3, <3>1, <3>2 DEF Succeeds, Fails, IsLost
  <2>4. CASE l[1] # n + 1
    <3>1. l[1] \in 1 .. n
      BY <1>2, <1>3, <2>4
    <3> QED BY <1>2, <2>2, <3>1 DEF LookupsOK
  <2> QED BY <2>3, <2>4
<1> QED BY <1>1, <1>2, <1>3 DEF LookupsOK, WellFormed

\* The rows of a query are no nullopt.
LEMMA RowsNotNull ==
  ASSUME NullIsNoRows, IInv, NEW q \in Queries, NEW action, Makes(action, q.op)
  PROVE  Rows(q) # NULL
<1>1. Rows(q) \in RowsOf(action)
  BY RowsType DEF IInv, TablesOK
<1>2. RowsOf(action) \subseteq
        SUBSET (Nat \union Usernames \union Salts \union Hashes \union ChatRows)
  BY DEF RowsOf
<1> QED BY <1>1, <1>2 DEF NullIsNoRows

\* Nobody has a request when the server starts.
LEMMA InitRefinementInv == Init => RefinementInv
  BY DEF Init, DbInit, RefinementInv, LookupsOK, Lookups, Handling

\* A request comes in: it, and those that are there, know of each other.
LEMMA ReceiveRefinementInv ==
  ASSUME IInv, RefinementInv, NEW h \in Handlers, ReceiveRequest(h)
  PROVE  RefinementInv'
<1>1. /\ UNCHANGED <<users, messages, nextUserId, connected, query, results, up>>
      /\ phase[h] = "waiting" /\ phase' = [phase EXCEPT ![h] = "handling"]
      /\ phase \in [Handlers -> {"gone", "waiting", "handling"}]
      /\ request \in [Handlers -> Requests \union {NULL}]
      /\ \A t \in Handlers : t # h => phase'[t] = phase[t] /\ request'[t] = request[t]
  BY DEF ReceiveRequest, dbVars, IInv, VariablesOK
<1>2. \A t \in Handlers :
        contended'[t] = CASE t = h       -> \E o \in Handlers \ {h} : Handling(o)
                          [] Handling(t) -> TRUE
                          [] OTHER       -> FALSE
  BY DEF ReceiveRequest
<1>3. up'
  BY <1>1 DEF RefinementInv
<1>4. ~ Handling(h)
  BY <1>1 DEF Handling
<1>5. \A t \in Handlers : t # h => (Handling(t)' <=> Handling(t)) /\ (Handling(t) => contended'[t])
  BY <1>1, <1>2, <1>4 DEF Handling
<1>6. (\E o \in Handlers \ {h} : Handling(o)) => contended'[h]
  BY <1>2
<1>7. \A s, t \in Handlers : s # t /\ Handling(s)' /\ Handling(t)' => contended'[s]
  BY <1>5, <1>6
<1>8. ASSUME NEW t \in Handlers PROVE LookupsOK(t)'
  <2>1. CASE t = h
    BY <1>1, <1>4, <2>1, NoLookups DEF IInv, HandlerOK, ResultsOK
  <2>2. CASE t # h /\ Handling(t)
    BY <1>1, <1>5, <2>2, LookupsKept DEF RefinementInv
  <2>3. CASE t # h /\ ~ Handling(t)
    BY <1>1, <2>3, NoLookups DEF Handling
  <2> QED BY <2>1, <2>2, <2>3
<1> QED BY <1>1, <1>3, <1>7, <1>8 DEF RefinementInv

\* ExecuteQuery returns to h: rows are added with their salt, others with a request know
\* of h's.
LEMMA AnswersRefinementInv ==
  ASSUME NullIsNoRows, IInv, RefinementInv, NEW h \in Handlers, NEW q,
         NEW r \in {NULL} \union RowsOf(request[h].action), Answers(h, q, r)
  PROVE  RefinementInv'
<1>1. /\ UNCHANGED <<phase, request, up, contended, connected>> /\ Handling(h)
      /\ q \in Queries /\ DOMAIN results = Handlers
      /\ \A t \in Handlers : t # h => results'[t] = results[t]
  BY DEF Answers, IInv, VariablesOK
<1>2. HeldBy(request[h], results[h]) /\ Move(h) = HandleAction(request[h], results[h])
      /\ HandleAction(request[h], results[h]).kind = "call"
      /\ q = HandleAction(request[h], results[h]).query
  BY DEF Answers, Move
<1>3. Makes(request[h].action, q.op)
  BY <1>2, CallType
<1>4. Rows(q) # NULL
  BY <1>1, <1>3, RowsNotNull
<1>5. ASSUME NEW t \in Handlers PROVE LookupsOK(t)'
  <2>1. CASE t = h
    BY <1>1, <1>4, <2>1, LookupsAnswered DEF RefinementInv
  <2>2. CASE t # h
    <3>1. Handling(t) => contended[t]
      BY <1>1, <2>2 DEF RefinementInv
    <3> QED BY <1>1, <2>2, <3>1, LookupsKept DEF RefinementInv
  <2> QED BY <2>1, <2>2
<1>6. ASSUME NEW u \in users' PROVE u.password_hash.salt = u.salt
  <2>1. CASE u \in users
    BY <2>1 DEF RefinementInv
  <2>2. CASE u \notin users
    <3>1. /\ q.op = "CreateUser"
          /\ u = [user_id |-> nextUserId, username |-> q.username, password_hash |-> q.hash,
                  salt |-> q.salt]
      BY <1>6, <2>2 DEF Answers, Succeeds, Fails, IsLost, Effect, InsertUser, InsertMessage,
         TruncateTables, Select
    <3>2. request[h].action = "CREATE_USER"
      BY <1>3, <3>1 DEF Makes
    <3>3. q = CreateUser(request[h].username,
                         HashPasswordWithSalt(request[h].password, request[h].salt),
                         request[h].salt)
      BY <1>2, <3>2, OneCall
    <3> QED BY <3>1, <3>3 DEF CreateUser, HashPasswordWithSalt
  <2> QED BY <2>1, <2>2
<1> QED BY <1>1, <1>5, <1>6 DEF RefinementInv, Handling

\* Every step preserves the invariant.
LEMMA NextRefinementInv ==
  ASSUME NullIsNoRows, IInv, RefinementInv, [Next]_vars
  PROVE  RefinementInv'
<1> USE DEF dbVars, handlerVars
<1>1. ASSUME NEW h \in Handlers,
             Accept(h) \/ ReceiveFails(h) \/ SendResponse(h) \/ SendFails(h)
      PROVE  RefinementInv'
  <2>1. /\ UNCHANGED <<users, connected, up>>
        /\ up \/ \A t \in Handlers : phase[t] = "gone"
        /\ phase' \in [Handlers -> {"gone", "waiting", "handling"}]
        /\ phase[h] = "gone" => up
        /\ ~ Handling(h)'
        /\ \A t \in Handlers : t # h => /\ phase'[t] = phase[t] /\ request'[t] = request[t]
                                        /\ results'[t] = results[t] /\ contended'[t] = contended[t]
    <3>1. CASE Accept(h)
      BY <3>1 DEF Accept, Handling, IInv, VariablesOK, RefinementInv
    <3>2. CASE ReceiveFails(h)
      BY <3>2 DEF ReceiveFails, Handling, IInv, VariablesOK, RefinementInv
    <3>3. CASE SendResponse(h) \/ SendFails(h)
      BY <3>3 DEF SendResponse, SendFails, Drop, Replies, Running, Handling, IInv, VariablesOK,
         RefinementInv
    <3> QED BY <1>1, <3>1, <3>2, <3>3
  <2>2. \A t \in Handlers : t # h => (Handling(t)' <=> Handling(t))
    BY <2>1 DEF Handling
  <2>3. ASSUME NEW t \in Handlers PROVE LookupsOK(t)'
    <3>1. CASE t = h
      BY <2>1, <3>1, NoLookups DEF Handling
    <3>2. CASE t # h
      BY <2>1, <3>2, LookupsKept DEF RefinementInv
    <3> QED BY <3>1, <3>2
  <2> QED BY <2>1, <2>2, <2>3 DEF RefinementInv
<1>2. ASSUME NEW h \in Handlers, ReceiveRequest(h) PROVE RefinementInv'
  BY <1>2, ReceiveRefinementInv
<1>3. ASSUME NEW h \in Handlers, DatabaseReturns(h) \/ (CallDatabase(h) /\ RefuseTransaction(h))
      PROVE  RefinementInv'
  BY <1>3, CallAnswers, AnswersRefinementInv
<1>4. ASSUME NEW h \in Handlers, CallDatabase(h), ~ RefuseTransaction(h) PROVE RefinementInv'
  <2>1. UNCHANGED <<users, connected, up, phase, request, results, contended>>
    BY <1>4 DEF CallDatabase, ExecuteQuery, OpenTransaction
  <2>2. \A t \in Handlers : LookupsOK(t)'
    BY <2>1, LookupsKept DEF RefinementInv
  <2> QED BY <2>1, <2>2 DEF RefinementInv, Handling
<1>5. ASSUME NEW h \in Handlers, ServerCrashes(h) PROVE RefinementInv'
  <2>1. users' = users /\ \A t \in Handlers : phase'[t] = "gone"
    BY <1>5 DEF ServerCrashes
  <2> QED BY <2>1, NoLookups DEF RefinementInv, Handling
<1>6. CASE Restart
  <2>1. users' = users /\ \A t \in Handlers : phase'[t] = "gone"
    BY <1>6 DEF Restart, RefinementInv
  <2> QED BY <2>1, NoLookups DEF RefinementInv, Handling
<1>7. CASE ConnectionLost \/ UNCHANGED vars
  <2>1. /\ UNCHANGED <<users, up, phase, request, results, contended>>
        /\ connected' => connected
    BY <1>7 DEF ConnectionLost, LoseConnection, vars
  <2>2. \A t \in Handlers : LookupsOK(t)'
    BY <2>1, LookupsKept DEF RefinementInv
  <2> QED BY <2>1, <2>2 DEF RefinementInv, Handling
<1> QED BY <1>1, <1>2, <1>3, <1>4, <1>5, <1>6, <1>7 DEF Next, Handler

(*********************************************************************************)
(* The steps that only concern sessions and the link.                            *)
(*********************************************************************************)
\* What a session of the service is depends on its handler's own state.
LEMMA SessionKept ==
  ASSUME NEW t \in Handlers, phase'[t] = phase[t], request'[t] = request[t],
         results'[t] = results[t], query'[t] = query[t]
  PROVE  Response(t)' = Response(t) /\ Misses(t)' = Misses(t)
<1>1. Move(t)' = Move(t) /\ Handling(t)' = Handling(t)
  BY DEF Move, Handling
<1>2. Replies(t)' = Replies(t) /\ LookedUp(t)' = LookedUp(t)
  BY <1>1 DEF Replies, Running, LookedUp
<1> QED BY <1>1, <1>2 DEF Response, Misses

\* Accounts and mail only depend on the tables.
LEMMA TablesKept ==
  ASSUME UNCHANGED <<users, messages>>
  PROVE  UNCHANGED <<Accounts, Mail>>
  BY DEF Accounts, Mail, PasswordOf, Named, NameOf

\* A handler that is not handling, or in the middle of a call, answers and misses nothing
\* by that.
LEMMA NoResponse ==
  ASSUME NEW t \in Handlers
  PROVE  /\ ~ Replies(t) => Response(t) = NULL
         /\ ~ Handling(t) => Response(t) = NULL /\ Misses(t) = FALSE
         /\ Replies(t) => Misses(t) = FALSE
  BY DEF Response, Misses, Replies, Running, LookedUp

\* A step that shows in none of the service's variables.
LEMMA Stutters ==
  ASSUME UNCHANGED <<users, messages, connected, contended, request>>,
         \A t \in Handlers : Response(t)' = Response(t) /\ Misses(t)' = Misses(t)
  PROVE  UNCHANGED Service!svars
  BY TablesKept DEF Service!svars, Pending, Responses, Missing

\* Accepting and hanging up are nothing to the service.
LEMMA AcceptStep ==
  ASSUME IInv, NEW h \in Handlers, Accept(h) \/ ReceiveFails(h)
  PROVE  UNCHANGED Service!svars
<1>1. /\ UNCHANGED <<dbVars, request, contended>> /\ ~ Handling(h) /\ ~ Handling(h)'
      /\ \A t \in Handlers : t # h => phase'[t] = phase[t]
  <2>1. CASE Accept(h)
    BY <2>1 DEF Accept, Handling, IInv, VariablesOK
  <2>2. CASE ReceiveFails(h)
    BY <2>2 DEF ReceiveFails, Handling, IInv, VariablesOK
  <2> QED BY <2>1, <2>2
<1>2. Response(h)' = Response(h) /\ Misses(h)' = Misses(h)
  BY <1>1, NoResponse DEF Response, Misses, Replies, Running, LookedUp
<1>3. \A t \in Handlers : t # h => Response(t)' = Response(t) /\ Misses(t)' = Misses(t)
  BY <1>1, SessionKept DEF dbVars
<1> QED BY <1>1, <1>2, <1>3, Stutters DEF dbVars

\* So is opening a transaction.
LEMMA OpenStep ==
  ASSUME IInv, NEW h \in Handlers, CallDatabase(h), ~ RefuseTransaction(h)
  PROVE  UNCHANGED Service!svars
<1>1. /\ UNCHANGED <<users, messages, connected, results, phase, request, contended>>
      /\ Move(h).kind = "call" /\ \A t \in Handlers : t # h => query'[t] = query[t]
  BY DEF CallDatabase, ExecuteQuery, OpenTransaction, handlerVars, IInv, VariablesOK
<1>2. /\ Move(h)' = Move(h) /\ LookedUp(h)' = LookedUp(h)
      /\ ~ Replies(h) /\ ~ Replies(h)'
  BY <1>1 DEF Move, LookedUp, Handling, Replies
<1>3. Response(h)' = Response(h) /\ Misses(h)' = Misses(h)
  BY <1>1, <1>2 DEF Response, Misses
<1> QED BY <1>1, <1>3, SessionKept, Stutters

\* A request on the wire is one the service knows; two of them are answered at once.
LEMMA WireType ==
  ASSUME NEW r \in Requests
  PROVE  /\ Wire(r) \in Service!Requests /\ Wire(r) # NULL
         /\ Wire(r).action = r.action
<1>1. r # NULL
  BY HandlerAssumption
<1>2. CASE r.action = "CREATE_USER"
  <2>1. r.username \in Usernames /\ r.password \in Passwords
    BY <1>2 DEF Requests
  <2>2. Wire(r) = [action |-> "CREATE_USER", username |-> r.username, password |-> r.password]
    BY <1>1, <1>2 DEF Wire
  <2>3. Wire(r) \in [action : {"CREATE_USER"}, username : Usernames, password : Passwords]
    BY <2>1, <2>2
  <2>4. Wire(r) # NULL
    BY <2>3, DataAssumption
  <2>5. Wire(r) \in Service!Requests
    BY <2>1, <2>2 DEF Service!Requests
  <2> QED BY <1>2, <2>2, <2>4, <2>5
<1>3. CASE r.action # "CREATE_USER"
  <2>1. Wire(r) = r
    BY <1>1, <1>3 DEF Wire
  <2> QED BY <1>1, <1>3, <2>1 DEF Requests, Service!Requests
<1> QED BY <1>2, <1>3

\* What a request is answered before any call is what the service answers at once.
LEMMA AtOnce ==
  ASSUME NEW r \in Requests
  PROVE  Service!Immediate(Wire(r)) =
           IF HandleAction(r, <<>>).kind = "reply"
           THEN [status |-> HandleAction(r, <<>>).status, body |-> HandleAction(r, <<>>).body]
           ELSE NULL
<1> DEFINE m == HandleAction(r, <<>>)
           i == Service!Immediate(Wire(r))
<1>0. Wire(r).action = r.action
  BY WireType
<1>1. CASE r.action = "CHECK_CONNECTION_WITH_SERVER"
  <2>1. m = Success
    BY <1>1 DEF HandleAction, HandleCheckConnectionWithServer
  <2> QED BY <1>0, <1>1, <2>1 DEF Service!Immediate, Success, Reply
<1>2. CASE r.action = "UNKNOWN"
  <2>1. m = Reply("UnknownAction", NULL)
    BY <1>2 DEF HandleAction
  <2>2. i = [status |-> "UnknownAction", body |-> NULL]
    BY <1>0, <1>2 DEF Service!Immediate
  <2>3. m.kind = "reply" /\ m.status = "UnknownAction" /\ m.body = NULL
    BY <2>1 DEF Reply
  <2> QED BY <2>2, <2>3
<1>3. CASE r.action \notin {"CHECK_CONNECTION_WITH_SERVER", "UNKNOWN"}
  <2>1. i = NULL
    BY <1>0, <1>3 DEF Service!Immediate
  <2>2. m.kind = "call"
    <3>1. CASE r.action = "CREATE_USER"
      BY <3>1 DEF HandleAction, HandleCreateUser, Call
    <3>2. CASE r.action = "VERIFY_USER"
      BY <3>2 DEF HandleAction, HandleVerifyUser, Call
    <3>3. CASE r.action = "SEND_MESSAGE_TO_USER"
      BY <3>3 DEF HandleAction, HandleSendMessageToUser, Call
    <3>4. CASE r.action = "SHOW_CHAT_HISTORY_WITH_USER"
      BY <3>4 DEF HandleAction, HandleShowChatHistoryWithUser, Call
    <3>5. CASE r.action = "LIST_USERS"
      BY <3>5 DEF HandleAction, HandleListUsers, Call
    <3>6. CASE r.action = "TRUNCATE_TABLES"
      BY <3>6 DEF HandleAction, HandleTruncateTables, Call
    <3> QED BY <1>3, <3>1, <3>2, <3>3, <3>4, <3>5, <3>6, ActionType
  <2> QED BY <2>1, <2>2
<1> QED BY <1>1, <1>2, <1>3

\* ReceiveJson returns a request: the service is asked.
LEMMA ReceiveStep ==
  ASSUME IInv, NEW h \in Handlers, ReceiveRequest(h)
  PROVE  Service!Session(h)
<1>1. PICK r \in Requests : request' = [request EXCEPT ![h] = r]
  BY DEF ReceiveRequest
<1>2. /\ UNCHANGED <<users, messages, connected, query, results>>
      /\ request[h] = NULL /\ results[h] = <<>> /\ query[h] = NULL
      /\ ~ Handling(h) /\ Handling(h)'
      /\ \A t \in Handlers : t # h => phase'[t] = phase[t] /\ request'[t] = request[t]
      /\ request'[h] = r
  BY <1>1 DEF ReceiveRequest, dbVars, Handling, IInv, HandlerOK, ResultsOK, VariablesOK
<1>3. \A t \in Handlers : t # h => Response(t)' = Response(t) /\ Misses(t)' = Misses(t)
  BY <1>2, SessionKept
<1>4. Response(h)' = Service!Immediate(Wire(r))
  <2>1. Move(h)' = HandleAction(r, <<>>)
    BY <1>2 DEF Move
  <2> QED BY <1>2, <2>1, AtOnce DEF Response, Replies, Running
<1>5. Response(h) = NULL /\ Misses(h) = FALSE /\ Misses(h)' = FALSE
  <2>1. Response(h) = NULL /\ Misses(h) = FALSE
    BY <1>2, NoResponse
  <2>2. \A l \in {<<1, request'[h].sender>>, <<2, request'[h].receiver>>} :
          l[1] \notin DOMAIN results'[h]
    BY <1>2
  <2>3. LookedUp(h)' = {}
    BY <2>2 DEF LookedUp
  <2> QED BY <2>1, <2>3 DEF Misses
<1>6. /\ Pending[h] = NULL
      /\ Pending' = [Pending EXCEPT ![h] = Wire(r)]
      /\ Responses' = [Responses EXCEPT ![h] = Service!Immediate(Wire(r))]
      /\ Missing' = Missing
  BY <1>2, <1>3, <1>4, <1>5 DEF Pending, Responses, Missing, Wire
<1>7. \A t \in Handlers : Handling(t) <=> Pending[t] # NULL
  <2> SUFFICES ASSUME NEW t \in Handlers PROVE Handling(t) <=> Pending[t] # NULL
    OBVIOUS
  <2>1. Handling(t) <=> request[t] # NULL
    BY DEF IInv, HandlerOK
  <2>2. request[t] \in Requests \union {NULL}
    BY DEF IInv, VariablesOK
  <2>3. Pending[t] = Wire(request[t])
    BY DEF Pending
  <2> QED BY <2>1, <2>2, <2>3, WireType DEF Wire
<1>8. contended' = [t \in Handlers |->
        IF t = h THEN \E o \in Handlers \ {h} : Pending[o] # NULL ELSE Pending[t] # NULL]
  <2>1. contended' = [t \in Handlers |->
          CASE t = h       -> \E o \in Handlers \ {h} : Handling(o)
            [] Handling(t) -> TRUE
            [] OTHER       -> FALSE]
    BY DEF ReceiveRequest
  <2>2. ASSUME NEW t \in Handlers
        PROVE  (CASE t = h       -> \E o \in Handlers \ {h} : Handling(o)
                  [] Handling(t) -> TRUE
                  [] OTHER       -> FALSE)
               = IF t = h THEN \E o \in Handlers \ {h} : Pending[o] # NULL
                 ELSE Pending[t] # NULL
    <3>1. CASE t = h
      <4>1. (\E o \in Handlers \ {h} : Handling(o)) = (\E o \in Handlers \ {h} : Pending[o] # NULL)
        BY <1>7
      <4> QED BY <1>2, <3>1, <4>1
    <3>2. CASE t # h /\ Handling(t)
      BY <1>7, <3>2
    <3>3. CASE t # h /\ ~ Handling(t)
      BY <1>7, <3>3
    <3> QED BY <3>1, <3>2, <3>3
  <2> QED BY <2>1, <2>2
<1>9. Service!Ask(h, Wire(r))
  BY <1>2, <1>6, <1>8, TablesKept DEF Service!Ask
<1> QED BY <1>9, WireType DEF Service!Session, Service!Request

\* What a response consists of.
LEMMA ReplyType ==
  ASSUME NEW req, NEW res, HeldBy(req, res), HandleAction(req, res).kind = "reply"
  PROVE  /\ HandleAction(req, res).status \in {"Success", "Error", "UnknownAction"}
         /\ HandleAction(req, res).body \in {NULL} \union SUBSET (Usernames \union ChatRows)
<1> DEFINE m    == HandleAction(req, res)
           Body == {NULL} \union SUBSET (Usernames \union ChatRows)
           OK(s, b) == s \in {"Success", "Error", "UnknownAction"} /\ b \in Body
<1> SUFFICES OK(m.status, m.body)
  OBVIOUS
<1>1. NULL \in Body /\ SUBSET Usernames \subseteq Body /\ SUBSET ChatRows \subseteq Body
  OBVIOUS
<1>2. m \in {Success, Error, Reply("UnknownAction", NULL)} => OK(m.status, m.body)
  BY <1>1 DEF Success, Error, Reply
<1>3. CASE req.action \in {"LIST_USERS", "SHOW_CHAT_HISTORY_WITH_USER"}
  <2>1. m = HandleListUsers(req, res) \/ m = HandleShowChatHistoryWithUser(req, res)
    BY <1>3 DEF HandleAction
  <2>2. res # <<>> /\ (m = Error \/ (res[1] # NULL /\ m = Reply("Success", res[1])))
    BY <2>1 DEF HandleListUsers, HandleShowChatHistoryWithUser, Call, HasValue
  <2>3. res[1] \in {NULL} \union RowsOf(req.action)
    BY <2>2, EmptySeq, ElementOfSeq, LenProperties DEF HeldBy
  <2>4. RowsOf(req.action) \subseteq Body
    BY <1>1, <1>3 DEF RowsOf
  <2> QED BY <1>1, <1>2, <2>2, <2>3, <2>4 DEF Reply
<1>4. CASE req.action \notin {"LIST_USERS", "SHOW_CHAT_HISTORY_WITH_USER"}
  <2>1. m \in {Success, Error, Reply("UnknownAction", NULL)}
    <3>1. CASE req.action = "CREATE_USER"
      BY <3>1 DEF HandleAction, HandleCreateUser, Call
    <3>2. CASE req.action = "VERIFY_USER"
      BY <3>2 DEF HandleAction, HandleVerifyUser, Call
    <3>3. CASE req.action = "SEND_MESSAGE_TO_USER"
      BY <3>3 DEF HandleAction, HandleSendMessageToUser, Call, Crash
    <3>4. CASE req.action = "TRUNCATE_TABLES"
      BY <3>4 DEF HandleAction, HandleTruncateTables, Call
    <3>5. CASE req.action = "CHECK_CONNECTION_WITH_SERVER"
      BY <3>5 DEF HandleAction, HandleCheckConnectionWithServer
    <3>6. CASE req.action = "UNKNOWN"
      BY <3>6 DEF HandleAction
    <3>7. req.action \in {"CREATE_USER", "VERIFY_USER", "SEND_MESSAGE_TO_USER",
             "SHOW_CHAT_HISTORY_WITH_USER", "LIST_USERS", "TRUNCATE_TABLES",
             "CHECK_CONNECTION_WITH_SERVER", "UNKNOWN"}
      BY ActionType DEF HeldBy
    <3> QED BY <1>4, <3>1, <3>2, <3>3, <3>4, <3>5, <3>6, <3>7
  <2> QED BY <1>2, <2>1
<1> QED BY <1>3, <1>4

\* SendJson, whether it fails or not: the session is ready for another request.
LEMMA ReplyStep ==
  ASSUME IInv, NEW h \in Handlers, SendResponse(h) \/ SendFails(h)
  PROVE  Service!Session(h)
<1>1. /\ Replies(h) /\ ~ Handling(h)'
      /\ UNCHANGED <<users, messages, connected, query>>
      /\ request' = [request EXCEPT ![h] = NULL]
      /\ contended' = [contended EXCEPT ![h] = FALSE]
      /\ \A t \in Handlers : t # h => phase'[t] = phase[t] /\ request'[t] = request[t]
                                        /\ results'[t] = results[t]
  BY DEF SendResponse, SendFails, Drop, Handling, IInv, VariablesOK
<1>2. \A t \in Handlers : t # h => Response(t)' = Response(t) /\ Misses(t)' = Misses(t)
  BY <1>1, SessionKept
<1>3. Misses(h) = FALSE /\ Response(h)' = NULL /\ Misses(h)' = FALSE
  BY <1>1 DEF Response, Misses, Replies, Running, LookedUp
<1>4. Response(h) # NULL
  <2>1. Response(h) = [status |-> Move(h).status, body |-> Move(h).body]
    BY <1>1 DEF Response
  <2>2. HeldBy(request[h], results[h])
    BY <1>1, Held DEF Replies, Running
  <2>3. /\ Move(h).status \in {"Success", "Error", "UnknownAction"}
        /\ Move(h).body \in {NULL} \union SUBSET (Usernames \union ChatRows)
    BY <1>1, <2>2, ReplyType DEF Move, Replies
  <2> QED BY <2>1, <2>3, DataAssumption
<1>5. /\ Pending' = [Pending EXCEPT ![h] = NULL]
      /\ Responses' = [Responses EXCEPT ![h] = NULL] /\ Responses[h] # NULL
      /\ Missing' = Missing
  BY <1>1, <1>2, <1>3, <1>4 DEF Pending, Responses, Missing, Wire, IInv, VariablesOK
<1>6. Service!Finish(h)
  BY <1>1, <1>5, TablesKept DEF Service!Finish
<1> QED BY <1>6 DEF Service!Session

\* A crash comes of an id that was looked up and not found.
LEMMA CrashMisses ==
  ASSUME NEW h \in Handlers, ServerCrashes(h), IInv
  PROVE  Misses(h)
<1> DEFINE req == request[h]
           res == results[h]
<1>1. Running(h) /\ Handling(h) /\ Move(h).kind = "crash"
  BY DEF ServerCrashes, Running
<1>2. ~ Replies(h)
  BY <1>1 DEF Replies
<1>3. req \in Requests /\ res \in Seq({NULL} \union RowsOf(req.action))
  BY <1>1, Held DEF HeldBy
<1>4. req.action = "SEND_MESSAGE_TO_USER" /\ Move(h) = HandleSendMessageToUser(req, res)
  <2>1. CASE req.action = "SEND_MESSAGE_TO_USER"
    BY <2>1 DEF Move, HandleAction
  <2>2. CASE req.action # "SEND_MESSAGE_TO_USER"
    <3>1. CASE req.action = "CREATE_USER"
      BY <1>1, <3>1 DEF Move, HandleAction, HandleCreateUser, Call, Success, Error, Reply
    <3>2. CASE req.action = "VERIFY_USER"
      BY <1>1, <3>2 DEF Move, HandleAction, HandleVerifyUser, Call, Success, Error, Reply
    <3>3. CASE req.action = "SHOW_CHAT_HISTORY_WITH_USER"
      BY <1>1, <3>3 DEF Move, HandleAction, HandleShowChatHistoryWithUser, Call, Error, Reply
    <3>4. CASE req.action = "LIST_USERS"
      BY <1>1, <3>4 DEF Move, HandleAction, HandleListUsers, Call, Error, Reply
    <3>5. CASE req.action = "TRUNCATE_TABLES"
      BY <1>1, <3>5 DEF Move, HandleAction, HandleTruncateTables, Call, Success, Error, Reply
    <3>6. CASE req.action \in {"CHECK_CONNECTION_WITH_SERVER", "UNKNOWN"}
      BY <1>1, <3>6 DEF Move, HandleAction, HandleCheckConnectionWithServer, Success, Reply
    <3> QED BY <1>3, <2>2, <3>1, <3>2, <3>3, <3>4, <3>5, <3>6, ActionType
  <2> QED BY <2>1, <2>2
<1>5. Len(res) = 2 /\ res[1] # NULL /\ res[2] # NULL /\ (res[1] = {} \/ res[2] = {})
  <2>1. Len(res) \notin {0, 1}
    BY <1>1, <1>4 DEF HandleSendMessageToUser, Call
  <2>2. Len(res) = 2
    BY <1>1, <1>4, <2>1 DEF HandleSendMessageToUser, Success, Error, Reply
  <2> QED BY <1>1, <1>4, <2>2 DEF HandleSendMessageToUser, HasValue, Call, Error, Reply
<1>6. DOMAIN res = {1, 2}
  BY <1>3, <1>5, LenProperties
<1>7. LookedUp(h) = {<<1, req.sender>>, <<2, req.receiver>>}
  BY <1>1, <1>4, <1>5, <1>6 DEF LookedUp
<1> QED BY <1>2, <1>5, <1>7 DEF Misses

\* The process dies: the service goes down, and had a reason to.
LEMMA CrashStep ==
  ASSUME IInv, NEW h \in Handlers, ServerCrashes(h)
  PROVE  Service!GoDown
<1>1. /\ UNCHANGED <<users, messages, connected>>
      /\ phase' = [t \in Handlers |-> "gone"] /\ request' = [t \in Handlers |-> NULL]
      /\ contended' = [t \in Handlers |-> FALSE]
  BY DEF ServerCrashes
<1>2. \A t \in Handlers : ~ Handling(t)'
  BY <1>1 DEF Handling
<1>3. \A t \in Handlers : Response(t)' = NULL /\ Misses(t)' = FALSE
  BY <1>2 DEF Response, Misses, Replies, Running, LookedUp
<1>4. /\ Pending' = [t \in Handlers |-> NULL]
      /\ Responses' = [t \in Handlers |-> NULL]
      /\ Missing' = [t \in Handlers |-> FALSE]
  BY <1>1, <1>3 DEF Pending, Responses, Missing, Wire
<1>5. Missing[h]
  BY CrashMisses DEF Missing
<1> QED BY <1>1, <1>4, <1>5, TablesKept DEF Service!GoDown, Service!Halt

\* The connection to PostgreSQL breaks, or a new process opens another.
LEMMA LinkStep ==
  ASSUME IInv, RefinementInv, Restart \/ ConnectionLost
  PROVE  Service!LoseLink \/ Service!RestoreLink
<1>1. UNCHANGED <<users, messages, query, results, phase, request, contended>>
  BY DEF Restart, ConnectionLost, LoseConnection, handlerVars
<1>2. UNCHANGED <<Accounts, Mail, Pending, Responses, Missing, contended>>
  BY <1>1, TablesKept, SessionKept DEF Pending, Responses, Missing
<1>3. CASE Restart
  <2>1. \A t \in Handlers : ~ Handling(t)
    BY <1>3 DEF Restart, RefinementInv, Handling
  <2>2. Pending = [t \in Handlers |-> NULL]
    BY <2>1 DEF Pending, Wire, IInv, HandlerOK
  <2> QED BY <1>2, <1>3, <2>2 DEF Restart, Service!RestoreLink
<1>4. CASE ConnectionLost
  BY <1>2, <1>4 DEF ConnectionLost, LoseConnection, Service!LoseLink
<1> QED BY <1>3, <1>4

(*********************************************************************************)
(* What the statements do to the accounts and the mail.                          *)
(*********************************************************************************)
LEMMA RegisteredIsNamed ==
  ASSUME IInv, NEW n \in Usernames
  PROVE  /\ Service!Registered(n) <=> Named(n) # {}
         /\ \A u \in users : u.username = n => Accounts[n] = u.password_hash.password
<1>1. ASSUME NEW u \in users, u.username = n
      PROVE  Named(n) = {u} /\ Accounts[n] = u.password_hash.password /\ Accounts[n] # NULL
  <2>1. \A v \in Named(n) : v = u
    BY <1>1 DEF Named, IInv, TablesOK, TablesConsistent
  <2>2. Named(n) = {u}
    BY <1>1, <2>1 DEF Named
  <2>3. Accounts[n] = u.password_hash.password
    BY <2>2 DEF Accounts, PasswordOf
  <2>4. u.password_hash \in Hashes
    BY <1>1 DEF IInv, TablesOK, UserRows
  <2>5. u.password_hash.password \in Passwords
    BY <2>4 DEF Hashes
  <2> QED BY <2>2, <2>3, <2>5, DataAssumption
<1>2. Named(n) = {} => Accounts[n] = NULL
  BY DEF Accounts, PasswordOf
<1>3. Named(n) # {} => \E u \in users : u.username = n
  BY DEF Named
<1> QED BY <1>1, <1>2, <1>3 DEF Service!Registered
LEMMA NamesKept ==
  ASSUME IInv, NEW q, InsertUser(q), NEW id \in IDs
  PROVE  NameOf(id)' = NameOf(id)
<1>1. PICK u \in users : u.user_id = id
  BY DEF IDs
<1>2. u \in users' /\ \A v \in users' : v.user_id = id => v = u
  BY <1>1 DEF InsertUser, IInv, TablesOK, TablesConsistent, UserRows
<1>3. \A v \in users : v.user_id = id => v = u
  BY <1>1 DEF IInv, TablesOK, TablesConsistent
<1>4. (CHOOSE v \in users' : v.user_id = id) = u
  BY <1>1, <1>2
<1>5. (CHOOSE v \in users : v.user_id = id) = u
  BY <1>1, <1>3
<1> QED BY <1>4, <1>5 DEF NameOf

\* A row of users is an account, and no id of the mail changes hands.
LEMMA Registering ==
  ASSUME IInv, NEW q \in Queries, InsertUser(q), Named(q.username) = {}
  PROVE  /\ Accounts' = [Accounts EXCEPT ![q.username] = q.hash.password]
         /\ Mail' = Mail
<1> DEFINE row == [user_id |-> nextUserId, username |-> q.username,
                   password_hash |-> q.hash, salt |-> q.salt]
<1>1. users' = users \union {row} /\ messages' = messages
  BY DEF InsertUser
<1>2. Named(q.username)' = {row}
  BY <1>1 DEF Named
<1>3. ASSUME NEW n \in Usernames, n # q.username PROVE Named(n)' = Named(n)
  BY <1>1, <1>3 DEF Named
<1>4. q.username \in Usernames
  BY DEF InsertUser, Queries, NameOps
<1>5. Accounts' = [Accounts EXCEPT ![q.username] = q.hash.password]
  <2>1. PasswordOf(q.username)' = q.hash.password
    <3>1. row \in Named(q.username)' /\ \A u \in Named(q.username)' : u = row
      BY <1>2
    <3>2. (CHOOSE u \in Named(q.username)' : TRUE) = row
      BY <3>1
    <3> QED BY <1>2, <3>2 DEF PasswordOf
  <2>2. ASSUME NEW n \in Usernames, n # q.username PROVE PasswordOf(n)' = PasswordOf(n)
    <3>1. CASE Named(n) = {}
      BY <1>3, <2>2, <3>1 DEF PasswordOf
    <3>2. CASE Named(n) # {}
      <4>1. PICK u \in Named(n) : \A v \in Named(n) : v = u
        BY <3>2 DEF Named, IInv, TablesOK, TablesConsistent
      <4>2. u \in Named(n)' /\ \A v \in Named(n)' : v = u
        BY <1>3, <2>2, <4>1
      <4>3. (CHOOSE v \in Named(n) : TRUE) = u /\ (CHOOSE v \in Named(n)' : TRUE) = u
        BY <4>1, <4>2
      <4> QED BY <4>1, <4>2, <4>3 DEF PasswordOf
    <3> QED BY <3>1, <3>2
  <2> QED BY <1>4, <2>1, <2>2 DEF Accounts
<1>6. Mail' = Mail
  <2>1. ASSUME NEW i \in DOMAIN messages
        PROVE  /\ NameOf(messages[i].sender_id)' = NameOf(messages[i].sender_id)
               /\ NameOf(messages[i].receiver_id)' = NameOf(messages[i].receiver_id)
    <3>1. messages[i].sender_id \in IDs /\ messages[i].receiver_id \in IDs
      BY <2>1 DEF IInv, TablesOK, TablesConsistent
    <3>2. PICK s \in IDs, r \in IDs : messages[i].sender_id = s /\ messages[i].receiver_id = r
      BY <3>1
    <3>3. (messages[i].sender_id)' = s /\ (messages[i].receiver_id)' = r
      BY <1>1, <3>2
    <3>4. /\ NameOf(messages[i].sender_id)' = NameOf(s)'
          /\ NameOf(messages[i].receiver_id)' = NameOf(r)'
      BY <3>3 DEF NameOf
    <3> QED BY <3>2, <3>4, NamesKept
  <2> QED BY <1>1, <2>1 DEF Mail
<1> QED BY <1>5, <1>6

\* A row of messages is a letter.
LEMMA Delivering ==
  ASSUME IInv, NEW q, InsertMessage(q)
  PROVE  /\ Mail' = Append(Mail, [from |-> NameOf(q.senderID), to |-> NameOf(q.receiverID),
                                  content |-> q.content])
         /\ Accounts' = Accounts
<1> DEFINE row  == [sender_id |-> q.senderID, receiver_id |-> q.receiverID,
                    content |-> q.content]
           letter == [from |-> NameOf(q.senderID), to |-> NameOf(q.receiverID),
                      content |-> q.content]
<1>1. users' = users /\ messages' = Append(messages, row)
  BY DEF InsertMessage
<1>2. PICK n \in Nat : n = Len(messages) /\ DOMAIN messages = 1 .. n
  BY LenProperties DEF IInv, TablesOK
<1>3. messages' = [i \in 1 .. n + 1 |-> IF i = n + 1 THEN row ELSE messages[i]]
  BY <1>1, <1>2, AppendProperties DEF IInv, TablesOK
<1>4. Mail \in Seq({Mail[i] : i \in 1 .. n}) /\ Len(Mail) = n
  BY <1>2 DEF Mail
<1>5. Append(Mail, letter) = [i \in 1 .. n + 1 |-> IF i = n + 1 THEN letter ELSE Mail[i]]
  BY <1>4, AppendProperties
<1>6. \A id : NameOf(id)' = NameOf(id)
  BY <1>1 DEF NameOf
<1>7. ASSUME NEW i \in 1 .. n + 1
      PROVE  [from    |-> NameOf(messages'[i].sender_id),
              to      |-> NameOf(messages'[i].receiver_id),
              content |-> messages'[i].content] = IF i = n + 1 THEN letter ELSE Mail[i]
  <2>1. CASE i = n + 1
    BY <1>3, <2>1
  <2>2. CASE i # n + 1
    BY <1>2, <1>3, <2>2 DEF Mail
  <2> QED BY <2>1, <2>2
<1>8. Mail' = [i \in 1 .. n + 1 |-> [from    |-> NameOf(messages'[i].sender_id),
                                      to      |-> NameOf(messages'[i].receiver_id),
                                      content |-> messages'[i].content]]
  <2>1. DOMAIN messages' = 1 .. n + 1
    BY <1>3
  <2> QED BY <1>1, <2>1 DEF Mail, NameOf
<1>9. Accounts' = Accounts
  BY <1>1 DEF Accounts, PasswordOf, Named
<1> QED BY <1>5, <1>7, <1>8, <1>9

\* Empty tables are no accounts and no mail.
LEMMA Clearing ==
  ASSUME NEW q, TruncateTables(q)
  PROVE  Accounts' = [n \in Usernames |-> NULL] /\ Mail' = <<>>
<1>1. users' = {} /\ messages' = <<>>
  BY DEF TruncateTables
<1>2. \A n : Named(n)' = {}
  BY <1>1 DEF Named
<1>3. Accounts' = [n \in Usernames |-> NULL]
  BY <1>2 DEF Accounts, PasswordOf
<1>4. Mail' = <<>>
  BY <1>1 DEF Mail
<1> QED BY <1>3, <1>4

\* A statement can be stored or looked up when the names and texts of its request can:
\* salts, hashes and ids hold no apostrophe.
LEMMA Spliced ==
  ASSUME NEW q \in Queries
  PROVE  WellFormed(q) <=>
           /\ q.op \in {"CreateUser"} \union NameOps => q.username \notin Apostrophe
           /\ q.op = "ListMessages" => q.sender \notin Apostrophe /\ q.receiver \notin Apostrophe
           /\ q.op = "CreateMessage" => q.content \notin Apostrophe
  BY DataAssumption DEF WellFormed, Queries, NameOps

\* The request of a handler is the one its session asks for.
LEMMA Asked ==
  ASSUME IInv, NEW h \in Handlers, Handling(h)
  PROVE  /\ request[h] \in Requests
         /\ Pending[h] # NULL /\ Pending[h].action = request[h].action
         /\ \A a : Service!Asks(h, a) <=> request[h].action = a
         /\ request[h].action \in {"CREATE_USER", "VERIFY_USER"} =>
              /\ Pending[h].username = request[h].username
              /\ Pending[h].password = request[h].password
              /\ Service!Storable(h) <=> request[h].username \notin Apostrophe
         /\ request[h].action = "SEND_MESSAGE_TO_USER" =>
              /\ Pending[h] = request[h]
              /\ Service!Storable(h) <=> /\ request[h].sender \notin Apostrophe
                                         /\ request[h].receiver \notin Apostrophe
                                         /\ request[h].content \notin Apostrophe
         /\ request[h].action = "SHOW_CHAT_HISTORY_WITH_USER" =>
              /\ Pending[h] = request[h]
              /\ Service!Storable(h) <=> /\ request[h].sender \notin Apostrophe
                                         /\ request[h].receiver \notin Apostrophe
<1> DEFINE req == request[h]
<1>1. req \in Requests /\ req # NULL /\ Pending[h] = Wire(req)
  BY Held, HandlerAssumption DEF HeldBy, Pending
<1>2. Pending[h] # NULL /\ Pending[h].action = req.action
  BY <1>1, WireType
<1>3. \A a : Service!Asks(h, a) <=> req.action = a
  BY <1>2 DEF Service!Asks
<1>4. req.action # "CREATE_USER" => Pending[h] = req
  BY <1>1 DEF Wire
<1>5. CASE req.action = "CREATE_USER"
  <2>1. Pending[h] = [action |-> req.action, username |-> req.username, password |-> req.password]
    BY <1>1, <1>5 DEF Wire
  <2>2. DOMAIN Pending[h] \ {"action", "password"} = {"username"}
    BY <2>1
  <2> QED BY <1>1, <1>2, <1>3, <1>5, <2>1, <2>2 DEF Service!Storable
<1>6. CASE req.action = "VERIFY_USER"
  <2>1. DOMAIN Pending[h] \ {"action", "password"} = {"username"}
    BY <1>1, <1>4, <1>6 DEF Requests
  <2> QED BY <1>1, <1>2, <1>3, <1>4, <1>6, <2>1 DEF Service!Storable
<1>7. CASE req.action = "SEND_MESSAGE_TO_USER"
  <2>1. DOMAIN Pending[h] \ {"action", "password"} = {"sender", "receiver", "content"}
    BY <1>1, <1>4, <1>7 DEF Requests
  <2> QED BY <1>1, <1>2, <1>3, <1>4, <1>7, <2>1 DEF Service!Storable
<1>8. CASE req.action = "SHOW_CHAT_HISTORY_WITH_USER"
  <2>1. DOMAIN Pending[h] \ {"action", "password"} = {"sender", "receiver"}
    BY <1>1, <1>4, <1>8 DEF Requests
  <2> QED BY <1>1, <1>2, <1>3, <1>4, <1>8, <2>1 DEF Service!Storable
<1> QED BY <1>1, <1>2, <1>3, <1>5, <1>6, <1>7, <1>8

(*********************************************************************************)
(* What the return of a call is to the service.                                  *)
(*********************************************************************************)
LEMMA AnswerFrame ==
  ASSUME IInv, NEW h \in Handlers, NEW q, NEW r, Answers(h, q, r)
  PROVE  /\ UNCHANGED <<Pending, contended, connected>>
         /\ Responses[h] = NULL /\ ~ Replies(h) /\ Running(h)'
         /\ Move(h)' = HandleAction(request[h], Append(results[h], r))
         /\ Responses' = [Responses EXCEPT ![h] = Response(h)']
         /\ Missing' = [Missing EXCEPT ![h] = Misses(h)']
<1>1. /\ UNCHANGED <<phase, request, contended, connected>>
      /\ results'[h] = Append(results[h], r) /\ query'[h] = NULL
      /\ Handling(h) /\ Move(h).kind = "call"
      /\ \A t \in Handlers : t # h => results'[t] = results[t] /\ query'[t] = query[t]
  BY DEF Answers, IInv, VariablesOK
<1>2. \A t \in Handlers : t # h => Response(t)' = Response(t) /\ Misses(t)' = Misses(t)
  BY <1>1, SessionKept
<1>3. ~ Replies(h) /\ Response(h) = NULL
  BY <1>1 DEF Replies, Response
<1>4. Move(h)' = HandleAction(request[h], Append(results[h], r)) /\ Running(h)'
  BY <1>1 DEF Move, Running, Handling
<1>5. Responses' = [Responses EXCEPT ![h] = Response(h)']
  BY <1>2 DEF Responses
<1>6. Missing' = [Missing EXCEPT ![h] = Misses(h)']
  BY <1>2 DEF Missing
<1> QED BY <1>1, <1>3, <1>4, <1>5, <1>6 DEF Pending, Responses

\* The call is the last of its request.
LEMMA Decided ==
  ASSUME IInv, NEW h \in Handlers, NEW q, NEW r, Answers(h, q, r),
         NEW status, NEW body, Move(h)' = Reply(status, body)
  PROVE  Service!Answer(h, status, body)
<1>1. Replies(h)'
  BY AnswerFrame DEF Replies, Reply
<1>2. Move(h)'.status = status /\ Move(h)'.body = body
  BY DEF Reply
<1>3. Response(h)' = [status |-> status, body |-> body] /\ Misses(h)' = FALSE
  BY <1>1, <1>2 DEF Response, Misses
<1> QED BY <1>3, AnswerFrame DEF Service!Answer

\* The call is not the last, and it is no lookup of a name that is nobody's.
LEMMA Continued ==
  ASSUME IInv, NEW h \in Handlers, NEW q, NEW r, Answers(h, q, r),
         Move(h)'.kind # "reply", Misses(h)' = Misses(h), UNCHANGED <<users, messages>>
  PROVE  UNCHANGED Service!svars
<1>1. ~ Replies(h)'
  BY DEF Replies
<1>2. Response(h)' = NULL
  BY <1>1 DEF Response
<1>3. Responses' = Responses /\ Missing' = Missing
  BY <1>2, AnswerFrame DEF Responses, Missing
<1> QED BY <1>3, AnswerFrame, TablesKept DEF Service!svars

\* The call was the last of a request that is answered Error, for a reason.
LEMMA Refused ==
  ASSUME IInv, NEW h \in Handlers, NEW q, NEW r, Answers(h, q, r), Move(h)' = Error,
         Service!Reason(h) \/ contended[h] \/ ~ connected, UNCHANGED <<users, messages>>
  PROVE  Service!Refuse(h)
<1>1. Service!Answer(h, "Error", NULL)
  BY Decided DEF Error
<1>2. Handling(h) /\ HeldBy(request[h], results[h])
      /\ HandleAction(request[h], results[h]).kind = "call"
  BY DEF Answers, Move
<1>3. request[h].action \notin {"CHECK_CONNECTION_WITH_SERVER", "UNKNOWN"}
  BY <1>2, CallType DEF Makes
<1> QED BY <1>1, <1>2, <1>3, Asked, TablesKept DEF Service!Refuse

\* A call that changed the tables ends its request, whether it is known to have done so or not.
LEMMA Changed ==
  ASSUME IInv, NEW h \in Handlers, NEW q, NEW r, Answers(h, q, r), Service!Change(h),
         Move(h)' = IF r = NULL THEN Error ELSE Success, r = NULL => ~ connected,
         r # NULL => connected
  PROVE  Service!Session(h)
<1>1. CASE r = NULL
  BY <1>1, Decided DEF Error, Service!RefuseAfterChange, Service!Session
<1>2. CASE r # NULL
  BY <1>2, Decided DEF Success, Service!Serve, Service!Session
<1> QED BY <1>1, <1>2

\* Only three statements change the tables.
LEMMA SelectsKeep ==
  ASSUME NEW h, NEW q, NEW r, Answers(h, q, r), Rows(q) # NULL,
         q.op \notin {"CreateUser", "CreateMessage", "ClearDatabase"}
  PROVE  /\ UNCHANGED <<users, messages>>
         /\ r = NULL => contended[h] \/ ~ connected \/ ~ WellFormed(q)
         /\ r # NULL => r = Rows(q) /\ WellFormed(q)
<1>1. Succeeds(h, q, r) \/ Fails(h, q, r) \/ IsLost(h, q, r)
  BY DEF Answers
<1>2. Effect(q) => UNCHANGED <<users, messages>>
  BY DEF Effect, InsertUser, InsertMessage, TruncateTables, Select
<1>3. Accepted(q) <=> WellFormed(q)
  BY DEF Accepted, ConstraintsHold
<1> QED BY <1>1, <1>2, <1>3 DEF Succeeds, Fails, IsLost

\* CREATE_USER registers, or is refused.
LEMMA CreateUserStep ==
  ASSUME NullIsNoRows, IInv, NEW h \in Handlers, NEW q,
         NEW r \in {NULL} \union RowsOf(request[h].action), Answers(h, q, r),
         request[h].action = "CREATE_USER"
  PROVE  Service!Session(h)
<1> DEFINE req == request[h]
<1>1. /\ HeldBy(req, results[h]) /\ Handling(h) /\ q \in Queries
      /\ HandleAction(req, results[h]).kind = "call" /\ q = HandleAction(req, results[h]).query
      /\ Succeeds(h, q, r) \/ Fails(h, q, r) \/ IsLost(h, q, r)
  BY DEF Answers, Move
<1>2. /\ q = CreateUser(req.username, HashPasswordWithSalt(req.password, req.salt), req.salt)
      /\ Move(h)' = IF r = NULL THEN Error ELSE Success
  <2>1. HandleAction(req, Append(results[h], r)) = IF r = NULL THEN Error ELSE Success
    BY <1>1, OneCall
  <2>2. q = CreateUser(req.username, HashPasswordWithSalt(req.password, req.salt), req.salt)
    BY <1>1, OneCall
  <2> QED BY <2>1, <2>2, AnswerFrame
<1>3. q.op = "CreateUser" /\ q.username = req.username /\ q.hash.password = req.password
  BY <1>2 DEF CreateUser, HashPasswordWithSalt
<1>4. /\ Pending[h].username = req.username /\ Pending[h].password = req.password
      /\ Service!Asks(h, "CREATE_USER")
      /\ Service!Storable(h) <=> req.username \notin Apostrophe
      /\ req.username \in Usernames
  BY <1>1, Asked DEF Requests
<1>5. /\ WellFormed(q) <=> Service!Storable(h)
      /\ ConstraintsHold(q) <=> ~ Service!Registered(req.username)
  <2>1. WellFormed(q) <=> Service!Storable(h)
    BY <1>1, <1>3, <1>4, Spliced DEF NameOps
  <2>2. ConstraintsHold(q) <=> Named(req.username) = {}
    BY <1>3 DEF ConstraintsHold
  <2> QED BY <1>4, <2>1, <2>2, RegisteredIsNamed
<1>6. ASSUME Accepted(q), Effect(q), r = NULL => ~ connected, r # NULL => connected
      PROVE  Service!Session(h)
  <2>1. InsertUser(q) /\ Named(q.username) = {}
    BY <1>3, <1>6 DEF Effect, InsertMessage, TruncateTables, Select, NameOps, Accepted,
       ConstraintsHold
  <2>2. /\ Accounts' = [Accounts EXCEPT ![Pending[h].username] = Pending[h].password]
        /\ Mail' = Mail
    BY <1>1, <1>3, <1>4, <2>1, Registering
  <2>3. Service!Storable(h) /\ ~ Service!Registered(Pending[h].username)
    BY <1>4, <1>5, <1>6 DEF Accepted
  <2>4. Service!Change(h)
    BY <1>4, <2>2, <2>3 DEF Service!Change, Service!Register
  <2> QED BY <1>2, <1>6, <2>4, Changed
<1>7. CASE Fails(h, q, r)
  <2>1. r = NULL /\ UNCHANGED <<users, messages>> /\ Move(h)' = Error
    BY <1>2, <1>7 DEF Fails
  <2>2. Service!Reason(h) \/ contended[h] \/ ~ connected
    BY <1>4, <1>5, <1>7 DEF Fails, Accepted, Service!Reason
  <2> QED BY <2>1, <2>2, Refused DEF Service!Session
<1>8. Rows(q) # NULL
  <2>1. Makes(req.action, q.op)
    BY <1>1, CallType
  <2> QED BY <1>1, <2>1, RowsNotNull
<1> QED BY <1>1, <1>6, <1>7, <1>8 DEF Succeeds, IsLost

\* TRUNCATE_TABLES clears, or is refused.
LEMMA TruncateTablesStep ==
  ASSUME NullIsNoRows, IInv, NEW h \in Handlers, NEW q,
         NEW r \in {NULL} \union RowsOf(request[h].action), Answers(h, q, r),
         request[h].action = "TRUNCATE_TABLES"
  PROVE  Service!Session(h)
<1> DEFINE req == request[h]
<1>1. /\ HeldBy(req, results[h]) /\ Handling(h) /\ q \in Queries
      /\ HandleAction(req, results[h]).kind = "call" /\ q = HandleAction(req, results[h]).query
      /\ Succeeds(h, q, r) \/ Fails(h, q, r) \/ IsLost(h, q, r)
  BY DEF Answers, Move
<1>2. q = ClearDatabase /\ Move(h)' = IF r = NULL THEN Error ELSE Success
  <2>1. HandleAction(req, Append(results[h], r)) = IF r = NULL THEN Error ELSE Success
    BY <1>1, OneCall
  <2>2. q = ClearDatabase
    BY <1>1, OneCall
  <2> QED BY <2>1, <2>2, AnswerFrame
<1>3. q.op = "ClearDatabase"
  BY <1>2 DEF ClearDatabase
<1>4. Accepted(q)
  BY <1>1, <1>3, Spliced DEF Accepted, ConstraintsHold, NameOps
<1>5. ASSUME Effect(q), r = NULL => ~ connected, r # NULL => connected
      PROVE  Service!Session(h)
  <2>1. TruncateTables(q)
    BY <1>3, <1>5 DEF Effect, InsertUser, InsertMessage, Select, NameOps
  <2>2. Service!Change(h)
    BY <1>1, <2>1, Asked, Clearing DEF Service!Change, Service!Clear
  <2> QED BY <1>2, <1>5, <2>2, Changed
<1>6. CASE Fails(h, q, r)
  BY <1>2, <1>4, <1>6, Refused DEF Fails, Service!Session
<1>7. Rows(q) # NULL
  <2>1. Makes(req.action, q.op)
    BY <1>1, CallType
  <2> QED BY <1>1, <2>1, RowsNotNull
<1> QED BY <1>1, <1>5, <1>6, <1>7 DEF Succeeds, IsLost

\* LIST_USERS lists, or is refused.
LEMMA ListUsersStep ==
  ASSUME NullIsNoRows, IInv, NEW h \in Handlers, NEW q,
         NEW r \in {NULL} \union RowsOf(request[h].action), Answers(h, q, r),
         request[h].action = "LIST_USERS"
  PROVE  Service!Session(h)
<1> DEFINE req == request[h]
<1>1. /\ HeldBy(req, results[h]) /\ Handling(h) /\ q \in Queries
      /\ HandleAction(req, results[h]).kind = "call" /\ q = HandleAction(req, results[h]).query
  BY DEF Answers, Move
<1>2. q = ListUsers /\ Move(h)' = IF r = NULL THEN Error ELSE Reply("Success", r)
  <2>1. HandleAction(req, Append(results[h], r)) = IF r = NULL THEN Error ELSE Reply("Success", r)
    BY <1>1, OneCall
  <2>2. q = ListUsers
    BY <1>1, OneCall
  <2> QED BY <2>1, <2>2, AnswerFrame
<1>3. q.op = "ListUsers" /\ WellFormed(q)
  <2>1. q.op = "ListUsers"
    BY <1>2 DEF ListUsers
  <2> QED BY <1>1, <2>1, Spliced DEF NameOps
<1>4. Rows(q) # NULL
  <2>1. Makes(req.action, q.op)
    BY <1>1, CallType
  <2> QED BY <1>1, <2>1, RowsNotNull
<1>5. /\ UNCHANGED <<users, messages>>
      /\ r = NULL => contended[h] \/ ~ connected
      /\ r # NULL => r = Rows(q)
  BY <1>3, <1>4, SelectsKeep
<1>6. CASE r = NULL
  BY <1>2, <1>5, <1>6, Refused DEF Service!Session
<1>7. CASE r # NULL
  <2>1. r = {u.username : u \in users}
    BY <1>3, <1>5, <1>7 DEF Rows
  <2>2. ASSUME NEW n \in Usernames PROVE n \in r <=> Service!Registered(n)
    BY <2>1, RegisteredIsNamed DEF Named
  <2>3. r \subseteq Usernames
    BY <2>1 DEF IInv, TablesOK, UserRows
  <2>4. r = {n \in Usernames : Service!Registered(n)}
    BY <2>2, <2>3
  <2>5. Service!Answer(h, "Success", r)
    BY <1>2, <1>7, Decided
  <2> QED BY <1>1, <1>5, <2>4, <2>5, Asked, TablesKept DEF Service!List, Service!Session
<1> QED BY <1>6, <1>7

\* SHOW_CHAT_HISTORY_WITH_USER shows, or is refused.
LEMMA ShowChatHistoryStep ==
  ASSUME NullIsNoRows, IInv, NEW h \in Handlers, NEW q,
         NEW r \in {NULL} \union RowsOf(request[h].action), Answers(h, q, r),
         request[h].action = "SHOW_CHAT_HISTORY_WITH_USER"
  PROVE  Service!Session(h)
<1> DEFINE req == request[h]
<1>1. /\ HeldBy(req, results[h]) /\ Handling(h) /\ q \in Queries
      /\ HandleAction(req, results[h]).kind = "call" /\ q = HandleAction(req, results[h]).query
  BY DEF Answers, Move
<1>2. /\ q = ListMessages(req.sender, req.receiver)
      /\ Move(h)' = IF r = NULL THEN Error ELSE Reply("Success", r)
  <2>1. HandleAction(req, Append(results[h], r)) = IF r = NULL THEN Error ELSE Reply("Success", r)
    BY <1>1, OneCall
  <2>2. q = ListMessages(req.sender, req.receiver)
    BY <1>1, OneCall
  <2> QED BY <2>1, <2>2, AnswerFrame
<1>3. q.op = "ListMessages" /\ q.sender = req.sender /\ q.receiver = req.receiver
  BY <1>2 DEF ListMessages
<1>4. /\ Pending[h] = req /\ Service!Asks(h, "SHOW_CHAT_HISTORY_WITH_USER")
      /\ WellFormed(q) <=> Service!Storable(h)
  BY <1>1, <1>3, Asked, Spliced DEF NameOps
<1>5. Rows(q) # NULL
  <2>1. Makes(req.action, q.op)
    BY <1>1, CallType
  <2> QED BY <1>1, <2>1, RowsNotNull
<1>6. /\ UNCHANGED <<users, messages>>
      /\ r = NULL => contended[h] \/ ~ connected \/ ~ WellFormed(q)
      /\ r # NULL => r = Rows(q) /\ WellFormed(q)
  BY <1>3, <1>5, SelectsKeep
<1>7. CASE r = NULL
  BY <1>2, <1>4, <1>6, <1>7, Refused DEF Service!Reason, Service!Session
<1>8. CASE r # NULL
  <2>1. r = Chat(req.sender, req.receiver)
    BY <1>3, <1>6, <1>8 DEF Rows
  <2>2. DOMAIN Mail = DOMAIN messages
    BY DEF Mail
  <2>3. ASSUME NEW i \in DOMAIN messages
        PROVE  /\ Mail[i].from = NameOf(messages[i].sender_id)
               /\ Mail[i].content = messages[i].content
               /\ Between(i, req.sender, req.receiver) <=>
                    {Mail[i].from, Mail[i].to} = {req.sender, req.receiver}
    <3>1. /\ Mail[i].from = NameOf(messages[i].sender_id)
          /\ Mail[i].to = NameOf(messages[i].receiver_id)
          /\ Mail[i].content = messages[i].content
      BY DEF Mail
    <3>2. \A a, b, c, d : {a, b} = {c, d} <=> (a = c /\ b = d) \/ (a = d /\ b = c)
      OBVIOUS
    <3>3. Between(i, req.sender, req.receiver) <=>
            \/ Mail[i].from = req.sender /\ Mail[i].to = req.receiver
            \/ Mail[i].from = req.receiver /\ Mail[i].to = req.sender
      BY <3>1 DEF Between, Sent
    <3> QED BY <3>1, <3>2, <3>3
  <2>4. r = Service!Between(req.sender, req.receiver)
    BY <2>1, <2>2, <2>3 DEF Chat, Service!Between
  <2>5. Service!Answer(h, "Success", r)
    BY <1>2, <1>8, Decided
  <2>6. Service!Answer(h, "Success", Service!Between(Pending[h].sender, Pending[h].receiver))
    BY <1>4, <2>4, <2>5
  <2> QED BY <1>4, <1>6, <1>8, <2>6, TablesKept DEF Service!Show, Service!Session
<1> QED BY <1>7, <1>8

\* A name has one row, and the lookups of its salt and hash return one field each.
LEMMA OneRow ==
  ASSUME IInv, NEW n \in Usernames, NEW u \in users, u.username = n
  PROVE  /\ Rows(GetSaltByUsername(n)) = {u.salt}
         /\ Rows(GetPasswordHashByUsername(n)) = {u.password_hash}
         /\ Rows(GetIDByUsername(n)) = {u.user_id}
<1>1. Named(n) = {u}
  <2>1. \A v \in Named(n) : v = u
    BY DEF Named, IInv, TablesOK, TablesConsistent
  <2> QED BY <2>1 DEF Named
<1>2. Rows(GetSaltByUsername(n)) = {u.salt}
  BY <1>1 DEF Rows, GetSaltByUsername
<1>3. Rows(GetPasswordHashByUsername(n)) = {u.password_hash}
  BY <1>1 DEF Rows, GetPasswordHashByUsername
<1>4. Rows(GetIDByUsername(n)) = {u.user_id}
  BY <1>1 DEF Rows, GetIDByUsername
<1> QED BY <1>2, <1>3, <1>4

\* The statements that look a name up are well-formed if the name is.
LEMMA LookupSpliced ==
  ASSUME NEW n \in Usernames
  PROVE  /\ WellFormed(GetSaltByUsername(n)) <=> n \notin Apostrophe
         /\ WellFormed(GetPasswordHashByUsername(n)) <=> n \notin Apostrophe
         /\ WellFormed(GetIDByUsername(n)) <=> n \notin Apostrophe
  BY DEF WellFormed, GetSaltByUsername, GetPasswordHashByUsername, GetIDByUsername

\* VERIFY_USER takes effect at its second read: whatever the first one returned, it verifies
\* the account of that instant, or is refused.
LEMMA VerifyUserStep ==
  ASSUME NullIsNoRows, IInv, RefinementInv, NEW h \in Handlers, NEW q,
         NEW r \in {NULL} \union RowsOf(request[h].action), Answers(h, q, r),
         request[h].action = "VERIFY_USER"
  PROVE  Service!Session(h) \/ UNCHANGED Service!svars
<1> DEFINE req   == request[h]
           n     == req.username
           salts == results[h][1]
           Match == /\ r # NULL /\ salts # NULL /\ r # {} /\ salts # {}
                    /\ VerifyPassword(req.password, FirstField(r), FirstField(salts))
<1>1. /\ HeldBy(req, results[h]) /\ Handling(h) /\ q \in Queries
      /\ HandleAction(req, results[h]).kind = "call" /\ q = HandleAction(req, results[h]).query
      /\ request' = request
  BY DEF Answers, Move
<1>2. \/ /\ q = GetSaltByUsername(n) /\ Move(h)' = Call(GetPasswordHashByUsername(n))
      \/ /\ Len(results[h]) = 1 /\ q = GetPasswordHashByUsername(n)
         /\ Move(h)' = IF Match THEN Success ELSE Error
  <2>1. Move(h)' = HandleAction(req, Append(results[h], r))
    BY AnswerFrame
  <2> QED BY <1>1, <2>1, TwoCalls
<1>3. q.op \in {"GetSaltByUsername", "GetPasswordHashByUsername"} /\ q.username = n
  BY <1>2 DEF GetSaltByUsername, GetPasswordHashByUsername
<1>4. Rows(q) # NULL
  <2>1. Makes(req.action, q.op)
    BY <1>1, CallType
  <2> QED BY <1>1, <2>1, RowsNotNull
<1>5. /\ UNCHANGED <<users, messages>>
      /\ r = NULL => contended[h] \/ ~ connected \/ ~ WellFormed(q)
      /\ r # NULL => r = Rows(q) /\ WellFormed(q)
  BY <1>3, <1>4, SelectsKeep
<1>6. /\ Pending[h].username = n /\ Pending[h].password = req.password
      /\ Service!Asks(h, "VERIFY_USER")
      /\ Service!Storable(h) <=> n \notin Apostrophe
      /\ n \in Usernames /\ req.password \in Passwords
  BY <1>1, Asked DEF Requests
<1>7. CASE Move(h)' = Call(GetPasswordHashByUsername(n))
  <2>1. Misses(h) = FALSE /\ Misses(h)' = FALSE
    BY <1>1 DEF Misses, LookedUp
  <2>2. Move(h)'.kind # "reply"
    BY <1>7 DEF Call
  <2> QED BY <1>5, <2>1, <2>2, Continued
<1>8. CASE /\ Len(results[h]) = 1 /\ q = GetPasswordHashByUsername(n)
           /\ Move(h)' = IF Match THEN Success ELSE Error
  <2>1. IF salts = NULL THEN contended[h] \/ ~ connected \/ n \in Apostrophe
        ELSE n \notin Apostrophe /\ (contended[h] \/ salts = Rows(GetSaltByUsername(n)))
    <3>1. 1 \in DOMAIN results[h]
      BY <1>1, <1>8, LenProperties DEF HeldBy
    <3>2. <<1, GetSaltByUsername(n)>> \in Lookups(h)
      BY <1>1 DEF Lookups
    <3> QED BY <1>6, <3>1, <3>2, LookupSpliced DEF RefinementInv, LookupsOK
  <2>2. /\ r = NULL => contended[h] \/ ~ connected \/ n \in Apostrophe
        /\ r # NULL => r = Rows(GetPasswordHashByUsername(n)) /\ n \notin Apostrophe
    BY <1>5, <1>6, <1>8, LookupSpliced
  <2>3. CASE Match
    <3>1. r = {u.password_hash : u \in Named(n)} /\ r # {}
      BY <1>3, <1>8, <2>2, <2>3 DEF Rows, GetPasswordHashByUsername
    <3>2. PICK u \in users : u.username = n
      BY <3>1 DEF Named
    <3>3. r = {u.password_hash}
      BY <1>6, <2>2, <2>3, <3>2, OneRow
    <3>4. u.password_hash.password = req.password
      <4>1. FirstField(r) = u.password_hash
        BY <3>3 DEF FirstField
      <4>2. HashPasswordWithSalt(req.password, FirstField(salts)) = u.password_hash
        BY <2>3, <4>1 DEF VerifyPassword
      <4>3. HashPasswordWithSalt(req.password, FirstField(salts)).password = req.password
        BY DEF HashPasswordWithSalt
      <4> QED BY <4>2, <4>3
    <3>5. Accounts[n] = req.password
      BY <1>6, <3>2, <3>4, RegisteredIsNamed
    <3>6. Service!Answer(h, "Success", NULL)
      BY <1>8, <2>3, Decided DEF Success
    <3>7. Service!Storable(h)
      BY <1>6, <2>2, <2>3
    <3> QED BY <1>5, <1>6, <3>5, <3>6, <3>7, TablesKept DEF Service!Verify, Service!Session
  <2>4. CASE ~ Match
    <3>1. ASSUME ~ contended[h], connected, n \notin Apostrophe, Accounts[n] = req.password
          PROVE  FALSE
      <4>1. PICK u \in users : u.username = n
        BY <1>6, <3>1, RegisteredIsNamed, DataAssumption DEF Service!Registered, Named
      <4>2. r = {u.password_hash} /\ salts = {u.salt} /\ r # NULL /\ salts # NULL
        BY <1>6, <2>1, <2>2, <3>1, <4>1, OneRow
      <4>3. FirstField(r) = u.password_hash /\ FirstField(salts) = u.salt
        BY <4>2 DEF FirstField
      <4>4. u.password_hash \in Hashes
        BY DEF IInv, TablesOK, UserRows
      <4>5. u.password_hash.password = req.password /\ u.password_hash.salt = u.salt
        BY <1>6, <3>1, <4>1, RegisteredIsNamed DEF RefinementInv
      <4>6. HashPasswordWithSalt(req.password, u.salt) = u.password_hash
        BY <4>4, <4>5 DEF HashPasswordWithSalt, Hashes
      <4> QED BY <2>4, <4>2, <4>3, <4>6 DEF VerifyPassword
    <3>2. Service!Reason(h) \/ contended[h] \/ ~ connected
      BY <1>6, <3>1 DEF Service!Reason
    <3> QED BY <1>5, <1>8, <2>4, <3>2, Refused DEF Service!Session
  <2> QED BY <2>3, <2>4
<1> QED BY <1>2, <1>7, <1>8

\* An id was looked up for a name that is nobody's, and the request goes on.
LEMMA MissStep ==
  ASSUME IInv, NEW h \in Handlers, NEW q, NEW r, Answers(h, q, r),
         request[h].action = "SEND_MESSAGE_TO_USER", Move(h)'.kind # "reply",
         Misses(h)' = TRUE, UNCHANGED <<users, messages>>,
         ~ Service!Registered(request[h].sender) \/ ~ Service!Registered(request[h].receiver)
  PROVE  Service!Miss(h)
<1>1. Response(h)' = NULL
  BY DEF Response, Replies
<1>2. Responses' = Responses /\ Responses[h] = NULL /\ Missing' = [Missing EXCEPT ![h] = TRUE]
  BY <1>1, AnswerFrame DEF Responses
<1>3. Pending[h] = request[h] /\ Service!Asks(h, "SEND_MESSAGE_TO_USER")
  BY Asked DEF Answers
<1> QED BY <1>2, <1>3, AnswerFrame, TablesKept DEF Service!Miss

\* The call stores the message: the ids it was looked up with are still those of the two
\* users, or of nobody.
LEMMA StoreMessageStep ==
  ASSUME NullIsNoRows, IInv, RefinementInv, NEW h \in Handlers, NEW q,
         NEW r \in {NULL} \union RowsOf(request[h].action), Answers(h, q, r),
         request[h].action = "SEND_MESSAGE_TO_USER", Len(results[h]) = 2,
         results[h][1] \notin {NULL, {}}, results[h][2] \notin {NULL, {}},
         q = CreateMessage(FirstField(results[h][1]), FirstField(results[h][2]),
                           request[h].content),
         Move(h)' = IF r = NULL THEN Error ELSE Success
  PROVE  Service!Session(h)
<1> DEFINE req == request[h]
           s   == FirstField(results[h][1])
           t   == FirstField(results[h][2])
<1>1. /\ HeldBy(req, results[h]) /\ Handling(h) /\ q \in Queries
      /\ HandleAction(req, results[h]).kind = "call" /\ q = HandleAction(req, results[h]).query
      /\ Succeeds(h, q, r) \/ Fails(h, q, r) \/ IsLost(h, q, r)
  BY DEF Answers, Move
<1>2. q.op = "CreateMessage" /\ q.senderID = s /\ q.receiverID = t /\ q.content = req.content
  BY DEF CreateMessage
<1>3. /\ Pending[h] = req /\ Service!Asks(h, "SEND_MESSAGE_TO_USER")
      /\ Service!Storable(h) <=> /\ req.sender \notin Apostrophe
                                 /\ req.receiver \notin Apostrophe
                                 /\ req.content \notin Apostrophe
      /\ req.sender \in Usernames /\ req.receiver \in Usernames
  BY <1>1, Asked DEF Requests
<1>4. DOMAIN results[h] = {1, 2}
  BY <1>1, LenProperties DEF HeldBy
<1>5. s \in results[h][1] /\ t \in results[h][2]
  <2>1. results[h][1] \in SUBSET Nat /\ results[h][2] \in SUBSET Nat
    BY <1>1, <1>4, ElementOfSeq DEF HeldBy, RowsOf
  <2> QED BY <2>1 DEF FirstField
<1>6. /\ req.sender \notin Apostrophe /\ req.receiver \notin Apostrophe
      /\ contended[h] \/ results[h][1] = Rows(GetIDByUsername(req.sender))
      /\ contended[h] \/ results[h][2] = Rows(GetIDByUsername(req.receiver))
  <2>1. /\ <<1, GetIDByUsername(req.sender)>> \in Lookups(h)
        /\ <<2, GetIDByUsername(req.receiver)>> \in Lookups(h)
    BY <1>1 DEF Lookups
  <2> QED BY <1>3, <1>4, <2>1, LookupSpliced DEF RefinementInv, LookupsOK
<1>7. /\ \A u \in users : u.user_id = s => u.username = req.sender
      /\ \A u \in users : u.user_id = t => u.username = req.receiver
  <2>1. <<1, req.sender>> \in LookedUp(h) /\ <<2, req.receiver>> \in LookedUp(h)
    BY <1>1, <1>4 DEF LookedUp
  <2> QED BY <1>5, <2>1 DEF IInv, HandlerOK
<1>8. WellFormed(q) <=> req.content \notin Apostrophe
  BY <1>1, <1>2, Spliced DEF NameOps
<1>9. ASSUME Accepted(q), Effect(q), r = NULL => ~ connected, r # NULL => connected
      PROVE  Service!Session(h)
  <2>1. InsertMessage(q) /\ s \in IDs /\ t \in IDs
    BY <1>2, <1>9 DEF Effect, InsertUser, TruncateTables, Select, NameOps, Accepted,
       ConstraintsHold
  <2>2. PICK u \in users, v \in users : u.user_id = s /\ v.user_id = t
    BY <2>1 DEF IDs
  <2>3. u.username = req.sender /\ v.username = req.receiver
    BY <1>7, <2>2
  <2>4. NameOf(s) = req.sender /\ NameOf(t) = req.receiver
    <3>1. /\ (CHOOSE x \in users : x.user_id = s) \in users
          /\ (CHOOSE x \in users : x.user_id = s).user_id = s
      BY <2>2
    <3>2. /\ (CHOOSE x \in users : x.user_id = t) \in users
          /\ (CHOOSE x \in users : x.user_id = t).user_id = t
      BY <2>2
    <3> QED BY <1>7, <3>1, <3>2 DEF NameOf
  <2>5. /\ Mail' = Append(Mail, [from |-> req.sender, to |-> req.receiver,
                                 content |-> req.content])
        /\ Accounts' = Accounts
    BY <1>2, <2>1, <2>4, Delivering
  <2>6. Service!Registered(req.sender) /\ Service!Registered(req.receiver)
    BY <1>3, <2>2, <2>3, RegisteredIsNamed DEF Named
  <2>7. Service!Storable(h)
    BY <1>3, <1>6, <1>8, <1>9 DEF Accepted
  <2>8. Service!Change(h)
    BY <1>3, <2>5, <2>6, <2>7 DEF Service!Change, Service!Deliver
  <2> QED BY <1>9, <2>8, Changed
<1>10. CASE Fails(h, q, r)
  <2>1. r = NULL /\ UNCHANGED <<users, messages>> /\ Move(h)' = Error
    BY <1>10 DEF Fails
  <2>2. ~ contended[h] => s \in IDs /\ t \in IDs
    BY <1>5, <1>6 DEF Rows, GetIDByUsername, Named, IDs
  <2>3. Service!Reason(h) \/ contended[h] \/ ~ connected
    BY <1>2, <1>3, <1>8, <1>10, <2>2 DEF Fails, Accepted, ConstraintsHold, Service!Reason
  <2> QED BY <2>1, <2>3, Refused DEF Service!Session
<1>11. Rows(q) # NULL
  <2>1. Makes(req.action, q.op)
    BY <1>1, CallType
  <2> QED BY <1>1, <2>1, RowsNotNull
<1> QED BY <1>1, <1>9, <1>10, <1>11 DEF Succeeds, IsLost

\* SEND_MESSAGE_TO_USER misses a user at a lookup, is refused, or delivers at its last call.
LEMMA SendMessageStep ==
  ASSUME NullIsNoRows, IInv, RefinementInv, NEW h \in Handlers, NEW q,
         NEW r \in {NULL} \union RowsOf(request[h].action), Answers(h, q, r),
         request[h].action = "SEND_MESSAGE_TO_USER"
  PROVE  Service!Session(h) \/ UNCHANGED Service!svars
<1> DEFINE req == request[h]
           res == results[h]
<1>1. /\ HeldBy(req, res) /\ Handling(h) /\ q \in Queries /\ ~ Replies(h)
      /\ HandleAction(req, res).kind = "call" /\ q = HandleAction(req, res).query
      /\ request' = request /\ phase' = phase /\ results'[h] = Append(res, r)
      /\ res \in Seq({NULL} \union RowsOf(req.action))
  BY DEF Answers, Move, HeldBy, Replies, IInv, VariablesOK
<1>2. \/ /\ Len(res) = 0 /\ q = GetIDByUsername(req.sender)
         /\ Move(h)' = Call(GetIDByUsername(req.receiver))
      \/ /\ Len(res) = 1 /\ q = GetIDByUsername(req.receiver)
         /\ Move(h)' = IF r = NULL \/ res[1] = NULL THEN Error
                       ELSE IF r = {} \/ res[1] = {} THEN Crash
                       ELSE Call(CreateMessage(FirstField(res[1]), FirstField(r), req.content))
      \/ /\ Len(res) = 2 /\ res[1] \notin {NULL, {}} /\ res[2] \notin {NULL, {}}
         /\ q = CreateMessage(FirstField(res[1]), FirstField(res[2]), req.content)
         /\ Move(h)' = IF r = NULL THEN Error ELSE Success
  <2>1. Move(h)' = HandleAction(req, Append(res, r))
    BY AnswerFrame
  <2> QED BY <1>1, <2>1, ThreeCalls
<1>3. /\ Pending[h] = req /\ Service!Asks(h, "SEND_MESSAGE_TO_USER")
      /\ Service!Storable(h) <=> /\ req.sender \notin Apostrophe
                                 /\ req.receiver \notin Apostrophe
                                 /\ req.content \notin Apostrophe
      /\ req.sender \in Usernames /\ req.receiver \in Usernames
  BY <1>1, Asked DEF Requests
<1>4. NULL # {}
  BY DEF NullIsNoRows
<1>5. ASSUME q.op = "GetIDByUsername"
      PROVE  /\ UNCHANGED <<users, messages>>
             /\ r = NULL => contended[h] \/ ~ connected \/ ~ WellFormed(q)
             /\ r # NULL => r = Rows(q) /\ WellFormed(q)
  <2>1. Rows(q) # NULL
    BY <1>1, <1>5, RowsNotNull, CallType
  <2> QED BY <1>5, <2>1, SelectsKeep
<1>6. CASE /\ Len(res) = 0 /\ q = GetIDByUsername(req.sender)
           /\ Move(h)' = Call(GetIDByUsername(req.receiver))
  <2>1. q.op = "GetIDByUsername" /\ q.username = req.sender /\ Move(h)'.kind = "call"
    BY <1>6 DEF GetIDByUsername, Call
  <2>2. /\ DOMAIN res = {} /\ DOMAIN results'[h] = {1} /\ results'[h][1] = r
    BY <1>1, <1>6, OneMore, LenProperties
  <2>3. Misses(h) = FALSE
    BY <2>2 DEF Misses, LookedUp
  <2>4. CASE r = {}
    <3>1. <<1, req.sender>> \in LookedUp(h)'
      BY <1>1, <1>4, <2>2, <2>4 DEF LookedUp, Handling
    <3>2. Misses(h)' = TRUE
      BY <2>1, <2>2, <2>4, <3>1 DEF Misses, Replies
    <3>3. Named(req.sender) = {}
      BY <1>4, <1>5, <2>1, <2>4 DEF Rows
    <3>4. ~ Service!Registered(req.sender)
      BY <1>3, <3>3, RegisteredIsNamed
    <3> QED BY <1>5, <2>1, <3>2, <3>4, MissStep DEF Service!Session
  <2>5. CASE r # {}
    <3>1. Misses(h)' = FALSE
      BY <2>2, <2>5 DEF Misses, LookedUp
    <3> QED BY <1>5, <2>1, <2>3, <3>1, Continued
  <2> QED BY <2>4, <2>5
<1>7. CASE /\ Len(res) = 1 /\ q = GetIDByUsername(req.receiver)
           /\ Move(h)' = IF r = NULL \/ res[1] = NULL THEN Error
                         ELSE IF r = {} \/ res[1] = {} THEN Crash
                         ELSE Call(CreateMessage(FirstField(res[1]), FirstField(r), req.content))
  <2>1. q.op = "GetIDByUsername" /\ q.username = req.receiver
    BY <1>7 DEF GetIDByUsername
  <2>2. /\ DOMAIN res = {1} /\ DOMAIN results'[h] = {1, 2}
        /\ results'[h][1] = res[1] /\ results'[h][2] = r
    BY <1>1, <1>7, OneMore, LenProperties
  <2>3. CASE r = NULL \/ res[1] = NULL
    <3>1. res[1] = NULL => contended[h] \/ ~ connected \/ req.sender \in Apostrophe
      <4>1. <<1, GetIDByUsername(req.sender)>> \in Lookups(h)
        BY <1>1 DEF Lookups
      <4> QED BY <1>3, <2>2, <4>1, LookupSpliced DEF RefinementInv, LookupsOK
    <3>2. r = NULL => contended[h] \/ ~ connected \/ req.receiver \in Apostrophe
      BY <1>3, <1>5, <1>7, <2>1, LookupSpliced
    <3>3. Service!Reason(h) \/ contended[h] \/ ~ connected
      BY <1>3, <2>3, <3>1, <3>2 DEF Service!Reason
    <3> QED BY <1>5, <1>7, <2>1, <2>3, <3>3, Refused DEF Service!Session
  <2>4. CASE ~ (r = NULL \/ res[1] = NULL)
    <3>1. Move(h)'.kind # "reply"
      BY <1>7, <2>4 DEF Crash, Call
    <3>2. /\ LookedUp(h) = {<<1, req.sender>>}
          /\ LookedUp(h)' = {<<1, req.sender>>, <<2, req.receiver>>}
      <4>1. LookedUp(h) = {<<1, req.sender>>}
        BY <1>1, <2>2, <2>4 DEF LookedUp
      <4>2. Handling(h)' /\ request'[h] = req
        BY <1>1 DEF Handling
      <4>3. \A l \in {<<1, req.sender>>, <<2, req.receiver>>} :
              l[1] \in DOMAIN results'[h] /\ results'[h][l[1]] # NULL
        BY <2>2, <2>4
      <4> QED BY <4>1, <4>2, <4>3 DEF LookedUp
    <3>3. /\ Misses(h) <=> res[1] = {}
          /\ Misses(h)' <=> res[1] = {} \/ r = {}
      <4>1. Misses(h) <=> res[1] = {}
        BY <1>1, <3>2 DEF Misses
      <4>2. Misses(h)' <=> res[1] = {} \/ r = {}
        BY <2>2, <3>1, <3>2 DEF Misses, Replies
      <4> QED BY <4>1, <4>2
    <3>4. CASE r = {}
      <4>1. Named(req.receiver) = {}
        BY <1>4, <1>5, <2>1, <3>4 DEF Rows
      <4>2. ~ Service!Registered(req.receiver)
        BY <1>3, <4>1, RegisteredIsNamed
      <4>3. Misses(h)' = TRUE
        BY <3>3, <3>4 DEF Misses
      <4> QED BY <1>5, <2>1, <3>1, <4>2, <4>3, MissStep DEF Service!Session
    <3>5. CASE r # {}
      <4>1. Misses(h)' = Misses(h)
        BY <3>3, <3>5 DEF Misses
      <4> QED BY <1>5, <2>1, <3>1, <4>1, Continued
    <3> QED BY <3>4, <3>5
  <2> QED BY <2>3, <2>4
<1>8. CASE /\ Len(res) = 2 /\ res[1] \notin {NULL, {}} /\ res[2] \notin {NULL, {}}
           /\ q = CreateMessage(FirstField(res[1]), FirstField(res[2]), req.content)
           /\ Move(h)' = IF r = NULL THEN Error ELSE Success
  BY <1>8, StoreMessageStep
<1> QED BY <1>2, <1>6, <1>7, <1>8
LEMMA ReturnsStep ==
  ASSUME NullIsNoRows, IInv, RefinementInv, NEW h \in Handlers,
         DatabaseReturns(h) \/ (CallDatabase(h) /\ RefuseTransaction(h))
  PROVE  Service!Session(h) \/ UNCHANGED Service!svars
<1>1. PICK r \in {NULL} \union RowsOf(request[h].action) : Answers(h, Move(h).query, r)
  BY CallAnswers
<1>2. PICK q : q = Move(h).query /\ Answers(h, q, r)
  BY <1>1
<1>3. /\ HeldBy(request[h], results[h]) /\ HandleAction(request[h], results[h]).kind = "call"
  BY <1>2 DEF Answers, Move
<1>4. request[h].action \in {"CREATE_USER", "VERIFY_USER", "SEND_MESSAGE_TO_USER",
                             "SHOW_CHAT_HISTORY_WITH_USER", "LIST_USERS", "TRUNCATE_TABLES"}
  BY <1>3, CallType DEF Makes
<1> QED BY <1>1, <1>2, <1>4, CreateUserStep, VerifyUserStep, SendMessageStep,
           ShowChatHistoryStep, ListUsersStep, TruncateTablesStep

(*********************************************************************************)
(* The refinement.                                                               *)
(*********************************************************************************)
LEMMA InitRefines == Init => Service!Init
<1> SUFFICES ASSUME Init PROVE Service!Init
  OBVIOUS
<1>1. /\ users = {} /\ messages = <<>> /\ connected = TRUE
      /\ \A h \in Handlers : ~ Handling(h) /\ request[h] = NULL
      /\ contended = [h \in Handlers |-> FALSE]
  BY DEF Init, DbInit, Handling
<1>2. Accounts = [n \in Usernames |-> NULL]
  BY <1>1 DEF Accounts, PasswordOf, Named
<1>3. Mail = <<>>
  BY <1>1 DEF Mail
<1>4. /\ Pending = [h \in Handlers |-> NULL]
      /\ Responses = [h \in Handlers |-> NULL]
      /\ Missing = [h \in Handlers |-> FALSE]
  BY <1>1, NoResponse DEF Pending, Responses, Missing, Wire
<1> QED BY <1>1, <1>2, <1>3, <1>4 DEF Service!Init

\* Every step is one of the service, or nothing to it.
LEMMA NextRefines ==
  ASSUME NullIsNoRows, IInv, RefinementInv, [Next]_vars
  PROVE  [Service!Next]_(Service!svars)
<1>1. ASSUME NEW h \in Handlers, Handler(h)
      PROVE  Service!Session(h) \/ Service!GoDown \/ UNCHANGED Service!svars
  <2>1. CASE Accept(h) \/ ReceiveFails(h)
    BY <2>1, AcceptStep
  <2>2. CASE ReceiveRequest(h)
    BY <2>2, ReceiveStep
  <2>3. CASE CallDatabase(h)
    BY <2>3, OpenStep, ReturnsStep
  <2>4. CASE DatabaseReturns(h)
    BY <2>4, ReturnsStep
  <2>5. CASE SendResponse(h) \/ SendFails(h)
    BY <2>5, ReplyStep
  <2>6. CASE ServerCrashes(h)
    BY <2>6, CrashStep
  <2> QED BY <1>1, <2>1, <2>2, <2>3, <2>4, <2>5, <2>6 DEF Handler
<1>2. CASE Restart \/ ConnectionLost
  BY <1>2, LinkStep DEF Service!Next
<1>3. CASE UNCHANGED vars
  <2>1. UNCHANGED <<users, messages, connected, query, results, phase, request, contended>>
    BY <1>3 DEF vars, dbVars, handlerVars
  <2> QED BY <2>1, SessionKept, Stutters
<1> QED BY <1>1, <1>2, <1>3 DEF Next, Service!Next

\* Both invariants, whatever NULL is as long as it is no set of rows.
LEMMA InvariantsHold == ASSUME NullIsNoRows PROVE Spec => [](IInv /\ RefinementInv)
<1>1. Init => IInv /\ RefinementInv
  BY InitInv, InitRefinementInv
<1>2. IInv /\ RefinementInv /\ [Next]_vars => RefinementInv'
  BY NextRefinementInv
<1>3. IInv /\ [Next]_vars => IInv'
  BY NextInv
<1> QED BY <1>1, <1>2, <1>3, PTL DEF Spec

\* What a request has seen lasts while it is alone: a lookup that failed had a reason that
\* is still true, one that found something would find the same now, and a salt that was
\* read is the one of the account's hash, although CREATE_USER, VERIFY_USER and
\* SEND_MESSAGE_TO_USER look in one transaction and act in another.
THEOREM LookupsLast == ASSUME NullIsNoRows PROVE Spec => []RefinementInv
  BY InvariantsHold, PTL

\* Every behaviour of the handlers is one of the service, whatever NULL is as long as it
\* is no set of rows: every request takes effect at one instant although it runs several
\* transactions, every Error has a reason, and only a message from or to somebody who is
\* not registered ends the process (HandleAction and what it calls).
THEOREM Refinement == ASSUME NullIsNoRows PROVE Spec => ServiceRefined
<1>1. Init => Service!Init
  BY InitRefines
<1>2. IInv /\ RefinementInv /\ [Next]_vars => [Service!Next]_(Service!svars)
  BY NextRefines
<1> QED BY <1>1, <1>2, InvariantsHold, PTL DEF Spec, ServiceRefined, Service!Spec
==================================================================================
