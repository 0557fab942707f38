-------------------------- MODULE ClientHandlerStepProofs -------------------------
(*********************************************************************************)
(* Proofs about single steps of the request handling: the action properties of   *)
(* ClientHandlerProperties, from its inductive invariant.                        *)
(*********************************************************************************)
EXTENDS ClientHandlerProofs

(*********************************************************************************)
(* How a thread comes to its response.                                           *)
(*********************************************************************************)
\* A step of another handler, short of a crash, leaves a handler's own state alone.
LEMMA OthersStep ==
  ASSUME IInv, NEW h \in Handlers, NEW t \in Handlers, t # h, Handler(t), ~ ServerCrashes(t)
  PROVE  /\ phase'[h] = phase[h] /\ request'[h] = request[h]
         /\ results'[h] = results[h] /\ query'[h] = query[h]
<1> USE DEF IInv, VariablesOK
<1>1. CASE Accept(t) \/ ReceiveFails(t)
  BY <1>1 DEF Accept, ReceiveFails, dbVars
<1>2. CASE ReceiveRequest(t)
  BY <1>2 DEF ReceiveRequest, dbVars
<1>3. CASE CallDatabase(t)
  BY <1>3 DEF CallDatabase, ExecuteQuery, OpenTransaction, RefuseTransaction, Return,
              handlerVars
<1>4. CASE DatabaseReturns(t)
  <2>1. PICK r : results' = [results EXCEPT ![t] = Append(@, r)]
    BY <1>4, ReturnStep
  <2>2. query' = [query EXCEPT ![t] = NULL] /\ UNCHANGED <<phase, request>>
    BY <1>4, ReturnStep
  <2> QED
    BY <2>1, <2>2
<1>5. CASE SendResponse(t) \/ SendFails(t)
  BY <1>5 DEF SendResponse, SendFails, Drop
<1> QED
  BY <1>1, <1>2, <1>3, <1>4, <1>5 DEF Handler

\* A handler's response is decided by the request it receives, or by what a call of
\* ExecuteQuery returns to it.
LEMMA Deciding ==
  ASSUME IInv, [Next]_vars, NEW h \in Handlers, ~ Replies(h), Replies(h)'
  PROVE  \/ ReceiveRequest(h)
         \/ CallDatabase(h) /\ RefuseTransaction(h)
         \/ DatabaseReturns(h)
<1>1. phase'[h] = "handling" /\ query'[h] = NULL /\ Move(h)'.kind = "reply"
  BY DEF Replies, Running, Handling
<1>2. ~ (/\ phase'[h] = phase[h] /\ request'[h] = request[h]
         /\ results'[h] = results[h] /\ query'[h] = query[h])
  BY DEF Replies, Running, Handling, Move
<1>3. ~ (Restart \/ ConnectionLost \/ UNCHANGED vars)
  BY <1>2 DEF Restart, ConnectionLost, LoseConnection, vars, dbVars, handlerVars
<1>4. PICK t \in Handlers : Handler(t)
  BY <1>3 DEF Next
<1>5. ~ ServerCrashes(t)
  BY <1>1 DEF ServerCrashes
<1>6. t = h
  BY <1>2, <1>4, <1>5, OthersStep
<1>7. ~ (Accept(h) \/ ReceiveFails(h) \/ SendResponse(h) \/ SendFails(h))
  BY <1>1 DEF Accept, ReceiveFails, SendResponse, SendFails, IInv, VariablesOK
<1>8. ASSUME CallDatabase(h) PROVE RefuseTransaction(h)
  <2>1. Move(h).kind = "call" /\ request' = request
    BY <1>8 DEF CallDatabase, handlerVars
  <2>2. ~ OpenTransaction(h, Move(h).query)
    BY <1>1, <2>1 DEF OpenTransaction, Move
  <2> QED
    BY <1>8, <2>2 DEF CallDatabase, ExecuteQuery
<1> QED
  BY <1>4, <1>5, <1>6, <1>7, <1>8 DEF Handler

\* A response that is decided by a nullopt is not Success (the has_value() tests of the
\* Handle... functions).
LEMMA NulloptIsNoSuccess ==
  ASSUME NEW req, NEW res, HeldBy(req, res), HandleAction(req, res).kind = "call",
         HandleAction(req, Append(res, NULL)).kind = "reply"
  PROVE  HandleAction(req, Append(res, NULL)).status # "Success"
<1> DEFINE next == Append(res, NULL)
           S    == {NULL} \union RowsOf(req.action)
<1>1. req \in Requests /\ res \in Seq(S)
  BY DEF HeldBy
<1>2. PICK n \in Nat : n = Len(res)
  BY <1>1, LenProperties
<1>3. Len(next) = n + 1 /\ next[n + 1] = NULL /\ next # <<>>
  BY <1>1, <1>2, AppendProperties
<1>4. ~ HasValue(next[n + 1])
  BY <1>3 DEF HasValue
<1>5. n < CallsOf(req.action)
  BY <1>2, CallType
<1>6. Error.status # "Success"
  BY DEF Error, Reply
<1> HIDE DEF next
<1>7. CASE req.action \in {"CREATE_USER", "SHOW_CHAT_HISTORY_WITH_USER", "LIST_USERS",
                           "TRUNCATE_TABLES"}
  <2>1. n = 0
    BY <1>5, <1>7 DEF CallsOf
  <2>2. ~ HasValue(next[1])
    BY <1>4, <2>1
  <2>3. HandleAction(req, next) = Error
    BY <1>3, <1>7, <2>2 DEF HandleAction, HandleCreateUser, HandleListUsers,
         HandleShowChatHistoryWithUser, HandleTruncateTables
  <2> QED
    BY <1>6, <2>3 DEF next
<1>8. CASE req.action = "VERIFY_USER"
  <2>1. n = 0 \/ n = 1
    BY <1>5, <1>8 DEF CallsOf
  <2>2. HandleAction(req, next) = HandleVerifyUser(req, next)
    BY <1>8 DEF HandleAction
  <2>3. n # 0
    BY <1>3, <2>2 DEF HandleVerifyUser, Call, next
  <2>4. Len(next) = 2 /\ ~ HasValue(next[2])
    BY <1>3, <1>4, <2>1, <2>3
  <2>5. HandleAction(req, next) = Error
    BY <2>2, <2>4 DEF HandleVerifyUser
  <2> QED
    BY <1>6, <2>5 DEF next
<1>9. CASE req.action = "SEND_MESSAGE_TO_USER"
  <2>1. n \in {0, 1, 2}
    BY <1>5, <1>9 DEF CallsOf
  <2>2. HandleAction(req, next) = HandleSendMessageToUser(req, next)
    BY <1>9 DEF HandleAction
  <2>3. n # 0
    BY <1>3, <2>2 DEF HandleSendMessageToUser, Call, next
  <2>4. CASE n = 1
    <3>1. Len(next) = 2 /\ ~ HasValue(next[2])
      BY <1>3, <1>4, <2>4
    <3>2. HandleAction(req, next) = Error
      BY <2>2, <3>1 DEF HandleSendMessageToUser
    <3> QED
      BY <1>6, <3>2 DEF next
  <2>5. CASE n = 2
    <3>1. Len(next) = 3 /\ ~ HasValue(next[3])
      BY <1>3, <1>4, <2>5
    <3>2. HandleAction(req, next) = Error
      BY <2>2, <3>1 DEF HandleSendMessageToUser
    <3> QED
      BY <1>6, <3>2 DEF next
  <2> QED
    BY <2>1, <2>3, <2>4, <2>5
<1>10. CASE req.action \in {"CHECK_CONNECTION_WITH_SERVER", "UNKNOWN"}
  BY <1>5, <1>10 DEF CallsOf
<1> QED
  BY <1>1, <1>7, <1>8, <1>9, <1>10, ActionType

\* In the middle of a request, a handler's results are those of some of its calls.
LEMMA Held ==
  ASSUME IInv, NEW h \in Handlers, Handling(h)
  PROVE  HeldBy(request[h], results[h])
<1>1. request[h] # NULL /\ ResultsOK(h)
  BY DEF IInv, HandlerOK
<1>2. request[h] \in Requests
  BY <1>1 DEF IInv, VariablesOK
<1> QED
  BY <1>1, <1>2 DEF ResultsOK, HeldBy

\* A request is not answered Success before a call of ExecuteQuery, but for
\* CHECK_CONNECTION_WITH_SERVER (the dispatch of HandleAction).
LEMMA FirstMove ==
  ASSUME NEW req \in Requests, req.action # "CHECK_CONNECTION_WITH_SERVER",
         HandleAction(req, <<>>).kind = "reply"
  PROVE  HandleAction(req, <<>>).status # "Success"
<1>1. CASE req.action = "UNKNOWN"
  BY <1>1 DEF HandleAction, Reply
<1>2. CASE req.action = "CREATE_USER"
  BY <1>2 DEF HandleAction, HandleCreateUser, Call
<1>3. CASE req.action = "VERIFY_USER"
  BY <1>3 DEF HandleAction, HandleVerifyUser, Call
<1>4. CASE req.action = "SEND_MESSAGE_TO_USER"
  BY <1>4 DEF HandleAction, HandleSendMessageToUser, Call
<1>5. CASE req.action = "SHOW_CHAT_HISTORY_WITH_USER"
  BY <1>5 DEF HandleAction, HandleShowChatHistoryWithUser, Call
<1>6. CASE req.action = "LIST_USERS"
  BY <1>6 DEF HandleAction, HandleListUsers, Call
<1>7. CASE req.action = "TRUNCATE_TABLES"
  BY <1>7 DEF HandleAction, HandleTruncateTables, Call
<1> QED
  BY <1>1, <1>2, <1>3, <1>4, <1>5, <1>6, <1>7, ActionType

\* What a handler knows when ExecuteQuery returns r to it: its state before and after.
LEMMA Returned ==
  ASSUME IInv, NEW h \in Handlers, DatabaseReturns(h)
  PROVE  /\ HeldBy(request[h], results[h])
         /\ Move(h).kind = "call" /\ query[h] = Move(h).query
         /\ request' = request
         /\ \E r \in {NULL, Rows(query[h])} : results'[h] = Append(results[h], r)
<1>1. query[h] # NULL /\ request' = request
  BY ReturnStep
<1>2. \E r \in {NULL, Rows(query[h])} : results' = [results EXCEPT ![h] = Append(@, r)]
  BY ReturnStep
<1>3. Handling(h) /\ Move(h).kind = "call" /\ query[h] = Move(h).query
  BY <1>1 DEF IInv, HandlerOK
<1>4. HeldBy(request[h], results[h])
  BY <1>3, Held
<1> QED
  BY <1>1, <1>2, <1>3, <1>4 DEF IInv, VariablesOK

\* A refused call is no success.
LEMMA RefusedIsNoSuccess ==
  ASSUME IInv, NEW h \in Handlers, CallDatabase(h), RefuseTransaction(h), Replies(h)'
  PROVE  Move(h)'.status # "Success"
<1>1. Handling(h) /\ Move(h).kind = "call" /\ request' = request
  BY DEF CallDatabase, Running, handlerVars
<1>2. HeldBy(request[h], results[h])
  BY <1>1, Held
<1>3. results'[h] = Append(results[h], NULL)
  BY DEF RefuseTransaction, Return, IInv, VariablesOK
<1>4. Move(h)' = HandleAction(request[h], Append(results[h], NULL))
  BY <1>1, <1>3 DEF Move
<1>5. Move(h)'.kind = "reply"
  BY DEF Replies
<1> QED
  BY <1>1, <1>2, <1>4, <1>5, NulloptIsNoSuccess DEF Move

\* A Success of VERIFY_USER rests on the hash read last (HandleVerifyUser).
LEMMA VerifiedByLastRead ==
  ASSUME IInv, NEW h \in Handlers, DatabaseReturns(h), request[h].action = "VERIFY_USER",
         Replies(h)', Move(h)'.status = "Success"
  PROVE  \E u \in users' : /\ u.username = request[h].username
                           /\ u.password_hash.password = request[h].password
<1> DEFINE req == request[h]
           res == results[h]
           q   == query[h]
<1>1. /\ HeldBy(req, res) /\ Move(h).kind = "call" /\ q = Move(h).query
      /\ request' = request
  BY Returned
<1>2. PICK r \in {NULL, Rows(q)} : results'[h] = Append(res, r)
  BY Returned
<1>3. Move(h) = HandleVerifyUser(req, res) /\ Move(h)' = HandleVerifyUser(req, Append(res, r))
  BY <1>1, <1>2 DEF Move, HandleAction
<1>4. Move(h)'.kind = "reply"
  BY DEF Replies
<1>5. r # NULL
  BY <1>1, <1>2, <1>4, NulloptIsNoSuccess DEF Move
<1>6. r \in {NULL} \union RowsOf(req.action) /\ query[h] \in Queries
  <2>1. q \in Queries /\ Makes(req.action, q.op)
    BY <1>1, CallType DEF Move
  <2> QED
    BY <1>2, <2>1, RowsType DEF IInv, TablesOK
<1>7. PICK n \in Nat : n = Len(res)
  BY <1>1, LenProperties DEF HeldBy
<1>8. Len(Append(res, r)) = n + 1 /\ Append(res, r)[n + 1] = r
  BY <1>1, <1>6, <1>7, AppendProperties DEF HeldBy
<1>9. n = 1
  <2>1. n < 2
    BY <1>1, <1>7, CallType DEF Move, CallsOf
  <2>2. n # 0
    BY <1>3, <1>4, <1>8 DEF HandleVerifyUser, Call
  <2> QED
    BY <2>1, <2>2
<1>10. q = GetPasswordHashByUsername(req.username)
  BY <1>1, <1>3, <1>7, <1>9 DEF HandleVerifyUser, Call
<1>11. r = {u.password_hash : u \in Named(req.username)}
  BY <1>2, <1>5, <1>10 DEF Rows, GetPasswordHashByUsername
<1>12. /\ r # {}
       /\ VerifyPassword(req.password, FirstField(r), FirstField(Append(res, r)[1]))
  <2>1. Len(Append(res, r)) = 2 /\ Append(res, r)[2] = r
    BY <1>8, <1>9
  <2> QED
    BY <1>3, <2>1 DEF HandleVerifyUser, Error, Reply
<1>13. FirstField(r) \in r
  BY <1>12 DEF FirstField
<1>14. PICK u \in users : u.username = req.username /\ u.password_hash = FirstField(r)
  BY <1>11, <1>13 DEF Named
<1>15. u.password_hash.password = req.password
  BY <1>12, <1>14 DEF VerifyPassword, HashPasswordWithSalt
<1>16. users' = users
  <2>1. Outcome(q)
    BY ReturnStep
  <2> QED
    BY <1>10, <2>1 DEF Outcome, Effect, InsertUser, InsertMessage, TruncateTables, Select,
                       GetPasswordHashByUsername
<1> QED
  BY <1>14, <1>15, <1>16

(*********************************************************************************)
(* The theorems.                                                                 *)
(*********************************************************************************)
\* VERIFY_USER answers Success only if the account has that password at that moment, for
\* any number of handlers that remove and register it meanwhile (HandleVerifyUser).
THEOREM VerificationSound == Spec => VerifyMatchesAccount
<1>1. IInv /\ [Next]_vars =>
        [\A h \in Handlers :
           Decides(h, "VERIFY_USER") /\ Move(h)'.status = "Success" =>
             \E u \in users' : /\ u.username = request[h].username
                               /\ u.password_hash.password = request[h].password]_vars
  <2> SUFFICES ASSUME IInv, [Next]_vars, NEW h \in Handlers,
                      Decides(h, "VERIFY_USER"), Move(h)'.status = "Success"
               PROVE  \E u \in users' : /\ u.username = request[h].username
                                        /\ u.password_hash.password = request[h].password
    OBVIOUS
  <2>1. /\ Handling(h) /\ request[h].action = "VERIFY_USER"
        /\ ~ Replies(h) /\ Replies(h)'
    BY DEF Decides
  <2>2. ~ ReceiveRequest(h)
    BY <2>1 DEF ReceiveRequest, Handling
  <2>3. ~ (CallDatabase(h) /\ RefuseTransaction(h))
    BY <2>1, RefusedIsNoSuccess
  <2>4. DatabaseReturns(h)
    BY <2>1, <2>2, <2>3, Deciding
  <2> QED
    BY <2>1, <2>4, VerifiedByLastRead
<1> QED
  BY <1>1, Invariance, PTL DEF Spec, VerifyMatchesAccount

\* With the connection to PostgreSQL gone, no handler answers Success to anything that
\* needs it (ExecuteQuery never connects again).
THEOREM LossIsNeverSuccess == Spec => NoSuccessAfterLoss
<1>1. IInv /\ [Next]_vars =>
        [~ connected =>
           \A h \in Handlers :
             ~ Replies(h) /\ Replies(h)'
               /\ request'[h].action # "CHECK_CONNECTION_WITH_SERVER"
               => Move(h)'.status # "Success"]_vars
  <2> SUFFICES ASSUME IInv, [Next]_vars, ~ connected, NEW h \in Handlers,
                      ~ Replies(h), Replies(h)',
                      request'[h].action # "CHECK_CONNECTION_WITH_SERVER"
               PROVE  Move(h)'.status # "Success"
    OBVIOUS
  <2>1. CASE ReceiveRequest(h)
    <3>1. request'[h] \in Requests /\ results'[h] = <<>>
      BY <2>1 DEF ReceiveRequest, dbVars, IInv, VariablesOK, HandlerOK, ResultsOK, Handling
    <3>2. Move(h)' = HandleAction(request'[h], <<>>) /\ Move(h)'.kind = "reply"
      BY <3>1 DEF Move, Replies
    <3> QED
      BY <3>1, <3>2, FirstMove
  <2>2. CASE CallDatabase(h) /\ RefuseTransaction(h)
    BY <2>2, RefusedIsNoSuccess
  <2>3. CASE DatabaseReturns(h)
    <3>1. /\ HeldBy(request[h], results[h])
          /\ Move(h).kind = "call"
          /\ request' = request
      BY <2>3, Returned
    <3>2. results'[h] = Append(results[h], NULL)
      BY <2>3 DEF DatabaseReturns, Commit, Reject, InDoubt, EndTransaction, Return,
                  IInv, VariablesOK
    <3>3. Move(h)' = HandleAction(request[h], Append(results[h], NULL))
      BY <3>1, <3>2 DEF Move
    <3>4. Move(h)'.kind = "reply"
      BY DEF Replies
    <3> QED
      BY <3>1, <3>3, <3>4, NulloptIsNoSuccess DEF Move
  <2> QED
    BY <2>1, <2>2, <2>3, Deciding
<1> QED
  BY <1>1, Invariance, PTL DEF Spec, NoSuccessAfterLoss
==================================================================================
