------------------------------ MODULE ClientHandler ------------------------------
(*********************************************************************************)
(* The request handling of the server: the ClientHandler threads, one per        *)
(* connection, over the shared ChatDatabase.                                     *)
(*                                                                               *)
(* A handler is a loop of HandleAction: receive a request, run the Handle...     *)
(* function the action names, send the response.  A Handle... function is a      *)
(* sequence of ExecuteQuery calls with thread-local code between them, so it is  *)
(* written as a function of the request and of what the calls returned so far:   *)
(* it yields the next call, the response, or a crash.                            *)
(*********************************************************************************)
EXTENDS ChatDatabase

CONSTANTS Actions,     \* the actions the clients of this instance use
          MaxRequests  \* bound: requests received, over all handlers

VARIABLES phase,       \* phase[h]: "gone" (no thread), "waiting" (in ReceiveJson)
                       \* or "handling" (in HandleAction, with a request)
          request,     \* request[h]: the request h is handling, or NULL
          up,          \* whether the server process is alive
          received,    \* the number of requests received so far
          contended    \* history: contended[h] is TRUE when another handler was
                       \* handling a request at some point of h's current one

handlerVars == <<phase, request, up, received, contended>>
vars == <<dbVars, handlerVars>>

(*********************************************************************************)
(* Requests, as the client library builds them.  The salt of CREATE_USER is not  *)
(* on the wire: it is the draw HandleCreateUser makes first of all.              *)
(*********************************************************************************)
Requests ==
  [action : {"CREATE_USER"}, username : Usernames, password : Passwords,
   salt : Salts]
    \union [action : {"VERIFY_USER"}, username : Usernames, password : Passwords]
    \union [action : {"SEND_MESSAGE_TO_USER"}, sender : Usernames,
            receiver : Usernames, content : Contents]
    \union [action : {"SHOW_CHAT_HISTORY_WITH_USER"}, sender : Usernames,
            receiver : Usernames]
    \union [action : {"LIST_USERS", "TRUNCATE_TABLES",
                      "CHECK_CONNECTION_WITH_SERVER", "UNKNOWN"}]

ASSUME HandlerAssumption == MaxRequests \in Nat /\ NULL \notin Requests

(*********************************************************************************)
(* What a Handle... function does next.                                          *)
(*********************************************************************************)
Call(q)             == [kind |-> "call", query |-> q]
Reply(status, body) == [kind |-> "reply", status |-> status, body |-> body]
Crash               == [kind |-> "crash"]

Success == Reply("Success", NULL)
Error   == Reply("Error", NULL)

HasValue(result) == result # NULL
\* result.value()[0][0]
FirstField(result) == CHOOSE x \in result : TRUE

HandleCreateUser(req, res) ==
  IF res = <<>>
  THEN LET hashed == HashPassword(req.password, req.salt)
       IN  Call(CreateUser(req.username, hashed.hash, hashed.salt))
  ELSE IF HasValue(res[1]) THEN Success ELSE Error

HandleVerifyUser(req, res) ==
  CASE Len(res) = 0 -> Call(GetSaltByUsername(req.username))
    [] Len(res) = 1 -> Call(GetPasswordHashByUsername(req.username))
    [] OTHER ->
         IF /\ HasValue(res[2]) /\ HasValue(res[1])
            /\ res[2] # {} /\ res[1] # {}
            /\ VerifyPassword(req.password, FirstField(res[2]), FirstField(res[1]))
         THEN Success ELSE Error

HandleListUsers(req, res) ==
  IF res = <<>> THEN Call(ListUsers)
  ELSE IF HasValue(res[1]) THEN Reply("Success", res[1]) ELSE Error

\* Mutant: the ids are passed to CreateMessage in the wrong order.
SendBackwards(req, res) ==
  CASE Len(res) = 0 -> Call(GetIDByUsername(req.sender))
    [] Len(res) = 1 -> Call(GetIDByUsername(req.receiver))
    [] Len(res) = 2 ->
         IF ~ (HasValue(res[1]) /\ HasValue(res[2])) THEN Error
         ELSE IF res[1] = {} \/ res[2] = {} THEN Crash
         ELSE Call(CreateMessage(FirstField(res[2]), FirstField(res[1]), req.content))
    [] OTHER -> IF HasValue(res[3]) THEN Success ELSE Error

\* The rows are not checked for being empty: [0][0] of a name that is not
\* registered dereferences a null pointer, and the process dies.
HandleSendMessageToUser(req, res) ==
  CASE Len(res) = 0 -> Call(GetIDByUsername(req.sender))
    [] Len(res) = 1 -> Call(GetIDByUsername(req.receiver))
    [] Len(res) = 2 ->
         IF ~ (HasValue(res[1]) /\ HasValue(res[2])) THEN Error
         ELSE IF res[1] = {} \/ res[2] = {} THEN Crash
         ELSE Call(CreateMessage(FirstField(res[1]), FirstField(res[2]),
                                 req.content))
    [] OTHER -> IF HasValue(res[3]) THEN Success ELSE Error

HandleShowChatHistoryWithUser(req, res) ==
  IF res = <<>> THEN Call(ListMessages(req.sender, req.receiver))
  ELSE IF HasValue(res[1]) THEN Reply("Success", res[1]) ELSE Error

HandleTruncateTables(req, res) ==
  IF res = <<>> THEN Call(ClearDatabase)
  ELSE IF HasValue(res[1]) THEN Success ELSE Error

HandleCheckConnectionWithServer(req, res) == Success

\* The dispatch of HandleAction through m_ActionHandlers.
HandleAction(req, res) ==
  CASE req.action = "CREATE_USER"          -> HandleCreateUser(req, res)
    [] req.action = "VERIFY_USER"          -> HandleVerifyUser(req, res)
    [] req.action = "LIST_USERS"           -> HandleListUsers(req, res)
    [] req.action = "SEND_MESSAGE_TO_USER" -> HandleSendMessageToUser(req, res)
    [] req.action = "SHOW_CHAT_HISTORY_WITH_USER"
                                           -> HandleShowChatHistoryWithUser(req, res)
    [] req.action = "TRUNCATE_TABLES"      -> HandleTruncateTables(req, res)
    [] req.action = "CHECK_CONNECTION_WITH_SERVER"
                                           -> HandleCheckConnectionWithServer(req, res)
    [] OTHER                               -> Reply("UnknownAction", NULL)

Handling(h) == phase[h] = "handling"
Move(h)     == HandleAction(request[h], results[h])

\* h is between two calls of ExecuteQuery, about to do what Move(h) says.
Running(h)  == Handling(h) /\ query[h] = NULL
Replies(h)  == Running(h) /\ Move(h).kind = "reply"

(*********************************************************************************)
(* The threads.                                                                  *)
(*********************************************************************************)
\* Mutant: the results of a request are kept for the next one.
KeepResults(h) ==
  /\ request' = [request EXCEPT ![h] = NULL]
  /\ contended' = [contended EXCEPT ![h] = FALSE]
  /\ UNCHANGED dbVars

\* h's request is over: its locals go out of scope.
Drop(h) ==
  /\ request' = [request EXCEPT ![h] = NULL]
  /\ results' = [results EXCEPT ![h] = <<>>]
  /\ contended' = [contended EXCEPT ![h] = FALSE]
  /\ UNCHANGED <<users, messages, nextUserId, connected, query>>

\* The server accepts a connection: a ClientHandler and its thread start.
Accept(h) ==
  /\ up
  /\ phase[h] = "gone"
  /\ phase' = [phase EXCEPT ![h] = "waiting"]
  /\ UNCHANGED <<dbVars, request, up, received, contended>>

\* ReceiveJson returns a request.
ReceiveRequest(h) ==
  /\ phase[h] = "waiting"
  /\ received < MaxRequests
  /\ received' = received + 1
  /\ \E r \in Requests :
       r.action \in Actions /\ request' = [request EXCEPT ![h] = r]
  /\ phase' = [phase EXCEPT ![h] = "handling"]
  /\ contended' = [t \in Handlers |->
       CASE t = h       -> \E o \in Handlers \ {h} : Handling(o)
         [] Handling(t) -> TRUE
         [] OTHER       -> FALSE]
  /\ UNCHANGED <<dbVars, up>>

\* ReceiveJson fails: the peer closed, the bytes are no JSON value, or the request
\* has no action.  HandleAction throws and the loop of Start ends.
ReceiveFails(h) ==
  /\ phase[h] = "waiting"
  /\ phase' = [phase EXCEPT ![h] = "gone"]
  /\ UNCHANGED <<dbVars, request, up, received, contended>>

\* The handler function calls ExecuteQuery.
CallDatabase(h) ==
  /\ Running(h)
  /\ Move(h).kind = "call"
  /\ ExecuteQuery(h, Move(h).query)
  /\ UNCHANGED handlerVars

\* ExecuteQuery returns.
DatabaseReturns(h) ==
  /\ Commit(h) \/ Reject(h) \/ InDoubt(h)
  /\ UNCHANGED handlerVars

\* SendJson hands the response to the socket; Start loops.
SendResponse(h) ==
  /\ Replies(h)
  /\ phase' = [phase EXCEPT ![h] = "waiting"]
  /\ Drop(h)
  /\ UNCHANGED <<up, received>>

\* SendJson fails: what the request did stays done, the peer never learns it, and
\* the thread ends.
SendFails(h) ==
  /\ Replies(h)
  /\ phase' = [phase EXCEPT ![h] = "gone"]
  /\ Drop(h)
  /\ UNCHANGED <<up, received>>

\* [0][0] of an empty result: the process dies, and with it every thread, open
\* transaction and connection.  PostgreSQL keeps the tables.
ServerCrashes(h) ==
  /\ Running(h)
  /\ Move(h).kind = "crash"
  /\ up' = FALSE
  /\ phase' = [t \in Handlers |-> "gone"]
  /\ request' = [t \in Handlers |-> NULL]
  /\ results' = [t \in Handlers |-> <<>>]
  /\ query' = [t \in Handlers |-> NULL]
  /\ contended' = [t \in Handlers |-> FALSE]
  /\ UNCHANGED <<users, messages, nextUserId, connected, received>>

\* The container is restarted (restart: always) and connects to the database again.
Restart ==
  /\ ~ up
  /\ up' = TRUE
  /\ connected' = TRUE
  /\ UNCHANGED <<users, messages, nextUserId, query, results, phase, request,
                 received, contended>>

ConnectionLost ==
  /\ up
  /\ LoseConnection
  /\ UNCHANGED handlerVars

Init ==
  /\ DbInit
  /\ phase = [h \in Handlers |-> "gone"]
  /\ request = [h \in Handlers |-> NULL]
  /\ up = TRUE
  /\ received = 0
  /\ contended = [h \in Handlers |-> FALSE]

Handler(h) ==
  \/ Accept(h)       \/ ReceiveRequest(h)  \/ ReceiveFails(h)
  \/ CallDatabase(h) \/ DatabaseReturns(h)
  \/ SendResponse(h) \/ SendFails(h)       \/ ServerCrashes(h)

Next == (\E h \in Handlers : Handler(h)) \/ Restart \/ ConnectionLost

Spec == Init /\ [][Next]_vars
==================================================================================
