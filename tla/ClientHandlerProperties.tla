-------------------------- MODULE ClientHandlerProperties -------------------------
(*********************************************************************************)
(* What the request handling of the server guarantees, and what it does not.     *)
(*********************************************************************************)
EXTENDS ClientHandler

(*********************************************************************************)
(* Types.                                                                        *)
(*********************************************************************************)
\* The number of ExecuteQuery calls an action makes.
CallsOf(action) ==
  CASE action \in {"CREATE_USER", "SHOW_CHAT_HISTORY_WITH_USER", "LIST_USERS",
                   "TRUNCATE_TABLES"}   -> 1
    [] action = "VERIFY_USER"          -> 2
    [] action = "SEND_MESSAGE_TO_USER" -> 3
    [] OTHER                           -> 0

\* What these calls may return.
RowsOf(action) ==
  CASE action = "VERIFY_USER"                 -> (SUBSET Salts) \union (SUBSET Hashes)
    [] action = "SEND_MESSAGE_TO_USER"        -> SUBSET Nat
    [] action = "LIST_USERS"                  -> SUBSET Usernames
    [] action = "SHOW_CHAT_HISTORY_WITH_USER" -> SUBSET ChatRows
    [] OTHER                                  -> {{}}

ResultsOK(h) ==
  IF request[h] = NULL THEN results[h] = <<>>
  ELSE /\ results[h] \in Seq({NULL} \union RowsOf(request[h].action))
       /\ Len(results[h]) <= CallsOf(request[h].action)

\* Every variable has its type: the rows a handler holds come from the calls
\* its action makes, and a handler has a request exactly while it is handling one.
TypeOK ==
  /\ DbTypeOK
  /\ phase \in [Handlers -> {"gone", "waiting", "handling"}]
  /\ request \in [Handlers -> Requests \union {NULL}]
  /\ up \in BOOLEAN
  /\ received \in 0 .. MaxRequests
  /\ contended \in [Handlers -> BOOLEAN]
  /\ \A h \in Handlers : ResultsOK(h) /\ (Handling(h) <=> request[h] # NULL)

(*********************************************************************************)
(* Safety.                                                                       *)
(*********************************************************************************)
\* The tables stay consistent whatever the handlers interleave: one row per name,
\* one row per id, and both ends of every message are rows of users, across
\* TRUNCATE_TABLES as well (db/create_tables.sql, ClearDatabase).
TablesConsistent ==
  /\ \A u, v \in users : u.username = v.username \/ u.user_id = v.user_id => u = v
  /\ \A i \in DOMAIN messages :
       messages[i].sender_id \in IDs /\ messages[i].receiver_id \in IDs

\* The calls of GetIDByUsername that have returned to h, and the names they were for.
LookedUp(h) ==
  IF Handling(h) /\ request[h].action = "SEND_MESSAGE_TO_USER"
  THEN {l \in {<<1, request[h].sender>>, <<2, request[h].receiver>>} :
          l[1] \in DOMAIN results[h] /\ results[h][l[1]] # NULL}
  ELSE {}

\* HandleSendMessageToUser uses ids it read in earlier transactions.  Another handler
\* may have truncated the tables and registered other names in the meantime: an id
\* that was looked up for a name still belongs to that name, or to nobody.
StaleIdsNeverRebound ==
  \A h \in Handlers : \A l \in LookedUp(h) :
    \A id \in results[h][l[1]] : \A u \in users :
      u.user_id = id => u.username = l[2]

(*********************************************************************************)
(* The inductive invariant: what the properties above rest on.                   *)
(*********************************************************************************)
\* Every id in use was drawn from the sequence, which only goes up.
TablesOK ==
  /\ users \subseteq UserRows
  /\ messages \in Seq(MessageRows)
  /\ nextUserId \in Nat
  /\ TablesConsistent
  /\ \A u \in users : u.user_id < nextUserId

VariablesOK ==
  /\ connected \in BOOLEAN
  /\ query \in [Handlers -> Queries \union {NULL}]
  /\ DOMAIN results = Handlers
  /\ phase \in [Handlers -> {"gone", "waiting", "handling"}]
  /\ request \in [Handlers -> Requests \union {NULL}]
  /\ up \in BOOLEAN
  /\ received \in 0 .. MaxRequests
  /\ contended \in [Handlers -> BOOLEAN]

\* An open transaction is the call its handler's request makes next, and the ids the
\* handler holds were drawn: a new row never takes an id somebody still holds.
HandlerOK(h) ==
  /\ ResultsOK(h)
  /\ Handling(h) <=> request[h] # NULL
  /\ query[h] # NULL => Handling(h) /\ Move(h).kind = "call" /\ query[h] = Move(h).query
  /\ \A l \in LookedUp(h) : \A id \in results[h][l[1]] :
       /\ id < nextUserId
       /\ \A u \in users : u.user_id = id => u.username = l[2]

\* ExecuteQuery is in one transaction at a time.
OneTransaction ==
  \A h, t \in Handlers : query[h] # NULL /\ query[t] # NULL => h = t

\* Together these are preserved by every step of every handler, by a crash, a restart
\* and the loss of the connection, and they imply TypeOK and the properties above.
IInv ==
  /\ TablesOK
  /\ VariablesOK
  /\ OneTransaction
  /\ \A h \in Handlers : HandlerOK(h)

(*********************************************************************************)
(* Action properties.                                                            *)
(*********************************************************************************)
\* h's handler has just decided its response to an action.
Decides(h, action) ==
  /\ Handling(h) /\ request[h].action = action
  /\ ~ Replies(h) /\ Replies(h)'

\* HandleVerifyUser reads the salt and the hash in two transactions, between which
\* the account may be removed and registered again with another password.  It answers
\* Success only if, at the second read, the account exists with this very password.
VerifyMatchesAccount ==
  [][\A h \in Handlers :
       Decides(h, "VERIFY_USER") /\ Move(h)'.status = "Success" =>
         \E u \in users' : /\ u.username = request[h].username
                           /\ u.password_hash.password = request[h].password]_vars

\* Once the database connection broke, no request that needs it is ever answered
\* Success again by this process: nothing reconnects (ExecuteQuery only catches).
\* Success is still the answer to CHECK_CONNECTION_WITH_SERVER.
NoSuccessAfterLoss ==
  [][~ connected =>
       \A h \in Handlers :
         ~ Replies(h) /\ Replies(h)' /\ request'[h].action # "CHECK_CONNECTION_WITH_SERVER"
           => Move(h)'.status # "Success"]_vars

(*********************************************************************************)
(* The abstract service.                                                         *)
(*********************************************************************************)
PasswordOf(n) ==
  IF Named(n) = {} THEN NULL
  ELSE (CHOOSE u \in Named(n) : TRUE).password_hash.password

\* NULL is nothing else, and apostrophes are in names and texts only: salts, hashes and ids
\* are digits.
ASSUME DataAssumption ==
  /\ NULL \notin Passwords
  /\ NULL \notin [action : {"CREATE_USER"}, username : Usernames, password : Passwords]
  /\ NULL \notin [status : {"Success", "Error", "UnknownAction"},
                  body : {NULL} \union SUBSET (Usernames \union ChatRows)]
  /\ Apostrophe \cap (Nat \union Salts \union Hashes) = {}

\* A request as it was on the wire, without the salt that was drawn for it.
Wire(r) ==
  IF r = NULL THEN NULL
  ELSE IF r.action = "CREATE_USER"
       THEN [action |-> r.action, username |-> r.username, password |-> r.password]
       ELSE r

\* What the service has, and what its sessions see of it.
Accounts == [n \in Usernames |-> PasswordOf(n)]

Mail == [i \in DOMAIN messages |-> [from    |-> NameOf(messages[i].sender_id),
                                    to      |-> NameOf(messages[i].receiver_id),
                                    content |-> messages[i].content]]

Pending == [h \in Handlers |-> Wire(request[h])]

Response(h) == IF Replies(h) THEN [status |-> Move(h).status, body |-> Move(h).body] ELSE NULL
Responses   == [h \in Handlers |-> Response(h)]

\* A user was looked up and not found, and this is not made up for by an Error.
Misses(h) == ~ Replies(h) /\ \E l \in LookedUp(h) : results[h][l[1]] = {}
Missing   == [h \in Handlers |-> Misses(h)]

Service == INSTANCE ChatService WITH
  Sessions <- Handlers, accounts <- Accounts, mail <- Mail, pending <- Pending,
  reply <- Responses, missed <- Missing, linked <- connected

\* The handlers implement the abstract service: every request takes effect at one
\* instant although it runs several transactions, every Error has a reason (the
\* request itself, another request at the same time, or a lost connection) and no
\* effect unless the connection was lost, and the process dies only of a message
\* from or to a user who was not registered at some instant of the request.
ServiceRefined == Service!Spec

\* The queries of the lookups that come before a request's last call, with their place.
Lookups(h) ==
  IF ~ Handling(h) THEN {}
  ELSE CASE request[h].action = "VERIFY_USER" ->
              {<<1, GetSaltByUsername(request[h].username)>>}
         [] request[h].action = "SEND_MESSAGE_TO_USER" ->
              {<<1, GetIDByUsername(request[h].sender)>>,
               <<2, GetIDByUsername(request[h].receiver)>>}
         [] OTHER -> {}

\* A lookup that failed had a reason that lasts; what one has found is what it would
\* find now, but for what other requests have done meanwhile.
LookupsOK(h) ==
  \A l \in Lookups(h) : l[1] \in DOMAIN results[h] =>
    IF results[h][l[1]] = NULL THEN contended[h] \/ ~ connected \/ ~ WellFormed(l[2])
    ELSE WellFormed(l[2]) /\ (contended[h] \/ results[h][l[1]] = Rows(l[2]))

\* What ServiceRefined rests on, besides IInv: no request outlives the process, requests
\* at the same time know of each other, and a row's salt is the one of its hash.
RefinementInv ==
  /\ up \/ \A h \in Handlers : phase[h] = "gone"
  /\ \A h, t \in Handlers : h # t /\ Handling(h) /\ Handling(t) => contended[h]
  /\ \A u \in users : u.password_hash.salt = u.salt
  /\ \A h \in Handlers : LookupsOK(h)

(*********************************************************************************)
(* Liveness.  The threads are scheduled and PostgreSQL answers or the connection *)
(* breaks; clients need not send anything and nothing else is assumed.           *)
(*********************************************************************************)
Fairness ==
  /\ \A h \in Handlers :
       /\ WF_vars(CallDatabase(h))
       /\ WF_vars(DatabaseReturns(h))
       /\ WF_vars(SendResponse(h) \/ SendFails(h))
       /\ WF_vars(ServerCrashes(h))
  /\ WF_vars(Restart)

FairSpec == Spec /\ Fairness

\* A request is always eventually over, though every handler needs the one connection:
\* ExecuteQuery refuses instead of waiting, so no handler can starve another.
RequestsEnd == \A h \in Handlers : Handling(h) ~> ~ Handling(h)

(*********************************************************************************)
(* What the client tells its user, and the server does not keep.                 *)
(*********************************************************************************)
\* CommandsNotLoggedIn.cpp:49 reports every Error of CREATE_USER as "User with username
\* ... already exists".  HandleCreateUser answers Error for any failed query: a request
\* refused because another handler was inside its transaction gets the same answer,
\* while the database is there and the name is free.
CreateErrorMeansExists ==
  [][\A h \in Handlers :
       connected' /\ Decides(h, "CREATE_USER") /\ Move(h)'.status = "Error" =>
         \E u \in users' : u.username = request[h].username]_vars
==================================================================================
