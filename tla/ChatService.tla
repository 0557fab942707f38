------------------------------- MODULE ChatService -------------------------------
(*********************************************************************************)
(* What the server promises its clients: every request takes effect at one       *)
(* instant, on the accounts and the mail of that instant, and its response says  *)
(* so.  An Error without an effect needs a reason, and only a message from or to *)
(* somebody who is not registered may bring the server down.                     *)
(*                                                                               *)
(* ClientHandler over ChatDatabase, with its several transactions per request,   *)
(* implements this module (property ServiceRefined of ClientHandlerProperties).  *)
(*********************************************************************************)
EXTENDS Sequences

CONSTANTS Sessions,    \* the connections
          Usernames, Passwords, Contents,
          Apostrophe,  \* the names and texts the service cannot store or look up
          NULL

VARIABLES accounts,    \* accounts[name]: the password of name, or NULL
          mail,        \* the messages, oldest first
          pending,     \* pending[s]: the request of session s, or NULL
          reply,       \* reply[s]: its response once it was served, or NULL
          contended,   \* contended[s]: another session had a request at the same time
          missed,      \* missed[s]: a user that the message of s concerns was found not
                       \* to be registered
          linked       \* whether the service can reach its storage

svars == <<accounts, mail, pending, reply, contended, missed, linked>>

Requests ==
  [action : {"CREATE_USER", "VERIFY_USER"}, username : Usernames,
   password : Passwords]
    \union [action : {"SEND_MESSAGE_TO_USER"}, sender : Usernames,
            receiver : Usernames, content : Contents]
    \union [action : {"SHOW_CHAT_HISTORY_WITH_USER"}, sender : Usernames,
            receiver : Usernames]
    \union [action : {"LIST_USERS", "TRUNCATE_TABLES",
                      "CHECK_CONNECTION_WITH_SERVER", "UNKNOWN"}]

Init ==
  /\ accounts = [n \in Usernames |-> NULL]
  /\ mail = <<>>
  /\ pending = [s \in Sessions |-> NULL]
  /\ reply = [s \in Sessions |-> NULL]
  /\ contended = [s \in Sessions |-> FALSE]
  /\ missed = [s \in Sessions |-> FALSE]
  /\ linked = TRUE

Registered(n) == accounts[n] # NULL

Between(a, b) ==
  {[place |-> i, username |-> mail[i].from, content |-> mail[i].content] :
     i \in {i \in DOMAIN mail : {mail[i].from, mail[i].to} = {a, b}}}

Answer(s, status, body) ==
  /\ reply[s] = NULL
  /\ reply' = [reply EXCEPT ![s] = [status |-> status, body |-> body]]
  /\ missed' = [missed EXCEPT ![s] = FALSE]
  /\ UNCHANGED <<pending, contended, linked>>

Asks(s, action) == pending[s] # NULL /\ pending[s].action = action

(*********************************************************************************)
(* The effects of the requests that change something, whatever is answered.      *)
(*********************************************************************************)
Storable(s) == \A f \in DOMAIN pending[s] \ {"action", "password"} :
                  pending[s][f] \notin Apostrophe

Register(s) ==
  /\ Asks(s, "CREATE_USER")
  /\ Storable(s)
  /\ ~ Registered(pending[s].username)
  /\ accounts' = [accounts EXCEPT ![pending[s].username] = pending[s].password]
  /\ UNCHANGED mail

Deliver(s) ==
  /\ Asks(s, "SEND_MESSAGE_TO_USER")
  /\ Storable(s)
  /\ Registered(pending[s].sender)
  /\ Registered(pending[s].receiver)
  /\ mail' = Append(mail, [from |-> pending[s].sender, to |-> pending[s].receiver,
                           content |-> pending[s].content])
  /\ UNCHANGED accounts

Clear(s) ==
  /\ Asks(s, "TRUNCATE_TABLES")
  /\ accounts' = [n \in Usernames |-> NULL]
  /\ mail' = <<>>

Change(s) == Register(s) \/ Deliver(s) \/ Clear(s)

(*********************************************************************************)
(* Serving a request.                                                            *)
(*********************************************************************************)
Serve(s) == linked /\ Change(s) /\ Answer(s, "Success", NULL)

Verify(s) ==
  /\ Asks(s, "VERIFY_USER")
  /\ Storable(s)
  /\ accounts[pending[s].username] = pending[s].password
  /\ Answer(s, "Success", NULL)
  /\ UNCHANGED <<accounts, mail>>

List(s) ==
  /\ Asks(s, "LIST_USERS")
  /\ Answer(s, "Success", {n \in Usernames : Registered(n)})
  /\ UNCHANGED <<accounts, mail>>

Show(s) ==
  /\ Asks(s, "SHOW_CHAT_HISTORY_WITH_USER")
  /\ Storable(s)
  /\ Answer(s, "Success", Between(pending[s].sender, pending[s].receiver))
  /\ UNCHANGED <<accounts, mail>>

\* Why a request that had the service to itself may be answered Error.
Reason(s) ==
  \/ ~ Storable(s)
  \/ Asks(s, "CREATE_USER") /\ Registered(pending[s].username)
  \/ Asks(s, "VERIFY_USER") /\ accounts[pending[s].username] # pending[s].password

Refuse(s) ==
  /\ pending[s] # NULL
  /\ pending[s].action \notin {"CHECK_CONNECTION_WITH_SERVER", "UNKNOWN"}
  /\ Reason(s) \/ contended[s] \/ ~ linked
  /\ Answer(s, "Error", NULL)
  /\ UNCHANGED <<accounts, mail>>

\* The storage was lost after it took the change and before it said so.
RefuseAfterChange(s) == ~ linked /\ Change(s) /\ Answer(s, "Error", NULL)

(*********************************************************************************)
(* Sessions and storage.                                                         *)
(*********************************************************************************)
\* The two actions that need no storage are answered as they arrive.
Immediate(r) ==
  CASE r.action = "CHECK_CONNECTION_WITH_SERVER" -> [status |-> "Success", body |-> NULL]
    [] r.action = "UNKNOWN" -> [status |-> "UnknownAction", body |-> NULL]
    [] OTHER                -> NULL

Ask(s, r) ==
  /\ pending[s] = NULL
  /\ pending' = [pending EXCEPT ![s] = r]
  /\ reply' = [reply EXCEPT ![s] = Immediate(r)]
  /\ contended' = [t \in Sessions |->
       IF t = s THEN \E o \in Sessions \ {s} : pending[o] # NULL
                ELSE pending[t] # NULL]
  /\ UNCHANGED <<accounts, mail, missed, linked>>

Request(s) == \E r \in Requests : Ask(s, r)

\* The response is sent, or cannot be sent.
Finish(s) ==
  /\ reply[s] # NULL
  /\ pending' = [pending EXCEPT ![s] = NULL]
  /\ reply' = [reply EXCEPT ![s] = NULL]
  /\ contended' = [contended EXCEPT ![s] = FALSE]
  /\ UNCHANGED <<accounts, mail, missed, linked>>

\* At this instant one of the two users is not registered.
Miss(s) ==
  /\ Asks(s, "SEND_MESSAGE_TO_USER")
  /\ reply[s] = NULL
  /\ ~ Registered(pending[s].sender) \/ ~ Registered(pending[s].receiver)
  /\ missed' = [missed EXCEPT ![s] = TRUE]
  /\ UNCHANGED <<accounts, mail, pending, reply, contended, linked>>

\* The process ends, and with it every session.
Halt ==
  /\ pending' = [s \in Sessions |-> NULL]
  /\ reply' = [s \in Sessions |-> NULL]
  /\ contended' = [s \in Sessions |-> FALSE]
  /\ missed' = [s \in Sessions |-> FALSE]
  /\ UNCHANGED <<accounts, mail, linked>>

\* Such a message does that.
GoDown == Halt /\ \E s \in Sessions : missed[s]

LoseLink ==
  /\ linked
  /\ linked' = FALSE
  /\ UNCHANGED <<accounts, mail, pending, reply, contended, missed>>

RestoreLink ==
  /\ pending = [s \in Sessions |-> NULL]
  /\ linked' = TRUE
  /\ UNCHANGED <<accounts, mail, pending, reply, contended, missed>>

Session(s) ==
  \/ Request(s) \/ Serve(s)  \/ Verify(s) \/ List(s) \/ Show(s)
  \/ Refuse(s)  \/ RefuseAfterChange(s)   \/ Miss(s) \/ Finish(s)

Next == (\E s \in Sessions : Session(s)) \/ GoDown \/ LoseLink \/ RestoreLink

Spec == Init /\ [][Next]_svars
==================================================================================
