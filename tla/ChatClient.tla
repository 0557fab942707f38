-------------------------------- MODULE ChatClient --------------------------------
(*********************************************************************************)
(* The client program: CLI, its commands, the logged-in User and the Client's    *)
(* connection.  One thread: the menu, a command's request, its response.         *)
(*********************************************************************************)
EXTENDS JsonChannel

CONSTANTS Usernames, Passwords, Contents,
          NULL,
          Offered,     \* the actions of the commands this instance uses
          Lengths,     \* how long a value that holds text may be, in units
          MaxRequests  \* bound: MaxRequests[c] is how many requests c sends at most

ASSUME ClientAssumption ==
  /\ MaxRequests \in [Clients -> Nat]
  /\ 1 \in Lengths /\ Lengths \subseteq Nat \ {0}

VARIABLES at,       \* at[c]: "off" (not started), "menu", "recv" (in ReceiveJson of a
                    \* command), "failed" (to be terminated) or "exited"
          user,     \* user[c]: m_User's name while it is logged in, or NULL
          command,  \* command[c]: the request of the current command, or NULL
          asked     \* asked[c]: the number of requests sent

clientVars == <<at, user, command, asked>>

IsLoggedIn(c) == user[c] # NULL

(*********************************************************************************)
(* The commands: the requests they build.                                        *)
(*********************************************************************************)
SignIn(username, password) ==
  [action |-> "CREATE_USER", username |-> username, password |-> password]
LogIn(username, password) ==
  [action |-> "VERIFY_USER", username |-> username, password |-> password]

\* Mutant: sender and receiver are swapped.
MessageFromReceiver(c, receiver, content) ==
  [action |-> "SEND_MESSAGE_TO_USER", sender |-> receiver, receiver |-> user[c],
   content |-> content]

Message(c, receiver, content) ==
  [action |-> "SEND_MESSAGE_TO_USER", sender |-> user[c], receiver |-> receiver,
   content |-> content]
ShowChat(c, receiver) ==
  [action |-> "SHOW_CHAT_HISTORY_WITH_USER", sender |-> user[c],
   receiver |-> receiver]
ListUsers == [action |-> "LIST_USERS"]
ClearDatabase == [action |-> "TRUNCATE_TABLES"]
CheckConnectionWithServer == [action |-> "CHECK_CONNECTION_WITH_SERVER"]

NotLoggedInCommands ==
  {SignIn(n, p) : n \in Usernames, p \in Passwords}
    \union {LogIn(n, p) : n \in Usernames, p \in Passwords}

LoggedInCommands(c) ==
  {Message(c, n, t) : n \in Usernames, t \in Contents}
    \union {ShowChat(c, n) : n \in Usernames} \union {ListUsers}

\* Mutant: the strategy is never changed back to that of a user who is not logged in.
MenuOfBoth(c) ==
  NotLoggedInCommands \union LoggedInCommands(c)
    \union {ClearDatabase, CheckConnectionWithServer}

\* The strategy of the menu, and the two calls of Commands that have no menu entry
\* and are there for programs that use the library, like the tests.
Menu(c) ==
  (IF IsLoggedIn(c) THEN LoggedInCommands(c) ELSE NotLoggedInCommands)
    \union {ClearDatabase, CheckConnectionWithServer}

\* Requests with a user's text in them may be long.
LengthsOf(request) ==
  IF request.action \in {"LIST_USERS", "TRUNCATE_TABLES",
                         "CHECK_CONNECTION_WITH_SERVER"}
  THEN {1} ELSE Lengths

\* These two look only at the results of SendJson and ReceiveJson, or at neither.
IgnoresResponse(request) ==
  request.action \in {"SEND_MESSAGE_TO_USER", "TRUNCATE_TABLES",
                      "CHECK_CONNECTION_WITH_SERVER"}

(*********************************************************************************)
(* Steps.                                                                        *)
(*********************************************************************************)
\* The constructor of Client: connect is done when the kernel has queued the
\* connection, accepted or not.
ConnectToServer(c) ==
  /\ at[c] = "off"
  /\ Establish(c)
  /\ at' = [at EXCEPT ![c] = "menu"]
  /\ UNCHANGED <<user, command, asked>>

\* Mutant: Message goes back to the menu without a look at the response.
AwaitAnswersOnly(c, r) ==
  IF r.action = "SEND_MESSAGE_TO_USER" THEN UNCHANGED <<at, command>>
  ELSE /\ at' = [at EXCEPT ![c] = "recv"]
       /\ command' = [command EXCEPT ![c] = r]

\* The command goes on to ReceiveJson.
Await(c, r) ==
  /\ at' = [at EXCEPT ![c] = "recv"]
  /\ command' = [command EXCEPT ![c] = r]

\* A command is entered with its arguments and calls SendJson.  It goes on to
\* ReceiveJson even when that fails; only CheckConnectionWithServer looks.
Execute(c) ==
  /\ at[c] = "menu"
  /\ asked[c] < MaxRequests[c]
  /\ \E r \in Menu(c) :
       /\ r.action \in Offered
       /\ \/ /\ \E n \in LengthsOf(r) :
                  Send(Client(c), [number |-> asked[c] + 1, request |-> r, length |-> n])
             /\ Await(c, r)
          \/ /\ SendFails(Client(c))
             /\ IF r = CheckConnectionWithServer THEN UNCHANGED <<at, command>>
                ELSE Await(c, r)
          \/ /\ BrokenPipe(Client(c))
             /\ at' = [at EXCEPT ![c] = "failed"]
             /\ UNCHANGED <<channelVars, command>>
  /\ asked' = [asked EXCEPT ![c] = @ + 1]
  /\ UNCHANGED user

\* Mutant: LogIn does not return after reporting an Error.
FinishInAnyCase(c, response) ==
  /\ command' = [command EXCEPT ![c] = NULL]
  /\ IF response = JUNK /\ ~ IgnoresResponse(command[c])
     THEN at' = [at EXCEPT ![c] = "failed"] /\ UNCHANGED user
     ELSE /\ at' = [at EXCEPT ![c] = "menu"]
          /\ user' = [user EXCEPT ![c] =
               IF command[c].action = "VERIFY_USER" THEN command[c].username ELSE @]

\* What the command does with the response: NONE is a null value, of which every
\* field is null; a field of JUNK is an exception that nothing catches.
Finish(c, response) ==
  /\ command' = [command EXCEPT ![c] = NULL]
  /\ IF response = JUNK /\ ~ IgnoresResponse(command[c])
     THEN at' = [at EXCEPT ![c] = "failed"] /\ UNCHANGED user
     ELSE /\ at' = [at EXCEPT ![c] = "menu"]
          /\ user' = [user EXCEPT ![c] =
               IF /\ command[c].action = "VERIFY_USER"
                  /\ response \in {NONE, JUNK} \/ response.status # "Error"
               THEN command[c].username ELSE @]

Respond(c) ==
  /\ at[c] = "recv"
  /\ \/ \E n \in Arrivals(Client(c)) : \E response \in Received(Client(c), n) :
          Take(Client(c), n) /\ Finish(c, response)
     \/ ReceiveNothing(Client(c)) /\ Finish(c, NONE)
  /\ UNCHANGED asked

LogOut(c) ==
  /\ at[c] = "menu"
  /\ IsLoggedIn(c)
  /\ user' = [user EXCEPT ![c] = NULL]
  /\ UNCHANGED <<channelVars, at, command, asked>>

\* "q" at the menu, a signal at any time, or the end of a process that failed.
Exit(c) ==
  /\ at[c] \notin {"off", "exited"}
  /\ at' = [at EXCEPT ![c] = "exited"]
  /\ user' = [user EXCEPT ![c] = NULL]
  /\ command' = [command EXCEPT ![c] = NULL]
  /\ Close({Client(c)}, {})
  /\ UNCHANGED asked

ClientInit ==
  /\ at = [c \in Clients |-> "off"]
  /\ user = [c \in Clients |-> NULL]
  /\ command = [c \in Clients |-> NULL]
  /\ asked = [c \in Clients |-> 0]
==================================================================================
