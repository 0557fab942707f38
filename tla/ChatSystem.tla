-------------------------------- MODULE ChatSystem --------------------------------
(*********************************************************************************)
(* The whole of it: client programs, their connections, and the server with a    *)
(* handler thread per connection.  What a handler does between receiving a       *)
(* request and having its response is the abstract ChatService, which            *)
(* ClientHandler implements.                                                     *)
(*********************************************************************************)
EXTENDS ChatClient, FiniteSets

CONSTANTS Apostrophe,
          Capacity  \* how many connections the server has descriptors for

VARIABLES up,        \* whether the server process is alive and listens
          handler,   \* handler[c]: "none" (not accepted yet), "serving" or "ended"
          number,    \* history: the number of the request c's handler has, or had
          verified,  \* history: verified[c] has the names the service verified for c
          accounts, mail, pending, reply, contended, missed, linked  \* the service

serverVars == <<up, handler, number, verified>>
serviceVars == <<accounts, mail, pending, reply, contended, missed, linked>>
vars == <<channelVars, clientVars, serverVars, serviceVars>>

S == INSTANCE ChatService WITH Sessions <- Clients

ASSUME SystemAssumption ==
  /\ NULL \notin Usernames \union S!Requests
  /\ Capacity \in Nat

(*********************************************************************************)
(* The handler of connection c.                                                  *)
(*********************************************************************************)
\* The accepted connections of this process: a handler's descriptor stays open until
\* the process ends, whether its client left or its thread ended.
Accepted == {c \in Clients : handler[c] # "none" /\ socket[Server(c)] # "closed"}

\* accept returns -1 and the acceptor tries again, as long as the server is full.
Full == Cardinality(Accepted) >= Capacity

Accept(c) ==
  /\ up
  /\ ~ Full
  /\ handler[c] = "none"
  /\ socket[Server(c)] \notin {"none", "closed"}
  /\ handler' = [handler EXCEPT ![c] = "serving"]
  /\ UNCHANGED <<channelVars, clientVars, serviceVars, up, number, verified>>

\* Mutant: the loop of Start goes on after an exception.
EndNothing(c) == UNCHANGED <<up, handler, number, verified>>

\* The loop of Start ends, and the descriptor stays open.
EndHandler(c) ==
  /\ handler' = [handler EXCEPT ![c] = "ended"]
  /\ UNCHANGED <<up, number, verified>>

Receiving(c) == handler[c] = "serving" /\ pending[c] = NULL

ReceiveRequest(c) ==
  /\ Receiving(c)
  /\ \E n \in Arrivals(Server(c)) : \E m \in Received(Server(c), n) \ {NONE, JUNK} :
       /\ Take(Server(c), n)
       /\ S!Ask(c, m.request)
       /\ number' = [number EXCEPT ![c] = m.number]
  /\ UNCHANGED <<clientVars, up, handler, verified>>

\* HandleAction throws: recv returned nothing, or something that is no request.
ReceiveFails(c) ==
  /\ Receiving(c)
  /\ \/ ReceiveNothing(Server(c))
     \/ \E n \in Arrivals(Server(c)) :
          Received(Server(c), n) \intersect {NONE, JUNK} # {} /\ Take(Server(c), n)
  /\ EndHandler(c)
  /\ UNCHANGED <<clientVars, serviceVars>>

\* The Handle... function that the request names.
Handle(c) ==
  /\ \/ /\ S!Verify(c)
        /\ verified' = [verified EXCEPT ![c] = @ \union {pending[c].username}]
     \/ /\ S!Serve(c) \/ S!List(c) \/ S!Show(c) \/ S!Refuse(c) \/ S!RefuseAfterChange(c)
        /\ UNCHANGED verified
  /\ UNCHANGED <<channelVars, clientVars, up, handler, number>>

Misses(c) ==
  /\ S!Miss(c)
  /\ UNCHANGED <<channelVars, clientVars, serverVars>>

\* A list of users and a chat may be long.
ResponseLengths(c) ==
  IF /\ pending[c].action \in {"LIST_USERS", "SHOW_CHAT_HISTORY_WITH_USER"}
     /\ reply[c].status = "Success"
  THEN Lengths ELSE {1}

Response(c, n) == [number |-> number[c], status |-> reply[c].status, length |-> n]

\* Mutant: an Error is not sent.
SendUnlessError(c) ==
  /\ S!Finish(c)
  /\ IF reply[c].status = "Error" THEN UNCHANGED channelVars
     ELSE \E n \in ResponseLengths(c) : Send(Server(c), Response(c, n))
  /\ UNCHANGED <<clientVars, serverVars>>

SendResponse(c) ==
  /\ S!Finish(c)
  /\ \E n \in ResponseLengths(c) : Send(Server(c), Response(c, n))
  /\ UNCHANGED <<clientVars, serverVars>>

ResponseFails(c) ==
  /\ S!Finish(c)
  /\ SendFails(Server(c))
  /\ EndHandler(c)
  /\ UNCHANGED clientVars

(*********************************************************************************)
(* The server process.                                                           *)
(*********************************************************************************)
\* The process ends: every descriptor is closed.
Down ==
  /\ up
  /\ up' = FALSE
  /\ handler' = [c \in Clients |-> IF handler[c] = "serving" THEN "ended" ELSE handler[c]]
  /\ Close({Server(c) : c \in {c \in Clients : socket[Server(c)] \notin {"none", "closed"}}},
           {Server(c) : c \in {c \in Clients : handler[c] = "none"}})
  /\ UNCHANGED <<clientVars, number, verified>>

DiesOfMessage == Down /\ S!GoDown
DiesOfPipe == Down /\ S!Halt /\ \E c \in Clients : reply[c] # NULL /\ BrokenPipe(Server(c))
Killed == Down /\ S!Halt

\* restart: always.  The database is connected to again.
Restart ==
  /\ ~ up
  /\ up' = TRUE
  /\ S!RestoreLink
  /\ UNCHANGED <<channelVars, clientVars, handler, number, verified>>

LoseDatabase ==
  /\ S!LoseLink
  /\ UNCHANGED <<channelVars, clientVars, serverVars>>

(*********************************************************************************)
(* The system.                                                                   *)
(*********************************************************************************)
ClientStep(c) ==
  /\ \/ up /\ ConnectToServer(c)
     \/ Execute(c) \/ Respond(c) \/ LogOut(c) \/ Exit(c)
  /\ UNCHANGED <<serverVars, serviceVars>>

HandlerStep(c) ==
  \/ Accept(c) \/ ReceiveRequest(c) \/ ReceiveFails(c) \/ Handle(c) \/ Misses(c)
  \/ SendResponse(c) \/ ResponseFails(c)

Init ==
  /\ ChannelInit
  /\ ClientInit
  /\ up = TRUE
  /\ handler = [c \in Clients |-> "none"]
  /\ number = [c \in Clients |-> 0]
  /\ verified = [c \in Clients |-> {}]
  /\ S!Init

Next ==
  \/ \E c \in Clients : ClientStep(c) \/ HandlerStep(c)
  \/ DiesOfMessage \/ DiesOfPipe \/ Killed \/ Restart \/ LoseDatabase

Spec == Init /\ [][Next]_vars
==================================================================================
