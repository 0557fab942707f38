--------------------------- MODULE ChatSystemProperties ---------------------------
(*********************************************************************************)
(* What users of the client may rely on, and what it rests on.                   *)
(*********************************************************************************)
EXTENDS ChatSystem

(*********************************************************************************)
(* Types.                                                                        *)
(*********************************************************************************)
Statuses == {"Success", "Error", "UnknownAction"}

Questions == [number : Nat, request : S!Requests, length : Lengths]
Answers   == [number : Nat, status : Statuses, length : Lengths]

UnitsOf(values) == [value : values, part : Nat]

ChannelOK ==
  /\ DOMAIN stream = Ends
  /\ \A c \in Clients : /\ stream[Client(c)] \in Seq(UnitsOf(Answers))
                       /\ stream[Server(c)] \in Seq(UnitsOf(Questions))
  /\ socket \in [Ends -> SocketStates]
  /\ oversize \in [Ends -> BOOLEAN]

ClientsOK ==
  /\ at \in [Clients -> {"off", "menu", "recv", "failed", "exited"}]
  /\ user \in [Clients -> Usernames \union {NULL}]
  /\ command \in [Clients -> S!Requests \union {NULL}]
  /\ asked \in [Clients -> Nat]
  /\ \A c \in Clients : at[c] = "recv" => command[c] # NULL

ServerOK ==
  /\ up \in BOOLEAN
  /\ handler \in [Clients -> {"none", "serving", "ended"}]
  /\ number \in [Clients -> Nat]
  /\ verified \in [Clients -> SUBSET Usernames]
  /\ pending \in [Clients -> S!Requests \union {NULL}]
  /\ DOMAIN reply = Clients
  /\ \A c \in Clients : reply[c] # NULL => reply[c].status \in Statuses

\* Every variable has its type: requests go one way and responses the other, and a
\* client in ReceiveJson knows what it asked.
TypeOK == ChannelOK /\ ClientsOK /\ ServerOK

(*********************************************************************************)
(* Safety.                                                                       *)
(*********************************************************************************)
\* Requests and responses carry no number: the client takes whatever arrives for the
\* response to its last request (ReceiveJson in Commands).  As long as no value filled
\* the buffer, that is what it is.
InStep ==
  \A c \in Clients : ~ oversize[Server(c)] =>
    \A i \in DOMAIN stream[Client(c)] :
      at[c] = "recv" /\ stream[Client(c)][i].value.number = asked[c]

LoginOK(c) ==
  user[c] # NULL =>
    user[c] \in verified[c] \/ socket[Client(c)] # "open" \/ oversize[Server(c)]

\* LogIn logs the user in unless the response says Error, so having no response will do
\* (CommandsNotLoggedIn.cpp:73).  A name the service did not verify on this connection
\* is logged in only by a client that has lost its server, or is out of step.
LoginVerified == \A c \in Clients : LoginOK(c)

\* The server does not know who is logged in: a request says who sends the message.
\* All the same it serves no message in a name that was not verified on the
\* connection it came by, before.
SendersVerified ==
  \A c \in Clients :
    pending[c] # NULL /\ pending[c].action = "SEND_MESSAGE_TO_USER" =>
      pending[c].sender \in verified[c] \/ oversize[Server(c)]

\* Clients leave at any time, with their request in the socket, in service or
\* answered.  No handler is left sending on a connection that is gone for good, which
\* would kill the server for all clients by SIGPIPE (SendJson).
NoBrokenPipe ==
  \A c \in Clients :
    reply[c] # NULL => ~ BrokenPipe(Server(c)) \/ oversize[Server(c)]

(*********************************************************************************)
(* The inductive invariant of the safety properties.                             *)
(*********************************************************************************)
\* What is in e's stream is all of one value.
Front(e) == stream[e][1].value
Whole(e) == stream[e] = Units(Front(e))

\* The ends open and close together, and a closed one has nothing left to do.
SocketsOK(c) ==
  /\ at[c] = "off" <=> socket[Client(c)] = "none"
  /\ at[c] = "off" => stream[Client(c)] = <<>> /\ user[c] = NULL
  /\ at[c] = "exited" <=> socket[Client(c)] = "closed"
  /\ socket[Client(c)] = "none" <=> socket[Server(c)] = "none"
  /\ socket[Client(c)] = "open" <=> socket[Server(c)] = "open"
  /\ socket[Client(c)] = "closed" => stream[Client(c)] = <<>>
  /\ socket[Client(c)] \in {"fin", "reset", "broken"} => socket[Server(c)] = "closed"
  /\ socket[Server(c)] \in {"none", "closed"} =>
       stream[Server(c)] = <<>> /\ pending[c] = NULL
  /\ pending[c] # NULL => handler[c] = "serving"
  /\ reply[c] # NULL => pending[c] # NULL

\* r is what c's client asked, or asked last.
Carried(c, r) ==
  /\ at[c] = "recv" => r = command[c]
  /\ r.action = "SEND_MESSAGE_TO_USER" => r.sender \in verified[c]

\* An answer to r with this status says the truth about the password.
Truthful(c, r, status) ==
  r.action = "VERIFY_USER" /\ status # "Error" => r.username \in verified[c]

\* A client in step has one request under way at most, in one place only: on its way to
\* the handler, in service, or answered and on its way back.
Asking(c) ==
  stream[Server(c)] # <<>> =>
    /\ at[c] \in {"recv", "exited"}
    /\ pending[c] = NULL
    /\ stream[Client(c)] = <<>>
    /\ handler[c] # "ended" =>
         /\ socket[Server(c)] \in {"open", "fin"}
         /\ Whole(Server(c))
         /\ Front(Server(c)).number = asked[c]
         /\ Carried(c, Front(Server(c)).request)

InService(c) ==
  pending[c] # NULL =>
    /\ at[c] \in {"recv", "exited"}
    /\ stream[Client(c)] = <<>> /\ stream[Server(c)] = <<>>
    /\ socket[Server(c)] \in {"open", "fin"}
    /\ number[c] = asked[c]
    /\ Carried(c, pending[c])
    /\ reply[c] # NULL => Truthful(c, pending[c], reply[c].status)

Answered(c) ==
  stream[Client(c)] # <<>> =>
    /\ at[c] = "recv"
    /\ pending[c] = NULL
    /\ stream[Server(c)] = <<>>
    /\ Whole(Client(c))
    /\ Front(Client(c)).length = 1
    /\ Front(Client(c)).number = asked[c]
    /\ Truthful(c, command[c], Front(Client(c)).status)

ConnectionOK(c) ==
  /\ SocketsOK(c)
  /\ ~ oversize[Server(c)] => Asking(c) /\ InService(c) /\ Answered(c)
  /\ LoginOK(c)

\* Together these are preserved by every step of clients, handlers and server.
IInv == TypeOK /\ \A c \in Clients : ConnectionOK(c)

(*********************************************************************************)
(* Liveness.  Threads and processes run, the service answers (RequestsEnd of     *)
(* ClientHandlerProperties) and the container is restarted.  The acceptor        *)
(* accepts what is queued as long as there are descriptors.  Users need not do   *)
(* anything.                                                                     *)
(*********************************************************************************)
Fairness ==
  /\ \A c \in Clients :
       /\ WF_vars(Respond(c) /\ UNCHANGED <<serverVars, serviceVars>>)
       /\ WF_vars(Accept(c))
       /\ WF_vars(ReceiveRequest(c) \/ ReceiveFails(c))
       /\ WF_vars(Handle(c))
       /\ WF_vars(Misses(c))
       /\ WF_vars(SendResponse(c) \/ ResponseFails(c))
  /\ WF_vars(DiesOfMessage)
  /\ WF_vars(DiesOfPipe)
  /\ WF_vars(Restart)

FairSpec == Spec /\ Fairness

\* A handler that fails ends without closing its socket (ClientHandler::Start), so that
\* a client could wait in recv for ever.  It does not, if no value fills the buffer:
\* the wait for a response ends, with the response or with the server.  The one other
\* client that waits for ever is one that was not accepted before the server was full,
\* which it stays: what left clients held is not released (Server.cpp:73-77).
TurnedAway(c) == handler[c] = "none" /\ Full

WaitEnds ==
  \A c \in Clients :
    at[c] = "recv" ~>
      at[c] # "recv" \/ oversize[Client(c)] \/ oversize[Server(c)] \/ TurnedAway(c)

\* The thread of a client that left does not stay, whatever it was doing.
HandlersLeave == \A c \in Clients : at[c] = "exited" ~> handler[c] # "serving"
==================================================================================
