--------------------------------- MODULE Sockets ---------------------------------
(*********************************************************************************)
(* The sockets of the server process and its clients, as far as the server can   *)
(* tell: descriptors, connections, and who holds them.  The kernel is external;  *)
(* this is Linux TCP as Server, ClientHandler, JsonHandler and Client use it.    *)
(*********************************************************************************)
EXTENDS Integers, FiniteSets, FiniteSetsExt

CONSTANTS Conns,    \* the connections clients may make, one per client
          MaxFd     \* bound: the descriptors of the process are 1 .. MaxFd

ASSUME SocketsAssumption ==
  MaxFd \in Nat \ {0} /\ Conns \cap {"free", "listen", "none"} = {}

VARIABLES fdt,      \* fdt[f]: the connection f refers to, "listen" or "free"
          conn,     \* conn[c]: the server's end of connection c
          client,   \* client[c]: the client's end
          sent,     \* sent[c]: the client has sent a request nobody has read
          waiting,  \* waiting[c]: the client awaits the response to its request
          answers   \* answers[c]: the connections whose requests were answered to c

sockVars == <<fdt, conn, client, sent, waiting, answers>>

Fds == 1 .. MaxFd

FreeFds   == {f \in Fds : fdt[f] = "free"}
\* socket() and accept() return the lowest descriptor that is free.
LowestFd  == Min(FreeFds)
Listening == \E f \in Fds : fdt[f] = "listen"
Backlog   == {c \in Conns : conn[c] = "backlog"}

\* bind() fails while a connection of the port is left, in whatever state: the server
\* does not set SO_REUSEADDR.
PortBusy == \E c \in Conns : conn[c] \in {"accepted", "lingering"}

\* What is left of the server's end once nothing refers to it: nothing when the client
\* closed first, or when unread data makes the close a reset; otherwise FIN_WAIT or
\* TIME_WAIT.
Remains(c, unread) == IF client[c] = "open" /\ ~ unread THEN "lingering" ELSE "gone"

\* close() of the descriptors in F.  A thread blocked in recv keeps the connection it
\* waits on: it is not woken, and the connection stays up.  blockedOn: those so kept.
Close(F, blockedOn) ==
  /\ fdt' = [f \in Fds |-> IF f \in F THEN "free" ELSE fdt[f]]
  /\ conn' = [c \in Conns |->
                IF (\E f \in F : fdt[f] = c) /\ c \notin blockedOn
                THEN Remains(c, sent[c]) ELSE conn[c]]
  /\ UNCHANGED <<client, sent, waiting, answers>>

\* shutdown and close of the listening socket f: the backlog is reset.
CloseListener(f) ==
  /\ fdt' = [fdt EXCEPT ![f] = "free"]
  /\ conn' = [c \in Conns |-> IF conn[c] = "backlog" THEN "gone" ELSE conn[c]]
  /\ UNCHANGED <<client, sent, waiting, answers>>

(*********************************************************************************)
(* The clients, each on a connection of its own.  A client library call sends one *)
(* request and waits for the response; a client may go away at any time.         *)
(*********************************************************************************)
\* The Client constructor connects.
Connect(c) ==
  /\ client[c] = "new"
  /\ Listening
  /\ client' = [client EXCEPT ![c] = "open"]
  /\ conn' = [conn EXCEPT ![c] = "backlog"]
  /\ UNCHANGED <<fdt, sent, waiting, answers>>

ClientSend(c) ==
  /\ client[c] = "open"
  /\ ~ waiting[c]
  /\ conn[c] \in {"backlog", "accepted"}
  /\ sent' = [sent EXCEPT ![c] = TRUE]
  /\ waiting' = [waiting EXCEPT ![c] = TRUE]
  /\ UNCHANGED <<fdt, conn, client, answers>>

\* Client::Stop, or the client process ends.
ClientClose(c) ==
  /\ client[c] = "open"
  /\ client' = [client EXCEPT ![c] = "closed"]
  /\ waiting' = [waiting EXCEPT ![c] = FALSE]
  /\ UNCHANGED <<fdt, conn, sent, answers>>

\* TIME_WAIT and FIN_WAIT end.
Expire(c) ==
  /\ conn[c] = "lingering"
  /\ conn' = [conn EXCEPT ![c] = "gone"]
  /\ UNCHANGED <<fdt, client, sent, waiting, answers>>

SocketsInit ==
  /\ fdt = [f \in Fds |-> "free"]
  /\ conn = [c \in Conns |-> "new"]
  /\ client = [c \in Conns |-> "new"]
  /\ sent = [c \in Conns |-> FALSE]
  /\ waiting = [c \in Conns |-> FALSE]
  /\ answers = [c \in Conns |-> {}]

SocketsTypeOK ==
  /\ fdt \in [Fds -> Conns \union {"free", "listen"}]
  /\ conn \in [Conns -> {"new", "backlog", "accepted", "lingering", "gone"}]
  /\ client \in [Conns -> {"new", "open", "closed"}]
  /\ sent \in [Conns -> BOOLEAN]
  /\ waiting \in [Conns -> BOOLEAN]
  /\ answers \in [Conns -> SUBSET Conns]
==================================================================================
