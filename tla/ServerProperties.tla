----------------------------- MODULE ServerProperties ----------------------------
(*********************************************************************************)
(* What the life cycle of the server guarantees, whenever Stop is called and     *)
(* whatever the acceptor, which works on while Stop runs, is doing; and what it  *)
(* does not.  What holds of single connections is in ServerRaced.                *)
(*********************************************************************************)
EXTENDS Server

\* Every variable has its type.
TypeOK ==
  /\ SocketsTypeOK
  /\ m_ServerSocket \in -1 .. MaxFd
  /\ m_ClientHandlers \in Seq(Conns) /\ m_ClientThreads \in Seq(Conns)
  /\ m_Stop \in BOOLEAN
  /\ alive \in [Conns -> BOOLEAN]
  /\ h_ClientSocket \in [Conns -> Fds \union {-1}]
  /\ h_Stop \in [Conns -> BOOLEAN]
  /\ pc \in [Conns -> {"none", "loop", "recv", "blocked", "handle", "send", "done"}]
  /\ arg \in [Conns -> Fds \union {-1}]
  /\ on \in [Conns -> Conns]
  /\ apc \in {"none", "loop", "accept", "returned", "emplace", "register", "done"}
  /\ asock \in Fds \union {-1}
  /\ cpc \in {"idle", "start", "closing", "forget", "joining", "clearHandlers",
              "clearThreads", "setStop", "closeListener", "joinAcceptor"}
  /\ ip \in 1 .. Len(Script) + 1
  /\ todo \in Seq(Conns)
  /\ threw \in BOOLEAN /\ dead \in BOOLEAN

Runs(c) == pc[c] \notin {"none", "done"}

(*********************************************************************************)
(* Stop is called at any moment, connections arriving or not.                    *)
(*********************************************************************************)
\* The descriptor of a connection is closed by its own handler only, stopped or destroyed.
\* The one that ClientHandler::Stop has closed may be another connection's before it is
\* forgotten, and the destructor calls Stop again, but nothing is closed twice.
OnlyOwnSocketsClosed ==
  [][\A f \in Fds : fdt[f] \in Conns /\ fdt'[f] # fdt[f] =>
       /\ h_ClientSocket[fdt[f]] = f
       /\ \/ cpc = "closing" /\ todo # <<>> /\ Head(todo) = fdt[f]
          \/ cpc = "clearHandlers" /\ alive[fdt[f]]]_vars

\* A server that has come through Stop is sound: the process was not terminated, and
\* every thread that still runs, for the acceptor may have started some behind Stop's
\* back, has its handler and the handler its own connection.
SoundBetweenStops ==
  ~ Stopping =>
    /\ ~ dead
    /\ \A c \in Conns : Runs(c) =>
         /\ alive[c] /\ h_ClientSocket[c] # -1
         /\ fdt[h_ClientSocket[c]] = c

\* Only while Stop runs can a client get the answer to another's request.
OwnAnswersBetweenStops ==
  [][~ Stopping => \A d \in Conns : answers'[d] \subseteq answers[d] \union {d}]_vars

(*********************************************************************************)
(* The inductive invariant: how descriptors, handlers and threads are tied.      *)
(*********************************************************************************)
\* Stop has cleared the handlers: those that exist came later, and so did the threads
\* once it has cleared those too.
HandlersCleared == cpc \notin {"closing", "forget", "joining", "clearHandlers"}
ThreadsCleared  == HandlersCleared /\ cpc # "clearThreads"

\* A connection that no handler and no thread has been made for.
Fresh(c) == ~ alive[c] /\ pc[c] = "none" /\ on[c] = c

\* The listener is the only descriptor that is nobody's connection, and Stop closes it.
StopSteps ==
  /\ cpc = "forget" => todo # <<>>
  /\ cpc # "idle" => ip <= Len(Script)
  /\ dead => Stopping
  /\ Listening \/ FreeFds # {}
  /\ \A f \in Fds : fdt[f] = "listen" =>
       f = m_ServerSocket /\ apc # "none" /\ cpc # "joinAcceptor"

\* What is open is known to whom it belongs, except that Stop is about to forget what it
\* has closed; what accept has returned is new to everybody.
StopDescriptors ==
  /\ \A c \in Conns : alive[c] <=> c \in ToSet(m_ClientHandlers)
  /\ \A c \in Conns : h_ClientSocket[c] # -1 =>
       /\ alive[c]
       /\ fdt[h_ClientSocket[c]] = c \/ (cpc = "forget" /\ c = Head(todo))
  /\ apc = "emplace" => asock # -1
  /\ apc \in {"returned", "emplace"} /\ asock # -1 =>
       fdt[asock] \in Conns /\ Fresh(fdt[asock])
  /\ \A c \in Conns :
       /\ client[c] = "new" => conn[c] = "new"
       /\ conn[c] \in {"new", "backlog"} => Fresh(c) /\ \A f \in Fds : fdt[f] # c
       /\ pc[c] = "blocked" => conn[on[c]] \notin {"new", "backlog"}

\* What the acceptor adds behind Stop's back is whole.
StopThreads ==
  /\ apc = "register" =>
       IF m_ClientHandlers = <<>> THEN Stopping
       ELSE pc[Last(m_ClientHandlers)] = "none" /\ on[Last(m_ClientHandlers)] = Last(m_ClientHandlers)
  /\ HandlersCleared => \A c \in Conns : alive[c] => h_ClientSocket[c] # -1
  /\ ~ dead => \A c \in Conns : pc[c] # "none" => c \in ToSet(m_ClientThreads)
  /\ ~ dead /\ ThreadsCleared => \A c \in Conns : pc[c] # "none" =>
       /\ alive[c] /\ on[c] = c
       /\ pc[c] \in {"recv", "send"} => arg[c] # -1 /\ fdt[arg[c]] = c

StopInv == TypeOK /\ StopSteps /\ StopDescriptors /\ StopThreads

(*********************************************************************************)
(* Liveness.  Every thread is scheduled.                                         *)
(*********************************************************************************)
ThreadsRun ==
  /\ \A c \in Conns : WF_vars(~ dead /\ HandlerThread(c))
  /\ WF_vars(~ dead /\ Acceptor)
  /\ WF_vars(~ dead /\ Controller)

\* The environment's share: every client leaves at some time.  (Each leaves once, so it
\* is enough that some client leaves as long as there is one.)
ClientsLeave ==
  WF_vars(/\ ~ dead /\ \E c \in Conns : ClientClose(c)
          /\ UNCHANGED <<m_ServerSocket, m_Stop, objVars, thrVars, accVars, ctlVars, dead>>)

FairSpec == Spec /\ ThreadsRun

LeavingSpec == FairSpec /\ ClientsLeave

\* A client whose connection was accepted gets a response to every request, unless it
\* leaves first; also when there are more clients than descriptors and the acceptor
\* spins on a failing accept.  Its own unreadable request is the one thing that leaves
\* it waiting, on a handler that has ended: no other client's does.
RequestsAnswered ==
  \A c \in Conns :
    conn[c] = "accepted" /\ waiting[c] ~> ~ waiting[c] \/ (c \in Garbling /\ pc[c] = "done")

\* Stop, called at any moment, returns once the clients leave: close() wakes no thread
\* that is blocked in recv, so Stop joins a handler only when its client has sent
\* something or gone (Server.cpp:96, ClientHandler.cpp:64-65).  Or the process dies of
\* the race between Stop and the acceptor.
StopReturns == Stopping ~> (~ Stopping \/ dead)

(*********************************************************************************)
(* What the comment in Client.cpp:32 says, and Stop breaks.                      *)
(*********************************************************************************)
\* "On the server side, each connection has a unique global identifier returned by
\* accept", by which the server communicates with the client.  ClientHandler::Stop
\* closes the descriptor before it forgets it: the acceptor, not stopped yet, may
\* get the same one for the next connection.
UniqueSocketIds ==
  \A c, d \in Conns :
    c # d /\ alive[c] /\ alive[d] /\ h_ClientSocket[c] # -1 =>
      h_ClientSocket[c] # h_ClientSocket[d]
==================================================================================
