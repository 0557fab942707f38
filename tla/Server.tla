---------------------------------- MODULE Server ---------------------------------
(*********************************************************************************)
(* The life cycle of the server: the thread that calls Start, Stop, Restart and  *)
(* Wait, the acceptor thread of Start, and the ClientHandler threads with the    *)
(* loop of ClientHandler::Start.                                                 *)
(*                                                                               *)
(* m_Mtx is held by Start and Stop only.  One thread calls them, here as in      *)
(* exe_server and in the tests, so it is never contended and not modelled.  The  *)
(* acceptor takes no lock: m_ClientHandlers, m_ClientThreads, m_Stop and the     *)
(* members of the handlers are shared without any.                               *)
(*********************************************************************************)
EXTENDS Sockets, SequencesExt

CONSTANTS Script,       \* what the controlling thread does: a sequence of operations
          Garbling      \* the clients whose requests may be unreadable: longer than the
                        \* buffer, or no JSON object

Ops == [do : {"Start", "Stop", "Restart"}]

ASSUME ServerAssumption == Script \in Seq(Ops) /\ Garbling \subseteq Conns

VARIABLES
  \* class Server
  m_ServerSocket, m_ClientHandlers, m_ClientThreads, m_Stop,
  \* class ClientHandler, one object per accepted connection
  alive,            \* alive[c]: the object exists
  h_ClientSocket,   \* h_ClientSocket[c]: its m_ClientSocket
  h_Stop,           \* h_Stop[c]: its m_Stop
  \* the threads
  pc,               \* pc[c]: where the handler thread of c is
  arg,              \* arg[c]: the descriptor it passed to recv or send
  on,               \* on[c]: the connection it receives from, or whose request it has
  apc, asock,       \* where the acceptor is, and its clientSocket
  cpc, ip, todo,    \* where the controlling thread is: in ip's operation of Script,
                    \* with the elements its current loop has still to visit
  threw,            \* history: a call of Start has thrown
  dead              \* the process was terminated

objVars == <<m_ClientHandlers, m_ClientThreads, alive, h_ClientSocket, h_Stop>>
thrVars == <<pc, arg, on>>
accVars == <<apc, asock>>
ctlVars == <<cpc, ip, todo, threw>>
vars    == <<sockVars, m_ServerSocket, m_Stop, objVars, thrVars, accVars, ctlVars, dead>>

None == "none"

\* The connections that threads other than t's are blocked on in recv.
BlockedOn(t) == {on[o] : o \in {o \in Conns \ {t} : pc[o] = "blocked"}}

(*********************************************************************************)
(* ClientHandler::Start and HandleAction: the thread of handler c.               *)
(*********************************************************************************)
\* while (!m_Stop); HandleAction reads m_ClientSocket to call ReceiveJson.
HandlerLoop(c) ==
  /\ pc[c] = "loop"
  /\ IF h_Stop[c] THEN pc' = [pc EXCEPT ![c] = "done"] /\ UNCHANGED arg
                  ELSE /\ pc' = [pc EXCEPT ![c] = "recv"]
                       /\ arg' = [arg EXCEPT ![c] = h_ClientSocket[c]]
  /\ UNCHANGED <<sockVars, objVars, on>>

\* recv on whatever the descriptor refers to by now.
EnterRecv(c) ==
  /\ pc[c] = "recv"
  /\ IF arg[c] \in Fds /\ fdt[arg[c]] \in Conns
     THEN /\ pc' = [pc EXCEPT ![c] = "blocked"]
          /\ on' = [on EXCEPT ![c] = fdt[arg[c]]]
     ELSE pc' = [pc EXCEPT ![c] = "done"] /\ UNCHANGED on
  /\ UNCHANGED <<sockVars, objVars, arg>>

\* recv ends; it may have been the last thing to hold the connection open.
LeaveRecv(c, unread) ==
  conn' = [conn EXCEPT ![on[c]] =
             IF on[c] \in BlockedOn(c) \/ \E f \in Fds : fdt[f] = on[c]
             THEN @ ELSE Remains(on[c], unread)]

\* Mutant: the socket is closed as soon as the request is read, and not forgotten.
CloseAfterRead(c) ==
  /\ pc[c] = "blocked"
  /\ sent[on[c]]
  /\ fdt' = [fdt EXCEPT ![arg[c]] = "free"]
  /\ sent' = [sent EXCEPT ![on[c]] = FALSE]
  /\ conn' = [conn EXCEPT ![on[c]] = "gone"]
  /\ pc' = [pc EXCEPT ![c] = "handle"]
  /\ UNCHANGED <<client, waiting, answers, objVars, arg, on>>

RecvRequest(c) ==
  /\ pc[c] = "blocked"
  /\ sent[on[c]]
  /\ sent' = [sent EXCEPT ![on[c]] = FALSE]
  /\ LeaveRecv(c, FALSE)
  /\ pc' = [pc EXCEPT ![c] = "handle"]
  /\ UNCHANGED <<fdt, client, waiting, answers, objVars, arg, on>>

\* What is read is no request: ReceiveJson returns false, or the action is not there to
\* be looked up.  HandleAction throws, the loop breaks; nothing is answered, the socket
\* is not closed, and what did not fit the buffer is left in it.
RecvFails(c) ==
  /\ pc[c] = "blocked"
  /\ sent[on[c]] /\ on[c] \in Garbling
  /\ \E rest \in BOOLEAN : sent' = [sent EXCEPT ![on[c]] = rest] /\ LeaveRecv(c, rest)
  /\ pc' = [pc EXCEPT ![c] = "done"]
  /\ UNCHANGED <<fdt, client, waiting, answers, objVars, arg, on>>

\* recv returns 0: HandleAction throws, the loop breaks.  The socket is not closed.
RecvEnd(c) ==
  /\ pc[c] = "blocked"
  /\ ~ sent[on[c]] /\ client[on[c]] = "closed"
  /\ LeaveRecv(c, FALSE)
  /\ pc' = [pc EXCEPT ![c] = "done"]
  /\ UNCHANGED <<fdt, client, sent, waiting, answers, objVars, arg, on>>

\* The Handle... function returns; HandleAction reads m_ClientSocket for SendJson.
HandleRequest(c) ==
  /\ pc[c] = "handle"
  /\ pc' = [pc EXCEPT ![c] = "send"]
  /\ arg' = [arg EXCEPT ![c] = h_ClientSocket[c]]
  /\ UNCHANGED <<sockVars, objVars, on>>

\* Mutant: the loop serves one request and ends.
OneRequest(c) ==
  /\ pc[c] = "send"
  /\ pc' = [pc EXCEPT ![c] = "done"]
  /\ waiting' = [waiting EXCEPT ![on[c]] = FALSE]
  /\ UNCHANGED <<fdt, conn, client, sent, answers, objVars, arg, on>>

\* send on whatever the descriptor refers to by now.
SendResponse(c) ==
  /\ pc[c] = "send"
  /\ IF arg[c] \in Fds /\ fdt[arg[c]] \in Conns
     THEN LET d == fdt[arg[c]] IN
          /\ pc' = [pc EXCEPT ![c] = "loop"]
          /\ waiting' = [waiting EXCEPT ![d] = FALSE]
          /\ answers' = [answers EXCEPT ![d] =
                           IF client[d] = "open" THEN @ \union {on[c]} ELSE @]
     ELSE pc' = [pc EXCEPT ![c] = "done"] /\ UNCHANGED <<waiting, answers>>
  /\ UNCHANGED <<fdt, conn, client, sent, objVars, arg, on>>

HandlerThread(c) ==
  /\ \/ HandlerLoop(c) \/ EnterRecv(c)     \/ RecvRequest(c) \/ RecvFails(c)
     \/ RecvEnd(c)     \/ HandleRequest(c) \/ SendResponse(c)
  /\ UNCHANGED <<m_ServerSocket, m_Stop, accVars, ctlVars, dead>>

(*********************************************************************************)
(* The acceptor: the lambda of Server::Start.                                    *)
(*********************************************************************************)
\* The controlling thread is in a loop over, or about to clear, one of the vectors:
\* an emplace_back by the acceptor is then a data race, which may do anything.
IteratesHandlers == cpc \in {"closing", "forget", "clearHandlers"}
IteratesThreads  == cpc \in {"joining", "clearThreads"}

\* while (!m_Stop)
AcceptorLoop ==
  /\ apc = "loop"
  /\ apc' = IF m_Stop THEN "done" ELSE "accept"
  /\ UNCHANGED <<sockVars, objVars, pc, asock, dead>>

AcceptConnection ==
  /\ apc = "accept"
  /\ Listening
  /\ FreeFds # {}
  /\ \E c \in Backlog :
       /\ fdt' = [fdt EXCEPT ![LowestFd] = c]
       /\ conn' = [conn EXCEPT ![c] = "accepted"]
  /\ asock' = LowestFd
  /\ apc' = "returned"
  /\ UNCHANGED <<client, sent, waiting, answers, objVars, pc, dead>>

\* accept returns -1: the socket was shut down or closed, or no descriptor is left.
AcceptFails ==
  /\ apc = "accept"
  /\ ~ Listening \/ (Backlog # {} /\ FreeFds = {})
  /\ asock' = -1
  /\ apc' = "returned"
  /\ UNCHANGED <<sockVars, objVars, pc, dead>>

\* if (m_Stop) break; if (clientSocket == -1) continue;
AcceptReturned ==
  /\ apc = "returned"
  /\ apc' = CASE m_Stop                  -> "done"
              [] ~ m_Stop /\ asock = -1  -> "loop"
              [] ~ m_Stop /\ asock # -1  -> "emplace"
  /\ UNCHANGED <<sockVars, objVars, pc, asock, dead>>

\* m_ClientHandlers.emplace_back(...)
EmplaceHandler ==
  /\ apc = "emplace"
  /\ LET c == fdt[asock] IN
     /\ m_ClientHandlers' = Append(m_ClientHandlers, c)
     /\ alive' = [alive EXCEPT ![c] = TRUE]
     /\ h_ClientSocket' = [h_ClientSocket EXCEPT ![c] = asock]
     /\ h_Stop' = [h_Stop EXCEPT ![c] = FALSE]
  /\ apc' = "register"
  /\ dead' \in {FALSE, IteratesHandlers}
  /\ UNCHANGED <<sockVars, m_ClientThreads, pc, asock>>

\* m_ClientThreads.emplace_back(..., m_ClientHandlers.back().get()): back() of a vector
\* that was cleared in between is undefined.
EmplaceThread ==
  /\ apc = "register"
  /\ apc' = "loop"
  /\ IF m_ClientHandlers = <<>>
     THEN dead' = TRUE /\ UNCHANGED <<m_ClientThreads, pc>>
     ELSE /\ m_ClientThreads' = Append(m_ClientThreads, Last(m_ClientHandlers))
          /\ pc' = [pc EXCEPT ![Last(m_ClientHandlers)] = "loop"]
          /\ dead' \in {FALSE, IteratesThreads}
  /\ UNCHANGED <<sockVars, m_ClientHandlers, alive, h_ClientSocket, h_Stop, asock>>

Acceptor ==
  /\ \/ AcceptorLoop   \/ AcceptConnection \/ AcceptFails
     \/ AcceptReturned \/ EmplaceHandler   \/ EmplaceThread
  /\ UNCHANGED <<m_ServerSocket, m_Stop, arg, on, ctlVars>>

(*********************************************************************************)
(* Start, Stop and Restart: the controlling thread.  Wait only joins the         *)
(* acceptor, which nobody stops while the one controlling thread waits: a server *)
(* in Wait is one at the end of Script.                                          *)
(*********************************************************************************)
Op       == Script[ip]
Fetches(do) == cpc = "idle" /\ ip <= Len(Script) /\ Op.do = do
Stopping == cpc \notin {"idle", "start"}

GoTo(next)  == cpc' = next /\ UNCHANGED <<ip, todo, threw>>
Loop(next, elements) == cpc' = next /\ todo' = elements /\ UNCHANGED <<ip, threw>>
Visited     == todo' = Tail(todo) /\ UNCHANGED <<ip, threw>>
Returns     == cpc' = "idle" /\ ip' = ip + 1 /\ UNCHANGED <<todo, threw>>

\* m_ServerThread.joinable(): the thread runs, or ended and was not joined.
Joinable == apc # "none"

BeginStart ==
  /\ Fetches("Start")
  /\ GoTo("start")
  /\ UNCHANGED <<sockVars, m_ServerSocket, m_Stop, objVars, pc, apc, dead>>

StartRunning ==
  /\ cpc = "start" /\ Joinable
  /\ Returns
  /\ UNCHANGED <<sockVars, m_ServerSocket, m_Stop, objVars, pc, apc, dead>>

\* bind fails.  The caller catches the exception and goes on, as the tests do;
\* m_ServerSocket keeps the number of the descriptor that was closed again.  (socket
\* itself finds a descriptor: at least the one of the listener that Stop closed.)
StartThrows ==
  /\ cpc = "start" /\ ~ Joinable
  /\ PortBusy
  /\ m_ServerSocket' = LowestFd
  /\ m_Stop' = FALSE
  /\ threw' = TRUE
  /\ cpc' = "idle" /\ ip' = ip + 1 /\ UNCHANGED todo
  /\ UNCHANGED <<sockVars, objVars, pc, apc, dead>>

StartListens ==
  /\ cpc = "start" /\ ~ Joinable
  /\ ~ PortBusy
  /\ m_ServerSocket' = LowestFd
  /\ fdt' = [fdt EXCEPT ![LowestFd] = "listen"]
  /\ m_Stop' = FALSE
  /\ apc' = "loop"
  /\ Returns
  /\ UNCHANGED <<conn, client, sent, waiting, answers, objVars, pc, dead>>

\* Stop, or Restart, which calls it: for (clientHandler : m_ClientHandlers).
BeginStop ==
  /\ Fetches("Stop") \/ Fetches("Restart")
  /\ Loop("closing", m_ClientHandlers)
  /\ UNCHANGED <<sockVars, m_ServerSocket, m_Stop, objVars, pc, apc, dead>>

\* Mutant: m_ClientSocket = -1 comes first, and close(-1) closes nothing.
ForgetFirst ==
  /\ cpc = "closing" /\ todo # <<>>
  /\ h_Stop' = [h_Stop EXCEPT ![Head(todo)] = TRUE]
  /\ h_ClientSocket' = [h_ClientSocket EXCEPT ![Head(todo)] = -1]
  /\ Visited
  /\ UNCHANGED <<cpc, sockVars, m_ServerSocket, m_Stop, m_ClientHandlers, m_ClientThreads,
                 alive, pc, apc, dead>>

\* ClientHandler::Stop: m_Stop = true, and close if m_ClientSocket is not -1 ...
StopHandler ==
  /\ cpc = "closing" /\ todo # <<>>
  /\ h_Stop' = [h_Stop EXCEPT ![Head(todo)] = TRUE]
  /\ IF h_ClientSocket[Head(todo)] = -1
     THEN Visited /\ UNCHANGED <<sockVars, cpc>>
     ELSE GoTo("forget") /\ Close({h_ClientSocket[Head(todo)]}, BlockedOn(None))
  /\ UNCHANGED <<m_ServerSocket, m_Stop, m_ClientHandlers, m_ClientThreads, alive,
                 h_ClientSocket, pc, apc, dead>>

\* Mutant: m_ClientSocket keeps the number of the descriptor that was closed.
KeepsNumber ==
  /\ cpc = "forget"
  /\ cpc' = "closing" /\ Visited
  /\ UNCHANGED <<sockVars, m_ServerSocket, m_Stop, objVars, pc, apc, dead>>

\* ... and then m_ClientSocket = -1.
ForgetSocket ==
  /\ cpc = "forget"
  /\ h_ClientSocket' = [h_ClientSocket EXCEPT ![Head(todo)] = -1]
  /\ cpc' = "closing" /\ Visited
  /\ UNCHANGED <<sockVars, m_ServerSocket, m_Stop, m_ClientHandlers, m_ClientThreads,
                 alive, h_Stop, pc, apc, dead>>

\* Mutant: the handler threads are not joined.
SkipJoins ==
  /\ cpc = "closing" /\ todo = <<>>
  /\ Loop("joining", <<>>)
  /\ UNCHANGED <<sockVars, m_ServerSocket, m_Stop, objVars, pc, apc, dead>>

\* for (clientThread : m_ClientThreads)
HandlersStopped ==
  /\ cpc = "closing" /\ todo = <<>>
  /\ Loop("joining", m_ClientThreads)
  /\ UNCHANGED <<sockVars, m_ServerSocket, m_Stop, objVars, pc, apc, dead>>

JoinHandler ==
  /\ cpc = "joining" /\ todo # <<>>
  /\ pc[Head(todo)] = "done"
  /\ pc' = [pc EXCEPT ![Head(todo)] = "none"]
  /\ Visited
  /\ UNCHANGED <<cpc, sockVars, m_ServerSocket, m_Stop, objVars, apc, dead>>

HandlersJoined ==
  /\ cpc = "joining" /\ todo = <<>>
  /\ GoTo("clearHandlers")
  /\ UNCHANGED <<sockVars, m_ServerSocket, m_Stop, objVars, pc, apc, dead>>

\* m_ClientHandlers.clear(): the destructors call ClientHandler::Stop.
ClearHandlers ==
  /\ cpc = "clearHandlers"
  /\ LET gone == ToSet(m_ClientHandlers) IN
     /\ alive' = [c \in Conns |-> alive[c] /\ c \notin gone]
     /\ h_Stop' = [c \in Conns |-> h_Stop[c] \/ c \in gone]
     /\ h_ClientSocket' = [c \in Conns |-> IF c \in gone THEN -1 ELSE h_ClientSocket[c]]
     /\ Close({h_ClientSocket[c] : c \in gone} \ {-1}, BlockedOn(None))
  /\ m_ClientHandlers' = <<>>
  /\ GoTo("clearThreads")
  /\ UNCHANGED <<m_ServerSocket, m_Stop, m_ClientThreads, pc, apc, dead>>

\* Mutant: m_ClientThreads is not cleared.
KeepThreads ==
  /\ cpc = "clearThreads"
  /\ GoTo("setStop")
  /\ UNCHANGED <<sockVars, m_ServerSocket, m_Stop, objVars, pc, apc, dead>>

\* Mutant: threads that were not joined are detached.
DetachThreads ==
  /\ cpc = "clearThreads"
  /\ m_ClientThreads' = <<>>
  /\ GoTo("setStop")
  /\ UNCHANGED <<sockVars, m_ServerSocket, m_Stop, m_ClientHandlers, alive,
                 h_ClientSocket, h_Stop, pc, apc, dead>>

\* m_ClientThreads.clear(): destroying a thread that was not joined terminates.
ClearThreads ==
  /\ cpc = "clearThreads"
  /\ m_ClientThreads' = <<>>
  /\ dead' = \E c \in ToSet(m_ClientThreads) : pc[c] # "none"
  /\ GoTo("setStop")
  /\ UNCHANGED <<sockVars, m_ServerSocket, m_Stop, m_ClientHandlers, alive,
                 h_ClientSocket, h_Stop, pc, apc>>

SetStop ==
  /\ cpc = "setStop"
  /\ m_Stop' = TRUE
  /\ GoTo("closeListener")
  /\ UNCHANGED <<sockVars, m_ServerSocket, objVars, pc, apc, dead>>

\* Mutant: close without shutdown, which does not wake the acceptor.
NoShutdown ==
  /\ cpc = "closeListener"
  /\ m_ServerSocket' = -1
  /\ GoTo("joinAcceptor")
  /\ UNCHANGED <<sockVars, m_Stop, objVars, pc, apc, dead>>

\* if (m_ServerSocket != -1): shutdown, close.  A stale number closes nothing.
CloseServerSocket ==
  /\ cpc = "closeListener"
  /\ IF m_ServerSocket \in Fds /\ fdt[m_ServerSocket] = "listen"
     THEN CloseListener(m_ServerSocket) ELSE UNCHANGED sockVars
  /\ m_ServerSocket' = -1
  /\ GoTo("joinAcceptor")
  /\ UNCHANGED <<m_Stop, objVars, pc, apc, dead>>

\* if (m_ServerThread.joinable()) join.  Restart goes on with Start.
JoinAcceptor ==
  /\ cpc = "joinAcceptor"
  /\ apc \in {"none", "done"}
  /\ apc' = "none"
  /\ IF Op.do = "Restart" THEN GoTo("start") ELSE Returns
  /\ UNCHANGED <<sockVars, m_ServerSocket, m_Stop, objVars, pc, dead>>

Controller ==
  /\ \/ BeginStart    \/ StartRunning   \/ StartThrows       \/ StartListens
     \/ BeginStop     \/ StopHandler    \/ ForgetSocket      \/ HandlersStopped
     \/ JoinHandler   \/ HandlersJoined \/ ClearHandlers     \/ ClearThreads
     \/ SetStop       \/ CloseServerSocket \/ JoinAcceptor
  /\ UNCHANGED <<arg, on, asock>>

(*********************************************************************************)
(* The clients and the kernel.                                                   *)
(*********************************************************************************)
ClientActs(c) ==
  /\ Connect(c) \/ ClientSend(c) \/ ClientClose(c) \/ Expire(c)
  /\ UNCHANGED <<m_ServerSocket, m_Stop, objVars, thrVars, accVars, ctlVars, dead>>

Init ==
  /\ SocketsInit
  /\ m_ServerSocket = 0   \* static storage, not initialised
  /\ m_ClientHandlers = <<>> /\ m_ClientThreads = <<>>
  /\ m_Stop = FALSE
  /\ alive = [c \in Conns |-> FALSE]
  /\ h_ClientSocket = [c \in Conns |-> -1]
  /\ h_Stop = [c \in Conns |-> FALSE]
  /\ pc = [c \in Conns |-> "none"]
  /\ arg = [c \in Conns |-> -1]
  /\ on = [c \in Conns |-> c]
  /\ apc = "none" /\ asock = -1
  /\ cpc = "idle" /\ ip = 1 /\ todo = <<>>
  /\ threw = FALSE
  /\ dead = FALSE

Next ==
  /\ ~ dead
  /\ \/ \E c \in Conns : HandlerThread(c) \/ ClientActs(c)
     \/ Acceptor
     \/ Controller

Spec == Init /\ [][Next]_vars
==================================================================================
