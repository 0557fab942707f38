---------------------------- MODULE ServerRacedProofs ----------------------------
(*********************************************************************************)
(* Proofs about the connections of the server, those that Stop raced with and    *)
(* those it did not: for any script, any number of clients and descriptors.      *)
(*********************************************************************************)
EXTENDS ServerRaced, ServerProofs

\* What a step does to the history variable.
Races == raced' = IF Stopping' THEN raced \union InHand' ELSE raced

LEMMA RacedGrows ==
  ASSUME IInv, Races
  PROVE  /\ raced \subseteq raced' /\ raced' \subseteq Conns
         /\ Stopping' => InHand' \subseteq raced'
         /\ ~ Stopping' => raced' = raced
  BY DEF IInv, RacedInv, RacedOK, InHand, Races

\* A step that hands no connection on, and does not begin a Stop, adds none.
LEMMA RacedStays ==
  ASSUME IInv, Races, UNCHANGED <<fdt, m_ClientHandlers, apc, asock>>, Stopping' => Stopping
  PROVE  raced' = raced /\ InHand' = InHand
<1>1. InHand' = InHand
  BY DEF InHand
<1> QED BY <1>1 DEF IInv, RacedInv, RacedOK, Races

(*********************************************************************************)
(* The handler threads.                                                          *)
(*********************************************************************************)
\* A step of a running thread: what it holds, waits on and keeps open is its own, or of
\* a connection that raced with Stop.
LEMMA RacedThreadMoves ==
  ASSUME IInv, ~ dead, HandlerFrame, Races, NEW c \in Conns, pc[c] # "none",
         NEW p \in {"loop", "recv", "blocked", "handle", "send", "done"},
         pc' = [pc EXCEPT ![c] = p],
         \A d \in Conns \ {c} : arg'[d] = arg[d] /\ on'[d] = on[d],
         p \in {"recv", "send"} =>
           /\ arg'[c] # -1 => fdt[arg'[c]] \notin Conns \ (raced \union {c})
           /\ Held(c) => arg'[c] # -1 /\ fdt[arg'[c]] = c,
         on'[c] # c => on'[c] \in raced /\ ~ Held(c),
         \A d \in Conns : conn'[d] = "accepted" =>
           Held(d) \/ \E o \in Conns : pc'[o] = "blocked" /\ on'[o] = d,
         \A d \in Conns \ raced : answers'[d] \subseteq {d}
  PROVE  RacedInv'
<1> USE DEF HandlerFrame, objVars, accVars, ctlVars
<1>1. raced' = raced /\ InHand' = InHand
  BY RacedStays DEF Stopping
<1>2. pc'[c] = p /\ p # "none" /\ \A d \in Conns : d # c => pc'[d] = pc[d]
  BY DEF IInv, StopInv, TypeOK
<1>3. RacedOK'
  BY <1>1 DEF IInv, RacedInv, RacedOK, Stopping
<1>4. \A d \in Conns : pc'[d] = "none" <=> pc[d] = "none"
  BY <1>2
<1>5. JoinsOK'
  BY <1>1, <1>4 DEF IInv, RacedInv, JoinsOK, Joined, Cleared, Over
<1>6. HoldersOK'
  <2>1. \A d \in Conns : Held(d)' = Held(d) /\ (Fresh(d) => Fresh(d)')
    BY <1>2 DEF Held, Fresh
  <2>2. /\ \A f, g \in Fds : fdt'[f] \in Conns /\ fdt'[f] = fdt'[g] => f = g
        /\ \A f \in Fds : fdt'[f] \in Conns =>
             \/ h_ClientSocket'[fdt'[f]] = f
             \/ /\ Fresh(fdt[f])'
                /\ fdt'[f] \in raced' \/ (apc' \in {"returned", "emplace"} /\ asock' = f)
        /\ cpc' = "forget" => alive'[Head(todo')] /\ ~ Held(Head(todo))'
    BY <1>1, <2>1 DEF IInv, RacedInv, HoldersOK, Held
  <2>3. ASSUME NEW d \in Conns
        PROVE  /\ h_ClientSocket'[d] # -1 =>
                    fdt'[h_ClientSocket'[d]] \notin Conns \ (raced' \union {d})
               /\ pc'[d] \in {"recv", "send"} =>
                    /\ arg'[d] # -1 => fdt'[arg'[d]] \notin Conns \ (raced' \union {d})
                    /\ Held(d)' => arg'[d] # -1 /\ fdt'[arg'[d]] = d
               /\ on'[d] # d => on'[d] \in raced' /\ ~ Held(d)'
    <3>1. CASE d = c
      BY <1>1, <1>2, <2>1, <3>1 DEF IInv, RacedInv, HoldersOK
    <3>2. CASE d # c
      BY <1>1, <1>2, <2>1, <3>2 DEF IInv, RacedInv, HoldersOK
    <3> QED BY <3>1, <3>2
  <2>4. \A d \in Conns : conn'[d] = "accepted" =>
          Held(d)' \/ \E o \in Conns : pc'[o] = "blocked" /\ on'[o] = d
    BY <2>1
  <2> QED BY <2>2, <2>3, <2>4 DEF HoldersOK
<1>7. NoCrossTalk'
  BY <1>1 DEF NoCrossTalk
<1> QED BY <1>3, <1>5, <1>6, <1>7 DEF RacedInv

\* The descriptor a running thread reads from its handler.
LEMMA ReadsOwnSocket ==
  ASSUME IInv, NEW c \in Conns, pc[c] # "none"
  PROVE  /\ h_ClientSocket[c] # -1 =>
              fdt[h_ClientSocket[c]] \notin Conns \ (raced \union {c})
         /\ Held(c) => h_ClientSocket[c] # -1 /\ fdt[h_ClientSocket[c]] = c
<1>1. ASSUME Held(c) PROVE h_ClientSocket[c] # -1 /\ fdt[h_ClientSocket[c]] = c
  <2>1. PICK f \in Fds : fdt[f] = c
    BY <1>1 DEF Held
  <2>2. h_ClientSocket[c] = f
    BY <2>1 DEF IInv, RacedInv, HoldersOK, Fresh
  <2>3. f # -1
    BY SocketsAssumption DEF Fds
  <2> QED BY <2>1, <2>2, <2>3
<1> QED BY <1>1 DEF IInv, RacedInv, HoldersOK

\* A thread that returns from recv leaves accepted what somebody else keeps open.
LEMMA RacedLeavesRecv ==
  ASSUME IInv, NEW c \in Conns, pc[c] = "blocked", NEW unread \in BOOLEAN,
         LeaveRecv(c, unread), NEW p, p # "blocked", pc' = [pc EXCEPT ![c] = p], on' = on,
         NEW d \in Conns, conn'[d] = "accepted"
  PROVE  Held(d) \/ \E o \in Conns : pc'[o] = "blocked" /\ on'[o] = d
<1>1. on[c] \in Conns /\ conn \in [Conns -> {"new", "backlog", "accepted", "lingering", "gone"}]
      /\ \A o \in Conns \ {c} : pc'[o] = pc[o]
  BY DEF IInv, StopInv, TypeOK, SocketsTypeOK
<1>2. CASE d = on[c]
  <2>1. d \in BlockedOn(c) \/ Held(d)
    BY <1>1, <1>2 DEF LeaveRecv, Remains, Held
  <2> QED BY <1>1, <2>1 DEF BlockedOn
<1>3. CASE d # on[c]
  <2>1. conn[d] = "accepted"
    BY <1>1, <1>3 DEF LeaveRecv
  <2>2. Held(d) \/ \E o \in Conns : pc[o] = "blocked" /\ on[o] = d
    BY <2>1 DEF IInv, RacedInv, HoldersOK
  <2> QED BY <1>1, <1>3, <2>2
<1> QED BY <1>2, <1>3

LEMMA RacedHandlerThread ==
  ASSUME IInv, ~ dead, Races, NEW c \in Conns, HandlerThread(c)
  PROVE  RacedInv'
<1> USE DEF objVars, sockVars
<1>1. pc[c] # "none"
  BY DEF HandlerThread, HandlerLoop, EnterRecv, RecvRequest, RecvFails, RecvEnd, HandleRequest,
     SendResponse
<1>2. HandlerFrame
  BY DEF HandlerThread, HandlerLoop, EnterRecv, RecvRequest, RecvFails, RecvEnd, HandleRequest,
     SendResponse, HandlerFrame, accVars, ctlVars
<1>3. /\ arg \in [Conns -> Fds \union {-1}] /\ on \in [Conns -> Conns]
      /\ pc \in [Conns -> {"none", "loop", "recv", "blocked", "handle", "send", "done"}]
      /\ answers \in [Conns -> SUBSET Conns]
  BY DEF IInv, StopInv, TypeOK, SocketsTypeOK
<1>4. /\ \A d \in Conns \ raced : answers[d] \subseteq {d}
      /\ on[c] # c => on[c] \in raced /\ ~ Held(c)
      /\ pc[c] \in {"recv", "send"} =>
           /\ arg[c] # -1 => fdt[arg[c]] \notin Conns \ (raced \union {c})
           /\ Held(c) => arg[c] # -1 /\ fdt[arg[c]] = c
  BY DEF IInv, RacedInv, HoldersOK, NoCrossTalk
<1>5. ASSUME NEW p \in {"loop", "recv", "blocked", "handle", "send", "done"}, pc[c] # "blocked",
             pc' = [pc EXCEPT ![c] = p], conn' = conn,
             \A d \in Conns \ {c} : on'[d] = on[d]
      PROVE  \A d \in Conns : conn'[d] = "accepted" =>
               Held(d) \/ \E o \in Conns : pc'[o] = "blocked" /\ on'[o] = d
  <2>1. \A o \in Conns : pc[o] = "blocked" => pc'[o] = "blocked" /\ on'[o] = on[o]
    BY <1>3, <1>5
  <2> QED BY <1>5, <2>1 DEF IInv, RacedInv, HoldersOK
<1>6. CASE HandlerLoop(c) \/ HandleRequest(c)
  <2>1. CASE pc' = [pc EXCEPT ![c] = "done"] /\ arg' = arg
    BY <1>1, <1>2, <1>4, <1>5, <1>6, <2>1, RacedThreadMoves DEF HandlerLoop, HandleRequest
  <2>2. ASSUME NEW p \in {"recv", "send"}, pc' = [pc EXCEPT ![c] = p],
               arg' = [arg EXCEPT ![c] = h_ClientSocket[c]]
        PROVE  RacedInv'
    <3>1. arg'[c] = h_ClientSocket[c] /\ \A d \in Conns \ {c} : arg'[d] = arg[d]
      BY <1>3, <2>2
    <3>2. UNCHANGED <<conn, answers, on>> /\ pc[c] # "blocked"
      BY <1>6 DEF HandlerLoop, HandleRequest
    <3>3. \A d \in Conns : conn'[d] = "accepted" =>
            Held(d) \/ \E o \in Conns : pc'[o] = "blocked" /\ on'[o] = d
      BY <1>5, <2>2, <3>2
    <3>4. /\ arg'[c] # -1 => fdt[arg'[c]] \notin Conns \ (raced \union {c})
          /\ Held(c) => arg'[c] # -1 /\ fdt[arg'[c]] = c
      BY <1>1, <3>1, ReadsOwnSocket
    <3>5. on'[c] # c => on'[c] \in raced /\ ~ Held(c)
      BY <1>4, <3>2
    <3>6. \A d \in Conns \ raced : answers'[d] \subseteq {d}
      BY <1>4, <3>2
    <3>7. \A d \in Conns \ {c} : arg'[d] = arg[d] /\ on'[d] = on[d]
      BY <3>1, <3>2
    <3>8. p \in {"loop", "recv", "blocked", "handle", "send", "done"}
      BY <2>2
    <3> QED BY <1>1, <1>2, <2>2, <3>3, <3>4, <3>5, <3>6, <3>7, <3>8, RacedThreadMoves
  <2> QED BY <1>6, <2>1, <2>2 DEF HandlerLoop, HandleRequest
<1>7. CASE EnterRecv(c)
  <2>1. /\ UNCHANGED <<conn, answers, arg>> /\ pc[c] = "recv"
    BY <1>7 DEF EnterRecv
  <2>2. CASE arg[c] \in Fds /\ fdt[arg[c]] \in Conns
    <3>1. pc' = [pc EXCEPT ![c] = "blocked"] /\ on' = [on EXCEPT ![c] = fdt[arg[c]]]
      BY <1>7, <2>2 DEF EnterRecv
    <3>2. on'[c] = fdt[arg[c]] /\ \A d \in Conns \ {c} : on'[d] = on[d]
      BY <1>3, <3>1
    <3>3. arg[c] # -1
      BY <2>2, SocketsAssumption DEF Fds
    <3>4. on'[c] # c => on'[c] \in raced /\ ~ Held(c)
      BY <1>4, <2>1, <2>2, <3>2, <3>3
    <3>5. \A d \in Conns : conn'[d] = "accepted" =>
            Held(d) \/ \E o \in Conns : pc'[o] = "blocked" /\ on'[o] = d
      BY <1>5, <2>1, <3>1, <3>2
    <3> QED BY <1>1, <1>2, <1>4, <2>1, <3>1, <3>2, <3>4, <3>5, RacedThreadMoves
  <2>3. CASE ~ (arg[c] \in Fds /\ fdt[arg[c]] \in Conns)
    <3>1. pc' = [pc EXCEPT ![c] = "done"] /\ on' = on
      BY <1>7, <2>3 DEF EnterRecv
    <3> QED BY <1>1, <1>2, <1>4, <1>5, <2>1, <3>1, RacedThreadMoves
  <2> QED BY <2>2, <2>3
<1>8. CASE RecvRequest(c) \/ RecvFails(c) \/ RecvEnd(c)
  <2>1. PICK unread \in BOOLEAN : LeaveRecv(c, unread)
    BY <1>8 DEF RecvRequest, RecvFails, RecvEnd
  <2>2. PICK p \in {"handle", "done"} : pc' = [pc EXCEPT ![c] = p]
    BY <1>8 DEF RecvRequest, RecvFails, RecvEnd
  <2>3. pc[c] = "blocked" /\ UNCHANGED <<answers, arg, on>>
    BY <1>8 DEF RecvRequest, RecvFails, RecvEnd
  <2>4. \A d \in Conns : conn'[d] = "accepted" =>
          Held(d) \/ \E o \in Conns : pc'[o] = "blocked" /\ on'[o] = d
    BY <2>1, <2>2, <2>3, RacedLeavesRecv
  <2> QED BY <1>1, <1>2, <1>4, <2>2, <2>3, <2>4, RacedThreadMoves
<1>9. CASE SendResponse(c)
  <2>1. pc[c] = "send" /\ UNCHANGED <<conn, arg, on>>
    BY <1>9 DEF SendResponse
  <2>2. PICK p \in {"loop", "done"} : pc' = [pc EXCEPT ![c] = p]
    BY <1>9 DEF SendResponse
  <2>3. \A d \in Conns \ raced : answers'[d] \subseteq {d}
    <3>1. CASE arg[c] \in Fds /\ fdt[arg[c]] \in Conns
      <4> DEFINE d == fdt[arg[c]]
                 A == IF client[d] = "open" THEN answers[d] \union {on[c]} ELSE answers[d]
      <4>1. answers' = [answers EXCEPT ![d] = A]
        BY <1>9, <3>1 DEF SendResponse
      <4>2. arg[c] # -1
        BY <3>1, SocketsAssumption DEF Fds
      <4>3. d \in Conns /\ (d \notin raced => d = c /\ Held(c))
        BY <1>4, <2>1, <3>1, <4>2 DEF Held
      <4>4. d \notin raced => A \subseteq {d}
        BY <1>4, <4>3
      <4> HIDE DEF d, A
      <4> QED BY <1>3, <1>4, <4>1, <4>3, <4>4
    <3>2. CASE ~ (arg[c] \in Fds /\ fdt[arg[c]] \in Conns)
      <4>1. answers' = answers
        BY <1>9, <3>2 DEF SendResponse
      <4> QED BY <1>4, <4>1
    <3> QED BY <3>1, <3>2
  <2>4. \A d \in Conns : conn'[d] = "accepted" =>
          Held(d) \/ \E o \in Conns : pc'[o] = "blocked" /\ on'[o] = d
    BY <1>5, <2>1, <2>2
  <2> QED BY <1>1, <1>2, <1>4, <2>1, <2>2, <2>3, <2>4, RacedThreadMoves
<1> QED BY <1>6, <1>7, <1>8, <1>9 DEF HandlerThread
(*********************************************************************************)
(* The clients and the acceptor.                                                 *)
(*********************************************************************************)
\* A client makes no connection accepted.
LEMMA RacedClient ==
  ASSUME IInv, ~ dead, Races, NEW c \in Conns, ClientActs(c)
  PROVE  RacedInv'
<1> USE DEF objVars, thrVars, accVars, ctlVars
<1>1. UNCHANGED <<fdt, answers, objVars, thrVars, accVars, ctlVars, m_Stop, dead>>
  BY DEF ClientActs, Connect, ClientSend, ClientClose, Expire
<1>2. \A d \in Conns : conn'[d] = "accepted" => conn[d] = "accepted"
  <2>1. conn \in [Conns -> {"new", "backlog", "accepted", "lingering", "gone"}]
    BY DEF IInv, StopInv, TypeOK, SocketsTypeOK
  <2> QED BY <2>1 DEF ClientActs, Connect, ClientSend, ClientClose, Expire
<1>3. raced' = raced /\ InHand' = InHand
  BY <1>1, RacedStays DEF Stopping
<1>4. RacedOK'
  BY <1>1, <1>3 DEF IInv, RacedInv, RacedOK, Stopping
<1>5. JoinsOK' /\ NoCrossTalk'
  BY <1>1, <1>3 DEF IInv, RacedInv, JoinsOK, Joined, Cleared, Over, NoCrossTalk
<1>6. HoldersOK'
  BY <1>1, <1>2, <1>3 DEF IInv, RacedInv, HoldersOK, Held, Fresh
<1> QED BY <1>4, <1>5, <1>6 DEF RacedInv

\* Steps of the acceptor that touch nothing but where it is: when it drops what accept
\* has returned, Stop has set m_Stop and was racing with it.
LEMMA RacedAcceptorGoes ==
  ASSUME IInv, ~ dead, Races, Acceptor, AcceptorLoop \/ AcceptFails \/ AcceptReturned
  PROVE  RacedInv'
<1> USE DEF objVars, ctlVars, sockVars
<1>1. UNCHANGED <<sockVars, objVars, pc, dead, m_ServerSocket, m_Stop, arg, on, ctlVars>>
  BY DEF Acceptor, AcceptorLoop, AcceptFails, AcceptReturned
<1>2. apc # "none" /\ apc' # "none" /\ apc' # "register"
      /\ \A f \in Fds : apc \in {"returned", "emplace"} /\ asock = f =>
           (apc' = "emplace" /\ asock' = f) \/ (m_Stop /\ f \in Fds /\ apc = "returned")
  <2>1. CASE AcceptorLoop
    BY <2>1 DEF AcceptorLoop
  <2>2. CASE AcceptFails
    BY <2>2 DEF AcceptFails
  <2>3. CASE AcceptReturned
    <3>1. asock \in Fds \union {-1} /\ m_Stop \in BOOLEAN /\ asock' = asock /\ apc = "returned"
      BY <2>3 DEF AcceptReturned, IInv, StopInv, TypeOK
    <3>2. apc' = IF m_Stop THEN "done" ELSE IF asock = -1 THEN "loop" ELSE "emplace"
      BY <2>3, <3>1 DEF AcceptReturned
    <3>3. \A f \in Fds : f # -1
      BY SocketsAssumption DEF Fds
    <3> QED BY <3>1, <3>2, <3>3
  <2> QED BY <2>1, <2>2, <2>3
<1>3. raced \subseteq raced' /\ raced' \subseteq Conns /\ (Stopping' => InHand' \subseteq raced')
  BY RacedGrows
<1>4. RacedOK'
  <2>1. dead' => raced' # {}
    BY <1>1
  <2>2. ~ Stopping' /\ apc' # "none" => ~ m_Stop'
    BY <1>1, <1>2 DEF IInv, RacedInv, RacedOK, Stopping
  <2> QED BY <1>2, <1>3, <2>1, <2>2 DEF RacedOK
<1>5. JoinsOK' /\ NoCrossTalk'
  BY <1>1, <1>2, <1>3 DEF IInv, RacedInv, JoinsOK, Joined, Cleared, Over, NoCrossTalk
<1>6. HoldersOK'
  <2>1. \A f \in Fds : fdt[f] \in Conns =>
          \/ h_ClientSocket[fdt[f]] = f
          \/ Fresh(fdt[f]) /\ (fdt[f] \in raced' \/ (apc' \in {"returned", "emplace"} /\ asock' = f))
    <3> SUFFICES ASSUME NEW f \in Fds, fdt[f] \in Conns, h_ClientSocket[fdt[f]] # f
                 PROVE  /\ Fresh(fdt[f])
                        /\ fdt[f] \in raced' \/ (apc' \in {"returned", "emplace"} /\ asock' = f)
      OBVIOUS
    <3>1. /\ Fresh(fdt[f])
          /\ fdt[f] \in raced \/ (apc \in {"returned", "emplace"} /\ asock = f)
      BY DEF IInv, RacedInv, HoldersOK
    <3>2. CASE fdt[f] \in raced
      BY <1>3, <3>1, <3>2
    <3>3. CASE apc \in {"returned", "emplace"} /\ asock = f
      <4>1. CASE apc' = "emplace" /\ asock' = f
        BY <3>1, <4>1
      <4>2. CASE m_Stop /\ apc = "returned"
        <5>1. Stopping
          BY <4>2 DEF IInv, RacedInv, RacedOK
        <5>2. f # -1
          BY SocketsAssumption DEF Fds
        <5>3. fdt[f] \in InHand
          BY <3>3, <4>2, <5>2 DEF InHand
        <5> QED BY <1>3, <3>1, <5>1, <5>3 DEF IInv, RacedInv, RacedOK
      <4> QED BY <1>2, <3>3, <4>1, <4>2
    <3> QED BY <3>1, <3>2, <3>3
  <2>2. \A d \in Conns : Fresh(d)' = Fresh(d) /\ Held(d)' = Held(d)
    BY <1>1 DEF Fresh, Held
  <2>3. \A d \in Conns :
          /\ h_ClientSocket[d] # -1 => fdt[h_ClientSocket[d]] \notin Conns \ (raced' \union {d})
          /\ pc[d] \in {"recv", "send"} =>
               /\ arg[d] # -1 => fdt[arg[d]] \notin Conns \ (raced' \union {d})
               /\ Held(d) => arg[d] # -1 /\ fdt[arg[d]] = d
          /\ on[d] # d => on[d] \in raced' /\ ~ Held(d)
          /\ conn[d] = "accepted" => Held(d) \/ \E o \in Conns : pc[o] = "blocked" /\ on[o] = d
    BY <1>3 DEF IInv, RacedInv, HoldersOK
  <2>4. /\ \A f, g \in Fds : fdt[f] \in Conns /\ fdt[f] = fdt[g] => f = g
        /\ cpc = "forget" => alive[Head(todo)] /\ ~ Held(Head(todo))
    BY DEF IInv, RacedInv, HoldersOK
  <2> QED BY <1>1, <2>1, <2>2, <2>3, <2>4 DEF HoldersOK, Held, Fresh
<1> QED BY <1>4, <1>5, <1>6 DEF RacedInv
\* accept gives a descriptor to a connection that had none.  If somebody still has its
\* number, Stop is running, and the connection has raced with it.
LEMMA RacedAcceptConnection ==
  ASSUME IInv, ~ dead, Races, Acceptor, AcceptConnection
  PROVE  RacedInv'
<1> USE DEF objVars, ctlVars
<1>1. /\ UNCHANGED <<client, sent, waiting, answers, objVars, pc, dead, m_ServerSocket, m_Stop,
                     arg, on, ctlVars>>
      /\ apc = "accept" /\ apc' = "returned" /\ asock' = LowestFd
      /\ LowestFd \in Fds /\ fdt[LowestFd] = "free" /\ LowestFd # -1
  BY LowestIsFree, SocketsAssumption DEF Acceptor, AcceptConnection, Fds
<1>2. PICK c \in Conns : /\ conn[c] = "backlog"
                         /\ fdt' = [fdt EXCEPT ![LowestFd] = c]
                         /\ conn' = [conn EXCEPT ![c] = "accepted"]
  BY DEF AcceptConnection, Backlog
<1>3. Fresh(c) /\ ~ Held(c)
  BY <1>2 DEF IInv, StopInv, StopDescriptors, Held
<1>4. /\ fdt'[LowestFd] = c /\ \A f \in Fds : f # LowestFd => fdt'[f] = fdt[f]
      /\ conn'[c] = "accepted" /\ \A d \in Conns : d # c => conn'[d] = conn[d]
      /\ c \notin {"free", "listen"} /\ fdt[LowestFd] \notin Conns
  BY <1>1, <1>2, SocketsAssumption DEF IInv, StopInv, TypeOK, SocketsTypeOK
<1>5. raced \subseteq raced' /\ raced' \subseteq Conns /\ (Stopping' => InHand' \subseteq raced')
  BY RacedGrows
<1>6. Stopping => c \in raced'
  <2>1. c \in InHand'
    BY <1>1, <1>4 DEF InHand
  <2> QED BY <1>1, <1>5, <2>1 DEF Stopping
<1>7. RacedOK'
  BY <1>1, <1>5 DEF IInv, RacedInv, RacedOK, Stopping
<1>8. JoinsOK' /\ NoCrossTalk'
  BY <1>1, <1>5 DEF IInv, RacedInv, JoinsOK, Joined, Cleared, Over, NoCrossTalk
<1>9. HoldersOK'
  <2>1. \A d \in Conns : Fresh(d)' = Fresh(d) /\ (Held(d)' => d = c \/ Held(d)) /\ (Held(d) => Held(d)')
    BY <1>1, <1>4 DEF Fresh, Held
  <2>2. Held(c)'
    BY <1>1, <1>4 DEF Held
  <2>3. \A f, g \in Fds : fdt'[f] \in Conns /\ fdt'[f] = fdt'[g] => f = g
    <3>1. \A f \in Fds : fdt[f] # c
      BY <1>3 DEF Held
    <3>2. \A f, g \in Fds : fdt[f] \in Conns /\ fdt[f] = fdt[g] => f = g
      BY DEF IInv, RacedInv, HoldersOK
    <3> QED BY <1>1, <1>4, <3>1, <3>2
  <2>4. \A f \in Fds : fdt'[f] \in Conns =>
          \/ h_ClientSocket'[fdt'[f]] = f
          \/ /\ Fresh(fdt[f])'
             /\ fdt'[f] \in raced' \/ (apc' \in {"returned", "emplace"} /\ asock' = f)
    <3> SUFFICES ASSUME NEW f \in Fds, fdt'[f] \in Conns, h_ClientSocket[fdt'[f]] # f
                 PROVE  /\ Fresh(fdt'[f])
                        /\ fdt'[f] \in raced' \/ (apc' = "returned" /\ asock' = f)
      BY <1>1, <2>1 DEF Fresh
    <3>1. CASE f = LowestFd
      BY <1>1, <1>3, <1>4, <3>1
    <3>2. CASE f # LowestFd
      BY <1>1, <1>4, <1>5, <3>2 DEF IInv, RacedInv, HoldersOK
    <3> QED BY <3>1, <3>2
  <2>5. \A f \in Fds : \A d \in Conns :
          fdt[f] \notin Conns \ (raced \union {d}) /\ (f = LowestFd => Stopping) =>
            fdt'[f] \notin Conns \ (raced' \union {d})
    BY <1>4, <1>5, <1>6
  <2>6. ASSUME NEW d \in Conns
        PROVE  /\ h_ClientSocket[d] # -1 =>
                    fdt'[h_ClientSocket[d]] \notin Conns \ (raced' \union {d})
               /\ pc[d] \in {"recv", "send"} =>
                    /\ arg[d] # -1 => fdt'[arg[d]] \notin Conns \ (raced' \union {d})
                    /\ Held(d)' => arg[d] # -1 /\ fdt'[arg[d]] = d
               /\ on[d] # d => on[d] \in raced' /\ ~ Held(d)'
               /\ conn'[d] = "accepted" =>
                    Held(d)' \/ \E o \in Conns : pc[o] = "blocked" /\ on[o] = d
    <3>1. h_ClientSocket[d] \in Fds \union {-1} /\ arg[d] \in Fds \union {-1}
      BY DEF IInv, StopInv, TypeOK
    <3>2. h_ClientSocket[d] # -1 => fdt'[h_ClientSocket[d]] \notin Conns \ (raced' \union {d})
      <4>1. h_ClientSocket[d] = LowestFd => Stopping
        BY <1>1, <1>4, <3>1 DEF IInv, StopInv, StopDescriptors, Stopping
      <4>2. h_ClientSocket[d] # -1 => fdt[h_ClientSocket[d]] \notin Conns \ (raced \union {d})
        BY DEF IInv, RacedInv, HoldersOK
      <4> QED BY <2>5, <3>1, <4>1, <4>2
    <3>3. pc[d] \in {"recv", "send"} /\ arg[d] # -1 =>
            fdt'[arg[d]] \notin Conns \ (raced' \union {d})
      <4>1. pc[d] \in {"recv", "send"} /\ arg[d] = LowestFd => Stopping
        BY <1>1, <1>4 DEF IInv, StopInv, StopThreads, HandlersCleared, ThreadsCleared, Stopping
      <4>2. pc[d] \in {"recv", "send"} /\ arg[d] # -1 =>
              fdt[arg[d]] \notin Conns \ (raced \union {d})
        BY DEF IInv, RacedInv, HoldersOK
      <4> QED BY <2>5, <3>1, <4>1, <4>2
    <3>4. pc[d] \in {"recv", "send"} /\ Held(d)' => arg[d] # -1 /\ fdt'[arg[d]] = d
      <4>1. pc[d] \in {"recv", "send"} => d # c
        BY <1>3 DEF Fresh
      <4>2. pc[d] \in {"recv", "send"} /\ Held(d) => arg[d] # -1 /\ fdt[arg[d]] = d
        BY DEF IInv, RacedInv, HoldersOK
      <4> QED BY <1>4, <2>1, <3>1, <4>1, <4>2
    <3>5. on[d] # d => on[d] \in raced' /\ ~ Held(d)'
      <4>1. on[d] # d => d # c
        BY <1>3 DEF Fresh
      <4> QED BY <1>5, <2>1, <4>1 DEF IInv, RacedInv, HoldersOK
    <3>6. conn'[d] = "accepted" => Held(d)' \/ \E o \in Conns : pc[o] = "blocked" /\ on[o] = d
      BY <1>4, <2>1, <2>2 DEF IInv, RacedInv, HoldersOK
    <3> QED BY <3>2, <3>3, <3>4, <3>5, <3>6
  <2>7. cpc = "forget" => alive[Head(todo)] /\ ~ Held(Head(todo))'
    <3>1. cpc = "forget" => alive[Head(todo)] /\ ~ Held(Head(todo)) /\ Head(todo) \in Conns
      BY HeadTailProperties DEF IInv, StopInv, StopSteps, TypeOK, RacedInv, HoldersOK
    <3>2. alive[Head(todo)] => Head(todo) # c
      BY <1>3 DEF Fresh
    <3>3. \A x : x # c /\ ~ Held(x) => \A f \in Fds : fdt'[f] # x
      BY <1>4 DEF Held
    <3> QED BY <1>1, <3>1, <3>2, <3>3 DEF Held
  <2> QED BY <1>1, <2>3, <2>4, <2>6, <2>7 DEF HoldersOK
<1> QED BY <1>7, <1>8, <1>9 DEF RacedInv
\* The connection that was accepted gets its handler.
LEMMA RacedEmplaceHandler ==
  ASSUME IInv, ~ dead, Races, Acceptor, EmplaceHandler
  PROVE  RacedInv'
<1> USE DEF objVars, ctlVars, sockVars
<1> DEFINE c == fdt[asock]
<1>1. /\ UNCHANGED <<sockVars, m_ClientThreads, pc, asock, m_ServerSocket, m_Stop, arg, on, ctlVars>>
      /\ apc = "emplace" /\ apc' = "register"
  BY DEF Acceptor, EmplaceHandler
<1>2. asock \in Fds /\ asock # -1 /\ c \in Conns /\ Fresh(c)
  BY <1>1 DEF IInv, StopInv, TypeOK, StopDescriptors
<1>3. dead' => Stopping
  <2>1. dead' = FALSE \/ dead' = IteratesHandlers
    BY DEF EmplaceHandler
  <2>2. IteratesHandlers => Stopping
    BY DEF IteratesHandlers, Stopping
  <2> QED BY <2>1, <2>2, Zenon
<1>4. m_ClientHandlers' # <<>> /\ Last(m_ClientHandlers') = c
  BY <1>2, SetOfAppend, LastOfAppend DEF EmplaceHandler, IInv, StopInv, TypeOK
<1>5. /\ alive'[c] /\ h_ClientSocket'[c] = asock
      /\ \A d \in Conns : d # c => alive'[d] = alive[d] /\ h_ClientSocket'[d] = h_ClientSocket[d]
  BY <1>2 DEF EmplaceHandler, IInv, StopInv, TypeOK
<1>6. fdt[asock] = c
  OBVIOUS
<1>7. Stopping => c \in raced
  BY <1>1, <1>2 DEF IInv, RacedInv, RacedOK, InHand
<1> HIDE DEF c
<1>8. raced \subseteq raced' /\ raced' \subseteq Conns /\ (Stopping' => InHand' \subseteq raced')
  BY RacedGrows
<1>9. RacedOK'
  <2>1. ~ Stopping' /\ apc' # "none" => ~ m_Stop'
    BY <1>1 DEF IInv, RacedInv, RacedOK, Stopping
  <2>2. (dead' => raced' # {}) /\ (Stopping' => raced' # {})
    BY <1>1, <1>3, <1>7, <1>8 DEF Stopping
  <2> QED BY <1>1, <1>8, <2>1, <2>2 DEF RacedOK
<1>10. JoinsOK'
  <2>1. \A d \in Conns : pc'[d] # "none" /\ ~ alive'[d] =>
          d \in raced' /\ (dead' \/ cpc' = "clearThreads")
    BY <1>1, <1>5, <1>8 DEF IInv, RacedInv, JoinsOK
  <2>2. Cleared => Stopping
    BY <1>1 DEF Cleared, Stopping
  <2>3. \A d \in Conns \ raced' :
          /\ cpc' = "joining" /\ pc'[d] # "none" => d \in ToSet(todo')
          /\ Joined => pc'[d] = "none"
          /\ Cleared => ~ alive'[d]
    BY <1>1, <1>5, <1>7, <1>8, <2>2 DEF IInv, RacedInv, JoinsOK
  <2>4. Joined' = Joined /\ Cleared' = Cleared /\ Over' = Over
    BY <1>1 DEF Joined, Cleared, Over
  <2> QED BY <1>1, <1>8, <2>1, <2>3, <2>4 DEF IInv, RacedInv, JoinsOK
<1>11. HoldersOK'
  <2>1. \A d \in Conns : Held(d)' = Held(d) /\ (d # c => Fresh(d)' = Fresh(d))
    BY <1>1, <1>5 DEF Held, Fresh
  <2>2. \A f, g \in Fds : fdt'[f] \in Conns /\ fdt'[f] = fdt'[g] => f = g
    BY <1>1 DEF IInv, RacedInv, HoldersOK
  <2>3. \A f \in Fds : fdt'[f] \in Conns =>
          \/ h_ClientSocket'[fdt'[f]] = f
          \/ /\ Fresh(fdt[f])'
             /\ fdt'[f] \in raced' \/ (apc' \in {"returned", "emplace"} /\ asock' = f)
    <3> SUFFICES ASSUME NEW f \in Fds, fdt[f] \in Conns
                 PROVE  \/ h_ClientSocket'[fdt[f]] = f
                        \/ Fresh(fdt[f])' /\ fdt[f] \in raced'
      BY <1>1
    <3>1. CASE fdt[f] = c
      <4>1. f = asock
        BY <1>2, <1>6, <3>1 DEF IInv, RacedInv, HoldersOK
      <4> QED BY <1>5, <3>1, <4>1
    <3>2. CASE fdt[f] # c
      <4>1. f # asock
        BY <1>6, <3>2
      <4>2. h_ClientSocket[fdt[f]] = f \/ (Fresh(fdt[f]) /\ fdt[f] \in raced)
        BY <4>1 DEF IInv, RacedInv, HoldersOK
      <4>3. Fresh(fdt[f])' = Fresh(fdt[f])
        BY <1>1, <1>5, <3>2 DEF Fresh
      <4> QED BY <1>5, <1>8, <3>2, <4>2, <4>3
    <3> QED BY <3>1, <3>2
  <2>4. \A d \in Conns :
          /\ h_ClientSocket'[d] # -1 =>
               fdt'[h_ClientSocket'[d]] \notin Conns \ (raced' \union {d})
          /\ pc'[d] \in {"recv", "send"} =>
               /\ arg'[d] # -1 => fdt'[arg'[d]] \notin Conns \ (raced' \union {d})
               /\ Held(d)' => arg'[d] # -1 /\ fdt'[arg'[d]] = d
          /\ on'[d] # d => on'[d] \in raced' /\ ~ Held(d)'
          /\ conn'[d] = "accepted" => Held(d)' \/ \E o \in Conns : pc'[o] = "blocked" /\ on'[o] = d
    <3> SUFFICES ASSUME NEW d \in Conns
                 PROVE  /\ h_ClientSocket'[d] # -1 =>
                             fdt[h_ClientSocket'[d]] \notin Conns \ (raced' \union {d})
                        /\ pc[d] \in {"recv", "send"} =>
                             /\ arg[d] # -1 => fdt[arg[d]] \notin Conns \ (raced' \union {d})
                             /\ Held(d) => arg[d] # -1 /\ fdt[arg[d]] = d
                        /\ on[d] # d => on[d] \in raced' /\ ~ Held(d)
                        /\ conn[d] = "accepted" =>
                             Held(d) \/ \E o \in Conns : pc[o] = "blocked" /\ on[o] = d
      BY <1>1, <2>1
    <3>1. h_ClientSocket'[d] # -1 => fdt[h_ClientSocket'[d]] \notin Conns \ (raced' \union {d})
      <4>1. CASE d = c
        BY <1>5, <1>6, <4>1
      <4>2. CASE d # c
        BY <1>5, <1>8, <4>2 DEF IInv, RacedInv, HoldersOK
      <4> QED BY <4>1, <4>2
    <3> QED BY <1>8, <3>1 DEF IInv, RacedInv, HoldersOK
  <2>5. cpc' = "forget" => alive'[Head(todo')] /\ ~ Held(Head(todo))'
    <3>1. cpc = "forget" => alive[Head(todo)] /\ ~ Held(Head(todo)) /\ Head(todo) \in Conns
      BY HeadTailProperties DEF IInv, StopInv, StopSteps, TypeOK, RacedInv, HoldersOK
    <3> QED BY <1>1, <1>5, <3>1 DEF Held
  <2> QED BY <2>2, <2>3, <2>4, <2>5 DEF HoldersOK
<1>12. NoCrossTalk'
  BY <1>1, <1>8 DEF IInv, RacedInv, NoCrossTalk
<1> QED BY <1>9, <1>10, <1>11, <1>12 DEF RacedInv

\* The handler gets its thread, or the process is terminated.
LEMMA RacedEmplaceThread ==
  ASSUME IInv, ~ dead, Races, Acceptor, EmplaceThread
  PROVE  RacedInv'
<1> USE DEF objVars, ctlVars, sockVars
<1>1. /\ UNCHANGED <<sockVars, m_ClientHandlers, alive, h_ClientSocket, h_Stop, asock,
                     m_ServerSocket, m_Stop, arg, on, ctlVars>>
      /\ apc = "register" /\ apc' = "loop"
  BY DEF Acceptor, EmplaceThread
<1>2. raced \subseteq raced' /\ raced' \subseteq Conns /\ (Stopping' => InHand' \subseteq raced')
  BY RacedGrows
<1>3. Stopping => raced # {}
  BY <1>1 DEF IInv, RacedInv, RacedOK
<1>4. Joined' = Joined /\ Cleared' = Cleared /\ Over' = Over
      /\ (Joined \/ Over => Stopping)
  BY <1>1 DEF Joined, Cleared, Over, Stopping
<1>5. dead' => Stopping
  <2>1. m_ClientHandlers = <<>> => Stopping
    BY <1>1 DEF IInv, StopInv, StopThreads
  <2>2. m_ClientHandlers # <<>> => dead' = FALSE \/ dead' = IteratesThreads
    BY DEF EmplaceThread
  <2>3. IteratesThreads => Stopping
    BY DEF IteratesThreads, Stopping
  <2> QED BY <2>1, <2>2, <2>3, Zenon
<1>6. RacedOK'
  <2>1. ~ Stopping' /\ apc' # "none" => ~ m_Stop'
    BY <1>1 DEF IInv, RacedInv, RacedOK, Stopping
  <2>2. dead' => raced' # {}
    BY <1>2, <1>3, <1>5
  <2> QED BY <1>1, <1>2, <2>1, <2>2 DEF RacedOK
<1>7. NoCrossTalk'
  BY <1>1, <1>2 DEF IInv, RacedInv, NoCrossTalk
<1>8. CASE m_ClientHandlers = <<>>
  <2>1. UNCHANGED <<m_ClientThreads, pc>>
    BY <1>8 DEF EmplaceThread
  <2>2. JoinsOK'
    BY <1>1, <1>2, <1>4, <2>1 DEF IInv, RacedInv, JoinsOK
  <2>3. HoldersOK'
    BY <1>1, <1>2, <2>1 DEF IInv, RacedInv, HoldersOK, Held, Fresh
  <2> QED BY <1>6, <1>7, <2>2, <2>3 DEF RacedInv
<1>9. CASE m_ClientHandlers # <<>>
  <2> DEFINE c == Last(m_ClientHandlers)
  <2>1. /\ m_ClientThreads' = Append(m_ClientThreads, c) /\ pc' = [pc EXCEPT ![c] = "loop"]
    BY <1>9 DEF EmplaceThread
  <2>2. c \in Conns /\ alive[c] /\ pc[c] = "none" /\ on[c] = c
    BY <1>1, <1>9, LastInSet DEF IInv, StopInv, TypeOK, StopDescriptors, StopThreads
  <2>3. ToSet(m_ClientThreads') = ToSet(m_ClientThreads) \union {c}
    BY <2>1, <2>2, SetOfAppend DEF IInv, StopInv, TypeOK
  <2>4. pc'[c] = "loop" /\ \A d \in Conns : d # c => pc'[d] = pc[d]
    BY <2>1, <2>2 DEF IInv, StopInv, TypeOK
  <2>5. Stopping => c \in raced
    BY <1>1, <1>9, <2>2 DEF IInv, RacedInv, RacedOK, InHand
  <2> HIDE DEF c
  <2>6. JoinsOK'
    <3>1. \A d \in Conns : pc'[d] # "none" /\ ~ alive'[d] =>
            d \in raced' /\ (dead' \/ cpc' = "clearThreads")
      BY <1>1, <1>2, <2>2, <2>4 DEF IInv, RacedInv, JoinsOK
    <3>2. cpc = "joining" => Stopping
      BY DEF Stopping
    <3>3. \A d \in Conns \ raced' :
            /\ cpc' = "joining" /\ pc'[d] # "none" => d \in ToSet(todo')
            /\ Joined => pc'[d] = "none"
            /\ Cleared => ~ alive'[d]
      BY <1>1, <1>2, <1>4, <2>4, <2>5, <3>2 DEF IInv, RacedInv, JoinsOK
    <3>4. Over => ToSet(m_ClientThreads') \subseteq raced'
      BY <1>2, <1>4, <2>3, <2>5 DEF IInv, RacedInv, JoinsOK
    <3> QED BY <1>4, <3>1, <3>3, <3>4 DEF JoinsOK
  <2>7. HoldersOK'
    <3>1. \A d \in Conns : Held(d)' = Held(d) /\ (Fresh(d) => Fresh(d)')
      BY <1>1, <2>2, <2>4 DEF Held, Fresh
    <3>2. \A f \in Fds : fdt'[f] \in Conns =>
            \/ h_ClientSocket'[fdt'[f]] = f
            \/ Fresh(fdt[f])' /\ fdt'[f] \in raced'
      BY <1>1, <1>2, <3>1 DEF IInv, RacedInv, HoldersOK
    <3>3. \A d \in Conns : /\ pc'[d] \in {"recv", "send"} <=> pc[d] \in {"recv", "send"}
                           /\ pc'[d] = "blocked" <=> pc[d] = "blocked"
      BY <2>2, <2>4
    <3>4. \A d \in Conns :
            /\ h_ClientSocket'[d] # -1 =>
                 fdt'[h_ClientSocket'[d]] \notin Conns \ (raced' \union {d})
            /\ pc'[d] \in {"recv", "send"} =>
                 /\ arg'[d] # -1 => fdt'[arg'[d]] \notin Conns \ (raced' \union {d})
                 /\ Held(d)' => arg'[d] # -1 /\ fdt'[arg'[d]] = d
            /\ on'[d] # d => on'[d] \in raced' /\ ~ Held(d)'
            /\ conn'[d] = "accepted" =>
                 Held(d)' \/ \E o \in Conns : pc'[o] = "blocked" /\ on'[o] = d
      BY <1>1, <1>2, <3>1, <3>3 DEF IInv, RacedInv, HoldersOK
    <3>5. cpc' = "forget" => alive'[Head(todo')] /\ ~ Held(Head(todo))'
      BY <1>1 DEF IInv, RacedInv, HoldersOK, Held
    <3>6. \A f, g \in Fds : fdt'[f] \in Conns /\ fdt'[f] = fdt'[g] => f = g
      BY <1>1 DEF IInv, RacedInv, HoldersOK
    <3> QED BY <3>2, <3>4, <3>5, <3>6 DEF HoldersOK
  <2> QED BY <1>6, <1>7, <2>6, <2>7 DEF RacedInv
<1> QED BY <1>8, <1>9

LEMMA RacedAcceptor ==
  ASSUME IInv, ~ dead, Races, Acceptor PROVE RacedInv'
  BY RacedAcceptorGoes, RacedAcceptConnection, RacedEmplaceHandler, RacedEmplaceThread DEF Acceptor
(*********************************************************************************)
(* The controlling thread.                                                       *)
(*********************************************************************************)
\* An operation begins or returns, Start finds the server running or throws, Stop goes on
\* to the next of its loops.  What the acceptor has in hand when Stop begins has raced.
LEMMA RacedControllerGoes ==
  ASSUME IInv, ~ dead, Races, Controller,
         \/ BeginStart \/ StartRunning \/ StartThrows \/ BeginStop
         \/ HandlersStopped \/ HandlersJoined \/ SetStop \/ JoinAcceptor
  PROVE  RacedInv'
<1> USE DEF objVars, sockVars
<1>1. UNCHANGED <<sockVars, objVars, pc, dead, arg, on, asock>>
  BY DEF Controller, BeginStart, StartRunning, StartThrows, BeginStop, HandlersStopped,
     HandlersJoined, SetStop, JoinAcceptor
<1>2. raced \subseteq raced' /\ raced' \subseteq Conns /\ (Stopping' => InHand' \subseteq raced')
  BY RacedGrows
<1>3. /\ cpc' # "forget"
      /\ apc' = apc \/ (apc' = "none" /\ cpc = "joinAcceptor" /\ apc \in {"none", "done"})
      /\ cpc # "clearThreads"
      /\ ~ Stopping' /\ apc' # "none" => ~ Stopping /\ m_Stop' = m_Stop
      /\ Stopping' => Stopping \/ (BeginStop /\ cpc = "idle")
  BY DEF BeginStart, StartRunning, StartThrows, BeginStop, HandlersStopped, HandlersJoined,
     SetStop, JoinAcceptor, GoTo, Returns, Loop, Fetches, Joinable, Stopping
<1>4. RacedOK'
  <2>1. ~ Stopping' /\ apc' # "none" => ~ m_Stop'
    BY <1>3 DEF IInv, RacedInv, RacedOK
  <2>2. Stopping' /\ apc' = "register" => raced' # {}
    <3>1. CASE Stopping
      BY <1>2, <1>3, <3>1 DEF IInv, RacedInv, RacedOK
    <3>2. CASE ~ Stopping /\ apc = "register"
      <4>1. m_ClientHandlers # <<>>
        BY <3>2 DEF IInv, StopInv, StopThreads
      <4>2. Last(m_ClientHandlers) \in Conns
        BY <4>1, LastInSet DEF IInv, StopInv, TypeOK
      <4>3. apc' = "register" => Last(m_ClientHandlers) \in InHand'
        BY <1>1, <4>1, <4>2 DEF InHand
      <4> QED BY <1>2, <4>3
    <3> QED BY <1>3, <3>1, <3>2
  <2> QED BY <1>1, <1>2, <2>1, <2>2 DEF RacedOK
<1>5. \A d \in Conns : pc[d] # "none" => alive[d] /\ d \in ToSet(m_ClientThreads)
  BY <1>3 DEF IInv, StopInv, StopThreads, RacedInv, JoinsOK
<1>6. JoinsOK'
  <2>1. /\ \A d \in Conns \ raced' : (Joined => pc[d] = "none") /\ (Cleared => ~ alive[d])
        /\ Over => ToSet(m_ClientThreads) \subseteq raced'
    BY <1>2 DEF IInv, RacedInv, JoinsOK
  <2>2. Joined' => Joined \/ HandlersJoined
    BY <1>3 DEF Joined, BeginStart, StartRunning, StartThrows, BeginStop, HandlersStopped,
       HandlersJoined, SetStop, JoinAcceptor, GoTo, Returns, Loop
  <2>3. (Cleared' => Cleared) /\ (Over' => Over)
    BY <1>3 DEF Cleared, Over, BeginStart, StartRunning, StartThrows, BeginStop,
       HandlersStopped, HandlersJoined, SetStop, JoinAcceptor, GoTo, Returns, Loop
  <2>4. ASSUME HandlersJoined PROVE \A d \in Conns \ raced' : pc[d] = "none"
    BY <1>2, <2>4, SetOfEmpty DEF HandlersJoined, IInv, RacedInv, JoinsOK
  <2>5. cpc' = "joining" => todo' = m_ClientThreads
    BY DEF BeginStart, StartRunning, StartThrows, BeginStop, HandlersStopped, HandlersJoined,
       SetStop, JoinAcceptor, GoTo, Returns, Loop
  <2> QED BY <1>1, <1>5, <2>1, <2>2, <2>3, <2>4, <2>5 DEF JoinsOK
<1>7. HoldersOK'
  <2>1. apc \in {"returned", "emplace"} => apc' = apc
    BY <1>3
  <2> QED BY <1>1, <1>2, <1>3, <2>1 DEF IInv, RacedInv, HoldersOK, Held, Fresh
<1>8. NoCrossTalk'
  BY <1>1, <1>2 DEF IInv, RacedInv, NoCrossTalk
<1> QED BY <1>4, <1>6, <1>7, <1>8 DEF RacedInv

\* The listening socket comes and goes: no connection is touched but those that nobody
\* has accepted.
LEMMA RacedListener ==
  ASSUME IInv, ~ dead, Races, Controller, StartListens \/ CloseServerSocket
  PROVE  RacedInv'
<1> USE DEF objVars, sockVars
<1>1. UNCHANGED <<answers, objVars, pc, dead, arg, on, asock, todo>>
  BY DEF Controller, StartListens, Returns, CloseServerSocket, CloseListener, GoTo
<1>2. raced \subseteq raced' /\ raced' \subseteq Conns /\ (Stopping' => InHand' \subseteq raced')
  BY RacedGrows
<1>3. /\ cpc # "forget" /\ cpc' # "forget" /\ cpc' # "joining" /\ cpc # "clearThreads"
      /\ \/ apc = "none" /\ apc' = "loop" /\ cpc' = "idle" /\ m_Stop' = FALSE
         \/ apc' = apc /\ m_Stop' = m_Stop /\ cpc = "closeListener" /\ cpc' = "joinAcceptor"
  BY DEF StartListens, Joinable, Returns, CloseServerSocket, GoTo
<1>4. \A f \in Fds : /\ \A d \in Conns : fdt'[f] = d <=> fdt[f] = d
                     /\ fdt'[f] \in Conns <=> fdt[f] \in Conns
  <2>1. fdt \in [Fds -> Conns \union {"free", "listen"}]
    BY DEF IInv, StopInv, TypeOK, SocketsTypeOK
  <2>2. CASE StartListens
    <3>1. LowestFd \in Fds /\ fdt[LowestFd] = "free" /\ fdt' = [fdt EXCEPT ![LowestFd] = "listen"]
      BY <2>2, NoListener DEF StartListens, Joinable, IInv
    <3> QED BY <2>1, <3>1, SocketsAssumption
  <2>3. CASE CloseServerSocket
    <3>1. \/ fdt' = fdt
          \/ /\ m_ServerSocket \in Fds /\ fdt[m_ServerSocket] = "listen"
             /\ fdt' = [fdt EXCEPT ![m_ServerSocket] = "free"]
      BY <2>3 DEF CloseServerSocket, CloseListener
    <3> QED BY <2>1, <3>1, SocketsAssumption
  <2> QED BY <2>2, <2>3
<1>5. \A d \in Conns : conn'[d] = "accepted" => conn[d] = "accepted"
  BY DEF StartListens, CloseServerSocket, CloseListener
<1>6. RacedOK'
  BY <1>1, <1>2, <1>3 DEF IInv, RacedInv, RacedOK, Stopping
<1>7. JoinsOK'
  <2>1. (Joined' => Joined) /\ (Cleared' => Cleared) /\ (Over' => Over)
    BY <1>3 DEF Joined, Cleared, Over
  <2> QED BY <1>1, <1>2, <1>3, <2>1 DEF IInv, RacedInv, JoinsOK
<1>8. HoldersOK'
  <2>1. \A d \in Conns : Held(d)' = Held(d) /\ Fresh(d)' = Fresh(d)
    BY <1>1, <1>4 DEF Held, Fresh
  <2>2. \A f, g \in Fds : fdt'[f] \in Conns /\ fdt'[f] = fdt'[g] => f = g
    BY <1>4 DEF IInv, RacedInv, HoldersOK
  <2>3. \A f \in Fds : fdt'[f] \in Conns =>
          \/ h_ClientSocket'[fdt'[f]] = f
          \/ /\ Fresh(fdt[f])'
             /\ fdt'[f] \in raced' \/ (apc' \in {"returned", "emplace"} /\ asock' = f)
    <3> SUFFICES ASSUME NEW f \in Fds, fdt'[f] \in Conns
                 PROVE  \/ h_ClientSocket[fdt[f]] = f
                        \/ /\ Fresh(fdt[f])
                           /\ fdt[f] \in raced' \/ (apc' \in {"returned", "emplace"} /\ asock = f)
      BY <1>1, <1>4, <2>1 DEF Fresh
    <3> QED BY <1>2, <1>3, <1>4 DEF IInv, RacedInv, HoldersOK
  <2>4. ASSUME NEW d \in Conns
        PROVE  /\ h_ClientSocket[d] # -1 =>
                    fdt'[h_ClientSocket[d]] \notin Conns \ (raced' \union {d})
               /\ pc[d] \in {"recv", "send"} =>
                    /\ arg[d] # -1 => fdt'[arg[d]] \notin Conns \ (raced' \union {d})
                    /\ Held(d) => arg[d] # -1 /\ fdt'[arg[d]] = d
               /\ on[d] # d => on[d] \in raced' /\ ~ Held(d)
               /\ conn'[d] = "accepted" =>
                    Held(d) \/ \E o \in Conns : pc[o] = "blocked" /\ on[o] = d
    <3>1. h_ClientSocket[d] \in Fds \union {-1} /\ arg[d] \in Fds \union {-1}
      BY DEF IInv, StopInv, TypeOK
    <3>2. \A f \in Fds : fdt[f] \notin Conns \ (raced \union {d}) =>
            fdt'[f] \notin Conns \ (raced' \union {d})
      BY <1>2, <1>4
    <3>3. \A f \in Fds : fdt[f] = d => fdt'[f] = d
      BY <1>4
    <3> QED BY <1>2, <1>5, <3>1, <3>2, <3>3 DEF IInv, RacedInv, HoldersOK
  <2> QED BY <1>1, <1>3, <2>1, <2>2, <2>3, <2>4 DEF HoldersOK
<1>9. NoCrossTalk'
  BY <1>1, <1>2 DEF IInv, RacedInv, NoCrossTalk
<1> QED BY <1>6, <1>7, <1>8, <1>9 DEF RacedInv

\* A thread that is done is joined.
LEMMA RacedJoinHandler ==
  ASSUME IInv, ~ dead, Races, Controller, JoinHandler
  PROVE  RacedInv'
<1> USE DEF objVars, sockVars
<1> DEFINE c == Head(todo)
<1>1. /\ UNCHANGED <<cpc, sockVars, m_ServerSocket, m_Stop, objVars, apc, dead, arg, on, asock>>
      /\ cpc = "joining" /\ todo # <<>> /\ todo' = Tail(todo)
      /\ pc[c] = "done" /\ pc' = [pc EXCEPT ![c] = "none"]
  BY DEF Controller, JoinHandler, Visited
<1>2. c \in Conns /\ \A d \in ToSet(todo) : d = c \/ d \in ToSet(todo')
  BY <1>1, SetOfTail DEF IInv, StopInv, TypeOK
<1>3. pc'[c] = "none" /\ \A d \in Conns : d # c => pc'[d] = pc[d]
  BY <1>1, <1>2 DEF IInv, StopInv, TypeOK
<1>4. raced' = raced /\ InHand' = InHand
  BY <1>1, RacedStays DEF Stopping
<1> HIDE DEF c
<1>5. RacedOK'
  BY <1>1, <1>4 DEF IInv, RacedInv, RacedOK, Stopping
<1>6. JoinsOK'
  <2>1. Joined' = Joined /\ Cleared' = Cleared /\ Over' = Over
    BY <1>1 DEF Joined, Cleared, Over
  <2> QED BY <1>1, <1>2, <1>3, <1>4, <2>1 DEF IInv, RacedInv, JoinsOK
<1>7. HoldersOK'
  <2>1. \A d \in Conns : Held(d)' = Held(d) /\ (Fresh(d) => Fresh(d)')
    BY <1>1, <1>3 DEF Held, Fresh
  <2>2. \A d \in Conns : /\ pc'[d] \in {"recv", "send"} => pc[d] \in {"recv", "send"}
                         /\ pc[d] = "blocked" => pc'[d] = "blocked"
    BY <1>1, <1>3 DEF c
  <2> QED BY <1>1, <1>4, <2>1, <2>2 DEF IInv, RacedInv, HoldersOK
<1>8. NoCrossTalk'
  BY <1>1, <1>4 DEF IInv, RacedInv, NoCrossTalk
<1> QED BY <1>5, <1>6, <1>7, <1>8 DEF RacedInv
\* What close leaves accepted is held by another descriptor or by a thread in recv.
LEMMA RacedCloses ==
  ASSUME IInv, NEW F \in SUBSET Fds, Close(F, BlockedOn(None)), NEW d \in Conns,
         conn'[d] = "accepted"
  PROVE  (\E f \in Fds : fdt'[f] = d) \/ \E o \in Conns : pc[o] = "blocked" /\ on[o] = d
<1>1. /\ \A f \in Fds : fdt'[f] = IF f \in F THEN "free" ELSE fdt[f]
      /\ conn'[d] = IF (\E f \in F : fdt[f] = d) /\ d \notin BlockedOn(None)
                    THEN Remains(d, sent[d]) ELSE conn[d]
  BY DEF Close
<1>2. CASE d \in BlockedOn(None)
  BY <1>2 DEF BlockedOn
<1>3. CASE d \notin BlockedOn(None)
  <2>1. (\A f \in F : fdt[f] # d) /\ conn[d] = "accepted"
    BY <1>1, <1>3 DEF Remains
  <2>2. Held(d) \/ \E o \in Conns : pc[o] = "blocked" /\ on[o] = d
    BY <2>1 DEF IInv, RacedInv, HoldersOK
  <2> QED BY <1>1, <2>1, <2>2 DEF Held
<1> QED BY <1>2, <1>3

\* A handler is told to stop, and its descriptor is closed: it has no other.
LEMMA RacedStopHandler ==
  ASSUME IInv, ~ dead, Races, Controller, StopHandler
  PROVE  RacedInv'
<1> USE DEF objVars
<1> DEFINE c == Head(todo)
           g == h_ClientSocket[c]
<1>1. /\ UNCHANGED <<m_ServerSocket, m_Stop, m_ClientHandlers, m_ClientThreads, alive,
                     h_ClientSocket, pc, apc, dead, arg, on, asock, answers>>
      /\ cpc = "closing" /\ cpc' \in {"closing", "forget"} /\ todo # <<>>
  BY DEF Controller, StopHandler, Visited, GoTo, Close, sockVars
<1>2. c \in Conns
  BY <1>1, HeadTailProperties DEF IInv, StopInv, TypeOK
<1>3. raced \subseteq raced' /\ raced' \subseteq Conns /\ (Stopping' => InHand' \subseteq raced')
  BY RacedGrows
<1> HIDE DEF c, g
<1>4. RacedOK' /\ JoinsOK' /\ NoCrossTalk'
  <2>1. Joined' = Joined /\ Cleared' = Cleared /\ Over' = Over
    BY <1>1 DEF Joined, Cleared, Over
  <2> QED BY <1>1, <1>3, <2>1 DEF IInv, RacedInv, RacedOK, JoinsOK, NoCrossTalk, Stopping
<1>5. CASE g = -1
  <2>1. cpc' = "closing" /\ UNCHANGED sockVars
    BY <1>1, <1>5 DEF StopHandler, Visited, c, g
  <2>2. HoldersOK'
    BY <1>1, <1>3, <2>1 DEF IInv, RacedInv, HoldersOK, Held, Fresh, sockVars
  <2> QED BY <1>4, <2>2 DEF RacedInv
<1>6. CASE g # -1
  <2>1. cpc' = "forget" /\ todo' = todo /\ Close({g}, BlockedOn(None))
    BY <1>1, <1>6 DEF StopHandler, GoTo, c, g
  <2>2. alive[c] /\ g \in Fds /\ fdt[g] = c
    BY <1>1, <1>2, <1>6 DEF IInv, StopInv, TypeOK, StopDescriptors, g
  <2>3. fdt'[g] = "free" /\ \A f \in Fds : f # g => fdt'[f] = fdt[f]
    BY <2>1, <2>2 DEF Close
  <2>4. \A f, h \in Fds : fdt[f] \in Conns /\ fdt[f] = fdt[h] => f = h
    BY DEF IInv, RacedInv, HoldersOK
  <2>5. \A f \in Fds : fdt'[f] \in Conns => f # g /\ fdt'[f] = fdt[f] /\ fdt[f] # c
    BY <1>2, <2>2, <2>3, <2>4, SocketsAssumption
  <2>6. \A d \in Conns : /\ Held(d)' <=> Held(d) /\ d # c
                         /\ Fresh(d)' = Fresh(d)
    <3>1. \A d \in Conns : Held(d)' <=> \E f \in Fds : fdt'[f] = d
      BY DEF Held
    <3>2. \A d \in Conns : Held(d) <=> \E f \in Fds : fdt[f] = d
      BY DEF Held
    <3>3. \A f \in Fds : \A d \in Conns : fdt'[f] = d => fdt[f] = d /\ d # c
      BY <2>5
    <3>4. \A f \in Fds : \A d \in Conns : fdt[f] = d /\ d # c => fdt'[f] = d
      BY <2>2, <2>3
    <3> QED BY <1>1, <3>1, <3>2, <3>3, <3>4 DEF Fresh
  <2>7. \A f \in Fds : fdt'[f] \in Conns =>
          \/ h_ClientSocket'[fdt'[f]] = f
          \/ /\ Fresh(fdt[f])'
             /\ fdt'[f] \in raced' \/ (apc' \in {"returned", "emplace"} /\ asock' = f)
    <3> SUFFICES ASSUME NEW f \in Fds, fdt'[f] \in Conns
                 PROVE  \/ h_ClientSocket[fdt[f]] = f
                        \/ /\ Fresh(fdt[f])
                           /\ fdt[f] \in raced' \/ (apc \in {"returned", "emplace"} /\ asock = f)
      BY <1>1, <2>5, <2>6 DEF Fresh
    <3> QED BY <1>3, <2>5 DEF IInv, RacedInv, HoldersOK
  <2>8. ASSUME NEW d \in Conns
        PROVE  /\ h_ClientSocket[d] # -1 =>
                    fdt'[h_ClientSocket[d]] \notin Conns \ (raced' \union {d})
               /\ pc[d] \in {"recv", "send"} =>
                    /\ arg[d] # -1 => fdt'[arg[d]] \notin Conns \ (raced' \union {d})
                    /\ Held(d) /\ d # c => arg[d] # -1 /\ fdt'[arg[d]] = d
               /\ on[d] # d => on[d] \in raced' /\ ~ (Held(d) /\ d # c)
    <3>1. h_ClientSocket[d] \in Fds \union {-1} /\ arg[d] \in Fds \union {-1}
      BY DEF IInv, StopInv, TypeOK
    <3>2. \A f \in Fds : fdt[f] \notin Conns \ (raced \union {d}) =>
            fdt'[f] \notin Conns \ (raced' \union {d})
      BY <1>3, <2>5
    <3>3. \A f \in Fds : fdt[f] = d /\ d # c => fdt'[f] = d
      BY <2>2, <2>3
    <3>4. /\ h_ClientSocket[d] # -1 => fdt[h_ClientSocket[d]] \notin Conns \ (raced \union {d})
          /\ pc[d] \in {"recv", "send"} =>
               /\ arg[d] # -1 => fdt[arg[d]] \notin Conns \ (raced \union {d})
               /\ Held(d) => arg[d] # -1 /\ fdt[arg[d]] = d
          /\ on[d] # d => on[d] \in raced /\ ~ Held(d)
      BY DEF IInv, RacedInv, HoldersOK
    <3> QED BY <1>3, <3>1, <3>2, <3>3, <3>4
  <2>9. \A d \in Conns : conn'[d] = "accepted" =>
          Held(d)' \/ \E o \in Conns : pc[o] = "blocked" /\ on[o] = d
    <3>1. {g} \in SUBSET Fds
      BY <2>2
    <3> QED BY <2>1, <3>1, RacedCloses DEF Held
  <2>10. alive'[Head(todo')] /\ ~ Held(Head(todo))'
    <3>1. \A f \in Fds : fdt'[f] # c
      BY <1>2, <2>5
    <3> QED BY <1>1, <2>1, <2>2, <3>1 DEF Held, c
  <2>11. \A f, h \in Fds : fdt'[f] \in Conns /\ fdt'[f] = fdt'[h] => f = h
    BY <2>4, <2>5
  <2>12. HoldersOK'
    BY <1>1, <2>6, <2>7, <2>8, <2>9, <2>10, <2>11 DEF HoldersOK
  <2> QED BY <1>4, <2>12 DEF RacedInv
<1> QED BY <1>5, <1>6

\* The descriptor that was closed is forgotten; its connection had no other.
LEMMA RacedForgetSocket ==
  ASSUME IInv, ~ dead, Races, Controller, ForgetSocket
  PROVE  RacedInv'
<1> USE DEF objVars, sockVars
<1> DEFINE c == Head(todo)
<1>1. /\ UNCHANGED <<sockVars, m_ServerSocket, m_Stop, m_ClientHandlers, m_ClientThreads, alive,
                     h_Stop, pc, apc, dead, arg, on, asock>>
      /\ cpc = "forget" /\ cpc' = "closing"
      /\ h_ClientSocket' = [h_ClientSocket EXCEPT ![c] = -1]
  BY DEF Controller, ForgetSocket, Visited
<1>2. c \in Conns /\ ~ Held(c)
  BY <1>1, HeadTailProperties DEF IInv, StopInv, TypeOK, StopSteps, RacedInv, HoldersOK
<1>3. h_ClientSocket'[c] = -1 /\ \A d \in Conns : d # c => h_ClientSocket'[d] = h_ClientSocket[d]
  BY <1>1, <1>2 DEF IInv, StopInv, TypeOK
<1>4. raced' = raced /\ InHand' = InHand
  BY <1>1, RacedStays DEF Stopping
<1> HIDE DEF c
<1>5. RacedOK'
  BY <1>1, <1>4 DEF IInv, RacedInv, RacedOK, Stopping
<1>6. JoinsOK' /\ NoCrossTalk'
  <2>1. Joined' = Joined /\ Cleared' = Cleared /\ Over' = Over
    BY <1>1 DEF Joined, Cleared, Over
  <2> QED BY <1>1, <1>4, <2>1 DEF IInv, RacedInv, JoinsOK, NoCrossTalk
<1>7. HoldersOK'
  <2>1. \A d \in Conns : Held(d)' = Held(d) /\ Fresh(d)' = Fresh(d)
    BY <1>1 DEF Held, Fresh
  <2>2. \A f \in Fds : fdt[f] # c
    BY <1>2 DEF Held
  <2>3. \A d \in Conns : h_ClientSocket'[d] = -1 \/ h_ClientSocket'[d] = h_ClientSocket[d]
    BY <1>3
  <2>4. \A f \in Fds : fdt[f] \in Conns => h_ClientSocket'[fdt[f]] = h_ClientSocket[fdt[f]]
    BY <1>3, <2>2
  <2> QED BY <1>1, <1>4, <2>1, <2>3, <2>4 DEF IInv, RacedInv, HoldersOK
<1> QED BY <1>5, <1>6, <1>7 DEF RacedInv
\* The handlers are destroyed.  A thread that was not joined raced with Stop.
LEMMA RacedClearHandlers ==
  ASSUME IInv, ~ dead, Races, Controller, ClearHandlers
  PROVE  RacedInv'
<1> USE DEF objVars
<1> DEFINE F == {h_ClientSocket[c] : c \in ToSet(m_ClientHandlers)} \ {-1}
<1>1. /\ UNCHANGED <<m_ServerSocket, m_Stop, m_ClientThreads, pc, apc, dead, arg, on, asock,
                     todo, answers>>
      /\ cpc = "clearHandlers" /\ cpc' = "clearThreads" /\ m_ClientHandlers' = <<>>
      /\ Close(F, BlockedOn(None))
  BY DEF Controller, ClearHandlers, GoTo, Close
<1>2. /\ ToSet(m_ClientHandlers) \subseteq Conns
      /\ \A c \in Conns : c \in ToSet(m_ClientHandlers) <=> alive[c]
  BY DEF IInv, StopInv, TypeOK, StopDescriptors, ToSet
<1>3. \A c \in Conns : ~ alive'[c] /\ h_ClientSocket'[c] = -1
  <2>1. \A c \in Conns : h_ClientSocket[c] # -1 => alive[c]
    BY DEF IInv, StopInv, StopDescriptors
  <2> QED BY <1>2, <2>1 DEF ClearHandlers
<1>4. F \in SUBSET Fds /\ \A c \in Conns : h_ClientSocket[c] # -1 => h_ClientSocket[c] \in F
  <2>1. \A c \in Conns : h_ClientSocket[c] # -1 => alive[c]
    BY DEF IInv, StopInv, StopDescriptors
  <2>2. \A c \in Conns : h_ClientSocket[c] \in Fds \union {-1}
    BY DEF IInv, StopInv, TypeOK
  <2> QED BY <1>2, <2>1, <2>2
<1> HIDE DEF F
<1>5. \A f \in Fds : fdt'[f] = IF f \in F THEN "free" ELSE fdt[f]
  BY <1>1 DEF Close
<1>6. raced \subseteq raced' /\ raced' \subseteq Conns /\ (Stopping' => InHand' \subseteq raced')
  BY RacedGrows
<1>7. RacedOK'
  BY <1>1, <1>6 DEF IInv, RacedInv, RacedOK, Stopping
<1>8. JoinsOK'
  <2>1. \A c \in Conns \ raced' : pc[c] = "none"
    BY <1>1, <1>6 DEF IInv, RacedInv, JoinsOK, Joined
  <2>2. Over' => Over
    BY <1>1 DEF Over
  <2> QED BY <1>1, <1>3, <1>6, <2>1, <2>2 DEF IInv, RacedInv, JoinsOK
<1>9. \A f \in Fds : fdt'[f] \in Conns =>
        /\ fdt'[f] = fdt[f] /\ Fresh(fdt[f])
        /\ fdt[f] \in raced \/ (apc \in {"returned", "emplace"} /\ asock = f)
  <2> SUFFICES ASSUME NEW f \in Fds, fdt'[f] \in Conns
               PROVE  /\ fdt'[f] = fdt[f] /\ Fresh(fdt[f])
                      /\ fdt[f] \in raced \/ (apc \in {"returned", "emplace"} /\ asock = f)
    OBVIOUS
  <2>1. f \notin F /\ fdt'[f] = fdt[f]
    BY <1>5, SocketsAssumption
  <2>2. f # -1
    BY SocketsAssumption DEF Fds
  <2>3. h_ClientSocket[fdt[f]] # f
    BY <1>4, <2>1, <2>2
  <2> QED BY <2>1, <2>3 DEF IInv, RacedInv, HoldersOK
<1>10. HoldersOK'
  <2>1. \A d \in Conns : Fresh(d) => Fresh(d)'
    BY <1>1, <1>3 DEF Fresh
  <2>2. \A d \in Conns : Held(d)' => Held(d) /\ pc[d] = "none"
    BY <1>9 DEF Held, Fresh
  <2>3. \A f, h \in Fds : fdt'[f] \in Conns /\ fdt'[f] = fdt'[h] => f = h
    BY <1>9 DEF IInv, RacedInv, HoldersOK
  <2>4. \A f \in Fds : fdt'[f] \in Conns =>
          /\ Fresh(fdt[f])'
          /\ fdt'[f] \in raced' \/ (apc' \in {"returned", "emplace"} /\ asock' = f)
    <3> SUFFICES ASSUME NEW f \in Fds, fdt'[f] \in Conns
                 PROVE  /\ Fresh(fdt[f])'
                        /\ fdt'[f] \in raced' \/ (apc' \in {"returned", "emplace"} /\ asock' = f)
      OBVIOUS
    <3>1. /\ fdt'[f] = fdt[f] /\ Fresh(fdt[f])
          /\ fdt[f] \in raced \/ (apc \in {"returned", "emplace"} /\ asock = f)
      BY <1>9
    <3>2. Fresh(fdt[f])'
      BY <1>1, <1>3, <3>1 DEF Fresh
    <3> QED BY <1>1, <1>6, <3>1, <3>2
  <2>5. \A f \in Fds : \A d \in Conns : fdt[f] \notin Conns \ (raced \union {d}) =>
          fdt'[f] \notin Conns \ (raced' \union {d})
    BY <1>6, <1>9
  <2>6. ASSUME NEW d \in Conns, pc[d] \in {"recv", "send"}, arg[d] # -1
        PROVE  fdt'[arg[d]] \notin Conns \ (raced' \union {d})
    <3>1. arg[d] \in Fds
      BY <2>6 DEF IInv, StopInv, TypeOK
    <3> QED BY <2>5, <2>6, <3>1 DEF IInv, RacedInv, HoldersOK
  <2>7. \A d \in Conns : on[d] # d => on[d] \in raced' /\ ~ Held(d)'
    BY <1>6, <2>2 DEF IInv, RacedInv, HoldersOK
  <2>8. \A d \in Conns : conn'[d] = "accepted" =>
          Held(d)' \/ \E o \in Conns : pc[o] = "blocked" /\ on[o] = d
    BY <1>1, <1>4, RacedCloses DEF Held
  <2> QED BY <1>1, <1>3, <2>2, <2>3, <2>4, <2>6, <2>7, <2>8 DEF HoldersOK
<1>11. NoCrossTalk'
  BY <1>1, <1>6 DEF IInv, RacedInv, NoCrossTalk
<1> QED BY <1>7, <1>8, <1>10, <1>11 DEF RacedInv

\* The threads are destroyed; one that was not joined terminates the process, and had
\* raced with Stop.
LEMMA RacedClearThreads ==
  ASSUME IInv, ~ dead, Races, Controller, ClearThreads
  PROVE  RacedInv'
<1> USE DEF objVars, sockVars
<1>1. /\ UNCHANGED <<sockVars, m_ServerSocket, m_Stop, m_ClientHandlers, alive, h_ClientSocket,
                     h_Stop, pc, apc, arg, on, asock, todo>>
      /\ cpc = "clearThreads" /\ cpc' = "setStop" /\ m_ClientThreads' = <<>>
      /\ dead' = \E c \in ToSet(m_ClientThreads) : pc[c] # "none"
  BY DEF Controller, ClearThreads, GoTo
<1>2. raced' = raced /\ InHand' = InHand
  BY <1>1, RacedStays DEF Stopping
<1>3. (\E c \in Conns : pc[c] # "none") <=> dead'
  <2>1. ToSet(m_ClientThreads) \subseteq Conns
    BY DEF IInv, StopInv, TypeOK, ToSet
  <2>2. \A c \in Conns : pc[c] # "none" => c \in ToSet(m_ClientThreads)
    BY DEF IInv, StopInv, StopThreads
  <2>3. (\E c \in Conns : pc[c] # "none") <=> \E c \in ToSet(m_ClientThreads) : pc[c] # "none"
    BY <2>1, <2>2
  <2> QED BY <1>1, <2>3, Zenon
<1>4. \A c \in Conns : pc[c] # "none" => c \in raced
  BY <1>1 DEF IInv, RacedInv, JoinsOK, Joined
<1>5. RacedOK'
  <2>1. dead' => raced # {}
    BY <1>3, <1>4
  <2> QED BY <1>1, <1>2, <2>1 DEF IInv, RacedInv, RacedOK, Stopping
<1>6. JoinsOK'
  <2>1. \A c \in Conns : pc'[c] # "none" /\ ~ alive'[c] =>
          c \in raced' /\ (dead' \/ cpc' = "clearThreads")
    BY <1>1, <1>2, <1>3, <1>4
  <2>2. \A c \in Conns \ raced' :
          /\ cpc' = "joining" /\ pc'[c] # "none" => c \in ToSet(todo')
          /\ Joined' => pc'[c] = "none"
          /\ Cleared' => ~ alive'[c]
    BY <1>1, <1>2 DEF IInv, RacedInv, JoinsOK, Joined, Cleared
  <2>3. ToSet(m_ClientThreads') \subseteq raced'
    BY <1>1, SetOfEmpty
  <2> QED BY <2>1, <2>2, <2>3 DEF JoinsOK
<1>7. HoldersOK' /\ NoCrossTalk'
  BY <1>1, <1>2 DEF IInv, RacedInv, HoldersOK, NoCrossTalk, Held, Fresh
<1> QED BY <1>5, <1>6, <1>7 DEF RacedInv

LEMMA RacedController ==
  ASSUME IInv, ~ dead, Races, Controller PROVE RacedInv'
  BY RacedControllerGoes, RacedListener, RacedJoinHandler, RacedStopHandler, RacedForgetSocket,
     RacedClearHandlers, RacedClearThreads DEF Controller

(*********************************************************************************)
(* The theorems.                                                                 *)
(*********************************************************************************)
LEMMA RacedInitial == RacedInit => IInv
<1> SUFFICES ASSUME RacedInit PROVE IInv
  OBVIOUS
<1>1. StopInv
  BY InitInv DEF RacedInit
<1> USE DEF RacedInit, Init, SocketsInit
<1>2. RacedOK /\ NoCrossTalk
  BY DEF RacedOK, Stopping, NoCrossTalk
<1>3. JoinsOK
  BY SetOfEmpty DEF JoinsOK
<1>4. HoldersOK
  BY SocketsAssumption DEF HoldersOK
<1> QED BY <1>1, <1>2, <1>3, <1>4 DEF IInv, RacedInv

LEMMA RacedStep ==
  ASSUME IInv, [RacedNext]_racedVars PROVE IInv'
<1>1. StopInv'
  BY NextInv DEF IInv, RacedNext, racedVars
<1>2. CASE RacedNext
  <2>1. ~ dead /\ Races /\ Next
    BY <1>2 DEF RacedNext, Races, Next
  <2>2. RacedInv'
    BY <2>1, RacedHandlerThread, RacedClient, RacedAcceptor, RacedController DEF Next
  <2> QED BY <1>1, <2>2 DEF IInv
<1>3. CASE UNCHANGED racedVars
  <2> USE <1>3 DEF racedVars, vars, sockVars, objVars, thrVars, accVars, ctlVars
  <2>1. RacedOK' /\ JoinsOK'
    BY DEF IInv, RacedInv, RacedOK, JoinsOK, InHand, Stopping, Joined, Cleared, Over
  <2>2. HoldersOK' /\ NoCrossTalk'
    BY DEF IInv, RacedInv, HoldersOK, NoCrossTalk, Held, Fresh
  <2> QED BY <1>1, <2>1, <2>2 DEF IInv, RacedInv
<1> QED BY <1>2, <1>3

\* The inductive invariant of the life cycle: what Stop tears apart, and what it keeps of
\* connections that it does not race with.
THEOREM RacedInvariance == RacedSpec => []IInv
<1>1. RacedInit => IInv
  BY RacedInitial
<1>2. IInv /\ [RacedNext]_racedVars => IInv'
  BY RacedStep
<1> QED BY <1>1, <1>2, PTL DEF RacedSpec

\* The threads of Server use no ClientHandler after it was freed, and Stop destroys no
\* std::thread that was not joined, but for handlers and threads that the acceptor made
\* while Stop ran; those are found between the two clear() calls only.
THEOREM NothingUsedAfterFree == RacedSpec => []NothingFreedInUse
<1>1. IInv => NothingFreedInUse
  BY DEF IInv, RacedInv, RacedOK, JoinsOK, NothingFreedInUse, Runs
<1> QED BY <1>1, RacedInvariance, PTL

LEMMA NothingLeft ==
  ASSUME IInv PROVE StopLeavesNothing
<1> SUFFICES ASSUME cpc \in {"idle", "start"}, apc = "none"
             PROVE  /\ \A f \in Fds : fdt[f] = "free" \/ fdt[f] \in raced
                    /\ ToSet(m_ClientHandlers) \subseteq raced
                    /\ ToSet(m_ClientThreads) \subseteq raced
                    /\ \A c \in Conns \ raced : ~ alive[c] /\ pc[c] = "none"
  BY DEF StopLeavesNothing
<1>1. /\ \A c \in Conns \ raced : ~ alive[c] /\ pc[c] = "none"
      /\ ToSet(m_ClientThreads) \subseteq raced
  BY DEF IInv, RacedInv, JoinsOK, Joined, Cleared, Over
<1>2. \A f \in Fds : fdt[f] = "free" \/ fdt[f] \in raced
  <2> SUFFICES ASSUME NEW f \in Fds, fdt[f] # "free" PROVE fdt[f] \in raced
    OBVIOUS
  <2>1. fdt[f] \in Conns
    BY NoListener DEF IInv, StopInv, TypeOK, SocketsTypeOK
  <2>2. f # -1
    BY SocketsAssumption DEF Fds
  <2>3. h_ClientSocket[fdt[f]] = f => alive[fdt[f]]
    BY <2>1, <2>2 DEF IInv, StopInv, StopDescriptors
  <2> QED BY <1>1, <2>1, <2>3 DEF IInv, RacedInv, HoldersOK
<1>3. ToSet(m_ClientHandlers) \subseteq raced
  <2>1. ToSet(m_ClientHandlers) \subseteq Conns
    BY DEF IInv, StopInv, TypeOK, ToSet
  <2>2. \A c \in ToSet(m_ClientHandlers) : alive[c]
    BY <2>1 DEF IInv, StopInv, StopDescriptors
  <2> QED BY <1>1, <2>1, <2>2
<1> QED BY <1>1, <1>2, <1>3

\* Server::Stop, called at any moment, leaves no descriptor, handler or thread when it
\* returns, except of connections that the acceptor was taking in while it ran.
THEOREM CleanStop == RacedSpec => []StopLeavesNothing
<1> QED BY NothingLeft, RacedInvariance, PTL

\* SendJson sends a response to the client of its request, while Stop closes and accept
\* reuses descriptors: all that another client can get goes to one that Stop raced with.
THEOREM OwnAnswers == RacedSpec => []NoCrossTalk
<1>1. IInv => NoCrossTalk
  BY DEF IInv, RacedInv
<1> QED BY <1>1, RacedInvariance, PTL

\* Server::Start throws because of a connection that the server has closed first and that
\* lingers, or of one that an earlier Stop raced with and left open.
THEOREM ThrowsWhenLingering == RacedSpec => StartThrowsOnlyWhenLingering
<1> DEFINE P == ~ threw /\ threw' =>
                  \E c \in Conns : conn[c] = "lingering" \/ (conn[c] = "accepted" /\ c \in raced)
<1>1. ASSUME IInv, Next, ~ threw, threw'
      PROVE  \E c \in Conns : conn[c] = "lingering" \/ (conn[c] = "accepted" /\ c \in raced)
  <2>1. StartThrows
    BY <1>1 DEF Next, HandlerThread, ClientActs, Acceptor, Controller, ctlVars, BeginStart,
       StartRunning, StartListens, BeginStop, StopHandler, ForgetSocket, HandlersStopped,
       JoinHandler, HandlersJoined, ClearHandlers, ClearThreads, SetStop, CloseServerSocket,
       JoinAcceptor, GoTo, Returns, Loop, Visited
  <2>2. cpc = "start" /\ apc = "none" /\ PortBusy
    BY <2>1 DEF StartThrows, Joinable
  <2>3. PICK c \in Conns : conn[c] \in {"accepted", "lingering"}
    BY <2>2 DEF PortBusy
  <2>4. ASSUME conn[c] = "accepted" PROVE c \in raced
    <3>1. CASE Held(c)
      <4>1. c # "free"
        BY SocketsAssumption
      <4> QED BY <1>1, <2>2, <3>1, <4>1, NothingLeft DEF StopLeavesNothing, Held
    <3>2. CASE \E o \in Conns : pc[o] = "blocked" /\ on[o] = c
      <4>1. PICK o \in Conns : pc[o] = "blocked" /\ on[o] = c
        BY <3>2
      <4>2. on[o] = o
        BY <1>1, <2>2, <4>1 DEF IInv, StopInv, StopThreads, HandlersCleared, ThreadsCleared, Next
      <4>3. pc[c] # "none"
        BY <4>1, <4>2
      <4> QED BY <1>1, <2>2, <4>3 DEF IInv, RacedInv, JoinsOK, Joined
    <3> QED BY <1>1, <2>4, <3>1, <3>2 DEF IInv, RacedInv, HoldersOK
  <2> QED BY <2>3, <2>4
<1>2. ASSUME IInv, [RacedNext]_racedVars PROVE [P]_racedVars
  BY <1>1, <1>2 DEF RacedNext
<1> QED BY <1>2, RacedInvariance, PTL DEF RacedSpec, StartThrowsOnlyWhenLingering

\* The history variable restricts nothing: what holds of Spec holds here as well.
THEOREM RacedIsServer == RacedSpec => Spec
<1>1. RacedInit => Init
  BY DEF RacedInit
<1>2. [RacedNext]_racedVars => [Next]_vars
  BY DEF RacedNext, racedVars
<1> QED BY <1>1, <1>2, PTL DEF RacedSpec, Spec
==================================================================================
