------------------------------- MODULE ServerProofs ------------------------------
(*********************************************************************************)
(* Proofs about the life cycle of the server, for any script, any number of      *)
(* clients and descriptors: Stop is called at any moment, whatever the acceptor  *)
(* is doing and whoever connects meanwhile.  The process may be terminated by    *)
(* the race of Stop with the acceptor; the steps below are those of a process    *)
(* that was not.                                                                 *)
(*********************************************************************************)
EXTENDS ServerProperties, SequenceTheorems, FiniteSetTheorems, TLAPS

(*********************************************************************************)
(* Descriptors and sequences.                                                    *)
(*********************************************************************************)
\* The lowest of the free descriptors is one of them.
LEMMA LowestIsFree ==
  ASSUME FreeFds # {}
  PROVE  LowestFd \in Fds /\ fdt[LowestFd] = "free"
<1>1. FreeFds \subseteq 1 .. MaxFd /\ MaxFd \in Nat
  BY SocketsAssumption DEF FreeFds, Fds
<1>2. \E x \in FreeFds : \A y \in FreeFds : x <= y
  <2> SUFFICES ASSUME \A x \in FreeFds : \E y \in FreeFds : ~ (x <= y) PROVE FALSE
    OBVIOUS
  <2> DEFINE D == {n \in 1 .. MaxFd : \A f \in FreeFds : n <= f}
             up == [n \in D |-> n + 1]
  <2>1. 1 \in D
    BY <1>1, SocketsAssumption
  <2>2. ASSUME NEW n \in D PROVE n + 1 \in D \ {1}
    <3>1. n \in 1 .. MaxFd /\ \A f \in FreeFds : n <= f
      OBVIOUS
    <3>2. PICK f \in FreeFds : TRUE
      OBVIOUS
    <3>3. n \notin FreeFds
      BY <3>1
    <3>4. \A g \in FreeFds : n + 1 <= g
      BY <1>1, <3>1, <3>3
    <3>5. n + 1 \in 1 .. MaxFd
      BY <1>1, <3>1, <3>2, <3>4
    <3> QED BY <3>1, <3>4, <3>5
  <2>3. up \in Injection(D, D \ {1})
    <3>1. \A n \in D : up[n] = n + 1
      OBVIOUS
    <3>2. up \in [D -> D \ {1}]
      BY <2>2, <3>1
    <3>3. \A m, n \in D : up[m] = up[n] => m = n
      BY <3>1
    <3> HIDE DEF D, up
    <3> QED BY <3>2, <3>3 DEF Injection, IsInjective
  <2>4. IsFiniteSet(D)
    <3>1. D \subseteq 1 .. MaxFd
      OBVIOUS
    <3>2. IsFiniteSet(1 .. MaxFd)
      BY <1>1, FS_Interval
    <3> QED BY <3>1, <3>2, FS_Subset
  <2>5. Cardinality(D \ {1}) = Cardinality(D) - 1 /\ IsFiniteSet(D \ {1})
    BY <2>1, <2>4, FS_RemoveElement
  <2>6. Cardinality(D) <= Cardinality(D \ {1})
    BY <2>3, <2>5, FS_Injection
  <2>7. Cardinality(D) \in Nat
    BY <2>4, FS_CardinalityType
  <2> QED BY <2>5, <2>6, <2>7
<1>3. LowestFd \in FreeFds
  BY <1>2 DEF LowestFd, Min
<1> QED BY <1>3 DEF FreeFds

\* What is in a sequence with another element, without its first, or at its end.
LEMMA SetOfAppend ==
  ASSUME NEW S, NEW s \in Seq(S), NEW x \in S
  PROVE  /\ Append(s, x) \in Seq(S) /\ Append(s, x) # <<>>
         /\ ToSet(Append(s, x)) = ToSet(s) \union {x}
<1> DEFINE t == Append(s, x)
<1>1. /\ t \in Seq(S) /\ Len(t) = Len(s) + 1 /\ Len(s) \in Nat
      /\ DOMAIN s = 1 .. Len(s) /\ DOMAIN t = 1 .. Len(s) + 1
      /\ t[Len(s) + 1] = x /\ \A i \in 1 .. Len(s) : t[i] = s[i]
  BY LenProperties, AppendProperties
<1>2. t # <<>>
  BY <1>1
<1> HIDE DEF t
<1>3. ASSUME NEW i \in DOMAIN t PROVE t[i] \in ToSet(s) \union {x}
  BY <1>1 DEF ToSet
<1>4. ASSUME NEW i \in DOMAIN s PROVE s[i] \in ToSet(t)
  BY <1>1 DEF ToSet
<1>5. x \in ToSet(t)
  BY <1>1 DEF ToSet
<1>6. ToSet(t) \subseteq ToSet(s) \union {x} /\ ToSet(s) \subseteq ToSet(t)
  BY <1>3, <1>4 DEF ToSet
<1> QED BY <1>1, <1>2, <1>5, <1>6 DEF t

LEMMA SetOfTail ==
  ASSUME NEW S, NEW s \in Seq(S), s # <<>>
  PROVE  /\ Tail(s) \in Seq(S) /\ Head(s) \in S
         /\ \A x \in ToSet(s) : x = Head(s) \/ x \in ToSet(Tail(s))
<1>1. Tail(s) \in Seq(S) /\ Head(s) \in S
  BY HeadTailProperties
<1>2. ASSUME NEW i \in DOMAIN s PROVE s[i] = Head(s) \/ s[i] \in ToSet(Tail(s))
  <2>1. CASE i = 1
    BY <2>1
  <2>2. CASE i # 1
    <3>1. i - 1 \in 1 .. Len(Tail(s)) /\ Tail(s)[i - 1] = s[i]
      BY <2>2, HeadTailProperties, LenProperties
    <3> QED BY <1>1, <3>1, LenProperties DEF ToSet
  <2> QED BY <2>1, <2>2
<1> QED BY <1>1, <1>2 DEF ToSet

LEMMA LastInSet ==
  ASSUME NEW S, NEW s \in Seq(S), s # <<>>
  PROVE  Last(s) \in S /\ Last(s) \in ToSet(s)
  BY DEF Last, ToSet

LEMMA SetOfEmpty == ToSet(<<>>) = {}
  BY DEF ToSet

LEMMA LastOfAppend ==
  ASSUME NEW S, NEW s \in Seq(S), NEW x \in S
  PROVE  Last(Append(s, x)) = x
  BY LenProperties, AppendProperties DEF Last

(*********************************************************************************)
(* The handler threads.                                                          *)
(*********************************************************************************)
\* What a step of a handler thread leaves alone.
HandlerFrame ==
  UNCHANGED <<fdt, client, objVars, m_ServerSocket, m_Stop, accVars, ctlVars, dead>>

\* A step of a running thread: what it is blocked on then is no new connection, and
\* between the stops it works on its own.  recv may let go of a connection.
LEMMA ThreadMoves ==
  ASSUME StopInv, ~ dead, HandlerFrame, NEW c \in Conns, pc[c] # "none",
         NEW p \in {"loop", "recv", "blocked", "handle", "send", "done"},
         pc' = [pc EXCEPT ![c] = p],
         arg' \in [Conns -> Fds \union {-1}], \A d \in Conns \ {c} : arg'[d] = arg[d],
         on' \in [Conns -> Conns], \A d \in Conns \ {c} : on'[d] = on[d],
         p = "blocked" => conn'[on'[c]] \notin {"new", "backlog"},
         ThreadsCleared =>
           on'[c] = c /\ (p \in {"recv", "send"} => arg'[c] # -1 /\ fdt[arg'[c]] = c),
         conn' \in [Conns -> {"new", "backlog", "accepted", "lingering", "gone"}],
         \A d \in Conns : \/ conn'[d] = conn[d]
                          \/ /\ conn[d] \notin {"new", "backlog"}
                             /\ conn'[d] \notin {"new", "backlog"},
         sent' \in [Conns -> BOOLEAN], waiting' \in [Conns -> BOOLEAN],
         answers' \in [Conns -> SUBSET Conns]
  PROVE  StopInv'
<1> USE DEF HandlerFrame, objVars, accVars, ctlVars
<1>1. pc'[c] = p /\ p # "none" /\ \A d \in Conns : d # c => pc'[d] = pc[d]
  BY DEF StopInv, TypeOK
<1>2. TypeOK'
  <2>1. SocketsTypeOK'
    BY DEF StopInv, TypeOK, SocketsTypeOK
  <2>2. pc' \in [Conns -> {"none", "loop", "recv", "blocked", "handle", "send", "done"}]
    BY DEF StopInv, TypeOK
  <2> QED BY <2>1, <2>2 DEF StopInv, TypeOK
<1>3. StopSteps'
  BY DEF StopInv, StopSteps, Stopping, Listening, FreeFds
<1>4. \A d \in Conns : Fresh(d) => Fresh(d)'
  BY <1>1 DEF Fresh
<1>5. StopDescriptors'
  <2>1. \A d \in Conns : pc'[d] = "blocked" => conn'[on'[d]] \notin {"new", "backlog"}
    BY <1>1 DEF StopInv, StopDescriptors, TypeOK
  <2>2. \A d \in Conns : client'[d] = "new" => conn'[d] = "new"
    BY DEF StopInv, StopDescriptors
  <2>3. \A d \in Conns : conn'[d] \in {"new", "backlog"} =>
          Fresh(d)' /\ \A f \in Fds : fdt'[f] # d
    BY <1>4 DEF StopInv, StopDescriptors
  <2>4. apc' \in {"returned", "emplace"} /\ asock' # -1 =>
          fdt'[asock'] \in Conns /\ Fresh(fdt[asock])'
    BY <1>4 DEF StopInv, StopDescriptors
  <2> QED BY <2>1, <2>2, <2>3, <2>4 DEF StopInv, StopDescriptors
<1>6. StopThreads'
  <2>1. apc = "register" /\ m_ClientHandlers # <<>> =>
          LET d == Last(m_ClientHandlers) IN d \in Conns /\ d # c /\ pc[d] = "none" /\ on[d] = d
    BY LastInSet DEF StopInv, StopThreads, TypeOK
  <2>2. apc' = "register" =>
          IF m_ClientHandlers' = <<>> THEN Stopping'
          ELSE pc'[Last(m_ClientHandlers)] = "none"
               /\ on'[Last(m_ClientHandlers)] = Last(m_ClientHandlers)
    BY <1>1, <2>1 DEF StopInv, StopThreads, Stopping
  <2>3. \A d \in Conns : pc'[d] # "none" => d \in ToSet(m_ClientThreads)
    BY <1>1 DEF StopInv, StopThreads
  <2>4. ThreadsCleared => \A d \in Conns : pc'[d] # "none" =>
          /\ alive[d] /\ on'[d] = d
          /\ pc'[d] \in {"recv", "send"} => arg'[d] # -1 /\ fdt[arg'[d]] = d
    <3> SUFFICES ASSUME ThreadsCleared, NEW d \in Conns, pc'[d] # "none"
                 PROVE  /\ alive[d] /\ on'[d] = d
                        /\ pc'[d] \in {"recv", "send"} => arg'[d] # -1 /\ fdt[arg'[d]] = d
      OBVIOUS
    <3>1. CASE d = c
      BY <1>1, <3>1 DEF StopInv, StopThreads
    <3>2. CASE d # c
      BY <1>1, <3>2 DEF StopInv, StopThreads
    <3> QED BY <3>1, <3>2
  <2>5. HandlersCleared' = HandlersCleared /\ ThreadsCleared' = ThreadsCleared
    BY DEF HandlersCleared, ThreadsCleared
  <2> QED BY <2>2, <2>3, <2>4, <2>5 DEF StopInv, StopThreads
<1> QED BY <1>2, <1>3, <1>5, <1>6 DEF StopInv
\* A thread that returns from recv lets go of a connection that is not new.
LEMMA LeavesRecv ==
  ASSUME StopInv, NEW c \in Conns, pc[c] = "blocked", NEW unread \in BOOLEAN,
         LeaveRecv(c, unread)
  PROVE  /\ conn' \in [Conns -> {"new", "backlog", "accepted", "lingering", "gone"}]
         /\ \A d \in Conns : \/ conn'[d] = conn[d]
                             \/ /\ conn[d] \notin {"new", "backlog"}
                                /\ conn'[d] \notin {"new", "backlog"}
<1>1. on[c] \in Conns /\ conn[on[c]] \notin {"new", "backlog"}
  BY DEF StopInv, TypeOK, StopDescriptors
<1>2. conn \in [Conns -> {"new", "backlog", "accepted", "lingering", "gone"}]
  BY DEF StopInv, TypeOK, SocketsTypeOK
<1>3. Remains(on[c], unread) \in {"lingering", "gone"}
  BY DEF Remains
<1> QED BY <1>1, <1>2, <1>3 DEF LeaveRecv

LEMMA HandlerThreadInv ==
  ASSUME StopInv, ~ dead, NEW c \in Conns, HandlerThread(c)
  PROVE  StopInv'
<1> USE DEF objVars, sockVars
<1>1. pc[c] # "none"
  BY DEF HandlerThread, HandlerLoop, EnterRecv, RecvRequest, RecvFails, RecvEnd, HandleRequest,
     SendResponse
<1>2. HandlerFrame
  BY DEF HandlerThread, HandlerLoop, EnterRecv, RecvRequest, RecvFails, RecvEnd, HandleRequest,
     SendResponse,
     HandlerFrame, accVars, ctlVars
<1>3. /\ arg \in [Conns -> Fds \union {-1}] /\ h_ClientSocket \in [Conns -> Fds \union {-1}]
      /\ on \in [Conns -> Conns] /\ fdt \in [Fds -> Conns \union {"free", "listen"}]
      /\ conn \in [Conns -> {"new", "backlog", "accepted", "lingering", "gone"}]
      /\ sent \in [Conns -> BOOLEAN] /\ waiting \in [Conns -> BOOLEAN]
      /\ answers \in [Conns -> SUBSET Conns]
  BY DEF StopInv, TypeOK, SocketsTypeOK
<1>4. ThreadsCleared => /\ on[c] = c
                        /\ h_ClientSocket[c] # -1 /\ fdt[h_ClientSocket[c]] = c
                        /\ pc[c] \in {"recv", "send"} => arg[c] # -1 /\ fdt[arg[c]] = c
  BY <1>1 DEF StopInv, StopThreads, StopDescriptors, HandlersCleared, ThreadsCleared
<1>5. CASE HandlerLoop(c)
  <2>1. CASE h_Stop[c]
    BY <1>1, <1>2, <1>3, <1>4, <1>5, <2>1, ThreadMoves DEF HandlerLoop
  <2>2. CASE ~ h_Stop[c]
    <3>1. arg'[c] = h_ClientSocket[c] /\ arg' \in [Conns -> Fds \union {-1}]
      BY <1>3, <1>5, <2>2 DEF HandlerLoop
    <3> QED BY <1>1, <1>2, <1>3, <1>4, <1>5, <2>2, <3>1, ThreadMoves DEF HandlerLoop
  <2> QED BY <2>1, <2>2
<1>6. CASE EnterRecv(c)
  <2>1. CASE arg[c] \in Fds /\ fdt[arg[c]] \in Conns
    <3>1. /\ UNCHANGED <<conn, sent, waiting, answers, arg>>
          /\ pc[c] = "recv" /\ pc' = [pc EXCEPT ![c] = "blocked"]
          /\ on' = [on EXCEPT ![c] = fdt[arg[c]]]
      BY <1>6, <2>1 DEF EnterRecv
    <3>2. on' \in [Conns -> Conns] /\ on'[c] = fdt[arg[c]] /\ \A d \in Conns \ {c} : on'[d] = on[d]
      BY <1>3, <2>1, <3>1
    <3>3. conn'[on'[c]] \notin {"new", "backlog"}
      BY <2>1, <3>1, <3>2 DEF StopInv, StopDescriptors
    <3>4. ThreadsCleared => on'[c] = c
      BY <1>4, <3>1, <3>2
    <3> QED BY <1>1, <1>2, <1>3, <3>1, <3>2, <3>3, <3>4, ThreadMoves
  <2>2. CASE ~ (arg[c] \in Fds /\ fdt[arg[c]] \in Conns)
    <3>1. /\ UNCHANGED <<conn, sent, waiting, answers, arg, on>>
          /\ pc' = [pc EXCEPT ![c] = "done"]
      BY <1>6, <2>2 DEF EnterRecv
    <3> QED BY <1>1, <1>2, <1>3, <1>4, <3>1, ThreadMoves
  <2> QED BY <2>1, <2>2
<1>7. CASE RecvRequest(c)
  <2>1. sent' \in [Conns -> BOOLEAN]
    BY <1>3, <1>7 DEF RecvRequest
  <2> QED BY <1>1, <1>2, <1>3, <1>4, <1>7, <2>1, LeavesRecv, ThreadMoves DEF RecvRequest
<1>8. CASE RecvEnd(c)
  BY <1>1, <1>2, <1>3, <1>4, <1>8, LeavesRecv, ThreadMoves DEF RecvEnd
<1>9. CASE HandleRequest(c)
  <2>1. arg'[c] = h_ClientSocket[c] /\ arg' \in [Conns -> Fds \union {-1}]
    BY <1>3, <1>9 DEF HandleRequest
  <2> QED BY <1>1, <1>2, <1>3, <1>4, <1>9, <2>1, ThreadMoves DEF HandleRequest
<1>10. CASE SendResponse(c)
  <2>1. CASE arg[c] \in Fds /\ fdt[arg[c]] \in Conns
    <3> DEFINE d == fdt[arg[c]]
               A == IF client[d] = "open" THEN answers[d] \union {on[c]} ELSE answers[d]
    <3>1. /\ pc' = [pc EXCEPT ![c] = "loop"] /\ UNCHANGED <<conn, sent, arg, on>>
          /\ waiting' = [waiting EXCEPT ![d] = FALSE]
          /\ answers' = [answers EXCEPT ![d] = A]
      BY <1>10, <2>1 DEF SendResponse
    <3>2. d \in Conns /\ A \in SUBSET Conns
      BY <1>3, <2>1
    <3> HIDE DEF d, A
    <3>3. waiting' \in [Conns -> BOOLEAN] /\ answers' \in [Conns -> SUBSET Conns]
      BY <1>3, <3>1, <3>2
    <3> QED BY <1>1, <1>2, <1>3, <1>4, <3>1, <3>3, ThreadMoves
  <2>2. CASE ~ (arg[c] \in Fds /\ fdt[arg[c]] \in Conns)
    <3>1. /\ pc' = [pc EXCEPT ![c] = "done"]
          /\ UNCHANGED <<conn, sent, waiting, answers, arg, on>>
      BY <1>10, <2>2 DEF SendResponse
    <3> QED BY <1>1, <1>2, <1>3, <1>4, <3>1, ThreadMoves
  <2> QED BY <2>1, <2>2
<1>11. CASE RecvFails(c)
  <2>1. PICK rest \in BOOLEAN : sent' = [sent EXCEPT ![on[c]] = rest] /\ LeaveRecv(c, rest)
    BY <1>11 DEF RecvFails
  <2>2. sent' \in [Conns -> BOOLEAN]
    BY <1>3, <2>1
  <2>3. /\ pc[c] = "blocked" /\ pc' = [pc EXCEPT ![c] = "done"]
        /\ UNCHANGED <<waiting, answers, arg, on>>
    BY <1>11 DEF RecvFails
  <2> QED BY <1>1, <1>2, <1>3, <1>4, <2>1, <2>2, <2>3, LeavesRecv, ThreadMoves
<1> QED BY <1>5, <1>6, <1>7, <1>8, <1>9, <1>10, <1>11 DEF HandlerThread

(*********************************************************************************)
(* The clients, and the kernel.                                                  *)
(*********************************************************************************)
\* What a client does to its end, and to a connection that no thread knows of yet or
\* that is only lingering.
LEMMA ClientInv ==
  ASSUME StopInv, ~ dead, NEW c \in Conns, ClientActs(c)
  PROVE  StopInv'
<1> USE DEF objVars, thrVars, accVars, ctlVars
<1>1. /\ UNCHANGED <<fdt, answers, m_ServerSocket, m_Stop, objVars, thrVars, accVars, ctlVars, dead>>
      /\ conn' \in [Conns -> {"new", "backlog", "accepted", "lingering", "gone"}]
      /\ client' \in [Conns -> {"new", "open", "closed"}]
      /\ sent' \in [Conns -> BOOLEAN] /\ waiting' \in [Conns -> BOOLEAN]
      /\ \A d \in Conns : client'[d] = "new" => client[d] = "new" /\ conn'[d] = conn[d]
      /\ \A d \in Conns : conn'[d] \in {"new", "backlog"} => conn[d] \in {"new", "backlog"}
  <2>1. /\ conn \in [Conns -> {"new", "backlog", "accepted", "lingering", "gone"}]
        /\ client \in [Conns -> {"new", "open", "closed"}]
        /\ sent \in [Conns -> BOOLEAN] /\ waiting \in [Conns -> BOOLEAN]
        /\ \A d \in Conns : client[d] = "new" => conn[d] = "new"
    BY DEF StopInv, TypeOK, SocketsTypeOK, StopDescriptors
  <2>2. UNCHANGED <<fdt, answers, m_ServerSocket, m_Stop, objVars, thrVars, accVars, ctlVars, dead>>
    BY DEF ClientActs, Connect, ClientSend, ClientClose, Expire
  <2>3. CASE Connect(c)
    BY <2>1, <2>2, <2>3 DEF Connect
  <2>4. CASE ClientSend(c)
    BY <2>1, <2>2, <2>4 DEF ClientSend
  <2>5. CASE ClientClose(c)
    BY <2>1, <2>2, <2>5 DEF ClientClose
  <2>6. CASE Expire(c)
    BY <2>1, <2>2, <2>6 DEF Expire
  <2> QED BY <2>3, <2>4, <2>5, <2>6 DEF ClientActs
<1>2. TypeOK'
  BY <1>1 DEF StopInv, TypeOK, SocketsTypeOK
<1>3. StopSteps'
  BY <1>1 DEF StopInv, StopSteps, Stopping, Listening, FreeFds
<1>4. StopDescriptors'
  <2>1. \A d \in Conns : Fresh(d)' = Fresh(d)
    BY <1>1 DEF Fresh
  <2>2. \A d \in Conns : on[d] \in Conns
    BY DEF StopInv, TypeOK
  <2> QED BY <1>1, <2>1, <2>2 DEF StopInv, StopDescriptors
<1>5. StopThreads'
  BY <1>1 DEF StopInv, StopThreads, Stopping, HandlersCleared, ThreadsCleared
<1> QED BY <1>2, <1>3, <1>4, <1>5 DEF StopInv
(*********************************************************************************)
(* The acceptor.                                                                 *)
(*********************************************************************************)
\* Steps of the acceptor that touch nothing but where it is and what accept returned.
LEMMA AcceptorGoes ==
  ASSUME StopInv, ~ dead, Acceptor, AcceptorLoop \/ AcceptFails \/ AcceptReturned
  PROVE  StopInv'
<1> USE DEF objVars, ctlVars, sockVars
<1>1. UNCHANGED <<sockVars, objVars, pc, dead, m_ServerSocket, m_Stop, arg, on, ctlVars>>
  BY DEF Acceptor, AcceptorLoop, AcceptFails, AcceptReturned
<1>2. /\ apc \in {"loop", "accept", "returned"}
      /\ apc' \in {"loop", "accept", "returned", "emplace", "done"} /\ asock' \in Fds \union {-1}
      /\ apc' = "emplace" => apc = "returned" /\ asock' = asock /\ asock' # -1
      /\ apc' = "returned" => asock' = -1
  <2>1. CASE AcceptorLoop
    BY <2>1 DEF AcceptorLoop, StopInv, TypeOK
  <2>2. CASE AcceptFails
    BY <2>2 DEF AcceptFails
  <2>3. CASE AcceptReturned
    <3>1. asock \in Fds \union {-1} /\ m_Stop \in BOOLEAN /\ asock' = asock /\ apc = "returned"
      BY <2>3 DEF AcceptReturned, StopInv, TypeOK
    <3>2. apc' = IF m_Stop THEN "done" ELSE IF asock = -1 THEN "loop" ELSE "emplace"
      BY <2>3, <3>1 DEF AcceptReturned
    <3> QED BY <3>1, <3>2
  <2> QED BY <2>1, <2>2, <2>3
<1>3. TypeOK'
  BY <1>1, <1>2 DEF StopInv, TypeOK, SocketsTypeOK
<1>4. StopSteps'
  BY <1>1, <1>2 DEF StopInv, StopSteps, Stopping, Listening, FreeFds
<1>5. StopDescriptors'
  BY <1>1, <1>2 DEF StopInv, StopDescriptors, Fresh
<1>6. StopThreads'
  BY <1>1, <1>2 DEF StopInv, StopThreads, HandlersCleared, ThreadsCleared
<1> QED BY <1>3, <1>4, <1>5, <1>6 DEF StopInv

\* accept returns: a free descriptor refers to a connection that nobody knew of.
LEMMA AcceptConnectionInv ==
  ASSUME StopInv, ~ dead, Acceptor, AcceptConnection
  PROVE  StopInv'
<1> USE DEF objVars, ctlVars
<1>1. /\ UNCHANGED <<client, sent, waiting, answers, objVars, pc, dead, m_ServerSocket, m_Stop,
                     arg, on, ctlVars>>
      /\ apc = "accept" /\ apc' = "returned" /\ asock' = LowestFd /\ Listening
      /\ LowestFd \in Fds /\ fdt[LowestFd] = "free" /\ LowestFd # -1
  BY LowestIsFree, SocketsAssumption DEF Acceptor, AcceptConnection, Fds
<1>2. PICK c \in Conns : /\ conn[c] = "backlog"
                         /\ fdt' = [fdt EXCEPT ![LowestFd] = c]
                         /\ conn' = [conn EXCEPT ![c] = "accepted"]
  BY DEF AcceptConnection, Backlog
<1>3. Fresh(c) /\ client[c] # "new"
  BY <1>2 DEF StopInv, StopDescriptors
<1>4. /\ fdt' \in [Fds -> Conns \union {"free", "listen"}]
      /\ conn' \in [Conns -> {"new", "backlog", "accepted", "lingering", "gone"}]
      /\ fdt'[LowestFd] = c /\ \A f \in Fds : f # LowestFd => fdt'[f] = fdt[f]
      /\ conn'[c] = "accepted" /\ \A d \in Conns : d # c => conn'[d] = conn[d]
      /\ c \notin {"free", "listen"}
  BY <1>1, <1>2, SocketsAssumption DEF StopInv, TypeOK, SocketsTypeOK
<1>5. \A d \in Conns : Fresh(d)' = Fresh(d)
  BY <1>1 DEF Fresh
<1>6. TypeOK'
  BY <1>1, <1>4 DEF StopInv, TypeOK, SocketsTypeOK
<1>7. StopSteps'
  <2>1. Listening'
    BY <1>1, <1>4 DEF Listening
  <2> QED BY <1>1, <1>4, <2>1 DEF StopInv, StopSteps, Stopping
<1>8. \A f \in Fds : \A d \in Conns : fdt[f] = d => fdt'[f] = d
  BY <1>1, <1>4, SocketsAssumption
<1>9. StopDescriptors'
  <2>1. \A d \in Conns : h_ClientSocket'[d] # -1 =>
          /\ alive'[d]
          /\ fdt'[h_ClientSocket'[d]] = d \/ (cpc' = "forget" /\ d = Head(todo'))
    <3> SUFFICES ASSUME NEW d \in Conns, h_ClientSocket[d] # -1
                 PROVE  alive[d] /\ (fdt'[h_ClientSocket[d]] = d \/ (cpc = "forget" /\ d = Head(todo)))
      BY <1>1
    <3>1. h_ClientSocket[d] \in Fds
      BY DEF StopInv, TypeOK
    <3>2. alive[d] /\ (fdt[h_ClientSocket[d]] = d \/ (cpc = "forget" /\ d = Head(todo)))
      BY DEF StopInv, StopDescriptors
    <3> QED BY <1>8, <3>1, <3>2
  <2>2. \A d \in Conns : pc'[d] = "blocked" => conn'[on'[d]] \notin {"new", "backlog"}
    BY <1>1, <1>4 DEF StopInv, TypeOK, StopDescriptors
  <2>3. \A d \in Conns : conn'[d] \in {"new", "backlog"} => Fresh(d)' /\ \A f \in Fds : fdt'[f] # d
    BY <1>4, <1>5 DEF StopInv, StopDescriptors
  <2>4. \A d \in Conns : client'[d] = "new" => conn'[d] = "new"
    BY <1>1, <1>3, <1>4 DEF StopInv, StopDescriptors
  <2>5. fdt'[asock'] \in Conns /\ Fresh(fdt[asock])'
    BY <1>1, <1>3, <1>4 DEF Fresh
  <2> QED BY <1>1, <2>1, <2>2, <2>3, <2>4, <2>5 DEF StopInv, StopDescriptors
<1>10. StopThreads'
  <2>1. \A d \in Conns : arg[d] # -1 /\ fdt[arg[d]] = d => fdt'[arg[d]] = d
    BY <1>8 DEF StopInv, TypeOK
  <2> QED BY <1>1, <2>1 DEF StopInv, StopThreads, HandlersCleared, ThreadsCleared
<1> QED BY <1>6, <1>7, <1>9, <1>10 DEF StopInv

\* The connection that was accepted gets its handler, in the middle of Stop or not.
LEMMA EmplaceHandlerInv ==
  ASSUME StopInv, ~ dead, Acceptor, EmplaceHandler
  PROVE  StopInv'
<1> USE DEF objVars, ctlVars, sockVars
<1> DEFINE c == fdt[asock]
<1>1. /\ UNCHANGED <<sockVars, m_ClientThreads, pc, asock, m_ServerSocket, m_Stop, arg, on, ctlVars>>
      /\ apc = "emplace" /\ apc' = "register"
  BY DEF Acceptor, EmplaceHandler
<1>2. asock \in Fds /\ asock # -1 /\ c \in Conns /\ Fresh(c) /\ conn[c] \notin {"new", "backlog"}
  BY <1>1 DEF StopInv, TypeOK, StopDescriptors
<1>3. dead' \in BOOLEAN /\ (dead' => Stopping)
  <2>1. dead' = FALSE \/ dead' = IteratesHandlers
    BY DEF EmplaceHandler
  <2>2. (cpc \in {"closing", "forget", "clearHandlers"}) \in BOOLEAN
    OBVIOUS
  <2>3. IteratesHandlers \in BOOLEAN
    BY <2>2 DEF IteratesHandlers
  <2>4. IteratesHandlers => Stopping
    BY DEF IteratesHandlers, Stopping
  <2>5. CASE dead' = FALSE
    BY <2>5
  <2>6. CASE dead' = IteratesHandlers
    BY <2>3, <2>4, <2>6, Zenon
  <2> QED BY <2>1, <2>5, <2>6
<1>4. /\ m_ClientHandlers' \in Seq(Conns) /\ m_ClientHandlers' # <<>>
      /\ ToSet(m_ClientHandlers') = ToSet(m_ClientHandlers) \union {c}
      /\ Last(m_ClientHandlers') = c
  BY <1>2, SetOfAppend, LastOfAppend DEF EmplaceHandler, StopInv, TypeOK
<1>5. /\ alive' \in [Conns -> BOOLEAN] /\ h_Stop' \in [Conns -> BOOLEAN]
      /\ h_ClientSocket' \in [Conns -> Fds \union {-1}]
      /\ alive'[c] /\ h_ClientSocket'[c] = asock
      /\ \A d \in Conns : d # c => alive'[d] = alive[d] /\ h_ClientSocket'[d] = h_ClientSocket[d]
  BY <1>2 DEF EmplaceHandler, StopInv, TypeOK
<1>6. fdt[asock] = c
  OBVIOUS
<1> HIDE DEF c
<1>7. TypeOK'
  BY <1>1, <1>3, <1>4, <1>5 DEF StopInv, TypeOK, SocketsTypeOK
<1>8. StopSteps'
  BY <1>1, <1>3 DEF StopInv, StopSteps, Stopping, Listening, FreeFds
<1>9. StopDescriptors'
  <2>1. \A d \in Conns : alive'[d] <=> d \in ToSet(m_ClientHandlers')
    BY <1>4, <1>5 DEF StopInv, StopDescriptors
  <2>2. \A d \in Conns : h_ClientSocket'[d] # -1 =>
          /\ alive'[d]
          /\ fdt'[h_ClientSocket'[d]] = d \/ (cpc' = "forget" /\ d = Head(todo'))
    BY <1>1, <1>5, <1>6 DEF StopInv, StopDescriptors
  <2>3. \A d \in Conns : d # c => Fresh(d)' = Fresh(d)
    BY <1>1, <1>5 DEF Fresh
  <2> QED BY <1>1, <1>2, <2>1, <2>2, <2>3 DEF StopInv, StopDescriptors
<1>10. StopThreads'
  <2>1. pc[c] = "none" /\ on[c] = c /\ ~ alive[c]
    BY <1>2 DEF Fresh
  <2> QED BY <1>1, <1>2, <1>4, <1>5, <2>1 DEF StopInv, StopThreads, HandlersCleared, ThreadsCleared
<1> QED BY <1>7, <1>8, <1>9, <1>10 DEF StopInv

\* The last handler gets a thread: the one that was just made, or, when Stop has cleared
\* the handlers in between, what back() of the empty vector does.
LEMMA EmplaceThreadInv ==
  ASSUME StopInv, ~ dead, Acceptor, EmplaceThread
  PROVE  StopInv'
<1> USE DEF objVars, ctlVars, sockVars
<1>1. /\ UNCHANGED <<sockVars, m_ClientHandlers, alive, h_ClientSocket, h_Stop, asock,
                     m_ServerSocket, m_Stop, arg, on, ctlVars>>
      /\ apc = "register" /\ apc' = "loop"
  BY DEF Acceptor, EmplaceThread
<1>2. CASE m_ClientHandlers = <<>>
  <2>1. dead' = TRUE /\ Stopping /\ UNCHANGED <<m_ClientThreads, pc>>
    BY <1>1, <1>2 DEF EmplaceThread, StopInv, StopThreads
  <2>2. TypeOK'
    BY <1>1, <2>1 DEF StopInv, TypeOK, SocketsTypeOK
  <2>3. StopSteps'
    BY <1>1, <2>1 DEF StopInv, StopSteps, Stopping, Listening, FreeFds
  <2>4. StopDescriptors'
    BY <1>1, <2>1 DEF StopInv, StopDescriptors, Fresh
  <2>5. StopThreads'
    BY <1>1, <2>1 DEF StopInv, StopThreads, HandlersCleared
  <2> QED BY <2>2, <2>3, <2>4, <2>5 DEF StopInv
<1>3. CASE m_ClientHandlers # <<>>
  <2> DEFINE c == Last(m_ClientHandlers)
  <2>1. /\ m_ClientThreads' = Append(m_ClientThreads, c)
        /\ pc' = [pc EXCEPT ![c] = "loop"] /\ dead' \in {FALSE, IteratesThreads}
    BY <1>3 DEF EmplaceThread
  <2>2. dead' \in BOOLEAN /\ (dead' => Stopping)
    <3>1. (cpc \in {"joining", "clearThreads"}) \in BOOLEAN
      OBVIOUS
    <3>2. IteratesThreads \in BOOLEAN
      BY <3>1 DEF IteratesThreads
    <3>3. IteratesThreads => Stopping
      BY DEF IteratesThreads, Stopping
    <3>4. dead' = FALSE \/ dead' = IteratesThreads
      BY <2>1
    <3>5. CASE dead' = FALSE
      BY <3>5
    <3>6. CASE dead' = IteratesThreads
      BY <3>2, <3>3, <3>6, Zenon
    <3> QED BY <3>4, <3>5, <3>6
  <2>3. c \in Conns /\ alive[c] /\ pc[c] = "none" /\ on[c] = c
    BY <1>1, <1>3, LastInSet DEF StopInv, TypeOK, StopDescriptors, StopThreads
  <2>4. /\ m_ClientThreads' \in Seq(Conns)
        /\ ToSet(m_ClientThreads') = ToSet(m_ClientThreads) \union {c}
    BY <2>1, <2>3, SetOfAppend DEF StopInv, TypeOK
  <2>5. /\ pc' \in [Conns -> {"none", "loop", "recv", "blocked", "handle", "send", "done"}]
        /\ pc'[c] = "loop" /\ \A d \in Conns : d # c => pc'[d] = pc[d]
    BY <2>1, <2>3 DEF StopInv, TypeOK
  <2> HIDE DEF c
  <2>6. TypeOK'
    BY <1>1, <2>2, <2>4, <2>5 DEF StopInv, TypeOK, SocketsTypeOK
  <2>7. StopSteps'
    BY <1>1, <2>2 DEF StopInv, StopSteps, Stopping, Listening, FreeFds
  <2>8. StopDescriptors'
    <3>1. \A d \in Conns : Fresh(d) => Fresh(d)'
      BY <1>1, <2>3, <2>5 DEF Fresh
    <3>2. \A d \in Conns : pc'[d] = "blocked" => pc[d] = "blocked"
      BY <2>5
    <3> QED BY <1>1, <3>1, <3>2 DEF StopInv, StopDescriptors
  <2>9. StopThreads'
    BY <1>1, <2>3, <2>4, <2>5 DEF StopInv, StopThreads, HandlersCleared, ThreadsCleared
  <2> QED BY <2>6, <2>7, <2>8, <2>9 DEF StopInv
<1> QED BY <1>2, <1>3

LEMMA AcceptorInv ==
  ASSUME StopInv, ~ dead, Acceptor PROVE StopInv'
  BY AcceptorGoes, AcceptConnectionInv, EmplaceHandlerInv, EmplaceThreadInv DEF Acceptor
(*********************************************************************************)
(* The controlling thread.                                                       *)
(*********************************************************************************)
\* Without an acceptor nobody listens, and a descriptor is free.
LEMMA NoListener ==
  ASSUME StopInv, apc = "none"
  PROVE  /\ \A f \in Fds : fdt[f] # "listen"
         /\ LowestFd \in Fds /\ fdt[LowestFd] = "free" /\ LowestFd \in -1 .. MaxFd
<1>1. \A f \in Fds : fdt[f] # "listen"
  BY DEF StopInv, StopSteps
<1>2. FreeFds # {}
  BY <1>1 DEF StopInv, StopSteps, Listening
<1> QED BY <1>1, <1>2, LowestIsFree, SocketsAssumption DEF Fds

\* Steps that touch no descriptor and no object: Stop goes on to the next of its loops,
\* an operation begins or returns, Start finds the server running or throws.
LEMMA ControllerGoes ==
  ASSUME StopInv, ~ dead, Controller,
         \/ BeginStart \/ StartRunning \/ StartThrows \/ BeginStop
         \/ HandlersStopped \/ HandlersJoined \/ SetStop \/ JoinAcceptor
  PROVE  StopInv'
<1> USE DEF objVars, sockVars
<1>1. /\ UNCHANGED <<sockVars, objVars, pc, dead, arg, on, asock>>
      /\ m_Stop' \in BOOLEAN /\ threw' \in BOOLEAN
  BY DEF Controller, BeginStart, StartRunning, StartThrows, BeginStop, HandlersStopped,
     HandlersJoined, SetStop, JoinAcceptor, GoTo, Returns, Loop, StopInv, TypeOK
<1>2. /\ todo' \in Seq(Conns)
      /\ (cpc' = "idle" /\ ip' = ip + 1 /\ ip <= Len(Script)) \/ (ip' = ip /\ ip <= Len(Script))
  BY DEF BeginStart, StartRunning, StartThrows, BeginStop, HandlersStopped, HandlersJoined,
     SetStop, JoinAcceptor, GoTo, Returns, Loop, Fetches, StopInv, TypeOK, StopSteps
<1>3. ip \in Nat /\ ip' \in 1 .. Len(Script) + 1 /\ (cpc' # "idle" => ip' <= Len(Script))
  BY <1>2, ServerAssumption DEF StopInv, TypeOK
<1>4. /\ cpc' \in {"idle", "start", "closing", "joining", "clearHandlers", "closeListener"}
      /\ cpc # "forget"
      /\ HandlersCleared' => HandlersCleared
      /\ ThreadsCleared' => ThreadsCleared
      /\ Stopping => Stopping' \/ apc \in {"none", "done"}
  BY DEF BeginStart, StartRunning, StartThrows, BeginStop, HandlersStopped, HandlersJoined,
     SetStop, JoinAcceptor, GoTo, Returns, Loop, Fetches, HandlersCleared, ThreadsCleared, Stopping
<1>5. /\ apc' = apc \/ apc' = "none"
      /\ m_ServerSocket' \in -1 .. MaxFd
      /\ \A f \in Fds : fdt[f] = "listen" =>
           f = m_ServerSocket' /\ apc' # "none" /\ cpc' # "joinAcceptor"
  <2>1. CASE StartThrows
    BY <2>1, NoListener DEF StartThrows, Joinable
  <2>2. CASE JoinAcceptor
    BY <2>2 DEF JoinAcceptor, StopInv, TypeOK, StopSteps
  <2>3. CASE ~ StartThrows /\ ~ JoinAcceptor
    <3>1. apc' = apc /\ m_ServerSocket' = m_ServerSocket
      BY <2>3 DEF BeginStart, StartRunning, BeginStop, HandlersStopped, HandlersJoined, SetStop
    <3> QED BY <1>4, <3>1 DEF StopInv, TypeOK, StopSteps
  <2> QED BY <2>1, <2>2, <2>3
<1>6. TypeOK'
  BY <1>1, <1>2, <1>3, <1>4, <1>5 DEF StopInv, TypeOK, SocketsTypeOK
<1>7. StopSteps'
  BY <1>1, <1>3, <1>4, <1>5 DEF StopInv, StopSteps, Stopping, Listening, FreeFds
<1>8. StopDescriptors'
  BY <1>1, <1>4, <1>5 DEF StopInv, StopDescriptors, Fresh
<1>9. StopThreads'
  BY <1>1, <1>4, <1>5 DEF StopInv, StopThreads
<1> QED BY <1>6, <1>7, <1>8, <1>9 DEF StopInv

\* Start listens on a descriptor that was free.
LEMMA StartListensInv ==
  ASSUME StopInv, ~ dead, Controller, StartListens
  PROVE  StopInv'
<1> USE DEF objVars
<1>1. /\ UNCHANGED <<conn, client, sent, waiting, answers, objVars, pc, dead, arg, on, asock,
                     todo, threw>>
      /\ cpc = "start" /\ cpc' = "idle" /\ ip' = ip + 1 /\ apc = "none" /\ apc' = "loop"
      /\ m_Stop' = FALSE /\ m_ServerSocket' = LowestFd
      /\ fdt' = [fdt EXCEPT ![LowestFd] = "listen"]
  BY DEF Controller, StartListens, Joinable, Returns
<1>2. /\ \A f \in Fds : fdt[f] # "listen"
      /\ LowestFd \in Fds /\ fdt[LowestFd] = "free" /\ LowestFd \in -1 .. MaxFd
  BY <1>1, NoListener
<1>3. ip \in Nat /\ ip' \in 1 .. Len(Script) + 1
  BY <1>1, ServerAssumption DEF StopInv, TypeOK, StopSteps
<1>4. /\ fdt' \in [Fds -> Conns \union {"free", "listen"}]
      /\ fdt'[LowestFd] = "listen" /\ \A f \in Fds : f # LowestFd => fdt'[f] = fdt[f]
  BY <1>1, <1>2 DEF StopInv, TypeOK, SocketsTypeOK
<1>5. \A f \in Fds : \A d \in Conns : fdt'[f] = d <=> fdt[f] = d
  BY <1>2, <1>4, SocketsAssumption
<1>6. TypeOK'
  BY <1>1, <1>2, <1>3, <1>4 DEF StopInv, TypeOK, SocketsTypeOK
<1>7. StopSteps'
  BY <1>1, <1>2, <1>4 DEF StopInv, StopSteps, Stopping, Listening
<1>8. StopDescriptors'
  BY <1>1, <1>5 DEF StopInv, TypeOK, StopDescriptors, Fresh
<1>9. StopThreads'
  BY <1>1, <1>5 DEF StopInv, TypeOK, StopThreads, HandlersCleared, ThreadsCleared
<1> QED BY <1>6, <1>7, <1>8, <1>9 DEF StopInv
\* Closing descriptors of connections that have a handler: the others keep what they
\* refer to, and no connection becomes new.
LEMMA Closes ==
  ASSUME StopInv, NEW F \in SUBSET Fds,
         \A f \in F : fdt[f] \in Conns /\ alive[fdt[f]],
         Close(F, BlockedOn(None))
  PROVE  /\ UNCHANGED <<client, sent, waiting, answers>>
         /\ SocketsTypeOK'
         /\ \A f \in Fds : fdt'[f] = IF f \in F THEN "free" ELSE fdt[f]
         /\ \A d \in Conns : \/ conn'[d] = conn[d]
                             \/ /\ conn[d] \notin {"new", "backlog"}
                                /\ conn'[d] \notin {"new", "backlog"}
         /\ Listening' \/ FreeFds' # {}
<1>1. /\ UNCHANGED <<client, sent, waiting, answers>>
      /\ fdt' = [f \in Fds |-> IF f \in F THEN "free" ELSE fdt[f]]
      /\ conn' = [c \in Conns |-> IF (\E f \in F : fdt[f] = c) /\ c \notin BlockedOn(None)
                                  THEN Remains(c, sent[c]) ELSE conn[c]]
  BY DEF Close
<1>2. SocketsTypeOK'
  BY <1>1 DEF StopInv, TypeOK, SocketsTypeOK, Remains
<1>3. \A f \in Fds : fdt'[f] = IF f \in F THEN "free" ELSE fdt[f]
  BY <1>1
<1>4. ASSUME NEW d \in Conns
      PROVE  \/ conn'[d] = conn[d]
             \/ conn[d] \notin {"new", "backlog"} /\ conn'[d] \notin {"new", "backlog"}
  <2>1. CASE (\E f \in F : fdt[f] = d) /\ d \notin BlockedOn(None)
    <3>1. alive[d]
      BY <2>1
    <3>2. conn[d] \notin {"new", "backlog"}
      BY <3>1 DEF StopInv, StopDescriptors, Fresh
    <3> QED BY <1>1, <2>1, <3>2 DEF Remains
  <2>2. CASE ~ ((\E f \in F : fdt[f] = d) /\ d \notin BlockedOn(None))
    BY <1>1, <2>2
  <2> QED BY <2>1, <2>2
<1>5. Listening' \/ FreeFds' # {}
  <2>1. CASE F = {}
    BY <1>3, <2>1 DEF StopInv, StopSteps, Listening, FreeFds
  <2>2. CASE F # {}
    BY <1>3, <2>2 DEF FreeFds
  <2> QED BY <2>1, <2>2
<1> QED BY <1>1, <1>2, <1>3, <1>4, <1>5

\* A handler is told to stop, and its descriptor is closed: the one of its connection,
\* which the acceptor may give to another before it is forgotten.
LEMMA StopHandlerInv ==
  ASSUME StopInv, ~ dead, Controller, StopHandler
  PROVE  StopInv'
<1> USE DEF objVars
<1> DEFINE c == Head(todo)
           g == h_ClientSocket[c]
<1>1. /\ UNCHANGED <<m_ServerSocket, m_Stop, m_ClientHandlers, m_ClientThreads, alive,
                     h_ClientSocket, pc, apc, dead, arg, on, asock, ip, threw>>
      /\ cpc = "closing" /\ cpc' \in {"closing", "forget"}
      /\ todo # <<>> /\ h_Stop' = [h_Stop EXCEPT ![c] = TRUE]
  BY DEF Controller, StopHandler, Visited, GoTo
<1>2. c \in Conns /\ todo \in Seq(Conns) /\ Tail(todo) \in Seq(Conns)
  BY <1>1, HeadTailProperties DEF StopInv, TypeOK
<1>3. h_Stop' \in [Conns -> BOOLEAN]
  BY <1>1 DEF StopInv, TypeOK
<1>4. StopThreads'
  <2>1. ~ HandlersCleared' /\ ~ ThreadsCleared' /\ Stopping'
    BY <1>1 DEF HandlersCleared, ThreadsCleared, Stopping
  <2> QED BY <1>1, <2>1 DEF StopInv, StopThreads
<1> HIDE DEF c, g
<1>5. CASE g = -1
  <2>1. cpc' = "closing" /\ todo' = Tail(todo) /\ UNCHANGED sockVars
    BY <1>1, <1>5 DEF StopHandler, Visited, c, g
  <2> USE DEF sockVars
  <2>2. TypeOK'
    BY <1>1, <1>2, <1>3, <2>1 DEF StopInv, TypeOK, SocketsTypeOK
  <2>3. StopSteps'
    BY <1>1, <2>1 DEF StopInv, StopSteps, Stopping, Listening, FreeFds
  <2>4. StopDescriptors'
    BY <1>1, <2>1 DEF StopInv, StopDescriptors, Fresh
  <2> QED BY <1>4, <2>2, <2>3, <2>4 DEF StopInv
<1>6. CASE g # -1
  <2>1. /\ cpc' = "forget" /\ todo' = todo /\ Close({g}, BlockedOn(None))
    BY <1>1, <1>6 DEF StopHandler, GoTo, c, g
  <2>2. alive[c] /\ g \in Fds /\ fdt[g] = c
    BY <1>1, <1>2, <1>6 DEF StopInv, TypeOK, StopDescriptors, g
  <2>3. /\ UNCHANGED <<client, sent, waiting, answers>> /\ SocketsTypeOK'
        /\ fdt'[g] = "free" /\ \A f \in Fds : f # g => fdt'[f] = fdt[f]
        /\ \A d \in Conns : \/ conn'[d] = conn[d]
                            \/ /\ conn[d] \notin {"new", "backlog"}
                               /\ conn'[d] \notin {"new", "backlog"}
        /\ Listening' \/ FreeFds' # {}
    <3> DEFINE F == {g}
    <3>1. F \in SUBSET Fds /\ Close(F, BlockedOn(None))
          /\ \A f \in F : fdt[f] \in Conns /\ alive[fdt[f]]
      BY <1>2, <2>1, <2>2
    <3>2. g \in F /\ \A f \in Fds : f # g => f \notin F
      OBVIOUS
    <3> HIDE DEF F
    <3> QED BY <2>2, <3>1, <3>2, Closes
  <2>4. TypeOK'
    BY <1>1, <1>2, <1>3, <2>1, <2>3 DEF StopInv, TypeOK
  <2>5. StopSteps'
    <3>1. \A f \in Fds : fdt'[f] = "listen" => fdt[f] = "listen"
      BY <2>3
    <3> QED BY <1>1, <2>1, <2>3, <3>1 DEF StopInv, StopSteps, Stopping
  <2>6. StopDescriptors'
    <3>1. \A d \in Conns : Fresh(d)' = Fresh(d)
      BY <1>1 DEF Fresh
    <3>2. \A d \in Conns : h_ClientSocket[d] # -1 =>
            alive[d] /\ (fdt'[h_ClientSocket[d]] = d \/ d = c)
      BY <1>1, <2>2, <2>3 DEF StopInv, TypeOK, StopDescriptors
    <3>3. apc \in {"returned", "emplace"} /\ asock # -1 =>
            fdt'[asock] = fdt[asock]
      BY <2>2, <2>3 DEF StopInv, TypeOK, StopDescriptors, Fresh
    <3>4. \A d \in Conns : conn'[d] \in {"new", "backlog"} =>
            Fresh(d)' /\ \A f \in Fds : fdt'[f] # d
      BY <2>2, <2>3, <3>1, SocketsAssumption DEF StopInv, StopDescriptors
    <3>5. \A d \in Conns : client'[d] = "new" => conn'[d] = "new"
      BY <2>3 DEF StopInv, StopDescriptors
    <3>6. \A d \in Conns : pc'[d] = "blocked" => conn'[on'[d]] \notin {"new", "backlog"}
      BY <1>1, <2>3 DEF StopInv, TypeOK, StopDescriptors
    <3> QED BY <1>1, <2>1, <3>1, <3>2, <3>3, <3>4, <3>5, <3>6 DEF StopInv, StopDescriptors, c
  <2> QED BY <1>4, <2>4, <2>5, <2>6 DEF StopInv
<1> QED BY <1>5, <1>6

\* The descriptor that was closed is forgotten.
LEMMA ForgetSocketInv ==
  ASSUME StopInv, ~ dead, Controller, ForgetSocket
  PROVE  StopInv'
<1> USE DEF objVars, sockVars
<1> DEFINE c == Head(todo)
<1>1. /\ UNCHANGED <<sockVars, m_ServerSocket, m_Stop, m_ClientHandlers, m_ClientThreads, alive,
                     h_Stop, pc, apc, dead, arg, on, asock, ip, threw>>
      /\ cpc = "forget" /\ cpc' = "closing" /\ todo' = Tail(todo)
      /\ h_ClientSocket' = [h_ClientSocket EXCEPT ![c] = -1]
  BY DEF Controller, ForgetSocket, Visited
<1>2. c \in Conns /\ todo' \in Seq(Conns)
  BY <1>1, HeadTailProperties DEF StopInv, TypeOK, StopSteps
<1>3. /\ h_ClientSocket' \in [Conns -> Fds \union {-1}]
      /\ h_ClientSocket'[c] = -1
      /\ \A d \in Conns : d # c => h_ClientSocket'[d] = h_ClientSocket[d]
  BY <1>1, <1>2 DEF StopInv, TypeOK
<1>4. TypeOK'
  BY <1>1, <1>2, <1>3 DEF StopInv, TypeOK, SocketsTypeOK
<1>5. StopSteps'
  BY <1>1 DEF StopInv, StopSteps, Stopping, Listening, FreeFds
<1>6. StopDescriptors'
  BY <1>1, <1>3 DEF StopInv, StopDescriptors, Fresh
<1>7. StopThreads'
  <2>1. ~ HandlersCleared' /\ ~ ThreadsCleared' /\ Stopping'
    BY <1>1 DEF HandlersCleared, ThreadsCleared, Stopping
  <2> QED BY <1>1, <2>1 DEF StopInv, StopThreads
<1> QED BY <1>4, <1>5, <1>6, <1>7 DEF StopInv

\* A thread that is done is joined.
LEMMA JoinHandlerInv ==
  ASSUME StopInv, ~ dead, Controller, JoinHandler
  PROVE  StopInv'
<1> USE DEF objVars, sockVars
<1> DEFINE c == Head(todo)
<1>1. /\ UNCHANGED <<cpc, sockVars, m_ServerSocket, m_Stop, objVars, apc, dead, arg, on, asock,
                     ip, threw>>
      /\ cpc = "joining" /\ todo # <<>> /\ todo' = Tail(todo)
      /\ pc[c] = "done" /\ pc' = [pc EXCEPT ![c] = "none"]
  BY DEF Controller, JoinHandler, Visited
<1>2. c \in Conns /\ todo' \in Seq(Conns)
  BY <1>1, HeadTailProperties DEF StopInv, TypeOK
<1>3. /\ pc' \in [Conns -> {"none", "loop", "recv", "blocked", "handle", "send", "done"}]
      /\ \A d \in Conns : pc'[d] = pc[d] \/ pc'[d] = "none"
  BY <1>1, <1>2 DEF StopInv, TypeOK
<1>4. TypeOK'
  BY <1>1, <1>2, <1>3 DEF StopInv, TypeOK, SocketsTypeOK
<1>5. StopSteps'
  BY <1>1 DEF StopInv, StopSteps, Stopping, Listening, FreeFds
<1>6. StopDescriptors'
  <2>1. \A d \in Conns : Fresh(d) => Fresh(d)'
    BY <1>1, <1>3 DEF Fresh
  <2>2. \A d \in Conns : pc'[d] = "blocked" => pc[d] = "blocked"
    BY <1>3
  <2> QED BY <1>1, <2>1, <2>2 DEF StopInv, StopDescriptors
<1>7. StopThreads'
  <2>1. ~ HandlersCleared' /\ ~ ThreadsCleared' /\ Stopping'
    BY <1>1 DEF HandlersCleared, ThreadsCleared, Stopping
  <2>2. m_ClientHandlers # <<>> => Last(m_ClientHandlers) \in Conns
    BY LastInSet DEF StopInv, TypeOK
  <2> QED BY <1>1, <1>3, <2>1, <2>2 DEF StopInv, StopThreads
<1> QED BY <1>4, <1>5, <1>6, <1>7 DEF StopInv
\* The handlers are destroyed, with the threads that the acceptor has added behind Stop's
\* back still running: what their destructors close is their own.
LEMMA ClearHandlersInv ==
  ASSUME StopInv, ~ dead, Controller, ClearHandlers
  PROVE  StopInv'
<1> USE DEF objVars
<1> DEFINE F == {h_ClientSocket[c] : c \in ToSet(m_ClientHandlers)} \ {-1}
<1>1. /\ UNCHANGED <<m_ServerSocket, m_Stop, m_ClientThreads, pc, apc, dead, arg, on, asock,
                     ip, todo, threw>>
      /\ cpc = "clearHandlers" /\ cpc' = "clearThreads" /\ m_ClientHandlers' = <<>>
      /\ Close(F, BlockedOn(None))
  BY DEF Controller, ClearHandlers, GoTo
<1>2. \A c \in Conns : c \in ToSet(m_ClientHandlers) <=> alive[c]
  BY DEF StopInv, StopDescriptors
<1>3. ToSet(m_ClientHandlers) \subseteq Conns
  BY DEF StopInv, TypeOK, ToSet
<1>4. /\ alive' \in [Conns -> BOOLEAN] /\ \A c \in Conns : ~ alive'[c]
      /\ h_Stop' \in [Conns -> BOOLEAN]
      /\ h_ClientSocket' \in [Conns -> Fds \union {-1}]
      /\ \A c \in Conns : h_ClientSocket'[c] = -1
  BY <1>2 DEF ClearHandlers, StopInv, TypeOK, StopDescriptors
<1>5. \A f \in F : f \in Fds /\ fdt[f] \in Conns /\ alive[fdt[f]]
  <2> SUFFICES ASSUME NEW c \in ToSet(m_ClientHandlers), h_ClientSocket[c] # -1
               PROVE  LET f == h_ClientSocket[c] IN
                        f \in Fds /\ fdt[f] \in Conns /\ alive[fdt[f]]
    OBVIOUS
  <2>1. c \in Conns /\ alive[c]
    BY <1>2, <1>3
  <2> QED BY <1>1, <2>1 DEF StopInv, TypeOK, StopDescriptors
<1> HIDE DEF F
<1>6. /\ UNCHANGED <<client, sent, waiting, answers>> /\ SocketsTypeOK'
      /\ \A f \in Fds : fdt'[f] = IF f \in F THEN "free" ELSE fdt[f]
      /\ \A d \in Conns : \/ conn'[d] = conn[d]
                          \/ /\ conn[d] \notin {"new", "backlog"}
                             /\ conn'[d] \notin {"new", "backlog"}
      /\ Listening' \/ FreeFds' # {}
  BY <1>1, <1>5, Closes
<1>7. TypeOK'
  BY <1>1, <1>4, <1>6 DEF StopInv, TypeOK
<1>8. StopSteps'
  <2>1. \A f \in Fds : fdt'[f] = "listen" => fdt[f] = "listen"
    BY <1>6
  <2> QED BY <1>1, <1>6, <2>1 DEF StopInv, StopSteps, Stopping
<1>9. StopDescriptors'
  <2>1. \A d \in Conns : Fresh(d) => Fresh(d)'
    BY <1>1, <1>4 DEF Fresh
  <2>2. apc \in {"returned", "emplace"} /\ asock # -1 => fdt'[asock] = fdt[asock]
    BY <1>5, <1>6 DEF StopInv, TypeOK, StopDescriptors, Fresh
  <2>3. \A d \in Conns : conn'[d] \in {"new", "backlog"} => Fresh(d)' /\ \A f \in Fds : fdt'[f] # d
    BY <1>6, <2>1, SocketsAssumption DEF StopInv, StopDescriptors
  <2>4. \A d \in Conns : client'[d] = "new" => conn'[d] = "new"
    BY <1>6 DEF StopInv, StopDescriptors
  <2>5. \A d \in Conns : pc'[d] = "blocked" => conn'[on'[d]] \notin {"new", "backlog"}
    BY <1>1, <1>6 DEF StopInv, TypeOK, StopDescriptors
  <2> QED BY <1>1, <1>4, <2>1, <2>2, <2>3, <2>4, <2>5, SetOfEmpty DEF StopInv, StopDescriptors
<1>10. StopThreads'
  <2>1. ~ ThreadsCleared' /\ Stopping'
    BY <1>1 DEF ThreadsCleared, Stopping
  <2> QED BY <1>1, <1>4, <2>1 DEF StopInv, StopThreads
<1> QED BY <1>7, <1>8, <1>9, <1>10 DEF StopInv

\* The threads are destroyed: either all were joined, or the process dies.
LEMMA ClearThreadsInv ==
  ASSUME StopInv, ~ dead, Controller, ClearThreads
  PROVE  StopInv'
<1> USE DEF objVars, sockVars
<1>1. /\ UNCHANGED <<sockVars, m_ServerSocket, m_Stop, m_ClientHandlers, alive, h_ClientSocket,
                     h_Stop, pc, apc, arg, on, asock, ip, todo, threw>>
      /\ cpc = "clearThreads" /\ cpc' = "setStop" /\ m_ClientThreads' = <<>>
      /\ dead' = \E c \in ToSet(m_ClientThreads) : pc[c] # "none"
  BY DEF Controller, ClearThreads, GoTo
<1>2. dead' \in BOOLEAN
  <2>1. (\E c \in ToSet(m_ClientThreads) : pc[c] # "none") \in BOOLEAN
    OBVIOUS
  <2> QED BY <1>1, <2>1, Zenon
<1>3. ~ dead' => \A c \in Conns : pc[c] = "none"
  <2>1. ~ dead' => \A c \in ToSet(m_ClientThreads) : pc[c] = "none"
    BY <1>1, Zenon
  <2> QED BY <2>1 DEF StopInv, StopThreads
<1>4. TypeOK'
  BY <1>1, <1>2 DEF StopInv, TypeOK, SocketsTypeOK
<1>5. StopSteps'
  BY <1>1, <1>2 DEF StopInv, StopSteps, Stopping, Listening, FreeFds
<1>6. StopDescriptors'
  BY <1>1 DEF StopInv, StopDescriptors, Fresh
<1>7. StopThreads'
  <2>1. Stopping'
    BY <1>1 DEF Stopping
  <2>2. apc = "register" /\ m_ClientHandlers # <<>> =>
          /\ pc[Last(m_ClientHandlers)] = "none"
          /\ on[Last(m_ClientHandlers)] = Last(m_ClientHandlers)
    BY DEF StopInv, StopThreads
  <2>3. \A c \in Conns : alive[c] => h_ClientSocket[c] # -1
    BY <1>1 DEF StopInv, StopThreads, HandlersCleared
  <2> QED BY <1>1, <1>3, <2>1, <2>2, <2>3 DEF StopThreads
<1> QED BY <1>4, <1>5, <1>6, <1>7 DEF StopInv

\* The listener is closed, and what has not been accepted is reset.  A stale number in
\* m_ServerSocket closes nothing.
LEMMA CloseServerSocketInv ==
  ASSUME StopInv, ~ dead, Controller, CloseServerSocket
  PROVE  StopInv'
<1> USE DEF objVars, sockVars
<1>1. /\ UNCHANGED <<client, sent, waiting, answers, m_Stop, objVars, pc, apc, dead, arg, on,
                     asock, ip, todo, threw>>
      /\ cpc = "closeListener" /\ cpc' = "joinAcceptor" /\ m_ServerSocket' = -1
  BY DEF Controller, CloseServerSocket, CloseListener, GoTo
<1>2. \A f \in Fds : fdt[f] = "listen" => f = m_ServerSocket
  BY DEF StopInv, StopSteps
<1>3. /\ fdt' \in [Fds -> Conns \union {"free", "listen"}]
      /\ conn' \in [Conns -> {"new", "backlog", "accepted", "lingering", "gone"}]
      /\ \A f \in Fds : fdt'[f] = IF fdt[f] = "listen" THEN "free" ELSE fdt[f]
      /\ \A d \in Conns : conn'[d] = conn[d] \/ (conn[d] = "backlog" /\ conn'[d] = "gone")
  <2>1. /\ fdt \in [Fds -> Conns \union {"free", "listen"}]
        /\ conn \in [Conns -> {"new", "backlog", "accepted", "lingering", "gone"}]
    BY DEF StopInv, TypeOK, SocketsTypeOK
  <2>2. CASE m_ServerSocket \in Fds /\ fdt[m_ServerSocket] = "listen"
    <3>1. CloseListener(m_ServerSocket)
      BY <2>2 DEF CloseServerSocket
    <3> QED BY <1>2, <2>1, <2>2, <3>1 DEF CloseListener
  <2>3. CASE ~ (m_ServerSocket \in Fds /\ fdt[m_ServerSocket] = "listen")
    <3>1. fdt' = fdt /\ conn' = conn
      BY <2>3 DEF CloseServerSocket
    <3> QED BY <1>2, <2>1, <2>3, <3>1
  <2> QED BY <2>2, <2>3
<1>4. \A f \in Fds : \A d \in Conns : fdt'[f] = d <=> fdt[f] = d
  BY <1>3, SocketsAssumption
<1>5. TypeOK'
  <2>1. -1 \in -1 .. MaxFd
    BY SocketsAssumption
  <2> QED BY <1>1, <1>3, <2>1 DEF StopInv, TypeOK, SocketsTypeOK
<1>6. StopSteps'
  <2>1. \A f \in Fds : fdt'[f] # "listen"
    BY <1>3
  <2>2. FreeFds' # {}
    BY <1>3 DEF StopInv, StopSteps, Listening, FreeFds
  <2> QED BY <1>1, <2>1, <2>2 DEF StopInv, StopSteps, Stopping
<1>7. StopDescriptors'
  <2>1. \A d \in Conns : Fresh(d)' = Fresh(d)
    BY <1>1 DEF Fresh
  <2>2. \A d \in Conns : client'[d] = "new" => conn'[d] = "new"
    BY <1>1, <1>3 DEF StopInv, StopDescriptors
  <2>3. \A d \in Conns : conn'[d] \in {"new", "backlog"} => Fresh(d)' /\ \A f \in Fds : fdt'[f] # d
    BY <1>3, <1>4, <2>1 DEF StopInv, StopDescriptors
  <2>4. \A d \in Conns : pc'[d] = "blocked" => conn'[on'[d]] \notin {"new", "backlog"}
    BY <1>1, <1>3 DEF StopInv, TypeOK, StopDescriptors
  <2>5. \A d \in Conns : h_ClientSocket[d] # -1 => alive[d] /\ fdt'[h_ClientSocket[d]] = d
    BY <1>1, <1>4 DEF StopInv, TypeOK, StopDescriptors
  <2>6. apc \in {"returned", "emplace"} /\ asock # -1 =>
          fdt'[asock] \in Conns /\ fdt'[asock] = fdt[asock] /\ Fresh(fdt[asock])
    BY <1>4 DEF StopInv, TypeOK, StopDescriptors
  <2> QED BY <1>1, <2>1, <2>2, <2>3, <2>4, <2>5, <2>6 DEF StopInv, StopDescriptors
<1>8. StopThreads'
  <2>1. \A d \in Conns : arg[d] # -1 /\ fdt[arg[d]] = d => fdt'[arg[d]] = d
    BY <1>4 DEF StopInv, TypeOK
  <2>2. HandlersCleared /\ ThreadsCleared /\ Stopping'
    BY <1>1 DEF HandlersCleared, ThreadsCleared, Stopping
  <2> QED BY <1>1, <2>1, <2>2 DEF StopInv, StopThreads
<1> QED BY <1>5, <1>6, <1>7, <1>8 DEF StopInv

LEMMA ControllerInv ==
  ASSUME StopInv, ~ dead, Controller PROVE StopInv'
  BY ControllerGoes, StartListensInv, StopHandlerInv, ForgetSocketInv, JoinHandlerInv,
     ClearHandlersInv, ClearThreadsInv, CloseServerSocketInv DEF Controller
(*********************************************************************************)
(* The theorems.                                                                 *)
(*********************************************************************************)
LEMMA InitInv == Init => StopInv
<1> SUFFICES ASSUME Init PROVE StopInv
  OBVIOUS
<1> USE DEF Init, SocketsInit
<1>1. TypeOK
  <2>1. 0 \in -1 .. MaxFd /\ 1 \in 1 .. Len(Script) + 1
    BY SocketsAssumption, ServerAssumption
  <2>2. SocketsTypeOK
    BY DEF SocketsTypeOK
  <2>3. <<>> \in Seq(Conns)
    OBVIOUS
  <2> QED BY <2>1, <2>2, <2>3 DEF TypeOK
<1>2. StopSteps
  <2>1. 1 \in Fds /\ fdt[1] = "free"
    BY SocketsAssumption DEF Fds
  <2> QED BY <2>1 DEF StopSteps, FreeFds
<1>3. StopDescriptors
  BY SetOfEmpty, SocketsAssumption DEF StopDescriptors, Fresh
<1>4. StopThreads
  BY DEF StopThreads
<1> QED BY <1>1, <1>2, <1>3, <1>4 DEF StopInv

LEMMA NextInv ==
  ASSUME StopInv, [Next]_vars PROVE StopInv'
<1>1. CASE Next
  BY <1>1, HandlerThreadInv, ClientInv, AcceptorInv, ControllerInv DEF Next
<1>2. CASE UNCHANGED vars
  <2> USE <1>2 DEF vars, sockVars, objVars, thrVars, accVars, ctlVars
  <2>1. TypeOK'
    BY DEF StopInv, TypeOK, SocketsTypeOK
  <2>2. StopSteps'
    BY DEF StopInv, StopSteps, Stopping, Listening, FreeFds
  <2>3. StopDescriptors'
    BY DEF StopInv, StopDescriptors, Fresh
  <2>4. StopThreads'
    BY DEF StopInv, StopThreads, Stopping, HandlersCleared, ThreadsCleared
  <2> QED BY <2>1, <2>2, <2>3, <2>4 DEF StopInv
<1> QED BY <1>1, <1>2

\* Whenever Stop is called, and whatever the acceptor does behind its back: descriptors,
\* handlers and threads stay tied to each other as far as Stop has not torn them apart.
THEOREM StopInvariance == Spec => []StopInv
<1>1. Init => StopInv
  BY InitInv
<1>2. StopInv /\ [Next]_vars => StopInv'
  BY NextInv
<1> QED BY <1>1, <1>2, PTL DEF Spec

\* Every variable keeps its type, whenever Server::Stop is called.
THEOREM TypeCorrect == Spec => []TypeOK
<1>1. StopInv => TypeOK
  BY DEF StopInv
<1> QED BY <1>1, StopInvariance, PTL

\* A server that has come through Server::Stop was not terminated, and no thread of it
\* uses a handler that was destroyed or a descriptor that is not its own.
THEOREM SoundAfterStop == Spec => []SoundBetweenStops
<1>1. StopInv => SoundBetweenStops
  <2> SUFFICES ASSUME StopInv, ~ Stopping PROVE SoundBetweenStops
    BY DEF SoundBetweenStops
  <2>1. HandlersCleared /\ ThreadsCleared /\ cpc # "forget"
    BY DEF Stopping, HandlersCleared, ThreadsCleared
  <2>2. ~ dead
    BY DEF StopInv, StopSteps
  <2>3. ASSUME NEW c \in Conns, Runs(c)
        PROVE  alive[c] /\ h_ClientSocket[c] # -1 /\ fdt[h_ClientSocket[c]] = c
    BY <2>1, <2>2, <2>3 DEF Runs, StopInv, StopThreads, StopDescriptors
  <2> QED BY <2>2, <2>3 DEF SoundBetweenStops
<1> QED BY <1>1, StopInvariance, PTL

\* ClientHandler::Stop never closes the descriptor of another connection, although the
\* number it keeps until it forgets it may be another's already.
THEOREM ClosesOwnSockets == Spec => OnlyOwnSocketsClosed
<1> DEFINE P == \A f \in Fds : fdt[f] \in Conns /\ fdt'[f] # fdt[f] =>
                  /\ h_ClientSocket[fdt[f]] = f
                  /\ \/ cpc = "closing" /\ todo # <<>> /\ Head(todo) = fdt[f]
                     \/ cpc = "clearHandlers" /\ alive[fdt[f]]
<1>1. ASSUME StopInv, Next PROVE P
  <2> SUFFICES ASSUME NEW f \in Fds, fdt[f] \in Conns, fdt'[f] # fdt[f]
               PROVE  /\ h_ClientSocket[fdt[f]] = f
                      /\ \/ cpc = "closing" /\ todo # <<>> /\ Head(todo) = fdt[f]
                         \/ cpc = "clearHandlers" /\ alive[fdt[f]]
    OBVIOUS
  <2> USE DEF sockVars
  <2>1. fdt \in [Fds -> Conns \union {"free", "listen"}] /\ fdt[f] \notin {"free", "listen"}
    BY <1>1, SocketsAssumption DEF StopInv, TypeOK, SocketsTypeOK
  <2>2. CASE StopHandler
    <3> DEFINE c == Head(todo)
               g == h_ClientSocket[c]
    <3>1. cpc = "closing" /\ todo # <<>>
      BY <2>2 DEF StopHandler
    <3>2. c \in Conns
      BY <1>1, <3>1, HeadTailProperties DEF StopInv, TypeOK
    <3>3. g # -1 /\ f = g
      BY <2>2 DEF StopHandler, Close
    <3>4. fdt[f] = c
      BY <1>1, <3>1, <3>2, <3>3 DEF StopInv, StopDescriptors
    <3> QED BY <3>1, <3>3, <3>4
  <2>3. CASE ClearHandlers
    <3>1. cpc = "clearHandlers"
      BY <2>3 DEF ClearHandlers
    <3>2. PICK c \in ToSet(m_ClientHandlers) : h_ClientSocket[c] = f /\ f # -1
      BY <2>3 DEF ClearHandlers, Close
    <3>3. c \in Conns
      BY <1>1, <3>2 DEF StopInv, TypeOK, ToSet
    <3>4. fdt[f] = c /\ alive[c]
      BY <1>1, <3>1, <3>2, <3>3 DEF StopInv, StopDescriptors
    <3> QED BY <3>1, <3>2, <3>4
  <2>4. CASE AcceptConnection
    BY <2>1, <2>4, LowestIsFree DEF AcceptConnection
  <2>5. CASE StartListens
    BY <1>1, <2>1, <2>5, NoListener DEF StartListens, Joinable
  <2>6. CASE CloseServerSocket
    BY <2>1, <2>6 DEF CloseServerSocket, CloseListener
  <2>7. CASE ~ StopHandler /\ ~ ClearHandlers /\ ~ AcceptConnection /\ ~ StartListens
             /\ ~ CloseServerSocket
    BY <1>1, <2>7 DEF Next, HandlerThread, HandlerLoop, EnterRecv, RecvRequest, RecvFails, RecvEnd,
       HandleRequest, SendResponse, ClientActs, Connect, ClientSend, ClientClose, Expire,
       Acceptor, AcceptorLoop, AcceptFails, AcceptReturned, EmplaceHandler, EmplaceThread,
       Controller, BeginStart, StartRunning, StartThrows, BeginStop, ForgetSocket,
       HandlersStopped, JoinHandler, HandlersJoined, ClearThreads, SetStop, JoinAcceptor
  <2> QED BY <2>2, <2>3, <2>4, <2>5, <2>6, <2>7
<1>2. ASSUME StopInv, [Next]_vars PROVE [P]_vars
  BY <1>1, <1>2
<1> QED BY <1>2, StopInvariance, PTL DEF Spec, OnlyOwnSocketsClosed

\* Outside Server::Stop, SendJson sends the response of a handler to its own client: the
\* threads that outlive a Stop included.
THEOREM OwnAnswersAfterStop == Spec => OwnAnswersBetweenStops
<1> DEFINE P == ~ Stopping => \A d \in Conns : answers'[d] \subseteq answers[d] \union {d}
<1>1. ASSUME StopInv, Next PROVE P
  <2> SUFFICES ASSUME ~ Stopping
               PROVE  \A d \in Conns : answers'[d] \subseteq answers[d] \union {d}
    OBVIOUS
  <2> USE DEF sockVars
  <2>1. CASE \E c \in Conns : SendResponse(c)
    <3>1. PICK c \in Conns : SendResponse(c)
      BY <2>1
    <3>2. ThreadsCleared /\ ~ dead /\ pc[c] = "send"
      BY <1>1, <3>1 DEF Stopping, HandlersCleared, ThreadsCleared, Next, SendResponse
    <3>3. on[c] = c /\ fdt[arg[c]] = c /\ arg[c] # -1
      BY <1>1, <3>2 DEF StopInv, StopThreads
    <3>4. \/ answers' = answers
          \/ answers' = [answers EXCEPT ![c] = IF client[c] = "open" THEN @ \union {c} ELSE @]
      BY <3>1, <3>3 DEF SendResponse
    <3>5. answers \in [Conns -> SUBSET Conns]
      BY <1>1 DEF StopInv, TypeOK, SocketsTypeOK
    <3> QED BY <3>4, <3>5
  <2>2. CASE ~ \E c \in Conns : SendResponse(c)
    <3>1. answers' = answers
      BY <1>1, <2>2 DEF Next, HandlerThread, HandlerLoop, EnterRecv, RecvRequest, RecvFails, RecvEnd,
         HandleRequest, ClientActs, Connect, ClientSend, ClientClose, Expire,
         Acceptor, AcceptorLoop, AcceptConnection, AcceptFails, AcceptReturned, EmplaceHandler,
         EmplaceThread, Controller, BeginStart, StartRunning, StartThrows, StartListens,
         BeginStop, StopHandler, ForgetSocket, HandlersStopped, JoinHandler, HandlersJoined,
         ClearHandlers, ClearThreads, SetStop, CloseServerSocket, CloseListener, Close,
         JoinAcceptor
    <3> QED BY <3>1
  <2> QED BY <2>1, <2>2
<1>2. ASSUME StopInv, [Next]_vars PROVE [P]_vars
  <2>1. CASE Next
    BY <1>1, <1>2, <2>1
  <2>2. CASE UNCHANGED vars
    BY <2>2
  <2> QED BY <1>2, <2>1, <2>2
<1> QED BY <1>2, StopInvariance, PTL DEF Spec, OwnAnswersBetweenStops
==================================================================================
