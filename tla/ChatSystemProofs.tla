----------------------------- MODULE ChatSystemProofs -----------------------------
(*********************************************************************************)
(* Proofs about clients, connections and server, for any number of clients, any  *)
(* names, passwords and texts, values of any length, and any number of requests. *)
(*********************************************************************************)
EXTENDS ChatSystemProperties, SequenceTheorems, TLAPS

(*********************************************************************************)
(* Ends and streams.                                                             *)
(*********************************************************************************)
\* Every end is the client's or the server's end of one connection.
LEMMA EndsDiffer ==
  /\ \A c \in Clients : /\ Client(c) \in Ends /\ Server(c) \in Ends
                        /\ Peer(Client(c)) = Server(c) /\ Peer(Server(c)) = Client(c)
  /\ \A c, d \in Clients : /\ Client(c) # Server(d)
                           /\ c # d => Client(c) # Client(d) /\ Server(c) # Server(d)
  /\ \A e \in Ends : \E c \in Clients : e = Client(c) \/ e = Server(c)
  BY DEF Client, Server, Peer, Ends

\* The units of a value are a sequence of units of its kind.
LEMMA UnitsType ==
  ASSUME NEW V, NEW m \in V, m.length \in Nat
  PROVE  /\ Units(m) \in Seq(UnitsOf(V))
         /\ Len(Units(m)) = m.length
         /\ m.length > 0 => Units(m) # <<>> /\ Units(m)[1].value = m
<1> DEFINE u(i) == [value |-> m, part |-> i]
<1>1. \A i \in 1 .. m.length : u(i) \in UnitsOf(V)
  BY DEF UnitsOf
<1>2. Units(m) = [i \in 1 .. m.length |-> u(i)]
  BY DEF Units
<1>3. Units(m) \in [1 .. m.length -> UnitsOf(V)]
  BY <1>1, <1>2
<1>4. Units(m) \in Seq(UnitsOf(V)) /\ Len(Units(m)) = m.length
  BY <1>3, SMT
<1>5. m.length > 0 => Units(m) # <<>> /\ Units(m)[1].value = m
  BY <1>2, <1>4, SMT
<1> QED BY <1>4, <1>5

\* Parsing a beginning of a stream yields a value of its kind, or none.
LEMMA ReceivedType ==
  ASSUME NEW V, NEW s \in Seq(UnitsOf(V)), NEW n \in 1 .. Len(s),
         NEW r \in Parsed(SubSeq(s, 1, n))
  PROVE  /\ r \in V \union {NONE, JUNK}
         /\ SubSeq(s, n + 1, Len(s)) \in Seq(UnitsOf(V))
<1>1. PICK k \in Nat : k = Len(s)
  BY LenProperties
<1>2. \A i \in 1 .. k : s[i] \in UnitsOf(V)
  BY <1>1, ElementOfSeq
<1>3. SubSeq(s, n + 1, k) \in Seq(UnitsOf(V))
  BY <1>1, <1>2, SubSeqProperties
<1>4. SubSeq(s, 1, n)[1] = s[1]
  <2>1. \A i \in 1 .. n : s[i] \in UnitsOf(V)
    BY <1>1, <1>2
  <2>2. \A i \in 1 .. n - 1 + 1 : SubSeq(s, 1, n)[i] = s[1 + i - 1]
    BY <1>1, <2>1, SubSeqProperties
  <2> QED BY <1>1, <2>2
<1>5. s[1].value \in V
  BY <1>1, <1>2 DEF UnitsOf
<1>6. Parsed(SubSeq(s, 1, n)) \subseteq {s[1].value, NONE, JUNK}
  BY <1>4 DEF Parsed
<1> QED BY <1>1, <1>3, <1>5, <1>6

\* When what is in the stream is one value, only all of it parses.
LEMMA ReceivedWhole ==
  ASSUME NEW V, NEW m \in V, m.length \in Nat \ {0},
         NEW n \in 1 .. Len(Units(m)), NEW r \in Parsed(SubSeq(Units(m), 1, n)),
         r # NONE, r # JUNK
  PROVE  r = m /\ SubSeq(Units(m), n + 1, Len(Units(m))) = <<>>
<1> DEFINE s == Units(m)
<1>0. m.length \in Nat /\ m.length > 0
  OBVIOUS
<1>1. s \in Seq(UnitsOf(V)) /\ Len(s) = m.length /\ s[1].value = m
  BY <1>0, UnitsType, Zenon
<1>2. \A i \in 1 .. n : s[i] \in UnitsOf(V)
  BY <1>1, ElementOfSeq
<1>3. Len(SubSeq(s, 1, n)) = n /\ SubSeq(s, 1, n)[1] = s[1]
  BY <1>1, <1>2, SubSeqProperties
<1>4. r = m /\ SubSeq(s, 1, n) = Units(m)
  BY <1>1, <1>3 DEF Parsed
<1>5. n = m.length
  BY <1>1, <1>3, <1>4
<1>6. SubSeq(s, n + 1, n) = <<>>
  <2>1. n + 1 \in Int /\ n \in Int /\ n < n + 1
    BY <1>5
  <2> QED BY <2>1, SubSeqEmpty
<1>7. Len(s) = n
  BY <1>1, <1>5
<1>8. SubSeq(s, n + 1, Len(s)) = <<>>
  BY <1>6, <1>7, Zenon
<1> QED BY <1>4, <1>8

\* A value that is alone and fits the buffer is received.
LEMMA ReceivedShort ==
  ASSUME NEW V, NEW m \in V, m.length = 1,
         NEW n \in 1 .. Len(Units(m)), NEW r \in Parsed(SubSeq(Units(m), 1, n))
  PROVE  r = m /\ SubSeq(Units(m), n + 1, Len(Units(m))) = <<>>
<1> DEFINE s == Units(m)
<1>0. m.length \in Nat /\ m.length > 0
  OBVIOUS
<1>1. s \in Seq(UnitsOf(V)) /\ Len(s) = 1 /\ s[1].value = m
  BY <1>0, UnitsType, Zenon
<1>2. n = 1
  BY <1>1
<1>3. SubSeq(s, 1, 1) = s
  BY <1>1, SubSeqFull
<1>4. r = m
  BY <1>1, <1>2, <1>3 DEF Parsed, Terminated, BUFFER_SIZE
<1>5. SubSeq(s, n + 1, 1) = <<>>
  <2>1. n + 1 \in Int /\ 1 < n + 1
    BY <1>2
  <2> QED BY <2>1, SubSeqEmpty
<1>6. SubSeq(s, n + 1, Len(s)) = <<>>
  BY <1>1, <1>5, Zenon
<1> QED BY <1>4, <1>6

(*********************************************************************************)
(* The channel keeps its types and leaves other connections alone.               *)
(*********************************************************************************)
ChannelSame(c) ==
  /\ stream'[Client(c)] = stream[Client(c)] /\ stream'[Server(c)] = stream[Server(c)]
  /\ socket'[Client(c)] = socket[Client(c)] /\ socket'[Server(c)] = socket[Server(c)]
  /\ oversize'[Server(c)] = oversize[Server(c)]

\* What a stream may hold.
Kind(e) == IF e \in {Client(c) : c \in Clients} THEN Answers ELSE Questions

\* The two directions of a connection carry values of their kinds.
LEMMA KindOfStream ==
  ASSUME ChannelOK
  PROVE  \A e \in Ends : stream[e] \in Seq(UnitsOf(Kind(e)))
  BY EndsDiffer DEF ChannelOK, Kind

LEMMA KindsSuffice ==
  ASSUME DOMAIN stream' = Ends,
         \A e \in Ends : stream'[e] \in Seq(UnitsOf(Kind(e))),
         socket' \in [Ends -> SocketStates],
         oversize' \in [Ends -> BOOLEAN]
  PROVE  ChannelOK'
<1>1. \A c \in Clients : /\ Client(c) \in Ends /\ Kind(Client(c)) = Answers
                        /\ Server(c) \in Ends /\ Kind(Server(c)) = Questions
  BY EndsDiffer DEF Kind
<1> QED BY <1>1 DEF ChannelOK

\* Reading (Take) keeps the types; what is received is of its kind.
LEMMA TakeType ==
  ASSUME ChannelOK, NEW e \in Ends, NEW n \in Arrivals(e), Take(e, n)
  PROVE  ChannelOK' /\ \A r \in Received(e, n) : r \in Kind(e) \union {NONE, JUNK}
<1>1. n \in 1 .. Len(stream[e])
  BY DEF Arrivals
<1>2. stream[e] \in Seq(UnitsOf(Kind(e)))
  BY KindOfStream
<1>3. \A r \in Received(e, n) : /\ r \in Kind(e) \union {NONE, JUNK}
  BY <1>1, <1>2, ReceivedType DEF Received
<1>4. SubSeq(stream[e], n + 1, Len(stream[e])) \in Seq(UnitsOf(Kind(e)))
  <2>1. Parsed(SubSeq(stream[e], 1, n)) # {}
    BY DEF Parsed
  <2> QED BY <1>1, <1>2, <2>1, ReceivedType
<1>5. /\ DOMAIN stream' = Ends
      /\ \A f \in Ends : stream'[f] = IF f = e THEN SubSeq(stream[e], n + 1, Len(stream[e]))
                                     ELSE stream[f]
  BY DEF Take, ChannelOK
<1>6. \A f \in Ends : stream'[f] \in Seq(UnitsOf(Kind(f)))
  BY <1>4, <1>5, KindOfStream
<1>7. socket' \in [Ends -> SocketStates] /\ oversize' \in [Ends -> BOOLEAN]
  BY DEF Take, ChannelOK
<1> QED BY <1>3, <1>5, <1>6, <1>7, KindsSuffice

\* Sending a value of the kind the peer expects keeps the types (SendJson).
LEMMA SendType ==
  ASSUME ChannelOK, NEW e \in Ends, NEW m \in Kind(Peer(e)), Send(e, m)
  PROVE  ChannelOK'
<1>0. Peer(e) \in Ends
  BY EndsDiffer
<1>1. m.length \in Nat
  BY ClientAssumption DEF Kind, Answers, Questions
<1>2. Units(m) \in Seq(UnitsOf(Kind(Peer(e))))
  BY <1>1, UnitsType
<1>3. stream[Peer(e)] \o Units(m) \in Seq(UnitsOf(Kind(Peer(e))))
  BY <1>0, <1>2, KindOfStream, ConcatProperties
<1>4. /\ DOMAIN stream' = Ends
      /\ \A f \in Ends \ {Peer(e)} : stream'[f] = stream[f]
      /\ stream'[Peer(e)] \in {stream[Peer(e)], stream[Peer(e)] \o Units(m)}
  BY <1>0 DEF Send, ChannelOK
<1>5. \A f \in Ends : stream'[f] \in Seq(UnitsOf(Kind(f)))
  BY <1>3, <1>4, KindOfStream
<1>6. socket' \in [Ends -> SocketStates]
  BY DEF Send, ChannelOK, SocketStates
<1>7. oversize' \in [Ends -> BOOLEAN]
  BY DEF Send, ChannelOK, Oversize
<1> QED BY <1>4, <1>5, <1>6, <1>7, KindsSuffice

\* A call that fails changes the socket only.
LEMMA FailType ==
  ASSUME ChannelOK, NEW e \in Ends, ReceiveNothing(e) \/ SendFails(e)
  PROVE  ChannelOK'
<1>1. socket' \in [Ends -> SocketStates]
  BY DEF ReceiveNothing, SendFails, ChannelOK, SocketStates
<1>2. stream' = stream /\ oversize' = oversize
  BY DEF ReceiveNothing, SendFails
<1> QED BY <1>1, <1>2 DEF ChannelOK

\* Closing empties streams and tells the peers.
LEMMA CloseType ==
  ASSUME ChannelOK, NEW E \in SUBSET Ends, NEW U, Close(E, U)
  PROVE  /\ ChannelOK'
         /\ oversize' = oversize
         /\ \A e \in E : stream'[e] = <<>> /\ socket'[e] = "closed"
         /\ \A e \in Ends \ E :
              /\ stream'[e] = stream[e]
              /\ ~ (Peer(e) \in E /\ socket[e] = "open") => socket'[e] = socket[e]
              /\ Peer(e) \in E /\ socket[e] = "open" =>
                   /\ socket'[e] \in {"fin", "reset", "broken"}
                   /\ Peer(e) \notin U /\ stream[Peer(e)] = <<>> => socket'[e] = "fin"
<1>1. PICK how \in [E -> {"fin", "reset", "broken"}] :
        /\ \A e \in E : CASE e \in U          -> how[e] = "reset"
                         [] stream[e] = <<>> -> how[e] = "fin"
                         [] OTHER            -> TRUE
        /\ socket' = [e \in Ends |->
             IF e \in E THEN "closed"
             ELSE IF Peer(e) \in E /\ socket[e] = "open" THEN how[Peer(e)]
             ELSE socket[e]]
  BY DEF Close
<1>2. \A e \in E : e \notin U /\ stream[e] = <<>> => how[e] = "fin"
  BY <1>1
<1>3. /\ stream' = [e \in Ends |-> IF e \in E THEN <<>> ELSE stream[e]]
      /\ oversize' = oversize
  BY DEF Close
<1>4. socket' \in [Ends -> SocketStates]
  BY <1>1 DEF ChannelOK, SocketStates
<1>5. \A e \in Ends : stream'[e] \in Seq(UnitsOf(Kind(e)))
  BY <1>3, KindOfStream, EmptySeq
<1>6. ChannelOK'
  BY <1>3, <1>4, <1>5, KindsSuffice DEF ChannelOK
<1> QED BY <1>1, <1>2, <1>3, <1>6

\* A call on one connection leaves the others alone.
LEMMA Elsewhere ==
  ASSUME ChannelOK, NEW d \in Clients, NEW e \in {Client(d), Server(d)},
         \/ \E n \in Nat : Take(e, n)
         \/ \E m : Send(e, m)
         \/ ReceiveNothing(e) \/ SendFails(e)
  PROVE  \A c \in Clients \ {d} : ChannelSame(c)
<1> SUFFICES ASSUME NEW c \in Clients \ {d} PROVE ChannelSame(c)
  OBVIOUS
<1>1. /\ Client(c) \in Ends \ {e, Peer(e)} /\ Server(c) \in Ends \ {e, Peer(e)}
  BY EndsDiffer
<1>2. \A f \in Ends \ {e, Peer(e)} : /\ stream'[f] = stream[f] /\ socket'[f] = socket[f]
                                     /\ oversize'[f] = oversize[f]
  <2>1. CASE \E n \in Nat : Take(e, n)
    BY <2>1 DEF Take, ChannelOK
  <2>2. CASE \E m : Send(e, m)
    BY <2>2 DEF Send, ChannelOK
  <2>3. CASE ReceiveNothing(e) \/ SendFails(e)
    BY <2>3 DEF ReceiveNothing, SendFails, ChannelOK
  <2> QED BY <2>1, <2>2, <2>3
<1> QED BY <1>1, <1>2 DEF ChannelSame

(*********************************************************************************)
(* The rest of a connection's state.                                             *)
(*********************************************************************************)
ClientSame(c) ==
  at'[c] = at[c] /\ user'[c] = user[c] /\ command'[c] = command[c] /\ asked'[c] = asked[c]

ServerSame(c) ==
  /\ handler'[c] = handler[c] /\ number'[c] = number[c] /\ verified'[c] = verified[c]
  /\ pending'[c] = pending[c] /\ reply'[c] = reply[c]

Same(c) == ChannelSame(c) /\ ClientSame(c) /\ ServerSame(c)

\* A step that does not touch a connection keeps what holds of it.
LEMMA Undisturbed ==
  ASSUME NEW c \in Clients, ConnectionOK(c), Same(c)
  PROVE  ConnectionOK(c)'
<1> USE DEF Same, ChannelSame, ClientSame, ServerSame
<1>1. SocketsOK(c)'
  BY DEF ConnectionOK, SocketsOK
<1>2. LoginOK(c)'
  BY DEF ConnectionOK, LoginOK
<1>3. ASSUME ~ oversize'[Server(c)] PROVE (Asking(c) /\ InService(c) /\ Answered(c))'
  <2>1. Asking(c) /\ InService(c) /\ Answered(c)
    BY <1>3 DEF ConnectionOK
  <2>2. Asking(c)'
    BY <2>1 DEF Asking, Whole, Front, Carried
  <2>3. InService(c)'
    BY <2>1 DEF InService, Carried, Truthful
  <2>4. Answered(c)'
    BY <2>1 DEF Answered, Whole, Front, Truthful
  <2> QED BY <2>2, <2>3, <2>4
<1> QED BY <1>1, <1>2, <1>3 DEF ConnectionOK

\* A step of one connection.
LEMMA OneConnection ==
  ASSUME IInv, TypeOK', NEW d \in Clients, ConnectionOK(d)',
         \A c \in Clients \ {d} : Same(c)
  PROVE  IInv'
<1>1. \A c \in Clients \ {d} : ConnectionOK(c)'
  BY Undisturbed DEF IInv
<1> QED BY <1>1 DEF IInv

\* What the service's actions do to the request and the response of a session.
LEMMA Services ==
  ASSUME ServerOK, NEW d \in Clients
  PROVE  /\ \A r : S!Ask(d, r) => /\ pending' = [pending EXCEPT ![d] = r]
                                /\ reply' = [reply EXCEPT ![d] = S!Immediate(r)]
         /\ S!Finish(d) => /\ reply[d] # NULL
                           /\ pending' = [pending EXCEPT ![d] = NULL]
                           /\ reply' = [reply EXCEPT ![d] = NULL]
  BY DEF ServerOK, S!Ask, S!Finish

\* A step that changes nothing of any connection.
LEMMA NoConnection ==
  ASSUME IInv, TypeOK', \A c \in Clients : Same(c)
  PROVE  IInv'
  BY Undisturbed DEF IInv

(*********************************************************************************)
(* The client's steps.                                                           *)
(*********************************************************************************)
ServerStays == UNCHANGED <<serverVars, serviceVars>>

\* ServerStays is what it says.
LEMMA ServerStaysSame ==
  ASSUME ServerStays, ServerOK
  PROVE  ServerOK' /\ \A c \in Clients : ServerSame(c)
  BY DEF ServerStays, serverVars, serviceVars, ServerOK, ServerSame

\* A client at its menu has nothing under way.
LEMMA NothingUnderWay ==
  ASSUME NEW c \in Clients, ConnectionOK(c), ~ oversize[Server(c)],
         at[c] \in {"off", "menu", "failed"}
  PROVE  /\ stream[Client(c)] = <<>> /\ stream[Server(c)] = <<>>
         /\ pending[c] = NULL /\ reply[c] = NULL
<1>1. Asking(c) /\ InService(c) /\ Answered(c) /\ SocketsOK(c)
  BY DEF ConnectionOK
<1> QED BY <1>1 DEF Asking, InService, Answered, SocketsOK

\* With nothing under way only the sockets and the login remain to be looked at.
LEMMA IdleConnection ==
  ASSUME NEW c \in Clients, SocketsOK(c)', LoginOK(c)',
         ~ oversize'[Server(c)] =>
           /\ stream'[Client(c)] = <<>> /\ stream'[Server(c)] = <<>>
           /\ pending'[c] = NULL
  PROVE  ConnectionOK(c)'
  BY DEF ConnectionOK, Asking, InService, Answered

\* The constructor of Client.
LEMMA StepConnect ==
  ASSUME IInv, NEW d \in Clients, ConnectToServer(d), ServerStays
  PROVE  IInv'
<1>0. /\ Client(d) \in Ends /\ Server(d) \in Ends /\ Client(d) # Server(d)
      /\ \A c \in Clients \ {d} : /\ Client(c) \in Ends \ {Client(d), Server(d)}
                                  /\ Server(c) \in Ends \ {Client(d), Server(d)}
  BY EndsDiffer
<1>1. ChannelOK'
  BY <1>0 DEF IInv, TypeOK, ConnectToServer, Establish, ChannelOK, SocketStates
<1>2. ClientsOK'
  BY DEF IInv, TypeOK, ConnectToServer, ClientsOK
<1>3. TypeOK'
  BY <1>1, <1>2, ServerStaysSame DEF IInv, TypeOK
<1>4. \A c \in Clients \ {d} : Same(c)
  <2> SUFFICES ASSUME NEW c \in Clients \ {d} PROVE Same(c)
    OBVIOUS
  <2>1. ChannelSame(c)
    BY <1>0 DEF ChannelSame, IInv, TypeOK, ChannelOK, ConnectToServer, Establish
  <2>2. ClientSame(c)
    BY DEF ClientSame, IInv, TypeOK, ClientsOK, ConnectToServer
  <2>3. ServerSame(c)
    BY ServerStaysSame DEF IInv, TypeOK
  <2> QED BY <2>1, <2>2, <2>3 DEF Same
<1>5. /\ socket'[Client(d)] = "open" /\ socket'[Server(d)] = "open"
      /\ stream' = stream /\ oversize' = oversize
  BY <1>0 DEF IInv, TypeOK, ChannelOK, ConnectToServer, Establish
<1>6. at[d] = "off" /\ at'[d] = "menu" /\ user'[d] = user[d]
  BY DEF IInv, TypeOK, ClientsOK, ConnectToServer
<1>7. ServerSame(d)
  BY ServerStaysSame DEF IInv, TypeOK
<1>8. ConnectionOK(d)
  BY DEF IInv
<1>9. /\ stream[Client(d)] = <<>> /\ stream[Server(d)] = <<>> /\ user[d] = NULL
      /\ pending[d] = NULL /\ reply[d] = NULL
  BY <1>6, <1>8 DEF ConnectionOK, SocketsOK
<1>10. SocketsOK(d)'
  BY <1>5, <1>6, <1>7, <1>9 DEF SocketsOK, ServerSame
<1>11. LoginOK(d)'
  BY <1>6, <1>9 DEF LoginOK
<1>12. ConnectionOK(d)'
  BY <1>5, <1>7, <1>9, <1>10, <1>11, IdleConnection DEF ServerSame
<1> QED BY <1>3, <1>4, <1>12, OneConnection

\* LogOut of the menu.
LEMMA StepLogOut ==
  ASSUME IInv, NEW d \in Clients, LogOut(d), ServerStays
  PROVE  IInv'
<1>1. TypeOK'
  BY ServerStaysSame DEF IInv, TypeOK, LogOut, channelVars, ChannelOK, ClientsOK
<1>2. \A c \in Clients : ChannelSame(c) /\ ServerSame(c)
  BY ServerStaysSame DEF IInv, TypeOK, LogOut, channelVars, ChannelSame
<1>3. \A c \in Clients \ {d} : Same(c)
  BY <1>2 DEF Same, ClientSame, LogOut, IInv, TypeOK, ClientsOK
<1>4. user'[d] = NULL /\ at'[d] = at[d] /\ at[d] = "menu"
  BY DEF LogOut, IInv, TypeOK, ClientsOK
<1>5. ConnectionOK(d)
  BY DEF IInv
<1>6. SocketsOK(d)'
  BY <1>2, <1>4, <1>5 DEF ConnectionOK, SocketsOK, ChannelSame, ServerSame
<1>7. LoginOK(d)'
  BY <1>4 DEF LoginOK
<1>8. ConnectionOK(d)'
  BY <1>2, <1>4, <1>5, <1>6, <1>7, NothingUnderWay, IdleConnection
     DEF ChannelSame, ServerSame
<1> QED BY <1>1, <1>3, <1>8, OneConnection

\* The commands build requests, and messages name the user as their sender.
LEMMA MenuType ==
  ASSUME ClientsOK, NEW c \in Clients, NEW r \in Menu(c)
  PROVE  /\ r \in S!Requests
         /\ r.action = "SEND_MESSAGE_TO_USER" => r.sender = user[c] /\ user[c] # NULL
<1>1. IsLoggedIn(c) => user[c] \in Usernames
  BY DEF IsLoggedIn, ClientsOK
<1>2. CASE r \in NotLoggedInCommands
  BY <1>2 DEF NotLoggedInCommands, SignIn, LogIn, S!Requests
<1>3. CASE IsLoggedIn(c) /\ r \in {Message(c, n, t) : n \in Usernames, t \in Contents}
  BY <1>1, <1>3 DEF Message, S!Requests, IsLoggedIn
<1>4. CASE IsLoggedIn(c) /\ r \in {ShowChat(c, n) : n \in Usernames} \union {ListUsers}
  BY <1>1, <1>4 DEF ShowChat, ListUsers, S!Requests
<1>5. CASE r \in {ClearDatabase, CheckConnectionWithServer}
  BY <1>5 DEF ClearDatabase, CheckConnectionWithServer, S!Requests
<1> QED BY <1>2, <1>3, <1>4, <1>5 DEF Menu, LoggedInCommands

\* A command that is sent, cannot be sent, or kills the client.
LEMMA StepExecute ==
  ASSUME IInv, NEW d \in Clients, Execute(d), ServerStays
  PROVE  IInv'
<1>0. /\ Client(d) \in Ends /\ Server(d) \in Ends /\ Client(d) # Server(d)
      /\ Peer(Client(d)) = Server(d)
  BY EndsDiffer
<1>1. PICK r \in Menu(d) :
        \/ /\ \E n \in LengthsOf(r) :
                Send(Client(d), [number |-> asked[d] + 1, request |-> r, length |-> n])
           /\ Await(d, r)
        \/ /\ SendFails(Client(d))
           /\ UNCHANGED <<at, command>> \/ Await(d, r)
        \/ /\ BrokenPipe(Client(d))
           /\ at' = [at EXCEPT ![d] = "failed"]
           /\ UNCHANGED <<channelVars, command>>
  BY DEF Execute
<1>2. /\ r \in S!Requests
      /\ r.action = "SEND_MESSAGE_TO_USER" => r.sender = user[d] /\ user[d] # NULL
  BY <1>1, MenuType DEF IInv, TypeOK
<1>3. /\ at[d] = "menu" /\ user' = user
      /\ asked'[d] = asked[d] + 1 /\ asked[d] + 1 \in Nat
      /\ asked' = [asked EXCEPT ![d] = asked[d] + 1]
  BY ClientAssumption DEF Execute, IInv, TypeOK, ClientsOK
<1>4. ServerOK' /\ \A c \in Clients : ServerSame(c)
  BY ServerStaysSame DEF IInv, TypeOK
<1>5. /\ at' = [at EXCEPT ![d] = at'[d]] /\ at'[d] \in {"menu", "recv", "failed"}
      /\ command' = [command EXCEPT ![d] = command'[d]]
      /\ command'[d] \in S!Requests \union {NULL}
      /\ at'[d] = "recv" => command'[d] = r
  BY <1>1, <1>2, <1>3 DEF Await, IInv, TypeOK, ClientsOK
<1>6. ClientsOK'
  <2>1. r # NULL
    BY <1>2, SystemAssumption
  <2> QED BY <1>3, <1>5, <2>1 DEF IInv, TypeOK, ClientsOK
<1>7. \A c \in Clients \ {d} : ClientSame(c)
  BY <1>3, <1>5 DEF IInv, TypeOK, ClientsOK, ClientSame
<1>8. ConnectionOK(d) /\ SocketsOK(d) /\ LoginOK(d)
  BY DEF IInv, ConnectionOK
<1>9. ~ oversize[Server(d)] => /\ stream[Client(d)] = <<>> /\ stream[Server(d)] = <<>>
                               /\ pending[d] = NULL /\ reply[d] = NULL
  BY <1>3, <1>8, NothingUnderWay
<1>10. CASE Await(d, r) /\ \E n \in LengthsOf(r) :
              Send(Client(d), [number |-> asked[d] + 1, request |-> r, length |-> n])
  <2>1. PICK n \in LengthsOf(r) :
          Send(Client(d), [number |-> asked[d] + 1, request |-> r, length |-> n])
    BY <1>10
  <2> DEFINE m == [number |-> asked[d] + 1, request |-> r, length |-> n]
  <2>2. n \in Lengths /\ n \in Nat \ {0}
    BY ClientAssumption DEF LengthsOf
  <2>3. m \in Questions
    BY <1>2, <1>3, <2>2 DEF Questions
  <2>4. Kind(Server(d)) = Questions
    BY EndsDiffer DEF Kind
  <2>5. ChannelOK'
    BY <1>0, <2>1, <2>3, <2>4, SendType DEF IInv, TypeOK
  <2>6. \A c \in Clients \ {d} : ChannelSame(c)
    BY <2>1, Elsewhere DEF IInv, TypeOK
  <2>7. at'[d] = "recv"
    BY <1>10 DEF Await, IInv, TypeOK, ClientsOK
  <2>8. oversize'[Server(d)] = oversize[Server(d)] /\ stream'[Client(d)] = stream[Client(d)]
    BY <1>0, <2>1 DEF Send, IInv, TypeOK, ChannelOK
  <2>9. CASE socket[Client(d)] = "open"
    <3>1. stream'[Server(d)] = stream[Server(d)] \o Units(m) /\ socket' = socket
      BY <1>0, <2>1, <2>9 DEF Send, IInv, TypeOK, ChannelOK
    <3>2. SocketsOK(d)'
      BY <1>4, <1>8, <2>7, <2>8, <2>9, <3>1 DEF SocketsOK, ServerSame
    <3>3. LoginOK(d)'
      BY <1>3, <1>4, <1>8, <2>8, <3>1 DEF LoginOK, ServerSame
    <3>4. ASSUME ~ oversize[Server(d)]
          PROVE  (Asking(d) /\ InService(d) /\ Answered(d))'
      <4>1. Units(m) \in Seq(UnitsOf(Questions)) /\ Units(m)[1].value = m
        BY <2>2, <2>3, UnitsType
      <4>2. stream'[Server(d)] = Units(m)
        BY <1>9, <3>1, <3>4, <4>1, ConcatEmptySeq
      <4>3. Whole(Server(d))' /\ Front(Server(d))' = m
        BY <4>1, <4>2 DEF Whole, Front
      <4>4. /\ stream'[Client(d)] = <<>> /\ pending'[d] = NULL
            /\ socket'[Server(d)] = "open"
        BY <1>4, <1>8, <1>9, <2>8, <2>9, <3>1, <3>4 DEF ServerSame, SocketsOK
      <4>5. Carried(d, r)'
        BY <1>2, <1>4, <1>5, <1>8, <2>9, <3>4 DEF Carried, LoginOK, ServerSame
      <4>6. m.number = asked'[d] /\ m.request = r
        BY <1>3
      <4>7. Asking(d)'
        BY <2>7, <4>3, <4>4, <4>5, <4>6 DEF Asking
      <4> QED BY <4>4, <4>7 DEF InService, Answered
    <3> QED BY <1>3, <1>4, <1>6, <1>7, <2>5, <2>6, <2>8, <3>2, <3>3, <3>4, OneConnection
            DEF TypeOK, Same, ConnectionOK
  <2>10. CASE socket[Client(d)] # "open"
    <3>1. /\ stream'[Server(d)] = stream[Server(d)] /\ socket'[Server(d)] = socket[Server(d)]
          /\ socket[Client(d)] = "fin" /\ socket'[Client(d)] \in {"fin", "broken"}
      BY <1>0, <2>1, <2>10 DEF Send, IInv, TypeOK, ChannelOK
    <3>2. SocketsOK(d)'
      BY <1>4, <1>8, <2>7, <2>8, <3>1 DEF SocketsOK, ServerSame
    <3>3. LoginOK(d)'
      BY <3>1 DEF LoginOK
    <3>4. ConnectionOK(d)'
      BY <1>4, <1>9, <2>8, <3>1, <3>2, <3>3, IdleConnection DEF ServerSame
    <3> QED BY <1>4, <1>6, <1>7, <2>5, <2>6, <3>4, OneConnection DEF TypeOK, Same
  <2> QED BY <2>9, <2>10
<1>11. CASE SendFails(Client(d)) /\ (UNCHANGED <<at, command>> \/ Await(d, r))
  <2>1. ChannelOK' /\ \A c \in Clients \ {d} : ChannelSame(c)
    BY <1>0, <1>11, FailType, Elsewhere DEF IInv, TypeOK
  <2>2. /\ stream' = stream /\ oversize' = oversize
        /\ socket'[Server(d)] = socket[Server(d)]
        /\ socket[Client(d)] = "reset" /\ socket'[Client(d)] = "broken"
    BY <1>0, <1>11 DEF SendFails, IInv, TypeOK, ChannelOK
  <2>3. at'[d] \in {"menu", "recv"}
    BY <1>3, <1>11 DEF Await, IInv, TypeOK, ClientsOK
  <2>4. SocketsOK(d)'
    BY <1>4, <1>8, <2>2, <2>3 DEF SocketsOK, ServerSame
  <2>5. LoginOK(d)'
    BY <2>2 DEF LoginOK
  <2>6. ConnectionOK(d)'
    BY <1>4, <1>9, <2>2, <2>4, <2>5, IdleConnection DEF ServerSame
  <2> QED BY <1>4, <1>6, <1>7, <2>1, <2>6, OneConnection DEF TypeOK, Same
<1>12. CASE /\ BrokenPipe(Client(d))
            /\ at' = [at EXCEPT ![d] = "failed"]
            /\ UNCHANGED <<channelVars, command>>
  <2>1. ChannelOK' /\ \A c \in Clients : ChannelSame(c)
    BY <1>12 DEF channelVars, IInv, TypeOK, ChannelOK, ChannelSame
  <2>2. at'[d] = "failed" /\ stream' = stream /\ socket' = socket /\ oversize' = oversize
    BY <1>12 DEF channelVars, IInv, TypeOK, ClientsOK
  <2>3. SocketsOK(d)'
    BY <1>3, <1>4, <1>8, <2>2 DEF SocketsOK, ServerSame
  <2>4. LoginOK(d)'
    BY <1>3, <1>4, <1>8, <2>2 DEF LoginOK, ServerSame
  <2>5. ConnectionOK(d)'
    BY <1>4, <1>9, <2>2, <2>3, <2>4, IdleConnection DEF ServerSame
  <2> QED BY <1>4, <1>6, <1>7, <2>1, <2>5, OneConnection DEF TypeOK, Same
<1> QED BY <1>1, <1>10, <1>11, <1>12

\* What a command does once ReceiveJson is done: back to the menu, or to the end.
LEMMA FinishType ==
  ASSUME ClientsOK, NEW d \in Clients, NEW r, at[d] = "recv", Finish(d, r),
         UNCHANGED asked
  PROVE  /\ ClientsOK'
         /\ \A c \in Clients \ {d} : ClientSame(c)
         /\ at'[d] \in {"menu", "failed"}
         /\ \/ user'[d] = user[d]
            \/ /\ command[d] # NULL
               /\ command[d].action = "VERIFY_USER"
               /\ user'[d] = command[d].username
               /\ r \in {NONE, JUNK} \/ r.status # "Error"
<1>1. /\ command' = [command EXCEPT ![d] = NULL]
      /\ at' = [at EXCEPT ![d] = at'[d]] /\ at'[d] \in {"menu", "failed"}
  BY DEF Finish, ClientsOK
<1>2. command[d] # NULL /\ command[d] \in S!Requests
  BY DEF ClientsOK
<1>3. \/ user' = user
      \/ /\ command[d].action = "VERIFY_USER"
         /\ user' = [user EXCEPT ![d] = command[d].username]
         /\ r \in {NONE, JUNK} \/ r.status # "Error"
  BY DEF Finish, ClientsOK
<1>4. command[d].action = "VERIFY_USER" => command[d].username \in Usernames
  BY <1>2 DEF S!Requests
<1>5. user' \in [Clients -> Usernames \union {NULL}]
  BY <1>3, <1>4 DEF ClientsOK
<1>6. ClientsOK'
  BY <1>1, <1>5 DEF ClientsOK
<1>7. \A c \in Clients \ {d} : ClientSame(c)
  BY <1>1, <1>3 DEF ClientsOK, ClientSame
<1> QED BY <1>1, <1>2, <1>3, <1>6, <1>7 DEF ClientsOK

\* Answers are neither null nor an array.
LEMMA AnswersAreObjects ==
  NONE \notin Answers /\ JUNK \notin Answers
<1> SUFFICES ASSUME NEW m \in Answers PROVE m # NONE /\ m # JUNK
  OBVIOUS
<1>1. DOMAIN m = {"number", "status", "length"}
  BY DEF Answers
<1>2. DOMAIN NONE = {"json"} /\ DOMAIN JUNK = {"json"}
  BY DEF NONE, JUNK
<1> QED BY <1>1, <1>2

\* What a client in step takes for its response is the response, and all there was.
LEMMA AnswerReceived ==
  ASSUME ChannelOK, NEW d \in Clients, Answered(d), NEW n \in Arrivals(Client(d)),
         NEW r \in Received(Client(d), n)
  PROVE  /\ r = Front(Client(d)) /\ r \notin {NONE, JUNK}
         /\ SubSeq(stream[Client(d)], n + 1, Len(stream[Client(d)])) = <<>>
         /\ stream[Client(d)] # <<>>
<1> DEFINE s == stream[Client(d)]
           m == Front(Client(d))
<1>1. s \in Seq(UnitsOf(Answers)) /\ n \in 1 .. Len(s)
  BY DEF ChannelOK, Arrivals
<1>2. s # <<>>
  BY <1>1
<1>3. s = Units(m) /\ m.length = 1
  BY <1>2 DEF Answered, Whole
<1>4. m \in Answers
  <2>1. s[1] \in UnitsOf(Answers)
    BY <1>1
  <2>2. s[1].value \in Answers
    BY <2>1 DEF UnitsOf
  <2> QED BY <2>2 DEF Front
<1>5. n \in 1 .. Len(Units(m)) /\ r \in Parsed(SubSeq(Units(m), 1, n))
  BY <1>1, <1>3, Zenon DEF Received
<1>6. r = m /\ SubSeq(Units(m), n + 1, Len(Units(m))) = <<>>
  BY <1>3, <1>4, <1>5, ReceivedShort
<1>7. SubSeq(s, n + 1, Len(s)) = <<>>
  BY <1>3, <1>6, Zenon
<1> QED BY <1>2, <1>4, <1>6, <1>7, AnswersAreObjects

\* A response, or what is taken for one, or none.
LEMMA StepRespond ==
  ASSUME IInv, NEW d \in Clients, Respond(d), ServerStays
  PROVE  IInv'
<1>0. /\ Client(d) \in Ends /\ Server(d) \in Ends /\ Client(d) # Server(d)
  BY EndsDiffer
<1>1. ConnectionOK(d) /\ SocketsOK(d) /\ LoginOK(d)
  BY DEF IInv, ConnectionOK
<1>2. ServerOK' /\ \A c \in Clients : ServerSame(c)
  BY ServerStaysSame DEF IInv, TypeOK
<1>3. at[d] = "recv" /\ UNCHANGED asked
  BY DEF Respond
<1>4. CASE \E n \in Arrivals(Client(d)) : \E r \in Received(Client(d), n) :
             Take(Client(d), n) /\ Finish(d, r)
  <2>0. PICK n \in Arrivals(Client(d)) : \E r \in Received(Client(d), n) :
          Take(Client(d), n) /\ Finish(d, r)
    BY <1>4
  <2>1. PICK r \in Received(Client(d), n) : Take(Client(d), n) /\ Finish(d, r)
    BY <2>0
  <2>2. ChannelOK'
    BY <1>0, <2>1, TakeType DEF IInv, TypeOK
  <2>3. \A c \in Clients \ {d} : ChannelSame(c)
    <3>1. n \in Nat
      BY DEF Arrivals
    <3> QED BY <2>1, <3>1, Elsewhere DEF IInv, TypeOK
  <2>4. /\ ClientsOK'
        /\ \A c \in Clients \ {d} : ClientSame(c)
        /\ at'[d] \in {"menu", "failed"}
        /\ \/ user'[d] = user[d]
           \/ /\ command[d] # NULL
              /\ command[d].action = "VERIFY_USER"
              /\ user'[d] = command[d].username
              /\ r \in {NONE, JUNK} \/ r.status # "Error"
    BY <1>3, <2>1, FinishType DEF IInv, TypeOK
  <2>5. /\ socket' = socket /\ oversize' = oversize
        /\ stream'[Server(d)] = stream[Server(d)]
        /\ stream'[Client(d)] = SubSeq(stream[Client(d)], n + 1, Len(stream[Client(d)]))
    BY <1>0, <2>1 DEF Take, IInv, TypeOK, ChannelOK
  <2>6. ~ oversize[Server(d)] =>
          /\ r = Front(Client(d)) /\ r \notin {NONE, JUNK}
          /\ stream'[Client(d)] = <<>> /\ stream[Server(d)] = <<>>
          /\ pending[d] = NULL
          /\ Truthful(d, command[d], r.status)
    <3> HAVE ~ oversize[Server(d)]
    <3>1. Answered(d)
      BY <1>1 DEF ConnectionOK
    <3>2. /\ r = Front(Client(d)) /\ r \notin {NONE, JUNK}
          /\ SubSeq(stream[Client(d)], n + 1, Len(stream[Client(d)])) = <<>>
          /\ stream[Client(d)] # <<>>
      BY <3>1, AnswerReceived DEF IInv, TypeOK
    <3>3. /\ stream[Server(d)] = <<>> /\ pending[d] = NULL
          /\ Truthful(d, command[d], Front(Client(d)).status)
      BY <3>1, <3>2 DEF Answered
    <3> QED BY <2>5, <3>2, <3>3, Zenon
  <2>7. SocketsOK(d)'
    BY <1>1, <1>2, <1>3, <2>4, <2>5 DEF SocketsOK, ServerSame
  <2>8. LoginOK(d)'
    BY <1>1, <1>2, <2>4, <2>5, <2>6 DEF LoginOK, Truthful, ServerSame
  <2>9. ConnectionOK(d)'
    BY <1>2, <2>5, <2>6, <2>7, <2>8, IdleConnection DEF ServerSame
  <2> QED BY <1>2, <2>2, <2>3, <2>4, <2>9, OneConnection DEF TypeOK, Same
<1>5. CASE ReceiveNothing(Client(d)) /\ Finish(d, NONE)
  <2>1. ChannelOK' /\ \A c \in Clients \ {d} : ChannelSame(c)
    BY <1>0, <1>5, FailType, Elsewhere DEF IInv, TypeOK
  <2>2. /\ ClientsOK'
        /\ \A c \in Clients \ {d} : ClientSame(c)
        /\ at'[d] \in {"menu", "failed"}
    BY <1>3, <1>5, FinishType DEF IInv, TypeOK
  <2>3. /\ stream' = stream /\ oversize' = oversize /\ stream[Client(d)] = <<>>
        /\ socket'[Server(d)] = socket[Server(d)]
        /\ socket[Client(d)] \in {"fin", "reset", "broken"}
        /\ socket'[Client(d)] \in {"fin", "broken"}
    BY <1>0, <1>5 DEF ReceiveNothing, IInv, TypeOK, ChannelOK
  <2>4. stream[Server(d)] = <<>> /\ pending[d] = NULL
    BY <1>1, <2>3 DEF SocketsOK
  <2>5. SocketsOK(d)'
    BY <1>1, <1>2, <1>3, <2>2, <2>3 DEF SocketsOK, ServerSame
  <2>6. LoginOK(d)'
    BY <2>3 DEF LoginOK
  <2>7. ConnectionOK(d)'
    BY <1>2, <2>3, <2>4, <2>5, <2>6, IdleConnection DEF ServerSame
  <2> QED BY <1>2, <2>1, <2>2, <2>7, OneConnection DEF TypeOK, Same
<1> QED BY <1>3, <1>4, <1>5 DEF Respond

\* A client leaves.
LEMMA StepExit ==
  ASSUME IInv, NEW d \in Clients, Exit(d), ServerStays
  PROVE  IInv'
<1>0. /\ Client(d) \in Ends /\ Server(d) \in Ends /\ Client(d) # Server(d)
      /\ Peer(Server(d)) = Client(d)
      /\ \A c \in Clients \ {d} : /\ Client(c) \in Ends /\ Server(c) \in Ends
                                  /\ Peer(Client(c)) # Client(d) /\ Client(c) # Client(d)
                                  /\ Peer(Server(c)) # Client(d) /\ Server(c) # Client(d)
  BY EndsDiffer
<1>1. ConnectionOK(d) /\ SocketsOK(d)
  BY DEF IInv, ConnectionOK
<1>2. ServerOK' /\ \A c \in Clients : ServerSame(c)
  BY ServerStaysSame DEF IInv, TypeOK
<1>3. Close({Client(d)}, {})
  BY DEF Exit
<1>4. {Client(d)} \in SUBSET Ends
  BY <1>0
<1>5. /\ ChannelOK'
      /\ oversize' = oversize
      /\ \A e \in {Client(d)} : stream'[e] = <<>> /\ socket'[e] = "closed"
      /\ \A e \in Ends \ {Client(d)} :
           /\ stream'[e] = stream[e]
           /\ ~ (Peer(e) \in {Client(d)} /\ socket[e] = "open") => socket'[e] = socket[e]
           /\ Peer(e) \in {Client(d)} /\ socket[e] = "open" =>
                /\ socket'[e] \in {"fin", "reset", "broken"}
                /\ Peer(e) \notin {} /\ stream[Peer(e)] = <<>> => socket'[e] = "fin"
  BY <1>3, <1>4, CloseType DEF IInv, TypeOK
<1>6. /\ at' = [at EXCEPT ![d] = "exited"] /\ user' = [user EXCEPT ![d] = NULL]
      /\ command' = [command EXCEPT ![d] = NULL] /\ asked' = asked
      /\ at[d] \notin {"off", "exited"}
  BY DEF Exit
<1>7. ClientsOK' /\ \A c \in Clients \ {d} : ClientSame(c)
  BY <1>6 DEF IInv, TypeOK, ClientsOK, ClientSame
<1>8. \A c \in Clients \ {d} : ChannelSame(c)
  BY <1>0, <1>5 DEF ChannelSame
<1>9. /\ stream'[Client(d)] = <<>> /\ stream'[Server(d)] = stream[Server(d)]
      /\ socket'[Client(d)] = "closed"
      /\ socket[Server(d)] # "open" => socket'[Server(d)] = socket[Server(d)]
      /\ socket[Server(d)] = "open" =>
           /\ socket'[Server(d)] \in {"fin", "reset", "broken"}
           /\ stream[Client(d)] = <<>> => socket'[Server(d)] = "fin"
  BY <1>0, <1>5
<1>10. at'[d] = "exited" /\ user'[d] = NULL /\ asked'[d] = asked[d]
  BY <1>6 DEF IInv, TypeOK, ClientsOK
<1>11. SocketsOK(d)'
  BY <1>1, <1>2, <1>6, <1>9, <1>10 DEF SocketsOK, ServerSame
<1>12. LoginOK(d)'
  BY <1>10 DEF LoginOK
<1>13. ASSUME ~ oversize[Server(d)]
       PROVE  (Asking(d) /\ InService(d) /\ Answered(d))'
  <2>1. Asking(d) /\ InService(d) /\ Answered(d)
    BY <1>1, <1>13 DEF ConnectionOK
  <2>2. Asking(d)'
    BY <1>2, <1>9, <1>10, <2>1 DEF Asking, Whole, Front, Carried, ServerSame
  <2>3. InService(d)'
    BY <1>2, <1>9, <1>10, <2>1 DEF InService, Carried, Truthful, ServerSame
  <2> QED BY <1>9, <2>2, <2>3 DEF Answered
<1>14. ConnectionOK(d)'
  BY <1>5, <1>11, <1>12, <1>13 DEF ConnectionOK
<1> QED BY <1>2, <1>5, <1>7, <1>8, <1>14, OneConnection DEF TypeOK, Same

(*********************************************************************************)
(* The handler's steps.                                                          *)
(*********************************************************************************)
ClientsStay == UNCHANGED clientVars

\* ClientsStay is what it says.
LEMMA ClientsStaySame ==
  ASSUME ClientsStay, ClientsOK
  PROVE  ClientsOK' /\ \A c \in Clients : ClientSame(c)
  BY DEF ClientsStay, clientVars, ClientsOK, ClientSame

\* accept takes a connection from the queue.
LEMMA StepAccept ==
  ASSUME IInv, NEW d \in Clients, Accept(d)
  PROVE  IInv'
<1>1. ClientsOK' /\ \A c \in Clients : ClientSame(c)
  BY ClientsStaySame DEF IInv, TypeOK, Accept, ClientsStay, clientVars
<1>2. ChannelOK' /\ \A c \in Clients : ChannelSame(c)
  BY DEF IInv, TypeOK, Accept, channelVars, ChannelOK, ChannelSame
<1>3. /\ handler[d] = "none" /\ handler' = [handler EXCEPT ![d] = "serving"]
      /\ UNCHANGED <<serviceVars, up, number, verified>>
  BY DEF Accept
<1>4. ServerOK' /\ \A c \in Clients \ {d} : ServerSame(c)
  BY <1>3 DEF IInv, TypeOK, ServerOK, ServerSame, serviceVars
<1>5. /\ handler'[d] = "serving" /\ number'[d] = number[d] /\ verified'[d] = verified[d]
      /\ pending'[d] = pending[d] /\ reply'[d] = reply[d]
  BY <1>3 DEF IInv, TypeOK, ServerOK, serviceVars
<1>6. ConnectionOK(d)
  BY DEF IInv
<1>7. SocketsOK(d)'
  BY <1>1, <1>2, <1>5, <1>6 DEF ConnectionOK, SocketsOK, ClientSame, ChannelSame
<1>8. LoginOK(d)'
  BY <1>1, <1>2, <1>5, <1>6 DEF ConnectionOK, LoginOK, ClientSame, ChannelSame
<1>9. ASSUME ~ oversize[Server(d)]
      PROVE  (Asking(d) /\ InService(d) /\ Answered(d))'
  <2>1. Asking(d) /\ InService(d) /\ Answered(d)
    BY <1>6, <1>9 DEF ConnectionOK
  <2>2. Asking(d)'
    BY <1>1, <1>2, <1>3, <1>5, <2>1
       DEF Asking, Whole, Front, Carried, ClientSame, ChannelSame
  <2>3. InService(d)'
    BY <1>1, <1>2, <1>5, <2>1 DEF InService, Carried, Truthful, ClientSame, ChannelSame
  <2>4. Answered(d)'
    BY <1>1, <1>2, <1>5, <2>1
       DEF Answered, Whole, Front, Truthful, ClientSame, ChannelSame
  <2> QED BY <2>2, <2>3, <2>4
<1>10. ConnectionOK(d)'
  BY <1>2, <1>7, <1>8, <1>9 DEF ConnectionOK, ChannelSame
<1> QED BY <1>1, <1>2, <1>4, <1>10, OneConnection DEF TypeOK, Same

\* What a handler in step takes for a request is the request, and all there was.
LEMMA RequestReceived ==
  ASSUME ChannelOK, NEW d \in Clients, Whole(Server(d)), NEW n \in Arrivals(Server(d)),
         NEW r \in Received(Server(d), n), r # NONE, r # JUNK
  PROVE  /\ r = Front(Server(d))
         /\ SubSeq(stream[Server(d)], n + 1, Len(stream[Server(d)])) = <<>>
<1> DEFINE s == stream[Server(d)]
           m == Front(Server(d))
<1>1. s \in Seq(UnitsOf(Questions)) /\ n \in 1 .. Len(s)
  BY DEF ChannelOK, Arrivals
<1>2. s # <<>>
  BY <1>1
<1>3. s = Units(m)
  BY DEF Whole
<1>4. m \in Questions
  <2>1. s[1] \in UnitsOf(Questions)
    BY <1>1
  <2>2. s[1].value \in Questions
    BY <2>1 DEF UnitsOf
  <2> QED BY <2>2 DEF Front
<1>5. m.length \in Nat \ {0}
  BY <1>4, ClientAssumption DEF Questions
<1>6. n \in 1 .. Len(Units(m)) /\ r \in Parsed(SubSeq(Units(m), 1, n))
  BY <1>1, <1>3, Zenon DEF Received
<1>7. r = m /\ SubSeq(Units(m), n + 1, Len(Units(m))) = <<>>
  BY <1>4, <1>5, <1>6, ReceivedWhole
<1> QED BY <1>3, <1>7, Zenon

\* A request is received.
LEMMA StepReceiveRequest ==
  ASSUME IInv, NEW d \in Clients, ReceiveRequest(d)
  PROVE  IInv'
<1>0. /\ Client(d) \in Ends /\ Server(d) \in Ends /\ Client(d) # Server(d)
  BY EndsDiffer
<1>1. PICK n \in Arrivals(Server(d)) : \E m \in Received(Server(d), n) \ {NONE, JUNK} :
        /\ Take(Server(d), n)
        /\ S!Ask(d, m.request)
        /\ number' = [number EXCEPT ![d] = m.number]
  BY DEF ReceiveRequest
<1>2. PICK m \in Received(Server(d), n) \ {NONE, JUNK} :
        /\ Take(Server(d), n)
        /\ S!Ask(d, m.request)
        /\ number' = [number EXCEPT ![d] = m.number]
  BY <1>1
<1>3. Kind(Server(d)) = Questions
  BY EndsDiffer DEF Kind
<1>4. ChannelOK' /\ m \in Questions
  BY <1>0, <1>2, <1>3, TakeType DEF IInv, TypeOK
<1>5. m.request \in S!Requests /\ m.request # NULL /\ m.number \in Nat
  BY <1>4, SystemAssumption DEF Questions
<1>6. ClientsOK' /\ \A c \in Clients : ClientSame(c)
  BY ClientsStaySame DEF IInv, TypeOK, ReceiveRequest, ClientsStay, clientVars
<1>7. \A c \in Clients \ {d} : ChannelSame(c)
  <2>1. n \in Nat
    BY DEF Arrivals
  <2> QED BY <1>2, <2>1, Elsewhere DEF IInv, TypeOK
<1>8. /\ pending' = [pending EXCEPT ![d] = m.request]
      /\ reply' = [reply EXCEPT ![d] = S!Immediate(m.request)]
      /\ UNCHANGED <<up, handler, verified>>
  BY <1>2, Services DEF IInv, TypeOK, ReceiveRequest
<1>9. S!Immediate(m.request) # NULL =>
        /\ S!Immediate(m.request).status \in Statuses
        /\ m.request.action # "VERIFY_USER"
  BY DEF S!Immediate, Statuses
<1>10. ServerOK' /\ \A c \in Clients \ {d} : ServerSame(c)
  BY <1>2, <1>5, <1>8, <1>9 DEF IInv, TypeOK, ServerOK, ServerSame
<1>11. /\ handler[d] = "serving" /\ pending[d] = NULL
       /\ pending'[d] = m.request /\ reply'[d] = S!Immediate(m.request)
       /\ number'[d] = m.number /\ handler'[d] = handler[d] /\ verified'[d] = verified[d]
  BY <1>2, <1>8 DEF IInv, TypeOK, ServerOK, ReceiveRequest, Receiving
<1>12. /\ socket' = socket /\ oversize' = oversize
       /\ stream'[Client(d)] = stream[Client(d)]
       /\ stream'[Server(d)] = SubSeq(stream[Server(d)], n + 1, Len(stream[Server(d)]))
       /\ stream[Server(d)] # <<>>
  <2>1. stream[Server(d)] # <<>>
    BY DEF Arrivals, IInv, TypeOK, ChannelOK
  <2> QED BY <1>0, <1>2, <2>1 DEF Take, IInv, TypeOK, ChannelOK
<1>13. ConnectionOK(d)
  BY DEF IInv
<1>14. SocketsOK(d)'
  BY <1>5, <1>6, <1>11, <1>12, <1>13 DEF ConnectionOK, SocketsOK, ClientSame
<1>15. LoginOK(d)'
  BY <1>6, <1>11, <1>12, <1>13 DEF ConnectionOK, LoginOK, ClientSame
<1>16. ASSUME ~ oversize[Server(d)]
       PROVE  (Asking(d) /\ InService(d) /\ Answered(d))'
  <2>1. /\ at[d] \in {"recv", "exited"} /\ stream[Client(d)] = <<>>
        /\ socket[Server(d)] \in {"open", "fin"}
        /\ Whole(Server(d))
        /\ Front(Server(d)).number = asked[d]
        /\ Carried(d, Front(Server(d)).request)
    BY <1>11, <1>12, <1>13, <1>16 DEF ConnectionOK, Asking
  <2>2. m = Front(Server(d)) /\ stream'[Server(d)] = <<>>
    BY <1>2, <1>12, <2>1, RequestReceived DEF IInv, TypeOK
  <2>3. Carried(d, pending[d])'
    BY <1>6, <1>11, <2>1, <2>2 DEF Carried, ClientSame
  <2>4. number'[d] = asked'[d]
    BY <1>6, <1>11, <2>1, <2>2 DEF ClientSame
  <2>5. InService(d)'
    BY <1>6, <1>9, <1>11, <1>12, <2>1, <2>2, <2>3, <2>4
       DEF InService, Truthful, ClientSame
  <2> QED BY <1>12, <2>1, <2>2, <2>5 DEF Asking, Answered
<1>17. ConnectionOK(d)'
  BY <1>12, <1>14, <1>15, <1>16 DEF ConnectionOK
<1> QED BY <1>4, <1>6, <1>7, <1>10, <1>17, OneConnection DEF TypeOK, Same

\* HandleAction throws, and the handler ends.
LEMMA StepReceiveFails ==
  ASSUME IInv, NEW d \in Clients, ReceiveFails(d)
  PROVE  IInv'
<1>0. /\ Client(d) \in Ends /\ Server(d) \in Ends /\ Client(d) # Server(d)
  BY EndsDiffer
<1>1. ClientsOK' /\ \A c \in Clients : ClientSame(c)
  BY ClientsStaySame DEF IInv, TypeOK, ReceiveFails, ClientsStay, clientVars
<1>2. /\ handler[d] = "serving" /\ pending[d] = NULL
      /\ handler' = [handler EXCEPT ![d] = "ended"]
      /\ UNCHANGED <<up, number, verified, serviceVars>>
  BY DEF ReceiveFails, Receiving, EndHandler
<1>3. ServerOK' /\ \A c \in Clients \ {d} : ServerSame(c)
  BY <1>2 DEF IInv, TypeOK, ServerOK, ServerSame, serviceVars
<1>4. /\ handler'[d] = "ended" /\ pending'[d] = NULL /\ reply'[d] = reply[d]
      /\ verified'[d] = verified[d]
  BY <1>2 DEF IInv, TypeOK, ServerOK, serviceVars
<1>5. ConnectionOK(d) /\ SocketsOK(d) /\ LoginOK(d)
  BY DEF IInv, ConnectionOK
<1>6. CASE ReceiveNothing(Server(d))
  <2>1. ChannelOK' /\ \A c \in Clients \ {d} : ChannelSame(c)
    BY <1>0, <1>6, FailType, Elsewhere DEF IInv, TypeOK
  <2>2. /\ stream' = stream /\ oversize' = oversize /\ stream[Server(d)] = <<>>
        /\ socket'[Client(d)] = socket[Client(d)]
        /\ socket[Server(d)] \in {"fin", "reset", "broken"}
        /\ socket'[Server(d)] \in {"fin", "broken"}
    BY <1>0, <1>6 DEF ReceiveNothing, IInv, TypeOK, ChannelOK
  <2>3. SocketsOK(d)'
    BY <1>1, <1>2, <1>4, <1>5, <2>2 DEF SocketsOK, ClientSame
  <2>4. LoginOK(d)'
    BY <1>1, <1>4, <1>5, <2>2 DEF LoginOK, ClientSame
  <2>5. ~ oversize[Server(d)] => Answered(d)'
    BY <1>1, <1>4, <1>5, <2>2
       DEF ConnectionOK, Answered, Whole, Front, Truthful, ClientSame
  <2>6. ConnectionOK(d)'
    BY <1>4, <2>2, <2>3, <2>4, <2>5 DEF ConnectionOK, Asking, InService
  <2> QED BY <1>1, <1>3, <2>1, <2>6, OneConnection DEF TypeOK, Same
<1>7. CASE \E n \in Arrivals(Server(d)) : Take(Server(d), n)
  <2>1. PICK n \in Arrivals(Server(d)) : Take(Server(d), n)
    BY <1>7
  <2>2. ChannelOK'
    BY <1>0, <2>1, TakeType DEF IInv, TypeOK
  <2>3. \A c \in Clients \ {d} : ChannelSame(c)
    <3>1. n \in Nat
      BY DEF Arrivals
    <3> QED BY <2>1, <3>1, Elsewhere DEF IInv, TypeOK
  <2>4. stream[Server(d)] # <<>>
    BY DEF Arrivals, IInv, TypeOK, ChannelOK
  <2>5. socket' = socket /\ oversize' = oversize /\ stream'[Client(d)] = stream[Client(d)]
    BY <1>0, <2>1 DEF Take, IInv, TypeOK, ChannelOK
  <2>6. SocketsOK(d)'
    BY <1>1, <1>2, <1>4, <1>5, <2>4, <2>5 DEF SocketsOK, ClientSame
  <2>7. LoginOK(d)'
    BY <1>1, <1>4, <1>5, <2>5 DEF LoginOK, ClientSame
  <2>8. ~ oversize[Server(d)] => at[d] \in {"recv", "exited"} /\ stream[Client(d)] = <<>>
    BY <1>5, <2>4 DEF ConnectionOK, Asking
  <2>9. ConnectionOK(d)'
    BY <1>1, <1>4, <2>5, <2>6, <2>7, <2>8
       DEF ConnectionOK, Asking, InService, Answered, ClientSame
  <2> QED BY <1>1, <1>3, <2>2, <2>3, <2>9, OneConnection DEF TypeOK, Same
<1> QED BY <1>6, <1>7 DEF ReceiveFails

\* What serving a request does: the answer, and a name verified or not.
LEMMA HandleType ==
  ASSUME ServerOK, NEW d \in Clients, Handle(d)
  PROVE  /\ pending[d] # NULL /\ pending' = pending
         /\ reply' = [reply EXCEPT ![d] = reply'[d]]
         /\ reply'[d].status \in {"Success", "Error"}
         /\ verified' \in [Clients -> SUBSET Usernames]
         /\ \A c \in Clients \ {d} : verified'[c] = verified[c]
         /\ verified[d] \subseteq verified'[d]
         /\ pending[d].action = "VERIFY_USER" /\ reply'[d].status # "Error" =>
              pending[d].username \in verified'[d]
<1>1. \A status, body : S!Answer(d, status, body) =>
        /\ pending' = pending
        /\ reply'[d].status = status
        /\ reply' = [reply EXCEPT ![d] = reply'[d]]
  BY DEF S!Answer, ServerOK
<1>2. \/ /\ pending[d].action = "VERIFY_USER"
         /\ \E body : S!Answer(d, "Success", body)
         /\ verified' = [verified EXCEPT ![d] = @ \union {pending[d].username}]
      \/ /\ pending[d].action # "VERIFY_USER"
         /\ \E body : S!Answer(d, "Success", body)
         /\ UNCHANGED verified
      \/ /\ \E body : S!Answer(d, "Error", body)
         /\ UNCHANGED verified
  BY DEF Handle, S!Verify, S!Serve, S!Change, S!Register, S!Deliver, S!Clear, S!List, S!Show,
         S!Refuse, S!RefuseAfterChange, S!Asks
<1>3. pending[d] # NULL /\ pending[d] \in S!Requests
  BY DEF Handle, S!Verify, S!Serve, S!Change, S!Register, S!Deliver, S!Clear, S!List, S!Show,
         S!Refuse, S!RefuseAfterChange, S!Asks, ServerOK
<1>4. pending[d].action = "VERIFY_USER" => pending[d].username \in Usernames
  BY <1>3 DEF S!Requests
<1>5. /\ verified' \in [Clients -> SUBSET Usernames]
      /\ \A c \in Clients \ {d} : verified'[c] = verified[c]
      /\ verified[d] \subseteq verified'[d]
  BY <1>2, <1>4 DEF ServerOK
<1>6. \/ (\E body : S!Answer(d, "Error", body))
      \/ /\ \E body : S!Answer(d, "Success", body)
         /\ pending[d].action = "VERIFY_USER" => pending[d].username \in verified'[d]
  BY <1>2 DEF ServerOK
<1> QED BY <1>1, <1>3, <1>5, <1>6

\* A request is served.
LEMMA StepHandle ==
  ASSUME IInv, NEW d \in Clients, Handle(d)
  PROVE  IInv'
<1>1. ClientsOK' /\ \A c \in Clients : ClientSame(c)
  BY ClientsStaySame DEF IInv, TypeOK, Handle, ClientsStay, clientVars
<1>2. ChannelOK' /\ \A c \in Clients : ChannelSame(c)
  BY DEF IInv, TypeOK, Handle, channelVars, ChannelOK, ChannelSame
<1>3. /\ pending[d] # NULL /\ pending' = pending
      /\ reply' = [reply EXCEPT ![d] = reply'[d]]
      /\ reply'[d].status \in {"Success", "Error"}
      /\ verified' \in [Clients -> SUBSET Usernames]
      /\ \A c \in Clients \ {d} : verified'[c] = verified[c]
      /\ verified[d] \subseteq verified'[d]
      /\ pending[d].action = "VERIFY_USER" /\ reply'[d].status # "Error" =>
           pending[d].username \in verified'[d]
  BY HandleType DEF IInv, TypeOK
<1>4. UNCHANGED <<up, handler, number>>
  BY DEF Handle
<1>5. ServerOK' /\ \A c \in Clients \ {d} : ServerSame(c)
  BY <1>3, <1>4 DEF IInv, TypeOK, ServerOK, ServerSame, Statuses
<1>6. /\ handler'[d] = handler[d] /\ number'[d] = number[d] /\ pending'[d] = pending[d]
  BY <1>3, <1>4 DEF IInv, TypeOK, ServerOK
<1>7. ConnectionOK(d)
  BY DEF IInv
<1>8. SocketsOK(d)'
  BY <1>1, <1>2, <1>3, <1>6, <1>7 DEF ConnectionOK, SocketsOK, ClientSame, ChannelSame
<1>9. LoginOK(d)'
  BY <1>1, <1>2, <1>3, <1>7 DEF ConnectionOK, LoginOK, ClientSame, ChannelSame
<1>10. ASSUME ~ oversize[Server(d)]
       PROVE  (Asking(d) /\ InService(d) /\ Answered(d))'
  <2>1. /\ at[d] \in {"recv", "exited"}
        /\ stream[Client(d)] = <<>> /\ stream[Server(d)] = <<>>
        /\ socket[Server(d)] \in {"open", "fin"}
        /\ number[d] = asked[d]
        /\ Carried(d, pending[d])
    BY <1>3, <1>7, <1>10 DEF ConnectionOK, InService
  <2>2. Carried(d, pending[d])'
    BY <1>1, <1>3, <1>6, <2>1 DEF Carried, ClientSame
  <2>3. Truthful(d, pending[d], reply[d].status)'
    BY <1>3, <1>6 DEF Truthful
  <2>4. InService(d)'
    BY <1>1, <1>2, <1>6, <2>1, <2>2, <2>3 DEF InService, ClientSame, ChannelSame
  <2> QED BY <1>2, <2>1, <2>4 DEF Asking, Answered, ChannelSame
<1>11. ConnectionOK(d)'
  BY <1>2, <1>8, <1>9, <1>10 DEF ConnectionOK, ChannelSame
<1> QED BY <1>1, <1>2, <1>5, <1>11, OneConnection DEF TypeOK, Same

\* A step that changes the database, or what a handler knows of it.
LEMMA StepElse ==
  ASSUME IInv, UNCHANGED <<channelVars, clientVars, handler, number, verified>>,
         UNCHANGED <<pending, reply>>, up' \in BOOLEAN
  PROVE  IInv'
<1>1. ClientsOK' /\ \A c \in Clients : ClientSame(c)
  BY ClientsStaySame DEF IInv, TypeOK, ClientsStay
<1>2. ChannelOK' /\ \A c \in Clients : ChannelSame(c)
  BY DEF IInv, TypeOK, channelVars, ChannelOK, ChannelSame
<1>3. ServerOK' /\ \A c \in Clients : ServerSame(c)
  BY DEF IInv, TypeOK, ServerOK, ServerSame
<1> QED BY <1>1, <1>2, <1>3, NoConnection DEF TypeOK, Same

\* The response is sent.
LEMMA StepSendResponse ==
  ASSUME IInv, NEW d \in Clients, SendResponse(d)
  PROVE  IInv'
<1>0. /\ Client(d) \in Ends /\ Server(d) \in Ends /\ Client(d) # Server(d)
      /\ Peer(Server(d)) = Client(d)
  BY EndsDiffer
<1>1. PICK n \in ResponseLengths(d) : Send(Server(d), Response(d, n))
  BY DEF SendResponse
<1> DEFINE m == Response(d, n)
<1>2. ClientsOK' /\ \A c \in Clients : ClientSame(c)
  BY ClientsStaySame DEF IInv, TypeOK, SendResponse, ClientsStay, clientVars
<1>3. /\ reply[d] # NULL
      /\ pending' = [pending EXCEPT ![d] = NULL] /\ reply' = [reply EXCEPT ![d] = NULL]
      /\ UNCHANGED serverVars
  BY Services DEF IInv, TypeOK, SendResponse
<1>4. ServerOK' /\ \A c \in Clients \ {d} : ServerSame(c)
  BY <1>3 DEF IInv, TypeOK, ServerOK, ServerSame, serverVars
<1>5. /\ pending'[d] = NULL /\ reply'[d] = NULL
      /\ handler'[d] = handler[d] /\ verified'[d] = verified[d]
  BY <1>3 DEF IInv, TypeOK, ServerOK, serverVars
<1>6. n \in Lengths /\ n \in Nat \ {0}
  BY ClientAssumption DEF ResponseLengths
<1>7. m \in Answers
  BY <1>3, <1>6 DEF IInv, TypeOK, ServerOK, Response, Answers
<1>8. Kind(Client(d)) = Answers
  BY DEF Kind
<1>9. ChannelOK' /\ \A c \in Clients \ {d} : ChannelSame(c)
  BY <1>0, <1>1, <1>7, <1>8, SendType, Elsewhere DEF IInv, TypeOK
<1>10. ConnectionOK(d) /\ SocketsOK(d) /\ LoginOK(d) /\ pending[d] # NULL
  BY <1>3 DEF IInv, ConnectionOK, SocketsOK
<1>11. /\ stream'[Server(d)] = stream[Server(d)]
       /\ ~ oversize'[Server(d)] => ~ oversize[Server(d)] /\ ~ Oversize(m)
       /\ socket'[Client(d)] = socket[Client(d)]
  BY <1>0, <1>1 DEF Send, IInv, TypeOK, ChannelOK
<1>12. ~ oversize'[Server(d)] => ~ oversize[Server(d)] /\ m.length = 1
  <2>1. m.length = n
    BY DEF Response
  <2>2. ~ Oversize(m) => n = 1
    BY <1>6, <2>1 DEF Oversize, BUFFER_SIZE
  <2> QED BY <1>11, <2>1, <2>2
<1>13. ~ oversize[Server(d)] =>
         /\ at[d] \in {"recv", "exited"}
         /\ stream[Client(d)] = <<>> /\ stream[Server(d)] = <<>>
         /\ number[d] = asked[d]
         /\ Carried(d, pending[d])
         /\ Truthful(d, pending[d], reply[d].status)
  BY <1>3, <1>10 DEF ConnectionOK, InService
<1>14. LoginOK(d)'
  BY <1>2, <1>5, <1>10, <1>11 DEF LoginOK, ClientSame
<1>15. CASE socket[Server(d)] = "open"
  <2>1. /\ stream'[Client(d)] = stream[Client(d)] \o Units(m)
        /\ socket' = socket
    BY <1>0, <1>1, <1>15 DEF Send, IInv, TypeOK, ChannelOK
  <2>2. SocketsOK(d)'
    BY <1>2, <1>5, <1>10, <1>11, <1>15, <2>1 DEF SocketsOK, ClientSame
  <2>3. ASSUME ~ oversize'[Server(d)]
        PROVE  (Asking(d) /\ InService(d) /\ Answered(d))'
    <3>1. m.length = 1 /\ m.length \in Nat /\ m.length > 0
      BY <1>12, <2>3
    <3>2. Units(m) \in Seq(UnitsOf(Answers)) /\ Units(m)[1].value = m
      BY <1>7, <3>1, UnitsType
    <3>3. stream'[Client(d)] = Units(m)
      BY <1>12, <1>13, <2>1, <2>3, <3>2, ConcatEmptySeq
    <3>4. Whole(Client(d))' /\ Front(Client(d))' = m
      BY <3>2, <3>3 DEF Whole, Front
    <3>5. at'[d] = "recv" /\ command'[d] = pending[d]
      BY <1>2, <1>10, <1>12, <1>13, <1>15, <2>3 DEF SocketsOK, Carried, ClientSame
    <3>6. m.number = asked'[d] /\ m.status = reply[d].status
      BY <1>2, <1>12, <1>13, <2>3 DEF Response, ClientSame
    <3>7. command'[d].action = "VERIFY_USER" /\ m.status # "Error" =>
            command'[d].username \in verified'[d]
      BY <1>5, <1>12, <1>13, <2>3, <3>5, <3>6 DEF Truthful
    <3>8. stream'[Server(d)] = <<>>
      BY <1>11, <1>12, <1>13, <2>3
    <3>9. Answered(d)'
      BY <1>5, <3>1, <3>4, <3>5, <3>6, <3>7, <3>8 DEF Answered, Truthful
    <3> QED BY <1>5, <3>8, <3>9 DEF Asking, InService
  <2>4. ConnectionOK(d)'
    BY <1>14, <2>2, <2>3 DEF ConnectionOK
  <2> QED BY <1>2, <1>4, <1>9, <2>4, OneConnection DEF TypeOK, Same
<1>16. CASE socket[Server(d)] # "open"
  <2>1. /\ stream' = stream
        /\ socket[Server(d)] = "fin" /\ socket'[Server(d)] \in {"fin", "broken"}
    BY <1>0, <1>1, <1>16 DEF Send, IInv, TypeOK, ChannelOK
  <2>2. SocketsOK(d)'
    BY <1>2, <1>5, <1>10, <1>11, <2>1 DEF SocketsOK, ClientSame
  <2>3. ConnectionOK(d)'
    BY <1>5, <1>12, <1>13, <1>14, <2>1, <2>2, IdleConnection
  <2> QED BY <1>2, <1>4, <1>9, <2>3, OneConnection DEF TypeOK, Same
<1> QED BY <1>15, <1>16

\* The response cannot be sent.
LEMMA StepResponseFails ==
  ASSUME IInv, NEW d \in Clients, ResponseFails(d)
  PROVE  IInv'
<1>0. /\ Client(d) \in Ends /\ Server(d) \in Ends /\ Client(d) # Server(d)
  BY EndsDiffer
<1>1. ClientsOK' /\ \A c \in Clients : ClientSame(c)
  BY ClientsStaySame DEF IInv, TypeOK, ResponseFails, ClientsStay, clientVars
<1>2. /\ reply[d] # NULL
      /\ pending' = [pending EXCEPT ![d] = NULL] /\ reply' = [reply EXCEPT ![d] = NULL]
      /\ handler' = [handler EXCEPT ![d] = "ended"]
      /\ UNCHANGED <<up, number, verified>>
  BY Services DEF IInv, TypeOK, ResponseFails, EndHandler
<1>3. ServerOK' /\ \A c \in Clients \ {d} : ServerSame(c)
  BY <1>2 DEF IInv, TypeOK, ServerOK, ServerSame
<1>4. pending'[d] = NULL /\ reply'[d] = NULL /\ verified'[d] = verified[d]
  BY <1>2 DEF IInv, TypeOK, ServerOK
<1>5. SendFails(Server(d))
  BY DEF ResponseFails
<1>6. ChannelOK' /\ \A c \in Clients \ {d} : ChannelSame(c)
  BY <1>0, <1>5, FailType, Elsewhere DEF IInv, TypeOK
<1>7. /\ stream' = stream /\ oversize' = oversize
      /\ socket'[Client(d)] = socket[Client(d)]
      /\ socket[Server(d)] = "reset" /\ socket'[Server(d)] = "broken"
  BY <1>0, <1>5 DEF SendFails, IInv, TypeOK, ChannelOK
<1>8. ConnectionOK(d) /\ SocketsOK(d) /\ LoginOK(d)
  BY DEF IInv, ConnectionOK
<1>9. oversize[Server(d)]
  BY <1>2, <1>7, <1>8 DEF ConnectionOK, InService, SocketsOK
<1>10. SocketsOK(d)'
  BY <1>1, <1>4, <1>7, <1>8 DEF SocketsOK, ClientSame
<1>11. LoginOK(d)'
  BY <1>7, <1>9 DEF LoginOK
<1>12. ConnectionOK(d)'
  BY <1>7, <1>9, <1>10, <1>11 DEF ConnectionOK
<1> QED BY <1>1, <1>3, <1>6, <1>12, OneConnection DEF TypeOK, Same

(*********************************************************************************)
(* The server's steps, and the theorems.                                         *)
(*********************************************************************************)
\* The server process ends, for whatever reason.
LEMMA StepDown ==
  ASSUME IInv, Down, S!Halt
  PROVE  IInv'
<1> DEFINE E == {Server(c) : c \in {c \in Clients : socket[Server(c)] \notin {"none", "closed"}}}
           U == {Server(c) : c \in {c \in Clients : handler[c] = "none"}}
<1>1. ClientsOK' /\ \A c \in Clients : ClientSame(c)
  BY ClientsStaySame DEF IInv, TypeOK, Down, ClientsStay, clientVars
<1>2. E \in SUBSET Ends
  BY EndsDiffer
<1>3. Close(E, U)
  BY DEF Down
<1>4. /\ ChannelOK'
      /\ oversize' = oversize
      /\ \A e \in E : stream'[e] = <<>> /\ socket'[e] = "closed"
      /\ \A e \in Ends \ E :
           /\ stream'[e] = stream[e]
           /\ ~ (Peer(e) \in E /\ socket[e] = "open") => socket'[e] = socket[e]
           /\ Peer(e) \in E /\ socket[e] = "open" =>
                /\ socket'[e] \in {"fin", "reset", "broken"}
                /\ Peer(e) \notin U /\ stream[Peer(e)] = <<>> => socket'[e] = "fin"
  BY <1>2, <1>3, CloseType DEF IInv, TypeOK
<1>5. /\ pending' = [c \in Clients |-> NULL] /\ reply' = [c \in Clients |-> NULL]
      /\ up' = FALSE /\ number' = number /\ verified' = verified
      /\ handler' = [c \in Clients |->
                       IF handler[c] = "serving" THEN "ended" ELSE handler[c]]
  BY DEF Down, S!Halt
<1>6. ServerOK'
  BY <1>5 DEF IInv, TypeOK, ServerOK
<1>7. ASSUME NEW c \in Clients
      PROVE  ConnectionOK(c)'
  <2>1. ConnectionOK(c) /\ SocketsOK(c) /\ LoginOK(c)
    BY DEF IInv, ConnectionOK
  <2>2. /\ Client(c) \in Ends \ E /\ Peer(Client(c)) = Server(c)
        /\ Server(c) \in Ends /\ Peer(Server(c)) \notin E
        /\ Server(c) \in E <=> socket[Server(c)] \notin {"none", "closed"}
    BY EndsDiffer
  <2>3. /\ stream'[Client(c)] = stream[Client(c)]
        /\ socket[Client(c)] # "open" => socket'[Client(c)] = socket[Client(c)]
        /\ socket[Client(c)] = "open" => socket'[Client(c)] \in {"fin", "reset", "broken"}
    BY <1>4, <2>1, <2>2 DEF SocketsOK
  <2>4. /\ stream'[Server(c)] = <<>>
        /\ socket'[Server(c)] = IF socket[Server(c)] = "none" THEN "none" ELSE "closed"
    BY <1>4, <2>1, <2>2 DEF SocketsOK
  <2>5. pending'[c] = NULL /\ reply'[c] = NULL /\ verified'[c] = verified[c]
    BY <1>5
  <2>6. SocketsOK(c)'
    BY <1>1, <2>1, <2>3, <2>4, <2>5 DEF SocketsOK, ClientSame
  <2>7. LoginOK(c)'
    BY <1>1, <1>4, <2>1, <2>3, <2>5 DEF LoginOK, ClientSame
  <2>8. ~ oversize[Server(c)] => Answered(c)'
    BY <1>1, <2>1, <2>3, <2>4, <2>5
       DEF ConnectionOK, Answered, Whole, Front, Truthful, ClientSame
  <2> QED BY <1>4, <2>4, <2>5, <2>6, <2>7, <2>8 DEF ConnectionOK, Asking, InService
<1> QED BY <1>1, <1>4, <1>6, <1>7 DEF IInv, TypeOK

\* Nobody is connected at first.
LEMMA InitHolds ==
  Init => IInv
<1> SUFFICES ASSUME Init PROVE IInv
  OBVIOUS
<1>0. \A c \in Clients : /\ Client(c) \in Ends /\ Server(c) \in Ends
  BY EndsDiffer
<1>1. ChannelOK
  BY <1>0, EmptySeq DEF Init, ChannelInit, ChannelOK, SocketStates
<1>2. ClientsOK
  BY ClientAssumption DEF Init, ClientInit, ClientsOK
<1>3. ServerOK
  BY ClientAssumption DEF Init, S!Init, ServerOK
<1>4. ASSUME NEW c \in Clients
      PROVE  ConnectionOK(c)
  <2>1. /\ stream[Client(c)] = <<>> /\ stream[Server(c)] = <<>>
        /\ socket[Client(c)] = "none" /\ socket[Server(c)] = "none"
        /\ at[c] = "off" /\ user[c] = NULL
        /\ pending[c] = NULL /\ reply[c] = NULL
    BY <1>0 DEF Init, ChannelInit, ClientInit, S!Init
  <2> QED BY <2>1 DEF ConnectionOK, SocketsOK, LoginOK, Asking, InService, Answered
<1> QED BY <1>1, <1>2, <1>3, <1>4 DEF IInv, TypeOK

\* Every step of a client, a handler or the server keeps the invariant.
LEMMA NextHolds ==
  IInv /\ [Next]_vars => IInv'
<1> SUFFICES ASSUME IInv, [Next]_vars PROVE IInv'
  OBVIOUS
<1>1. ASSUME NEW c \in Clients, ClientStep(c)
      PROVE  IInv'
  <2>1. ServerStays
    BY <1>1 DEF ClientStep, ServerStays
  <2>2. \/ ConnectToServer(c) \/ Execute(c) \/ Respond(c) \/ LogOut(c) \/ Exit(c)
    BY <1>1 DEF ClientStep
  <2> QED BY <2>1, <2>2, StepConnect, StepExecute, StepRespond, StepLogOut, StepExit
<1>2. ASSUME NEW c \in Clients, HandlerStep(c)
      PROVE  IInv'
  <2>1. CASE Misses(c)
    BY <2>1, StepElse DEF Misses, S!Miss, serverVars, IInv, TypeOK, ServerOK
  <2>2. CASE \/ Accept(c) \/ ReceiveRequest(c) \/ ReceiveFails(c) \/ Handle(c)
             \/ SendResponse(c) \/ ResponseFails(c)
    BY <2>2, StepAccept, StepReceiveRequest, StepReceiveFails, StepHandle,
       StepSendResponse, StepResponseFails
  <2> QED BY <1>2, <2>1, <2>2 DEF HandlerStep
<1>3. CASE DiesOfMessage \/ DiesOfPipe \/ Killed
  BY <1>3, StepDown DEF DiesOfMessage, DiesOfPipe, Killed, S!GoDown
<1>4. CASE Restart
  BY <1>4, StepElse DEF Restart, S!RestoreLink
<1>5. CASE LoseDatabase
  BY <1>5, StepElse DEF LoseDatabase, S!LoseLink, serverVars, IInv, TypeOK, ServerOK
<1>6. CASE UNCHANGED vars
  BY <1>6, StepElse DEF vars, serverVars, serviceVars, IInv, TypeOK, ServerOK
<1> QED BY <1>1, <1>2, <1>3, <1>4, <1>5, <1>6 DEF Next

\* A client has one request under way at most, in one place, as long as no response
\* filled the client's buffer: what all the following rest on.
THEOREM InvariantHolds == Spec => []IInv
  BY InitHolds, NextHolds, PTL DEF Spec

\* Requests go one way and responses the other, all variables keep their types.
THEOREM TypeCorrect == Spec => []TypeOK
<1>1. IInv => TypeOK
  BY DEF IInv
<1> QED BY <1>1, InvariantHolds, PTL

\* What ReceiveJson of a command reads is the response to that command.
THEOREM ClientsInStep == Spec => []InStep
<1>1. IInv => InStep
  <2> SUFFICES ASSUME IInv, NEW c \in Clients, ~ oversize[Server(c)],
                      NEW i \in DOMAIN stream[Client(c)]
               PROVE  at[c] = "recv" /\ stream[Client(c)][i].value.number = asked[c]
    BY DEF InStep
  <2>1. stream[Client(c)] \in Seq(UnitsOf(Answers))
    BY DEF IInv, TypeOK, ChannelOK
  <2>2. stream[Client(c)] # <<>>
    BY <2>1
  <2>3. /\ at[c] = "recv" /\ stream[Client(c)] = Units(Front(Client(c)))
        /\ Front(Client(c)).number = asked[c]
    BY <2>2 DEF IInv, ConnectionOK, Answered, Whole
  <2>4. \A m : \A j \in DOMAIN Units(m) : Units(m)[j].value = m
    BY DEF Units
  <2>5. stream[Client(c)][i].value = Front(Client(c))
    BY <2>3, <2>4, Zenon
  <2> QED BY <2>3, <2>5
<1> QED BY <1>1, InvariantHolds, PTL

\* A client that has its server, and is in step, is logged in only under a name that
\* was verified on its connection (LogIn).
THEOREM LoginsVerified == Spec => []LoginVerified
<1>1. IInv => LoginVerified
  BY DEF IInv, ConnectionOK, LoginVerified
<1> QED BY <1>1, InvariantHolds, PTL

\* A message is in service only under a sender's name that was verified before on the
\* connection it came by, though HandleSendMessageToUser does not check.
THEOREM MessagesVerified == Spec => []SendersVerified
<1>1. IInv => SendersVerified
  BY DEF IInv, ConnectionOK, InService, Carried, SendersVerified
<1> QED BY <1>1, InvariantHolds, PTL

\* No handler has a response to send on a connection where send would kill the
\* server, whenever clients leave.
THEOREM PipesHold == Spec => []NoBrokenPipe
<1>1. IInv => NoBrokenPipe
  BY DEF IInv, ConnectionOK, SocketsOK, InService, NoBrokenPipe, BrokenPipe
<1> QED BY <1>1, InvariantHolds, PTL
==================================================================================
