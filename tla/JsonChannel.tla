------------------------------- MODULE JsonChannel --------------------------------
(*********************************************************************************)
(* JsonHandler over TCP (Linux): JSON values written by send and read by recv    *)
(* calls of at most BUFFER_SIZE bytes, one of which is taken for one value.      *)
(*                                                                               *)
(* The bytes are counted in units of half a buffer.  A value of one unit fits    *)
(* the buffer and travels in one segment; a value of two units fills the buffer  *)
(* to the last byte; longer ones arrive in pieces.                               *)
(*********************************************************************************)
EXTENDS Naturals, Sequences

CONSTANTS Clients  \* a connection is named after the client process that opened it

VARIABLES stream,   \* stream[e]: the units that reached end e and were not read yet
          socket,   \* socket[e]: what send and recv of end e meet
          oversize  \* history: oversize[e] is TRUE when e has sent a value that does
                    \* not fit the buffer with its terminator

channelVars == <<stream, socket, oversize>>

BUFFER_SIZE == 2

Client(c) == <<c, "client">>
Server(c) == <<c, "server">>
Ends == Clients \X {"client", "server"}
Peer(e) == IF e = Client(e[1]) THEN Server(e[1]) ELSE Client(e[1])

\* "none"    not connected yet        "closed"  closed by its own process
\* "open"    established              "fin"     closed by the peer
\* "reset"   reset by the peer, which the next call reports
\* "broken"  reset, and nothing is left to report: recv returns 0, send raises SIGPIPE
SocketStates == {"none", "open", "fin", "reset", "broken", "closed"}

(*********************************************************************************)
(* What one recv took, and what Json::parse makes of it.                         *)
(*********************************************************************************)
\* What ReceiveJson leaves in its argument when it fails: a null value.
NONE == [json |-> "null"]
\* A value that is neither null nor an object.
JUNK == [json |-> "array"]

Oversize(m) == m.length >= BUFFER_SIZE

Units(m) == [i \in 1 .. m.length |-> [value |-> m, part |-> i]]

\* The buffer has no room for a terminator when recv fills it, and parse reads on.
Terminated(s) == Len(s) < BUFFER_SIZE

\* All of it from inside one value, neither its first nor its last unit.
Inside(s) ==
  /\ \A i \in DOMAIN s : s[i].value = s[1].value
  /\ s[1].part > 1
  /\ s[Len(s)].part < s[1].value.length

\* The bytes of a whole value parse.  So may a piece from the inside, to a number say.
\* No other cut of JSON objects does: a head is not closed, and what follows the
\* object a text starts with, or a tail, is an error.
Parsed(s) ==
  LET m == s[1].value
  IN  IF s = Units(m) THEN {m} \union (IF Terminated(s) THEN {} ELSE {NONE})
      ELSE IF Inside(s) THEN {NONE, JUNK}
      ELSE {NONE}

\* How many units recv may return: those that have arrived by then, and no more than fit.
Arrivals(e) == {n \in 1 .. Len(stream[e]) : n <= BUFFER_SIZE}

\* What ReceiveJson may make of n units.
Received(e, n) == Parsed(SubSeq(stream[e], 1, n))

Take(e, n) ==
  /\ stream' = [stream EXCEPT ![e] = SubSeq(@, n + 1, Len(@))]
  /\ UNCHANGED <<socket, oversize>>

\* recv returns 0 or -1.
ReceiveNothing(e) ==
  /\ stream[e] = <<>>
  /\ socket[e] \in {"fin", "reset", "broken"}
  /\ socket' = [socket EXCEPT ![e] = IF @ = "reset" THEN "broken" ELSE @]
  /\ UNCHANGED <<stream, oversize>>

(*********************************************************************************)
(* Sending.                                                                      *)
(*********************************************************************************)
\* send returns the length.  A peer that has closed answers with a reset.
Send(e, m) ==
  /\ \/ /\ socket[e] = "open"
        /\ stream' = [stream EXCEPT ![Peer(e)] = @ \o Units(m)]
        /\ UNCHANGED socket
     \/ /\ socket[e] = "fin"
        /\ \E s \in {"fin", "broken"} : socket' = [socket EXCEPT ![e] = s]
        /\ UNCHANGED stream
  /\ oversize' = [oversize EXCEPT ![e] = @ \/ Oversize(m)]

\* send returns -1 and SendJson false.
SendFails(e) ==
  /\ socket[e] = "reset"
  /\ socket' = [socket EXCEPT ![e] = "broken"]
  /\ UNCHANGED <<stream, oversize>>

\* send does not return: the process dies of SIGPIPE, which nothing handles.
BrokenPipe(e) == socket[e] = "broken"

(*********************************************************************************)
(* Connections.                                                                  *)
(*********************************************************************************)
Establish(c) ==
  /\ socket[Client(c)] = "none"
  /\ socket' = [socket EXCEPT ![Client(c)] = "open", ![Server(c)] = "open"]
  /\ UNCHANGED <<stream, oversize>>

\* close, by a call or with the process, of the ends in E.  A peer gets a reset in
\* place of the end of the stream when data it sent is not read: at once if the data
\* had arrived, and after the end of the stream if it had not.  Ends that were not
\* accepted yet are reset with the listening socket.
Close(E, unaccepted) ==
  /\ \E how \in [E -> {"fin", "reset", "broken"}] :
       /\ \A e \in E : CASE e \in unaccepted   -> how[e] = "reset"
                        [] stream[e] = <<>> -> how[e] = "fin"
                        [] OTHER            -> TRUE
       /\ socket' = [e \in Ends |->
            IF e \in E THEN "closed"
            ELSE IF Peer(e) \in E /\ socket[e] = "open" THEN how[Peer(e)]
            ELSE socket[e]]
  /\ stream' = [e \in Ends |-> IF e \in E THEN <<>> ELSE stream[e]]
  /\ UNCHANGED oversize

ChannelInit ==
  /\ stream = [e \in Ends |-> <<>>]
  /\ socket = [e \in Ends |-> "none"]
  /\ oversize = [e \in Ends |-> FALSE]
==================================================================================
