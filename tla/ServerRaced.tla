------------------------------- MODULE ServerRaced -------------------------------
(*********************************************************************************)
(* Server with a history variable: the connections that Stop raced with, because *)
(* the acceptor was taking them in while Stop ran.  It restricts nothing, and    *)
(* lets the properties name the connections Stop cannot answer for, and no other *)
(* exception.                                                                    *)
(*********************************************************************************)
EXTENDS ServerProperties

VARIABLE raced

\* The connection that accept has returned and that has no thread yet.
InHand ==
  {c \in Conns : \/ apc \in {"returned", "emplace"} /\ asock # -1 /\ fdt[asock] = c
                 \/ apc = "register" /\ m_ClientHandlers # <<>> /\ Last(m_ClientHandlers) = c}

RacedInit == Init /\ raced = {}

RacedNext == Next /\ raced' = IF Stopping' THEN raced \union InHand' ELSE raced

racedVars == <<vars, raced>>

RacedSpec == RacedInit /\ [][RacedNext]_racedVars

(*********************************************************************************)
(* What Stop does, but for the connections it races with.                        *)
(*********************************************************************************)
\* A handler thread runs without its ClientHandler in one case: the acceptor made both
\* while Stop ran, and Stop is between its two clear() calls, the second of which
\* terminates the process.  Nothing else terminates it but the acceptor: every thread
\* made before Stop was joined before (Server.cpp:94-100).
NothingFreedInUse ==
  /\ dead => raced # {}
  /\ \A c \in Conns : Runs(c) /\ ~ alive[c] => c \in raced /\ (dead \/ cpc = "clearThreads")

\* Once Stop has returned nothing is left of the run, whatever the clients were doing:
\* no descriptor, no handler, no thread, but those of connections it raced with, which
\* the acceptor may drop without closing them (Server.cpp:66).
StopLeavesNothing ==
  cpc \in {"idle", "start"} /\ apc = "none" =>
    /\ \A f \in Fds : fdt[f] = "free" \/ fdt[f] \in raced
    /\ ToSet(m_ClientHandlers) \subseteq raced /\ ToSet(m_ClientThreads) \subseteq raced
    /\ \A c \in Conns \ raced : ~ alive[c] /\ pc[c] = "none"

\* A client only ever gets answers to its own requests, also while Stop closes
\* descriptors that handler threads are still about to use; unless its connection is one
\* that got the number of such a descriptor.
NoCrossTalk == \A d \in Conns \ raced : answers[d] \subseteq {d}

\* Start throws only because a connection is left that the SERVER closed first, or one
\* that an earlier Stop raced with: a connection whose client had gone before Stop does
\* not keep the port busy (no SO_REUSEADDR).
StartThrowsOnlyWhenLingering ==
  [][~ threw /\ threw' =>
       \E c \in Conns : conn[c] = "lingering" \/ (conn[c] = "accepted" /\ c \in raced)]_racedVars

(*********************************************************************************)
(* The inductive invariant: StopInv, and what a connection that did not race     *)
(* with Stop can count on.                                                       *)
(*********************************************************************************)
\* While Stop runs, whatever the acceptor has in hand races with it.
RacedOK ==
  /\ raced \subseteq Conns
  /\ dead => raced # {}
  /\ Stopping => InHand \subseteq raced /\ (apc = "register" => raced # {})
  /\ ~ Stopping /\ apc # "none" => ~ m_Stop

\* Stop has joined the threads, destroyed the handlers, destroyed the threads of a run.
Joined  == apc = "none" \/ cpc \in {"clearHandlers", "clearThreads", "setStop",
                                    "closeListener", "joinAcceptor"}
Cleared == apc = "none" \/ cpc \in {"clearThreads", "setStop", "closeListener", "joinAcceptor"}
Over    == apc = "none" \/ cpc \in {"setStop", "closeListener", "joinAcceptor"}

\* Stop joins a thread before it destroys the handler, and leaves neither.
JoinsOK ==
  /\ \A c \in Conns : pc[c] # "none" /\ ~ alive[c] =>
       c \in raced /\ (dead \/ cpc = "clearThreads")
  /\ \A c \in Conns \ raced :
       /\ cpc = "joining" /\ pc[c] # "none" => c \in ToSet(todo)
       /\ Joined => pc[c] = "none"
       /\ Cleared => ~ alive[c]
  /\ Over => ToSet(m_ClientThreads) \subseteq raced

Held(c) == \E f \in Fds : fdt[f] = c

\* A descriptor is its handler's, or on its way to one, or was dropped on that way.  A
\* number that was read, and closed since, is at worst that of a connection that raced.
HoldersOK ==
  /\ \A f, g \in Fds : fdt[f] \in Conns /\ fdt[f] = fdt[g] => f = g
  /\ \A f \in Fds : fdt[f] \in Conns =>
       \/ h_ClientSocket[fdt[f]] = f
       \/ Fresh(fdt[f]) /\ (fdt[f] \in raced \/ (apc \in {"returned", "emplace"} /\ asock = f))
  /\ cpc = "forget" => alive[Head(todo)] /\ ~ Held(Head(todo))
  /\ \A c \in Conns :
       /\ h_ClientSocket[c] # -1 => fdt[h_ClientSocket[c]] \notin Conns \ (raced \union {c})
       /\ pc[c] \in {"recv", "send"} =>
            /\ arg[c] # -1 => fdt[arg[c]] \notin Conns \ (raced \union {c})
            /\ Held(c) => arg[c] # -1 /\ fdt[arg[c]] = c
       /\ on[c] # c => on[c] \in raced /\ ~ Held(c)
       /\ conn[c] = "accepted" => Held(c) \/ \E o \in Conns : pc[o] = "blocked" /\ on[o] = c

RacedInv == RacedOK /\ JoinsOK /\ HoldersOK /\ NoCrossTalk

IInv == StopInv /\ RacedInv
==================================================================================
