--------------------------------- MODULE MCServer --------------------------------
(* Server for TLC.                                                               *)
EXTENDS ServerProperties, TLC

Symmetry == Permutations(Conns)

Call(name) == [do |-> name]

\* exe_server, which then Waits.
RunForever == <<Call("Start")>>

\* What the tests of the server do: Start, Restart, Stop; and a Start of a server that
\* is already running.
Lifecycle == <<Call("Start"), Call("Start"), Call("Restart"), Call("Stop")>>

StartAndStop == <<Call("Start"), Call("Stop")>>
==================================================================================
