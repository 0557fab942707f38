------------------------------- MODULE MCChatSystem -------------------------------
(* ChatSystem for TLC.                                                           *)
EXTENDS ChatSystemProperties, TLC

CONSTANTS c1, c2  \* the clients

\* One client that goes through a session.
SessionOfOne == [c \in {c1} |-> 5]

\* Two clients of which the second only connects, and holds a descriptor.
SessionBesideAnother == c1 :> 4 @@ c2 :> 0

NameSymmetry == Permutations(Usernames)

AllActions == {"CREATE_USER", "VERIFY_USER", "SEND_MESSAGE_TO_USER",
               "SHOW_CHAT_HISTORY_WITH_USER", "LIST_USERS", "TRUNCATE_TABLES",
               "CHECK_CONNECTION_WITH_SERVER"}
==================================================================================
