------------------------------ MODULE MCClientHandler ----------------------------
(* ClientHandler for TLC.                                                        *)
EXTENDS ClientHandlerProperties, TLC

\* All but one of the texts and names are interchangeable.
Symmetry == Permutations(Handlers) \union Permutations(Usernames)
              \union Permutations(Passwords) \union Permutations(Salts)

NameSymmetry == Permutations(Usernames)

AllActions == {r.action : r \in Requests}

\* What accounts, and verifying them, depend on.
AccountActions == {"CREATE_USER", "VERIFY_USER", "TRUNCATE_TABLES"}

\* What either depends on.
WriteAndVerifyActions == AccountActions \union {"SEND_MESSAGE_TO_USER"}

\* What messages depend on.
MessageActions == {"CREATE_USER", "SEND_MESSAGE_TO_USER", "TRUNCATE_TABLES"}
==================================================================================
