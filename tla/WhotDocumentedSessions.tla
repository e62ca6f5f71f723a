----------------------- MODULE WhotDocumentedSessions -----------------------
(* What the documentation of the repository says of a player who leaves,   *)
(* as a property of WhotSessions that the server does not have.            *)
EXTENDS WhotSessions

\* In this step the close of a connection is handled.
Ends(s) == link[s] # "closed" /\ link'[s] = "closed"

(* docs/implementation-manual.md:317, of a dropped connection: "removes    *)
(* the player, broadcasts PLAYER_LEFT".  leaveGame is given references to  *)
(* the session's strings and blanks them before it broadcasts.             *)
LeavingByCloseIsTold ==
    [][ \A s \in Session : (Ends(s) /\ seats' # seats) => Attached' \subseteq told' ]_vars
=============================================================================
