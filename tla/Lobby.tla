------------------------------- MODULE Lobby --------------------------------
(***************************************************************************)
(* Contents/Lobby.cpp: the registry of users, a map from user id to the    *)
(* session the user is connected through, guarded by the lobby's mutex_.   *)
(* User id 0 is nobody: userIdCount_ starts at 1 and a session whose user  *)
(* is not known yet holds 0.                                               *)
(***************************************************************************)
EXTENDS Naturals, SessionManager

VARIABLES users,          \* users_: user id -> session id
          userIdCount     \* userIdCount_

lobbyVars == << users, userIdCount >>

NoUser == 0

(* Mutant of LobbyInit: the first user gets the id that means nobody.      *)
LobbyInit_FromZero ==
  /\ users = << >>
  /\ userIdCount = 0

LobbyInit ==
  /\ users = << >>
  /\ userIdCount = 1

(* users_.emplace(userIdCount_, ...): the next user is connected through s. *)
CreateUser(s) ==
  /\ users' = [u \in DOMAIN users \cup {userIdCount} |->
                 IF u \in DOMAIN users THEN users[u] ELSE s]
  /\ userIdCount' = userIdCount + 1

(* users_.erase(userId): a no-op for an id that is not registered.         *)
DeleteUser(userId) ==
  /\ users' = [u \in DOMAIN users \ {userId} |-> users[u]]
  /\ UNCHANGED userIdCount

=============================================================================
