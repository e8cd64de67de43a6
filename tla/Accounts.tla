------------------------------ MODULE Accounts ------------------------------
(***************************************************************************)
(* The auth service and the user service on one database: users register   *)
(* and log in with the first and keep their profile and their API keys     *)
(* with the second, which knows only the users the first has stored.  A    *)
(* client has one request outstanding, at either service.                  *)
(***************************************************************************)
EXTENDS AuthService, Sequences

CONSTANTS Contents

VARIABLES profile, keys, nextID, audit, call

User == INSTANCE UserService

userVars == <<profile, keys, nextID, audit, call>>

AccountsInit == Init /\ User!Init

AuthStep(c) ==
    /\ call[c].pc \in {"quiet", "updated"}
    /\ Serve(c)
    /\ UNCHANGED userVars

UserStep(c) ==
    /\ request[c].pc \in {"idle", "accepted"}
    /\ User!ServeUser(c)
    /\ UNCHANGED <<now, roles, memory, request, restarts>>

AccountsNext ==
    \/ (Tick \/ Restart) /\ UNCHANGED userVars
    \/ \E c \in Clients : AuthStep(c) \/ UserStep(c)

AccountsSpec == AccountsInit /\ [][AccountsNext]_<<vars, userVars>>

-----------------------------------------------------------------------------

\* See UserService: what an answered, unopposed update wrote is what is stored.
UpdateAnsweredStands == User!UpdateAnsweredStands

\* See UserService: one deletion of a key is told of, once its row is gone.
DeletionsAuditedOnce == User!DeletionsAuditedOnce
=============================================================================
