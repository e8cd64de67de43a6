----------------------------- MODULE UserService -----------------------------
(***************************************************************************)
(* The user service: profiles and exchange API keys.  Every operation is a *)
(* sequence of SQL statements without a transaction, each of which may     *)
(* fail, and concurrent requests interleave between them; the error of an  *)
(* audit entry is dropped.  The users table is written by the auth         *)
(* service.  Reads that change nothing are left out.                       *)
(***************************************************************************)
EXTENDS Naturals, Sequences, FiniteSets

CONSTANTS
    Clients,     \* whoever has one request outstanding
    NoEmail,     \* the user of a request that has none
    Contents,    \* what an API key is made of: its exchange and its key
    MaxRequests  \* bound on requests

VARIABLES
    users,     \* table users: who exists
    profile,   \* user -> [name, settings]: the update each was written by
    keys,      \* table user_api_keys: rows [id, user, content]
    nextID,    \* ids given to rows
    audit,     \* audit_logs of the keys: entries [action, id]
    call,      \* client -> its request
    started    \* requests received

vars == <<users, profile, keys, nextID, audit, call, started>>

Quiet == [pc |-> "quiet", user |-> NoEmail, update |-> 0, entry |-> <<>>,
          alone |-> TRUE]
NoProfile == [name |-> 0, settings |-> 0]

\* The users and the count of requests are initialised by their owner.
Init ==
    /\ profile = [u \in users |-> NoProfile]
    /\ keys = {}
    /\ nextID = 0
    /\ audit = <<>>
    /\ call = [c \in Clients |-> Quiet]

Profile(u) == IF u \in DOMAIN profile THEN profile[u] ELSE NoProfile
StoreProfile(u, p) ==
    profile' = [v \in DOMAIN profile \cup {u} |-> IF v = u THEN p ELSE profile[v]]

Begin(c) ==
    /\ call[c].pc \in {"quiet", "updated"}
    /\ started < MaxRequests
    /\ started' = started + 1
    /\ UNCHANGED users

Continue(c, pc) == call[c].pc = pc /\ UNCHANGED <<users, started>>
GoTo(c, pc) == call' = [call EXCEPT ![c].pc = pc]
Answer(c) == call' = [call EXCEPT ![c] = Quiet]

-----------------------------------------------------------------------------
(* UpdateProfile.                                                          *)

Updating(u) == {c \in Clients : call[c].pc \in {"name", "settings", "note"}
                                /\ call[c].user = u}

\* GetProfile finds the user; from here on two updates of one user overlap.
UpdateProfile(c, u) ==
    /\ Begin(c)
    /\ u \in users
    /\ call' = [d \in Clients |->
                  IF d = c THEN [Quiet EXCEPT !.pc = "name", !.user = u,
                                              !.update = started',
                                              !.alone = Updating(u) \ {c} = {}]
                  ELSE IF call[d].user = u
                       THEN [call[d] EXCEPT !.alone = FALSE]
                       ELSE call[d]]
    /\ UNCHANGED <<profile, keys, nextID, audit>>

WriteName(c) ==
    LET u == call[c].user IN
    /\ Continue(c, "name")
    /\ StoreProfile(u, [Profile(u) EXCEPT !.name = call[c].update])
    /\ GoTo(c, "settings")
    /\ UNCHANGED <<keys, nextID, audit>>

\* Slip: ON CONFLICT DO NOTHING.
InsertSettingsOnce(c) ==
    LET u == call[c].user IN
    /\ Continue(c, "settings")
    /\ StoreProfile(u, [Profile(u) EXCEPT
                          !.settings = IF @ = 0 THEN call[c].update ELSE @])
    /\ GoTo(c, "note")
    /\ UNCHANGED <<keys, nextID, audit>>

UpsertSettings(c) ==
    LET u == call[c].user IN
    /\ Continue(c, "settings")
    /\ StoreProfile(u, [Profile(u) EXCEPT !.settings = call[c].update])
    /\ GoTo(c, "note")
    /\ UNCHANGED <<keys, nextID, audit>>

\* The update is answered whether its audit entry could be written or not.
AnswerUpdate(c) ==
    /\ Continue(c, "note")
    /\ GoTo(c, "updated")
    /\ UNCHANGED <<profile, keys, nextID, audit>>

UpdateFails(c) ==
    /\ \E pc \in {"name", "settings"} : Continue(c, pc)
    /\ Answer(c)
    /\ UNCHANGED <<profile, keys, nextID, audit>>

-----------------------------------------------------------------------------
(* CreateAPIKey and DeleteAPIKey.                                          *)

Note(c, action, id) ==
    call' = [call EXCEPT ![c] =
               [Quiet EXCEPT !.pc = "audit", !.entry = <<action, id>>]]

\* The row needs its user and is unique by user, exchange and key.
CreateAPIKey(c, u, x) ==
    /\ Begin(c)
    /\ u \in users
    /\ \A k \in keys : <<k.user, k.content>> # <<u, x>>
    /\ nextID' = nextID + 1
    /\ keys' = keys \cup {[id |-> nextID', user |-> u, content |-> x]}
    /\ Note(c, "created", nextID')
    /\ UNCHANGED <<profile, audit>>

\* Slip: the number of deleted rows is not looked at.
DeleteUnchecked(c, u, id) ==
    /\ Begin(c)
    /\ keys' = {k \in keys : <<k.user, k.id>> # <<u, id>>}
    /\ Note(c, "deleted", id)
    /\ UNCHANGED <<profile, nextID, audit>>

\* No row of this user is not found, and refused.
DeleteAPIKey(c, u, id) ==
    /\ Begin(c)
    /\ \E k \in keys :
         /\ k.user = u /\ k.id = id
         /\ keys' = keys \ {k}
    /\ Note(c, "deleted", id)
    /\ UNCHANGED <<profile, nextID, audit>>

\* The entry is written, or its error is dropped.
WriteAuditLog(c) ==
    /\ Continue(c, "audit")
    /\ audit' \in {Append(audit, call[c].entry), audit}
    /\ Answer(c)
    /\ UNCHANGED <<profile, keys, nextID>>

ServeUser(c) ==
    \/ \E u \in users :
         \/ UpdateProfile(c, u)
         \/ \E x \in Contents : CreateAPIKey(c, u, x)
         \/ \E id \in 1..nextID : DeleteAPIKey(c, u, id)
    \/ WriteName(c) \/ UpsertSettings(c) \/ AnswerUpdate(c) \/ UpdateFails(c)
    \/ WriteAuditLog(c)

Next == \E c \in Clients : ServeUser(c)

-----------------------------------------------------------------------------

\* An update of a profile that was answered with success and that no other
\* update of its user overlapped is what the two tables hold: its name and its
\* settings both, although they are written by two statements.
UpdateAnsweredStands ==
    \A c \in Clients :
        call[c].pc = "updated" /\ call[c].alone =>
            profile[call[c].user] = [name |-> call[c].update,
                                     settings |-> call[c].update]

\* However deletions of one key race, at most one is found in the audit log,
\* and only once the row of the key is gone.
DeletionsAuditedOnce ==
    \A i, j \in DOMAIN audit :
        audit[i][1] = "deleted" =>
            /\ \A k \in keys : k.id # audit[i][2]
            /\ audit[j] = audit[i] => i = j
=============================================================================
