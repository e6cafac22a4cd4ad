------------------------------ MODULE Accounts ------------------------------
(* Accounts and how administrators change them (modules/adminmanagement, and *)
(* the status route of modules/adminmutation): the statements of one         *)
(* transaction lock rows until it commits.                                   *)
EXTENDS Integers, FiniteSets

CONSTANTS Users, FirstAdmins,
          Callers,     \* requests in flight at once
          None,
          MaxChanges   \* bound: requests that change an account

VARIABLES user, change, changes

accountVars == <<user, change, changes>>

Nobody == [role |-> "USER", status |-> "NONE", version |-> 1]
NoChange == [at |-> "none", user |-> None, to |-> "none", version |-> 0, held |-> {}]
Steps == {"none", "lock", "count", "write", "set"}
Targets == {"name", "password", "USER", "ADMIN", "ACTIVE", "SUSPENDED", "DELETED"}

TypeOK ==
    /\ user \in [Users -> [role : {"USER", "ADMIN"},
                           status : {"NONE", "ACTIVE", "SUSPENDED", "DELETED"},
                           version : 1..MaxChanges + 1]]
    /\ change \in [Callers -> [at : Steps, user : Users \union {None}, to : Targets \union {"none"},
                               version : 0..MaxChanges + 1, held : SUBSET Users]]
    /\ changes \in 0..MaxChanges

Init ==
    /\ user = [u \in Users |-> IF u \in FirstAdmins
                               THEN [Nobody EXCEPT !.role = "ADMIN", !.status = "ACTIVE"] ELSE Nobody]
    /\ change = [c \in Callers |-> NoChange]
    /\ changes = 0

ActiveAdmins == {u \in Users : user[u].role = "ADMIN" /\ user[u].status = "ACTIVE"}
Named(u) == user[u].status # "NONE"
HeldByOther(c, u) == \E d \in Callers \ {c} : u \in change[d].held

Begin(c, at, u, to) ==
    /\ change[c] = NoChange /\ Named(u) /\ changes < MaxChanges
    /\ change' = [change EXCEPT ![c] = [NoChange EXCEPT !.at = at, !.user = u, !.to = to,
                                                        !.version = user[u].version]]
    /\ changes' = changes + 1
    /\ UNCHANGED user
Goes(c, at, held) == change' = [change EXCEPT ![c].at = at, ![c].held = held]
Ends(c) == change' = [change EXCEPT ![c] = NoChange]

---------------------------------------------------------------------------

\* A registration, or an administrator's new account: the unique name decides.
CreateUser(u, role) ==
    /\ ~Named(u) /\ changes < MaxChanges
    /\ user' = [user EXCEPT ![u].status = "ACTIVE", ![u].role = role]
    /\ changes' = changes + 1
    /\ UNCHANGED change
Register(u) == CreateUser(u, "USER")
CreateManagedUser(admin, u) == admin \in ActiveAdmins /\ \E role \in {"USER", "ADMIN"} : CreateUser(u, role)

Removing == {"USER", "SUSPENDED", "DELETED"}
RemovesAdministratorAccess(u, to) == u \in ActiveAdmins /\ to \in Removing

\* The requester is an administrator when the request arrives; the version is
\* the one the page showed.
UpdateUser(c, admin, u, to) ==
    /\ admin \in ActiveAdmins /\ to \in Targets \ {"password"}
    /\ ~(admin = u /\ to \in Removing)
    /\ Begin(c, "lock", u, to)

LockUser(c) ==
    /\ change[c].at = "lock" /\ ~HeldByOther(c, change[c].user)
    /\ LET u == change[c].user
       IN  IF user[u].version # change[c].version THEN Ends(c)
           ELSE Goes(c, IF RemovesAdministratorAccess(u, change[c].to) THEN "count" ELSE "write", {u})
    /\ UNCHANGED <<user, changes>>

\* All active administrators are locked, and then counted.
RefuseOrWrite(c, held) ==
    IF ActiveAdmins \ {change[c].user} = {} THEN Ends(c) ELSE Goes(c, "write", held)
CountWithoutLock(c) ==
    /\ change[c].at = "count"
    /\ RefuseOrWrite(c, {change[c].user})
    /\ UNCHANGED <<user, changes>>
CountAdministrators(c) ==
    /\ change[c].at = "count" /\ \A u \in ActiveAdmins : ~HeldByOther(c, u)
    /\ RefuseOrWrite(c, ActiveAdmins \union {change[c].user})
    /\ UNCHANGED <<user, changes>>

\* Two transactions each wait for the row the other holds: the database ends one.
Deadlock(c, d) ==
    /\ c # d /\ change[c].at = "count" /\ change[d].at = "count"
    /\ change[c].held \intersect ActiveAdmins # {} /\ change[d].held \intersect ActiveAdmins # {}
    /\ Ends(c)
    /\ UNCHANGED <<user, changes>>

Changed(u, to) ==
    [user[u] EXCEPT !.version = @ + 1,
        !.role = IF to \in {"USER", "ADMIN"} THEN to ELSE @,
        !.status = IF to \in {"ACTIVE", "SUSPENDED", "DELETED"} THEN to ELSE @]
CommitUser(c) ==
    /\ change[c].at = "write"
    /\ user' = [user EXCEPT ![change[c].user] = Changed(change[c].user, change[c].to)]
    /\ Ends(c)
    /\ UNCHANGED changes

\* A reset of the password, and the route that only sets the status.
ResetPassword(c, admin, u) == admin \in ActiveAdmins /\ Begin(c, "set", u, "password")
UpdateUserStatus(c, admin, u, to) ==
    /\ admin \in ActiveAdmins /\ to \in {"ACTIVE", "SUSPENDED"}
    /\ ~(admin = u /\ to = "SUSPENDED")
    /\ Begin(c, "set", u, to)
CommitConditional(c) ==
    /\ change[c].at = "set" /\ ~HeldByOther(c, change[c].user)
    /\ LET u == change[c].user
       IN  user' = IF user[u].version = change[c].version
                   THEN [user EXCEPT ![u] = Changed(u, change[c].to)] ELSE user
    /\ Ends(c)
    /\ UNCHANGED changes

Next ==
    \/ \E c \in Callers, admin, u \in Users, to \in Targets :
          UpdateUser(c, admin, u, to) \/ UpdateUserStatus(c, admin, u, to) \/ ResetPassword(c, admin, u)
    \/ \E c \in Callers :
          \/ LockUser(c) \/ CountAdministrators(c) \/ CommitUser(c) \/ CommitConditional(c)
          \/ \E d \in Callers : Deadlock(c, d)
    \/ \E admin, u \in Users : Register(u) \/ CreateManagedUser(admin, u)

Spec == Init /\ [][Next]_accountVars

---------------------------------------------------------------------------
(* Properties *)

\* An update of an account that takes away an administrator's access leaves
\* another active administrator, also when two of them are updated at once.
RemovalLeavesAdministrator ==
    [][\A c \in Callers :
          (change[c].at = "write" /\ RemovesAdministratorAccess(change[c].user, change[c].to)
           /\ change'[c] = NoChange) => ActiveAdmins' # {}]_accountVars

\* "the last active administrator cannot be removed"
\* (modules/adminmanagement/domain.go): some account always administers.
AdministratorRemains == ActiveAdmins # {}
=============================================================================
